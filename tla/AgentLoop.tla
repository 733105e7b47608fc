----------------------------- MODULE AgentLoop -----------------------------
(***************************************************************************)
(* One turn of the agent loop (internal/runtime/agentloop/loop.go) over    *)
(* the turn aggregate and its plan (internal/runtime/model).  What the     *)
(* model and the tools answer is nondeterministic; what the planner and    *)
(* the evaluator accept of it is not (validateDecision,                    *)
(* normalizeAssessment).  A turn has one goroutine: a step here is the     *)
(* code between two calls that leave the process.                          *)
(***************************************************************************)
EXTENDS Integers, Sequences, FiniteSets

CONSTANTS StepIds,      \* ids the planner gives to plan steps
          Fingerprints, \* a tool with its arguments, Action.Fingerprint
          MaxActions,   \* maxActions, 12 in the code
          MaxFailures,  \* maxConsecutiveFailures, 3 in the code
          MaxPlan       \* the longest plan RevisePlan accepts, 8 in the code

ASSUME LoopAssumption == {MaxActions, MaxFailures, MaxPlan} \subseteq Nat \ {0}

NoStep == "no step"
\* A plan step has an id of its own, and the response step has no action.
ASSUME StepAssumption == NoStep \notin StepIds \cup Fingerprints

VARIABLES pc,        \* where Run is
          plan,      \* plan[i]: the step with id i of turn.Plan, in its domain
          steps,     \* turn.Steps
          acts,      \* actionCount
          failures,  \* turn.ConsecutiveFailures
          out,       \* the disposition passed to finish, or error
          status     \* turn.Status

vars == <<pc, plan, steps, acts, failures, out, status>>

Completed == {i \in DOMAIN plan : plan[i].status = "completed"}
Current == steps[Len(steps)]

Init == /\ pc = "planning"
        /\ plan = <<>>
        /\ steps = <<>>
        /\ acts = 0 /\ failures = 0
        /\ out = "none"
        /\ status = "running"

-----------------------------------------------------------------------------
(* The turn. *)

\* Mutant: every step starts over.
Revised_StartsOver(ids) == [i \in Completed \cup ids |-> [status |-> "pending", evidence |-> 0]]

\* Mutant: a step's status is taken from the planner, which may claim it done.
Revised_TrustsPlanner(ids) ==
  [i \in Completed \cup ids |-> IF i \in Completed THEN plan[i]
                                ELSE [status |-> "completed", evidence |-> 0]]

\* RevisePlan: completed steps are kept, every other step starts over.
Revised(ids) == [i \in Completed \cup ids |-> IF i \in Completed THEN plan[i]
                                              ELSE [status |-> "pending", evidence |-> 0]]

\* Mutant: only the last step is compared.
HasFailedAction_LastOnly(f) == steps # <<>> /\ Current.action = f /\ Current.route = "wrong_route"

\* HasFailedAction
HasFailedAction(f) == \E n \in DOMAIN steps : steps[n].action = f /\ steps[n].route = "wrong_route"

\* PlanCanComplete
PlanCanComplete(id, satisfied) ==
  \A i \in DOMAIN plan : IF i = id THEN satisfied ELSE plan[i].status = "completed"

\* Mutant: a failed step leaves the plan alone.
CompleteStep_ForgetsPlan(err, route, satisfied) ==
  /\ steps' = [steps EXCEPT ![Len(steps)].status = IF err THEN "failed" ELSE "completed",
                            ![Len(steps)].route = route]
  /\ plan' = IF err THEN plan
             ELSE [plan EXCEPT ![Current.id] =
                     [status |-> IF satisfied THEN "completed" ELSE "pending",
                      evidence |-> IF satisfied THEN Len(steps) ELSE 0]]

\* CompleteStep with updatePlanStep: what becomes of the current step and of
\* the plan step it was for.  The evidence is the step that gave it.
CompleteStep(err, route, satisfied) ==
  LET n == Len(steps)
      planned == CASE err \/ route = "wrong_route" -> [status |-> "failed", evidence |-> 0]
                   [] ~err /\ route # "wrong_route" /\ satisfied
                        -> [status |-> "completed", evidence |-> n]
                   [] OTHER -> [status |-> "pending", evidence |-> 0]
  IN /\ steps' = [steps EXCEPT ![n].status = IF err THEN "failed" ELSE "completed",
                               ![n].route = route]
     /\ plan' = [plan EXCEPT ![steps[n].id] = planned]

-----------------------------------------------------------------------------
(* The loop. *)

\* Mutant: the action limit is not looked at.
Act_NoLimit(id, f, ids) ==
  /\ pc = "planning"
  /\ id \in ids /\ Cardinality(ids) <= MaxPlan
  /\ id \notin Completed
  /\ ~HasFailedAction(f)
  /\ plan' = [Revised(ids) EXCEPT ![id].status = "running"]
  /\ steps' = Append(steps, [id |-> id, action |-> f, status |-> "running", route |-> "no_signal"])
  /\ acts' = acts + 1
  /\ pc' = "executing"
  /\ UNCHANGED <<failures, out, status>>

\* Decide accepts an action: the plan it comes with has the current step, not
\* yet completed, and the action is not one that led astray.  The plan is
\* revised and BeginStep marks its step running.
Act(id, f, ids) ==
  /\ pc = "planning" /\ acts < MaxActions
  /\ id \in ids /\ Cardinality(ids) <= MaxPlan
  /\ id \notin Completed
  /\ ~HasFailedAction(f)
  /\ plan' = [Revised(ids) EXCEPT ![id].status = "running"]
  /\ steps' = Append(steps, [id |-> id, action |-> f, status |-> "running", route |-> "no_signal"])
  /\ acts' = acts + 1
  /\ pc' = "executing"
  /\ UNCHANGED <<failures, out, status>>

Conclude(o) == pc' = "responding" /\ out' = o

\* Mutant: nothing is done when the for loop has run out.
Respond_NotAtLimit == /\ pc = "planning" /\ acts < MaxActions
                      /\ \E o \in {"answer", "clarify", "blocked"} : Conclude(o)
                      /\ UNCHANGED <<plan, steps, acts, failures, status>>

\* Decide answers respond, or the for loop has run out.
Respond == /\ pc = "planning"
           /\ IF acts < MaxActions
              THEN \E o \in {"answer", "clarify", "blocked"} : Conclude(o)
              ELSE Conclude("blocked")
           /\ UNCHANGED <<plan, steps, acts, failures, status>>

\* Decide has no valid decision after its attempts: Run returns the error.
PlanFails == /\ pc = "planning" /\ acts < MaxActions
             /\ pc' = "returned" /\ out' = "error"
             /\ UNCHANGED <<plan, steps, acts, failures, status>>

\* Mutant: failures of tools are not limited.
ToolFails_NoLimit(recoverable) ==
  /\ pc = "executing"
  /\ CompleteStep(TRUE, "no_signal", FALSE)
  /\ UNCHANGED failures
  /\ IF recoverable THEN pc' = "planning" /\ UNCHANGED out ELSE Conclude("blocked")
  /\ UNCHANGED <<acts, status>>

\* Execute returns an error, or its artifacts are refused; classifyToolFailure
\* calls it recoverable or not.
ToolFails(recoverable) ==
  /\ pc = "executing"
  /\ CompleteStep(TRUE, "no_signal", FALSE)
  /\ failures' = failures + 1
  /\ IF recoverable /\ failures' < MaxFailures
     THEN pc' = "planning" /\ UNCHANGED out
     ELSE Conclude("blocked")
  /\ UNCHANGED <<acts, status>>

ToolSucceeds == /\ pc = "executing" /\ pc' = "judging"
                /\ UNCHANGED <<plan, steps, acts, failures, out, status>>

\* What normalizeAssessment lets pass, and what stands in for it when the
\* evaluator is unavailable.
Assessments ==
  {a \in [progress : {"continue", "complete", "blocked"},
          route : {"helpful", "wrong_route", "no_signal"},
          satisfied : BOOLEAN] : a.progress = "complete" => a.satisfied}
Unavailable == [progress |-> "continue", route |-> "no_signal", satisfied |-> FALSE]

Judge(a) ==
  /\ pc = "judging"
  /\ CompleteStep(FALSE, a.route, a.satisfied)
  /\ failures' = IF a.route = "wrong_route" THEN failures + 1 ELSE 0
  /\ LET done == a.progress = "complete" /\ PlanCanComplete(Current.id, a.satisfied)
     IN IF failures' >= MaxFailures \/ a.progress = "blocked"
        THEN Conclude("blocked")
        ELSE IF done THEN Conclude("answer")
        ELSE pc' = "planning" /\ UNCHANGED out
  /\ UNCHANGED <<acts, status>>

\* finish: the responder has answered, and the turn takes its final status, or
\* it has failed and Run returns its error.
TurnStatus == [answer |-> "completed", clarify |-> "awaiting_input", blocked |-> "blocked"]

BeginResponse(o) ==
  /\ pc = "responding" /\ pc' = "replied"
  /\ steps' = Append(steps, [id |-> NoStep, action |-> NoStep,
                             status |-> "running", route |-> "no_signal"])
  /\ out' = o
  /\ status' = IF o = "error" THEN status ELSE TurnStatus[o]
  /\ UNCHANGED <<plan, acts, failures>>

\* Mutant: the loop goes on after the response.
FinishResponse_GoesOn == /\ pc = "replied" /\ pc' = "planning"
                         /\ UNCHANGED <<plan, steps, acts, failures, out, status>>

FinishResponse ==
  /\ pc = "replied" /\ pc' = "returned"
  /\ steps' = [steps EXCEPT ![Len(steps)].status =
                 CASE out = "answer" -> "completed"
                   [] out = "clarify" -> "waiting_input"
                   [] OTHER -> "failed"]
  /\ UNCHANGED <<plan, acts, failures, out, status>>

Returned == pc = "returned" /\ UNCHANGED vars

Step == \/ \E ids \in SUBSET StepIds : \E id \in ids, f \in Fingerprints : Act(id, f, ids)
        \/ Respond \/ PlanFails
        \/ \E recoverable \in BOOLEAN : ToolFails(recoverable)
        \/ ToolSucceeds
        \/ \E a \in Assessments \cup {Unavailable} : Judge(a)
        \/ \E o \in {out, "error"} : BeginResponse(o)
        \/ FinishResponse

Next == Step \/ Returned

Safety == Init /\ [][Next]_vars

\* The planner, the evaluator and the responder return, if only with an error
\* (their calls time out, openai.go:51); a remote tool may never return.
Spec == Safety /\ WF_vars(pc # "executing" /\ Step)

-----------------------------------------------------------------------------
(* Properties. *)

Routes == {"helpful", "wrong_route", "no_signal"}
StepRecords == [id : StepIds \cup {NoStep}, action : Fingerprints \cup {NoStep},
                status : {"running", "completed", "failed", "waiting_input"}, route : Routes]
PlanRecords == [status : {"pending", "running", "completed", "failed"}, evidence : Nat]

TypeOK ==
  /\ pc \in {"planning", "executing", "judging", "responding", "replied", "returned"}
  /\ DOMAIN plan \subseteq StepIds /\ \A i \in DOMAIN plan : plan[i] \in PlanRecords
  /\ steps \in Seq(StepRecords)
  /\ acts \in 0..MaxActions
  /\ failures \in 0..MaxFailures
  /\ out \in {"none", "answer", "clarify", "blocked", "error"}
  /\ status \in {"running", "completed", "awaiting_input", "blocked"}

\* The plan names the step being worked on: a plan step is running exactly
\* while its action executes or is judged.
PlanTracksAction ==
  {i \in DOMAIN plan : plan[i].status = "running"}
    = IF pc \in {"executing", "judging"} THEN {Current.id} ELSE {}

\* A plan step is completed on evidence: the trajectory still has the step that
\* gave it, which was for this plan step, succeeded and did not lead astray.
CompletedOnEvidence ==
  \A i \in Completed : /\ plan[i].evidence \in DOMAIN steps
                       /\ LET s == steps[plan[i].evidence]
                          IN s.id = i /\ s.status = "completed" /\ s.route # "wrong_route"

\* The plan and the trajectory agree, on the step being worked on and on what is done.
PlanMatchesTrajectory == PlanTracksAction /\ CompletedOnEvidence

\* No revision of the plan and no later step takes back a completed plan step.
CompletionsSurvive == [][\A i \in Completed : i \in DOMAIN plan' /\ plan'[i] = plan[i]]_vars

\* An action found to be the wrong route is not taken again in this turn
\* (planner_test.go, TestValidateDecisionRejectsExactFailedAction).
NoWrongRouteTwice ==
  \A m, n \in DOMAIN steps : m < n /\ steps[m].route = "wrong_route" => steps[n].action # steps[m].action

\* The trajectory has a successful action for the plan step i, and not one that
\* led astray, unless it is the last one.
WorkedOn(i) ==
  \E n \in DOMAIN steps : /\ steps[n].id = i
                          /\ steps[n].status = "completed"
                          /\ steps[n].route # "wrong_route" \/ n = Len(steps)

\* When the evaluator ends a turn with an answer, work was done in this turn for
\* every step of the plan, the one just judged included, however often the plan
\* was revised and whatever the planner claimed of its steps (loop_test.go,
\* TestExplicitPlanPreventsPrematureCompletion).  The last action may have led
\* astray: nothing refuses an assessment that is complete and wrong_route.  An
\* answer the planner decides on by itself is free.
AnswersRestOnWork ==
  [][pc = "judging" /\ out' = "answer" => (\A i \in DOMAIN plan : WorkedOn(i))']_vars

\* The limit on failures is kept: the planner is not asked after MaxFailures
\* steps in a row that failed or led astray.
FailuresStopTheTurn ==
  pc = "planning" /\ Len(steps) >= MaxFailures =>
    \E n \in Len(steps) - MaxFailures + 1 .. Len(steps) :
      steps[n].status = "completed" /\ steps[n].route # "wrong_route"

\* Every turn returns, unless one of its tools never does.
TurnEnds == <>(pc = "returned") \/ <>[](pc = "executing")

\* The turn as its caller sees it.
Phase == CASE pc \in {"executing", "judging"} -> "acting"
           [] pc = "returned" -> "over"
           [] OTHER -> pc
\* The contract starts outside the turn; Run starts inside it.
Contract == INSTANCE LoopContract WITH phase <- Phase
ImplementsLoop == [][Contract!CNext]_<<Phase, acts, out>>

-----------------------------------------------------------------------------
(* What the repository says of the code and the code does not keep. *)

\* "Never repeat the same failed tool and arguments in one turn." (OCTOSUCKER.md:12)
NoFailedActionTwice ==
  \A m, n \in DOMAIN steps :
    m < n /\ steps[m].action # NoStep /\ steps[m].status = "failed" => steps[n].action # steps[m].action
=============================================================================
