--------------------------- MODULE AgentLoop_proofs ---------------------------
(***************************************************************************)
(* Proofs about AgentLoop for any plan steps, any actions and any limits:  *)
(* every safety property its run checks, and that it keeps LoopContract.   *)
(***************************************************************************)
EXTENDS AgentLoop, FiniteSetTheorems, TLAPS

-----------------------------------------------------------------------------
(* The inductive invariant. *)

Deciding == pc \in {"planning", "executing", "judging"}
Acting == pc \in {"executing", "judging"}

\* How a turn ends is not known before its response.
OpenEnd == Deciding => out = "none" /\ failures < MaxFailures

\* A concluded turn knows it.
Concluded == pc \in {"responding", "replied"} => out # "none"

\* The step being worked on is the last one of the trajectory, is running, and
\* is an action until the turn responds.
LastRuns == /\ Acting \/ pc = "replied" => steps # <<>> /\ Current.status = "running"
            /\ Acting => Current.action # NoStep

\* A step that led astray was an action.
AstrayActed == \A n \in DOMAIN steps : steps[n].route = "wrong_route" => steps[n].action # NoStep

\* How many steps of the trajectory have been judged.
Judged == IF Acting THEN Len(steps) - 1 ELSE Len(steps)
Helped(n) == steps[n].status = "completed" /\ steps[n].route # "wrong_route"

\* The counter of failures reaches back to the last step that helped.
FailuresCounted ==
  Deciding => /\ failures <= Judged
              /\ failures < Judged => Helped(Judged - failures)

LoopInv == /\ TypeOK
           /\ OpenEnd /\ Concluded /\ LastRuns
           /\ PlanTracksAction /\ CompletedOnEvidence
           /\ AstrayActed /\ NoWrongRouteTwice
           /\ FailuresCounted

-----------------------------------------------------------------------------
(* The trajectory. *)

\* A step put behind the trajectory leaves every step of it in its place.
LEMMA Appended ==
  ASSUME NEW S, NEW s \in Seq(S), NEW e \in S
  PROVE  /\ Append(s, e) \in Seq(S) /\ Append(s, e) # <<>>
         /\ Len(Append(s, e)) = Len(s) + 1 /\ Len(s) \in Nat
         /\ DOMAIN Append(s, e) = 1..(Len(s) + 1) /\ DOMAIN s = 1..Len(s)
         /\ \A n \in 1..Len(s) : Append(s, e)[n] = s[n]
         /\ Append(s, e)[Len(s) + 1] = e
OBVIOUS

\* A step of it replaced leaves every other step in its place.
LEMMA Replaced ==
  ASSUME NEW S, NEW s \in Seq(S), NEW n \in 1..Len(s), NEW e \in S
  PROVE  /\ [s EXCEPT ![n] = e] \in Seq(S)
         /\ Len([s EXCEPT ![n] = e]) = Len(s)
         /\ DOMAIN [s EXCEPT ![n] = e] = 1..Len(s)
         /\ [s EXCEPT ![n] = e][n] = e
         /\ \A m \in 1..Len(s) : m # n => [s EXCEPT ![n] = e][m] = s[m]
OBVIOUS

\* Completing the step being worked on changes its status and its route, and
\* no other step.
LEMMA StepCompleted ==
  ASSUME TypeOK, steps # <<>>,
         NEW err \in BOOLEAN, NEW route \in Routes, NEW satisfied \in BOOLEAN,
         CompleteStep(err, route, satisfied)
  PROVE  /\ steps' \in Seq(StepRecords) /\ Len(steps') = Len(steps)
         /\ Len(steps) \in Nat \ {0} /\ DOMAIN steps = 1..Len(steps)
         /\ DOMAIN steps' = 1..Len(steps)
         /\ \A n \in 1..(Len(steps) - 1) : steps'[n] = steps[n]
         /\ steps'[Len(steps)].id = Current.id
         /\ steps'[Len(steps)].action = Current.action
         /\ steps'[Len(steps)].status = IF err THEN "failed" ELSE "completed"
         /\ steps'[Len(steps)].route = route
<1> DEFINE n == Len(steps)
           done == [steps[n] EXCEPT !.status = IF err THEN "failed" ELSE "completed",
                                    !.route = route]
<1>1. steps \in Seq(StepRecords) /\ n \in Nat \ {0} /\ DOMAIN steps = 1..n
  BY DEF TypeOK
<1>2. steps[n] \in StepRecords
  BY <1>1
<1>3. /\ done \in StepRecords
      /\ done.id = steps[n].id /\ done.action = steps[n].action
      /\ done.status = IF err THEN "failed" ELSE "completed"
      /\ done.route = route
  BY <1>2 DEF StepRecords, Routes
<1>4. steps' = [steps EXCEPT ![n] = done]
  BY DEF CompleteStep
<1> HIDE DEF done
<1> HIDE DEF n
<1>5. /\ [steps EXCEPT ![n] = done] \in Seq(StepRecords)
      /\ Len([steps EXCEPT ![n] = done]) = Len(steps)
      /\ DOMAIN [steps EXCEPT ![n] = done] = 1..Len(steps)
      /\ [steps EXCEPT ![n] = done][n] = done
      /\ \A m \in 1..Len(steps) : m # n => [steps EXCEPT ![n] = done][m] = steps[m]
  <2>1. steps \in Seq(StepRecords) /\ n \in 1..Len(steps) /\ done \in StepRecords
    BY <1>1, <1>3 DEF n
  <2>2. QED
    BY <2>1, Replaced
<1>6. /\ steps' \in Seq(StepRecords) /\ Len(steps') = Len(steps) /\ DOMAIN steps' = 1..Len(steps)
      /\ steps'[n] = done /\ \A m \in 1..Len(steps) : m # n => steps'[m] = steps[m]
  BY <1>4, <1>5
<1>7. n = Len(steps) /\ steps[n] = Current
  BY DEF n, Current
<1>8. Len(steps) \in Nat \ {0} /\ \A m \in 1..(Len(steps) - 1) : steps'[m] = steps[m]
  <2>1. Len(steps) \in Nat \ {0}
    BY <1>1, <1>7
  <2>2. ASSUME NEW m \in 1..(Len(steps) - 1) PROVE m \in 1..Len(steps) /\ m # n
    BY <2>1, <1>7
  <2>3. QED
    BY <2>1, <2>2, <1>6
<1>9. steps'[Len(steps)] = done
  BY <1>6, <1>7
<1>10. /\ done.id = Current.id /\ done.action = Current.action
       /\ done.status = (IF err THEN "failed" ELSE "completed") /\ done.route = route
  BY <1>3, <1>7
<1>11. DOMAIN steps = 1..Len(steps)
  BY <1>1, <1>7
<1>12. QED
  BY <1>6, <1>8, <1>9, <1>10, <1>11

\* Completing it changes the plan step it was for, and no other plan step.
LEMMA PlanUpdated ==
  ASSUME TypeOK, PlanTracksAction, Acting, steps # <<>>,
         NEW err \in BOOLEAN, NEW route \in Routes, NEW satisfied \in BOOLEAN,
         CompleteStep(err, route, satisfied)
  PROVE  /\ Current.id \in DOMAIN plan /\ Current.id \notin Completed
         /\ DOMAIN plan' = DOMAIN plan
         /\ \A i \in DOMAIN plan \ {Current.id} : plan'[i] = plan[i]
         /\ plan'[Current.id] \in PlanRecords
         /\ plan'[Current.id].status # "running"
         /\ plan'[Current.id].status = "completed" =>
              ~err /\ route # "wrong_route" /\ plan'[Current.id].evidence = Len(steps)
<1>1. Current.id \in DOMAIN plan /\ plan[Current.id].status = "running"
  BY DEF PlanTracksAction, Acting
<1>2. Len(steps) \in Nat
  BY DEF TypeOK
<1> DEFINE planned == CASE err \/ route = "wrong_route" -> [status |-> "failed", evidence |-> 0]
                        [] ~err /\ route # "wrong_route" /\ satisfied
                             -> [status |-> "completed", evidence |-> Len(steps)]
                        [] OTHER -> [status |-> "pending", evidence |-> 0]
<1>3. plan' = [plan EXCEPT ![Current.id] = planned]
  BY DEF CompleteStep, Current
<1>4. /\ planned \in PlanRecords /\ planned.status # "running"
      /\ planned.status = "completed" =>
           ~err /\ route # "wrong_route" /\ planned.evidence = Len(steps)
  BY <1>2 DEF PlanRecords
<1> HIDE DEF planned
<1>5. QED
  BY <1>1, <1>3, <1>4 DEF Completed

-----------------------------------------------------------------------------
(* The steps of the loop. *)

\* The turn begins with an empty trajectory.
LEMMA LoopInit == Init => LoopInv
<1> SUFFICES ASSUME Init PROVE LoopInv
  OBVIOUS
<1> USE DEF Init
<1>1. MaxActions \in Nat \ {0} /\ MaxFailures \in Nat \ {0}
  BY LoopAssumption
<1>2. plan = <<>> /\ DOMAIN plan = {} /\ steps \in Seq(StepRecords) /\ DOMAIN steps = {} /\ Len(steps) = 0
  OBVIOUS
<1>3. TypeOK
  BY <1>1, <1>2 DEF TypeOK
<1>4. OpenEnd /\ Concluded /\ LastRuns /\ AstrayActed /\ NoWrongRouteTwice
  BY <1>1, <1>2 DEF OpenEnd, Concluded, LastRuns, AstrayActed, NoWrongRouteTwice, Deciding, Acting
<1>5. PlanTracksAction /\ CompletedOnEvidence
  BY <1>2 DEF PlanTracksAction, CompletedOnEvidence, Completed
<1>6. FailuresCounted
  BY <1>2 DEF FailuresCounted, Judged, Acting
<1>7. QED
  BY <1>3, <1>4, <1>5, <1>6 DEF LoopInv

\* The plan an action comes with: completed steps as they were, its own step
\* running, every other one pending.
LEMMA PlanRevised ==
  ASSUME TypeOK, PlanTracksAction, pc = "planning",
         NEW ids \in SUBSET StepIds, NEW id \in ids, id \notin Completed,
         plan' = [Revised(ids) EXCEPT ![id].status = "running"]
  PROVE  /\ DOMAIN plan' = Completed \cup ids /\ DOMAIN plan' \subseteq StepIds
         /\ \A i \in DOMAIN plan' : plan'[i] \in PlanRecords
         /\ Completed' = Completed /\ \A i \in Completed : plan'[i] = plan[i]
         /\ {i \in DOMAIN plan' : plan'[i].status = "running"} = {id}
<1>1. DOMAIN plan \subseteq StepIds /\ Completed \subseteq DOMAIN plan
  BY DEF TypeOK, Completed
<1>2. ASSUME NEW i \in Completed
      PROVE  i \in DOMAIN plan' /\ plan'[i] = plan[i] /\ plan'[i].status = "completed"
  BY <1>2 DEF Revised, Completed
<1> DEFINE fresh == [status |-> "pending", evidence |-> 0]
<1>3. plan'[id] = [fresh EXCEPT !.status = "running"]
  BY DEF Revised
<1>4. ASSUME NEW i \in ids, i \notin Completed, i # id
      PROVE  plan'[i] = fresh
  BY <1>4 DEF Revised
<1>5. DOMAIN plan' = Completed \cup ids
  BY DEF Revised
<1>6. plan'[id].status = "running" /\ plan'[id] \in PlanRecords
  BY <1>3 DEF PlanRecords
<1>7. fresh.status = "pending" /\ fresh \in PlanRecords
  BY DEF PlanRecords
<1> HIDE DEF fresh
<1>8. \A i \in Completed : plan[i] \in PlanRecords
  BY <1>1 DEF TypeOK
<1>9. \A i \in DOMAIN plan' : plan'[i] \in PlanRecords
  BY <1>2, <1>4, <1>5, <1>6, <1>7, <1>8
<1>10. {i \in DOMAIN plan' : plan'[i].status = "completed"} = Completed
  BY <1>2, <1>4, <1>5, <1>6, <1>7
<1>11. {i \in DOMAIN plan' : plan'[i].status = "running"} = {id}
  BY <1>2, <1>4, <1>5, <1>6, <1>7
<1>12. QED
  BY <1>1, <1>2, <1>5, <1>9, <1>10, <1>11 DEF Completed

\* An action: the step it begins is new, for a plan step not yet completed, and
\* no earlier step with this action led astray.
LEMMA ActKeeps ==
  ASSUME LoopInv, NEW ids \in SUBSET StepIds, NEW id \in ids, NEW f \in Fingerprints,
         Act(id, f, ids)
  PROVE  LoopInv'
<1> DEFINE begun == [id |-> id, action |-> f, status |-> "running", route |-> "no_signal"]
<1>1. /\ pc = "planning" /\ pc' = "executing" /\ acts < MaxActions /\ acts' = acts + 1
      /\ id \notin Completed /\ ~HasFailedAction(f)
      /\ plan' = [Revised(ids) EXCEPT ![id].status = "running"]
      /\ steps' = Append(steps, begun)
      /\ failures' = failures /\ out' = out /\ status' = status
  BY DEF Act
<1>2. begun \in StepRecords /\ begun.id = id /\ begun.action = f /\ begun.action # NoStep
      /\ begun.status = "running" /\ begun.route = "no_signal"
  BY StepAssumption DEF StepRecords, Routes
<1> HIDE DEF begun
<1>3. /\ steps' \in Seq(StepRecords) /\ steps' # <<>>
      /\ Len(steps') = Len(steps) + 1 /\ Len(steps) \in Nat
      /\ DOMAIN steps' = 1..(Len(steps) + 1) /\ DOMAIN steps = 1..Len(steps)
      /\ \A n \in 1..Len(steps) : steps'[n] = steps[n]
      /\ steps'[Len(steps) + 1] = begun
  BY <1>1, <1>2, Appended DEF LoopInv, TypeOK
<1>4. /\ DOMAIN plan' = Completed \cup ids /\ DOMAIN plan' \subseteq StepIds
      /\ \A i \in DOMAIN plan' : plan'[i] \in PlanRecords
      /\ Completed' = Completed /\ \A i \in Completed : plan'[i] = plan[i]
      /\ {i \in DOMAIN plan' : plan'[i].status = "running"} = {id}
  BY <1>1, PlanRevised DEF LoopInv
<1>5. Current' = begun
  BY <1>3 DEF Current
<1>6. TypeOK'
  BY <1>1, <1>3, <1>4, LoopAssumption DEF LoopInv, TypeOK
<1>7. OpenEnd' /\ Concluded'
  BY <1>1 DEF LoopInv, OpenEnd, Concluded, Deciding
<1>8. LastRuns'
  BY <1>2, <1>3, <1>5 DEF LastRuns
<1>9. PlanTracksAction'
  BY <1>1, <1>2, <1>4, <1>5 DEF PlanTracksAction
<1>10. CompletedOnEvidence'
  BY <1>3, <1>4 DEF LoopInv, CompletedOnEvidence
<1>11. AstrayActed'
  BY <1>2, <1>3 DEF LoopInv, AstrayActed
<1>12. NoWrongRouteTwice'
  BY <1>1, <1>2, <1>3 DEF LoopInv, NoWrongRouteTwice, HasFailedAction
<1>13. FailuresCounted'
  <2>1. Judged' = Len(steps) /\ Judged = Len(steps)
    BY <1>1, <1>3 DEF Judged, Acting
  <2>2. failures \in Nat /\ failures <= Len(steps)
        /\ (failures < Len(steps) => Helped(Len(steps) - failures))
    BY <1>1, <2>1 DEF LoopInv, FailuresCounted, Deciding, TypeOK
  <2>3. \A n \in 1..Len(steps) : Helped(n) => Helped(n)'
    BY <1>3 DEF Helped
  <2>4. QED
    BY <1>1, <1>3, <2>1, <2>2, <2>3 DEF FailuresCounted
<1>14. QED
  BY <1>6, <1>7, <1>8, <1>9, <1>10, <1>11, <1>12, <1>13 DEF LoopInv

\* Whatever becomes of the step being worked on, the plan and the trajectory
\* still agree when it is done.
LEMMA CompletedKeeps ==
  ASSUME LoopInv, Acting,
         NEW err \in BOOLEAN, NEW route \in Routes, NEW satisfied \in BOOLEAN,
         err => route # "wrong_route",
         CompleteStep(err, route, satisfied), pc' \in {"planning", "responding"}
  PROVE  /\ steps' \in Seq(StepRecords)
         /\ DOMAIN plan' \subseteq StepIds /\ \A i \in DOMAIN plan' : plan'[i] \in PlanRecords
         /\ LastRuns' /\ PlanTracksAction' /\ CompletedOnEvidence'
         /\ AstrayActed' /\ NoWrongRouteTwice'
<1> DEFINE last == Len(steps)
<1>1. steps # <<>> /\ steps[last].status = "running" /\ Current = steps[last]
  BY DEF LoopInv, LastRuns, Current
<1>2. /\ steps' \in Seq(StepRecords) /\ Len(steps') = last
      /\ last \in Nat \ {0} /\ DOMAIN steps = 1..last /\ DOMAIN steps' = 1..last
      /\ \A n \in 1..(last - 1) : steps'[n] = steps[n]
      /\ steps'[last].id = Current.id /\ steps'[last].action = Current.action
      /\ steps'[last].status = (IF err THEN "failed" ELSE "completed")
      /\ steps'[last].route = route
  BY <1>1, StepCompleted DEF LoopInv
<1>3. /\ Current.id \in DOMAIN plan /\ Current.id \notin Completed
      /\ DOMAIN plan' = DOMAIN plan
      /\ \A i \in DOMAIN plan \ {Current.id} : plan'[i] = plan[i]
      /\ plan'[Current.id] \in PlanRecords
      /\ plan'[Current.id].status # "running"
      /\ plan'[Current.id].status = "completed" =>
           ~err /\ route # "wrong_route" /\ plan'[Current.id].evidence = last
  BY <1>1, PlanUpdated DEF LoopInv
<1> HIDE DEF last
<1>4. DOMAIN plan' \subseteq StepIds /\ \A i \in DOMAIN plan' : plan'[i] \in PlanRecords
  BY <1>3 DEF LoopInv, TypeOK
<1>5. LastRuns'
  BY DEF LastRuns, Acting
<1>6. PlanTracksAction'
  <2>1. {i \in DOMAIN plan : plan[i].status = "running"} = {Current.id}
    BY DEF LoopInv, PlanTracksAction, Acting
  <2>2. {i \in DOMAIN plan' : plan'[i].status = "running"} = {}
    BY <1>3, <2>1
  <2>3. QED
    BY <2>2 DEF PlanTracksAction
<1>7. CompletedOnEvidence'
  <2> SUFFICES ASSUME NEW i \in Completed'
               PROVE  /\ plan'[i].evidence \in DOMAIN steps'
                      /\ steps'[plan'[i].evidence].id = i
                      /\ steps'[plan'[i].evidence].status = "completed"
                      /\ steps'[plan'[i].evidence].route # "wrong_route"
    BY DEF CompletedOnEvidence
  <2>1. i \in DOMAIN plan' /\ plan'[i].status = "completed"
    BY DEF Completed
  <2>2. CASE i = Current.id
    BY <1>2, <1>3, <2>1, <2>2
  <2>3. CASE i # Current.id
    <3>1. i \in Completed /\ plan'[i] = plan[i]
      BY <1>3, <2>1, <2>3 DEF Completed
    <3>2. /\ plan[i].evidence \in 1..last
          /\ steps[plan[i].evidence].id = i
          /\ steps[plan[i].evidence].status = "completed"
          /\ steps[plan[i].evidence].route # "wrong_route"
      BY <1>2, <3>1 DEF LoopInv, CompletedOnEvidence
    <3>3. plan[i].evidence \in 1..(last - 1)
      BY <1>1, <1>2, <3>2
    <3>4. QED
      BY <1>2, <3>1, <3>2, <3>3
  <2>4. QED
    BY <2>2, <2>3
<1>8. Current.action # NoStep
  BY DEF LoopInv, LastRuns
<1>9. AstrayActed'
  BY <1>2, <1>8 DEF LoopInv, AstrayActed
<1>10. NoWrongRouteTwice'
  <2> SUFFICES ASSUME NEW m \in 1..last, NEW n \in 1..last, m < n, steps'[m].route = "wrong_route"
               PROVE  steps'[n].action # steps'[m].action
    BY <1>2 DEF NoWrongRouteTwice
  <2>1. m \in 1..(last - 1) /\ steps'[m] = steps[m]
    BY <1>2
  <2>2. steps'[n].action = steps[n].action
    BY <1>1, <1>2
  <2>3. QED
    BY <1>2, <2>1, <2>2 DEF LoopInv, NoWrongRouteTwice
<1>11. QED
  BY <1>2, <1>4, <1>5, <1>6, <1>7, <1>9, <1>10

\* A tool that fails adds one to the failures in a row.
LEMMA ToolFailsKeeps ==
  ASSUME LoopInv, NEW recoverable \in BOOLEAN, ToolFails(recoverable) PROVE LoopInv'
<1>1. /\ pc = "executing" /\ failures' = failures + 1
      /\ CompleteStep(TRUE, "no_signal", FALSE)
      /\ \/ failures' < MaxFailures /\ pc' = "planning" /\ out' = out
         \/ pc' = "responding" /\ out' = "blocked"
      /\ acts' = acts /\ status' = status
  BY DEF ToolFails, Conclude
<1>2. Acting /\ steps # <<>>
  BY <1>1 DEF LoopInv, Acting, LastRuns
<1>3. /\ steps' \in Seq(StepRecords)
      /\ DOMAIN plan' \subseteq StepIds /\ \A i \in DOMAIN plan' : plan'[i] \in PlanRecords
      /\ LastRuns' /\ PlanTracksAction' /\ CompletedOnEvidence'
      /\ AstrayActed' /\ NoWrongRouteTwice'
  BY <1>1, <1>2, CompletedKeeps DEF Routes
<1>4. failures \in Nat /\ failures < MaxFailures /\ out = "none" /\ MaxFailures \in Nat
  BY <1>1, LoopAssumption DEF LoopInv, TypeOK, OpenEnd, Deciding
<1>5. TypeOK'
  BY <1>1, <1>3, <1>4 DEF LoopInv, TypeOK
<1>6. OpenEnd' /\ Concluded'
  BY <1>1, <1>4 DEF OpenEnd, Concluded, Deciding
<1>7. FailuresCounted'
  <2>1. /\ Len(steps') = Len(steps) /\ Len(steps) \in Nat \ {0}
        /\ \A n \in 1..(Len(steps) - 1) : steps'[n] = steps[n]
    BY <1>1, <1>2, StepCompleted DEF LoopInv, Routes
  <2>2. Judged = Len(steps) - 1 /\ Judged' = Len(steps)
    BY <1>1, <2>1 DEF Judged, Acting
  <2>3. /\ failures <= Len(steps) - 1
        /\ failures < Len(steps) - 1 => Helped(Len(steps) - 1 - failures)
    BY <1>1, <2>2 DEF LoopInv, FailuresCounted, Deciding
  <2>4. ASSUME failures' < Len(steps)
        PROVE  LET n == Len(steps) - failures'
               IN steps'[n].status = "completed" /\ steps'[n].route # "wrong_route"
    <3>1. /\ Len(steps) - failures' \in 1..(Len(steps) - 1)
          /\ Len(steps) - failures' = Len(steps) - 1 - failures
      BY <1>1, <1>4, <2>1, <2>4
    <3>2. Helped(Len(steps) - failures')
      BY <1>1, <1>4, <2>1, <2>3, <3>1, <2>4
    <3>3. QED
      BY <2>1, <3>1, <3>2 DEF Helped
  <2>5. failures' <= Len(steps)
    BY <1>1, <1>4, <2>1, <2>3
  <2>6. QED
    BY <2>2, <2>4, <2>5 DEF FailuresCounted, Helped
<1>8. QED
  BY <1>3, <1>5, <1>6, <1>7 DEF LoopInv

\* What the evaluator answers, or what stands in for it, has the types.
LEMMA AssessmentTypes ==
  ASSUME NEW a \in Assessments \cup {Unavailable}
  PROVE  a.route \in Routes /\ a.satisfied \in BOOLEAN
<1>1. CASE a \in Assessments
  BY <1>1 DEF Assessments, Routes
<1>2. CASE a = Unavailable
  BY <1>2 DEF Unavailable, Routes
<1>3. QED
  BY <1>1, <1>2

\* An assessment adds one to them or ends the row.
LEMMA JudgeKeeps ==
  ASSUME LoopInv, NEW a \in Assessments \cup {Unavailable}, Judge(a) PROVE LoopInv'
<1>1. a.route \in Routes /\ a.satisfied \in BOOLEAN
  BY AssessmentTypes
<1>2. /\ pc = "judging" /\ CompleteStep(FALSE, a.route, a.satisfied)
      /\ failures' = IF a.route = "wrong_route" THEN failures + 1 ELSE 0
      /\ \/ failures' < MaxFailures /\ pc' = "planning" /\ out' = out
         \/ pc' = "responding" /\ out' \in {"answer", "blocked"}
      /\ acts' = acts /\ status' = status
  <2>1. failures' \in Nat /\ MaxFailures \in Nat
    BY LoopAssumption DEF Judge, LoopInv, TypeOK
  <2>2. CASE failures' >= MaxFailures \/ a.progress = "blocked"
    BY <2>1, <2>2 DEF Judge, Conclude
  <2>3. CASE ~(failures' >= MaxFailures \/ a.progress = "blocked")
    <3>1. failures' < MaxFailures
      BY <2>1, <2>3
    <3>2. \/ pc' = "planning" /\ out' = out
          \/ pc' = "responding" /\ out' = "answer"
      BY <2>3, Zenon DEF Judge, Conclude
    <3>3. QED
      BY <3>1, <3>2 DEF Judge
  <2>4. QED
    BY <2>2, <2>3
<1>3. Acting /\ steps # <<>>
  BY <1>2 DEF LoopInv, Acting, LastRuns
<1>4. /\ steps' \in Seq(StepRecords)
      /\ DOMAIN plan' \subseteq StepIds /\ \A i \in DOMAIN plan' : plan'[i] \in PlanRecords
      /\ LastRuns' /\ PlanTracksAction' /\ CompletedOnEvidence'
      /\ AstrayActed' /\ NoWrongRouteTwice'
  BY <1>1, <1>2, <1>3, CompletedKeeps
<1>5. failures \in Nat /\ failures < MaxFailures /\ out = "none" /\ MaxFailures \in Nat
  BY <1>2, LoopAssumption DEF LoopInv, TypeOK, OpenEnd, Deciding
<1>6. TypeOK'
  BY <1>2, <1>4, <1>5 DEF LoopInv, TypeOK
<1>7. OpenEnd' /\ Concluded'
  BY <1>2, <1>5 DEF OpenEnd, Concluded, Deciding
<1>8. FailuresCounted'
  <2>1. /\ Len(steps') = Len(steps) /\ Len(steps) \in Nat \ {0}
        /\ \A n \in 1..(Len(steps) - 1) : steps'[n] = steps[n]
        /\ steps'[Len(steps)].status = "completed"
        /\ steps'[Len(steps)].route = a.route
    BY <1>1, <1>2, <1>3, StepCompleted DEF LoopInv
  <2>2. Judged = Len(steps) - 1 /\ Judged' = Len(steps)
    BY <1>2, <2>1 DEF Judged, Acting
  <2>3. CASE a.route = "wrong_route"
    <3>1. failures' = failures + 1
      BY <1>2, <2>3
    <3>2. /\ failures <= Len(steps) - 1
          /\ failures < Len(steps) - 1 => Helped(Len(steps) - 1 - failures)
      BY <1>2, <2>2 DEF LoopInv, FailuresCounted, Deciding
    <3>3. ASSUME failures' < Len(steps)
          PROVE  LET n == Len(steps) - failures'
                 IN steps'[n].status = "completed" /\ steps'[n].route # "wrong_route"
      <4>1. /\ Len(steps) - failures' \in 1..(Len(steps) - 1)
            /\ Len(steps) - failures' = Len(steps) - 1 - failures
        BY <1>5, <2>1, <3>1, <3>3
      <4>2. Helped(Len(steps) - failures')
        BY <1>5, <2>1, <3>1, <3>2, <4>1, <3>3
      <4>3. QED
        BY <2>1, <4>1, <4>2 DEF Helped
    <3>4. failures' <= Len(steps)
      BY <1>5, <2>1, <3>1, <3>2
    <3>5. QED
      BY <2>2, <3>3, <3>4 DEF FailuresCounted, Helped
  <2>4. CASE a.route # "wrong_route"
    <3>1. failures' = 0 /\ Helped(Len(steps))'
      BY <1>2, <2>1, <2>4 DEF Helped
    <3>2. QED
      BY <2>1, <2>2, <3>1 DEF FailuresCounted
  <2>5. QED
    BY <2>3, <2>4
<1>9. QED
  BY <1>4, <1>6, <1>7, <1>8 DEF LoopInv

\* A step that leaves the plan, the trajectory and the counters as they are.
LEMMA PassKeeps ==
  ASSUME LoopInv, Respond \/ PlanFails \/ ToolSucceeds PROVE LoopInv'
<1>1. UNCHANGED <<plan, steps, acts, failures, status>>
  BY DEF Respond, PlanFails, ToolSucceeds
<1>2. \/ pc = "planning" /\ pc' = "responding" /\ out' \in {"answer", "clarify", "blocked"}
      \/ pc = "planning" /\ pc' = "returned" /\ out' = "error"
      \/ pc = "executing" /\ pc' = "judging" /\ out' = out
  BY DEF Respond, PlanFails, ToolSucceeds, Conclude
<1>3. TypeOK' /\ OpenEnd' /\ Concluded'
  BY <1>1, <1>2 DEF LoopInv, TypeOK, OpenEnd, Concluded, Deciding
<1>4. Current' = Current /\ Completed' = Completed
  BY <1>1 DEF Current, Completed
<1>5. LastRuns'
  BY <1>1, <1>2, <1>4 DEF LoopInv, LastRuns, Acting
<1>6. PlanTracksAction'
  BY <1>1, <1>2, <1>4 DEF LoopInv, PlanTracksAction
<1>7. CompletedOnEvidence' /\ AstrayActed' /\ NoWrongRouteTwice'
  BY <1>1, <1>4 DEF LoopInv, CompletedOnEvidence, AstrayActed, NoWrongRouteTwice
<1>8. FailuresCounted'
  <2>1. CASE Deciding'
    <3>1. Judged' = Judged /\ Deciding
      BY <1>1, <1>2, <2>1 DEF Deciding, Judged, Acting
    <3>2. QED
      BY <1>1, <3>1 DEF LoopInv, FailuresCounted, Helped
  <2>2. QED
    BY <2>1 DEF FailuresCounted
<1>9. QED
  BY <1>3, <1>5, <1>6, <1>7, <1>8 DEF LoopInv

\* The response is a step of its own, behind the actions.
LEMMA BeginResponseKeeps ==
  ASSUME LoopInv, NEW o \in {out, "error"}, BeginResponse(o) PROVE LoopInv'
<1> DEFINE reply == [id |-> NoStep, action |-> NoStep, status |-> "running", route |-> "no_signal"]
<1>1. /\ pc = "responding" /\ pc' = "replied" /\ out' = o
      /\ steps' = Append(steps, reply)
      /\ status' = IF o = "error" THEN status ELSE TurnStatus[o]
      /\ UNCHANGED <<plan, acts, failures>>
  BY DEF BeginResponse
<1>2. /\ reply \in StepRecords /\ reply.action = NoStep
      /\ reply.status = "running" /\ reply.route = "no_signal"
  BY DEF StepRecords, Routes
<1> HIDE DEF reply
<1>3. /\ steps' \in Seq(StepRecords) /\ steps' # <<>>
      /\ Len(steps') = Len(steps) + 1 /\ Len(steps) \in Nat
      /\ DOMAIN steps' = 1..(Len(steps) + 1) /\ DOMAIN steps = 1..Len(steps)
      /\ \A n \in 1..Len(steps) : steps'[n] = steps[n]
      /\ steps'[Len(steps) + 1] = reply
  BY <1>1, <1>2, Appended DEF LoopInv, TypeOK
<1>4. o \in {"answer", "clarify", "blocked", "error"}
  BY <1>1 DEF LoopInv, TypeOK, Concluded
<1>5. status' \in {"running", "completed", "awaiting_input", "blocked"}
  BY <1>1, <1>4 DEF TurnStatus, LoopInv, TypeOK
<1>6. TypeOK'
  BY <1>1, <1>3, <1>4, <1>5 DEF LoopInv, TypeOK
<1>7. OpenEnd' /\ Concluded'
  BY <1>1, <1>4 DEF OpenEnd, Concluded, Deciding
<1>8. LastRuns'
  BY <1>1, <1>2, <1>3 DEF LastRuns, Current, Acting
<1>9. Completed' = Completed
  BY <1>1 DEF Completed
<1>10. PlanTracksAction'
  BY <1>1 DEF LoopInv, PlanTracksAction
<1>11. CompletedOnEvidence'
  BY <1>1, <1>3, <1>9 DEF LoopInv, CompletedOnEvidence
<1>12. AstrayActed'
  BY <1>2, <1>3 DEF LoopInv, AstrayActed
<1>13. NoWrongRouteTwice'
  BY <1>2, <1>3 DEF LoopInv, NoWrongRouteTwice, AstrayActed
<1>14. FailuresCounted'
  BY <1>1 DEF FailuresCounted, Deciding
<1>15. QED
  BY <1>6, <1>7, <1>8, <1>10, <1>11, <1>12, <1>13, <1>14 DEF LoopInv

\* Finishing it changes no step that could be evidence.
LEMMA FinishResponseKeeps ==
  ASSUME LoopInv, FinishResponse PROVE LoopInv'
<1> DEFINE last == Len(steps)
           final == CASE out = "answer" -> "completed"
                      [] out = "clarify" -> "waiting_input"
                      [] OTHER -> "failed"
           done == [steps[last] EXCEPT !.status = final]
<1>1. /\ pc = "replied" /\ pc' = "returned"
      /\ steps' = [steps EXCEPT ![last] = done]
      /\ UNCHANGED <<plan, acts, failures, out, status>>
  BY DEF FinishResponse
<1>2. /\ steps \in Seq(StepRecords) /\ last \in 1..Len(steps) /\ DOMAIN steps = 1..last
      /\ steps[last] \in StepRecords /\ steps[last].status = "running"
  BY <1>1 DEF LoopInv, LastRuns, TypeOK, Current
<1>3. final \in {"running", "completed", "failed", "waiting_input"}
  OBVIOUS
<1> HIDE DEF final
<1>4. done \in StepRecords /\ done.action = steps[last].action /\ done.route = steps[last].route
  BY <1>2, <1>3 DEF StepRecords
<1> HIDE DEF done
<1>5. /\ [steps EXCEPT ![last] = done] \in Seq(StepRecords)
      /\ DOMAIN [steps EXCEPT ![last] = done] = 1..last
      /\ [steps EXCEPT ![last] = done][last] = done
      /\ \A m \in 1..Len(steps) : m # last => [steps EXCEPT ![last] = done][m] = steps[m]
  BY <1>2, <1>4, Replaced
<1>6. /\ steps' \in Seq(StepRecords) /\ DOMAIN steps' = 1..last /\ steps'[last] = done
      /\ \A m \in 1..last : m # last => steps'[m] = steps[m]
  BY <1>1, <1>5
<1>7. \A m \in 1..last : steps'[m].action = steps[m].action /\ steps'[m].route = steps[m].route
  BY <1>4, <1>6
<1> HIDE DEF last
<1>8. TypeOK'
  BY <1>1, <1>6 DEF LoopInv, TypeOK
<1>9. OpenEnd' /\ Concluded' /\ LastRuns' /\ FailuresCounted'
  BY <1>1 DEF OpenEnd, Concluded, LastRuns, FailuresCounted, Deciding, Acting
<1>10. Completed' = Completed
  BY <1>1 DEF Completed
<1>11. PlanTracksAction'
  BY <1>1 DEF LoopInv, PlanTracksAction
<1>12. CompletedOnEvidence'
  BY <1>1, <1>2, <1>6, <1>10 DEF LoopInv, CompletedOnEvidence
<1>13. AstrayActed' /\ NoWrongRouteTwice'
  BY <1>2, <1>6, <1>7 DEF LoopInv, AstrayActed, NoWrongRouteTwice
<1>14. QED
  BY <1>8, <1>9, <1>11, <1>12, <1>13 DEF LoopInv

\* A step that changes nothing.
LEMMA StutterKeeps == ASSUME LoopInv, UNCHANGED vars PROVE LoopInv'
<1>1. /\ UNCHANGED <<pc, plan, steps, acts, failures, out, status>>
      /\ Completed' = Completed /\ Current' = Current
  BY DEF vars, Completed, Current
<1>2. TypeOK' /\ OpenEnd' /\ Concluded' /\ LastRuns'
  BY <1>1 DEF LoopInv, TypeOK, OpenEnd, Concluded, LastRuns, Deciding, Acting
<1>3. PlanTracksAction' /\ CompletedOnEvidence' /\ AstrayActed' /\ NoWrongRouteTwice'
  BY <1>1 DEF LoopInv, PlanTracksAction, CompletedOnEvidence, AstrayActed, NoWrongRouteTwice
<1>4. FailuresCounted'
  <2>1. Judged' = Judged
    BY <1>1 DEF Judged, Acting
  <2>2. QED
    BY <1>1, <2>1 DEF LoopInv, FailuresCounted, Deciding, Helped
<1>5. QED
  BY <1>2, <1>3, <1>4 DEF LoopInv

\* Every step of the loop keeps the invariant.
LEMMA LoopStep == LoopInv /\ [Next]_vars => LoopInv'
<1> SUFFICES ASSUME LoopInv, [Next]_vars PROVE LoopInv'
  OBVIOUS
<1>1. ASSUME NEW ids \in SUBSET StepIds, NEW id \in ids, NEW f \in Fingerprints, Act(id, f, ids)
      PROVE  LoopInv'
  BY <1>1, ActKeeps
<1>2. ASSUME NEW recoverable \in BOOLEAN, ToolFails(recoverable) PROVE LoopInv'
  BY <1>2, ToolFailsKeeps
<1>3. ASSUME NEW a \in Assessments \cup {Unavailable}, Judge(a) PROVE LoopInv'
  BY <1>3, JudgeKeeps
<1>4. ASSUME NEW o \in {out, "error"}, BeginResponse(o) PROVE LoopInv'
  BY <1>4, BeginResponseKeeps
<1>5. CASE Respond \/ PlanFails \/ ToolSucceeds
  BY <1>5, PassKeeps
<1>6. CASE FinishResponse
  BY <1>6, FinishResponseKeeps
<1>7. CASE Returned \/ UNCHANGED vars
  BY <1>7, StutterKeeps DEF Returned
<1>8. QED
  BY <1>1, <1>2, <1>3, <1>4, <1>5, <1>6, <1>7 DEF Next, Step

\* The invariant holds throughout every turn.
LEMMA LoopInvariant == Safety => []LoopInv
<1>1. Init => LoopInv
  BY LoopInit
<1>2. LoopInv /\ [Next]_vars => LoopInv'
  BY LoopStep
<1>3. QED
  BY <1>1, <1>2, PTL DEF Safety

-----------------------------------------------------------------------------
(* The invariants. *)

\* The turn, its plan and its trajectory keep their types; in particular no turn
\* takes more than MaxActions actions or counts more than MaxFailures failures
\* (Run, loop.go).
THEOREM LoopTypes == Safety => []TypeOK
<1>1. LoopInv => TypeOK
  BY DEF LoopInv
<1>2. QED
  BY <1>1, LoopInvariant, PTL

\* The plan and the trajectory agree: a plan step is running exactly while its
\* action executes or is judged, and a completed one is backed by the step that
\* gave its evidence (updatePlanStep, RevisePlan).
THEOREM PlanAgrees == Safety => []PlanMatchesTrajectory
<1>1. LoopInv => PlanMatchesTrajectory
  BY DEF LoopInv, PlanMatchesTrajectory
<1>2. QED
  BY <1>1, LoopInvariant, PTL

\* An action that led astray is not taken again in the turn (validateDecision
\* with HasFailedAction).
THEOREM AstrayOnce == Safety => []NoWrongRouteTwice
<1>1. LoopInv => NoWrongRouteTwice
  BY DEF LoopInv
<1>2. QED
  BY <1>1, LoopInvariant, PTL

\* When the planner is asked, one of the last MaxFailures steps helped: the
\* counter reaches back to it (ConsecutiveFailures in Run).
LEMMA CounterReachesBack == LoopInv => FailuresStopTheTurn
<1> SUFFICES ASSUME LoopInv, pc = "planning", Len(steps) >= MaxFailures
             PROVE  \E n \in Len(steps) - MaxFailures + 1 .. Len(steps) :
                      steps[n].status = "completed" /\ steps[n].route # "wrong_route"
  BY DEF FailuresStopTheTurn
<1>1. failures \in Nat /\ failures < MaxFailures /\ MaxFailures \in Nat /\ Len(steps) \in Nat
  BY LoopAssumption DEF LoopInv, OpenEnd, Deciding, TypeOK
<1>2. Judged = Len(steps)
  BY DEF Judged, Acting
<1>3. Helped(Len(steps) - failures)
  BY <1>1, <1>2 DEF LoopInv, FailuresCounted, Deciding
<1>4. Len(steps) - failures \in Len(steps) - MaxFailures + 1 .. Len(steps)
  BY <1>1
<1>5. QED
  BY <1>3, <1>4 DEF Helped

\* The planner is not asked after MaxFailures steps in a row that failed or led
\* astray.
THEOREM FailureLimit == Safety => []FailuresStopTheTurn
BY CounterReachesBack, LoopInvariant, PTL

-----------------------------------------------------------------------------
(* The steps. *)

\* A plan step that is completed is left alone by the step being judged, which
\* is for a running one, and by every revision.
LEMMA CompletionKept ==
  ASSUME LoopInv, [Next]_vars, NEW i \in Completed
  PROVE  i \in DOMAIN plan' /\ plan'[i] = plan[i]
<1>1. i \in DOMAIN plan
  BY DEF Completed
<1>2. ASSUME NEW ids \in SUBSET StepIds, NEW id \in ids, NEW f \in Fingerprints, Act(id, f, ids)
      PROVE  i \in DOMAIN plan' /\ plan'[i] = plan[i]
  <2>1. /\ pc = "planning" /\ id \notin Completed
        /\ plan' = [Revised(ids) EXCEPT ![id].status = "running"]
    BY <1>2 DEF Act
  <2>2. QED
    BY <2>1 DEF Revised, Completed
<1>3. ASSUME NEW err \in BOOLEAN, NEW route \in Routes, NEW satisfied \in BOOLEAN,
             Acting, CompleteStep(err, route, satisfied)
      PROVE  i \in DOMAIN plan' /\ plan'[i] = plan[i]
  BY <1>1, <1>3, PlanUpdated DEF LoopInv, LastRuns
<1>4. ASSUME NEW recoverable \in BOOLEAN, ToolFails(recoverable)
      PROVE  i \in DOMAIN plan' /\ plan'[i] = plan[i]
  BY <1>3, <1>4 DEF ToolFails, Acting, Routes
<1>5. ASSUME NEW a \in Assessments \cup {Unavailable}, Judge(a)
      PROVE  i \in DOMAIN plan' /\ plan'[i] = plan[i]
  <2>1. a.route \in Routes /\ a.satisfied \in BOOLEAN
    BY AssessmentTypes
  <2>2. QED
    BY <1>3, <1>5, <2>1 DEF Judge, Acting
<1>6. CASE UNCHANGED plan
  BY <1>1, <1>6
<1>7. QED
  BY <1>2, <1>4, <1>5, <1>6
     DEF Next, Step, Respond, PlanFails, ToolSucceeds, BeginResponse, FinishResponse,
         Returned, vars

\* No revision of the plan and no later step takes back a completed plan step
\* (RevisePlan keeps them, validateDecision refuses them as the current step).
THEOREM CompletionsStay == Safety => CompletionsSurvive
<1>1. LoopInv /\ [Next]_vars
        => [\A i \in Completed : i \in DOMAIN plan' /\ plan'[i] = plan[i]]_vars
  BY CompletionKept
<1>2. QED
  BY <1>1, LoopInvariant, PTL DEF Safety, CompletionsSurvive

\* The evaluator's answer ends a turn only when every step of the plan was worked on.
THEOREM AnswersHaveWork == Safety => AnswersRestOnWork
<1> DEFINE Rests == (\A i \in DOMAIN plan : WorkedOn(i))'
           A == pc = "judging" /\ out' = "answer" => Rests
<1>1. LoopInv /\ LoopInv' /\ [Next]_vars => [A]_vars
  <2> SUFFICES ASSUME LoopInv, LoopInv', Next, pc = "judging", out' = "answer",
                      NEW i \in DOMAIN plan'
               PROVE  WorkedOn(i)'
    OBVIOUS
  <2>1. out = "none"
    BY DEF LoopInv, OpenEnd, Deciding
  <2>2. PICK a \in Assessments \cup {Unavailable} : Judge(a)
    BY <2>1 DEF Next, Step, Act, Respond, PlanFails, ToolFails, ToolSucceeds,
                BeginResponse, FinishResponse, Returned, vars
  <2>3. PlanCanComplete(Current.id, a.satisfied)
    BY <2>1, <2>2, Zenon DEF Judge, Conclude
  <2>4. PICK err \in BOOLEAN : ~err /\ CompleteStep(err, a.route, a.satisfied)
    BY <2>2 DEF Judge
  <2>5. TypeOK /\ steps # <<>> /\ a.route \in Routes /\ a.satisfied \in BOOLEAN
    BY <2>2, AssessmentTypes DEF LoopInv, LastRuns, Acting
  <2>6. /\ Len(steps') = Len(steps) /\ Len(steps) \in DOMAIN steps'
        /\ steps'[Len(steps)].id = Current.id /\ steps'[Len(steps)].status = "completed"
    BY <2>4, <2>5, StepCompleted
  <2>7. CASE i = Current.id
    BY <2>6, <2>7 DEF WorkedOn
  <2>8. CASE i # Current.id
    <3>1. i \in DOMAIN plan /\ plan[i].status = "completed" /\ plan'[i] = plan[i]
      BY <2>3, <2>4, <2>8 DEF CompleteStep, PlanCanComplete, Current
    <3>2. i \in Completed'
      BY <3>1 DEF Completed
    <3>3. QED
      BY <3>2 DEF LoopInv, CompletedOnEvidence, WorkedOn
  <2>9. QED
    BY <2>7, <2>8
<1>2. QED
  BY <1>1, LoopInvariant, PTL DEF Safety, AnswersRestOnWork

-----------------------------------------------------------------------------
(* The contract. *)

\* Every step of the loop is a step of the contract or leaves the turn, as its
\* caller sees it, alone.
LEMMA StepImplements ==
  LoopInv /\ [Next]_vars => [Contract!CNext]_<<Phase, acts, out>>
<1> SUFFICES ASSUME LoopInv, [Next]_vars
             PROVE  Contract!CNext \/ UNCHANGED <<Phase, acts, out>>
  OBVIOUS
<1>1. acts \in Nat /\ acts <= MaxActions /\ MaxActions \in Nat
  BY LoopAssumption DEF LoopInv, TypeOK
<1>2. ASSUME NEW ids \in SUBSET StepIds, NEW id \in ids, NEW f \in Fingerprints, Act(id, f, ids)
      PROVE  Contract!Act
  BY <1>2 DEF Act, Contract!Act, Phase
<1>3. CASE Respond
  <2>1. CASE acts < MaxActions
    BY <1>1, <1>3, <2>1 DEF Respond, Conclude, Contract!EndTurn, Contract!Conclude, Contract!Ends, Contract!CNext, Phase
  <2>2. CASE ~(acts < MaxActions)
    BY <1>1, <1>3, <2>2 DEF Respond, Conclude, Contract!EndTurn, Contract!Conclude, Contract!Ends, Contract!CNext, Phase
  <2>3. QED
    BY <2>1, <2>2
<1>4. CASE PlanFails
  BY <1>4 DEF PlanFails, Contract!PlanFails, Contract!CNext, Phase
<1>5. ASSUME NEW recoverable \in BOOLEAN, ToolFails(recoverable)
      PROVE  Contract!Assess
  BY <1>5 DEF ToolFails, Conclude, Contract!Assess, Contract!Conclude, Phase
<1>6. CASE ToolSucceeds
  BY <1>6 DEF ToolSucceeds, Phase
<1>7. ASSUME NEW a \in Assessments \cup {Unavailable}, Judge(a)
      PROVE  Contract!Assess
  <2>1. \/ pc' = "planning" /\ out' = out
        \/ pc' = "responding" /\ out' \in {"answer", "blocked"}
    BY <1>7, Zenon DEF Judge, Conclude
  <2>2. pc = "judging" /\ acts' = acts
    BY <1>7 DEF Judge
  <2>3. QED
    BY <2>1, <2>2 DEF Contract!Assess, Contract!Conclude, Phase
<1>8. ASSUME NEW o \in {out, "error"}, BeginResponse(o)
      PROVE  Contract!Respond
  BY <1>8 DEF BeginResponse, Contract!Respond, Phase
<1>9. CASE FinishResponse
  BY <1>9 DEF FinishResponse, Contract!Close, Contract!CNext, Phase
<1>10. CASE Returned \/ UNCHANGED vars
  BY <1>10 DEF Returned, vars, Phase
<1>11. QED
  BY <1>2, <1>3, <1>4, <1>5, <1>6, <1>7, <1>8, <1>9, <1>10 DEF Next, Step, Contract!CNext

\* The loop does what its caller is told of a turn: at most MaxActions actions,
\* each assessed before the next, and one response (Run and finish, loop.go).
THEOREM LoopImplementsContract == Safety => ImplementsLoop
BY LoopInvariant, StepImplements, PTL DEF Safety, ImplementsLoop

-----------------------------------------------------------------------------
(* The length of a turn and the size of its plan. *)

\* The steps a turn can still take.
StepsToGo == 3 * (MaxActions - acts) + CASE pc = "executing" -> 5
                                          [] pc = "judging" -> 4
                                          [] pc = "planning" -> 3
                                          [] pc = "responding" -> 2
                                          [] pc = "replied" -> 1
                                          [] OTHER -> 0

\* Every step of a turn brings it nearer to its end, so a turn has at most
\* 3 * MaxActions + 3 of them: that it returns (TurnEnds) needs only that each
\* call of the model and of a tool does (Run, loop.go).
THEOREM TurnsGetShorter == Safety => [][StepsToGo' \in Nat /\ StepsToGo' < StepsToGo]_vars
<1>1. ASSUME LoopInv, Next, vars' # vars PROVE StepsToGo' \in Nat /\ StepsToGo' < StepsToGo
  <2>1. acts \in Nat /\ MaxActions \in Nat /\ acts <= MaxActions
    BY <1>1, LoopAssumption DEF LoopInv, TypeOK
  <2>2. ASSUME NEW ids \in SUBSET StepIds, NEW id \in ids, NEW f \in Fingerprints, Act(id, f, ids)
        PROVE  pc = "planning" /\ pc' = "executing" /\ acts' = acts + 1 /\ acts < MaxActions
    BY <2>2 DEF Act
  <2>3. ASSUME NEW recoverable \in BOOLEAN, ToolFails(recoverable)
        PROVE  pc = "executing" /\ pc' \in {"planning", "responding"} /\ acts' = acts
    BY <2>3 DEF ToolFails, Conclude
  <2>4. ASSUME NEW a \in Assessments \cup {Unavailable}, Judge(a)
        PROVE  pc = "judging" /\ pc' \in {"planning", "responding"} /\ acts' = acts
    BY <2>4 DEF Judge, Conclude
  <2>5. \/ pc = "planning" /\ pc' = "executing" /\ acts' = acts + 1 /\ acts < MaxActions
        \/ pc = "planning" /\ pc' \in {"responding", "returned"} /\ acts' = acts
        \/ pc \in {"executing", "judging"} /\ pc' \in {"planning", "responding"} /\ acts' = acts
        \/ pc = "executing" /\ pc' = "judging" /\ acts' = acts
        \/ pc = "responding" /\ pc' = "replied" /\ acts' = acts
        \/ pc = "replied" /\ pc' = "returned" /\ acts' = acts
    BY <1>1, <2>2, <2>3, <2>4
       DEF Next, Step, Respond, PlanFails, Conclude, ToolSucceeds, BeginResponse, FinishResponse, Returned
  <2>6. QED
    BY <2>1, <2>5 DEF StepsToGo
<1>2. LoopInv /\ [Next]_vars => [StepsToGo' \in Nat /\ StepsToGo' < StepsToGo]_vars
  BY <1>1
<1>3. QED
  BY <1>2, LoopInvariant, PTL DEF Safety

\* Every action completes one plan step at most, and the plan has, besides what
\* is completed, only what it was last given.
PlanCounted == /\ IsFiniteSet(DOMAIN plan)
               /\ Cardinality(Completed) + (IF Acting THEN 1 ELSE 0) <= acts
               /\ Cardinality(DOMAIN plan) <= IF acts = 0 THEN 0 ELSE MaxPlan + acts - 1

\* Part of a finite set.
LEMMA CompletedFinite ==
  ASSUME IsFiniteSet(DOMAIN plan)
  PROVE  IsFiniteSet(Completed) /\ Cardinality(Completed) \in Nat /\ Cardinality(DOMAIN plan) \in Nat
<1>1. IsFiniteSet(Completed)
  <2>1. Completed \subseteq DOMAIN plan
    BY DEF Completed
  <2>2. QED
    BY <2>1, FS_Subset
<1>2. QED
  BY <1>1, FS_CardinalityType

\* An action that begins, with the plan it comes with.
LEMMA ActCounts ==
  ASSUME IsFiniteSet(StepIds), LoopInv, PlanCounted,
         NEW ids \in SUBSET StepIds, NEW id \in ids, NEW f \in Fingerprints, Act(id, f, ids)
  PROVE  PlanCounted'
<1>1. /\ pc = "planning" /\ pc' = "executing" /\ acts' = acts + 1
      /\ id \notin Completed /\ Cardinality(ids) <= MaxPlan
      /\ plan' = [Revised(ids) EXCEPT ![id].status = "running"]
  BY DEF Act
<1>2. DOMAIN plan' = Completed \cup ids /\ Completed' = Completed
  BY <1>1, PlanRevised DEF LoopInv
<1>3. /\ IsFiniteSet(Completed) /\ Cardinality(Completed) \in Nat
      /\ IsFiniteSet(ids) /\ Cardinality(ids) \in Nat
  BY CompletedFinite, FS_Subset, FS_CardinalityType DEF PlanCounted
<1>4. /\ IsFiniteSet(Completed \cup ids)
      /\ Cardinality(Completed \cup ids) \in Nat
      /\ Cardinality(Completed \cup ids) <= Cardinality(Completed) + Cardinality(ids)
  <2>1. IsFiniteSet(Completed \cap ids)
    BY <1>3, FS_Intersection
  <2>2. Cardinality(Completed \cap ids) \in Nat
    BY <2>1, FS_CardinalityType
  <2>3. Cardinality(Completed \cup ids) = Cardinality(Completed) + Cardinality(ids) - Cardinality(Completed \cap ids)
    BY <1>3, FS_Union
  <2>4. IsFiniteSet(Completed \cup ids)
    BY <1>3, FS_Union
  <2>5. Cardinality(Completed \cup ids) \in Nat
    BY <2>4, FS_CardinalityType
  <2>6. QED
    BY <1>3, <2>2, <2>3, <2>4, <2>5
<1>5. acts \in Nat /\ MaxPlan \in Nat
  BY LoopAssumption DEF LoopInv, TypeOK
<1>6. Cardinality(Completed) <= acts
  BY <1>1, <1>3, <1>5 DEF PlanCounted, Acting
<1>7. Cardinality(DOMAIN plan') <= MaxPlan + acts' - 1 /\ acts' # 0
  BY <1>1, <1>2, <1>3, <1>4, <1>5, <1>6
<1>8. Cardinality(Completed') + 1 <= acts'
  BY <1>1, <1>2, <1>3, <1>5, <1>6
<1>9. IsFiniteSet(DOMAIN plan')
  BY <1>2, <1>4
<1>10. QED
  BY <1>1, <1>7, <1>8, <1>9 DEF PlanCounted, Acting

\* An action that is done.
LEMMA CompletionCounts ==
  ASSUME LoopInv, PlanCounted, Acting,
         NEW err \in BOOLEAN, NEW route \in Routes, NEW satisfied \in BOOLEAN,
         CompleteStep(err, route, satisfied), acts' = acts, pc' \in {"planning", "responding"}
  PROVE  PlanCounted'
<1>1. /\ Current.id \in DOMAIN plan /\ Current.id \notin Completed
      /\ DOMAIN plan' = DOMAIN plan
      /\ \A i \in DOMAIN plan \ {Current.id} : plan'[i] = plan[i]
  BY PlanUpdated DEF LoopInv, LastRuns
<1>2. Completed' \subseteq Completed \cup {Current.id}
  BY <1>1 DEF Completed
<1>3. IsFiniteSet(Completed) /\ Cardinality(Completed) \in Nat
  BY CompletedFinite DEF PlanCounted
<1>4. Cardinality(Completed') \in Nat /\ Cardinality(Completed') <= Cardinality(Completed) + 1
  <2>1. /\ IsFiniteSet(Completed \cup {Current.id})
        /\ Cardinality(Completed \cup {Current.id}) = Cardinality(Completed) + 1
    BY <1>1, <1>3, FS_AddElement
  <2>2. /\ IsFiniteSet(Completed')
        /\ Cardinality(Completed') <= Cardinality(Completed \cup {Current.id})
    BY <1>2, <2>1, FS_Subset
  <2>3. QED
    BY <2>1, <2>2, FS_CardinalityType
<1>5. acts \in Nat
  BY DEF LoopInv, TypeOK
<1>6. Cardinality(Completed') <= acts
  BY <1>3, <1>4, <1>5 DEF PlanCounted
<1>7. ~Acting'
  BY DEF Acting
<1>8. QED
  BY <1>1, <1>4, <1>5, <1>6, <1>7 DEF PlanCounted

\* The plan does not keep to the eight steps of RevisePlan, since the completed
\* ones are added to them (plan.go:68); but no turn's plan outgrows that limit by
\* more than one step for each action but the first.
THEOREM PlanStaysSmall ==
  ASSUME IsFiniteSet(StepIds)
  PROVE  Safety => [](Cardinality(DOMAIN plan) <= MaxPlan + MaxActions - 1)
<1>1. Init => PlanCounted
  <2>1. SUFFICES ASSUME Init PROVE PlanCounted
    OBVIOUS
  <2>2. DOMAIN plan = {} /\ acts = 0 /\ pc = "planning" /\ Completed = {}
    BY <2>1 DEF Init, Completed
  <2>3. QED
    BY <2>2, FS_EmptySet DEF PlanCounted, Acting
<1>2. LoopInv /\ PlanCounted /\ [Next]_vars => PlanCounted'
  <2>1. SUFFICES ASSUME LoopInv, PlanCounted, [Next]_vars PROVE PlanCounted'
    OBVIOUS
  <2>2. ASSUME NEW ids \in SUBSET StepIds, NEW id \in ids, NEW f \in Fingerprints, Act(id, f, ids)
        PROVE  PlanCounted'
    BY <2>1, <2>2, ActCounts
  <2>3. ASSUME NEW recoverable \in BOOLEAN, ToolFails(recoverable) PROVE PlanCounted'
    <3>1. /\ Acting /\ CompleteStep(TRUE, "no_signal", FALSE)
          /\ acts' = acts /\ pc' \in {"planning", "responding"}
      BY <2>3 DEF ToolFails, Conclude, Acting
    <3>2. "no_signal" \in Routes
      BY DEF Routes
    <3>3. QED
      BY <2>1, <3>1, <3>2, CompletionCounts
  <2>4. ASSUME NEW a \in Assessments \cup {Unavailable}, Judge(a) PROVE PlanCounted'
    <3>1. /\ Acting /\ CompleteStep(FALSE, a.route, a.satisfied)
          /\ acts' = acts /\ pc' \in {"planning", "responding"}
      BY <2>4 DEF Judge, Conclude, Acting
    <3>2. a.route \in Routes /\ a.satisfied \in BOOLEAN
      BY AssessmentTypes
    <3>3. QED
      BY <2>1, <3>1, <3>2, CompletionCounts
  <2>5. CASE \/ Respond \/ PlanFails \/ ToolSucceeds \/ FinishResponse \/ Returned \/ UNCHANGED vars
             \/ \E o \in {out, "error"} : BeginResponse(o)
    <3>1. plan' = plan /\ acts' = acts /\ (Acting' => Acting)
      BY <2>5 DEF Respond, PlanFails, ToolSucceeds, FinishResponse, Returned, BeginResponse,
                  Conclude, Acting, vars
    <3>2. Completed' = Completed
      BY <3>1 DEF Completed
    <3>3. Cardinality(Completed) \in Nat /\ acts \in Nat
      BY <2>1, CompletedFinite DEF PlanCounted, LoopInv, TypeOK
    <3>4. Cardinality(Completed) + (IF Acting' THEN 1 ELSE 0) <= acts
      BY <2>1, <3>1, <3>3 DEF PlanCounted
    <3>5. QED
      BY <2>1, <3>1, <3>2, <3>4 DEF PlanCounted
  <2>6. QED
    BY <2>1, <2>2, <2>3, <2>4, <2>5 DEF Next, Step
<1>3. LoopInv /\ PlanCounted => Cardinality(DOMAIN plan) <= MaxPlan + MaxActions - 1
  <2>1. SUFFICES ASSUME LoopInv, PlanCounted PROVE Cardinality(DOMAIN plan) <= MaxPlan + MaxActions - 1
    OBVIOUS
  <2>2. /\ acts \in Nat /\ acts <= MaxActions /\ MaxActions \in Nat \ {0} /\ MaxPlan \in Nat \ {0}
        /\ Cardinality(DOMAIN plan) \in Nat
    BY <2>1, CompletedFinite, LoopAssumption DEF LoopInv, PlanCounted, TypeOK
  <2>3. QED
    BY <2>1, <2>2 DEF PlanCounted
<1>4. QED
  BY <1>1, <1>2, <1>3, LoopInvariant, PTL DEF Safety

=============================================================================
