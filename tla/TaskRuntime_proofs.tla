-------------------------- MODULE TaskRuntime_proofs --------------------------
(***************************************************************************)
(* Proofs about TaskRuntime for any finite number of goroutines and any    *)
(* tasks, conversations, requests and bounds: the types, the gate under    *)
(* its use by the runtime, one goroutine behind every task that is under   *)
(* way, no tool run without the approval asked for it, every shown         *)
(* approval answerable, and every decision on its way to its goroutine.    *)
(***************************************************************************)
EXTENDS TaskRuntime, FiniteSetTheorems, TLAPS

GateProof == INSTANCE TurnGate_proofs WITH Callers <- Workers, Keys <- Tasks \cup Chats

-----------------------------------------------------------------------------
(* The gate under the runtime. *)

\* The runtime gives the gate what TurnGate assumes.
LEMMA GateAssumed == GateProof!GateAssumption
BY RuntimeAssumption DEF GateProof!GateAssumption, GateProof!IsFiniteSet, IsFiniteSet

\* A step of the runtime is a step of the gate, leaves it alone, or is a restart, which
\* starts it anew.
LEMMA GateMoves ==
  ASSUME Next, request \in [Clients -> {NoRequest} \cup Requests]
  PROVE  GateProof!GateNext \/ UNCHANGED GateProof!gvars \/ (Restart /\ GateProof!GateInit')
<1> USE DEF gvars, GateProof!gvars
<1>1. ASSUME NEW w \in Workers, NEW k \in Tasks \cup Chats, Gate!Call(w, k)
      PROVE  GateProof!GateNext
  <2>1. GateProof!Call(w, k)
    BY <1>1 DEF Gate!Call, GateProof!Call, Gate!Goto, GateProof!Goto
  <2>2. QED
    BY <2>1 DEF GateProof!GateNext, GateProof!GateStep
<1>2. ASSUME NEW w \in Workers, Gate!Internal(w) PROVE GateProof!GateNext
  <2>1. GateProof!Internal(w)
    BY <1>2 DEF Gate!Internal, Gate!TakeSlot, Gate!RejectFull, Gate!InsertKey, Gate!FindKey,
                Gate!RefundSlot, Gate!FreeSlot, Gate!Goto, Gate!Capacity, GateProof!Internal,
                GateProof!TakeSlot, GateProof!RejectFull, GateProof!InsertKey, GateProof!FindKey,
                GateProof!RefundSlot, GateProof!FreeSlot, GateProof!Goto, GateProof!Capacity,
                Gate!defaultMaxConcurrentTurns, GateProof!defaultMaxConcurrentTurns
  <2>2. QED
    BY <2>1 DEF GateProof!GateNext, GateProof!GateStep
<1>3. ASSUME NEW w \in Workers, Gate!DeleteKey(w) \/ Gate!ReleaseAgain(w) \/ Gate!Dismiss(w)
      PROVE  GateProof!GateNext
  <2>1. GateProof!DeleteKey(w) \/ GateProof!ReleaseAgain(w) \/ GateProof!Dismiss(w)
    BY <1>3 DEF Gate!DeleteKey, Gate!ReleaseAgain, Gate!Dismiss, Gate!Goto, GateProof!DeleteKey,
                GateProof!ReleaseAgain, GateProof!Dismiss, GateProof!Goto
  <2>2. QED
    BY <2>1 DEF GateProof!GateNext, GateProof!GateStep
<1>4. ASSUME NEW w \in Workers, WorkerStep(w)
      PROVE  GateProof!GateNext \/ UNCHANGED GateProof!gvars
  BY <1>2, <1>3, <1>4
     DEF WorkerStep, PassGate, EndChat, RefuseTask, BeginTurn, UpdatePlan, BeginStep, NotifyStep,
         Decide, PlanFails, InvokeFreely, Register, RequireApproval, HearDecision, Cancelled,
         Unregister, FailStep, CompleteStep, Respond, FinishResponseStep, Finish, Release, Exit
<1>5. ASSUME NEW w \in Workers, NEW k \in Chats, StartChat(w, k) PROVE GateProof!GateNext
  BY <1>1, <1>5 DEF StartChat, Spawn
<1>6. ASSUME NEW c \in Clients, SubmitInteraction(c) \/ \E t \in Tasks : Task(c, t) \/ LookUp(c, t)
      PROVE  UNCHANGED GateProof!gvars
  BY <1>6 DEF SubmitInteraction, Task, LookUp
<1>7. ASSUME NEW c \in Clients, NEW w \in Workers, PrepareInput(c, w)
      PROVE  GateProof!GateNext \/ UNCHANGED GateProof!gvars
  <2>1. CASE UNCHANGED gvars
    BY <2>1
  <2>2. CASE Spawn(w, request[c].task) /\ request[c].task \in Tasks
    BY <1>1, <2>2 DEF Spawn
  <2>3. request[c].task \in Tasks
    BY <1>7 DEF PrepareInput, NoRequest, Requests
  <2>4. QED
    BY <1>7, <2>1, <2>2, <2>3 DEF PrepareInput
<1>8. ASSUME NEW c \in Clients, NEW w \in Workers, NEW t \in Tasks, Create(c, w, t)
      PROVE  GateProof!GateNext
  BY <1>1, <1>8 DEF Create, Spawn
<1>9. ASSUME \/ \E t \in Tasks, d \in Decisions : ResolveApproval(t, d)
             \/ \E a \in 1..MaxApprovals, d \in Decisions : SendDecision(a, d)
             \/ Stop \/ Rest
      PROVE  UNCHANGED GateProof!gvars
  BY <1>9 DEF ResolveApproval, SendDecision, Stop, Rest, vars
<1>10. CASE Restart
  BY <1>10 DEF Restart, GateProof!GateInit
<1>11. QED
  BY <1>4, <1>5, <1>6, <1>7, <1>8, <1>9, <1>10 DEF Next

-----------------------------------------------------------------------------
(* Types. *)

\* A relabelled sequence of steps is a sequence of steps.
LEMMA RelabelType ==
  ASSUME NEW steps \in Seq(StepStatuses), NEW from, NEW to \in StepStatuses
  PROVE  Relabel(steps, from, to) \in Seq(StepStatuses)
BY DEF Relabel

\* So is a sequence with one step replaced.
LEMMA SetStepType ==
  ASSUME NEW steps \in Seq(StepStatuses), NEW i, NEW s \in StepStatuses
  PROVE  [steps EXCEPT ![i] = s] \in Seq(StepStatuses)
<1>1. steps \in [1..Len(steps) -> StepStatuses] /\ Len(steps) \in Nat
  OBVIOUS
<1>2. [steps EXCEPT ![i] = s] \in [1..Len(steps) -> StepStatuses]
  BY <1>1
<1>3. QED
  BY <1>1, <1>2

\* What the store's calls write are snapshots.
LEMMA SnapshotTypes ==
  ASSUME NEW s \in Snapshots
  PROVE  /\ [s EXCEPT !.status = "running", !.form = NoForm, !.turn = @ + 1,
                      !.steps = Relabel(@, "waiting_input", "closed")] \in Snapshots
         /\ \A a \in Nat : [s EXCEPT !.status = "waiting_approval", !.approval = a,
                      !.steps = Relabel(@, "running", "waiting_approval")] \in Snapshots
         /\ [s EXCEPT !.status = "running", !.approval = NoApproval,
                      !.steps = Relabel(@, "waiting_approval", "running")] \in Snapshots
         /\ \A status \in Statuses, form \in Nat :
               [s EXCEPT !.status = status, !.form = form] \in Snapshots
         /\ [s EXCEPT !.steps = Append(@, "running")] \in Snapshots
         /\ \A i, x : x \in StepStatuses => [s EXCEPT !.steps[i] = x] \in Snapshots
         /\ Parked(s) \in Snapshots
<1>1. s.steps \in Seq(StepStatuses)
  BY DEF Snapshots
<1>2. \A from, to \in StepStatuses : Relabel(s.steps, from, to) \in Seq(StepStatuses)
  BY <1>1, RelabelType
<1>3. [i \in DOMAIN s.steps |-> IF s.steps[i] \in {"running", "waiting_approval"}
                                THEN "waiting_input" ELSE s.steps[i]] \in Seq(StepStatuses)
  BY <1>1 DEF StepStatuses
<1>4. \A i, x : x \in StepStatuses => [s.steps EXCEPT ![i] = x] \in Seq(StepStatuses)
  BY <1>1, SetStepType
<1>5. Append(s.steps, "running") \in Seq(StepStatuses)
  BY <1>1 DEF StepStatuses
<1> USE DEF Snapshots, Statuses, StepStatuses, NoForm, NoApproval
<1>6. [s EXCEPT !.status = "running", !.form = NoForm, !.turn = @ + 1,
                !.steps = Relabel(@, "waiting_input", "closed")] \in Snapshots
  <2>1. Relabel(s.steps, "waiting_input", "closed") \in Seq(StepStatuses)
    BY <1>2
  <2>2. s.turn + 1 \in Nat
    OBVIOUS
  <2>3. QED
    BY <2>1, <2>2, Zenon
<1>7. \A a \in Nat : [s EXCEPT !.status = "waiting_approval", !.approval = a,
                !.steps = Relabel(@, "running", "waiting_approval")] \in Snapshots
  <2>1. Relabel(s.steps, "running", "waiting_approval") \in Seq(StepStatuses)
    BY <1>2
  <2>2. QED
    BY <2>1
<1>8. [s EXCEPT !.status = "running", !.approval = NoApproval,
                !.steps = Relabel(@, "waiting_approval", "running")] \in Snapshots
  <2>1. Relabel(s.steps, "waiting_approval", "running") \in Seq(StepStatuses)
    BY <1>2
  <2>2. QED
    BY <2>1
<1>9. Parked(s) \in Snapshots
  BY <1>3 DEF Parked
<1>10. \A status \in Statuses, form \in Nat :
         [s EXCEPT !.status = status, !.form = form] \in Snapshots
  OBVIOUS
<1>11. [s EXCEPT !.steps = Append(@, "running")] \in Snapshots
  BY <1>5
<1>12. \A i, x : x \in StepStatuses => [s EXCEPT !.steps[i] = x] \in Snapshots
  BY <1>4
<1>13. QED
  BY <1>6, <1>7, <1>8, <1>9, <1>10, <1>11, <1>12

StoreTypes == /\ mem \in [Tasks -> Snapshots] /\ disk \in [Tasks -> Snapshots]
              /\ fails \in Nat

\* A save, whether it fails or not, leaves snapshots behind.
LEMMA UpdateTypes ==
  ASSUME StoreTypes, NEW t \in Tasks, NEW s \in Snapshots, Update(t, s)
  PROVE  StoreTypes'
<1>1. mem' \in [Tasks -> Snapshots]
  BY DEF StoreTypes, Update
<1>2. disk' \in [Tasks -> Snapshots] /\ fails' \in Nat
  <2>1. CASE disk' = [disk EXCEPT ![t] = s] /\ UNCHANGED fails
    BY <2>1 DEF StoreTypes
  <2>2. CASE fails' = fails + 1 /\ UNCHANGED disk
    BY <2>2 DEF StoreTypes
  <2>3. QED
    BY <2>1, <2>2 DEF Update, persistLocked
<1>3. QED
  BY <1>1, <1>2 DEF StoreTypes

\* The same for each call of the store.
LEMMA StoreCallTypes ==
  ASSUME StoreTypes, NEW t \in Tasks,
         \/ Update(t, mem[t]) \/ Accept(t) \/ Resolve(t) \/ AppendStep(t)
         \/ \E a \in Nat : Require(t, a)
         \/ \E s \in Statuses, f \in Nat : Conclude(t, s, f)
         \/ \E i, x : x \in StepStatuses /\ SetStep(t, i, x)
  PROVE  StoreTypes'
<1>1. mem[t] \in Snapshots
  BY DEF StoreTypes
<1>2. QED
  BY <1>1, SnapshotTypes, UpdateTypes
     DEF Accept, Resolve, AppendStep, Require, Conclude, SetStep

DeskTypes == /\ asked \in Nat
             /\ waiters \subseteq 1..asked /\ granted \subseteq 1..asked
             /\ mail \subseteq Decided /\ deciding \subseteq Decided

Engaged == Positions \ {"idle", "starting", "finished"}

\* A goroutine past runTask's first lines works on a task and holds its turn.
Working == \A w \in Workers : job[w].at \in Engaged => key[w] \in Tasks /\ pc[w] = "holding"

Types == TypeOK /\ Working

\* The first state.
LEMMA TypesInit == Init => Types
<1> SUFFICES ASSUME Init PROVE Types
  OBVIOUS
<1> USE DEF Init
<1>1. Gate!GateTypeOK
  BY RuntimeAssumption DEF Gate!GateInit, Gate!GateTypeOK, Gate!Places
<1>2. job \in [Workers -> Jobs] /\ Working
  BY DEF Jobs, Idle, Positions, Outs, NoApproval, Working, Engaged
<1>3. StoreTypes
  <2>1. NewSnapshot \in Snapshots
    BY DEF NewSnapshot, Snapshots, Statuses, NoApproval, NoForm
  <2>2. QED
    BY <2>1 DEF StoreTypes
<1>4. DeskTypes
  BY DEF DeskTypes, Decided
<1>5. QED
  BY <1>1, <1>2, <1>3, <1>4, RuntimeAssumption DEF Types, TypeOK, StoreTypes, DeskTypes

\* Types without the gate's.
JobTypes == job \in [Workers -> Jobs] /\ Working
OtherTypes == /\ request \in [Clients -> {NoRequest} \cup Requests]
              /\ restarts \in Nat /\ stopping \in BOOLEAN

\* The types are those of the gate and of four groups of variables, ...
LEMMA TypesParts ==
  Types <=> Gate!GateTypeOK /\ JobTypes /\ StoreTypes /\ DeskTypes /\ OtherTypes
BY DEF Types, TypeOK, JobTypes, StoreTypes, DeskTypes, OtherTypes

\* ... before a step and after it.
LEMMA TypesPartsNext ==
  Types' <=> (Gate!GateTypeOK)' /\ JobTypes' /\ StoreTypes' /\ DeskTypes' /\ OtherTypes'
BY DEF Types, TypeOK, JobTypes, StoreTypes, DeskTypes, OtherTypes

\* A goroutine that keeps its turn may move anywhere within runTask, ...
LEMMA JobMoves ==
  ASSUME JobTypes, NEW w \in Workers, job[w].at \in Engaged, UNCHANGED gvars,
         NEW j \in Jobs, job' = [job EXCEPT ![w] = j]
  PROVE  JobTypes'
BY DEF JobTypes, Working, gvars

\* ... and one that is not past its first lines, or has ended, anywhere else.
LEMMA JobLeaves ==
  ASSUME JobTypes, NEW w \in Workers,
         \A v \in Workers \ {w} : key'[v] = key[v] /\ pc'[v] = pc[v],
         NEW j \in Jobs, j.at \notin Engaged, job' = [job EXCEPT ![w] = j]
  PROVE  JobTypes'
BY DEF JobTypes, Working

\* The positions are those named in the actions.
LEMMA PositionTypes ==
  ASSUME JobTypes, NEW w \in Workers
  PROVE  /\ job[w] \in Jobs
         /\ \A p \in Positions : [job[w] EXCEPT !.at = p] \in Jobs
         /\ \A p \in Positions, o \in Outs : [job[w] EXCEPT !.at = p, !.out = o] \in Jobs
         /\ \A p \in Positions, o \in Outs, i \in Nat :
               [job[w] EXCEPT !.at = p, !.out = o, !.step = i] \in Jobs
         /\ \A p \in Positions, a \in Nat : [job[w] EXCEPT !.at = p, !.approval = a] \in Jobs
         /\ \A i \in Nat : [job[w] EXCEPT !.at = "begun", !.acts = @ + 1, !.step = i,
                                          !.approval = NoApproval] \in Jobs
         /\ Idle \in Jobs
<1>1. job[w] \in Jobs
  BY DEF JobTypes
<1>2. job[w].acts + 1 \in Nat
  BY <1>1 DEF Jobs
<1>3. Idle \in Jobs
  BY DEF Idle, Jobs, Positions, Outs, NoApproval
<1>4. QED
  BY <1>1, <1>2, <1>3 DEF Jobs, Positions, NoApproval

\* Every step keeps the types.
Local == JobTypes /\ StoreTypes /\ DeskTypes /\ OtherTypes

\* A goroutine on its way through the gate has not begun its work.
LEMMA PassingGate ==
  ASSUME NEW w \in Workers, Gate!Internal(w)
  PROVE  /\ pc[w] \in {"called", "check", "refund", "freeing"}
         /\ pc' = [pc EXCEPT ![w] = pc'[w]]
         /\ UNCHANGED key
BY DEF Gate!Internal, Gate!TakeSlot, Gate!RejectFull, Gate!InsertKey, Gate!FindKey,
       Gate!RefundSlot, Gate!FreeSlot, Gate!Goto

\* The goroutine's own steps before its turn begins and after it has ended.
LEMMA LocalOutside ==
  ASSUME Local, Gate!GateTypeOK, NEW w \in Workers,
         \/ PassGate(w) \/ EndChat(w) \/ RefuseTask(w) \/ BeginTurn(w)
         \/ Release(w) \/ Exit(w)
         \/ \E k \in Chats : StartChat(w, k)
  PROVE  Local'
<1> USE DEF Local
<1>0. /\ job[w] \in Jobs /\ Idle \in Jobs
      /\ \A p \in Positions : [job[w] EXCEPT !.at = p] \in Jobs
      /\ \A p \in Positions : [job[w] EXCEPT !.at = p].at = p
  <2>1. /\ job[w] \in Jobs /\ Idle \in Jobs
        /\ \A p \in Positions : [job[w] EXCEPT !.at = p] \in Jobs
    BY PositionTypes, Zenon
  <2>2. \A p \in Positions : [job[w] EXCEPT !.at = p].at = p
    BY <2>1 DEF Jobs
  <2>3. QED
    BY <2>1, <2>2
<1>1. ASSUME UNCHANGED <<store, desk, request, process>>
      PROVE  StoreTypes' /\ DeskTypes' /\ OtherTypes'
  BY <1>1 DEF StoreTypes, DeskTypes, Decided, OtherTypes, store, desk, process
<1>2. ASSUME NEW p \in {"starting", "finished"}, Goto(w, p),
             \A v \in Workers \ {w} : key'[v] = key[v] /\ pc'[v] = pc[v]
      PROVE  JobTypes'
  <2>1. p \in Positions /\ p \notin Engaged
    BY DEF Positions, Engaged
  <2>2. job' = [job EXCEPT ![w] = [job[w] EXCEPT !.at = p]]
    BY <1>2, Zenon DEF Goto
  <2>3. QED
    BY <1>0, <1>2, <2>1, <2>2, JobLeaves
<1>3. CASE PassGate(w)
  <2>1. \A v \in Workers : pc[v] = "holding" => pc'[v] = "holding"
    BY <1>3, PassingGate DEF PassGate, Gate!GateTypeOK
  <2>2. JobTypes'
    BY <1>3, <2>1, PassingGate DEF PassGate, JobTypes, Working
  <2>3. QED
    BY <1>1, <1>3, <2>2 DEF PassGate
<1>4. CASE EndChat(w)
  BY <1>1, <1>2, <1>4 DEF EndChat, gvars
<1>5. CASE RefuseTask(w)
  <2>1. StoreTypes'
    BY <1>5, StoreCallTypes DEF RefuseTask, Statuses, NoForm
  <2>2. DeskTypes' /\ OtherTypes'
    BY <1>5 DEF RefuseTask, DeskTypes, Decided, OtherTypes, desk, process
  <2>3. QED
    BY <1>2, <1>5, <2>1, <2>2 DEF RefuseTask, gvars
<1>6. CASE BeginTurn(w)
  <2>1. JobTypes'
    BY <1>0, <1>6 DEF BeginTurn, Goto, JobTypes, Working, Positions, gvars
  <2>2. QED
    BY <1>1, <1>6, <2>1 DEF BeginTurn
<1>7. CASE Release(w)
  <2>1. \A v \in Workers \ {w} : key'[v] = key[v] /\ pc'[v] = pc[v]
    BY <1>7 DEF Release, Gate!DeleteKey, Gate!Goto, Gate!GateTypeOK
  <2>2. job[w].at = "finished" /\ UNCHANGED job
    BY <1>7 DEF Release, At
  <2>3. JobTypes'
    BY <2>1, <2>2 DEF JobTypes, Working, Engaged
  <2>4. QED
    BY <1>1, <1>7, <2>3 DEF Release
<1>8. CASE Exit(w)
  <2>1. \A v \in Workers \ {w} : key'[v] = key[v] /\ pc'[v] = pc[v]
    BY <1>8 DEF Exit, Gate!ReleaseAgain, Gate!Dismiss, Gate!Goto, Gate!GateTypeOK
  <2>2. Idle.at \notin Engaged
    BY DEF Idle, Engaged
  <2>3. JobTypes'
    BY <1>0, <1>8, <2>1, <2>2, JobLeaves DEF Exit
  <2>4. QED
    BY <1>1, <1>8, <2>3 DEF Exit
<1>9. ASSUME NEW k \in Chats, StartChat(w, k) PROVE Local'
  <2>1. \A v \in Workers \ {w} : key'[v] = key[v] /\ pc'[v] = pc[v]
    BY <1>9 DEF StartChat, Spawn, Gate!Call, Gate!Goto, Gate!GateTypeOK
  <2>2. QED
    BY <1>1, <1>2, <1>9, <2>1 DEF StartChat, Spawn
<1>10. QED
  BY <1>3, <1>4, <1>5, <1>6, <1>7, <1>8, <1>9

\* The steps of a goroutine within its turn.
LEMMA LocalInside ==
  ASSUME Local, NEW w \in Workers,
         \/ UpdatePlan(w)
         \/ BeginStep(w) \/ NotifyStep(w) \/ Decide(w) \/ PlanFails(w) \/ InvokeFreely(w)
         \/ Register(w)
         \/ RequireApproval(w) \/ HearDecision(w) \/ Cancelled(w) \/ Unregister(w)
         \/ FailStep(w) \/ CompleteStep(w) \/ Respond(w) \/ FinishResponseStep(w) \/ Finish(w)
  PROVE  Local'
<1> USE DEF Local
<1> DEFINE acting == {"planning", "begun", "acting", "asking", "waiting", "cancelled", "failing",
                      "invoking", "responding", "replied", "settled"}
           t == key[w]
           steps == Len(mem[t].steps)
<1>1. job[w].at \in acting /\ UNCHANGED <<gvars, request, process>>
  BY DEF UpdatePlan, BeginStep, NotifyStep, Decide, PlanFails, InvokeFreely, Register,
         RequireApproval, HearDecision, Cancelled, Unregister, FailStep, CompleteStep, Respond,
         FinishResponseStep, Finish, At
<1>2. job[w].at \in Engaged /\ t \in Tasks /\ OtherTypes'
  BY <1>1 DEF Engaged, Positions, JobTypes, Working, OtherTypes, process
<1>3. /\ job[w] \in Jobs
      /\ \A p \in acting \cup {"finished"} : [job[w] EXCEPT !.at = p] \in Jobs
      /\ \A p \in acting, o \in Outs : [job[w] EXCEPT !.at = p, !.out = o] \in Jobs
      /\ \A p \in acting, o \in Outs, i \in Nat :
            [job[w] EXCEPT !.at = p, !.out = o, !.step = i] \in Jobs
      /\ \A p \in acting, a \in Nat : [job[w] EXCEPT !.at = p, !.approval = a] \in Jobs
      /\ \A i \in Nat : [job[w] EXCEPT !.at = "begun", !.acts = @ + 1, !.step = i,
                                       !.approval = NoApproval] \in Jobs
  <2>1. acting \cup {"finished"} \subseteq Positions
    BY DEF Positions
  <2>2. job[w] \in Jobs /\ \A p \in Positions : [job[w] EXCEPT !.at = p] \in Jobs
    BY PositionTypes, Zenon
  <2>3. \A p \in Positions, o \in Outs : [job[w] EXCEPT !.at = p, !.out = o] \in Jobs
    BY PositionTypes, Zenon
  <2>4. \A p \in Positions, o \in Outs, i \in Nat :
          [job[w] EXCEPT !.at = p, !.out = o, !.step = i] \in Jobs
    BY PositionTypes, Zenon
  <2>5. \A p \in Positions, a \in Nat : [job[w] EXCEPT !.at = p, !.approval = a] \in Jobs
    BY PositionTypes, Zenon
  <2>6. \A i \in Nat : [job[w] EXCEPT !.at = "begun", !.acts = @ + 1, !.step = i,
                                      !.approval = NoApproval] \in Jobs
    BY PositionTypes, Zenon
  <2> HIDE DEF acting
  <2>7. QED
    BY <2>1, <2>2, <2>3, <2>4, <2>5, <2>6, Zenon
<1>4. mem[t] \in Snapshots /\ steps \in Nat /\ steps + 1 \in Nat
  BY <1>2 DEF StoreTypes, Snapshots
<1>5. \A p \in acting \cup {"finished"} :
        Goto(w, p) => job' = [job EXCEPT ![w] = [job[w] EXCEPT !.at = p]]
  BY Zenon DEF Goto
<1>6. {"answer", "clarify", "blocked", "error"} \subseteq Outs /\ job[w].out \in Outs
  BY <1>3 DEF Outs, Jobs
<1>7. ASSUME NEW o \in Outs, Reply(w, o) PROVE \E j \in Jobs : job' = [job EXCEPT ![w] = j]
  <2>1. job' = [job EXCEPT ![w] = [job[w] EXCEPT !.at = "responding", !.out = o]]
    BY <1>7, Zenon DEF Reply
  <2>2. [job[w] EXCEPT !.at = "responding", !.out = o] \in Jobs
    BY <1>3, <1>7, Zenon
  <2>3. QED
    BY <2>1, <2>2
<1>8. \E j \in Jobs : job' = [job EXCEPT ![w] = j]
  <2>0. CASE UpdatePlan(w)
    <3>1. job' = [job EXCEPT ![w] = job[w]]
      BY <2>0 DEF UpdatePlan, JobTypes
    <3>2. QED
      BY <1>3, <3>1
  <2>1. CASE BeginStep(w)
    <3>1. job' = [job EXCEPT ![w] = [job[w] EXCEPT !.at = "begun", !.acts = @ + 1,
                                       !.step = steps + 1, !.approval = NoApproval]]
      BY <2>1, Zenon DEF BeginStep
    <3>2. QED
      BY <1>3, <1>4, <3>1
  <2>2. CASE Decide(w)
    BY <1>6, <1>7, <2>2 DEF Decide
  <2>3. CASE PlanFails(w)
    <3>1. job' = [job EXCEPT ![w] = [job[w] EXCEPT !.at = "settled", !.out = "error"]]
      BY <2>3, Zenon DEF PlanFails
    <3>2. QED
      BY <1>3, <1>6, <3>1
  <2>4. CASE Register(w)
    <3>1. job' = [job EXCEPT ![w] = [job[w] EXCEPT !.at = "asking", !.approval = asked + 1]]
      BY <2>4, Zenon DEF Register
    <3>2. asked + 1 \in Nat
      BY DEF DeskTypes
    <3>3. QED
      BY <1>3, <3>1, <3>2
  <2>5. CASE Respond(w)
    <3>1. PICK o \in {job[w].out, "error"} :
            job' = [job EXCEPT ![w] = [job[w] EXCEPT !.at = "replied", !.out = o,
                                                       !.step = steps + 1]]
      BY <2>5, Zenon DEF Respond
    <3>2. o \in Outs
      BY <1>6
    <3>3. QED
      BY <1>3, <1>4, <3>1, <3>2
  <2>6. CASE \/ NotifyStep(w) \/ InvokeFreely(w) \/ RequireApproval(w) \/ HearDecision(w)
             \/ Cancelled(w) \/ Unregister(w) \/ FinishResponseStep(w) \/ Finish(w)
    BY <1>3, <1>5, <2>6
       DEF NotifyStep, InvokeFreely, RequireApproval, HearDecision, Cancelled, Unregister,
           FinishResponseStep, Finish
  <2>7. CASE FailStep(w)
    BY <1>6, <1>7, <2>7 DEF FailStep
  <2>8. CASE CompleteStep(w)
    <3>1. Goto(w, "planning") \/ \E o \in {"answer", "blocked"} : Reply(w, o)
      BY <2>8 DEF CompleteStep
    <3>2. CASE Goto(w, "planning")
      <4>1. job' = [job EXCEPT ![w] = [job[w] EXCEPT !.at = "planning"]]
        BY <1>5, <3>2
      <4>2. [job[w] EXCEPT !.at = "planning"] \in Jobs
        BY <1>3, Zenon
      <4>3. QED
        BY <4>1, <4>2, Zenon
    <3>3. CASE \E o \in {"answer", "blocked"} : Reply(w, o)
      BY <1>6, <1>7, <3>3
    <3>4. QED
      BY <3>1, <3>2, <3>3
  <2>9. QED
    BY <2>0, <2>1, <2>2, <2>3, <2>4, <2>5, <2>6, <2>7, <2>8
<1>9. JobTypes'
  BY <1>1, <1>2, <1>8, JobMoves
<1>10. StoreTypes'
  <2>1. CASE UNCHANGED store
    BY <2>1 DEF StoreTypes, store
  <2>2. CASE UpdatePlan(w) \/ BeginStep(w) \/ Respond(w)
    BY <1>2, <2>2, StoreCallTypes DEF UpdatePlan, BeginStep, Respond
  <2>3. CASE RequireApproval(w)
    <3>1. job[w].approval \in Nat
      BY <1>3 DEF Jobs
    <3>2. QED
      BY <1>2, <2>3, <3>1, StoreCallTypes DEF RequireApproval
  <2>4. CASE NotifyStep(w) \/ FailStep(w) \/ CompleteStep(w) \/ FinishResponseStep(w)
    <3>1. PICK x \in {"closed", "waiting_input", "running"} : SetStep(t, job[w].step, x)
      BY <2>4 DEF NotifyStep, FailStep, CompleteStep, FinishResponseStep
    <3>2. x \in StepStatuses
      BY DEF StepStatuses
    <3>3. QED
      BY <1>2, <3>1, <3>2, StoreCallTypes
  <2>5. CASE Finish(w)
    <3>1. PICK s \in {"failed", "completed", "waiting_input"}, f \in {NoForm, mem[t].turn} :
            Conclude(t, s, f)
      BY <2>5 DEF Finish
    <3>2. s \in Statuses /\ f \in Nat
      BY <1>4 DEF Statuses, Snapshots, NoForm
    <3>3. QED
      BY <1>2, <3>1, <3>2, StoreCallTypes
  <2>6. QED
    BY <2>1, <2>2, <2>3, <2>4, <2>5
       DEF Decide, PlanFails, InvokeFreely, Register, HearDecision, Cancelled, Unregister, store
<1>11. DeskTypes'
  <2>1. CASE UNCHANGED desk
    BY <2>1 DEF DeskTypes, Decided, desk
  <2>2. CASE Register(w)
    <3>1. /\ asked' = asked + 1 /\ 1..asked \subseteq 1..asked'
          /\ asked' \in 1..asked' /\ asked' \in Nat
      BY <2>2 DEF Register, DeskTypes
    <3>2. Decided \subseteq Decided'
      BY <3>1 DEF Decided
    <3>3. waiters' \subseteq 1..asked' /\ granted' \subseteq 1..asked'
      BY <2>2, <3>1 DEF Register, DeskTypes
    <3>4. mail' \subseteq Decided' /\ deciding' \subseteq Decided'
      BY <2>2, <3>2 DEF Register, DeskTypes
    <3>5. QED
      BY <3>1, <3>3, <3>4 DEF DeskTypes
  <2>3. CASE HearDecision(w) \/ Unregister(w)
    BY <2>3 DEF HearDecision, Unregister, DeskTypes, Decided
  <2>4. QED
    BY <2>1, <2>2, <2>3
       DEF UpdatePlan, BeginStep, NotifyStep, Decide, PlanFails, InvokeFreely, RequireApproval,
           Cancelled, FailStep, CompleteStep, Respond, FinishResponseStep, Finish
<1>12. QED
  BY <1>2, <1>9, <1>10, <1>11

\* Every approval id that is written down has been given out.
Issued == /\ \A t \in Tasks : mem[t].approval <= asked /\ disk[t].approval <= asked
          /\ \A w \in Workers : job[w].approval <= asked

\* The handlers of requests.
LEMMA LocalRequest ==
  ASSUME Local, Issued, Gate!GateTypeOK,
         \/ \E c \in Clients : SubmitInteraction(c)
         \/ \E c \in Clients, t \in Tasks : Task(c, t) \/ LookUp(c, t)
         \/ \E c \in Clients, w \in Workers : PrepareInput(c, w)
         \/ \E c \in Clients, w \in Workers, t \in Tasks : Create(c, w, t)
         \/ \E t \in Tasks, d \in Decisions : ResolveApproval(t, d)
         \/ \E a \in 1..MaxApprovals, d \in Decisions : SendDecision(a, d)
  PROVE  Local'
<1> USE DEF Local
<1>1. ASSUME UNCHANGED <<gvars, job, store>> PROVE JobTypes' /\ StoreTypes'
  BY <1>1 DEF JobTypes, Working, StoreTypes, gvars, store
<1>2. ASSUME UNCHANGED desk PROVE DeskTypes'
  BY <1>2 DEF DeskTypes, Decided, desk
<1>3. ASSUME NEW c \in Clients, UNCHANGED process,
             Answer(c) \/ \E where \in {"seen", "checked", "found"}, t \in Tasks, f \in Nat :
                             Request(c, where, t, f)
      PROVE  OtherTypes'
  <2>1. CASE Answer(c)
    BY <1>3, <2>1 DEF Answer, OtherTypes, process
  <2>2. CASE \E where \in {"seen", "checked", "found"}, t \in Tasks, f \in Nat :
               Request(c, where, t, f)
    <3>1. PICK where \in {"seen", "checked", "found"}, t \in Tasks, f \in Nat :
                 Request(c, where, t, f)
      BY <2>2
    <3>2. [at |-> where, task |-> t, form |-> f] \in Requests
      BY DEF Requests
    <3>3. QED
      BY <1>3, <3>1, <3>2 DEF Request, OtherTypes, process
  <2>3. QED
    BY <1>3, <2>1, <2>2
<1>4. \A c \in Clients : /\ request[c].form \in Nat
                         /\ request[c].at # "idle" => request[c].task \in Tasks
  BY DEF OtherTypes, Requests, NoRequest, NoForm
<1>5. \A t \in Tasks : mem[t].form \in Nat
  BY DEF StoreTypes, Snapshots
<1>6. ASSUME NEW w \in Workers, NEW k \in Tasks \cup Chats, Spawn(w, k) PROVE JobTypes'
  <2>1. \A v \in Workers \ {w} : key'[v] = key[v] /\ pc'[v] = pc[v]
    BY <1>6 DEF Spawn, Gate!Call, Gate!Goto, Gate!GateTypeOK
  <2>2. job' = [job EXCEPT ![w] = [job[w] EXCEPT !.at = "starting"]]
    BY <1>6, Zenon DEF Spawn, Goto
  <2>3. [job[w] EXCEPT !.at = "starting"] \in Jobs /\ job[w] \in Jobs
    <3>1. "starting" \in Positions
      BY DEF Positions
    <3>2. QED
      BY <3>1, PositionTypes, Zenon
  <2>4. [job[w] EXCEPT !.at = "starting"].at = "starting"
    BY <2>3 DEF Jobs
  <2>5. [job[w] EXCEPT !.at = "starting"].at \notin Engaged
    BY <2>4 DEF Engaged
  <2>6. QED
    BY <2>1, <2>2, <2>3, <2>5, JobLeaves
<1>7. ASSUME NEW c \in Clients, SubmitInteraction(c) PROVE Local'
  <2>1. UNCHANGED <<gvars, job, store>> /\ UNCHANGED desk /\ UNCHANGED process
    BY <1>7 DEF SubmitInteraction
  <2>2. Answer(c) \/ Request(c, "checked", request[c].task, request[c].form)
    BY <1>7 DEF SubmitInteraction
  <2>3. request[c].task \in Tasks
    BY <1>4, <1>7 DEF SubmitInteraction
  <2>4. QED
    BY <1>1, <1>2, <1>3, <1>4, <2>1, <2>2, <2>3
<1>8. ASSUME NEW c \in Clients, NEW t \in Tasks, Task(c, t) \/ LookUp(c, t) PROVE Local'
  <2>1. UNCHANGED <<gvars, job, store>> /\ UNCHANGED desk /\ UNCHANGED process
    BY <1>8 DEF Task, LookUp
  <2>2. \/ Answer(c)
        \/ Request(c, "seen", t, mem[t].form)
        \/ Request(c, "found", t, request[c].form)
    BY <1>8 DEF Task, LookUp
  <2>3. QED
    BY <1>1, <1>2, <1>3, <1>4, <1>5, <2>1, <2>2
<1>9. ASSUME NEW c \in Clients, NEW w \in Workers, PrepareInput(c, w) PROVE Local'
  <2>1. Answer(c) /\ UNCHANGED desk /\ UNCHANGED process
    BY <1>9 DEF PrepareInput
  <2>2. \/ Accept(request[c].task) /\ Spawn(w, request[c].task)
        \/ UNCHANGED <<gvars, job, store>>
    BY <1>9 DEF PrepareInput
  <2>3. request[c].task \in Tasks
    BY <1>4, <1>9 DEF PrepareInput
  <2>4. QED
    BY <1>1, <1>2, <1>3, <1>6, <2>1, <2>2, <2>3, StoreCallTypes
<1>10. ASSUME NEW c \in Clients, NEW w \in Workers, NEW t \in Tasks, Create(c, w, t) PROVE Local'
  <2>1. Accept(t) /\ Spawn(w, t) /\ Answer(c) /\ UNCHANGED desk /\ UNCHANGED process
    BY <1>10 DEF Create
  <2>2. QED
    BY <1>2, <1>3, <1>6, <2>1, StoreCallTypes
<1>11. ASSUME NEW t \in Tasks, NEW d \in Decisions, ResolveApproval(t, d) PROVE Local'
  <2>1. StoreTypes'
    BY <1>11, StoreCallTypes DEF ResolveApproval
  <2>2. JobTypes' /\ OtherTypes'
    BY <1>11 DEF ResolveApproval, JobTypes, Working, OtherTypes, gvars, process
  <2>3. UNCHANGED asked /\ UNCHANGED waiters /\ UNCHANGED mail
    BY <1>11 DEF ResolveApproval
  <2>4. mem[t].approval \in 1..asked
    <3>1. mem[t].approval \in Nat /\ mem[t].approval # 0 /\ mem[t].approval <= asked
      BY <1>11 DEF ResolveApproval, Issued, NoApproval, StoreTypes, Snapshots
    <3>2. QED
      BY <3>1 DEF DeskTypes
  <2>5. deciding' \subseteq Decided
    BY <1>11, <2>4 DEF ResolveApproval, DeskTypes, Decided
  <2>6. granted' \subseteq 1..asked
    BY <1>11, <2>4 DEF ResolveApproval, DeskTypes
  <2>7. QED
    BY <2>1, <2>2, <2>3, <2>5, <2>6 DEF DeskTypes, Decided
<1>12. ASSUME NEW a \in 1..MaxApprovals, NEW d \in Decisions, SendDecision(a, d) PROVE Local'
  <2>1. mail' \subseteq mail \cup {<<a, d>>} /\ <<a, d>> \in deciding
    BY <1>12 DEF SendDecision
  <2>2. DeskTypes'
    BY <1>12, <2>1 DEF SendDecision, DeskTypes, Decided
  <2>3. OtherTypes'
    BY <1>12 DEF SendDecision, OtherTypes, process
  <2>4. QED
    BY <1>1, <1>12, <2>2, <2>3 DEF SendDecision
<1>13. QED
  BY <1>7, <1>8, <1>9, <1>10, <1>11, <1>12

\* A call of the store writes down no id that has not been given out.
LEMMA StoreCallIssued ==
  ASSUME StoreTypes, DeskTypes, Issued, NEW t \in Tasks,
         \/ Update(t, mem[t]) \/ Accept(t) \/ Resolve(t) \/ AppendStep(t)
         \/ \E a \in Nat : a <= asked /\ Require(t, a)
         \/ \E s, f : Conclude(t, s, f)
         \/ \E i, x : SetStep(t, i, x)
  PROVE  \A u \in Tasks : mem'[u].approval <= asked /\ disk'[u].approval <= asked
<1>1. ASSUME NEW s, s.approval <= asked, Update(t, s)
      PROVE  \A u \in Tasks : mem'[u].approval <= asked /\ disk'[u].approval <= asked
  BY <1>1 DEF Issued, StoreTypes, Update, persistLocked
<1>2. mem[t] \in Snapshots /\ mem[t].approval <= asked /\ 0 <= asked
  BY DEF StoreTypes, Issued, DeskTypes
<1>3. CASE Accept(t)
  <2>1. [mem[t] EXCEPT !.status = "running", !.form = NoForm, !.turn = @ + 1,
                       !.steps = Relabel(@, "waiting_input", "closed")].approval = mem[t].approval
    BY <1>2 DEF Snapshots
  <2>2. QED
    BY <1>1, <1>2, <1>3, <2>1 DEF Accept
<1>4. CASE Resolve(t)
  <2>1. [mem[t] EXCEPT !.status = "running", !.approval = NoApproval,
                       !.steps = Relabel(@, "waiting_approval", "running")].approval = 0
    BY <1>2 DEF Snapshots, NoApproval
  <2>2. QED
    BY <1>1, <1>2, <1>4, <2>1 DEF Resolve
<1>5. CASE AppendStep(t)
  <2>1. [mem[t] EXCEPT !.steps = Append(@, "running")].approval = mem[t].approval
    BY <1>2 DEF Snapshots
  <2>2. QED
    BY <1>1, <1>2, <1>5, <2>1 DEF AppendStep
<1>6. ASSUME NEW a \in Nat, a <= asked, Require(t, a)
      PROVE  \A u \in Tasks : mem'[u].approval <= asked /\ disk'[u].approval <= asked
  <2>1. [mem[t] EXCEPT !.status = "waiting_approval", !.approval = a,
                       !.steps = Relabel(@, "running", "waiting_approval")].approval = a
    BY <1>2 DEF Snapshots
  <2>2. Update(t, [mem[t] EXCEPT !.status = "waiting_approval", !.approval = a,
                                 !.steps = Relabel(@, "running", "waiting_approval")])
    BY <1>6, Zenon DEF Require
  <2>3. QED
    BY <1>1, <1>6, <2>1, <2>2
<1>7. ASSUME NEW s, NEW f, Conclude(t, s, f)
      PROVE  \A u \in Tasks : mem'[u].approval <= asked /\ disk'[u].approval <= asked
  <2>1. [mem[t] EXCEPT !.status = s, !.form = f].approval = mem[t].approval
    BY <1>2 DEF Snapshots
  <2>2. Update(t, [mem[t] EXCEPT !.status = s, !.form = f])
    BY <1>7, Zenon DEF Conclude
  <2>3. QED
    BY <1>1, <1>2, <2>1, <2>2
<1>8. ASSUME NEW i, NEW x, SetStep(t, i, x)
      PROVE  \A u \in Tasks : mem'[u].approval <= asked /\ disk'[u].approval <= asked
  <2>1. [mem[t] EXCEPT !.steps[i] = x].approval = mem[t].approval
    BY <1>2 DEF Snapshots
  <2>2. Update(t, [mem[t] EXCEPT !.steps[i] = x])
    BY <1>8, Zenon DEF SetStep
  <2>3. QED
    BY <1>1, <1>2, <2>1, <2>2
<1>9. QED
  BY <1>1, <1>2, <1>3, <1>4, <1>5, <1>6, <1>7, <1>8

\* Restoring the snapshots after a restart.
LEMMA LocalRestart ==
  ASSUME Local, Issued, Restart
  PROVE  Local' /\ Issued'
<1> USE DEF Local
<1>1. \A t \in Tasks : disk[t] \in Snapshots /\ Parked(disk[t]) \in Snapshots
  <2>1. \A t \in Tasks : disk[t] \in Snapshots
    BY DEF StoreTypes
  <2>2. \A s \in Snapshots : Parked(s) \in Snapshots
    BY SnapshotTypes, Zenon
  <2>3. QED
    BY <2>1, <2>2
<1>2. \A s \in Snapshots : Parked(s).approval \in {s.approval, 0}
  BY DEF Parked, Snapshots, NoApproval
<1>3. PICK lost \in SUBSET Tasks :
        disk' = [t \in Tasks |-> IF t \in lost THEN disk[t] ELSE mem'[t]]
  BY DEF Restart
<1>4. mem' = [t \in Tasks |-> Parked(disk[t])] /\ asked' = asked
  BY DEF Restart
<1>5. fails' \in Nat
  BY DEF Restart, StoreTypes
<1>6. StoreTypes'
  BY <1>1, <1>3, <1>4, <1>5 DEF StoreTypes
<1>7. JobTypes'
  <2>1. Idle \in Jobs /\ Idle.at \notin Engaged
    BY DEF Idle, Jobs, Positions, Outs, NoApproval, Engaged
  <2>2. job' = [w \in Workers |-> Idle]
    BY DEF Restart
  <2>3. QED
    BY <2>1, <2>2 DEF JobTypes, Working
<1>8. DeskTypes'
  BY DEF Restart, DeskTypes, Decided
<1>9. OtherTypes'
  <2>1. restarts' \in Nat /\ stopping' = FALSE /\ request' = [c \in Clients |-> NoRequest]
    BY DEF Restart, OtherTypes
  <2>2. QED
    BY <2>1 DEF OtherTypes
<1>10. Issued'
  <2>1. 0 <= asked
    BY DEF DeskTypes
  <2>2. \A t \in Tasks : mem'[t].approval <= asked /\ disk'[t].approval <= asked
    BY <1>1, <1>2, <1>3, <1>4, <2>1 DEF Issued
  <2>3. \A w \in Workers : job'[w].approval = 0
    BY DEF Restart, Idle, NoApproval
  <2>4. QED
    BY <1>4, <2>1, <2>2, <2>3 DEF Issued
<1>11. QED
  BY <1>6, <1>7, <1>8, <1>9, <1>10

\* A goroutine's step, or a request's, writes down no other id.
LEMMA IssuedStep ==
  ASSUME Local, Issued, Local', Next, ~Restart
  PROVE  Issued'
<1> USE DEF Local
<1>1. /\ asked \in Nat /\ asked <= asked' /\ asked' \in Nat
      /\ \A t \in Tasks : mem[t].approval \in Nat /\ disk[t].approval \in Nat
      /\ \A w \in Workers : job[w] \in Jobs /\ job[w].approval \in Nat
  <2>1. asked' = asked \/ asked' = asked + 1
    <3>1. ASSUME NEW w \in Workers, WorkerStep(w) PROVE asked' = asked \/ asked' = asked + 1
      BY <3>1, Zenon
         DEF WorkerStep, PassGate, EndChat, RefuseTask, BeginTurn, UpdatePlan, BeginStep,
             NotifyStep, Decide, PlanFails, InvokeFreely, Register, RequireApproval, HearDecision,
             Cancelled, Unregister, FailStep, CompleteStep, Respond, FinishResponseStep, Finish,
             Release, Exit, desk
    <3>2. QED
      BY <3>1 DEF Next, StartChat, SubmitInteraction, Task, LookUp, PrepareInput, Create,
                  ResolveApproval, SendDecision, Stop, Rest, desk, vars
  <2>2. \A t \in Tasks : mem[t].approval \in Nat /\ disk[t].approval \in Nat
    BY DEF StoreTypes, Snapshots
  <2>3. \A w \in Workers : job[w] \in Jobs /\ job[w].approval \in Nat
    BY DEF JobTypes, Jobs
  <2>4. QED
    BY <2>1, <2>2, <2>3 DEF DeskTypes
<1>2. \A t \in Tasks : mem'[t].approval <= asked' /\ disk'[t].approval <= asked'
  <2>1. CASE UNCHANGED <<mem, disk>>
    BY <1>1, <2>1 DEF Issued
  <2>2. ASSUME NEW t \in Tasks,
               \/ Update(t, mem[t]) \/ Accept(t) \/ Resolve(t) \/ AppendStep(t)
               \/ \E a \in Nat : a <= asked /\ Require(t, a)
               \/ \E s, f : Conclude(t, s, f)
               \/ \E i, x : SetStep(t, i, x)
        PROVE  \A u \in Tasks : mem'[u].approval <= asked' /\ disk'[u].approval <= asked'
    <3>1. \A u \in Tasks : mem'[u].approval <= asked /\ disk'[u].approval <= asked
      BY <2>2, StoreCallIssued
    <3>2. \A u \in Tasks : mem'[u].approval \in Nat /\ disk'[u].approval \in Nat
      BY DEF StoreTypes, Snapshots
    <3>3. QED
      BY <1>1, <3>1, <3>2
  <2>3. ASSUME NEW w \in Workers, WorkerStep(w)
        PROVE  \A u \in Tasks : mem'[u].approval <= asked' /\ disk'[u].approval <= asked'
    <3>1. CASE UNCHANGED store
      BY <2>1, <3>1 DEF store
    <3>2. CASE RefuseTask(w)
      BY <2>2, <3>2 DEF RefuseTask
    <3>3. CASE /\ job[w].at \in Engaged
               /\ \/ UpdatePlan(w) \/ BeginStep(w) \/ Respond(w) \/ RequireApproval(w)
                  \/ NotifyStep(w) \/ FailStep(w) \/ CompleteStep(w) \/ FinishResponseStep(w)
                  \/ Finish(w)
      <4>1. key[w] \in Tasks
        BY <3>3 DEF JobTypes, Working
      <4>2. CASE UpdatePlan(w) \/ BeginStep(w) \/ Respond(w)
        BY <2>2, <4>1, <4>2 DEF UpdatePlan, BeginStep, Respond
      <4>3. CASE RequireApproval(w)
        BY <1>1, <2>2, <4>1, <4>3 DEF RequireApproval, Issued
      <4>4. CASE NotifyStep(w) \/ FailStep(w) \/ CompleteStep(w) \/ FinishResponseStep(w)
        BY <2>2, <4>1, <4>4 DEF NotifyStep, FailStep, CompleteStep, FinishResponseStep
      <4>5. CASE Finish(w)
        BY <2>2, <4>1, <4>5 DEF Finish
      <4>6. QED
        BY <3>3, <4>2, <4>3, <4>4, <4>5
    <3>4. QED
      BY <2>3, <3>1, <3>2, <3>3
         DEF WorkerStep, PassGate, EndChat, BeginTurn, Decide, PlanFails, InvokeFreely, Register,
             HearDecision, Cancelled, Unregister, Release, Exit, store, UpdatePlan, BeginStep,
             Respond, NotifyStep, RequireApproval, FailStep, CompleteStep, FinishResponseStep,
             Finish, At, Engaged, Positions
  <2>4. ASSUME NEW c \in Clients, NEW w \in Workers, PrepareInput(c, w)
        PROVE  \A u \in Tasks : mem'[u].approval <= asked' /\ disk'[u].approval <= asked'
    <3>1. request[c].task \in Tasks
      BY <2>4 DEF PrepareInput, OtherTypes, Requests, NoRequest
    <3>2. QED
      BY <2>1, <2>2, <2>4, <3>1 DEF PrepareInput, store
  <2>5. QED
    BY <2>1, <2>2, <2>3, <2>4
       DEF Next, StartChat, SubmitInteraction, Task, LookUp, Create, ResolveApproval,
           SendDecision, Stop, Rest, store, vars
<1>3. \A w \in Workers : job'[w].approval <= asked'
  <2>1. \A w \in Workers : job[w].approval <= asked /\ job[w].approval <= asked'
    BY <1>1 DEF Issued
  <2>2. ASSUME NEW w \in Workers,
               \/ \E p : Goto(w, p)
               \/ \E o : Reply(w, o)
        PROVE  \A v \in Workers : job'[v].approval <= asked'
    BY <1>1, <2>1, <2>2 DEF Goto, Reply, JobTypes, Jobs
  <2>3. ASSUME NEW w \in Workers, WorkerStep(w)
        PROVE  \A v \in Workers : job'[v].approval <= asked'
    <3>1. CASE UNCHANGED job \/ (\E p : Goto(w, p)) \/ (\E o : Reply(w, o))
      BY <2>1, <2>2, <3>1
    <3>2. CASE BeginStep(w)
      <4>1. \A v \in Workers : job'[v].approval \in {job[v].approval, 0}
        BY <3>2, <1>1 DEF BeginStep, JobTypes, Jobs, NoApproval
      <4>2. QED
        BY <1>1, <2>1, <4>1
    <3>3. CASE Register(w)
      <4>1. \A v \in Workers : job'[v].approval \in {job[v].approval, asked'}
        BY <3>3, <1>1 DEF Register, JobTypes, Jobs
      <4>2. QED
        BY <1>1, <2>1, <4>1
    <3>4. CASE PlanFails(w) \/ Respond(w)
      <4>1. \A v \in Workers : job'[v].approval = job[v].approval
        <5>1. CASE PlanFails(w)
          BY <1>1, <5>1 DEF PlanFails, JobTypes, Jobs
        <5>2. ASSUME NEW o, NEW i,
                     job' = [job EXCEPT ![w].at = "replied", ![w].out = o, ![w].step = i]
              PROVE  \A v \in Workers : job'[v].approval = job[v].approval
          BY <1>1, <5>2 DEF JobTypes, Jobs
        <5>3. CASE Respond(w)
          BY <5>2, <5>3, Zenon DEF Respond
        <5>4. QED
          BY <3>4, <5>1, <5>3
      <4>2. QED
        BY <2>1, <4>1
    <3>5. CASE Exit(w)
      <4>1. \A v \in Workers : job'[v].approval \in {job[v].approval, 0}
        BY <3>5, <1>1 DEF Exit, JobTypes, Idle, NoApproval
      <4>2. QED
        BY <1>1, <2>1, <4>1
    <3>6. QED
      BY <2>3, <3>1, <3>2, <3>3, <3>4, <3>5, Zenon
         DEF WorkerStep, PassGate, EndChat, RefuseTask, BeginTurn, UpdatePlan, NotifyStep, Decide,
             InvokeFreely, RequireApproval, HearDecision, Cancelled, Unregister, FailStep,
             CompleteStep, FinishResponseStep, Finish, Release
  <2>4. QED
    BY <2>1, <2>2, <2>3
       DEF Next, StartChat, SubmitInteraction, Task, LookUp, PrepareInput, Create, Spawn,
           ResolveApproval, SendDecision, Stop, Rest, vars
<1>4. QED
  BY <1>1, <1>2, <1>3 DEF Issued

\* The gate of TurnGate_proofs is the gate of the runtime.
LEMMA SameGate ==
  /\ Gate!GateTypeOK <=> GateProof!GateTypeOK
  /\ (Gate!GateTypeOK)' <=> (GateProof!GateTypeOK)'
BY DEF Gate!GateTypeOK, GateProof!GateTypeOK, Gate!Places, GateProof!Places

\* What every reachable state keeps, whatever the store's calls do.
Base == Types /\ Issued /\ GateProof!GateInv

\* The first state has all of it, ...
LEMMA BaseInit == Init => Base
<1> SUFFICES ASSUME Init PROVE Base
  OBVIOUS
<1>1. Types
  BY TypesInit
<1>2. Issued
  BY DEF Init, Issued, NewSnapshot, Idle, NoApproval
<1>3. GateProof!GateInit
  BY DEF Init, Gate!GateInit, GateProof!GateInit
<1>4. GateProof!GateInv
  BY <1>3, GateAssumed, GateProof!GateInitInv
<1>5. QED
  BY <1>1, <1>2, <1>4 DEF Base

\* ... every step keeps it, whether the gate, a goroutine or a request moves, ...
LEMMA BaseStep == Base /\ [Next]_vars => Base'
<1> SUFFICES ASSUME Base, [Next]_vars PROVE Base'
  OBVIOUS
<1>1. Gate!GateTypeOK /\ Local /\ Issued /\ GateProof!GateInv
  BY TypesParts DEF Base, Local
<1>2. CASE UNCHANGED vars
  <2>1. UNCHANGED GateProof!gvars
    BY <1>2 DEF vars, gvars, GateProof!gvars
  <2>2. GateProof!GateInv'
    BY <1>1, <2>1, GateAssumed, GateProof!GateInvStep
  <2>3. Types' /\ Issued'
    BY <1>2 DEF Base, Types, TypeOK, Working, Issued, Decided, vars, gvars, store, desk, process,
                Gate!GateTypeOK
  <2>4. QED
    BY <2>2, <2>3 DEF Base
<1>3. CASE Next
  <2>1. GateProof!GateInv'
    <3>1. request \in [Clients -> {NoRequest} \cup Requests]
      BY <1>1 DEF Local, OtherTypes
    <3>2. GateProof!GateInit' => GateProof!GateInv'
      BY GateAssumed, GateProof!GateInitInv, PTL
    <3>3. GateProof!GateNext \/ UNCHANGED GateProof!gvars => GateProof!GateInv'
      BY <1>1, GateAssumed, GateProof!GateInvStep
    <3>4. QED
      BY <1>3, <3>1, <3>2, <3>3, GateMoves
  <2>2. Gate!GateTypeOK'
    <3>1. GateProof!GateTypeOK'
      BY <2>1 DEF GateProof!GateInv
    <3>2. QED
      BY <3>1, SameGate
  <2>3. CASE Restart
    BY <1>1, <2>1, <2>2, <2>3, LocalRestart, TypesPartsNext DEF Base, Local
  <2>4. CASE ~Restart
    <3>1. Local'
      <4>1. CASE \E w \in Workers : WorkerStep(w) \/ \E k \in Chats : StartChat(w, k)
        BY <1>1, <4>1, LocalOutside, LocalInside DEF WorkerStep
      <4>2. CASE Stop \/ Rest
        BY <1>1, <4>2 DEF Stop, Rest, Local, JobTypes, Working, StoreTypes, DeskTypes, Decided,
                          OtherTypes, vars, gvars, store, desk, process
      <4>3. QED
        BY <1>1, <1>3, <2>4, <4>1, <4>2, LocalRequest DEF Next
    <3>2. Issued'
      BY <1>1, <1>3, <2>4, <3>1, IssuedStep
    <3>3. QED
      BY <2>1, <2>2, <3>1, <3>2, TypesPartsNext DEF Base, Local
  <2>5. QED
    BY <2>3, <2>4
<1>4. QED
  BY <1>2, <1>3

\* ... and so every reachable state has it: what the invariants below build on.
THEOREM BaseInvariant == Safety => []Base
BY BaseInit, BaseStep, PTL DEF Safety

\* Every variable of the runtime keeps its type.
THEOREM TypeCorrect == Safety => []TypeOK
<1>1. Base => TypeOK
  BY DEF Base, Types
<1>2. QED
  BY <1>1, BaseInvariant, PTL

-----------------------------------------------------------------------------
(* The gate belongs to the goroutines that work. *)

\* A goroutine that has not started, or has returned, is outside the gate.
Outsiders == \A w \in Workers : At(w, "idle") => pc[w] = "idle"

LEMMA OutsidersInit == Init => Outsiders
BY DEF Init, Gate!GateInit, Outsiders

\* A step of one goroutine leaves the others where they are.
LEMMA OthersOutside ==
  ASSUME Base, Outsiders, NEW w \in Workers, WorkerStep(w) \/ \E k : Spawn(w, k)
  PROVE  Outsiders'
<1>1. job \in [Workers -> Jobs] /\ pc \in [Workers -> Gate!Places]
  BY TypesParts DEF Base, JobTypes, Gate!GateTypeOK
<1>2. CASE \E k : Spawn(w, k)
  BY <1>1, <1>2 DEF Spawn, At, Goto, Outsiders, Jobs, Gate!Call, Gate!Goto
<1>3. CASE PassGate(w)
  <2>1. pc[w] # "idle" /\ \E to : pc' = [pc EXCEPT ![w] = to]
    BY <1>3 DEF PassGate, Gate!Internal, Gate!TakeSlot, Gate!RejectFull, Gate!InsertKey,
                Gate!FindKey, Gate!RefundSlot, Gate!FreeSlot, Gate!Goto
  <2>2. job' = job
    BY <1>3 DEF PassGate
  <2>3. QED
    BY <1>1, <2>1, <2>2 DEF Outsiders, At
<1>4. CASE Release(w)
  BY <1>1, <1>4 DEF Release, Gate!DeleteKey, Gate!Goto, At, Outsiders
<1>5. CASE Exit(w)
  BY <1>1, <1>5 DEF Exit, Gate!ReleaseAgain, Gate!Dismiss, Gate!Goto, At, Outsiders
<1>6. CASE UpdatePlan(w)
  BY <1>6 DEF UpdatePlan, gvars, At, Outsiders
<1>7. ASSUME pc' = pc, \A v \in Workers \ {w} : job'[v] = job[v], job'[w].at # "idle"
      PROVE  Outsiders'
  BY <1>7 DEF Outsiders, At
<1>8. CASE \/ EndChat(w) \/ RefuseTask(w) \/ BeginTurn(w) \/ BeginStep(w) \/ NotifyStep(w)
           \/ Decide(w) \/ PlanFails(w) \/ InvokeFreely(w) \/ Register(w) \/ RequireApproval(w)
           \/ HearDecision(w) \/ Cancelled(w) \/ Unregister(w) \/ FailStep(w) \/ CompleteStep(w)
           \/ Respond(w) \/ FinishResponseStep(w) \/ Finish(w)
  <2>1. pc' = pc
    BY <1>8 DEF EndChat, RefuseTask, BeginTurn, BeginStep, NotifyStep, Decide, PlanFails,
                InvokeFreely, Register, RequireApproval, HearDecision, Cancelled, Unregister,
                FailStep, CompleteStep, Respond, FinishResponseStep, Finish, gvars
  <2>2. (\A v \in Workers \ {w} : job'[v] = job[v]) /\ job'[w].at # "idle"
    <3> DEFINE Elsewhere == (\A v \in Workers \ {w} : job'[v] = job[v]) /\ job'[w].at # "idle"
    <3>1. job[w] \in Jobs
      BY <1>1
    <3>2. ASSUME NEW p, p # "idle", Goto(w, p) PROVE Elsewhere
      BY <1>1, <3>1, <3>2 DEF Goto, Jobs
    <3>3. ASSUME NEW out, Reply(w, out) PROVE Elsewhere
      BY <1>1, <3>1, <3>3 DEF Reply, Jobs
    <3>4. CASE BeginStep(w)
      BY <1>1, <3>1, <3>4 DEF BeginStep, Jobs
    <3>5. CASE PlanFails(w)
      BY <1>1, <3>1, <3>5 DEF PlanFails, Jobs
    <3>6. CASE Register(w)
      BY <1>1, <3>1, <3>6 DEF Register, Jobs
    <3>7. CASE Respond(w)
      BY <1>1, <3>1, <3>7 DEF Respond, Jobs
    <3>8. CASE Decide(w) \/ FailStep(w)
      BY <3>3, <3>8 DEF Decide, FailStep
    <3>9. CASE CompleteStep(w)
      BY <3>2, <3>3, <3>9 DEF CompleteStep
    <3>10. CASE HearDecision(w)
      BY <3>2, <3>10 DEF HearDecision
    <3>11. CASE \/ EndChat(w) \/ RefuseTask(w) \/ BeginTurn(w) \/ NotifyStep(w) \/ InvokeFreely(w)
                \/ RequireApproval(w) \/ Cancelled(w) \/ Unregister(w) \/ FinishResponseStep(w)
                \/ Finish(w)
      BY <3>2, <3>11
         DEF EndChat, RefuseTask, BeginTurn, NotifyStep, InvokeFreely, RequireApproval, Cancelled,
             Unregister, FinishResponseStep, Finish
    <3>12. QED
      BY <1>8, <3>4, <3>5, <3>6, <3>7, <3>8, <3>9, <3>10, <3>11
  <2>3. QED
    BY <1>7, <2>1, <2>2
<1>9. QED
  BY <1>2, <1>3, <1>4, <1>5, <1>6, <1>8 DEF WorkerStep

\* No step puts a goroutine that is not running into the gate.
LEMMA OutsidersStep == Base /\ Outsiders /\ [Next]_vars => Outsiders'
<1> SUFFICES ASSUME Base, Outsiders, [Next]_vars PROVE Outsiders'
  OBVIOUS
<1>1. ASSUME UNCHANGED <<gvars, job>> PROVE Outsiders'
  BY <1>1 DEF gvars, Outsiders, At
<1>2. ASSUME NEW w \in Workers, NEW k \in Chats, StartChat(w, k) PROVE Outsiders'
  BY <1>2, OthersOutside DEF StartChat
<1>3. ASSUME NEW c \in Clients, NEW w \in Workers, PrepareInput(c, w) PROVE Outsiders'
  BY <1>1, <1>3, OthersOutside DEF PrepareInput
<1>4. ASSUME NEW c \in Clients, NEW w \in Workers, NEW t \in Tasks, Create(c, w, t)
      PROVE  Outsiders'
  BY <1>4, OthersOutside DEF Create
<1>5. CASE Restart
  BY <1>5 DEF Restart, Outsiders
<1>6. CASE \/ \E c \in Clients : SubmitInteraction(c)
           \/ \E c \in Clients, t \in Tasks : Task(c, t) \/ LookUp(c, t)
           \/ \E t \in Tasks, d \in Decisions : ResolveApproval(t, d)
           \/ \E a \in 1..MaxApprovals, d \in Decisions : SendDecision(a, d)
           \/ Stop \/ Rest \/ UNCHANGED vars
  <2>1. UNCHANGED <<gvars, job>>
    BY <1>6 DEF SubmitInteraction, Task, LookUp, ResolveApproval, SendDecision, Stop, Rest, vars
  <2>2. QED
    BY <1>1, <2>1
<1>7. QED
  BY <1>2, <1>3, <1>4, <1>5, <1>6, OthersOutside DEF Next

\* With the guarantees of the gate this is enough: whoever works holds the gate,
\* and whoever holds it has not returned.
LEMMA OwnersSuffice == Base /\ Outsiders => TurnsOwnTheGate
<1> SUFFICES ASSUME Base, Outsiders PROVE TurnsOwnTheGate
  OBVIOUS
<1>1. /\ job \in [Workers -> Jobs] /\ Working
      /\ active = {key[w] : w \in Gate!Holders}
      /\ \A v, w \in Gate!Holders : key[v] = key[w] => v = w
      /\ slots = Cardinality(Gate!SlotUsers)
  <2>1. \A S : Cardinality(S) = GateProof!Cardinality(S)
    BY DEF Cardinality, GateProof!Cardinality, IsFiniteSet, GateProof!IsFiniteSet
  <2>2. QED
    BY <2>1, TypesParts
       DEF Base, JobTypes, GateProof!GateInv, GateProof!OneTurnPerKey, GateProof!KeysAreHeld,
           GateProof!SlotsAreOwed, Gate!Holders, GateProof!Holders, Gate!SlotUsers,
           GateProof!SlotUsers
<1>2. InTurn \subseteq Gate!Holders
  BY <1>1 DEF InTurn, Launched, At, Working, Engaged, Jobs, Gate!Holders
<1>3. Gate!Holders \subseteq Launched /\ Gate!SlotUsers \subseteq Launched
  BY DEF Outsiders, Launched, Gate!Holders, Gate!SlotUsers
<1>4. slots <= Cardinality(Launched)
  <2>1. Launched \subseteq Workers
    BY DEF Launched
  <2>2. IsFiniteSet(Launched)
    BY <2>1, FS_Subset, RuntimeAssumption
  <2>3. Cardinality(Gate!SlotUsers) <= Cardinality(Launched)
    BY <1>3, <2>2, FS_Subset
  <2>4. QED
    BY <1>1, <2>3
<1>5. \A w \in InTurn : key[w] \in active
  BY <1>1, <1>2
<1>6. active \subseteq {key[w] : w \in Launched}
  BY <1>1, <1>3
<1>7. QED
  BY <1>1, <1>2, <1>4, <1>5, <1>6 DEF TurnsOwnTheGate

\* Whoever works on a task owns its key, and every key and slot belongs to a
\* goroutine that has not returned: no way out of runTask or RunTurn leaks.
THEOREM TurnsAlwaysOwnTheGate == Safety => []TurnsOwnTheGate
<1>1. Init => Outsiders
  BY OutsidersInit
<1>2. Base /\ Outsiders /\ [Next]_vars => Outsiders'
  BY OutsidersStep
<1>3. Base /\ Outsiders => TurnsOwnTheGate
  BY OwnersSuffice
<1>4. QED
  BY <1>1, <1>2, <1>3, BaseInvariant, PTL DEF Safety

-----------------------------------------------------------------------------
(* One goroutine behind every task that is under way. *)

\* What the store's calls do to a task's status; other tasks keep theirs.
LEMMA StatusAfter ==
  ASSUME StoreTypes, NEW t \in Tasks
  PROVE  /\ Accept(t) => mem'[t].status = "running"
         /\ Resolve(t) => mem'[t].status = "running"
         /\ \A a : Require(t, a) => mem'[t].status = "waiting_approval"
         /\ \A s, f : Conclude(t, s, f) => mem'[t].status = s
         /\ AppendStep(t) => mem'[t].status = mem[t].status
         /\ \A i, x : SetStep(t, i, x) => mem'[t].status = mem[t].status
         /\ \A s : Update(t, s) => \A u \in Tasks \ {t} : mem'[u] = mem[u]
<1>1. mem \in [Tasks -> Snapshots] /\ mem[t] \in Snapshots
  BY DEF StoreTypes
<1>2. \A s : Update(t, s) => mem'[t] = s
  BY <1>1 DEF Update
<1>3. \A s : Update(t, s) => \A u \in Tasks \ {t} : mem'[u] = mem[u]
  BY <1>1 DEF Update
<1>4. Accept(t) => mem'[t].status = "running"
  <2>1. [mem[t] EXCEPT !.status = "running", !.form = NoForm, !.turn = @ + 1,
                       !.steps = Relabel(@, "waiting_input", "closed")].status = "running"
    BY <1>1 DEF Snapshots
  <2>2. QED
    BY <1>2, <2>1, Zenon DEF Accept
<1>5. Resolve(t) => mem'[t].status = "running"
  <2>1. [mem[t] EXCEPT !.status = "running", !.approval = NoApproval,
                       !.steps = Relabel(@, "waiting_approval", "running")].status = "running"
    BY <1>1 DEF Snapshots
  <2>2. QED
    BY <1>2, <2>1, Zenon DEF Resolve
<1>6. ASSUME NEW a, Require(t, a) PROVE mem'[t].status = "waiting_approval"
  <2>1. [mem[t] EXCEPT !.status = "waiting_approval", !.approval = a,
                       !.steps = Relabel(@, "running", "waiting_approval")].status
          = "waiting_approval"
    BY <1>1 DEF Snapshots
  <2>2. QED
    BY <1>2, <1>6, <2>1, Zenon DEF Require
<1>7. ASSUME NEW s, NEW f, Conclude(t, s, f) PROVE mem'[t].status = s
  <2>1. [mem[t] EXCEPT !.status = s, !.form = f].status = s
    BY <1>1 DEF Snapshots
  <2>2. QED
    BY <1>2, <1>7, <2>1, Zenon DEF Conclude
<1>8. AppendStep(t) => mem'[t].status = mem[t].status
  <2>1. [mem[t] EXCEPT !.steps = Append(@, "running")].status = mem[t].status
    BY <1>1 DEF Snapshots
  <2>2. QED
    BY <1>2, <2>1, Zenon DEF AppendStep
<1>9. ASSUME NEW i, NEW x, SetStep(t, i, x) PROVE mem'[t].status = mem[t].status
  <2>1. [mem[t] EXCEPT !.steps[i] = x].status = mem[t].status
    BY <1>1 DEF Snapshots
  <2>2. QED
    BY <1>2, <1>9, <2>1, Zenon DEF SetStep
<1>10. QED
  BY <1>3, <1>4, <1>5, <1>6, <1>7, <1>8, <1>9

Busy == {"running", "waiting_approval"}

\* Only the two ends of a drive change who drives what.
LEMMA DriverStays ==
  ASSUME OneDriver,
         \A t \in Tasks : mem'[t].status \in Busy <=> mem[t].status \in Busy,
         \A w \in Workers : key[w] \in Tasks \/ key'[w] \in Tasks =>
           \/ /\ key'[w] = key[w]
              /\ job'[w].at \in {"idle", "finished"} <=> job[w].at \in {"idle", "finished"}
           \/ job[w].at \in {"idle", "finished"} /\ job'[w].at \in {"idle", "finished"}
  PROVE  OneDriver'
<1>1. \A t \in Tasks : Drivers(t)' = Drivers(t)
  BY DEF Drivers
<1>2. UnderWay' = UnderWay
  BY DEF UnderWay, Busy
<1>3. QED
  BY <1>1, <1>2 DEF OneDriver, UnderWay

\* A goroutine starts to drive a task nobody drives.
LEMMA DriverStarts ==
  ASSUME Base, OneDriver, NEW w \in Workers, NEW t \in Tasks,
         mem[t].status \notin Busy, Accept(t), Spawn(w, t)
  PROVE  OneDriver'
<1>1. mem'[t].status \in Busy /\ \A u \in Tasks \ {t} : mem'[u] = mem[u]
  <2>1. StoreTypes
    BY TypesParts DEF Base
  <2>2. mem'[t].status = "running"
    BY <2>1, StatusAfter
  <2>3. \E s : Update(t, s)
    BY Zenon DEF Accept
  <2>4. QED
    BY <2>1, <2>2, <2>3, StatusAfter, Zenon DEF Busy
<1>2. /\ job[w].at = "idle" /\ job'[w].at = "starting" /\ key'[w] = t
      /\ \A v \in Workers \ {w} : job'[v] = job[v] /\ key'[v] = key[v]
  BY TypesParts DEF Base, JobTypes, Jobs, Spawn, At, Goto, Gate!Call, Gate!Goto, Gate!GateTypeOK
<1>3. Drivers(t)' = {w}
  <2>1. Drivers(t) = {}
    BY DEF OneDriver, UnderWay, Busy
  <2>2. QED
    BY <1>2, <2>1 DEF Drivers
<1>4. \A u \in Tasks \ {t} : Drivers(u)' = Drivers(u)
  BY <1>2 DEF Drivers
<1>5. UnderWay' = UnderWay \cup {t}
  BY <1>1 DEF UnderWay, Busy
<1>6. QED
  BY <1>3, <1>4, <1>5 DEF OneDriver, UnderWay

\* A goroutine that writes a task's end stops driving it with the same step.
LEMMA DriverEnds ==
  ASSUME Base, OneDriver, NEW w \in Workers, key[w] \in Tasks,
         job[w].at \notin {"idle", "finished"}, Goto(w, "finished"), UNCHANGED gvars,
         NEW s \in {"completed", "failed", "waiting_input"}, NEW f, Conclude(key[w], s, f)
  PROVE  OneDriver'
<1> DEFINE t == key[w]
<1>1. mem'[t].status \notin Busy /\ \A u \in Tasks \ {t} : mem'[u] = mem[u]
  <2>1. StoreTypes
    BY TypesParts DEF Base
  <2>2. mem'[t].status = s
    BY <2>1, StatusAfter
  <2>3. \E n : Update(t, n)
    BY Zenon DEF Conclude
  <2>4. \A u \in Tasks \ {t} : mem'[u] = mem[u]
    BY <2>1, <2>3, StatusAfter, Zenon
  <2>5. QED
    BY <2>2, <2>4 DEF Busy
<1>2. /\ job'[w].at = "finished" /\ key' = key
      /\ \A v \in Workers \ {w} : job'[v] = job[v]
  BY TypesParts DEF Base, JobTypes, Jobs, Goto, gvars
<1>3. t \in UnderWay /\ Drivers(t) = {w}
  <2>1. w \in Drivers(t)
    BY DEF Drivers
  <2>2. QED
    BY <2>1 DEF OneDriver
<1>4. Drivers(t)' = {}
  BY <1>2, <1>3 DEF Drivers
<1>5. \A u \in Tasks \ {t} : Drivers(u)' = Drivers(u)
  BY <1>2 DEF Drivers
<1>6. UnderWay' = UnderWay \ {t}
  BY <1>1 DEF UnderWay, Busy
<1>7. \A u \in UnderWay' : u # t /\ \E v \in Workers : Drivers(u)' = {v}
  BY <1>5, <1>6 DEF OneDriver, UnderWay
<1>8. \A u \in Tasks \ UnderWay' : Drivers(u)' = {}
  <2>1. \A u \in Tasks \ UnderWay' : u # t => u \in Tasks \ UnderWay
    BY <1>6
  <2>2. \A u \in Tasks \ UnderWay : Drivers(u) = {}
    BY DEF OneDriver
  <2>3. ASSUME NEW u \in Tasks \ UnderWay' PROVE Drivers(u)' = {}
    <3>1. CASE u = t
      BY <1>2, <1>3, <3>1 DEF Drivers
    <3>2. CASE u # t
      BY <1>5, <2>1, <2>2, <2>3, <3>2, Zenon
    <3>3. QED
      BY <3>1, <3>2
  <2>4. QED
    BY <2>3
<1>9. QED
  BY <1>7, <1>8 DEF OneDriver

\* The calls of the store within a turn.
WithinTurn(t) == \/ Update(t, mem[t])
                 \/ AppendStep(t)
                 \/ \E i, x : SetStep(t, i, x)
                 \/ mem[t].status \in Busy /\ Resolve(t)
                 \/ mem[t].status \in Busy /\ \E a : Require(t, a)

\* They leave work under way.
LEMMA BusyStays ==
  ASSUME StoreTypes, NEW t \in Tasks, WithinTurn(t)
  PROVE  \A u \in Tasks : mem'[u].status \in Busy <=> mem[u].status \in Busy
<1> USE DEF WithinTurn
<1>1. \A u \in Tasks \ {t} : mem'[u] = mem[u]
  <2>1. \E s : Update(t, s)
    BY Zenon DEF AppendStep, SetStep, Resolve, Require
  <2>2. QED
    BY <2>1, StatusAfter, Zenon
<1>2. mem'[t].status \in Busy <=> mem[t].status \in Busy
  <2>0. CASE Update(t, mem[t])
    BY <2>0 DEF Update, StoreTypes
  <2>1. CASE AppendStep(t) \/ \E i, x : SetStep(t, i, x)
    BY <2>1, StatusAfter, Zenon
  <2>2. CASE mem[t].status \in Busy /\ Resolve(t)
    <3>1. mem'[t].status = "running"
      BY <2>2, StatusAfter, Zenon
    <3>2. QED
      BY <2>2, <3>1 DEF Busy
  <2>3. CASE mem[t].status \in Busy /\ \E a : Require(t, a)
    <3>1. mem'[t].status = "waiting_approval"
      BY <2>3, StatusAfter, Zenon
    <3>2. QED
      BY <2>3, <3>1 DEF Busy
  <2>4. QED
    BY <2>0, <2>1, <2>2, <2>3
<1>3. QED
  BY <1>1, <1>2

\* A goroutine within its turn keeps driving.
LEMMA InsideStays ==
  ASSUME job \in [Workers -> Jobs], NEW w \in Workers,
         \/ UpdatePlan(w)
         \/ BeginStep(w) \/ NotifyStep(w) \/ Decide(w) \/ PlanFails(w) \/ InvokeFreely(w)
         \/ Register(w)
         \/ RequireApproval(w) \/ HearDecision(w) \/ Cancelled(w) \/ Unregister(w)
         \/ FailStep(w) \/ CompleteStep(w) \/ Respond(w) \/ FinishResponseStep(w)
         \/ BeginTurn(w)
  PROVE  \A v \in Workers :
           job'[v].at \in {"idle", "finished"} <=> job[v].at \in {"idle", "finished"}
<1>1. ASSUME NEW p, p \notin {"idle", "finished"}, Goto(w, p)
      PROVE  job'[w].at = p /\ \A v \in Workers \ {w} : job'[v] = job[v]
  BY <1>1 DEF Goto, Jobs
<1>2. ASSUME NEW o, Reply(w, o)
      PROVE  job'[w].at = "responding" /\ \A v \in Workers \ {w} : job'[v] = job[v]
  BY <1>2 DEF Reply, Jobs
<1>3. job[w].at \notin {"idle", "finished"}
  BY DEF UpdatePlan, BeginStep, NotifyStep, Decide, PlanFails, InvokeFreely, Register,
         RequireApproval, HearDecision, Cancelled, Unregister, FailStep, CompleteStep, Respond,
         FinishResponseStep, BeginTurn, At
<1>4. job'[w].at \notin {"idle", "finished"} /\ \A v \in Workers \ {w} : job'[v] = job[v]
  <2>0. CASE UpdatePlan(w)
    BY <1>3, <2>0 DEF UpdatePlan
  <2>1. CASE BeginStep(w)
    <3>1. ASSUME NEW i, job' = [job EXCEPT ![w].at = "begun", ![w].acts = @ + 1, ![w].step = i,
                                           ![w].approval = NoApproval]
          PROVE  job'[w].at = "begun" /\ \A v \in Workers \ {w} : job'[v] = job[v]
      BY <3>1 DEF Jobs
    <3>2. QED
      BY <2>1, <3>1, Zenon DEF BeginStep
  <2>2. CASE Respond(w)
    <3>1. ASSUME NEW o, NEW i,
                 job' = [job EXCEPT ![w].at = "replied", ![w].out = o, ![w].step = i]
          PROVE  job'[w].at = "replied" /\ \A v \in Workers \ {w} : job'[v] = job[v]
      BY <3>1 DEF Jobs
    <3>2. QED
      BY <2>2, <3>1, Zenon DEF Respond
  <2>3. CASE PlanFails(w) \/ Register(w)
    BY <2>3 DEF PlanFails, Register, Jobs
  <2>4. CASE Decide(w) \/ FailStep(w) \/ CompleteStep(w)
    BY <1>1, <1>2, <2>4 DEF Decide, FailStep, CompleteStep
  <2>5. CASE \/ NotifyStep(w) \/ InvokeFreely(w) \/ RequireApproval(w) \/ HearDecision(w)
             \/ Cancelled(w) \/ Unregister(w) \/ FinishResponseStep(w) \/ BeginTurn(w)
    <3>1. \E p \in {"planning", "acting", "invoking", "waiting", "failing",
                 "cancelled", "settled"} :
            Goto(w, p)
      BY <2>5 DEF NotifyStep, InvokeFreely, RequireApproval, HearDecision, Cancelled, Unregister,
                  FinishResponseStep, BeginTurn
    <3>2. QED
      BY <1>1, <3>1
  <2>6. QED
    BY <2>0, <2>1, <2>2, <2>3, <2>4, <2>5
<1>5. QED
  BY <1>3, <1>4

\* Every step keeps one goroutine behind every task that is under way.
LEMMA DriverStep == Base /\ OneDriver /\ [Next]_vars => OneDriver'
<1> SUFFICES ASSUME Base, OneDriver, [Next]_vars PROVE OneDriver'
  OBVIOUS
<1>0. /\ StoreTypes /\ job \in [Workers -> Jobs] /\ Working
      /\ Gate!GateTypeOK /\ OtherTypes
      /\ Tasks \cap Chats = {} /\ NoKey \notin Tasks \cup Chats
  BY TypesParts, RuntimeAssumption DEF Base, JobTypes
<1>1. ASSUME UNCHANGED <<job, mem, key>> PROVE OneDriver'
  BY <1>1 DEF OneDriver, UnderWay, Drivers
<1>2. ASSUME NEW w \in Workers, key[w] \in Tasks, job[w].at \notin {"idle", "finished"}
      PROVE  mem[key[w]].status \in Busy
  <2>1. w \in Drivers(key[w])
    BY <1>2 DEF Drivers
  <2>2. QED
    BY <1>2, <2>1 DEF OneDriver, UnderWay, Busy
<1>3. ASSUME UNCHANGED key,
             \A v \in Workers :
               job'[v].at \in {"idle", "finished"} <=> job[v].at \in {"idle", "finished"},
             UNCHANGED mem \/ \E t \in Tasks : WithinTurn(t)
      PROVE  OneDriver'
  <2>1. \A u \in Tasks : mem'[u].status \in Busy <=> mem[u].status \in Busy
    BY <1>0, <1>3, BusyStays
  <2>2. QED
    BY <1>3, <2>1, DriverStays
<1>4. ASSUME NEW w \in Workers,
             \/ UpdatePlan(w)
             \/ BeginStep(w) \/ NotifyStep(w) \/ Decide(w) \/ PlanFails(w) \/ InvokeFreely(w)
             \/ Register(w)
             \/ RequireApproval(w) \/ HearDecision(w) \/ Cancelled(w) \/ Unregister(w)
             \/ FailStep(w) \/ CompleteStep(w) \/ Respond(w) \/ FinishResponseStep(w)
             \/ BeginTurn(w)
      PROVE  OneDriver'
  <2>1. /\ UNCHANGED key
        /\ job[w].at \notin {"idle", "finished"}
        /\ ~BeginTurn(w) => job[w].at \in Engaged
    BY <1>4 DEF UpdatePlan, BeginStep, NotifyStep, Decide, PlanFails, InvokeFreely, Register,
                RequireApproval, HearDecision, Cancelled, Unregister, FailStep, CompleteStep,
                Respond, FinishResponseStep, BeginTurn, At, gvars, Engaged, Positions
  <2>2. key[w] \in Tasks
    BY <1>0, <2>1 DEF Working, BeginTurn
  <2>3. mem[key[w]].status \in Busy
    BY <1>2, <2>1, <2>2
  <2>4. \/ UNCHANGED mem
        \/ Update(key[w], mem[key[w]])
        \/ AppendStep(key[w])
        \/ \E i, x : SetStep(key[w], i, x)
        \/ \E a : Require(key[w], a)
    BY <1>4, Zenon
       DEF UpdatePlan, BeginStep, NotifyStep, Decide, PlanFails, InvokeFreely, Register,
           RequireApproval, HearDecision, Cancelled, Unregister, FailStep, CompleteStep, Respond,
           FinishResponseStep, BeginTurn, store
  <2>5. UNCHANGED mem \/ WithinTurn(key[w])
    BY <2>3, <2>4, Zenon DEF WithinTurn
  <2>6. \A v \in Workers :
          job'[v].at \in {"idle", "finished"} <=> job[v].at \in {"idle", "finished"}
    BY <1>0, <1>4, InsideStays, Zenon
  <2>7. QED
    BY <1>3, <2>1, <2>2, <2>5, <2>6, Zenon
<1>5. ASSUME NEW w \in Workers,
             \/ PassGate(w) \/ EndChat(w) \/ Release(w) \/ Exit(w)
             \/ \E k \in Chats : StartChat(w, k)
      PROVE  OneDriver'
  <2>1. UNCHANGED mem
    BY <1>5 DEF PassGate, EndChat, Release, Exit, StartChat, store
  <2>2. CASE PassGate(w) \/ Release(w)
    BY <1>1, <2>1, <2>2, PassingGate DEF PassGate, Release, Gate!DeleteKey
  <2>3. CASE EndChat(w)
    <3>1. key' = key /\ key[w] \notin Tasks /\ \A v \in Workers \ {w} : job'[v] = job[v]
      BY <1>0, <2>3 DEF EndChat, Goto, gvars
    <3>2. QED
      BY <2>1, <3>1, DriverStays
  <2>4. CASE Exit(w)
    <3>1. /\ job[w].at = "finished" /\ job'[w].at = "idle"
          /\ \A v \in Workers \ {w} : job'[v] = job[v] /\ key'[v] = key[v]
      BY <1>0, <2>4 DEF Exit, At, Idle, Gate!ReleaseAgain, Gate!Dismiss, Gate!GateTypeOK
    <3>2. QED
      BY <2>1, <3>1, DriverStays
  <2>5. ASSUME NEW k \in Chats, StartChat(w, k) PROVE OneDriver'
    <3>1. /\ pc[w] = "idle" /\ key[w] = NoKey /\ key'[w] = k
          /\ \A v \in Workers \ {w} : job'[v] = job[v] /\ key'[v] = key[v]
      BY <1>0, <2>5 DEF StartChat, Spawn, Goto, Gate!Call, Gate!Goto, Gate!GateTypeOK
    <3>2. key[w] \notin Tasks /\ key'[w] \notin Tasks
      BY <1>0, <3>1
    <3>3. QED
      BY <2>1, <3>1, <3>2, DriverStays
  <2>6. QED
    BY <1>5, <2>2, <2>3, <2>4, <2>5
<1>6. ASSUME NEW w \in Workers, RefuseTask(w) PROVE OneDriver'
  BY <1>6, DriverEnds, Zenon DEF RefuseTask, At
<1>7. ASSUME NEW w \in Workers, Finish(w) PROVE OneDriver'
  <2>1. key[w] \in Tasks /\ job[w].at \notin {"idle", "finished"}
    BY <1>0, <1>7 DEF Finish, At, Working, Engaged, Positions
  <2>2. \E s \in {"completed", "failed", "waiting_input"} : \E f : Conclude(key[w], s, f)
    BY <1>7, Zenon DEF Finish
  <2>3. QED
    BY <1>7, <2>1, <2>2, DriverEnds DEF Finish
<1>8. ASSUME NEW c \in Clients,
             SubmitInteraction(c) \/ \E t \in Tasks : Task(c, t) \/ LookUp(c, t)
      PROVE  OneDriver'
  BY <1>1, <1>8 DEF SubmitInteraction, Task, LookUp, gvars, store
<1>9. ASSUME NEW c \in Clients, NEW w \in Workers, PrepareInput(c, w) PROVE OneDriver'
  <2>1. request[c].task \in Tasks
    BY <1>0, <1>9 DEF PrepareInput, OtherTypes, Requests, NoRequest
  <2>2. CASE mem[request[c].task].status = "waiting_input"
    BY <1>9, <2>1, <2>2, DriverStarts DEF PrepareInput, Busy
  <2>3. CASE mem[request[c].task].status # "waiting_input"
    BY <1>1, <1>9, <2>3 DEF PrepareInput, gvars, store
  <2>4. QED
    BY <2>2, <2>3
<1>10. ASSUME NEW c \in Clients, NEW w \in Workers, NEW t \in Tasks, Create(c, w, t)
       PROVE  OneDriver'
  BY <1>10, DriverStarts DEF Create, Busy
<1>11. ASSUME NEW t \in Tasks, NEW d \in Decisions, ResolveApproval(t, d) PROVE OneDriver'
  <2>1. WithinTurn(t) /\ UNCHANGED job /\ UNCHANGED key
    BY <1>11 DEF ResolveApproval, WithinTurn, Busy, gvars
  <2>2. \A v \in Workers :
          job'[v].at \in {"idle", "finished"} <=> job[v].at \in {"idle", "finished"}
    BY <2>1
  <2>3. QED
    BY <1>3, <2>1, <2>2, Zenon
<1>12. CASE Restart
  <2>1. \A t \in Tasks : Drivers(t)' = {}
    BY <1>12 DEF Restart, Drivers, Idle
  <2>2. \A s \in Snapshots : Parked(s).status \notin Busy
    BY DEF Parked, Snapshots, Busy
  <2>3. \A t \in Tasks : mem'[t].status \notin Busy
    BY <1>0, <1>12, <2>2 DEF Restart, StoreTypes
  <2>4. QED
    BY <2>1, <2>3 DEF OneDriver, UnderWay, Busy
<1>13. CASE \/ \E a \in 1..MaxApprovals, d \in Decisions : SendDecision(a, d)
            \/ Stop \/ Rest \/ UNCHANGED vars
  BY <1>1, <1>13 DEF SendDecision, Stop, Rest, vars, gvars, store
<1>14. QED
  BY <1>4, <1>5, <1>6, <1>7, <1>8, <1>9, <1>10, <1>11, <1>12, <1>13 DEF Next, WorkerStep

\* A task is running or waits for an approval exactly while one goroutine
\* drives it, through every restart, lost save and cancelled context.
THEOREM OneDriverAlways == Safety => []OneDriver
<1>1. Init => OneDriver
  BY DEF Init, OneDriver, UnderWay, Drivers, NewSnapshot, Idle
<1>2. QED
  BY <1>1, DriverStep, BaseInvariant, PTL DEF Safety

-----------------------------------------------------------------------------
(* No tool runs without its approval. *)

\* A goroutine comes to its call with no approval of an earlier step, and a
\* decision on its way that lets a tool run is one the user has taken.
Approved ==
  /\ \A w \in Workers : At(w, "begun") \/ At(w, "acting") => job[w].approval = NoApproval
  /\ \A a \in 1..asked : <<a, "approved">> \in mail \cup deciding => a \in granted

\* Every step leaves a grant behind each approval a goroutine acts on.
LEMMA ApprovedStep ==
  Base /\ Approved /\ NoUnapprovedInvocation /\ [Next]_vars
    => Approved' /\ NoUnapprovedInvocation'
<1> SUFFICES ASSUME Base, Approved, NoUnapprovedInvocation, [Next]_vars
             PROVE  Approved' /\ NoUnapprovedInvocation'
  OBVIOUS
<1>0. job \in [Workers -> Jobs] /\ DeskTypes
  BY TypesParts DEF Base, JobTypes
<1>1. ASSUME \A v \in Workers :
               job'[v] = job[v] \/ job'[v].at \notin {"begun", "acting", "invoking"},
             granted \subseteq granted'
      PROVE  /\ \A v \in Workers :
                   job'[v].at \in {"begun", "acting"} => job'[v].approval = NoApproval
             /\ NoUnapprovedInvocation'
  BY <1>1 DEF Approved, NoUnapprovedInvocation, At
<1>2. ASSUME mail' \subseteq mail, deciding' \subseteq deciding, granted' = granted
      PROVE  \A a \in 1..asked' : <<a, "approved">> \in mail' \cup deciding' => a \in granted'
  <2>1. \A a : <<a, "approved">> \in mail \cup deciding => a \in 1..asked
    BY <1>0 DEF DeskTypes, Decided
  <2>2. QED
    BY <1>2, <2>1 DEF Approved
<1>3. ASSUME NEW w \in Workers, BeginStep(w)
      PROVE  Approved' /\ NoUnapprovedInvocation'
  <2>1. ASSUME NEW i, job' = [job EXCEPT ![w].at = "begun", ![w].acts = @ + 1, ![w].step = i,
                                         ![w].approval = NoApproval]
        PROVE  /\ job'[w].at = "begun" /\ job'[w].approval = NoApproval
               /\ \A v \in Workers \ {w} : job'[v] = job[v]
    BY <1>0, <2>1 DEF Jobs
  <2>2. /\ job'[w].at = "begun" /\ job'[w].approval = NoApproval
        /\ \A v \in Workers \ {w} : job'[v] = job[v]
    BY <1>3, <2>1, Zenon DEF BeginStep
  <2>3. UNCHANGED desk
    BY <1>3 DEF BeginStep
  <2>4. QED
    BY <1>2, <2>2, <2>3 DEF Approved, NoUnapprovedInvocation, At, desk
<1>4. ASSUME NEW w \in Workers, NotifyStep(w) \/ InvokeFreely(w)
      PROVE  Approved' /\ NoUnapprovedInvocation'
  <2>1. /\ job'[w].at \in {"acting", "invoking"} /\ job'[w].approval = NoApproval
        /\ \A v \in Workers \ {w} : job'[v] = job[v]
    BY <1>0, <1>4 DEF NotifyStep, InvokeFreely, Goto, At, Approved, Jobs
  <2>2. UNCHANGED desk
    BY <1>4 DEF NotifyStep, InvokeFreely
  <2>3. QED
    BY <1>2, <2>1, <2>2 DEF Approved, NoUnapprovedInvocation, At, desk
<1>5. ASSUME NEW w \in Workers, HearDecision(w)
      PROVE  Approved' /\ NoUnapprovedInvocation'
  <2>1. PICK d \in Decisions : /\ <<job[w].approval, d>> \in mail
                               /\ Goto(w, IF d = "approved" THEN "invoking" ELSE "failing")
    BY <1>5 DEF HearDecision
  <2>2. mail' \subseteq mail /\ UNCHANGED <<deciding, granted, asked>>
    BY <1>5 DEF HearDecision
  <2>3. d = "approved" => job[w].approval \in granted
    BY <1>0, <2>1 DEF Approved, DeskTypes, Decided
  <2>4. /\ job'[w].at = IF d = "approved" THEN "invoking" ELSE "failing"
        /\ job'[w].approval = job[w].approval
        /\ \A v \in Workers \ {w} : job'[v] = job[v]
    BY <1>0, <2>1 DEF Goto, Jobs
  <2>5. QED
    BY <1>2, <2>2, <2>3, <2>4 DEF Approved, NoUnapprovedInvocation, At
<1>6. ASSUME NEW w \in Workers, WorkerStep(w),
             ~BeginStep(w), ~NotifyStep(w), ~InvokeFreely(w), ~HearDecision(w)
      PROVE  Approved' /\ NoUnapprovedInvocation'
  <2> DEFINE Quiet == \A v \in Workers :
                        job'[v] = job[v] \/ job'[v].at \notin {"begun", "acting", "invoking"}
  <2>1. Quiet
    <3>1. ASSUME NEW p, p \notin {"begun", "acting", "invoking"}, Goto(w, p) PROVE Quiet
      BY <1>0, <3>1 DEF Goto, Jobs
    <3>2. ASSUME NEW o, Reply(w, o) PROVE Quiet
      BY <1>0, <3>2 DEF Reply, Jobs
    <3>3. CASE \/ EndChat(w) \/ RefuseTask(w) \/ BeginTurn(w) \/ RequireApproval(w)
               \/ Cancelled(w) \/ Unregister(w) \/ FinishResponseStep(w) \/ Finish(w)
      <4>1. \E p \in {"finished", "planning", "waiting", "cancelled", "failing", "settled"} :
              Goto(w, p)
        BY <3>3 DEF EndChat, RefuseTask, BeginTurn, RequireApproval, Cancelled, Unregister,
                    FinishResponseStep, Finish
      <4>2. QED
        BY <3>1, <4>1
    <3>4. CASE Decide(w) \/ FailStep(w) \/ CompleteStep(w)
      BY <3>1, <3>2, <3>4 DEF Decide, FailStep, CompleteStep
    <3>5. CASE PlanFails(w) \/ Register(w) \/ Exit(w)
      BY <1>0, <3>5 DEF PlanFails, Register, Exit, Idle, Jobs
    <3>6. CASE Respond(w)
      <4>1. ASSUME NEW o, NEW i,
                   job' = [job EXCEPT ![w].at = "replied", ![w].out = o, ![w].step = i]
            PROVE  Quiet
        BY <1>0, <4>1 DEF Jobs
      <4>2. QED
        BY <3>6, <4>1, Zenon DEF Respond
    <3>7. QED
      BY <1>6, <3>3, <3>4, <3>5, <3>6 DEF WorkerStep, PassGate, UpdatePlan, Release
  <2>2. mail' \subseteq mail /\ deciding' \subseteq deciding /\ granted' = granted
    BY <1>6, Zenon
       DEF WorkerStep, PassGate, EndChat, RefuseTask, BeginTurn, UpdatePlan, Decide, PlanFails,
           Register, RequireApproval, Cancelled, Unregister, FailStep, CompleteStep, Respond,
           FinishResponseStep, Finish, Release, Exit, desk
  <2>3. QED
    BY <1>1, <1>2, <2>1, <2>2 DEF Approved, At
<1>7. ASSUME NEW w \in Workers, NEW t, Spawn(w, t), UNCHANGED desk
      PROVE  Approved' /\ NoUnapprovedInvocation'
  <2>1. \A v \in Workers : job'[v] = job[v] \/ job'[v].at \notin {"begun", "acting", "invoking"}
    BY <1>0, <1>7 DEF Spawn, Goto, Jobs
  <2>2. QED
    BY <1>1, <1>2, <1>7, <2>1 DEF Approved, At, desk
<1>8. ASSUME UNCHANGED job, UNCHANGED desk PROVE Approved' /\ NoUnapprovedInvocation'
  BY <1>8 DEF Approved, NoUnapprovedInvocation, At, desk
<1>9. ASSUME NEW t \in Tasks, NEW d \in Decisions, ResolveApproval(t, d)
      PROVE  Approved' /\ NoUnapprovedInvocation'
  <2>1. /\ UNCHANGED <<job, mail, asked>>
        /\ deciding' = deciding \cup {<<mem[t].approval, d>>}
        /\ granted' = IF d = "approved" THEN granted \cup {mem[t].approval} ELSE granted
    BY <1>9 DEF ResolveApproval
  <2>2. QED
    BY <2>1 DEF Approved, NoUnapprovedInvocation, At
<1>10. ASSUME NEW a \in 1..MaxApprovals, NEW d \in Decisions, SendDecision(a, d)
       PROVE  Approved' /\ NoUnapprovedInvocation'
  <2>1. /\ UNCHANGED <<job, granted, asked>>
        /\ mail' \cup deciding' \subseteq mail \cup deciding
    BY <1>10 DEF SendDecision
  <2>2. QED
    BY <2>1 DEF Approved, NoUnapprovedInvocation, At
<1>11. CASE Restart
  <2>1. /\ job' = [w \in Workers |-> Idle] /\ mail' = {} /\ deciding' = {}
    BY <1>11 DEF Restart
  <2>2. QED
    BY <2>1 DEF Approved, NoUnapprovedInvocation, At, Idle
<1>12. ASSUME NEW c \in Clients, NEW w \in Workers, PrepareInput(c, w)
       PROVE  Approved' /\ NoUnapprovedInvocation'
  BY <1>7, <1>8, <1>12 DEF PrepareInput
<1>13. QED
  BY <1>3, <1>4, <1>5, <1>6, <1>7, <1>8, <1>9, <1>10, <1>11, <1>12
     DEF Next, StartChat, SubmitInteraction, Task, LookUp, Create, Stop, Rest, vars

\* A tool that needs an approval runs only after the user has granted the one
\* asked for this step, whatever the order of decisions, restarts and turns.
THEOREM NoUnapprovedInvocationAlways == Safety => []NoUnapprovedInvocation
<1>1. Init => Approved /\ NoUnapprovedInvocation
  BY DEF Init, Approved, NoUnapprovedInvocation, At, Idle
<1>2. QED
  BY <1>1, ApprovedStep, BaseInvariant, PTL DEF Safety

-----------------------------------------------------------------------------
(* An approval that is shown can be answered, and the answer arrives. *)

Desk == {"asking", "waiting", "cancelled"}
Decisive(a) == \E d \in Decisions : <<a, d>> \in deciding
Undecided(a) == \A d \in Decisions : <<a, d>> \notin mail \cup deciding
Shown(t, a) == mem[t].status = "waiting_approval" /\ mem[t].approval = a

\* A goroutine that waits for a decision is in one of three places: its approval
\* is shown and nobody has decided; one decision is on its way; it was sent.
Awaits(w) ==
  LET a == job[w].approval
      t == key[w]
  IN \/ Shown(t, a) /\ a \in waiters /\ Undecided(a)
     \/ /\ mem[t].status = "running" /\ a \in waiters
        /\ \A d \in Decisions : <<a, d>> \notin mail
        /\ \A d, e \in Decisions : <<a, d>> \in deciding /\ <<a, e>> \in deciding => d = e
     \/ mem[t].status = "running" /\ ~Decisive(a)

\* While the process is not stopping: ids are not shared, an id that is not shown
\* yet is undecided, and whatever is shown or decided has its goroutine.
Live ==
  /\ \A w \in Workers : ~At(w, "cancelled")
  /\ \A v, w \in Workers : /\ job[v].at \in {"asking", "waiting"}
                           /\ job[w].at \in {"asking", "waiting"}
                           /\ job[v].approval = job[w].approval
                           => v = w
  /\ \A w \in Workers : At(w, "asking") => job[w].approval \in waiters /\ Undecided(job[w].approval)
  /\ \A w \in Workers : At(w, "waiting") => Awaits(w)
  /\ \A t \in Tasks : mem[t].status = "waiting_approval" =>
       \E w \in Workers : key[w] = t /\ At(w, "waiting") /\ job[w].approval = mem[t].approval
  /\ \A a \in 1..asked : Decisive(a) => \E w \in Workers : At(w, "waiting") /\ job[w].approval = a

DeskInv == stopping \/ Live

\* What the rest of the proof is for.
LEMMA DeskSuffices == Base /\ DeskInv => ApprovalAnswerable /\ DecisionDelivered
<1> SUFFICES ASSUME Base, DeskInv, ~stopping PROVE ApprovalAnswerable /\ DecisionDelivered
  BY DEF ApprovalAnswerable, DecisionDelivered
<1>1. Live /\ DeskTypes
  BY TypesParts DEF Base, DeskInv
<1>2. ApprovalAnswerable
  <2> SUFFICES ASSUME NEW t \in Tasks, mem[t].status = "waiting_approval"
               PROVE  /\ mem[t].approval \in waiters
                      /\ \E w \in Drivers(t) : At(w, "waiting") /\ job[w].approval = mem[t].approval
    BY DEF ApprovalAnswerable
  <2>1. PICK w \in Workers : key[w] = t /\ At(w, "waiting") /\ job[w].approval = mem[t].approval
    BY <1>1 DEF Live
  <2>2. Awaits(w)
    BY <1>1, <2>1 DEF Live
  <2>3. mem[t].approval \in waiters
    BY <2>1, <2>2 DEF Awaits
  <2>4. w \in Drivers(t)
    BY <2>1 DEF Drivers, At
  <2>5. QED
    BY <2>1, <2>3, <2>4
<1>3. DecisionDelivered
  <2> SUFFICES ASSUME NEW decision \in deciding PROVE decision[1] \in waiters
    BY DEF DecisionDelivered
  <2>1. PICK a \in 1..asked, d \in Decisions : decision = <<a, d>>
    BY <1>1 DEF DeskTypes, Decided
  <2>2. Decisive(a)
    BY <2>1 DEF Decisive
  <2>3. PICK w \in Workers : At(w, "waiting") /\ job[w].approval = a
    BY <1>1, <2>2 DEF Live
  <2>4. Awaits(w)
    BY <1>1, <2>3 DEF Live
  <2>5. QED
    BY <2>1, <2>2, <2>3, <2>4 DEF Awaits, Undecided, Decisive
<1>4. QED
  BY <1>2, <1>3

\* A goroutine that drives a task and does not wait is alone with it.
LEMMA DrivesAlone ==
  ASSUME OneDriver, Live, NEW w \in Workers, key[w] \in Tasks,
         job[w].at \notin {"idle", "finished", "waiting"}
  PROVE  mem[key[w]].status = "running" /\ \A v \in Workers : At(v, "waiting") => key[v] # key[w]
<1>1. w \in Drivers(key[w])
  BY DEF Drivers
<1>2. key[w] \in UnderWay /\ Drivers(key[w]) = {w}
  BY <1>1 DEF OneDriver
<1>3. \A v \in Workers : At(v, "waiting") => key[v] # key[w]
  <2> SUFFICES ASSUME NEW v \in Workers, At(v, "waiting"), key[v] = key[w] PROVE FALSE
    OBVIOUS
  <2>1. v \in Drivers(key[w])
    BY DEF Drivers, At
  <2>2. QED
    BY <1>2, <2>1 DEF At
<1>4. mem[key[w]].status # "waiting_approval"
  BY <1>3 DEF Live
<1>5. QED
  BY <1>2, <1>3, <1>4 DEF UnderWay

\* Steps away from the desk leave it as it is.
LEMMA LiveStays ==
  ASSUME Live, UNCHANGED <<waiters, mail, deciding, asked>>,
         \A w \in Workers : job[w].at \in Desk \/ job'[w].at \in Desk =>
           job'[w] = job[w] /\ key'[w] = key[w],
         \A w \in Workers : job[w].at = "waiting" => key[w] \in Tasks,
         \A t \in Tasks :
           \/ mem'[t].status = mem[t].status /\ mem'[t].approval = mem[t].approval
           \/ /\ mem[t].status # "waiting_approval" /\ mem'[t].status # "waiting_approval"
              /\ \A w \in Workers : job[w].at = "waiting" => key[w] # t
  PROVE  Live'
<1>1. \A w \in Workers : At(w, "waiting")' => At(w, "waiting") /\ job'[w] = job[w] /\ key'[w] = key[w]
  BY DEF At, Desk
<1>2. \A w \in Workers : At(w, "waiting") => At(w, "waiting")' /\ job'[w] = job[w] /\ key'[w] = key[w]
  BY DEF At, Desk
<1>3. \A w \in Workers : job'[w].at \in Desk => job[w] = job'[w]
  OBVIOUS
<1>4. \A a : (Decisive(a) <=> Decisive(a)') /\ (Undecided(a) <=> Undecided(a)')
  BY DEF Decisive, Undecided
<1>5. \A w \in Workers : ~At(w, "cancelled")'
  BY <1>3 DEF Live, At, Desk
<1>6. \A v, w \in Workers : /\ job'[v].at \in {"asking", "waiting"}
                            /\ job'[w].at \in {"asking", "waiting"}
                            /\ job'[v].approval = job'[w].approval
                            => v = w
  BY <1>3 DEF Live, Desk
<1>7. \A w \in Workers : At(w, "asking")' =>
        job'[w].approval \in waiters' /\ Undecided(job[w].approval)'
  <2> SUFFICES ASSUME NEW w \in Workers, job'[w].at = "asking"
               PROVE  job'[w].approval \in waiters' /\ Undecided(job[w].approval)'
    BY DEF At
  <2>1. job[w] = job'[w]
    BY <1>3 DEF Desk
  <2>2. job[w].approval \in waiters /\ Undecided(job[w].approval)
    BY <2>1 DEF Live, At
  <2>3. QED
    BY <2>1, <2>2 DEF Undecided
<1>8. \A w \in Workers : At(w, "waiting")' => Awaits(w)'
  <2> SUFFICES ASSUME NEW w \in Workers, At(w, "waiting")' PROVE Awaits(w)'
    OBVIOUS
  <2>1. At(w, "waiting") /\ job'[w] = job[w] /\ key'[w] = key[w] /\ key[w] \in Tasks
    BY <1>1 DEF At
  <2>2. mem'[key[w]].status = mem[key[w]].status /\ mem'[key[w]].approval = mem[key[w]].approval
    BY <2>1 DEF At
  <2>3. Awaits(w)
    BY <2>1 DEF Live
  <2>4. QED
    BY <2>1, <2>2, <2>3 DEF Awaits, Shown, Undecided, Decisive
<1>9. \A t \in Tasks : mem'[t].status = "waiting_approval" =>
        \E w \in Workers : key'[w] = t /\ At(w, "waiting")' /\ job'[w].approval = mem'[t].approval
  <2> SUFFICES ASSUME NEW t \in Tasks, mem'[t].status = "waiting_approval"
               PROVE  \E w \in Workers :
                        key'[w] = t /\ At(w, "waiting")' /\ job'[w].approval = mem'[t].approval
    OBVIOUS
  <2>1. mem[t].status = "waiting_approval" /\ mem'[t].approval = mem[t].approval
    OBVIOUS
  <2>2. PICK w \in Workers : key[w] = t /\ At(w, "waiting") /\ job[w].approval = mem[t].approval
    BY <2>1 DEF Live
  <2>3. QED
    BY <1>2, <2>1, <2>2
<1>10. \A a \in 1..asked' : Decisive(a)' => \E w \in Workers : At(w, "waiting")' /\ job'[w].approval = a
  <2> SUFFICES ASSUME NEW a \in 1..asked, Decisive(a)
               PROVE  \E w \in Workers : At(w, "waiting")' /\ job'[w].approval = a
    BY <1>4
  <2>1. PICK w \in Workers : At(w, "waiting") /\ job[w].approval = a
    BY DEF Live
  <2>2. QED
    BY <1>2, <2>1
<1>11. QED
  BY <1>5, <1>6, <1>7, <1>8, <1>9, <1>10 DEF Live, Undecided

\* What a call of the store does to a pending approval.
LEMMA ApprovalAfter ==
  ASSUME StoreTypes, NEW t \in Tasks
  PROVE  /\ Update(t, mem[t]) \/ AppendStep(t) \/ (\E i, x : SetStep(t, i, x))
              => \A u \in Tasks : /\ mem'[u].status = mem[u].status
                                  /\ mem'[u].approval = mem[u].approval
         /\ \A a : Require(t, a) => mem'[t].approval = a
<1>1. mem \in [Tasks -> Snapshots] /\ mem[t] \in Snapshots
  BY DEF StoreTypes
<1>2. ASSUME NEW s, Update(t, s), s.status = mem[t].status, s.approval = mem[t].approval
      PROVE  \A u \in Tasks : /\ mem'[u].status = mem[u].status
                              /\ mem'[u].approval = mem[u].approval
  BY <1>1, <1>2 DEF Update
<1>3. ASSUME Update(t, mem[t])
      PROVE  \A u \in Tasks : /\ mem'[u].status = mem[u].status
                              /\ mem'[u].approval = mem[u].approval
  BY <1>2, <1>3
<1>4. ASSUME AppendStep(t)
      PROVE  \A u \in Tasks : /\ mem'[u].status = mem[u].status
                              /\ mem'[u].approval = mem[u].approval
  <2>1. /\ [mem[t] EXCEPT !.steps = Append(@, "running")].status = mem[t].status
        /\ [mem[t] EXCEPT !.steps = Append(@, "running")].approval = mem[t].approval
    BY <1>1 DEF Snapshots
  <2>2. Update(t, [mem[t] EXCEPT !.steps = Append(@, "running")])
    BY <1>4, Zenon DEF AppendStep
  <2>3. QED
    BY <1>2, <2>1, <2>2, Zenon
<1>5. ASSUME NEW i, NEW x, SetStep(t, i, x)
      PROVE  \A u \in Tasks : /\ mem'[u].status = mem[u].status
                              /\ mem'[u].approval = mem[u].approval
  <2>1. /\ [mem[t] EXCEPT !.steps[i] = x].status = mem[t].status
        /\ [mem[t] EXCEPT !.steps[i] = x].approval = mem[t].approval
    BY <1>1 DEF Snapshots
  <2>2. QED
    BY <1>2, <1>5, <2>1, Zenon DEF SetStep
<1>6. ASSUME NEW a, Require(t, a) PROVE mem'[t].approval = a
  <2>1. [mem[t] EXCEPT !.status = "waiting_approval", !.approval = a,
                       !.steps = Relabel(@, "running", "waiting_approval")].approval = a
    BY <1>1 DEF Snapshots
  <2>2. \A s : Update(t, s) => mem'[t] = s
    BY <1>1 DEF Update
  <2>3. QED
    BY <1>6, <2>1, <2>2, Zenon DEF Require
<1>7. QED
  BY <1>3, <1>4, <1>5, <1>6

\* The steps of a goroutine that is not at the desk.
AwayStep(w) ==
  \/ PassGate(w) \/ EndChat(w) \/ RefuseTask(w) \/ BeginTurn(w) \/ UpdatePlan(w)
  \/ BeginStep(w) \/ NotifyStep(w) \/ Decide(w) \/ PlanFails(w) \/ InvokeFreely(w)
  \/ FailStep(w) \/ CompleteStep(w) \/ Respond(w) \/ FinishResponseStep(w) \/ Finish(w)
  \/ Release(w) \/ Exit(w)

\* None of them touches an approval.
LEMMA AwayStays ==
  ASSUME job \in [Workers -> Jobs], Gate!GateTypeOK, NEW w \in Workers, AwayStep(w)
  PROVE  /\ UNCHANGED desk
         /\ \A v \in Workers : job[v].at \in Desk \/ job'[v].at \in Desk =>
              job'[v] = job[v] /\ key'[v] = key[v]
<1> DEFINE Away == /\ \A v \in Workers \ {w} : job'[v] = job[v]
                   /\ job[w].at \notin Desk /\ job'[w].at \notin Desk
<1>1. UNCHANGED desk
  BY Zenon DEF AwayStep, PassGate, EndChat, RefuseTask, BeginTurn, UpdatePlan, BeginStep,
               NotifyStep, Decide, PlanFails, InvokeFreely, FailStep, CompleteStep, Respond,
               FinishResponseStep, Finish, Release, Exit
<1>2. ASSUME NEW p, p \notin Desk, job[w].at \notin Desk, Goto(w, p) PROVE Away
  BY <1>2 DEF Goto, Jobs
<1>3. ASSUME NEW o, job[w].at \notin Desk, Reply(w, o) PROVE Away
  BY <1>3 DEF Reply, Jobs, Desk
<1>4. \A v \in Workers \ {w} : key'[v] = key[v]
  <2>1. CASE UNCHANGED key
    BY <2>1
  <2>2. CASE Exit(w)
    BY <2>2 DEF Exit, Gate!ReleaseAgain, Gate!Dismiss, Gate!GateTypeOK
  <2>3. CASE PassGate(w) \/ Release(w)
    BY <2>3, PassingGate DEF PassGate, Release, Gate!DeleteKey
  <2>4. QED
    BY <2>1, <2>2, <2>3, Zenon
       DEF AwayStep, EndChat, RefuseTask, BeginTurn, UpdatePlan, BeginStep, NotifyStep, Decide,
           PlanFails, InvokeFreely, FailStep, CompleteStep, Respond, FinishResponseStep, Finish,
           gvars
<1>5. CASE UNCHANGED job /\ UNCHANGED key
  BY <1>1, <1>5
<1>6. CASE Away
  BY <1>1, <1>4, <1>6
<1>7. CASE PassGate(w) \/ Release(w)
  BY <1>5, <1>7, PassingGate DEF PassGate, Release, Gate!DeleteKey
<1>8. CASE UpdatePlan(w)
  BY <1>5, <1>8 DEF UpdatePlan, gvars
<1>9. CASE \/ EndChat(w) \/ RefuseTask(w) \/ BeginTurn(w) \/ NotifyStep(w) \/ InvokeFreely(w)
           \/ FinishResponseStep(w) \/ Finish(w)
  <2>1. /\ job[w].at \notin Desk
        /\ \E p \in {"finished", "planning", "acting", "invoking", "settled"} : Goto(w, p)
    BY <1>9 DEF EndChat, RefuseTask, BeginTurn, NotifyStep, InvokeFreely, FinishResponseStep,
                Finish, At, Desk
  <2>2. QED
    BY <1>2, <1>6, <2>1 DEF Desk
<1>10. CASE Decide(w) \/ FailStep(w) \/ CompleteStep(w)
  <2>1. job[w].at \notin Desk
    BY <1>10 DEF Decide, FailStep, CompleteStep, At, Desk
  <2>2. Goto(w, "planning") \/ \E o : Reply(w, o)
    BY <1>10 DEF Decide, FailStep, CompleteStep
  <2>3. QED
    BY <1>2, <1>3, <1>6, <2>1, <2>2 DEF Desk
<1>11. CASE PlanFails(w) \/ Exit(w)
  <2>1. Away
    BY <1>11 DEF PlanFails, Exit, Idle, Jobs, At, Desk
  <2>2. QED
    BY <1>6, <2>1
<1>12. CASE BeginStep(w)
  <2>1. ASSUME NEW i, job' = [job EXCEPT ![w].at = "begun", ![w].acts = @ + 1, ![w].step = i,
                                         ![w].approval = NoApproval]
        PROVE  job'[w].at = "begun" /\ \A v \in Workers \ {w} : job'[v] = job[v]
    BY <2>1 DEF Jobs
  <2>2. job'[w].at = "begun" /\ \A v \in Workers \ {w} : job'[v] = job[v]
    BY <1>12, <2>1, Zenon DEF BeginStep
  <2>3. QED
    BY <1>6, <1>12, <2>2 DEF BeginStep, At, Desk
<1>13. CASE Respond(w)
  <2>1. ASSUME NEW o, NEW i,
               job' = [job EXCEPT ![w].at = "replied", ![w].out = o, ![w].step = i]
        PROVE  job'[w].at = "replied" /\ \A v \in Workers \ {w} : job'[v] = job[v]
    BY <2>1 DEF Jobs
  <2>2. job'[w].at = "replied" /\ \A v \in Workers \ {w} : job'[v] = job[v]
    BY <1>13, <2>1, Zenon DEF Respond
  <2>3. QED
    BY <1>6, <1>13, <2>2 DEF Respond, At, Desk
<1>14. QED
  BY <1>7, <1>8, <1>9, <1>10, <1>11, <1>12, <1>13 DEF AwayStep

\* The desk after every step.
LEMMA DeskStep == Base /\ OneDriver /\ DeskInv /\ [Next]_vars => DeskInv'
<1> SUFFICES ASSUME Base, OneDriver, DeskInv, [Next]_vars, ~stopping' PROVE Live'
  BY DEF DeskInv
<1>0. /\ StoreTypes /\ job \in [Workers -> Jobs] /\ Working /\ DeskTypes /\ Issued
      /\ Gate!GateTypeOK /\ OtherTypes
      /\ Tasks \cap Chats = {} /\ NoKey \notin Tasks \cup Chats
  BY TypesParts, RuntimeAssumption DEF Base, JobTypes
<1>1. CASE Restart
  <2>1. \A s \in Snapshots : Parked(s).status # "waiting_approval"
    BY DEF Parked, Snapshots
  <2>2. \A t \in Tasks : mem'[t].status # "waiting_approval"
    BY <1>0, <1>1, <2>1 DEF Restart, StoreTypes
  <2>3. /\ job' = [w \in Workers |-> Idle] /\ deciding' = {}
    BY <1>1 DEF Restart
  <2>4. QED
    BY <2>2, <2>3 DEF Live, At, Idle, Decisive
<1> SUFFICES ASSUME ~Restart PROVE Live'
  BY <1>1
<1>2. ~stopping
  <2>1. ASSUME NEW w \in Workers, WorkerStep(w) PROVE UNCHANGED stopping
    BY <2>1, Zenon
       DEF WorkerStep, PassGate, EndChat, RefuseTask, BeginTurn, UpdatePlan, BeginStep,
           NotifyStep, Decide, PlanFails, InvokeFreely, Register, RequireApproval, HearDecision,
           Cancelled, Unregister, FailStep, CompleteStep, Respond, FinishResponseStep, Finish,
           Release, Exit, process
  <2>2. QED
    BY <2>1 DEF Next, StartChat, SubmitInteraction, Task, LookUp, PrepareInput, Create,
                ResolveApproval, SendDecision, Stop, Rest, vars, process
<1>3. Live
  BY <1>2 DEF DeskInv
<1>4. \A w \in Workers : job[w].at = "waiting" => key[w] \in Tasks
  BY <1>0 DEF Working, Engaged, Positions
<1>5. ASSUME UNCHANGED <<job, key, mem, waiters, mail, deciding, asked>> PROVE Live'
  BY <1>3, <1>4, <1>5, LiveStays
<1>6. ASSUME NEW w \in Workers, AwayStep(w) PROVE Live'
  <2>1. /\ UNCHANGED <<waiters, mail, deciding, asked>>
        /\ \A v \in Workers : job[v].at \in Desk \/ job'[v].at \in Desk =>
             job'[v] = job[v] /\ key'[v] = key[v]
    BY <1>0, <1>6, AwayStays DEF desk
  <2>2. ASSUME \A t \in Tasks : mem'[t].status = mem[t].status /\ mem'[t].approval = mem[t].approval
        PROVE  Live'
    BY <1>3, <1>4, <2>1, <2>2, LiveStays
  <2>3. CASE UNCHANGED mem
    BY <2>2, <2>3
  <2>4. CASE \/ UpdatePlan(w) \/ BeginStep(w) \/ NotifyStep(w) \/ FailStep(w) \/ CompleteStep(w)
             \/ Respond(w) \/ FinishResponseStep(w)
    <3>1. job[w].at \in Engaged
      BY <2>4 DEF UpdatePlan, BeginStep, NotifyStep, FailStep, CompleteStep, Respond,
                  FinishResponseStep, At, Engaged, Positions
    <3>2. key[w] \in Tasks
      BY <1>0, <3>1 DEF Working
    <3>3. \/ Update(key[w], mem[key[w]]) \/ AppendStep(key[w])
          \/ \E i, x : SetStep(key[w], i, x)
      BY <2>4, Zenon DEF UpdatePlan, BeginStep, NotifyStep, FailStep, CompleteStep, Respond,
                         FinishResponseStep
    <3>4. QED
      BY <1>0, <2>2, <3>2, <3>3, ApprovalAfter
  <2>5. CASE RefuseTask(w) \/ Finish(w)
    <3>1. job[w].at \in {"starting", "settled"}
      BY <2>5 DEF RefuseTask, Finish, At
    <3>2. key[w] \in Tasks
      BY <1>0, <2>5 DEF RefuseTask, Finish, At, Working, Engaged, Positions
    <3>3. /\ mem[key[w]].status = "running"
          /\ \A v \in Workers : At(v, "waiting") => key[v] # key[w]
      BY <1>3, <3>1, <3>2, DrivesAlone
    <3>4. \E s \in {"completed", "failed", "waiting_input"} : \E f : Conclude(key[w], s, f)
      BY <2>5, Zenon DEF RefuseTask, Finish
    <3>5. mem'[key[w]].status # "waiting_approval"
      BY <1>0, <3>2, <3>4, StatusAfter
    <3>6. \A u \in Tasks \ {key[w]} : mem'[u] = mem[u]
      BY <1>0, <3>2, <3>4, StatusAfter, Zenon DEF Conclude
    <3>7. QED
      BY <1>3, <1>4, <2>1, <3>3, <3>5, <3>6, LiveStays DEF At
  <2>6. QED
    BY <1>6, <2>3, <2>4, <2>5
       DEF AwayStep, PassGate, EndChat, BeginTurn, Decide, PlanFails, InvokeFreely, Release, Exit,
           store
<1>7. ASSUME NEW w \in Workers, NEW t \in Tasks, Accept(t), Spawn(w, t), UNCHANGED desk,
             mem[t].status \notin Busy
      PROVE  Live'
  <2>1. mem'[t].status = "running" /\ \A u \in Tasks \ {t} : mem'[u] = mem[u]
    <3>1. mem'[t].status = "running"
      BY <1>0, <1>7, StatusAfter
    <3>2. \E s : Update(t, s)
      BY <1>7, Zenon DEF Accept
    <3>3. QED
      BY <1>0, <3>1, <3>2, StatusAfter, Zenon
  <2>2. /\ \A v \in Workers \ {w} : job'[v] = job[v] /\ key'[v] = key[v]
        /\ job[w].at = "idle" /\ job'[w].at = "starting"
    BY <1>0, <1>7 DEF Spawn, At, Goto, Jobs, Gate!Call, Gate!Goto, Gate!GateTypeOK
  <2>3. Drivers(t) = {}
    BY <1>7 DEF OneDriver, UnderWay, Busy
  <2>4. \A v \in Workers : job[v].at = "waiting" => key[v] # t
    BY <2>3 DEF Drivers
  <2>5. QED
    BY <1>3, <1>4, <1>7, <2>1, <2>2, <2>4, LiveStays DEF desk, Desk, Busy
<1>8. ASSUME NEW w \in Workers, NEW k \in Chats, StartChat(w, k) PROVE Live'
  <2>1. /\ \A v \in Workers \ {w} : job'[v] = job[v] /\ key'[v] = key[v]
        /\ job[w].at = "idle" /\ job'[w].at = "starting"
    BY <1>0, <1>8 DEF StartChat, Spawn, At, Goto, Jobs, Gate!Call, Gate!Goto, Gate!GateTypeOK
  <2>2. UNCHANGED mem /\ UNCHANGED <<waiters, mail, deciding, asked>>
    BY <1>8 DEF StartChat, store, desk
  <2>3. QED
    BY <1>3, <1>4, <2>1, <2>2, LiveStays DEF Desk
<1>9. ASSUME NEW w \in Workers, Register(w) PROVE Live'
  <2>1. /\ job[w].at = "acting" /\ job'[w].at = "asking" /\ job'[w].approval = asked + 1
        /\ \A v \in Workers \ {w} : job'[v] = job[v]
    BY <1>0, <1>9 DEF Register, At, Jobs
  <2>2. /\ UNCHANGED <<key, mem, mail, deciding>>
        /\ waiters' = waiters \cup {asked + 1} /\ asked' = asked + 1
    BY <1>9 DEF Register, gvars, store
  <2>3. asked \in Nat /\ \A v \in Workers : job[v].approval \in Nat /\ job[v].approval <= asked
    BY <1>0 DEF DeskTypes, Issued, Jobs
  <2>4. \A e : <<asked + 1, e>> \notin mail \cup deciding
    BY <1>0 DEF DeskTypes, Decided
  <2>5. \A v \in Workers : ~At(v, "cancelled")'
    BY <1>3, <2>1 DEF Live, At
  <2>6. \A u, v \in Workers : /\ job'[u].at \in {"asking", "waiting"}
                             /\ job'[v].at \in {"asking", "waiting"}
                             /\ job'[u].approval = job'[v].approval
                             => u = v
    BY <1>3, <2>1, <2>3 DEF Live
  <2>7. \A v \in Workers : At(v, "asking")' => job'[v].approval \in waiters' /\ Undecided(job[v].approval)'
    BY <1>3, <2>1, <2>2, <2>4 DEF Live, At, Undecided
  <2>8. \A v \in Workers : At(v, "waiting")' => Awaits(v)'
    <3> SUFFICES ASSUME NEW v \in Workers, At(v, "waiting")' PROVE Awaits(v)'
      OBVIOUS
    <3>1. job'[v] = job[v] /\ At(v, "waiting")
      BY <2>1 DEF At
    <3>2. Awaits(v)
      BY <1>3, <3>1 DEF Live
    <3>3. QED
      BY <2>2, <3>1, <3>2 DEF Awaits, Shown, Undecided, Decisive
  <2>9. \A t \in Tasks : mem'[t].status = "waiting_approval" =>
          \E v \in Workers : key'[v] = t /\ At(v, "waiting")' /\ job'[v].approval = mem'[t].approval
    BY <1>3, <2>1, <2>2 DEF Live, At
  <2>10. \A a \in 1..asked' : Decisive(a)' => \E v \in Workers : At(v, "waiting")' /\ job'[v].approval = a
    <3> SUFFICES ASSUME NEW a \in 1..asked', Decisive(a)
                 PROVE  \E v \in Workers : At(v, "waiting")' /\ job'[v].approval = a
      BY <2>2 DEF Decisive
    <3>1. a \in 1..asked
      BY <1>0 DEF Decisive, DeskTypes, Decided
    <3>2. PICK v \in Workers : At(v, "waiting") /\ job[v].approval = a
      BY <1>3, <3>1 DEF Live
    <3>3. QED
      BY <2>1, <3>2 DEF At
  <2>11. QED
    BY <2>5, <2>6, <2>7, <2>8, <2>9, <2>10 DEF Live, Undecided
<1>10. ASSUME NEW w \in Workers, RequireApproval(w) PROVE Live'
  <2> DEFINE t == key[w]
             a == job[w].approval
  <2>1. /\ job[w].at = "asking" /\ job'[w].at = "waiting" /\ job'[w].approval = a
        /\ \A v \in Workers \ {w} : job'[v] = job[v]
    BY <1>0, <1>10 DEF RequireApproval, At, Goto, Jobs
  <2>2. UNCHANGED <<key, waiters, mail, deciding, asked>>
    BY <1>10 DEF RequireApproval, gvars, desk
  <2>3. t \in Tasks
    BY <1>0, <2>1 DEF Working, Engaged, Positions
  <2>4. mem[t].status = "running" /\ \A v \in Workers : At(v, "waiting") => key[v] # t
    BY <1>3, <2>1, <2>3, DrivesAlone
  <2>5. mem'[t].status = "waiting_approval" /\ mem'[t].approval = a
    BY <1>0, <1>10, <2>3, StatusAfter, ApprovalAfter DEF RequireApproval
  <2>6. \A u \in Tasks \ {t} : mem'[u] = mem[u]
    BY <1>0, <1>10, <2>3, StatusAfter, Zenon DEF RequireApproval, Require
  <2>7. a \in waiters /\ Undecided(a)
    BY <1>3, <2>1 DEF Live, At
  <2>8. \A v \in Workers : ~At(v, "cancelled")'
    BY <1>3, <2>1 DEF Live, At
  <2>9. \A u, v \in Workers : /\ job'[u].at \in {"asking", "waiting"}
                             /\ job'[v].at \in {"asking", "waiting"}
                             /\ job'[u].approval = job'[v].approval
                             => u = v
    BY <1>3, <2>1 DEF Live
  <2>10. \A v \in Workers : At(v, "asking")' => job'[v].approval \in waiters' /\ Undecided(job[v].approval)'
    BY <1>3, <2>1, <2>2 DEF Live, At, Undecided
  <2>11. \A v \in Workers : At(v, "waiting")' => Awaits(v)'
    <3>1. Awaits(w)'
      BY <2>1, <2>2, <2>5, <2>7 DEF Awaits, Shown, Undecided
    <3>2. ASSUME NEW v \in Workers \ {w}, At(v, "waiting") PROVE Awaits(v)'
      <4>1. Awaits(v) /\ key[v] \in Tasks \ {t}
        BY <1>3, <1>4, <2>4, <3>2 DEF Live, At
      <4>2. job'[v] = job[v] /\ key'[v] = key[v] /\ mem'[key[v]] = mem[key[v]]
        BY <2>1, <2>2, <2>6, <4>1
      <4>3. QED
        BY <2>2, <4>1, <4>2 DEF Awaits, Shown, Undecided, Decisive
    <3>3. QED
      BY <2>1, <3>1, <3>2 DEF At
  <2>12. \A u \in Tasks : mem'[u].status = "waiting_approval" =>
           \E v \in Workers : key'[v] = u /\ At(v, "waiting")' /\ job'[v].approval = mem'[u].approval
    <3>1. ASSUME NEW u \in Tasks \ {t}, mem[u].status = "waiting_approval"
          PROVE  \E v \in Workers : key'[v] = u /\ At(v, "waiting")' /\ job'[v].approval = mem'[u].approval
      BY <1>3, <2>1, <2>2, <2>6, <3>1 DEF Live, At
    <3>2. key'[w] = t /\ At(w, "waiting")' /\ job'[w].approval = mem'[t].approval
      BY <2>1, <2>2, <2>5 DEF At
    <3>3. QED
      BY <2>6, <3>1, <3>2
  <2>13. \A b \in 1..asked' : Decisive(b)' => \E v \in Workers : At(v, "waiting")' /\ job'[v].approval = b
    BY <1>3, <2>1, <2>2 DEF Live, At, Decisive
  <2>14. QED
    BY <2>8, <2>9, <2>10, <2>11, <2>12, <2>13 DEF Live, Undecided
<1>11. ASSUME NEW w \in Workers, HearDecision(w) PROVE Live'
  <2> DEFINE a == job[w].approval
  <2>1. PICK d \in Decisions : /\ <<a, d>> \in mail
                               /\ Goto(w, IF d = "approved" THEN "invoking" ELSE "failing")
    BY <1>11 DEF HearDecision
  <2>2. /\ job[w].at = "waiting" /\ job'[w].at \in {"invoking", "failing"}
        /\ \A v \in Workers \ {w} : job'[v] = job[v]
    BY <1>0, <1>11, <2>1 DEF HearDecision, At, Goto, Jobs
  <2>3. UNCHANGED <<key, mem, waiters, deciding, asked>> /\ mail' \subseteq mail
    BY <1>11 DEF HearDecision, gvars, store
  <2>4. mem[key[w]].status = "running" /\ ~Decisive(a)
    <3>1. Awaits(w)
      BY <1>3, <2>2 DEF Live, At
    <3>2. QED
      BY <2>1, <3>1 DEF Awaits, Undecided
  <2>5. \A v \in Workers : ~At(v, "cancelled")'
    BY <1>3, <2>2 DEF Live, At
  <2>6. \A u, v \in Workers : /\ job'[u].at \in {"asking", "waiting"}
                             /\ job'[v].at \in {"asking", "waiting"}
                             /\ job'[u].approval = job'[v].approval
                             => u = v
    BY <1>3, <2>2 DEF Live
  <2>7. \A v \in Workers : At(v, "asking")' => job'[v].approval \in waiters' /\ Undecided(job[v].approval)'
    BY <1>3, <2>2, <2>3 DEF Live, At, Undecided
  <2>8. \A v \in Workers : At(v, "waiting")' => Awaits(v)'
    <3> SUFFICES ASSUME NEW v \in Workers, At(v, "waiting")' PROVE Awaits(v)'
      OBVIOUS
    <3>1. job'[v] = job[v] /\ At(v, "waiting")
      BY <2>2 DEF At
    <3>2. Awaits(v)
      BY <1>3, <3>1 DEF Live
    <3>3. QED
      BY <2>3, <3>1, <3>2 DEF Awaits, Shown, Undecided, Decisive
  <2>9. \A t \in Tasks : mem'[t].status = "waiting_approval" =>
          \E v \in Workers : key'[v] = t /\ At(v, "waiting")' /\ job'[v].approval = mem'[t].approval
    <3> SUFFICES ASSUME NEW t \in Tasks, mem[t].status = "waiting_approval"
                 PROVE  \E v \in Workers : /\ key'[v] = t /\ At(v, "waiting")'
                                          /\ job'[v].approval = mem'[t].approval
      BY <2>3
    <3>1. PICK v \in Workers : key[v] = t /\ At(v, "waiting") /\ job[v].approval = mem[t].approval
      BY <1>3 DEF Live
    <3>2. v # w
      BY <2>4, <3>1
    <3>3. QED
      BY <2>2, <2>3, <3>1, <3>2 DEF At
  <2>10. \A b \in 1..asked' : Decisive(b)' => \E v \in Workers : At(v, "waiting")' /\ job'[v].approval = b
    <3> SUFFICES ASSUME NEW b \in 1..asked, Decisive(b)
                 PROVE  \E v \in Workers : At(v, "waiting")' /\ job'[v].approval = b
      BY <2>3 DEF Decisive
    <3>1. PICK v \in Workers : At(v, "waiting") /\ job[v].approval = b
      BY <1>3 DEF Live
    <3>2. v # w
      BY <2>4, <3>1
    <3>3. QED
      BY <2>2, <3>1, <3>2 DEF At
  <2>11. QED
    BY <2>5, <2>6, <2>7, <2>8, <2>9, <2>10 DEF Live, Undecided
<1>12. ASSUME NEW w \in Workers, Cancelled(w) \/ Unregister(w) PROVE Live'
  BY <1>2, <1>3, <1>12 DEF Cancelled, Unregister, Live
<1>13. ASSUME NEW t \in Tasks, NEW d \in Decisions, ResolveApproval(t, d) PROVE Live'
  <2> DEFINE a == mem[t].approval
  <2>1. /\ mem[t].status = "waiting_approval"
        /\ UNCHANGED <<job, key, waiters, mail, asked>>
        /\ deciding' = deciding \cup {<<a, d>>}
    BY <1>13 DEF ResolveApproval, gvars
  <2>2. mem'[t].status = "running"
    BY <1>0, <1>13, StatusAfter DEF ResolveApproval
  <2>3. \A u \in Tasks \ {t} : mem'[u] = mem[u]
    BY <1>0, <1>13, StatusAfter, Zenon DEF ResolveApproval, Resolve
  <2>4. PICK w \in Workers : key[w] = t /\ At(w, "waiting") /\ job[w].approval = a
    BY <1>3, <2>1 DEF Live
  <2>5. a \in waiters /\ Undecided(a)
    BY <1>3, <2>1, <2>4 DEF Live, Awaits
  <2>6. \A v \in Workers \ {w} : job[v].at \in {"asking", "waiting"} => job[v].approval # a /\ key[v] # t
    <3>1. \A v \in Workers \ {w} : job[v].at \in {"asking", "waiting"} => job[v].approval # a
      BY <1>3, <2>4 DEF Live, At
    <3>2. t \in UnderWay /\ w \in Drivers(t)
      BY <2>1, <2>4 DEF UnderWay, Drivers, At
    <3>3. Drivers(t) = {w}
      BY <3>2 DEF OneDriver
    <3>4. QED
      BY <3>1, <3>3 DEF Drivers
  <2>7. \A b : b # a => (Decisive(b) <=> Decisive(b)') /\ (Undecided(b) <=> Undecided(b)')
    BY <2>1 DEF Decisive, Undecided
  <2>8. \A v \in Workers : At(v, "asking")' => job'[v].approval \in waiters' /\ Undecided(job[v].approval)'
    <3> SUFFICES ASSUME NEW v \in Workers, At(v, "asking")
                 PROVE  job[v].approval \in waiters /\ Undecided(job[v].approval)'
      BY <2>1 DEF At
    <3>1. job[v].approval \in waiters /\ Undecided(job[v].approval)
      BY <1>3 DEF Live
    <3>2. job[v].approval # a
      BY <2>4, <2>6 DEF At
    <3>3. QED
      BY <2>1, <3>1, <3>2 DEF Undecided
  <2>9. \A v \in Workers : At(v, "waiting")' => Awaits(v)'
    <3>1. Awaits(w)'
      BY <2>1, <2>2, <2>4, <2>5 DEF Awaits, Undecided
    <3>2. ASSUME NEW v \in Workers \ {w}, At(v, "waiting") PROVE Awaits(v)'
      <4>1. Awaits(v) /\ key[v] \in Tasks \ {t} /\ job[v].approval # a
        BY <1>3, <1>4, <2>6, <3>2 DEF Live, At
      <4>2. job'[v] = job[v] /\ key'[v] = key[v] /\ mem'[key[v]] = mem[key[v]]
        BY <2>1, <2>3, <4>1
      <4>3. QED
        BY <2>1, <4>1, <4>2 DEF Awaits, Shown, Undecided, Decisive
    <3>3. QED
      BY <2>1, <3>1, <3>2 DEF At
  <2>10. \A u \in Tasks : mem'[u].status = "waiting_approval" =>
           \E v \in Workers : key'[v] = u /\ At(v, "waiting")' /\ job'[v].approval = mem'[u].approval
    BY <1>3, <2>1, <2>2, <2>3 DEF Live, At
  <2>11. \A b \in 1..asked' : Decisive(b)' => \E v \in Workers : At(v, "waiting")' /\ job'[v].approval = b
    BY <1>3, <2>1, <2>4 DEF Live, At, Decisive
  <2>12. /\ \A v \in Workers : ~At(v, "cancelled")'
         /\ \A u, v \in Workers : /\ job'[u].at \in {"asking", "waiting"}
                                  /\ job'[v].at \in {"asking", "waiting"}
                                  /\ job'[u].approval = job'[v].approval
                                  => u = v
    BY <1>3, <2>1 DEF Live, At
  <2>13. QED
    BY <2>8, <2>9, <2>10, <2>11, <2>12 DEF Live, Undecided
<1>14. ASSUME NEW a \in 1..MaxApprovals, NEW d \in Decisions, SendDecision(a, d) PROVE Live'
  <2>1. /\ <<a, d>> \in deciding /\ deciding' = deciding \ {<<a, d>>}
        /\ waiters' = waiters \ {a} /\ mail' \subseteq mail \cup {<<a, d>>}
        /\ UNCHANGED <<job, key, mem, asked>>
    BY <1>14 DEF SendDecision, gvars, store
  <2>2. a \in 1..asked /\ Decisive(a)
    BY <1>0, <2>1 DEF DeskTypes, Decided, Decisive
  <2>3. PICK w \in Workers : At(w, "waiting") /\ job[w].approval = a
    BY <1>3, <2>2 DEF Live
  <2>4. /\ mem[key[w]].status = "running"
        /\ \A e \in Decisions : <<a, e>> \in deciding => e = d
    <3>1. Awaits(w)
      BY <1>3, <2>3 DEF Live
    <3>2. QED
      BY <2>1, <2>2, <2>3, <3>1 DEF Awaits, Undecided
  <2>5. \A v \in Workers \ {w} : job[v].at \in {"asking", "waiting"} => job[v].approval # a
    BY <1>3, <2>3 DEF Live, At
  <2>6. \A v \in Workers : At(v, "asking")' => job'[v].approval \in waiters' /\ Undecided(job[v].approval)'
    <3> SUFFICES ASSUME NEW v \in Workers, At(v, "asking")
                 PROVE  job[v].approval \in waiters' /\ Undecided(job[v].approval)'
      BY <2>1 DEF At
    <3>1. job[v].approval \in waiters /\ Undecided(job[v].approval)
      BY <1>3 DEF Live
    <3>2. job[v].approval # a
      BY <2>3, <2>5 DEF At
    <3>3. QED
      BY <2>1, <3>1, <3>2 DEF Undecided
  <2>7. \A v \in Workers : At(v, "waiting")' => Awaits(v)'
    <3>1. Awaits(w)'
      BY <2>1, <2>3, <2>4 DEF Awaits, Decisive
    <3>2. ASSUME NEW v \in Workers \ {w}, At(v, "waiting") PROVE Awaits(v)'
      <4>1. Awaits(v) /\ job[v].approval # a
        BY <1>3, <2>5, <3>2 DEF Live, At
      <4>2. QED
        BY <2>1, <4>1 DEF Awaits, Shown, Undecided, Decisive
    <3>3. QED
      BY <2>1, <3>1, <3>2 DEF At
  <2>8. \A u \in Tasks : mem'[u].status = "waiting_approval" =>
          \E v \in Workers : key'[v] = u /\ At(v, "waiting")' /\ job'[v].approval = mem'[u].approval
    BY <1>3, <2>1 DEF Live, At
  <2>9. \A b \in 1..asked' : Decisive(b)' => \E v \in Workers : At(v, "waiting")' /\ job'[v].approval = b
    BY <1>3, <2>1 DEF Live, At, Decisive
  <2>10. /\ \A v \in Workers : ~At(v, "cancelled")'
         /\ \A u, v \in Workers : /\ job'[u].at \in {"asking", "waiting"}
                                  /\ job'[v].at \in {"asking", "waiting"}
                                  /\ job'[u].approval = job'[v].approval
                                  => u = v
    BY <1>3, <2>1 DEF Live, At
  <2>11. QED
    BY <2>6, <2>7, <2>8, <2>9, <2>10 DEF Live, Undecided
<1>15. ASSUME NEW c \in Clients, NEW w \in Workers, PrepareInput(c, w) PROVE Live'
  <2>1. request[c].task \in Tasks
    BY <1>0, <1>15 DEF PrepareInput, OtherTypes, Requests, NoRequest
  <2>2. CASE mem[request[c].task].status = "waiting_input"
    BY <1>7, <1>15, <2>1, <2>2 DEF PrepareInput, Busy
  <2>3. CASE mem[request[c].task].status # "waiting_input"
    BY <1>5, <1>15, <2>3 DEF PrepareInput, gvars, store, desk
  <2>4. QED
    BY <2>2, <2>3
<1>16. ASSUME NEW c \in Clients, NEW w \in Workers, NEW t \in Tasks, Create(c, w, t) PROVE Live'
  BY <1>7, <1>16 DEF Create, Busy
<1>17. CASE \/ \E c \in Clients : SubmitInteraction(c)
            \/ \E c \in Clients, t \in Tasks : Task(c, t) \/ LookUp(c, t)
            \/ Stop \/ Rest \/ UNCHANGED vars
  BY <1>5, <1>17 DEF SubmitInteraction, Task, LookUp, Stop, Rest, vars, gvars, store, desk
<1>18. QED
  BY <1>6, <1>8, <1>9, <1>10, <1>11, <1>12, <1>13, <1>14, <1>15, <1>16, <1>17
     DEF Next, WorkerStep, AwayStep

\* The desk is in order in every reachable state.
LEMMA DeskInvariant == Safety => []DeskInv
<1>1. Init => DeskInv
  BY DEF Init, DeskInv, Live, At, Idle, NewSnapshot, Decisive
<1>2. QED
  BY <1>1, DeskStep, OneDriverAlways, BaseInvariant, PTL DEF Safety

\* An approval the user sees can be decided: its goroutine waits for that id.
THEOREM ApprovalAnswerableAlways == Safety => []ApprovalAnswerable
BY DeskSuffices, DeskInvariant, BaseInvariant, PTL

\* No decision the store has accepted misses its goroutine.
THEOREM DecisionDeliveredAlways == Safety => []DecisionDelivered
BY DeskSuffices, DeskInvariant, BaseInvariant, PTL
=============================================================================
