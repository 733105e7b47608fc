--------------------------- MODULE TaskSteps_proofs ---------------------------
(***************************************************************************)
(* Proofs about the histories TaskRuntime keeps, for any finite number of  *)
(* goroutines and any tasks, requests and bounds: the steps of a task      *)
(* agree with its status, a task that has ended stays ended, and the       *)
(* runtime implements TaskContract and LoopContract.                       *)
(***************************************************************************)
EXTENDS TaskRuntime_proofs, FiniteSetTheorems

-----------------------------------------------------------------------------
(* The inductive invariant. *)

OpenIn(s) == {i \in DOMAIN s.steps : s.steps[i] # "closed"}

\* What a snapshot says of its steps agrees with what it says of the task.
Agrees(s) ==
  /\ \A i, j \in OpenIn(s) : i = j
  /\ s.status \in Terminal \cup {"absent"} => OpenIn(s) = {}
  /\ s.status = "waiting_input" => \A i \in OpenIn(s) : s.steps[i] = "waiting_input"
  /\ \A i \in OpenIn(s) : s.steps[i] = "waiting_approval" => s.status = "waiting_approval"

\* Between two steps of a turn, and within one.
Between == {"starting", "planning", "responding"}
Within == {"begun", "acting", "asking", "waiting", "cancelled", "failing", "invoking", "replied"}

\* The open step of a task is the one its goroutine is at.
InStep(j, s) ==
  /\ j.at \in Between => OpenIn(s) = {}
  /\ j.at \in Within => /\ OpenIn(s) = {j.step}
                        /\ s.steps[j.step] \in {"running", "waiting_approval"}
  /\ j.at = "waiting" /\ s.status = "waiting_approval" => s.steps[j.step] = "waiting_approval"
  /\ j.at = "settled" => \A i \in OpenIn(s) : s.steps[i] = "waiting_input" /\ j.out = "clarify"

Driving(w) == key[w] \in Tasks /\ job[w].at \notin {"idle", "finished"}

StepInv == /\ \A t \in Tasks : Agrees(mem[t]) /\ Agrees(disk[t])
           /\ \A w \in Workers : Driving(w) => InStep(job[w], mem[key[w]])

\* Until a save fails, the disk has what the memory has.
Saved == fails = 0 => disk = mem

-----------------------------------------------------------------------------
(* What the store's calls do to the steps of a snapshot. *)

\* A new input closes the step that waited for it, so that none is open.
LEMMA AcceptSteps ==
  ASSUME NEW s \in Snapshots, Agrees(s), s.status \in {"absent", "waiting_input"},
         NEW r, r = [s EXCEPT !.status = "running", !.form = NoForm, !.turn = @ + 1,
                              !.steps = Relabel(@, "waiting_input", "closed")]
  PROVE  OpenIn(r) = {} /\ Agrees(r)
<1>1. r.status = "running" /\ r.steps = Relabel(s.steps, "waiting_input", "closed")
  BY DEF Snapshots
<1>2. DOMAIN r.steps = DOMAIN s.steps
  BY <1>1 DEF Relabel
<1>3. ASSUME NEW i \in DOMAIN r.steps PROVE r.steps[i] = "closed"
  <2>1. CASE s.steps[i] = "closed"
    BY <1>1, <1>2, <1>3, <2>1 DEF Relabel, LastWith
  <2>2. CASE s.steps[i] # "closed"
    <3>1. i \in OpenIn(s) /\ s.steps[i] = "waiting_input"
      BY <1>2, <1>3, <2>2 DEF Agrees, OpenIn, Terminal
    <3>2. \A j \in DOMAIN s.steps : j > i => s.steps[j] # "waiting_input"
      BY <3>1 DEF Agrees, OpenIn, Snapshots
    <3>3. i \in LastWith(s.steps, "waiting_input")
      BY <1>2, <1>3, <3>1, <3>2 DEF LastWith
    <3>4. QED
      BY <1>1, <1>2, <1>3, <3>3 DEF Relabel
  <2>3. QED
    BY <2>1, <2>2
<1>4. OpenIn(r) = {}
  BY <1>3 DEF OpenIn
<1>5. QED
  BY <1>1, <1>4 DEF Agrees

\* An approval shown on a task relabels the one step that runs, ...
LEMMA RequireSteps ==
  ASSUME NEW s \in Snapshots, Agrees(s), NEW i, OpenIn(s) = {i},
         s.steps[i] \in {"running", "waiting_approval"},
         NEW r, r.status = "waiting_approval",
         r.steps = Relabel(s.steps, "running", "waiting_approval")
  PROVE  OpenIn(r) = {i} /\ r.steps[i] = "waiting_approval" /\ Agrees(r)
<1>1. DOMAIN r.steps = DOMAIN s.steps /\ i \in DOMAIN s.steps
  BY DEF Relabel, OpenIn
<1>2. ASSUME NEW j \in DOMAIN s.steps, j # i PROVE r.steps[j] = "closed"
  <2>1. s.steps[j] = "closed"
    BY <1>2 DEF OpenIn
  <2>2. QED
    BY <1>1, <2>1 DEF Relabel, LastWith
<1>3. r.steps[i] = "waiting_approval"
  <2>1. CASE s.steps[i] = "running"
    <3>1. \A j \in DOMAIN s.steps : j > i => s.steps[j] # "running"
      <4>1. i \in Int
        BY <1>1 DEF Snapshots
      <4>2. \A j \in DOMAIN s.steps : j # i => s.steps[j] = "closed"
        BY DEF OpenIn
      <4>3. QED
        BY <4>1, <4>2
    <3>2. i \in LastWith(s.steps, "running")
      BY <1>1, <2>1, <3>1 DEF LastWith
    <3>3. QED
      BY <1>1, <3>2 DEF Relabel
  <2>2. CASE s.steps[i] = "waiting_approval"
    BY <1>1, <2>2 DEF Relabel, LastWith
  <2>3. QED
    BY <2>1, <2>2
<1>4. OpenIn(r) = {i}
  BY <1>1, <1>2, <1>3 DEF OpenIn
<1>5. QED
  BY <1>3, <1>4 DEF Agrees, Terminal

\* ... and its decision relabels the one that waits for it.
LEMMA ResolveSteps ==
  ASSUME NEW s \in Snapshots, Agrees(s), s.status = "waiting_approval", NEW r,
         r.status = "running", r.steps = Relabel(s.steps, "waiting_approval", "running")
  PROVE  /\ OpenIn(r) = OpenIn(s) /\ Agrees(r)
         /\ \A i \in OpenIn(s) : r.steps[i] = IF s.steps[i] = "waiting_approval" THEN "running"
                                              ELSE s.steps[i]
<1>1. DOMAIN r.steps = DOMAIN s.steps
  BY DEF Relabel
<1>2. ASSUME NEW i \in DOMAIN s.steps
      PROVE  r.steps[i] = IF s.steps[i] = "waiting_approval" THEN "running" ELSE s.steps[i]
  <2>1. CASE s.steps[i] = "waiting_approval"
    <3>1. \A j \in DOMAIN s.steps : j > i => s.steps[j] # "waiting_approval"
      BY <2>1 DEF Agrees, OpenIn, Snapshots
    <3>2. i \in LastWith(s.steps, "waiting_approval")
      BY <2>1, <3>1 DEF LastWith
    <3>3. QED
      BY <1>1, <2>1, <3>2 DEF Relabel
  <2>2. CASE s.steps[i] # "waiting_approval"
    BY <1>1, <2>2 DEF Relabel, LastWith
  <2>3. QED
    BY <2>1, <2>2
<1>3. OpenIn(r) = OpenIn(s)
  BY <1>1, <1>2 DEF OpenIn
<1>4. \A i \in OpenIn(s) : r.steps[i] = IF s.steps[i] = "waiting_approval" THEN "running"
                                        ELSE s.steps[i]
  BY <1>2 DEF OpenIn
<1>5. Agrees(r)
  BY <1>3, <1>4 DEF Agrees, Terminal
<1>6. QED
  BY <1>3, <1>4, <1>5

\* A step appended to a task with none open is the open one.
LEMMA AppendSteps ==
  ASSUME NEW s \in Snapshots, OpenIn(s) = {}, s.status \in Busy, NEW r,
         r = [s EXCEPT !.steps = Append(@, "running")]
  PROVE  /\ OpenIn(r) = {Len(s.steps) + 1} /\ r.steps[Len(s.steps) + 1] = "running"
         /\ r.status = s.status /\ Agrees(r)
<1>1. s.steps \in Seq(StepStatuses)
  BY DEF Snapshots
<1>2. r.status = s.status /\ r.steps = Append(s.steps, "running")
  BY DEF Snapshots
<1>3. /\ DOMAIN r.steps = 1..(Len(s.steps) + 1) /\ DOMAIN s.steps = 1..Len(s.steps)
      /\ Len(s.steps) \in Nat
      /\ r.steps[Len(s.steps) + 1] = "running"
      /\ \A i \in 1..Len(s.steps) : r.steps[i] = s.steps[i]
  BY <1>1, <1>2
<1>4. \A i \in 1..Len(s.steps) : s.steps[i] = "closed"
  BY <1>3 DEF OpenIn
<1>5. OpenIn(r) = {Len(s.steps) + 1}
  BY <1>3, <1>4 DEF OpenIn
<1>6. QED
  BY <1>2, <1>3, <1>5 DEF Agrees, Busy, Terminal

\* Setting the status of the open step.
LEMMA SetSteps ==
  ASSUME NEW s \in Snapshots, NEW i, OpenIn(s) = {i}, s.status \in Busy,
         NEW x \in {"running", "waiting_input", "closed"}, NEW r,
         r = [s EXCEPT !.steps[i] = x]
  PROVE  /\ OpenIn(r) = IF x = "closed" THEN {} ELSE {i}
         /\ r.steps[i] = x /\ r.status = s.status /\ Agrees(r)
<1>1. r.status = s.status /\ r.steps = [s.steps EXCEPT ![i] = x]
  BY DEF Snapshots
<1>2. i \in DOMAIN s.steps /\ \A j \in DOMAIN s.steps : j # i => s.steps[j] = "closed"
  BY DEF OpenIn
<1>3. s.steps \in Seq(StepStatuses)
  BY DEF Snapshots
<1>4. /\ DOMAIN r.steps = DOMAIN s.steps /\ r.steps[i] = x
      /\ \A j \in DOMAIN s.steps : j # i => r.steps[j] = "closed"
  BY <1>1, <1>2, <1>3
<1>5. OpenIn(r) = IF x = "closed" THEN {} ELSE {i}
  BY <1>2, <1>4 DEF OpenIn
<1>6. QED
  BY <1>1, <1>4, <1>5 DEF Agrees, Busy, Terminal

\* A task that ends, or waits for the user.
LEMMA ConcludeSteps ==
  ASSUME NEW s \in Snapshots, Agrees(s), NEW status, NEW form,
         \/ status \in {"completed", "failed", "waiting_input"} /\ OpenIn(s) = {}
         \/ status = "waiting_input" /\ \A i \in OpenIn(s) : s.steps[i] = "waiting_input",
         NEW r, r = [s EXCEPT !.status = status, !.form = form]
  PROVE  Agrees(r)
<1>1. r.status = status /\ r.steps = s.steps
  BY DEF Snapshots
<1>2. OpenIn(r) = OpenIn(s)
  BY <1>1 DEF OpenIn
<1>3. QED
  BY <1>1, <1>2 DEF Agrees, Terminal

\* A snapshot restored after a restart.
LEMMA ParkedSteps ==
  ASSUME NEW s \in Snapshots, Agrees(s) PROVE Agrees(Parked(s))
<1>1. CASE s.status \in {"running", "waiting_approval"}
  <2> DEFINE r == Parked(s)
  <2>1. /\ r.status = "waiting_input"
        /\ r.steps = [i \in DOMAIN s.steps |->
                        IF s.steps[i] \in {"running", "waiting_approval"} THEN "waiting_input"
                        ELSE s.steps[i]]
    BY <1>1 DEF Parked, Snapshots
  <2> HIDE DEF r
  <2>2. OpenIn(r) = OpenIn(s)
    BY <2>1 DEF OpenIn
  <2>3. s.steps \in Seq(StepStatuses)
    BY DEF Snapshots
  <2>4. \A i \in OpenIn(s) : s.steps[i] \in {"running", "waiting_approval", "waiting_input"}
    BY <2>3 DEF OpenIn, StepStatuses
  <2>5. \A i \in OpenIn(s) : r.steps[i] = "waiting_input"
    BY <2>1, <2>4 DEF OpenIn
  <2>6. Agrees(r)
    BY <2>1, <2>2, <2>5 DEF Agrees, Terminal
  <2>7. QED
    BY <2>6 DEF r
<1>2. CASE s.status \notin {"running", "waiting_approval"}
  BY <1>2 DEF Parked
<1>3. QED
  BY <1>1, <1>2

-----------------------------------------------------------------------------
(* The invariant, step by step. *)

\* A goroutine that drives a task is alone with it, and the task is under way.
LEMMA AloneWithTask ==
  ASSUME OneDriver, NEW w \in Workers, Driving(w)
  PROVE  /\ mem[key[w]].status \in Busy
         /\ \A v \in Workers \ {w} : Driving(v) => key[v] # key[w]
<1>1. w \in Drivers(key[w]) /\ key[w] \in Tasks
  BY DEF Driving, Drivers
<1>2. key[w] \in UnderWay
  BY <1>1 DEF OneDriver
<1>3. \A v \in Workers \ {w} : v \notin Drivers(key[w])
  BY <1>1, <1>2 DEF OneDriver
<1>4. QED
  BY <1>2, <1>3 DEF UnderWay, Busy, Driving, Drivers

\* A snapshot saved, or not, leaves snapshots that agree.
LEMMA UpdateAgrees ==
  ASSUME StoreTypes, \A t \in Tasks : Agrees(mem[t]) /\ Agrees(disk[t]),
         NEW t \in Tasks, NEW r, Agrees(r), Update(t, r)
  PROVE  /\ \A u \in Tasks : Agrees(mem'[u]) /\ Agrees(disk'[u])
         /\ mem'[t] = r /\ \A u \in Tasks \ {t} : mem'[u] = mem[u]
<1>1. mem' = [mem EXCEPT ![t] = r] /\ DOMAIN mem = Tasks /\ DOMAIN disk = Tasks
  BY DEF Update, StoreTypes
<1>2. disk' = [disk EXCEPT ![t] = r] \/ disk' = disk
  BY DEF Update, persistLocked
<1>3. mem'[t] = r /\ \A u \in Tasks \ {t} : mem'[u] = mem[u]
  BY <1>1
<1>4. \A u \in Tasks : disk'[u] \in {disk[u], IF u = t THEN r ELSE disk[u]}
  BY <1>1, <1>2
<1>5. QED
  BY <1>3, <1>4

\* A step of a goroutine that drives a task: what it leaves in the snapshot
\* fits where it goes.
LEMMA TurnKeeps ==
  ASSUME StoreTypes, OneDriver, StepInv,
         NEW w \in Workers, Driving(w), NEW r, Agrees(r),
         \/ Update(key[w], r)
         \/ UNCHANGED <<mem, disk>> /\ r = mem[key[w]],
         \A v \in Workers \ {w} : job'[v] = job[v], UNCHANGED key,
         job'[w].at = "finished" \/ InStep(job'[w], r)
  PROVE  StepInv'
<1>1. key[w] \in Tasks
  BY DEF Driving
<1>2. /\ \A u \in Tasks : Agrees(mem'[u]) /\ Agrees(disk'[u])
      /\ mem'[key[w]] = r /\ \A u \in Tasks \ {key[w]} : mem'[u] = mem[u]
  <2>1. CASE Update(key[w], r)
    BY <1>1, <2>1, UpdateAgrees DEF StepInv
  <2>2. CASE UNCHANGED <<mem, disk>> /\ r = mem[key[w]]
    BY <1>1, <2>2 DEF StepInv
  <2>3. QED
    BY <2>1, <2>2
<1>3. ASSUME NEW v \in Workers, Driving(v)' PROVE InStep(job'[v], mem'[key'[v]])
  <2>1. CASE v = w
    BY <1>2, <1>3, <2>1 DEF Driving
  <2>2. CASE v # w
    <3>1. Driving(v) /\ job'[v] = job[v] /\ key'[v] = key[v]
      BY <1>3, <2>2 DEF Driving
    <3>2. key[v] # key[w] /\ key[v] \in Tasks
      BY <2>2, <3>1, AloneWithTask DEF Driving
    <3>3. mem'[key'[v]] = mem[key[v]]
      BY <1>2, <3>1, <3>2
    <3>4. QED
      BY <3>1, <3>3 DEF StepInv
  <2>3. QED
    BY <2>1, <2>2
<1>4. QED
  BY <1>2, <1>3 DEF StepInv

\* Goroutines that do not drive a task write none.
LEMMA OthersKeep ==
  ASSUME StepInv, UNCHANGED <<mem, disk>>,
         \A v \in Workers : Driving(v)' => Driving(v) /\ job'[v] = job[v] /\ key'[v] = key[v]
  PROVE  StepInv'
BY DEF StepInv

\* A goroutine within its turn drives its task.
LEMMA EngagedDrives ==
  ASSUME Working, NEW w \in Workers, job[w].at \in Engaged
  PROVE  Driving(w)
BY DEF Working, Engaged, Positions, Driving

\* What a goroutine's steps write and where they go.
LEMMA StepsInside ==
  ASSUME Base, OneDriver, StepInv, NEW w \in Workers,
         \/ UpdatePlan(w)
         \/ BeginStep(w) \/ NotifyStep(w) \/ Decide(w) \/ PlanFails(w) \/ InvokeFreely(w)
         \/ Register(w) \/ RequireApproval(w) \/ HearDecision(w) \/ Cancelled(w) \/ Unregister(w)
         \/ FailStep(w) \/ CompleteStep(w) \/ Respond(w) \/ FinishResponseStep(w) \/ Finish(w)
  PROVE  StepInv'
<1> DEFINE t == key[w]
           s == mem[t]
<1>1. StoreTypes /\ job \in [Workers -> Jobs] /\ Working
  BY TypesParts DEF Base, JobTypes
<1>2. job[w].at \in Engaged
  BY DEF UpdatePlan, BeginStep, NotifyStep, Decide, PlanFails, InvokeFreely, Register,
         RequireApproval, HearDecision, Cancelled, Unregister, FailStep, CompleteStep,
         Respond, FinishResponseStep, Finish, At, Engaged, Positions
<1>3. Driving(w) /\ t \in Tasks
  BY <1>1, <1>2, EngagedDrives DEF Driving
<1>4. s \in Snapshots /\ s.status \in Busy /\ Agrees(s) /\ InStep(job[w], s)
  BY <1>1, <1>3, AloneWithTask DEF StoreTypes, StepInv
<1>5. job[w] \in Jobs /\ DOMAIN job = Workers
  BY <1>1
<1> HIDE DEF s
<1>6. ASSUME NEW r, Agrees(r),
             Update(t, r) \/ (UNCHANGED store /\ r = s),
             NEW j, job' = [job EXCEPT ![w] = j], UNCHANGED key,
             j.at = "finished" \/ InStep(j, r)
      PROVE  StepInv'
  <2>1. job'[w] = j /\ \A v \in Workers \ {w} : job'[v] = job[v]
    BY <1>5, <1>6
  <2>2. Update(key[w], r) \/ (UNCHANGED <<mem, disk>> /\ r = mem[key[w]])
    BY <1>6 DEF store, s
  <2>3. QED
    BY <1>1, <1>3, <1>6, <2>1, <2>2, TurnKeeps
<1>7. CASE UpdatePlan(w)
  <2>1. Update(t, s) /\ UNCHANGED <<job, key>>
    BY <1>7 DEF UpdatePlan, gvars, s
  <2>2. QED
    BY <1>1, <1>3, <1>4, <2>1, TurnKeeps
<1>8. CASE BeginStep(w)
  <2> DEFINE j == [job[w] EXCEPT !.at = "begun", !.acts = @ + 1, !.step = Len(s.steps) + 1,
                                 !.approval = NoApproval]
             r == [s EXCEPT !.steps = Append(@, "running")]
  <2>1. Update(t, r) /\ job' = [job EXCEPT ![w] = j] /\ UNCHANGED key /\ job[w].at = "planning"
    BY <1>8 DEF BeginStep, AppendStep, At, gvars, s
  <2>2. OpenIn(s) = {}
    BY <1>4, <2>1 DEF InStep, Between
  <2>3. /\ OpenIn(r) = {Len(s.steps) + 1} /\ r.steps[Len(s.steps) + 1] = "running"
        /\ Agrees(r)
    BY <1>4, <2>2, AppendSteps
  <2>4. j.at = "begun" /\ j.step = Len(s.steps) + 1
    BY <1>5 DEF Jobs
  <2>5. InStep(j, r)
    BY <2>3, <2>4 DEF InStep, Between, Within
  <2> HIDE DEF j, r
  <2>6. QED
    BY <1>6, <2>1, <2>3, <2>5
<1>9. CASE NotifyStep(w)
  <2> DEFINE j == [job[w] EXCEPT !.at = "acting"]
             r == [s EXCEPT !.steps[job[w].step] = "running"]
  <2>1. Update(t, r) /\ job' = [job EXCEPT ![w] = j] /\ UNCHANGED key /\ job[w].at = "begun"
    BY <1>9 DEF NotifyStep, SetStep, Goto, At, gvars, s
  <2>2. OpenIn(s) = {job[w].step}
    BY <1>4, <2>1 DEF InStep, Within
  <2>3. OpenIn(r) = {job[w].step} /\ r.steps[job[w].step] = "running" /\ Agrees(r)
    BY <1>4, <2>2, SetSteps
  <2>4. j.at = "acting" /\ j.step = job[w].step
    BY <1>5 DEF Jobs
  <2>5. InStep(j, r)
    BY <2>3, <2>4 DEF InStep, Between, Within
  <2> HIDE DEF j, r
  <2>6. QED
    BY <1>6, <2>1, <2>3, <2>5
<1>10. CASE Decide(w) \/ PlanFails(w)
  <2>1. OpenIn(s) = {} /\ UNCHANGED key /\ UNCHANGED store
    BY <1>4, <1>10 DEF Decide, PlanFails, At, gvars, InStep, Between
  <2>2. PICK j : job' = [job EXCEPT ![w] = j] /\ j.at \in {"responding", "settled"}
    <3>1. CASE Decide(w)
      <4>1. PICK out : Reply(w, out)
        BY <3>1 DEF Decide
      <4>2. job' = [job EXCEPT ![w] = [job[w] EXCEPT !.at = "responding", !.out = out]]
        BY <4>1 DEF Reply
      <4>3. [job[w] EXCEPT !.at = "responding", !.out = out].at = "responding"
        BY <1>5 DEF Jobs
      <4>4. QED
        BY <4>2, <4>3
    <3>2. CASE PlanFails(w)
      <4>1. job' = [job EXCEPT ![w] = [job[w] EXCEPT !.at = "settled", !.out = "error"]]
        BY <3>2 DEF PlanFails
      <4>2. [job[w] EXCEPT !.at = "settled", !.out = "error"].at = "settled"
        BY <1>5 DEF Jobs
      <4>3. QED
        BY <4>1, <4>2
    <3>3. QED
      BY <1>10, <3>1, <3>2
  <2>3. InStep(j, s)
    BY <2>1, <2>2 DEF InStep, Between, Within
  <2>4. QED
    BY <1>4, <1>6, <2>1, <2>2, <2>3
<1>11. CASE InvokeFreely(w) \/ Register(w) \/ HearDecision(w) \/ Cancelled(w) \/ Unregister(w)
  <2>1. UNCHANGED key /\ UNCHANGED store /\ job[w].at \in Within
    BY <1>11 DEF InvokeFreely, Register, HearDecision, Cancelled, Unregister, At, gvars, Within
  <2>2. PICK p \in {"invoking", "asking", "failing", "cancelled"}, a \in {asked + 1} :
          \/ job' = [job EXCEPT ![w] = [job[w] EXCEPT !.at = p]]
          \/ job' = [job EXCEPT ![w] = [job[w] EXCEPT !.at = p, !.approval = a]]
    BY <1>11 DEF InvokeFreely, Register, HearDecision, Cancelled, Unregister, Goto
  <2>3. PICK j : job' = [job EXCEPT ![w] = j] /\ j.at = p /\ j.step = job[w].step
    <3>1. /\ [job[w] EXCEPT !.at = p].at = p /\ [job[w] EXCEPT !.at = p].step = job[w].step
          /\ [job[w] EXCEPT !.at = p, !.approval = a].at = p
          /\ [job[w] EXCEPT !.at = p, !.approval = a].step = job[w].step
      BY <1>5 DEF Jobs
    <3>2. QED
      BY <2>2, <3>1
  <2>4. InStep(j, s)
    BY <1>4, <2>1, <2>3 DEF InStep, Between, Within
  <2>5. QED
    BY <1>4, <1>6, <2>1, <2>3, <2>4
<1>12. CASE RequireApproval(w)
  <2> DEFINE j == [job[w] EXCEPT !.at = "waiting"]
             r == [s EXCEPT !.status = "waiting_approval", !.approval = job[w].approval,
                            !.steps = Relabel(@, "running", "waiting_approval")]
  <2>1. Update(t, r) /\ job' = [job EXCEPT ![w] = j] /\ UNCHANGED key /\ job[w].at = "asking"
    BY <1>12 DEF RequireApproval, Require, Goto, At, gvars, s
  <2>2. OpenIn(s) = {job[w].step} /\ s.steps[job[w].step] \in {"running", "waiting_approval"}
    BY <1>4, <2>1 DEF InStep, Within
  <2>3. OpenIn(r) = {job[w].step} /\ r.steps[job[w].step] = "waiting_approval" /\ Agrees(r)
    <3>1. /\ r.status = "waiting_approval"
          /\ r.steps = Relabel(s.steps, "running", "waiting_approval")
      BY <1>4 DEF Snapshots
    <3> HIDE DEF r
    <3>2. QED
      BY <1>4, <2>2, <3>1, RequireSteps
  <2>4. j.at = "waiting" /\ j.step = job[w].step
    BY <1>5 DEF Jobs
  <2>5. InStep(j, r)
    BY <2>3, <2>4 DEF InStep, Between, Within
  <2> HIDE DEF j, r
  <2>6. QED
    BY <1>6, <2>1, <2>3, <2>5
<1>13. CASE FailStep(w) \/ CompleteStep(w)
  <2> DEFINE r == [s EXCEPT !.steps[job[w].step] = "closed"]
  <2>1. Update(t, r) /\ UNCHANGED key /\ job[w].at \in Within
    BY <1>13 DEF FailStep, CompleteStep, SetStep, At, gvars, s, Within
  <2>2. OpenIn(s) = {job[w].step}
    BY <1>4, <2>1 DEF InStep
  <2>3. OpenIn(r) = {} /\ Agrees(r)
    BY <1>4, <2>2, SetSteps
  <2>4. PICK p \in {"planning", "responding"}, out \in {"answer", "blocked"} :
          \/ job' = [job EXCEPT ![w] = [job[w] EXCEPT !.at = p]]
          \/ job' = [job EXCEPT ![w] = [job[w] EXCEPT !.at = p, !.out = out]]
    BY <1>13 DEF FailStep, CompleteStep, Goto, Reply
  <2>5. PICK j : job' = [job EXCEPT ![w] = j] /\ j.at = p
    <3>1. [job[w] EXCEPT !.at = p].at = p /\ [job[w] EXCEPT !.at = p, !.out = out].at = p
      BY <1>5 DEF Jobs
    <3>2. QED
      BY <2>4, <3>1
  <2>6. InStep(j, r)
    BY <2>3, <2>5 DEF InStep, Between, Within
  <2> HIDE DEF r
  <2>7. QED
    BY <1>6, <2>1, <2>3, <2>5, <2>6
<1>14. CASE Respond(w)
  <2> DEFINE r == [s EXCEPT !.steps = Append(@, "running")]
  <2>1. Update(t, r) /\ UNCHANGED key /\ job[w].at = "responding"
    BY <1>14 DEF Respond, AppendStep, At, gvars, s
  <2>2. OpenIn(s) = {}
    BY <1>4, <2>1 DEF InStep, Between
  <2>3. /\ OpenIn(r) = {Len(s.steps) + 1} /\ r.steps[Len(s.steps) + 1] = "running"
        /\ Agrees(r)
    BY <1>4, <2>2, AppendSteps
  <2>4. PICK out : job' = [job EXCEPT ![w] = [job[w] EXCEPT !.at = "replied", !.out = out,
                                                          !.step = Len(s.steps) + 1]]
    BY <1>14 DEF Respond, s
  <2> DEFINE j == [job[w] EXCEPT !.at = "replied", !.out = out, !.step = Len(s.steps) + 1]
  <2>5. j.at = "replied" /\ j.step = Len(s.steps) + 1 /\ job' = [job EXCEPT ![w] = j]
    BY <1>5, <2>4 DEF Jobs
  <2>6. InStep(j, r)
    BY <2>3, <2>5 DEF InStep, Between, Within
  <2> HIDE DEF r, j
  <2>7. QED
    BY <1>6, <2>1, <2>3, <2>5, <2>6
<1>15. CASE FinishResponseStep(w)
  <2> DEFINE x == IF job[w].out = "clarify" THEN "waiting_input" ELSE "closed"
             j == [job[w] EXCEPT !.at = "settled"]
             r == [s EXCEPT !.steps[job[w].step] = x]
  <2>1. Update(t, r) /\ job' = [job EXCEPT ![w] = j] /\ UNCHANGED key /\ job[w].at = "replied"
    BY <1>15 DEF FinishResponseStep, SetStep, Goto, At, gvars, s
  <2>2. OpenIn(s) = {job[w].step}
    BY <1>4, <2>1 DEF InStep, Within
  <2>3. x \in {"running", "waiting_input", "closed"} /\ (x # "closed" => x = "waiting_input" /\ job[w].out = "clarify")
    OBVIOUS
  <2> HIDE DEF x
  <2>4. /\ OpenIn(r) = IF x = "closed" THEN {} ELSE {job[w].step}
        /\ r.steps[job[w].step] = x /\ Agrees(r)
    BY <1>4, <2>2, <2>3, SetSteps
  <2>5. j.at = "settled" /\ j.out = job[w].out
    BY <1>5 DEF Jobs
  <2>6. InStep(j, r)
    BY <2>3, <2>4, <2>5 DEF InStep, Between, Within
  <2> HIDE DEF j, r
  <2>7. QED
    BY <1>6, <2>1, <2>4, <2>6
<1>16. CASE Finish(w)
  <2> DEFINE j == [job[w] EXCEPT !.at = "finished"]
  <2>1. job' = [job EXCEPT ![w] = j] /\ UNCHANGED key /\ job[w].at = "settled"
    BY <1>16 DEF Finish, Goto, At, gvars
  <2>2. \A i \in OpenIn(s) : s.steps[i] = "waiting_input" /\ job[w].out = "clarify"
    BY <1>4, <2>1 DEF InStep
  <2>3. PICK status \in {"completed", "failed", "waiting_input"}, form \in {NoForm, s.turn} :
          /\ Conclude(t, status, form)
          /\ status # "waiting_input" => job[w].out # "clarify"
    BY <1>16, Zenon DEF Finish, s
  <2> DEFINE r == [s EXCEPT !.status = status, !.form = form]
  <2>4. Update(t, r)
    BY <2>3 DEF Conclude, s
  <2>5. \/ status \in {"completed", "failed", "waiting_input"} /\ OpenIn(s) = {}
        \/ status = "waiting_input" /\ \A i \in OpenIn(s) : s.steps[i] = "waiting_input"
    BY <2>2, <2>3
  <2>6. Agrees(r)
    BY <1>4, <2>5, ConcludeSteps
  <2>7. j.at = "finished"
    BY <1>5 DEF Jobs
  <2> HIDE DEF j, r
  <2>8. QED
    BY <1>6, <2>1, <2>4, <2>6, <2>7
<1>17. QED
  BY <1>7, <1>8, <1>9, <1>10, <1>11, <1>12, <1>13, <1>14, <1>15, <1>16

\* A goroutine's steps before its turn begins and after it has ended.
LEMMA StepsOutside ==
  ASSUME Base, OneDriver, StepInv, NEW w \in Workers,
         \/ PassGate(w) \/ EndChat(w) \/ RefuseTask(w) \/ BeginTurn(w) \/ Release(w) \/ Exit(w)
         \/ \E k \in Chats : StartChat(w, k)
  PROVE  StepInv'
<1>1. /\ StoreTypes /\ job \in [Workers -> Jobs] /\ Gate!GateTypeOK
      /\ Tasks \cap Chats = {} /\ NoKey \notin Tasks \cup Chats
  BY TypesParts, RuntimeAssumption DEF Base, JobTypes
<1>2. CASE PassGate(w) \/ Release(w)
  <2>1. UNCHANGED <<mem, disk, job, key>>
    BY <1>2, PassingGate DEF PassGate, Release, Gate!DeleteKey, store
  <2>2. QED
    BY <2>1, OthersKeep DEF Driving
<1>3. CASE EndChat(w)
  <2>1. UNCHANGED <<mem, disk, key>> /\ \A v \in Workers \ {w} : job'[v] = job[v]
    BY <1>1, <1>3 DEF EndChat, Goto, gvars, store
  <2>2. key[w] \notin Tasks
    BY <1>1, <1>3 DEF EndChat
  <2>3. QED
    BY <2>1, <2>2, OthersKeep DEF Driving
<1>4. CASE Exit(w)
  <2>1. /\ UNCHANGED <<mem, disk>> /\ job'[w].at = "idle"
        /\ \A v \in Workers \ {w} : job'[v] = job[v] /\ key'[v] = key[v]
    BY <1>1, <1>4 DEF Exit, Idle, Gate!ReleaseAgain, Gate!Dismiss, Gate!GateTypeOK, store
  <2>2. QED
    BY <2>1, OthersKeep DEF Driving
<1>5. ASSUME NEW k \in Chats, StartChat(w, k) PROVE StepInv'
  <2>1. /\ UNCHANGED <<mem, disk>> /\ key'[w] = k
        /\ \A v \in Workers \ {w} : job'[v] = job[v] /\ key'[v] = key[v]
    BY <1>1, <1>5 DEF StartChat, Spawn, Goto, Gate!Call, Gate!Goto, Gate!GateTypeOK, store
  <2>2. QED
    BY <1>1, <2>1, OthersKeep DEF Driving
<1>6. CASE RefuseTask(w) \/ BeginTurn(w)
  <2> DEFINE s == mem[key[w]]
  <2>1. key[w] \in Tasks /\ job[w].at = "starting" /\ Driving(w) /\ UNCHANGED key
    BY <1>6 DEF RefuseTask, BeginTurn, At, Driving, gvars
  <2>2. s \in Snapshots /\ Agrees(s) /\ OpenIn(s) = {} /\ job[w] \in Jobs
    BY <1>1, <2>1 DEF StepInv, InStep, Between, StoreTypes
  <2>3. CASE BeginTurn(w)
    <3>1. /\ UNCHANGED <<mem, disk>> /\ \A v \in Workers \ {w} : job'[v] = job[v]
          /\ job'[w].at = "planning"
      BY <1>1, <2>3, <2>2 DEF BeginTurn, Goto, store, Jobs
    <3>2. InStep(job'[w], s)
      BY <2>2, <3>1 DEF InStep, Between, Within
    <3>3. QED
      BY <1>1, <2>1, <2>2, <3>1, <3>2, TurnKeeps
  <2>4. CASE RefuseTask(w)
    <3> DEFINE r == [s EXCEPT !.status = "failed", !.form = NoForm]
    <3>1. /\ Update(key[w], r) /\ \A v \in Workers \ {w} : job'[v] = job[v]
          /\ job'[w].at = "finished"
      BY <1>1, <2>4, <2>2 DEF RefuseTask, Conclude, Goto, Jobs
    <3>2. Agrees(r)
      BY <2>2, ConcludeSteps
    <3> HIDE DEF r
    <3>3. QED
      BY <1>1, <2>1, <3>1, <3>2, TurnKeeps
  <2>5. QED
    BY <1>6, <2>3, <2>4
<1>7. QED
  BY <1>2, <1>3, <1>4, <1>5, <1>6

\* A new input starts a goroutine on a task nobody drives.
LEMMA StepsAccepted ==
  ASSUME Base, OneDriver, StepInv, NEW w \in Workers, NEW t \in Tasks,
         mem[t].status \in {"absent", "waiting_input"}, Accept(t), Spawn(w, t)
  PROVE  StepInv'
<1>1. StoreTypes /\ job \in [Workers -> Jobs] /\ Gate!GateTypeOK
  BY TypesParts DEF Base, JobTypes
<1> DEFINE s == mem[t]
           r == [s EXCEPT !.status = "running", !.form = NoForm, !.turn = @ + 1,
                          !.steps = Relabel(@, "waiting_input", "closed")]
<1>2. s \in Snapshots /\ Agrees(s)
  BY <1>1 DEF StoreTypes, StepInv
<1>3. OpenIn(r) = {} /\ Agrees(r)
  BY <1>2, AcceptSteps
<1>4. Update(t, r)
  BY DEF Accept
<1> HIDE DEF s, r
<1>5. /\ \A u \in Tasks : Agrees(mem'[u]) /\ Agrees(disk'[u])
      /\ mem'[t] = r /\ \A u \in Tasks \ {t} : mem'[u] = mem[u]
  BY <1>1, <1>3, <1>4, UpdateAgrees DEF StepInv
<1>6. /\ job'[w].at = "starting" /\ key'[w] = t
      /\ \A v \in Workers \ {w} : job'[v] = job[v] /\ key'[v] = key[v]
  BY <1>1 DEF Spawn, Goto, Jobs, Gate!Call, Gate!Goto, Gate!GateTypeOK
<1>7. ASSUME NEW v \in Workers, Driving(v)' PROVE InStep(job'[v], mem'[key'[v]])
  <2>1. CASE v = w
    BY <1>3, <1>5, <1>6, <2>1 DEF InStep, Between, Within
  <2>2. CASE v # w
    <3>1. Driving(v) /\ job'[v] = job[v] /\ key'[v] = key[v] /\ key[v] \in Tasks
      BY <1>6, <1>7, <2>2 DEF Driving
    <3>2. key[v] # t
      BY <3>1, AloneWithTask DEF Busy
    <3>3. QED
      BY <1>5, <3>1, <3>2 DEF StepInv
  <2>3. QED
    BY <2>1, <2>2
<1>8. QED
  BY <1>5, <1>7 DEF StepInv

\* A decision relabels the step that waited for it, where the goroutine is.
LEMMA StepsResolved ==
  ASSUME Base, OneDriver, StepInv, NEW t \in Tasks, NEW d \in Decisions, ResolveApproval(t, d)
  PROVE  StepInv'
<1>1. StoreTypes
  BY TypesParts DEF Base
<1> DEFINE s == mem[t]
           r == [s EXCEPT !.status = "running", !.approval = NoApproval,
                          !.steps = Relabel(@, "waiting_approval", "running")]
<1>2. s \in Snapshots /\ Agrees(s) /\ s.status = "waiting_approval"
  BY <1>1 DEF StoreTypes, StepInv, ResolveApproval
<1>3. /\ r.status = "running" /\ r.steps = Relabel(s.steps, "waiting_approval", "running")
      /\ Update(t, r) /\ UNCHANGED <<job, key>>
  BY <1>2 DEF ResolveApproval, Resolve, gvars, Snapshots
<1> HIDE DEF s, r
<1>4. /\ OpenIn(r) = OpenIn(s) /\ Agrees(r)
      /\ \A i \in OpenIn(s) : r.steps[i] = IF s.steps[i] = "waiting_approval" THEN "running"
                                           ELSE s.steps[i]
  BY <1>2, <1>3, ResolveSteps
<1>5. /\ \A u \in Tasks : Agrees(mem'[u]) /\ Agrees(disk'[u])
      /\ mem'[t] = r /\ \A u \in Tasks \ {t} : mem'[u] = mem[u]
  BY <1>1, <1>3, <1>4, UpdateAgrees DEF StepInv
<1>6. ASSUME NEW w \in Workers, Driving(w)' PROVE InStep(job'[w], mem'[key'[w]])
  <2>1. Driving(w) /\ InStep(job[w], mem[key[w]]) /\ key[w] \in Tasks
    BY <1>3, <1>6 DEF Driving, StepInv
  <2>2. CASE key[w] = t
    <3>1. InStep(job[w], r)
      BY <1>3, <1>4, <2>1, <2>2 DEF InStep, s
    <3>2. QED
      BY <1>3, <1>5, <2>2, <3>1
  <2>3. CASE key[w] # t
    BY <1>3, <1>5, <2>1, <2>3
  <2>4. QED
    BY <2>2, <2>3
<1>7. QED
  BY <1>5, <1>6 DEF StepInv

\* Every step of the runtime keeps the steps of the tasks in agreement.
LEMMA StepsStep == Base /\ OneDriver /\ StepInv /\ [Next]_vars => StepInv'
<1> SUFFICES ASSUME Base, OneDriver, StepInv, [Next]_vars PROVE StepInv'
  OBVIOUS
<1>1. StoreTypes /\ OtherTypes
  BY TypesParts DEF Base
<1>2. ASSUME NEW w \in Workers, WorkerStep(w) \/ \E k \in Chats : StartChat(w, k)
      PROVE  StepInv'
  <2>1. CASE \/ PassGate(w) \/ EndChat(w) \/ RefuseTask(w) \/ BeginTurn(w)
             \/ Release(w) \/ Exit(w) \/ \E k \in Chats : StartChat(w, k)
    BY <2>1, StepsOutside
  <2>2. CASE \/ UpdatePlan(w)
             \/ BeginStep(w) \/ NotifyStep(w) \/ Decide(w) \/ PlanFails(w) \/ InvokeFreely(w)
             \/ Register(w) \/ RequireApproval(w) \/ HearDecision(w)
             \/ Cancelled(w) \/ Unregister(w)
             \/ FailStep(w) \/ CompleteStep(w) \/ Respond(w)
             \/ FinishResponseStep(w) \/ Finish(w)
    BY <2>2, StepsInside
  <2>3. QED
    BY <1>2, <2>1, <2>2 DEF WorkerStep
<1>3. ASSUME NEW c \in Clients, NEW w \in Workers, PrepareInput(c, w) PROVE StepInv'
  <2>1. request[c].task \in Tasks
    BY <1>1, <1>3 DEF PrepareInput, OtherTypes, Requests, NoRequest
  <2>2. CASE mem[request[c].task].status = "waiting_input"
    BY <1>3, <2>1, <2>2, StepsAccepted DEF PrepareInput
  <2>3. CASE mem[request[c].task].status # "waiting_input"
    BY <1>3, <2>3, OthersKeep DEF PrepareInput, gvars, store, Driving
  <2>4. QED
    BY <2>2, <2>3
<1>4. ASSUME NEW c \in Clients, NEW w \in Workers, NEW t \in Tasks, Create(c, w, t)
      PROVE  StepInv'
  BY <1>4, StepsAccepted DEF Create
<1>5. ASSUME NEW t \in Tasks, NEW d \in Decisions, ResolveApproval(t, d) PROVE StepInv'
  BY <1>5, StepsResolved
<1>6. CASE Restart
  <2>1. \A w \in Workers : ~Driving(w)'
    BY <1>6 DEF Restart, Driving, Idle
  <2>2. \A t \in Tasks : Agrees(Parked(disk[t]))
    BY <1>1, ParkedSteps DEF StepInv, StoreTypes
  <2>3. /\ mem' = [t \in Tasks |-> Parked(disk[t])]
        /\ \A t \in Tasks : disk'[t] \in {disk[t], mem'[t]}
    BY <1>6 DEF Restart
  <2>4. \A t \in Tasks : Agrees(mem'[t]) /\ Agrees(disk'[t])
    BY <2>2, <2>3 DEF StepInv
  <2>5. QED
    BY <2>1, <2>4 DEF StepInv
<1>7. CASE \/ \E c \in Clients : SubmitInteraction(c)
           \/ \E c \in Clients, t \in Tasks : Task(c, t) \/ LookUp(c, t)
           \/ \E a \in 1..MaxApprovals, d \in Decisions : SendDecision(a, d)
           \/ Stop \/ Rest \/ UNCHANGED vars
  <2>1. UNCHANGED <<mem, disk, job, key>>
    BY <1>7 DEF SubmitInteraction, Task, LookUp, SendDecision, Stop, Rest, vars, gvars, store
  <2>2. QED
    BY <2>1, OthersKeep DEF Driving
<1>8. QED
  BY <1>2, <1>3, <1>4, <1>5, <1>6, <1>7 DEF Next

\* At first no task exists.
LEMMA StepsInit == Init => StepInv
<1> SUFFICES ASSUME Init PROVE StepInv
  OBVIOUS
<1>1. OpenIn(NewSnapshot) = {} /\ NewSnapshot.status = "absent"
  BY DEF OpenIn, NewSnapshot
<1>2. Agrees(NewSnapshot)
  BY <1>1 DEF Agrees
<1>3. \A w \in Workers : ~Driving(w)
  BY DEF Init, Driving, Idle
<1>4. QED
  BY <1>2, <1>3 DEF Init, StepInv

\* The steps of every task agree with its status in every reachable state.
LEMMA StepsInvariant == Safety => []StepInv
<1>1. Base /\ OneDriver /\ StepInv /\ [Next]_vars => StepInv'
  BY StepsStep
<1>2. QED
  BY <1>1, StepsInit, BaseInvariant, OneDriverAlways, PTL DEF Safety

\* What the invariant says to the user.
LEMMA StepsSuffice == OneDriver /\ DeskInv /\ Base /\ StepInv => StepsFollowStatus
<1> SUFFICES ASSUME OneDriver, DeskInv, Base, StepInv, NEW t \in Tasks
             PROVE  /\ Cardinality(Open(t)) <= 1
                    /\ mem[t].status \in Terminal \cup {"absent"} => Open(t) = {}
                    /\ mem[t].status = "waiting_input" => ~OpenAs(t, "running")
                    /\ OpenAs(t, "waiting_approval") => mem[t].status = "waiting_approval"
                    /\ mem[t].status = "waiting_approval" /\ ~stopping => OpenAs(t, "waiting_approval")
  BY DEF StepsFollowStatus
<1>1. Open(t) = OpenIn(mem[t]) /\ Agrees(mem[t])
  BY DEF Open, OpenIn, StepInv
<1>2. Cardinality(Open(t)) <= 1
  <2>1. CASE Open(t) = {}
    BY <2>1, FS_EmptySet
  <2>2. CASE Open(t) # {}
    <3>1. PICK i : Open(t) = {i}
      BY <1>1, <2>2 DEF Agrees
    <3>2. QED
      BY <3>1, FS_Singleton
  <2>3. QED
    BY <2>1, <2>2
<1>3. ASSUME mem[t].status = "waiting_approval", ~stopping PROVE OpenAs(t, "waiting_approval")
  <2>1. PICK w \in Workers : key[w] = t /\ At(w, "waiting")
    BY <1>3 DEF DeskInv, Live
  <2>2. InStep(job[w], mem[t])
    BY <2>1 DEF At, Driving, StepInv
  <2>3. OpenIn(mem[t]) = {job[w].step} /\ mem[t].steps[job[w].step] = "waiting_approval"
    BY <1>3, <2>1, <2>2 DEF At, InStep, Within
  <2>4. QED
    BY <1>1, <2>3 DEF OpenAs
<1>4. QED
  BY <1>1, <1>2, <1>3 DEF Agrees, OpenAs

\* At most one step of a task is open, none when the task has ended, and the
\* open one waits for what the task waits for (RequireApproval, ResolveApproval,
\* PrepareInput and NewPersistentStore, task.go).
THEOREM StepsFollowStatusAlways == Safety => []StepsFollowStatus
BY StepsSuffice, StepsInvariant, BaseInvariant, OneDriverAlways, DeskInvariant, PTL

\* What a restart reads is as consistent as what the memory had: in every snapshot,
\* in memory and on disk, whatever was saved and whatever was not, at most one step
\* is open, none once the task has ended, and it waits for what the task waits for
\* (updateLocked and NewPersistentStore, task.go).
THEOREM SnapshotsAgree == Safety => [](\A t \in Tasks : Agrees(mem[t]) /\ Agrees(disk[t]))
<1>1. StepInv => \A t \in Tasks : Agrees(mem[t]) /\ Agrees(disk[t])
  BY DEF StepInv
<1>2. QED
  BY <1>1, StepsInvariant, PTL

-----------------------------------------------------------------------------
(* The disk. *)

\* A step leaves the store alone, makes one call of it, or restores it.
LEMMA StoreMoves ==
  ASSUME [Next]_vars
  PROVE  UNCHANGED store \/ (\E t, r : Update(t, r)) \/ Restart
<1>1. ASSUME NEW w \in Workers, WorkerStep(w) PROVE UNCHANGED store \/ \E t, r : Update(t, r)
  <2>1. CASE \/ PassGate(w) \/ EndChat(w) \/ BeginTurn(w) \/ Decide(w) \/ PlanFails(w)
             \/ InvokeFreely(w) \/ Register(w) \/ HearDecision(w) \/ Cancelled(w)
             \/ Unregister(w) \/ Release(w) \/ Exit(w)
    BY <2>1 DEF PassGate, EndChat, BeginTurn, Decide, PlanFails, InvokeFreely, Register,
                HearDecision, Cancelled, Unregister, Release, Exit
  <2>2. CASE RefuseTask(w) \/ UpdatePlan(w) \/ RequireApproval(w)
    BY <2>2, Zenon DEF RefuseTask, UpdatePlan, RequireApproval, Conclude, Require
  <2>3. CASE BeginStep(w) \/ NotifyStep(w) \/ Respond(w)
    BY <2>3, Zenon DEF BeginStep, NotifyStep, Respond, AppendStep, SetStep
  <2>4. CASE FailStep(w) \/ CompleteStep(w) \/ FinishResponseStep(w)
    BY <2>4, Zenon DEF FailStep, CompleteStep, FinishResponseStep, SetStep
  <2>5. CASE Finish(w)
    BY <2>5, Zenon DEF Finish, Conclude
  <2>6. QED
    BY <1>1, <2>1, <2>2, <2>3, <2>4, <2>5 DEF WorkerStep
<1>2. ASSUME NEW c \in Clients, NEW w \in Workers,
             PrepareInput(c, w) \/ \E t \in Tasks : Create(c, w, t)
      PROVE  UNCHANGED store \/ \E t, r : Update(t, r)
  BY <1>2, Zenon DEF PrepareInput, Create, Accept
<1>3. ASSUME NEW t \in Tasks, NEW d \in Decisions, ResolveApproval(t, d)
      PROVE  \E u, r : Update(u, r)
  BY <1>3, Zenon DEF ResolveApproval, Resolve
<1>4. CASE \/ \E w \in Workers, k \in Chats : StartChat(w, k)
           \/ \E c \in Clients : SubmitInteraction(c)
           \/ \E c \in Clients, t \in Tasks : Task(c, t) \/ LookUp(c, t)
           \/ \E a \in 1..MaxApprovals, d \in Decisions : SendDecision(a, d)
           \/ Stop \/ Rest \/ UNCHANGED vars
  BY <1>4 DEF StartChat, SubmitInteraction, Task, LookUp, SendDecision, Stop, Rest, vars, store
<1>5. QED
  BY <1>1, <1>2, <1>3, <1>4 DEF Next

\* Until a save fails, every save leaves the disk as the memory is.
LEMMA SavedStep == Base /\ Saved /\ [Next]_vars => Saved'
<1> SUFFICES ASSUME Base, Saved, [Next]_vars, fails' = 0 PROVE disk' = mem'
  BY DEF Saved
<1>1. StoreTypes
  BY TypesParts DEF Base
<1>2. CASE UNCHANGED store
  BY <1>2 DEF store, Saved
<1>3. ASSUME NEW t, NEW r, Update(t, r) PROVE disk' = mem'
  <2>1. disk' = [disk EXCEPT ![t] = r] /\ UNCHANGED fails
    BY <1>1, <1>3 DEF Update, persistLocked, StoreTypes
  <2>2. QED
    BY <1>3, <2>1 DEF Update, Saved
<1>4. CASE Restart
  <2>1. PICK lost \in SUBSET Tasks :
          /\ disk' = [t \in Tasks |-> IF t \in lost THEN disk[t] ELSE mem'[t]]
          /\ IF lost = {} THEN UNCHANGED fails
             ELSE fails < MaxPersistFails /\ fails' = fails + 1
    BY <1>4 DEF Restart
  <2>2. lost = {}
    BY <1>1, <2>1 DEF StoreTypes
  <2>3. disk' = [t \in Tasks |-> mem'[t]] /\ mem' = [t \in Tasks |-> Parked(disk[t])]
    BY <1>4, <2>1, <2>2 DEF Restart
  <2>4. QED
    BY <2>3
<1>5. QED
  BY <1>2, <1>3, <1>4, StoreMoves

\* The snapshots on disk are those in memory until a save fails.
LEMMA SavedInvariant == Safety => []Saved
<1>1. Init => Saved
  BY DEF Init, Saved
<1>2. QED
  BY <1>1, SavedStep, BaseInvariant, PTL DEF Safety

-----------------------------------------------------------------------------
(* The status of a task. *)

\* What one step can do to the status of one task.
StatusMove(before, after) ==
  \/ before \in {"absent", "waiting_input"} /\ after = "running"
  \/ before = "waiting_approval" /\ after = "running"
  \/ before \in Busy /\ after \in {"waiting_approval", "completed", "failed", "waiting_input"}

StatusMoves ==
  \/ \A t \in Tasks : mem'[t].status = mem[t].status
  \/ \E t \in Tasks : /\ StatusMove(mem[t].status, mem'[t].status)
                      /\ \A u \in Tasks \ {t} : mem'[u].status = mem[u].status
  \/ Restart

\* Every step does one of these.
LEMMA StatusStep == Base /\ OneDriver /\ [Next]_vars => StatusMoves
<1> SUFFICES ASSUME Base, OneDriver, [Next]_vars PROVE StatusMoves
  OBVIOUS
<1>1. StoreTypes /\ OtherTypes /\ Working
  BY TypesParts DEF Base, JobTypes
<1>2. ASSUME UNCHANGED mem PROVE StatusMoves
  BY <1>2 DEF StatusMoves
<1>3. ASSUME NEW t \in Tasks,
             \/ Update(t, mem[t]) \/ AppendStep(t) \/ \E i, x : SetStep(t, i, x)
      PROVE  StatusMoves
  <2>1. mem'[t].status = mem[t].status /\ \A u \in Tasks \ {t} : mem'[u] = mem[u]
    <3>1. CASE Update(t, mem[t])
      BY <1>1, <3>1 DEF Update, StoreTypes
    <3>2. CASE AppendStep(t)
      <4>1. mem'[t].status = mem[t].status
        BY <1>1, <3>2, StatusAfter
      <4>2. QED
        BY <1>1, <3>2, <4>1 DEF AppendStep, Update, StoreTypes
    <3>3. CASE \E i, x : SetStep(t, i, x)
      <4>1. mem'[t].status = mem[t].status
        BY <1>1, <3>3, StatusAfter
      <4>2. QED
        BY <1>1, <3>3, <4>1 DEF SetStep, Update, StoreTypes
    <3>4. QED
      BY <1>3, <3>1, <3>2, <3>3
  <2>2. QED
    BY <2>1 DEF StatusMoves
<1>4. ASSUME NEW w \in Workers, Driving(w),
             NEW x \in {"waiting_approval", "completed", "failed", "waiting_input"},
             \/ x = "waiting_approval" /\ \E a : Require(key[w], a)
             \/ \E f : Conclude(key[w], x, f)
      PROVE  StatusMoves
  <2> DEFINE t == key[w]
  <2>1. t \in Tasks /\ mem[t].status \in Busy
    BY <1>4, AloneWithTask DEF Driving
  <2>2. mem'[t].status = x
    BY <1>1, <1>4, <2>1, StatusAfter
  <2>3. \A u \in Tasks \ {t} : mem'[u] = mem[u]
    BY <1>1, <1>4, <2>1 DEF Require, Conclude, Update, StoreTypes
  <2>4. StatusMove(mem[t].status, mem'[t].status)
    BY <2>1, <2>2 DEF StatusMove
  <2>5. QED
    BY <2>1, <2>3, <2>4 DEF StatusMoves
<1>5. ASSUME NEW t \in Tasks,
             \/ mem[t].status \in {"absent", "waiting_input"} /\ Accept(t)
             \/ mem[t].status = "waiting_approval" /\ Resolve(t)
      PROVE  StatusMoves
  <2>1. mem'[t].status = "running"
    BY <1>1, <1>5, StatusAfter
  <2>2. \A u \in Tasks \ {t} : mem'[u] = mem[u]
    BY <1>1, <1>5 DEF Accept, Resolve, Update, StoreTypes
  <2>3. StatusMove(mem[t].status, mem'[t].status)
    BY <1>5, <2>1 DEF StatusMove
  <2>4. QED
    BY <2>2, <2>3 DEF StatusMoves
<1>6. ASSUME NEW w \in Workers,
             \/ UpdatePlan(w) \/ BeginStep(w) \/ NotifyStep(w) \/ FailStep(w)
             \/ CompleteStep(w) \/ Respond(w) \/ FinishResponseStep(w)
      PROVE  StatusMoves
  <2>1. key[w] \in Tasks
    <3>1. job[w].at \in Engaged
      BY <1>6 DEF UpdatePlan, BeginStep, NotifyStep, FailStep, CompleteStep, Respond,
                  FinishResponseStep, At, Engaged, Positions
    <3>2. QED
      BY <1>1, <3>1 DEF Working
  <2>2. \/ Update(key[w], mem[key[w]]) \/ AppendStep(key[w])
        \/ \E i, x : SetStep(key[w], i, x)
    BY <1>6, Zenon DEF UpdatePlan, BeginStep, NotifyStep, FailStep, CompleteStep, Respond,
                       FinishResponseStep
  <2>3. QED
    BY <1>3, <2>1, <2>2
<1>7. ASSUME NEW w \in Workers, RequireApproval(w) \/ RefuseTask(w) \/ Finish(w)
      PROVE  StatusMoves
  <2>1. Driving(w)
    <3>1. CASE RefuseTask(w)
      BY <3>1 DEF RefuseTask, At, Driving
    <3>2. CASE RequireApproval(w) \/ Finish(w)
      BY <1>1, <3>2, EngagedDrives DEF RequireApproval, Finish, At, Engaged, Positions
    <3>3. QED
      BY <1>7, <3>1, <3>2
  <2>2. \/ \E a : Require(key[w], a)
        \/ \E x \in {"completed", "failed", "waiting_input"} : \E f : Conclude(key[w], x, f)
    BY <1>7, Zenon DEF RequireApproval, RefuseTask, Finish
  <2>3. QED
    BY <1>4, <2>1, <2>2
<1>8. ASSUME NEW w \in Workers,
             \/ PassGate(w) \/ EndChat(w) \/ BeginTurn(w) \/ Decide(w) \/ PlanFails(w)
             \/ InvokeFreely(w) \/ Register(w) \/ HearDecision(w) \/ Cancelled(w)
             \/ Unregister(w) \/ Release(w) \/ Exit(w)
      PROVE  StatusMoves
  BY <1>2, <1>8 DEF PassGate, EndChat, BeginTurn, Decide, PlanFails, InvokeFreely, Register,
                    HearDecision, Cancelled, Unregister, Release, Exit, store
<1>9. ASSUME NEW c \in Clients, NEW w \in Workers, PrepareInput(c, w) PROVE StatusMoves
  <2>1. request[c].task \in Tasks
    BY <1>1, <1>9 DEF PrepareInput, OtherTypes, Requests, NoRequest
  <2>2. CASE mem[request[c].task].status = "waiting_input"
    BY <1>5, <1>9, <2>1, <2>2 DEF PrepareInput
  <2>3. CASE mem[request[c].task].status # "waiting_input"
    BY <1>2, <1>9, <2>3 DEF PrepareInput, store
  <2>4. QED
    BY <2>2, <2>3
<1>10. ASSUME NEW c \in Clients, NEW w \in Workers, NEW t \in Tasks, Create(c, w, t)
       PROVE  StatusMoves
  BY <1>5, <1>10 DEF Create
<1>11. ASSUME NEW t \in Tasks, NEW d \in Decisions, ResolveApproval(t, d) PROVE StatusMoves
  BY <1>5, <1>11 DEF ResolveApproval
<1>12. CASE Restart
  BY <1>12 DEF StatusMoves
<1>13. CASE \/ \E w \in Workers, k \in Chats : StartChat(w, k)
            \/ \E c \in Clients : SubmitInteraction(c)
            \/ \E c \in Clients, t \in Tasks : Task(c, t) \/ LookUp(c, t)
            \/ \E a \in 1..MaxApprovals, d \in Decisions : SendDecision(a, d)
            \/ Stop \/ Rest \/ UNCHANGED vars
  BY <1>2, <1>13 DEF StartChat, SubmitInteraction, Task, LookUp, SendDecision, Stop, Rest, vars, store
<1>14. QED
  BY <1>6, <1>7, <1>8, <1>9, <1>10, <1>11, <1>12, <1>13 DEF Next, WorkerStep

\* What a restart does to the status of a task.
LEMMA StatusParked ==
  ASSUME NEW s \in Snapshots
  PROVE  Parked(s).status = IF s.status \in Busy THEN "waiting_input" ELSE s.status
BY DEF Parked, Snapshots, Busy

\* A task that has ended stays ended; only a restart after a save that failed
\* can bring it back (Finish and NewPersistentStore, task.go).
THEOREM TerminalStays == Safety => TerminalIsFinal
<1> DEFINE A == \A t \in Tasks : mem[t].status \in Terminal =>
                  \/ mem'[t].status = mem[t].status
                  \/ restarts' # restarts /\ fails > 0
<1>1. Base /\ OneDriver /\ Saved /\ [Next]_vars => A
  <2> SUFFICES ASSUME Base, OneDriver, Saved, [Next]_vars,
                      NEW t \in Tasks, mem[t].status \in Terminal
               PROVE  \/ mem'[t].status = mem[t].status
                      \/ restarts' # restarts /\ fails > 0
    OBVIOUS
  <2>1. StoreTypes /\ restarts \in Nat
    BY TypesParts DEF Base, OtherTypes
  <2>2. CASE Restart
    <3>1. restarts' # restarts
      BY <2>1, <2>2 DEF Restart
    <3>2. CASE fails = 0
      <4>1. mem'[t] = Parked(mem[t])
        BY <2>2, <3>2 DEF Restart, Saved
      <4>2. QED
        BY <2>1, <4>1, StatusParked DEF StoreTypes, Busy, Terminal
    <3>3. QED
      BY <2>1, <3>1, <3>2 DEF StoreTypes
  <2>3. CASE ~Restart
    BY <2>3, StatusStep DEF StatusMoves, StatusMove, Terminal, Busy
  <2>4. QED
    BY <2>2, <2>3
<1>2. QED
  BY <1>1, BaseInvariant, OneDriverAlways, SavedInvariant, PTL DEF Safety, TerminalIsFinal

-----------------------------------------------------------------------------
(* The contract of a task. *)

Status == [t \in Tasks |-> mem[t].status]
EngagedTasks == {t \in Tasks : Drivers(t) # {}}

\* A task is engaged exactly while it is under way.
LEMMA EngagedUnderWay ==
  OneDriver => EngagedTasks = {t \in Tasks : Status[t] \in Busy}
BY DEF OneDriver, EngagedTasks, Status, UnderWay, Busy

\* Every step of the runtime, while no save has failed, is one of the contract.
LEMMA ContractStep ==
  ASSUME Base, OneDriver, OneDriver', Saved, [Next]_vars, fails = 0 \/ restarts' = restarts
  PROVE  [Contract!CNext]_(Contract!cvars)
<1>1. /\ EngagedTasks = {t \in Tasks : Status[t] \in Busy}
      /\ EngagedTasks' = {t \in Tasks : Status'[t] \in Busy}
  BY EngagedUnderWay, Zenon DEF OneDriver, EngagedTasks, Status, UnderWay, Busy
<1>2. /\ Status = [t \in Tasks |-> mem[t].status]
      /\ Status' = [t \in Tasks |-> mem'[t].status]
  BY DEF Status
<1>3. StoreTypes
  BY TypesParts DEF Base
<1>4. /\ Contract!cvars = <<Status, EngagedTasks>>
      /\ Contract!cvars' = <<Status', EngagedTasks'>>
  BY DEF Contract!cvars, Status, EngagedTasks
<1>5. ASSUME NEW t \in Tasks, NEW x, Status' = [Status EXCEPT ![t] = x]
      PROVE  /\ x = "running" /\ t \notin EngagedTasks /\ Status[t] \in {"absent", "waiting_input"}
                  /\ EngagedTasks' = EngagedTasks \cup {t} => Contract!Start(t)
             /\ x = "waiting_approval" /\ t \in EngagedTasks /\ Status[t] = "running"
                  /\ EngagedTasks' = EngagedTasks => Contract!Ask(t)
             /\ x = "running" /\ t \in EngagedTasks /\ Status[t] = "waiting_approval"
                  /\ EngagedTasks' = EngagedTasks => Contract!Decide(t)
             /\ t \in EngagedTasks /\ EngagedTasks' = EngagedTasks \ {t} => Contract!Conclude(t, x)
  BY <1>5 DEF Contract!Start, Contract!Ask, Contract!Decide, Contract!Conclude, Contract!Set,
              Status, EngagedTasks
<1>6. ASSUME \A t \in Tasks : mem'[t].status = mem[t].status
      PROVE  UNCHANGED Contract!cvars
  BY <1>1, <1>2, <1>4, <1>6
<1>7. ASSUME NEW t \in Tasks, StatusMove(mem[t].status, mem'[t].status),
             \A u \in Tasks \ {t} : mem'[u].status = mem[u].status
      PROVE  Contract!CNext \/ UNCHANGED Contract!cvars
  <2> DEFINE x == mem'[t].status
  <2>1. Status' = [Status EXCEPT ![t] = x] /\ Status'[t] = x /\ Status[t] = mem[t].status
    BY <1>2, <1>7
  <2>2. \A u \in Tasks \ {t} : u \in EngagedTasks' <=> u \in EngagedTasks
    BY <1>1, <1>2, <1>7
  <2>3. (t \in EngagedTasks <=> Status[t] \in Busy) /\ (t \in EngagedTasks' <=> x \in Busy)
    BY <1>1, <2>1
  <2>4. EngagedTasks \subseteq Tasks /\ EngagedTasks' \subseteq Tasks
    BY <1>1
  <2>5. StatusMove(Status[t], x)
    BY <1>7, <2>1
  <2> HIDE DEF x
  <2>6. CASE Status[t] \in {"absent", "waiting_input"} /\ x = "running"
    <3>1. t \notin EngagedTasks /\ EngagedTasks' = EngagedTasks \cup {t}
      BY <2>2, <2>3, <2>4, <2>6 DEF Busy
    <3>2. QED
      BY <1>5, <2>1, <2>6, <3>1 DEF Contract!CNext
  <2>7. CASE Status[t] = "waiting_approval" /\ x = "running"
    <3>1. t \in EngagedTasks /\ EngagedTasks' = EngagedTasks
      BY <2>2, <2>3, <2>4, <2>7 DEF Busy
    <3>2. QED
      BY <1>5, <2>1, <2>7, <3>1 DEF Contract!CNext
  <2>8. CASE Status[t] = "running" /\ x = "waiting_approval"
    <3>1. t \in EngagedTasks /\ EngagedTasks' = EngagedTasks
      BY <2>2, <2>3, <2>4, <2>8 DEF Busy
    <3>2. QED
      BY <1>5, <2>1, <2>8, <3>1 DEF Contract!CNext
  <2>9. CASE Status[t] = "waiting_approval" /\ x = "waiting_approval"
    <3>1. \A u \in Tasks : mem'[u].status = mem[u].status
      BY <1>7, <2>1, <2>9 DEF x
    <3>2. QED
      BY <1>6, <3>1
  <2>10. CASE Status[t] \in Busy /\ x \in {"completed", "failed", "waiting_input"}
    <3>1. t \in EngagedTasks /\ EngagedTasks' = EngagedTasks \ {t}
      BY <2>2, <2>3, <2>4, <2>10 DEF Busy
    <3>2. Contract!Conclude(t, x)
      BY <1>5, <2>1, <3>1
    <3>3. QED
      BY <2>10, <3>2 DEF Contract!CNext
  <2>11. QED
    BY <2>5, <2>6, <2>7, <2>8, <2>9, <2>10 DEF StatusMove, Busy
<1>8. CASE Restart
  <2>0. fails = 0
    <3>1. restarts \in Nat /\ restarts' = restarts + 1
      BY <1>8, TypesParts DEF Base, Restart, OtherTypes
    <3>2. QED
      BY <3>1
  <2>1. \A t \in Tasks : mem'[t] = Parked(mem[t]) /\ mem[t] \in Snapshots
    BY <1>3, <1>8, <2>0 DEF Restart, Saved, StoreTypes
  <2>2. \A t \in Tasks : mem'[t].status = IF mem[t].status \in Busy THEN "waiting_input"
                                          ELSE mem[t].status
    BY <2>1, StatusParked
  <2>3. Status' = [t \in Tasks |-> IF t \in EngagedTasks THEN "waiting_input" ELSE Status[t]]
    BY <1>1, <1>2, <2>2
  <2>4. EngagedTasks' = {}
    BY <1>1, <1>2, <2>2 DEF Busy
  <2>5. Contract!Crash
    BY <2>3, <2>4 DEF Contract!Crash, Status, EngagedTasks
  <2>6. QED
    BY <2>5 DEF Contract!CNext
<1>9. QED
  BY <1>6, <1>7, <1>8, StatusStep DEF StatusMoves

\* At first no task exists and none is engaged.
LEMMA ContractInit == Init => Contract!CInit
<1> SUFFICES ASSUME Init PROVE Contract!CInit
  OBVIOUS
<1>1. [t \in Tasks |-> mem[t].status] = [t \in Tasks |-> "absent"]
  BY DEF Init, NewSnapshot
<1>2. {t \in Tasks : Drivers(t) # {}} = {}
  BY DEF Init, Drivers, Idle
<1>3. QED
  BY <1>1, <1>2 DEF Contract!CInit

\* With saves that fail too, every step of a process is a step of TaskContract: only
\* the restart after a failed save can show the user an older status of a task.
THEOREM ProcessKeepsTaskContract ==
  Safety => [][fails = 0 \/ restarts' = restarts => [Contract!CNext]_(Contract!cvars)]_vars
<1>1. Base /\ OneDriver /\ OneDriver' /\ Saved /\ [Next]_vars
        => (fails = 0 \/ restarts' = restarts => [Contract!CNext]_(Contract!cvars))
  BY ContractStep
<1>2. QED
  BY <1>1, BaseInvariant, OneDriverAlways, SavedInvariant, PTL DEF Safety

\* While no save fails, the user sees of a task what TaskContract promises: one
\* execution at a time, final ends, and after a crash only tasks that wait.
THEOREM RuntimeImplementsTaskContract == Safety /\ [](fails = 0) => ImplementsTaskContract
<1>1. Base /\ OneDriver /\ OneDriver' /\ Saved /\ [Next]_vars /\ fails = 0
        => [Contract!CNext]_(Contract!cvars)
  BY ContractStep
<1>2. QED
  BY <1>1, ContractInit, BaseInvariant, OneDriverAlways, SavedInvariant, PTL
     DEF Safety, ImplementsTaskContract, Contract!CSpec

-----------------------------------------------------------------------------
(* The contract of the gate. *)

\* Within a process the turns of tasks and of conversations are admitted and refused
\* as GateContract has it: the runtime's way of ending a turn opens no other way
\* through the gate (tryAcquire and the deferred release in runTask and RunTurn).
THEOREM ProcessKeepsGateContract ==
  Safety => [][restarts' = restarts => [GateProof!Contract!CNext]_(GateProof!Contract!cvars)]_vars
<1>1. Base /\ [Next]_vars /\ restarts' = restarts => [GateProof!GateNext]_(GateProof!gvars)
  <2> SUFFICES ASSUME Base, [Next]_vars, restarts' = restarts
               PROVE  GateProof!GateNext \/ UNCHANGED GateProof!gvars
    OBVIOUS
  <2>1. request \in [Clients -> {NoRequest} \cup Requests] /\ restarts \in Nat
    BY TypesParts DEF Base, OtherTypes
  <2>2. ~Restart
    BY <2>1 DEF Restart
  <2>3. UNCHANGED vars => UNCHANGED GateProof!gvars
    BY DEF vars, gvars, GateProof!gvars
  <2>4. QED
    BY <2>1, <2>2, <2>3, GateMoves
<1>2. Base => GateProof!GateInv
  BY DEF Base
<1>3. GateProof!GateInv /\ [GateProof!GateNext]_(GateProof!gvars)
        => [GateProof!Contract!CNext]_(GateProof!Contract!cvars)
  BY GateAssumed, GateProof!ContractStep
<1>4. Base /\ [Next]_vars => (restarts' = restarts => [GateProof!Contract!CNext]_(GateProof!Contract!cvars))
  BY <1>1, <1>2, <1>3
<1>5. QED
  BY <1>4, BaseInvariant, PTL DEF Safety

-----------------------------------------------------------------------------
(* The contract of the loop. *)

\* A goroutine enters the loop afresh, and leaves it with an end.
LoopFits ==
  \A w \in Workers :
    /\ job[w].at \in {"idle", "starting"} => job[w].acts = 0 /\ job[w].out = "none"
    /\ job[w].at \in {"responding", "replied", "settled"} => job[w].out # "none"

\* What a goroutine's own step is to the contract, and what it leaves.
LoopMove(w) ==
  /\ Loop(w)!CNext \/ UNCHANGED Loop(w)!cvars
  /\ job'[w].at \in {"idle", "starting"} => job'[w].acts = 0 /\ job'[w].out = "none"
  /\ job'[w].at \in {"responding", "replied", "settled"} => job'[w].out # "none"

\* A goroutine that stays where it is, or goes where the contract sees no change.
LEMMA LoopStays ==
  ASSUME LoopFits, NEW w \in Workers,
         job'[w].acts = job[w].acts, job'[w].out = job[w].out,
         \/ job'[w].at = job[w].at
         \/ job[w].at = "idle" /\ job'[w].at = "starting"
         \/ job[w].at \in {"starting", "settled"} /\ job'[w].at = "finished"
         \/ {job[w].at, job'[w].at} \subseteq
              {"begun", "acting", "asking", "waiting", "cancelled", "failing", "invoking"}
  PROVE  LoopMove(w)
<1>1. LoopPhase(w)' = LoopPhase(w)
  BY DEF LoopFits, LoopPhase
<1>2. UNCHANGED Loop(w)!cvars
  BY <1>1 DEF Loop!cvars
<1>3. QED
  BY <1>2 DEF LoopMove, LoopFits

\* A goroutine that ends, or dies.
LEMMA LoopLeft ==
  ASSUME NEW w \in Workers, job'[w] = Idle PROVE LoopMove(w)
BY DEF LoopMove, Idle, Loop!CNext, Loop!Leave, LoopPhase

\* A goroutine between its actions.
LEMMA LoopPlans ==
  ASSUME job \in [Workers -> Jobs], LoopFits, NEW w \in Workers,
         BeginTurn(w) \/ BeginStep(w) \/ Decide(w) \/ PlanFails(w)
  PROVE  LoopMove(w)
<1>1. job[w] \in Jobs /\ DOMAIN job = Workers
  OBVIOUS
<1>2. CASE BeginTurn(w)
  <2>1. job[w].at = "starting" /\ job'[w] = [job[w] EXCEPT !.at = "planning"]
    BY <1>2 DEF BeginTurn, Goto, At
  <2>2. job'[w].at = "planning" /\ job'[w].acts = job[w].acts /\ job'[w].out = job[w].out
    BY <1>1, <2>1 DEF Jobs
  <2>3. QED
    BY <2>1, <2>2 DEF LoopMove, Loop!CNext, Loop!Enter, LoopPhase
<1>3. CASE BeginStep(w)
  <2>1. /\ job[w].at = "planning" /\ job[w].acts < MaxActions
        /\ job'[w] = [job[w] EXCEPT !.at = "begun", !.acts = @ + 1,
                                    !.step = Len(mem[key[w]].steps) + 1, !.approval = NoApproval]
    BY <1>3 DEF BeginStep, At
  <2>2. job'[w].at = "begun" /\ job'[w].acts = job[w].acts + 1 /\ job'[w].out = job[w].out
    BY <1>1, <2>1 DEF Jobs
  <2>3. QED
    BY <2>1, <2>2 DEF LoopMove, Loop!CNext, Loop!Act, LoopPhase
<1>4. CASE Decide(w)
  <2>1. PICK o \in {"answer", "clarify", "blocked"} :
          Reply(w, o) /\ (job[w].acts = MaxActions => o = "blocked")
    BY <1>4, Zenon DEF Decide
  <2>2. job[w].at = "planning" /\ job'[w] = [job[w] EXCEPT !.at = "responding", !.out = o]
    BY <1>4, <2>1 DEF Decide, Reply, At
  <2>3. job'[w].at = "responding" /\ job'[w].acts = job[w].acts /\ job'[w].out = o
    BY <1>1, <2>2 DEF Jobs
  <2>4. QED
    BY <2>1, <2>2, <2>3 DEF LoopMove, Loop!CNext, Loop!EndTurn, Loop!Ends, Loop!Conclude, LoopPhase
<1>5. CASE PlanFails(w)
  <2>1. /\ job[w].at = "planning" /\ job[w].acts < MaxActions
        /\ job'[w] = [job[w] EXCEPT !.at = "settled", !.out = "error"]
    BY <1>5 DEF PlanFails, At
  <2>2. job'[w].at = "settled" /\ job'[w].acts = job[w].acts /\ job'[w].out = "error"
    BY <1>1, <2>1 DEF Jobs
  <2>3. QED
    BY <2>1, <2>2 DEF LoopMove, Loop!CNext, Loop!PlanFails, LoopPhase
<1>6. QED
  BY <1>2, <1>3, <1>4, <1>5

\* A goroutine in an action, from its call to its assessment.
LEMMA LoopActs ==
  ASSUME job \in [Workers -> Jobs], LoopFits, NEW w \in Workers,
         \/ NotifyStep(w) \/ InvokeFreely(w) \/ Register(w) \/ RequireApproval(w)
         \/ HearDecision(w) \/ Cancelled(w) \/ Unregister(w) \/ FailStep(w) \/ CompleteStep(w)
  PROVE  LoopMove(w)
<1> DEFINE Action == {"begun", "acting", "asking", "waiting", "cancelled", "failing", "invoking"}
<1>1. job[w] \in Jobs /\ DOMAIN job = Workers /\ job[w].at \in Action
  BY DEF NotifyStep, InvokeFreely, Register, RequireApproval, HearDecision, Cancelled,
         Unregister, FailStep, CompleteStep, At
<1>2. CASE \/ NotifyStep(w) \/ InvokeFreely(w) \/ Register(w) \/ RequireApproval(w)
           \/ HearDecision(w) \/ Cancelled(w) \/ Unregister(w)
  <2>1. PICK p \in Action, a \in {asked + 1} :
          \/ job'[w] = [job[w] EXCEPT !.at = p]
          \/ job'[w] = [job[w] EXCEPT !.at = p, !.approval = a]
    BY <1>1, <1>2 DEF NotifyStep, InvokeFreely, Register, RequireApproval, HearDecision,
                      Cancelled, Unregister, Goto
  <2>2. job'[w].at = p /\ job'[w].acts = job[w].acts /\ job'[w].out = job[w].out
    BY <1>1, <2>1 DEF Jobs
  <2>3. {job[w].at, job'[w].at} \subseteq Action
    BY <1>1, <2>2
  <2>4. QED
    BY <2>2, <2>3, LoopStays
<1>3. CASE FailStep(w) \/ CompleteStep(w)
  <2>1. \/ job'[w] = [job[w] EXCEPT !.at = "planning"]
        \/ \E o \in {"answer", "blocked"} :
             job'[w] = [job[w] EXCEPT !.at = "responding", !.out = o]
    BY <1>1, <1>3 DEF FailStep, CompleteStep, Goto, Reply
  <2>2. /\ job'[w].acts = job[w].acts
        /\ \/ job'[w].at = "planning" /\ job'[w].out = job[w].out
           \/ job'[w].at = "responding" /\ job'[w].out \in {"answer", "blocked"}
    BY <1>1, <2>1 DEF Jobs
  <2>3. QED
    BY <1>1, <2>2 DEF LoopMove, Loop!CNext, Loop!Assess, Loop!Conclude, LoopPhase
<1>4. QED
  BY <1>2, <1>3

\* A goroutine that responds.
LEMMA LoopResponds ==
  ASSUME job \in [Workers -> Jobs], LoopFits, NEW w \in Workers,
         Respond(w) \/ FinishResponseStep(w)
  PROVE  LoopMove(w)
<1>1. job[w] \in Jobs /\ DOMAIN job = Workers
  OBVIOUS
<1>2. CASE Respond(w)
  <2>1. PICK o \in {job[w].out, "error"} :
          /\ job[w].at = "responding"
          /\ job'[w] = [job[w] EXCEPT !.at = "replied", !.out = o,
                                      !.step = Len(mem[key[w]].steps) + 1]
    BY <1>2 DEF Respond, At
  <2>2. job'[w].at = "replied" /\ job'[w].acts = job[w].acts /\ job'[w].out = o
    BY <1>1, <2>1 DEF Jobs
  <2>3. o # "none"
    BY <2>1 DEF LoopFits
  <2>4. QED
    BY <2>1, <2>2, <2>3 DEF LoopMove, Loop!CNext, Loop!Respond, LoopPhase
<1>3. CASE FinishResponseStep(w)
  <2>1. job[w].at = "replied" /\ job'[w] = [job[w] EXCEPT !.at = "settled"]
    BY <1>3 DEF FinishResponseStep, Goto, At
  <2>2. job'[w].at = "settled" /\ job'[w].acts = job[w].acts /\ job'[w].out = job[w].out
    BY <1>1, <2>1 DEF Jobs
  <2>3. QED
    BY <2>1, <2>2 DEF LoopMove, LoopFits, Loop!CNext, Loop!Close, LoopPhase
<1>4. QED
  BY <1>2, <1>3

\* A goroutine around its turn.
LEMMA LoopOutside ==
  ASSUME job \in [Workers -> Jobs], LoopFits, NEW w \in Workers,
         \/ EndChat(w) \/ RefuseTask(w) \/ Finish(w) \/ Exit(w) \/ \E k : Spawn(w, k)
  PROVE  LoopMove(w)
<1>1. job[w] \in Jobs /\ DOMAIN job = Workers
  OBVIOUS
<1>2. CASE Exit(w)
  BY <1>1, <1>2, LoopLeft DEF Exit
<1>3. CASE \/ EndChat(w) \/ RefuseTask(w) \/ Finish(w) \/ \E k : Spawn(w, k)
  <2>1. \/ job[w].at = "idle" /\ job'[w] = [job[w] EXCEPT !.at = "starting"]
        \/ job[w].at \in {"starting", "settled"} /\ job'[w] = [job[w] EXCEPT !.at = "finished"]
    BY <1>1, <1>3 DEF EndChat, RefuseTask, Finish, Spawn, Goto, At
  <2>2. /\ job'[w].acts = job[w].acts /\ job'[w].out = job[w].out
        /\ \/ job[w].at = "idle" /\ job'[w].at = "starting"
           \/ job[w].at \in {"starting", "settled"} /\ job'[w].at = "finished"
    BY <1>1, <2>1 DEF Jobs
  <2>3. QED
    BY <2>2, LoopStays
<1>4. QED
  BY <1>2, <1>3

\* The steps of one goroutine leave every other one where it is.
LEMMA JobOfOne ==
  ASSUME job \in [Workers -> Jobs], [Next]_vars
  PROVE  \/ Restart
         \/ \E w \in Workers : /\ \A v \in Workers \ {w} : job'[v] = job[v]
                               /\ WorkerStep(w) \/ \E k : Spawn(w, k)
         \/ UNCHANGED job
<1>1. ASSUME NEW w \in Workers, WorkerStep(w)
      PROVE  \A v \in Workers \ {w} : job'[v] = job[v]
  <2>1. CASE \/ PassGate(w) \/ EndChat(w) \/ RefuseTask(w) \/ BeginTurn(w) \/ UpdatePlan(w)
             \/ BeginStep(w) \/ NotifyStep(w) \/ Decide(w) \/ PlanFails(w)
    BY <2>1 DEF PassGate, EndChat, RefuseTask, BeginTurn, UpdatePlan, BeginStep, NotifyStep,
                Decide, PlanFails, Goto, Reply
  <2>2. CASE \/ InvokeFreely(w) \/ Register(w) \/ RequireApproval(w)
             \/ HearDecision(w) \/ Cancelled(w) \/ Unregister(w)
    BY <2>2 DEF InvokeFreely, Register, RequireApproval, HearDecision, Cancelled, Unregister, Goto
  <2>3. CASE \/ FailStep(w) \/ CompleteStep(w) \/ Respond(w) \/ FinishResponseStep(w)
             \/ Finish(w) \/ Release(w) \/ Exit(w)
    BY <2>3 DEF FailStep, CompleteStep, Respond, FinishResponseStep, Finish, Release, Exit,
                Goto, Reply
  <2>4. QED
    BY <1>1, <2>1, <2>2, <2>3 DEF WorkerStep
<1>2. ASSUME NEW w \in Workers, NEW k, Spawn(w, k)
      PROVE  \A v \in Workers \ {w} : job'[v] = job[v]
  BY <1>2 DEF Spawn, Goto
<1>3. ASSUME NEW w \in Workers, NEW k \in Chats, StartChat(w, k) PROVE Spawn(w, k)
  BY <1>3 DEF StartChat
<1>4. ASSUME NEW c \in Clients, NEW w \in Workers,
             PrepareInput(c, w) \/ \E t \in Tasks : Create(c, w, t)
      PROVE  UNCHANGED job \/ \E k : Spawn(w, k)
  BY <1>4 DEF PrepareInput, Create
<1>5. CASE \/ \E c \in Clients : SubmitInteraction(c)
           \/ \E c \in Clients, t \in Tasks : Task(c, t) \/ LookUp(c, t)
           \/ \E t \in Tasks, d \in Decisions : ResolveApproval(t, d)
           \/ \E a \in 1..MaxApprovals, d \in Decisions : SendDecision(a, d)
           \/ Stop \/ Rest \/ UNCHANGED vars
  BY <1>5 DEF SubmitInteraction, Task, LookUp, ResolveApproval, SendDecision, Stop, Rest, vars
<1>6. QED
  BY <1>1, <1>2, <1>3, <1>4, <1>5 DEF Next

\* Every step of the runtime is a step of the loop, or none, for every goroutine.
LEMMA LoopRuns ==
  Base /\ LoopFits /\ [Next]_vars => \A w \in Workers : LoopMove(w)
<1> SUFFICES ASSUME Base, LoopFits, [Next]_vars, NEW v \in Workers PROVE LoopMove(v)
  OBVIOUS
<1>1. job \in [Workers -> Jobs]
  BY TypesParts DEF Base, JobTypes
<1>2. ASSUME job'[v] = job[v] PROVE LoopMove(v)
  BY <1>2, LoopStays
<1>3. CASE Restart
  BY <1>3, LoopLeft DEF Restart
<1>4. ASSUME WorkerStep(v) \/ \E k : Spawn(v, k) PROVE LoopMove(v)
  <2>1. CASE PassGate(v) \/ UpdatePlan(v) \/ Release(v)
    BY <1>2, <2>1 DEF PassGate, UpdatePlan, Release
  <2>2. QED
    BY <1>1, <1>4, <2>1, LoopPlans, LoopActs, LoopResponds, LoopOutside DEF WorkerStep
<1>5. QED
  BY <1>1, <1>2, <1>3, <1>4, JobOfOne

\* Every goroutine does with its task what the agent loop does, and no more: both
\* implement LoopContract (RunTurn and runTask, runtime.go; Run, loop.go).
THEOREM RuntimeRunsTheLoop == Safety => RunsTheLoop
<1>1. Init => LoopFits
  BY DEF Init, LoopFits, Idle
<1>2. Base /\ LoopFits /\ [Next]_vars => LoopFits'
  BY LoopRuns DEF LoopFits, LoopMove
<1>3. Base /\ LoopFits /\ [Next]_vars
        => [\A w \in Workers : Loop(w)!CNext \/ UNCHANGED Loop(w)!cvars]_vars
  BY LoopRuns DEF LoopMove
<1>4. QED
  BY <1>1, <1>2, <1>3, BaseInvariant, PTL DEF Safety, RunsTheLoop

\* The steps of the contract that a goroutine can still take in its turn.
LoopToGo(w) ==
  2 * (MaxActions - job[w].acts) + CASE LoopPhase(w) \in {"out", "acting"} -> 4
                                     [] LoopPhase(w) = "planning" -> 3
                                     [] LoopPhase(w) = "responding" -> 2
                                     [] LoopPhase(w) = "replied" -> 1
                                     [] OTHER -> 0

\* A step of the contract keeps the limit on actions and brings the turn nearer to
\* its end.
LEMMA ContractShortens ==
  ASSUME NEW w \in Workers, job[w].acts \in Nat, job'[w].acts \in Nat, job[w].acts <= MaxActions, Loop(w)!CNext
  PROVE  /\ job'[w].acts <= MaxActions
         /\ LoopPhase(w)' = "out" \/ (LoopToGo(w)' \in Nat /\ LoopToGo(w)' < LoopToGo(w))
<1> DEFINE p == LoopPhase(w)
           q == LoopPhase(w)'
           a == job[w].acts
           b == job'[w].acts
<1>1. MaxActions \in Nat /\ a \in Nat /\ b \in Nat /\ a <= MaxActions
  BY RuntimeAssumption
<1>2. \/ p = "out" /\ q = "planning" /\ b = a
      \/ p = "planning" /\ q = "acting" /\ a < MaxActions /\ b = a + 1
      \/ p = "planning" /\ q = "responding" /\ b = a
      \/ p = "acting" /\ q \in {"planning", "responding"} /\ b = a
      \/ p = "responding" /\ q = "replied" /\ b = a
      \/ p = "replied" /\ q = "over" /\ b = a
      \/ p = "planning" /\ q = "over" /\ b = a
      \/ q = "out" /\ b = 0
  <2>1. CASE Loop(w)!Enter
    BY <2>1 DEF Loop!Enter
  <2>2. CASE Loop(w)!Act
    BY <2>2 DEF Loop!Act
  <2>3. CASE Loop(w)!EndTurn
    BY <2>3 DEF Loop!EndTurn, Loop!Conclude
  <2>4. CASE Loop(w)!Assess
    BY <2>4 DEF Loop!Assess, Loop!Conclude
  <2>5. CASE Loop(w)!Respond
    BY <2>5 DEF Loop!Respond
  <2>6. CASE Loop(w)!Close
    BY <2>6 DEF Loop!Close
  <2>7. CASE Loop(w)!PlanFails
    BY <2>7 DEF Loop!PlanFails
  <2>8. CASE Loop(w)!Leave
    BY <2>8 DEF Loop!Leave
  <2>9. QED
    BY <2>1, <2>2, <2>3, <2>4, <2>5, <2>6, <2>7, <2>8 DEF Loop!CNext
<1> DEFINE Rank(x, n) == 2 * (MaxActions - n) + CASE x \in {"out", "acting"} -> 4
                                                  [] x = "planning" -> 3
                                                  [] x = "responding" -> 2
                                                  [] x = "replied" -> 1
                                                  [] OTHER -> 0
<1>3. LoopToGo(w) = Rank(p, a) /\ LoopToGo(w)' = Rank(q, b)
  BY DEF LoopToGo
<1> HIDE DEF p, q, a, b
<1>4. b <= MaxActions /\ (q = "out" \/ (Rank(q, b) \in Nat /\ Rank(q, b) < Rank(p, a)))
  BY <1>1, <1>2
<1>5. QED
  BY <1>3, <1>4 DEF q, b

\* No goroutine takes more than MaxActions actions in a turn.
ActsLimited == \A w \in Workers : job[w].acts <= MaxActions

\* The turn of a goroutine has an end: what it does in the turn brings it nearer to
\* it, unless it leaves the turn, and nothing another goroutine does takes it back.
\* So a turn that does not end stands still, at a call or at an approval (RunEnds;
\* Run, loop.go and runTask, runtime.go).
THEOREM GoroutinesGetDone ==
  Safety => [][\A w \in Workers : \/ UNCHANGED Loop(w)!cvars
                                  \/ LoopPhase(w)' = "out"
                                  \/ LoopToGo(w)' \in Nat /\ LoopToGo(w)' < LoopToGo(w)]_vars
<1>1. Init => LoopFits /\ ActsLimited
  BY RuntimeAssumption DEF Init, LoopFits, ActsLimited, Idle
<1>2. Base => \A w \in Workers : job[w].acts \in Nat
  BY TypesParts DEF Base, JobTypes, Jobs
<1>3. Base' => \A w \in Workers : job'[w].acts \in Nat
  BY TypesPartsNext DEF Base, JobTypes, Jobs
<1>4. Base /\ LoopFits /\ [Next]_vars => LoopFits'
  BY LoopRuns DEF LoopFits, LoopMove
<1>5. Base /\ Base' /\ LoopFits /\ ActsLimited /\ [Next]_vars
        => \A w \in Workers : /\ job'[w].acts <= MaxActions
                              /\ \/ UNCHANGED Loop(w)!cvars
                                 \/ LoopPhase(w)' = "out"
                                 \/ LoopToGo(w)' \in Nat /\ LoopToGo(w)' < LoopToGo(w)
  <2>1. SUFFICES ASSUME Base, Base', LoopFits, ActsLimited, [Next]_vars, NEW w \in Workers
                 PROVE  /\ job'[w].acts <= MaxActions
                        /\ \/ UNCHANGED Loop(w)!cvars
                           \/ LoopPhase(w)' = "out"
                           \/ LoopToGo(w)' \in Nat /\ LoopToGo(w)' < LoopToGo(w)
    OBVIOUS
  <2>2. Loop(w)!CNext \/ UNCHANGED Loop(w)!cvars
    BY <2>1, LoopRuns DEF LoopMove
  <2>3. job[w].acts \in Nat /\ job'[w].acts \in Nat /\ job[w].acts <= MaxActions
    BY <1>2, <1>3, <2>1 DEF ActsLimited
  <2>4. CASE Loop(w)!CNext
    BY <2>3, <2>4, ContractShortens
  <2>5. CASE UNCHANGED Loop(w)!cvars
    <3>1. job'[w].acts = job[w].acts
      BY <2>5 DEF Loop!cvars
    <3>2. QED
      BY <2>3, <2>5, <3>1
  <2>6. QED
    BY <2>2, <2>4, <2>5
<1>6. Base /\ Base' /\ LoopFits /\ ActsLimited /\ [Next]_vars => ActsLimited'
  BY <1>5 DEF ActsLimited
<1>7. Base /\ Base' /\ LoopFits /\ ActsLimited /\ [Next]_vars
        => [\A w \in Workers : \/ UNCHANGED Loop(w)!cvars
                               \/ LoopPhase(w)' = "out"
                               \/ LoopToGo(w)' \in Nat /\ LoopToGo(w)' < LoopToGo(w)]_vars
  BY <1>5
<1>8. QED
  BY <1>1, <1>4, <1>6, <1>7, BaseInvariant, PTL DEF Safety

-----------------------------------------------------------------------------
(* The approvals and the gate. *)

\* A task that waits for an approval keeps its slot of the gate: when as many wait
\* as there are slots, every other turn is refused until one is decided
\* (the wait at runtime.go:307, in the turn that runTask acquired at :277).
THEOREM WaitingTakesSlots ==
  Safety => [](Cardinality({w \in Workers : At(w, "waiting")}) <= slots)
<1>1. ASSUME Base PROVE Cardinality({w \in Workers : At(w, "waiting")}) <= slots
  <2> DEFINE Waiting == {w \in Workers : At(w, "waiting")}
             Inside == {w \in Workers : pc[w] \in {"check", "refund", "holding", "freeing"}}
  <2>1. Waiting \subseteq Inside
    BY <1>1, TypesParts DEF Base, Types, Working, Engaged, Positions, At
  <2>2. slots = Cardinality(Inside)
    <3>1. GateProof!SlotsAreOwed
      BY <1>1 DEF Base, GateProof!GateInv
    <3>2. GateProof!SlotUsers = Inside
      BY DEF GateProof!SlotUsers
    <3>3. QED
      BY <3>1, <3>2 DEF GateProof!SlotsAreOwed, GateProof!Cardinality, Cardinality
  <2>3. IsFiniteSet(Inside)
    <3>1. Inside \subseteq Workers
      OBVIOUS
    <3>2. QED
      BY <3>1, RuntimeAssumption, FS_Subset
  <2> HIDE DEF Waiting, Inside
  <2>4. Cardinality(Waiting) <= Cardinality(Inside)
    BY <2>1, <2>3, FS_Subset
  <2>5. QED
    BY <2>2, <2>4 DEF Waiting
<1>2. QED
  BY <1>1, BaseInvariant, PTL

=============================================================================
