---------------------------- MODULE TaskRuntime ----------------------------
(***************************************************************************)
(* Tasks from the user's input to their end: the task store with its       *)
(* snapshots on disk (internal/task/task.go), the goroutines that run a    *)
(* task behind the turn gate, the approvals they wait for and the HTTP     *)
(* requests that answer them (internal/runtime/runtime.go), with the agent *)
(* loop and the executor reduced to the order of their calls on the store. *)
(*                                                                         *)
(* Every critical section of the store and of the approval map is one      *)
(* action, and so is every channel operation.                              *)
(***************************************************************************)
EXTENDS Integers, Sequences, FiniteSets

CONSTANTS Tasks,            \* task ids
          Chats,            \* conversations served by RunTurn (HTTP chat, telegram)
          Workers,          \* goroutines running a task or a conversation turn
          Clients,          \* requests of the task HTTP API
          NoKey,            \* no task and no conversation
          GateLimit,        \* the argument of newTurnGate
          MaxActions,       \* tool actions in one turn
          MaxTurns,         \* bound: inputs one task accepts
          MaxApprovals,     \* bound: approvals asked for
          MaxPersistFails,  \* bound: saves of a snapshot that fail
          MaxRestarts       \* bound: process restarts

ASSUME RuntimeAssumption == /\ IsFiniteSet(Workers)
                            /\ Tasks \cap Chats = {}
                            /\ NoKey \notin Tasks \cup Chats
                            /\ GateLimit \in Int
                            /\ {MaxActions, MaxTurns, MaxApprovals,
                                MaxPersistFails, MaxRestarts} \subseteq Nat

VARIABLES slots, active, pc, key,  \* the turn gate
          job,       \* job[w]: the turn a goroutine runs
          mem,       \* mem[t]: Store.items, the snapshot in memory
          disk,      \* disk[t]: the snapshot last saved
          fails,     \* saves that failed; the code only logs them
          waiters,   \* the ids in Runtime.approvals
          mail,      \* decisions sent and not yet received, in the waiters' buffers
          deciding,  \* decisions the store has accepted and SubmitApproval has not sent
          granted,   \* history: approvals the user has granted
          asked,     \* approvals asked for so far, each with an id of its own
          request,   \* request[c]: where a request for a task's input is
          stopping,  \* the runtime's context is cancelled
          restarts

gvars == <<slots, active, pc, key>>
store == <<mem, disk, fails>>
desk == <<waiters, mail, deciding, granted, asked>>
process == <<stopping, restarts>>
vars == <<gvars, job, store, desk, request, process>>

Gate == INSTANCE TurnGate WITH Callers <- Workers, Keys <- Tasks \cup Chats

NoApproval == 0
NoForm == 0
Decisions == {"approved", "rejected"}
Terminal == {"completed", "failed"}

NewSnapshot == [status |-> "absent", approval |-> NoApproval, form |-> NoForm,
                turn |-> 0, steps |-> <<>>]
Idle == [at |-> "idle", acts |-> 0, step |-> 0, approval |-> NoApproval, out |-> "none"]
NoRequest == [at |-> "idle", task |-> NoKey, form |-> NoForm]

Init == /\ Gate!GateInit
        /\ job = [w \in Workers |-> Idle]
        /\ mem = [t \in Tasks |-> NewSnapshot]
        /\ disk = mem
        /\ fails = 0
        /\ waiters = {} /\ mail = {} /\ deciding = {} /\ granted = {}
        /\ asked = 0
        /\ request = [c \in Clients |-> NoRequest]
        /\ stopping = FALSE
        /\ restarts = 0

-----------------------------------------------------------------------------
(* The store. *)

\* persistLocked: the snapshot goes to disk, or the error is logged.
persistLocked(t, snapshot) ==
  \/ disk' = [disk EXCEPT ![t] = snapshot] /\ UNCHANGED fails
  \/ fails < MaxPersistFails /\ fails' = fails + 1 /\ UNCHANGED disk

Update(t, snapshot) == /\ mem' = [mem EXCEPT ![t] = snapshot]
                       /\ persistLocked(t, snapshot)

\* The index of the last step with a status, as a set of at most one.
LastWith(steps, s) ==
  {i \in DOMAIN steps : steps[i] = s /\ \A j \in DOMAIN steps : j > i => steps[j] # s}

\* The backward loops over item.Steps: they stop at the first match.
Relabel(steps, from, to) ==
  [i \in DOMAIN steps |-> IF i \in LastWith(steps, from) THEN to ELSE steps[i]]

\* Mutant: the step that waited for this input is left open.
Accept_KeepsStep(t) == Update(t, [mem[t] EXCEPT !.status = "running",
                                                !.form = NoForm,
                                                !.turn = @ + 1])

\* Create and PrepareInput: a new user message; the task runs.
Accept(t) == Update(t, [mem[t] EXCEPT !.status = "running",
                                      !.form = NoForm,
                                      !.turn = @ + 1,
                                      !.steps = Relabel(@, "waiting_input", "closed")])

\* RequireApproval
Require(t, a) == Update(t, [mem[t] EXCEPT !.status = "waiting_approval",
                                          !.approval = a,
                                          !.steps = Relabel(@, "running", "waiting_approval")])

\* ResolveApproval
Resolve(t) == Update(t, [mem[t] EXCEPT !.status = "running",
                                       !.approval = NoApproval,
                                       !.steps = Relabel(@, "waiting_approval", "running")])

\* Finish
Conclude(t, status, form) == Update(t, [mem[t] EXCEPT !.status = status, !.form = form])

\* UpdateStep with an id the task does not have, and with one it has.
AppendStep(t) == Update(t, [mem[t] EXCEPT !.steps = Append(@, "running")])
SetStep(t, i, s) == Update(t, [mem[t] EXCEPT !.steps[i] = s])

\* Mutant: only running work is parked.
Parked_RunningOnly(snapshot) ==
  IF snapshot.status = "running" THEN [snapshot EXCEPT !.status = "waiting_input"] ELSE snapshot

\* NewPersistentStore: work that was under way waits for the user.
Parked(snapshot) ==
  IF snapshot.status \in {"running", "waiting_approval"}
  THEN [snapshot EXCEPT !.status = "waiting_input",
                        !.approval = NoApproval,
                        !.steps = [i \in DOMAIN @ |->
                          IF @[i] \in {"running", "waiting_approval"} THEN "waiting_input" ELSE @[i]]]
  ELSE snapshot

-----------------------------------------------------------------------------
(* Goroutines: `go r.runTask`, and the ingress handlers that call RunTurn. *)

At(w, here) == job[w].at = here
Goto(w, there) == job' = [job EXCEPT ![w].at = there]
Reply(w, out) == job' = [job EXCEPT ![w].at = "responding", ![w].out = out]

\* A goroutine starts with its call of tryAcquire.
Spawn(w, k) == /\ At(w, "idle")
               /\ Gate!Call(w, k)
               /\ Goto(w, "starting")

\* POST /api/chat or a telegram message: RunTurn is called.
StartChat(w, k) == /\ Spawn(w, k)
                   /\ UNCHANGED <<store, desk, request, process>>

PassGate(w) == /\ Gate!Internal(w)
               /\ UNCHANGED <<job, store, desk, request, process>>

\* RunTurn ends, or answers MsgBusy.
EndChat(w) == /\ At(w, "starting") /\ key[w] \in Chats
              /\ pc[w] \in {"holding", "rejected"}
              /\ Goto(w, "finished")
              /\ UNCHANGED <<gvars, store, desk, request, process>>

\* Mutant: the refused goroutine just returns.
RefuseTask_Silent(w) == /\ At(w, "starting") /\ key[w] \in Tasks
                        /\ pc[w] = "rejected"
                        /\ Goto(w, "finished")
                        /\ UNCHANGED <<gvars, store, desk, request, process>>

\* runTask without a turn: the task fails with MsgBusy.
RefuseTask(w) == /\ At(w, "starting") /\ key[w] \in Tasks
                 /\ pc[w] = "rejected"
                 /\ Conclude(key[w], "failed", NoForm)
                 /\ Goto(w, "finished")
                 /\ UNCHANGED <<gvars, desk, request, process>>

BeginTurn(w) == /\ At(w, "starting") /\ key[w] \in Tasks
                /\ pc[w] = "holding"
                /\ Goto(w, "planning")
                /\ UNCHANGED <<gvars, store, desk, request, process>>

\* OnPlanChanged, when the plan of the turn has changed: UpdatePlan saves the
\* snapshot once more, which makes good an earlier save that failed.
UpdatePlan(w) == /\ job[w].at \in {"planning", "invoking", "failing"}
                 /\ Update(key[w], mem[key[w]])
                 /\ UNCHANGED <<gvars, job, desk, request, process>>

\* Mutant: the action limit is not looked at.
BeginStep_NoLimit(w) == /\ At(w, "planning")
                        /\ AppendStep(key[w])
                        /\ job' = [job EXCEPT ![w].at = "begun", ![w].acts = @ + 1,
                                              ![w].step = Len(mem[key[w]].steps) + 1,
                                              ![w].approval = NoApproval]
                        /\ UNCHANGED <<gvars, desk, request, process>>

\* The planner acts: BeginStep notifies the store.
BeginStep(w) == /\ At(w, "planning")
                /\ job[w].acts < MaxActions
                /\ AppendStep(key[w])
                /\ job' = [job EXCEPT ![w].at = "begun", ![w].acts = @ + 1,
                                      ![w].step = Len(mem[key[w]].steps) + 1,
                                      ![w].approval = NoApproval]
                /\ UNCHANGED <<gvars, desk, request, process>>

\* The step has its title: NotifyStep saves it again.
NotifyStep(w) == /\ At(w, "begun")
                 /\ SetStep(key[w], job[w].step, "running")
                 /\ Goto(w, "acting")
                 /\ UNCHANGED <<gvars, desk, request, process>>

\* The planner responds, or the action limit is reached.
Decide(w) == /\ At(w, "planning")
             /\ IF job[w].acts = MaxActions
                THEN Reply(w, "blocked")
                ELSE \E out \in {"answer", "clarify", "blocked"} : Reply(w, out)
             /\ UNCHANGED <<gvars, store, desk, request, process>>

\* The planner fails: loop.Run returns its error.
PlanFails(w) == /\ At(w, "planning")
                /\ job[w].acts < MaxActions
                /\ job' = [job EXCEPT ![w].at = "settled", ![w].out = "error"]
                /\ UNCHANGED <<gvars, store, desk, request, process>>

\* Execute: the policy asks for no approval ...
InvokeFreely(w) == /\ At(w, "acting")
                   /\ Goto(w, "invoking")
                   /\ UNCHANGED <<gvars, store, desk, request, process>>

\* Mutant: the waiter is not in the map when the approval is shown.
Register_Unlisted(w) ==
  /\ At(w, "acting")
  /\ asked < MaxApprovals
  /\ asked' = asked + 1
  /\ job' = [job EXCEPT ![w].at = "asking", ![w].approval = asked + 1]
  /\ UNCHANGED <<gvars, store, waiters, mail, deciding, granted, request, process>>

\* ... or the approval handler registers a waiter under a new id,
Register(w) == /\ At(w, "acting")
               /\ asked < MaxApprovals
               /\ asked' = asked + 1
               /\ waiters' = waiters \cup {asked + 1}
               /\ job' = [job EXCEPT ![w].at = "asking", ![w].approval = asked + 1]
               /\ UNCHANGED <<gvars, store, mail, deciding, granted, request, process>>

\* shows the approval on the task,
RequireApproval(w) == /\ At(w, "asking")
                      /\ Require(key[w], job[w].approval)
                      /\ Goto(w, "waiting")
                      /\ UNCHANGED <<gvars, desk, request, process>>

\* Mutant: any decision lets the tool run.
HearDecision_AnyDecision(w) ==
  /\ At(w, "waiting")
  /\ \E d \in Decisions : /\ <<job[w].approval, d>> \in mail
                          /\ mail' = mail \ {<<job[w].approval, d>>}
  /\ Goto(w, "invoking")
  /\ UNCHANGED <<gvars, store, waiters, deciding, granted, asked, request, process>>

\* and waits for the decision
HearDecision(w) == /\ At(w, "waiting")
                   /\ \E d \in Decisions :
                        /\ <<job[w].approval, d>> \in mail
                        /\ mail' = mail \ {<<job[w].approval, d>>}
                        /\ Goto(w, IF d = "approved" THEN "invoking" ELSE "failing")
                   /\ UNCHANGED <<gvars, store, waiters, deciding, granted, asked, request, process>>

\* Mutant: the wait also times out.
Cancelled_TimesOut(w) == /\ At(w, "waiting")
                         /\ Goto(w, "cancelled")
                         /\ UNCHANGED <<gvars, store, desk, request, process>>

\* Mutant: the wait does not end with the context.
Cancelled_Never(w) == FALSE

\* or for the context; the waiter is deleted in a critical section of its own.
Cancelled(w) == /\ At(w, "waiting")
                /\ stopping
                /\ Goto(w, "cancelled")
                /\ UNCHANGED <<gvars, store, desk, request, process>>

Unregister(w) == /\ At(w, "cancelled")
                 /\ waiters' = waiters \ {job[w].approval}
                 /\ Goto(w, "failing")
                 /\ UNCHANGED <<gvars, store, mail, deciding, granted, asked, request, process>>

\* CompleteStep after a refused approval: the assessment is blocked.
FailStep(w) == /\ At(w, "failing")
               /\ SetStep(key[w], job[w].step, "closed")
               /\ Reply(w, "blocked")
               /\ UNCHANGED <<gvars, desk, request, process>>

\* CompleteStep after the tool's result and its assessment.
CompleteStep(w) == /\ At(w, "invoking")
                   /\ SetStep(key[w], job[w].step, "closed")
                   /\ \/ Goto(w, "planning")
                      \/ \E out \in {"answer", "blocked"} : Reply(w, out)
                   /\ UNCHANGED <<gvars, desk, request, process>>

\* finish: Respond returns, BeginResponseStep notifies the store.
Respond(w) == /\ At(w, "responding")
              /\ AppendStep(key[w])
              /\ \E out \in {job[w].out, "error"} :
                   job' = [job EXCEPT ![w].at = "replied", ![w].out = out,
                                      ![w].step = Len(mem[key[w]].steps) + 1]
              /\ UNCHANGED <<gvars, desk, request, process>>

\* Mutant: the step takes the disposition for its status.
FinishResponseStep_Raw(w) == /\ At(w, "replied")
                             /\ SetStep(key[w], job[w].step, job[w].out)
                             /\ Goto(w, "settled")
                             /\ UNCHANGED <<gvars, desk, request, process>>

\* FinishResponseStep
FinishResponseStep(w) ==
  /\ At(w, "replied")
  /\ SetStep(key[w], job[w].step, IF job[w].out = "clarify" THEN "waiting_input" ELSE "closed")
  /\ Goto(w, "settled")
  /\ UNCHANGED <<gvars, desk, request, process>>

\* The end of runTask: an error fails the task; otherwise the interaction
\* planner may add a form, and a form always makes the task wait for input.
Finish(w) ==
  /\ At(w, "settled")
  /\ LET t == key[w]
         out == job[w].out
     IN \/ out \in {"error", "blocked"} /\ Conclude(t, "failed", NoForm)
        \/ out = "answer" /\ Conclude(t, "completed", NoForm)
        \/ out = "clarify" /\ Conclude(t, "waiting_input", NoForm)
        \/ out # "error" /\ Conclude(t, "waiting_input", mem[t].turn)
  /\ Goto(w, "finished")
  /\ UNCHANGED <<gvars, desk, request, process>>

\* The deferred release begins only now.
Release(w) == /\ At(w, "finished")
              /\ Gate!DeleteKey(w)
              /\ UNCHANGED <<job, store, desk, request, process>>

\* Mutant: a turn that ends with an error returns without its release.
Exit_NoRelease(w) == /\ At(w, "finished")
                     /\ \/ Gate!ReleaseAgain(w) \/ Gate!Dismiss(w)
                        \/ /\ job[w].out = "error" /\ pc[w] = "holding"
                           /\ pc' = [pc EXCEPT ![w] = "idle"]
                           /\ key' = [key EXCEPT ![w] = NoKey]
                           /\ UNCHANGED <<slots, active>>
                     /\ job' = [job EXCEPT ![w] = Idle]
                     /\ UNCHANGED <<store, desk, request, process>>

\* The goroutine returns.
Exit(w) == /\ At(w, "finished")
           /\ Gate!ReleaseAgain(w) \/ Gate!Dismiss(w)
           /\ job' = [job EXCEPT ![w] = Idle]
           /\ UNCHANGED <<store, desk, request, process>>

WorkerStep(w) ==
  \/ PassGate(w) \/ EndChat(w) \/ RefuseTask(w) \/ BeginTurn(w)
  \/ UpdatePlan(w) \/ BeginStep(w) \/ NotifyStep(w) \/ Decide(w) \/ PlanFails(w)
  \/ InvokeFreely(w) \/ Register(w) \/ RequireApproval(w)
  \/ HearDecision(w) \/ Cancelled(w) \/ Unregister(w)
  \/ FailStep(w) \/ CompleteStep(w)
  \/ Respond(w) \/ FinishResponseStep(w) \/ Finish(w)
  \/ Release(w) \/ Exit(w)

-----------------------------------------------------------------------------
(* Requests. *)

Request(c, where, t, form) ==
  request' = [request EXCEPT ![c] = [at |-> where, task |-> t, form |-> form]]
Answer(c) == request' = [request EXCEPT ![c] = NoRequest]

\* The user sees the form of a task.
Task(c, t) == /\ request[c] = NoRequest
              /\ mem[t].status = "waiting_input" /\ mem[t].form # NoForm
              /\ Request(c, "seen", t, mem[t].form)
              /\ UNCHANGED <<gvars, job, store, desk, process>>

\* SubmitInteraction: its checks under the first Get, the id's comparison
\* included; the fallback planner gives every form the same id.
SubmitInteraction(c) ==
  /\ request[c].at = "seen"
  /\ LET t == request[c].task
     IN IF mem[t].status = "waiting_input" /\ mem[t].form # NoForm
        THEN Request(c, "checked", t, request[c].form)
        ELSE Answer(c)
  /\ UNCHANGED <<gvars, job, store, desk, process>>

\* SubmitAssistantInput, the Get: of a plain input, or called by
\* SubmitInteraction.  Only a task that waits for input can go on.
LookUp(c, t) ==
  /\ \/ request[c] = NoRequest
     \/ request[c].at = "checked" /\ request[c].task = t
  /\ mem[t].status \in {"waiting_input", "running", "waiting_approval"}
  /\ IF mem[t].status = "waiting_input"
     THEN Request(c, "found", t, request[c].form)
     ELSE Answer(c)
  /\ UNCHANGED <<gvars, job, store, desk, process>>

\* PrepareInput looks again, and the task's goroutine starts.
PrepareInput(c, w) ==
  /\ request[c].at = "found"
  /\ LET t == request[c].task
     IN IF mem[t].status = "waiting_input"
        THEN mem[t].turn < MaxTurns /\ Accept(t) /\ Spawn(w, t)
        ELSE UNCHANGED <<gvars, job, store>>
  /\ Answer(c)
  /\ UNCHANGED <<desk, process>>

\* No active task, or one that has ended: a new task.
Create(c, w, t) ==
  /\ \/ request[c] = NoRequest
     \/ request[c].at = "checked" /\ mem[request[c].task].status \in Terminal
  /\ mem[t].status = "absent"
  /\ Accept(t)
  /\ Spawn(w, t)
  /\ Answer(c)
  /\ UNCHANGED <<desk, process>>

\* Mutant: only the id is checked.
ResolveApproval_IdOnly(t, d) ==
  /\ mem[t].approval # NoApproval
  /\ deciding' = deciding \cup {<<mem[t].approval, d>>}
  /\ granted' = IF d = "approved" THEN granted \cup {mem[t].approval} ELSE granted
  /\ Resolve(t)
  /\ UNCHANGED <<gvars, job, waiters, mail, asked, request, process>>

\* SubmitApproval: the store checks the status and the id and accepts,
ResolveApproval(t, d) ==
  /\ mem[t].status = "waiting_approval" /\ mem[t].approval # NoApproval
  /\ deciding' = deciding \cup {<<mem[t].approval, d>>}
  /\ granted' = IF d = "approved" THEN granted \cup {mem[t].approval} ELSE granted
  /\ Resolve(t)
  /\ UNCHANGED <<gvars, job, waiters, mail, asked, request, process>>

\* Mutant: the decision is dropped when its receiver is found.
SendDecision_Dropped(a, d) ==
  /\ <<a, d>> \in deciding
  /\ deciding' = deciding \ {<<a, d>>}
  /\ waiters' = waiters \ {a}
  /\ UNCHANGED <<gvars, job, store, mail, granted, asked, request, process>>

\* then the waiter is taken and sent to, or "approval waiter not found".
SendDecision(a, d) ==
  /\ <<a, d>> \in deciding
  /\ deciding' = deciding \ {<<a, d>>}
  /\ waiters' = waiters \ {a}
  /\ mail' = IF a \in waiters THEN mail \cup {<<a, d>>} ELSE mail
  /\ UNCHANGED <<gvars, job, store, granted, asked, request, process>>

-----------------------------------------------------------------------------
(* The process. *)

Stop == /\ ~stopping
        /\ stopping' = TRUE
        /\ UNCHANGED <<gvars, job, store, desk, request, restarts>>

\* The process dies at any point and starts again; NewPersistentStore also
\* saves each snapshot it restores, and goes on when a save fails.
Restart ==
  /\ restarts < MaxRestarts
  /\ restarts' = restarts + 1
  /\ stopping' = FALSE
  /\ mem' = [t \in Tasks |-> Parked(disk[t])]
  /\ \E lost \in SUBSET Tasks :
       /\ disk' = [t \in Tasks |-> IF t \in lost THEN disk[t] ELSE mem'[t]]
       /\ IF lost = {} THEN UNCHANGED fails
          ELSE fails < MaxPersistFails /\ fails' = fails + 1
  /\ slots' = 0 /\ active' = {}
  /\ pc' = [w \in Workers |-> "idle"]
  /\ key' = [w \in Workers |-> NoKey]
  /\ job' = [w \in Workers |-> Idle]
  /\ waiters' = {} /\ mail' = {} /\ deciding' = {}
  /\ request' = [c \in Clients |-> NoRequest]
  /\ UNCHANGED <<granted, asked>>

\* Nobody works: the process may wait for requests forever.
Rest == /\ \A w \in Workers : At(w, "idle")
        /\ UNCHANGED vars

Next == \/ \E w \in Workers : WorkerStep(w) \/ \E k \in Chats : StartChat(w, k)
        \/ \E c \in Clients : SubmitInteraction(c)
        \/ \E c \in Clients, t \in Tasks : Task(c, t) \/ LookUp(c, t)
        \/ \E c \in Clients, w \in Workers : PrepareInput(c, w)
        \/ \E c \in Clients, w \in Workers, t \in Tasks : Create(c, w, t)
        \/ \E t \in Tasks, d \in Decisions : ResolveApproval(t, d)
        \/ \E a \in 1..MaxApprovals, d \in Decisions : SendDecision(a, d)
        \/ Stop \/ Restart \/ Rest

Safety == Init /\ [][Next]_vars

\* A goroutine of a task goes on, as model calls time out (openai.go:51), but
\* for a tool it has called: a remote one has no timeout (session.go:102), and
\* a command can outlast even its context (host.go:35, a Run without WaitDelay
\* waits for the pipes of what the command has started).  A decision the store
\* has accepted is sent.  Nobody has to submit an input or decide on an
\* approval, and nothing is assumed of conversations.
Prompt(w) == /\ WorkerStep(w)
             /\ key[w] \in Tasks
             /\ ~At(w, "invoking")

Fairness == /\ \A w \in Workers : WF_vars(Prompt(w))
            /\ \A a \in 1..MaxApprovals, d \in Decisions : WF_vars(SendDecision(a, d))

Spec == Safety /\ Fairness

-----------------------------------------------------------------------------
(* Properties. *)

StepStatuses == {"running", "waiting_approval", "waiting_input", "closed"}
Statuses == {"absent", "running", "waiting_input", "waiting_approval", "completed", "failed"}
Snapshots == [status : Statuses, approval : Nat, form : Nat, turn : Nat, steps : Seq(StepStatuses)]
Positions == {"idle", "starting", "planning", "begun", "acting", "asking", "waiting", "cancelled",
              "failing", "invoking", "responding", "replied", "settled", "finished"}
Requests == [at : {"seen", "checked", "found"}, task : Tasks, form : Nat]
Outs == {"none", "answer", "clarify", "blocked", "error"}

Jobs == [at : Positions, acts : Nat, step : Nat, approval : Nat, out : Outs]
Decided == (1..asked) \X Decisions

TypeOK ==
  /\ Gate!GateTypeOK
  /\ job \in [Workers -> Jobs]
  /\ mem \in [Tasks -> Snapshots] /\ disk \in [Tasks -> Snapshots]
  /\ fails \in Nat /\ asked \in Nat /\ restarts \in Nat
  /\ waiters \subseteq 1..asked /\ granted \subseteq 1..asked
  /\ mail \subseteq Decided /\ deciding \subseteq Decided
  /\ request \in [Clients -> {NoRequest} \cup Requests]
  /\ stopping \in BOOLEAN

\* The goroutines that run t and have not yet written its end.
Drivers(t) == {w \in Workers : key[w] = t /\ job[w].at \notin {"idle", "finished"}}
UnderWay == {t \in Tasks : mem[t].status \in {"running", "waiting_approval"}}

\* A task is running or waits for an approval exactly while one goroutine
\* drives it: no two goroutines write one task, no task is left running with
\* nobody behind it, and no finished or parked task is still being written.
OneDriver == /\ \A t \in UnderWay : \E w \in Workers : Drivers(t) = {w}
             /\ \A t \in Tasks \ UnderWay : Drivers(t) = {}

Launched == {w \in Workers : ~At(w, "idle")}
InTurn == {w \in Launched : job[w].at \notin {"starting", "finished"}}

\* The gate and the goroutines agree about who works.  One that writes its
\* task, from its first step to Finish, owns the task's key and shares it with
\* no other; every key belongs to a goroutine that has not returned, and no
\* more slots are taken than there are such goroutines: none of the ways out
\* of runTask and RunTurn (refused, failed, cancelled, ended, restarted)
\* leaves a key or a slot behind.
TurnsOwnTheGate == /\ \A w \in InTurn : key[w] \in active
                   /\ \A v, w \in InTurn : key[v] = key[w] => v = w
                   /\ active \subseteq {key[w] : w \in Launched}
                   /\ slots <= Cardinality(Launched)

\* An approval the user sees can be decided: its goroutine listens for that
\* very id, unless the process is stopping.
ApprovalAnswerable ==
  \A t \in Tasks : mem[t].status = "waiting_approval" /\ ~stopping =>
    /\ mem[t].approval \in waiters
    /\ \E w \in Drivers(t) : At(w, "waiting") /\ job[w].approval = mem[t].approval

\* A decision the store has accepted reaches its goroutine, so "approval waiter
\* not found" is an answer given only while the process is stopping.
DecisionDelivered == \A decision \in deciding : decision[1] \in waiters \/ stopping

\* A tool that needs an approval runs only when the user has granted the one
\* asked for this very step.
NoUnapprovedInvocation ==
  \A w \in Workers : At(w, "invoking") /\ job[w].approval # NoApproval => job[w].approval \in granted

Open(t) == {i \in DOMAIN mem[t].steps : mem[t].steps[i] # "closed"}
OpenAs(t, s) == \E i \in Open(t) : mem[t].steps[i] = s

\* The steps the user sees agree with the task's status: at most one is open,
\* none when the task has ended, and the open one waits for what the task
\* waits for.
StepsFollowStatus ==
  \A t \in Tasks :
    /\ Cardinality(Open(t)) <= 1
    /\ mem[t].status \in Terminal \cup {"absent"} => Open(t) = {}
    /\ mem[t].status = "waiting_input" => ~OpenAs(t, "running")
    /\ OpenAs(t, "waiting_approval") => mem[t].status = "waiting_approval"
    /\ mem[t].status = "waiting_approval" /\ ~stopping => OpenAs(t, "waiting_approval")

\* A task that has ended stays ended; only a restart after a save that failed
\* can bring it back.
TerminalIsFinal ==
  [][\A t \in Tasks : mem[t].status \in Terminal =>
       \/ mem'[t].status = mem[t].status
       \/ restarts' # restarts /\ fails > 0]_vars

\* A tool t has called never returns.
Stuck(t) == [](\E w \in Drivers(t) : At(w, "invoking"))

\* A task that runs stops running: it ends, or it waits for the user, unless
\* one of its tools never returns.
RunEnds == \A t \in Tasks : mem[t].status = "running" ~> (mem[t].status # "running" \/ Stuck(t))

\* Once the context is cancelled every task comes to rest, one that waits for
\* an approval included, unless the process dies first or one of its tools
\* never returns.
StopDrains ==
  \A t \in Tasks : (stopping /\ t \in UnderWay) ~> (~stopping \/ t \notin UnderWay \/ Stuck(t))

\* The user-visible life of a task implements TaskContract.
Contract == INSTANCE TaskContract
              WITH status <- [t \in Tasks |-> mem[t].status],
                   engaged <- {t \in Tasks : Drivers(t) # {}}
ImplementsTaskContract == Contract!CSpec

\* The loop as LoopContract has it, which AgentLoop implements.
LoopPhase(w) ==
  LET at == job[w].at
  IN CASE at \in {"idle", "starting"} -> "out"
       [] at \in {"begun", "acting", "asking", "waiting", "cancelled", "failing", "invoking"}
            -> "acting"
       [] at = "settled" -> "over"
       [] at = "finished" -> IF job[w].out = "none" THEN "out" ELSE "over"
       [] OTHER -> at
Loop(w) == INSTANCE LoopContract WITH phase <- LoopPhase(w), acts <- job[w].acts, out <- job[w].out

\* Every goroutine does with its task what the agent loop does in AgentLoop:
\* both implement LoopContract.
RunsTheLoop == [][\A w \in Workers : Loop(w)!CNext \/ UNCHANGED Loop(w)!cvars]_vars

-----------------------------------------------------------------------------
(* What the repository says of the code and the code does not keep. *)

\* An accepted continuation runs ("resumes the active task when it is
\* explicitly waiting for user input. Execution continues asynchronously.",
\* runtime.go:199-200): the gate never turns a task away for its own key.
ContinuationRuns == [][\A w \in Workers : Gate!FindKey(w) => key[w] \notin Tasks]_vars

\* No approval is restored after a restart ("stale approval was restored",
\* task_test.go:101).
NoApprovalRestored ==
  [][restarts' # restarts => \A t \in Tasks : mem'[t].approval = NoApproval]_vars

\* An answer passes SubmitInteraction's comparison of ids only when it was
\* written for the form the task now shows ("interaction does not match the
\* pending task interaction", runtime.go:242).
AnswerMeetsItsForm ==
  [][\A c \in Clients :
       SubmitInteraction(c) /\ request'[c].at = "checked"
         => request[c].form = mem[request[c].task].form]_vars
=============================================================================
