# OctoSucker in TLA+

OctoSucker is an agent: a Go process that takes a user's request over HTTP or
Telegram, lets a language model plan one tool call after the other, judges each
result and writes an answer. This directory models the parts of it that decide
*what happens when*: who may run, what a task's state means to the user who
polls it, how an approval reaches the goroutine that waits for it, when a turn
stops, what it remembers and what its prompts keep of it, whom its tools disturb,
and what survives a crash. Paths below are relative to `src/`.

## 1. Inventory

| component | state | operations | talks to |
|---|---|---|---|
| turn gate, `internal/runtime/turngate.go` | `slots` (buffered channel), `active` (map) under `mu` | `tryAcquire`, `release` | called by `RunTurn` and `runTask` |
| task store, `internal/task/task.go`, `internal/storage/tasks_sqlite.go` | `items` under `mu`, one JSON snapshot per task in SQLite, `persistErr` | `Create`, `PrepareInput`, `UpdateStep`, `UpdatePlan`, `RequireApproval`, `ResolveApproval`, `Finish`, `NewPersistentStore` | called by HTTP handlers and by `runTask` |
| runtime, `internal/runtime/runtime.go` | `approvals` (map of channels) under `approvalMu`, one goroutine per accepted input, the process context | `RunTurn`, `SubmitAssistantInput`, `SubmitInteraction`, `SubmitApproval`, `runTask`, `Close` | gate, store, loop, conversations |
| agent loop, `internal/runtime/agentloop/loop.go` | the action count | `Run`, `finish`, `learn` | planner, executor, evaluator, responder, routing |
| turn and plan, `internal/runtime/model` | `Turn.Steps`, `Turn.Plan`, `ConsecutiveFailures`, `Status`, `ContextArtifacts` | `BeginStep`, `CompleteStep`, `RevisePlan`, `BeginResponseStep`, `FinishResponseStep`, `Complete`/`AwaitInput`/`Block` | notifies the task store |
| planner, evaluator, responder | none | one model call each, with validation | model client (45 s timeout) |
| executor | none | `Execute` | tool registry, approval handler |
| conversation store | threads and artifacts per conversation, in memory | `AppendExchange`, `RememberContextArtifacts` | runtime |
| context manager | none | selects messages, tools and steps under token budgets | planner, evaluator, responder |
| routing graph and learning | `edges`, `recentTransitions` under `mu`, two SQLite tables | `RecordTransition`, `Recommend`, `loadFromStore` | loop, planner |
| cron jobs | `tasks`, `ids`, the scheduler's entries, `cronjob.md` | create, delete, list, load | a tool |
| command sandbox | a Docker container, `ensure` mutex | `ensureSandbox`, `runDocker`, host and macOS variants | a tool |
| registry, MCP sessions | providers and the index of their tools, read only after start-up; the open sessions | start-up, `Invoke`, `Close` | executor, all tools |
| OpenCLI provider | none after start-up | catalogue to tools, arguments to a command line | an external program |
| skills | the catalog, read only; what is active is the turn's | `activate_skill`, paged reads | turn |
| thinker, Telegram tool | none | one call each | model client, Telegram |
| interaction planner | none | decides whether an answer needs a form | `runTask` |
| ingresses and gateway | none | HTTP handlers (concurrent), Telegram polling (serial), shutdown | runtime |

**What is hard.** HTTP requests and task goroutines run concurrently and meet in
three places with locks of their own: the gate, the store and the approval map.
No lock spans two of them, so every operation that crosses is a sequence of
steps others interleave with. A task's life spans goroutines (one per input) and
processes (its snapshot is restored after a restart), a save can fail and is
only logged, the context can be cancelled at any point, and a user decides late,
twice or never.

**What makes each part correct.**

- Gate: one turn per key; a bounded number of turns; no slot leaks; nobody hangs
  in it; refusals have a reason.
- Store and runtime: a task is running exactly while one goroutine drives it; an
  approval that is shown can be answered and the answer arrives; no tool that
  needs an approval runs without it; an ended task stays ended; steps agree with
  the status; a crash parks what was under way.
- Loop and plan: the plan's running step is the action under way; completion
  rests on evidence and survives every revision; an action that led astray is
  not repeated; limits end the turn; a turn always returns.
- Memory: a thread is the end of the dialogue, as long as the bounds allow; an
  active skill stays active; evidence for a hint is never made up and never
  shrinks, though memory and its two tables are written one after the other; a
  prompt keeps the newest of everything and its limit.
- Tools: a job reported as created is scheduled and survives a restart, one
  reported as deleted does not come back; commands run confined and no command
  removes the container another one uses; every call returns; what was opened is
  closed, whatever failed; a call's arguments arrive at OpenCLI as they were given,
  unless a text among them begins with a dash.

`PROJECT.json` lists the hazards one by one at their lines, with the properties
that watch them, or the reason why none does yet.

## 2. Plan

1. *(done)* `TurnGate`, `GateContract`, with proofs.
2. *(done)* `TaskRuntime`, which composes the gate with store, runtime and a loop
   reduced to its calls, `TaskContract` above it; proofs of its types and of five
   of its invariants.
3. *(done)* `AgentLoop` with the plan; `LoopContract` ties it to `TaskRuntime`.
4. *(done)* `ToolCalls`, `CronJobs`, `Sandbox`, composed in `Toolset` with the
   registry and the MCP sessions; proofs of its types and three of its
   invariants. `OpenCLI`, an algorithm.
5. *(done)* `Conversation`, `Routing`, `PromptContext`, composed in `Memory`.
6. *(done)* Proofs of every invariant and action property of the passing runs
   and of the refinements: the rest of `TaskRuntime` and of `Toolset`, `AgentLoop`
   and its `LoopContract`, `Memory` with the folds and the prompts it rests on,
   `OpenCLI` with the flattened command line.
7. *(done)* What safety says of the liveness properties: that calls, turns and
   goroutines get shorter with every step and leave no mutex behind.
8. Left to model: an ingress that waits for a turn, the paging of skill
   resources.

Modules meant for proofs declare their parameters as CONSTANTS with named
assumptions and use no RECURSIVE operator.

## 3. Modules

**TurnGate** (`turngate.go`). `slots` is the channel's length, `active` the map;
`pc` and `key` hold each caller's place in `tryAcquire` or `release`. Each
channel operation and each critical section is one action: `TakeSlot` and
`RejectFull` are the `select`, `InsertKey` and `FindKey` the locked block,
`RefundSlot` the receive of a refused call, `DeleteKey` and `FreeSlot` the two
halves of `release`, `ReleaseAgain` a call that `sync.Once` makes empty. Key
normalisation is left out: a key is a model value. The branch for a nil gate is
left out, since every runtime has one.

**GateContract** is the gate without channel and map: a caller asks, is let in
if its key is free and there is room, or is turned away because of a crowd or
because of its key.

**TaskRuntime** (`task.go`, `runtime.go`, `executor.go`, the requests of
`adminhttp`). It has the variables of `TurnGate` (`Gate == INSTANCE TurnGate`,
callers are the goroutines, keys the tasks and conversations) and
 - `mem[t]` and `disk[t]`: the snapshot in `Store.items` and the one last saved,
   with status, pending approval, pending form, accepted inputs (`turn`) and step
   statuses. `persistLocked` may fail, which leaves `disk` behind.
 - `job[w]`: where a goroutine is in `runTask`, with the loop reduced to its
   order of calls on the store.
 - `waiters`, `mail`, `deciding`: `Runtime.approvals`, the buffers of the
   waiters' channels, and the decisions between `ResolveApproval` and the send.
   `granted` is a history variable: what the user has approved.
 - `request[c]`: an HTTP request between its calls of the store.

 Every call that locks the store or the approval map is an action
 (`PrepareInput`, `Create`, `Register`, `RequireApproval`, `ResolveApproval`,
 `SendDecision`, `Unregister`, `BeginStep`, `NotifyStep`, `UpdatePlan`,
 `CompleteStep`, `Finish`, ...), and
 so are the operations on the gate. Abstractions:
 - step statuses completed and failed are one, `closed`;
 - plans, messages, results, versions and times do not appear, so that
   `UpdatePlan` is a save of an unchanged snapshot, which can fail, or can catch
   up on a save that failed before; `NotifyStep`, the second save of a step that
   begins, likewise;
 - a form is named by the turn that asked for it; its id in the code is a
   constant for forms of the fallback planner, so the comparison of ids in
   `SubmitInteraction` passes;
 - the creation of a goroutine is one step with the store call before it: nothing
   of the goroutine is visible before its first step;
 - in `SendDecision` the map is read and the channel, which has room for one
   value, is sent to in one step: the receiver cannot tell;
 - the goroutine's own deletion of an id already deleted is left out;
 - `Task` and `LookUp` leave out requests whose answer changes nothing.

**TaskContract** is a task as the user sees it: a status, and whether an
execution is engaged with it.

**AgentLoop** (`loop.go`, `turn.go`, `plan.go`, and what `validateDecision` of
the planner and `normalizeAssessment` of the evaluator let pass). One turn: the
planner acts with any plan and any action it may, the tool fails or succeeds,
the evaluator answers anything that passes normalisation or is unavailable,
`finish` writes the response. Steps keep plan step, fingerprint, status and
routing outcome; a plan step keeps its status and, as evidence, the index of the
trajectory step that gave it. A fingerprint stands for a tool with its
arguments. Whether a failure is recoverable is an input.

**LoopContract** is what the runtime may rely on: the planner alternates with at
most `MaxActions` actions until one response. `AgentLoop` implements it
(`ImplementsLoop`) and so does every goroutine of `TaskRuntime` (`RunsTheLoop`),
so the reduced loop there does nothing the detailed one cannot do.

**ToolCalls** is what the providers share: `life` of the process (with a registry
that is starting, failing, refused, up or closed) and `pc[t]`, where turn `t` is
in its tool call.

**CronJobs** (`cronjob/runner.go`). A job is in `tasks` (the maps), in `entries`
(the scheduler) and in `file`. A call holds `cronMu` and goes through `CreateTask`
or `DeleteTask`, `TruncateFile`, `FillFile` and `Report`, or leaves by
`PersistFails`; `os.WriteFile` is two steps, since the process can die between
them. `promised` and `dropped` are histories of what the calls have reported. The
user may write the file while the agent is down (`EditFile`).

**Sandbox** (`exec.go`, `docker.go`, `host.go`). `container` is what the daemon has
under the configured name; `ensure` is the mutex, held from `LockSandbox` to the
end of `ensureSandbox`; `inside` are the turns whose process runs in the container
and `strays` says that processes of calls that have ended do. Each docker client is
one action, and `EnsureFails` has each fail before or after it took effect.
Container settings are two bits: `hardened` and `user`. The two host variants are
one wait.

**Toolset** (`bootstrap.go`, `registry.go`, `session.go`, and `NewRuntime` and `Close`
as far as they concern the registry) composes the two: `step` walks through
`NewRegistry`, `open` are the providers that need closing. `StartFails` has any
step fail. Calls of the other local tools return at once and change nothing, so
they have no action. After `Close` the goroutines of tasks go on calling cron jobs
and sessions: `Serving` includes a closed registry.

**OpenCLI** (`provider.go`). Names are sequences of words, so that the joining of
identifiers and its ambiguity is that of the code; `buildTool` makes a tool of a
command, `ValidArguments` is the registry's check, `compileArguments` the command
line: raw texts, in which a flag is told from a value by nothing but the dashes it
begins with. A type may come from a default or from the first choice, and choices
bind the call; an integer beyond int64 passes the registry's check (it is a JSON
number without a fraction) and is refused by `scalarText`. `Understood` is OpenCLI's
own parser, taken from how commands and help are used here. The provider appends a
value as it is, with no `--` before the positionals (`provider.go:377`, `:401`), so a
value that begins with a dash, a negative number for instance, may be taken for an
option. Such calls are in the model (`Dashed`) and `ArgumentsSurvive` excludes them by
name, since what OpenCLI makes of them cannot be read off this repository.
`CatalogueAssumption` says what the model takes from JSON and from OpenCLI's help: a
boolean is true or false, and so is the default of a switch.

**Conversation** (`store.go`, `ApplyContextArtifacts`). A message is its role and its
length, an artifact the skill it carries. `said` and `activated` are histories.
`RememberContextArtifacts` and `AppendExchange` are one step: the gate keeps other
turns of the conversation out.

**Routing** (`toolrouting`, `learning`, `routing_sqlite.go`). `counts` and `recent` are
the graph, `savedCounts` and `savedRecent` the tables, `learning` the place within
`RecordTransition`, which holds the lock over three steps. `recorded`, a history, is
the log of all transitions.
Scores are compared as fractions; costs are left out.

**PromptContext** (`manager.go`). `Build` over lengths in tokens: shares, clipping,
the newest messages and steps that fit, tools and artifacts by score. It is an
operator; what its sections lose is what `PromptFits` is about.

**Memory** composes the three with turns reduced to what they remember, learn and
are asked: `BeginTurn`, tools that fail or work, `Learn` and `SaveLearned`, `Finish`
or `FailTurn`, and the death of the process in between.

The `*_proofs` modules are section 5: `TurnGate_proofs`, `TaskRuntime_proofs` and above
it `TaskSteps_proofs`, `AgentLoop_proofs`, `Toolset_proofs`, `OpenCLI_proofs`, and
`Memory_proofs` above `Context_proofs` (`Conversation` and `PromptContext`).

`MC*` modules instantiate these for TLC. Operators whose comment says *Mutant*
are deliberate mistakes used to test that each property can fail.

## 4. Runs

| run | instance | shows |
|---|---|---|
| `gate` | 4 callers, 3 keys, limit 2 | types, `OneTurnPerKey`, `KeysAreHeld`, `SlotsAreOwed`, `DrainNeverBlocks`, `ImplementsContract`, `CallsReturn` |
| `task_approval` | 1 task, 2 goroutines, 2 requests, 2 inputs, 2 approvals, 1 failed save, 1 restart | types, `OneDriver`, `TurnsOwnTheGate`, `ApprovalAnswerable`, `DecisionDelivered`, `NoUnapprovedInvocation`, `StepsFollowStatus`, `TerminalIsFinal` |
| `task_life` | 1 task and 1 conversation on 1 slot, 1 approval, 1 restart | `ImplementsTaskContract`, `RunEnds`, `StopDrains`, `RunsTheLoop` |
| `loop_turn` | 2 plan steps, 2 fingerprints, 4 actions, 2 failures | types, `PlanMatchesTrajectory`, `NoWrongRouteTwice`, `FailuresStopTheTurn`, `CompletionsSurvive`, `AnswersRestOnWork`, `TurnEnds`, `ImplementsLoop` |
| `tools` | 2 turns, 2 job ids, a good and a bad spec, 1 endpoint, docker and host; OpenCLI commands of up to 3 of 11 inputs, 8 values | types, `JobsKept`, `JobsScheduled`, `Confined`, `NothingLeftOpen`, `ArgumentsSurvive`, `NeighboursSpared`, `CallsReturnAll` |
| `memory` | 2 conversations, 2 tools, 3 skills of which 2 fit, 2 goals, threads of 3 messages, windows of 2 transitions, limits of 4,000, 1,600 and 500 tokens | `ThreadIsRecentHistory`, `SkillsCarryOver`, `HintsAreBacked`, `PromptFits`, `SavedCountsGrow` |
| `gate_admission`, `task_continuation`, `task_stale`, `task_forms`, `loop_repeat`, `cron_fence` | smallest that shows it | disagreements, section 6 |

**Bounds.** The gate needs a limit of two, so that a caller can meet its key in
the map and yet have a slot, three callers to have one more than the limit, and
more keys than the limit, so that it is the channel and not the keys that keeps
the number of turns down; a fourth caller lets two callers race outside while
two are in. Tasks do not touch one another's snapshots and
meet only in the gate, so one task is run with two goroutines, the one that
finishes and the one that continues, and the gate is contended in `task_life` by
a conversation. Two inputs make one continuation, two approvals let a late
decision for the first meet the second, and one action per turn is enough since
a second input brings a second. One restart and one failed save give every order
of the two. In the loop, four actions with a failure limit of two let a plan
step be completed, left, revised and failed. `MaxTurns`, `MaxApprovals`,
`MaxPersistFails` and `MaxRestarts` are bounds of the model; `MaxActions`,
`MaxFailures` and `MaxPlan` are the code's limits (12, 3, 8), made smaller.
In `tools` nothing is bounded but the sets: two turns meet at the mutex and in the
container, two ids let one job's call go on while another job must be kept, and
a name and a tool that are taken make each way for a start to be refused. OpenCLI's
inputs have two names with the same words, defaults, choices, switches with each
default, and three of them make a positional that is given after one that is not; its
values include an integer beyond int64, a negative number and a text that reads as
the flag of an option. In
`memory` `MaxWork` bounds turns begun and actions taken, four in all: with
them a transition is recorded twice, which is the threshold of a hint, within one
turn or over two, and three transitions overflow a window; two turns in a row
exchange enough to cut a thread by length and by number,
a third skill meets the bound of two, and a restart falls anywhere. The lengths
(8,000 and 30,000 runes against 24,000) and the limits are chosen so that every rule of
`PromptContext` cuts something; 24,000, 60,000 and 20,000 are the code's. The
configuration takes any positive limit (`config.go:115-123`): at the planner's 4,000
no section is below its floor, at the evaluator's 1,600 some are, at the
responder's 500 most.
`task_approval` uses symmetry (goroutines, requests), and so does `memory`
(conversations); no run with liveness does.

**Deadlock** is checked in every run. `Rest` and `Returned` are the steps of a
process, or a turn, that has nothing to do; `Toolset` and `Memory` can always
restart.

**Fairness.** A call of `tryAcquire` or `release` goes on (no wait is inside
them). A goroutine of a task goes on, because the model client ends every call
after 45 s (`pkg/llmclient/openai.go:23`). Nothing is assumed of a tool a task has
called, not even after the context is cancelled: the call of a remote tool
(`tools/mcp/session.go:102`) has no timeout, and a command on the host can outlast its
context (`exec/host.go:35`). `RunEnds` and `StopDrains` name such a tool (`Stuck`) as the
one way not to come to rest. A decision the store has accepted is sent. In `Toolset` each
local step of a call goes on (files and docker clients answer, fail or are killed
at the call's timeout) and whoever waits for the mutex of the sandbox gets it in the
end (Go's mutex hands over to a waiter that has starved), which is the one strong
fairness. Two calls are outside it: a remote call has no timeout, and `cmd.Run` on
the host waits without limit for a background process that holds the output open. `Memory`
has no liveness. Nothing is assumed of users: no input has to be given and no approval
decided, so a task may wait for them for ever. Nothing is assumed of
conversations either.

## 5. Proofs

`TurnGate_proofs` proves for every finite set of callers, every set of keys and
every limit, by TLAPS: the types, `OneTurnPerKey`, `KeysAreHeld`,
`SlotsAreOwed`, `DrainNeverBlocks`, and that every step of the gate is one of
`GateContract` or stutters (`GateImplementsContract`). Assumed is only
`GateAssumption`: finitely many callers, an integer limit, and a `NoKey` that is
no key. The inductive invariant `GateInv` joins the type invariant with
`OneTurnPerKey`, `KeysAreHeld` and `SlotsAreOwed` and the bound of the channel.
None of them is inductive alone: `InsertKey` keeps one turn per key only because
the map has every held key, `DeleteKey` keeps the map right only because no other
caller holds the key, and `FreeSlot` and `RefundSlot` can always receive only
because the channel counts the callers that still owe it a receive. The last is
an argument on cardinalities: a step adds one caller to `SlotUsers`, removes
one, or leaves the set alone (`SlotUsersJoin`, `SlotUsersLeave`,
`SlotUsersStay`).

`TaskRuntime_proofs` proves, for any finite number of goroutines and any tasks,
conversations, requests and bounds, from `RuntimeAssumption` alone: `TypeOK`,
`TurnsOwnTheGate`, `OneDriver`, `NoUnapprovedInvocation`, `ApprovalAnswerable` and
`DecisionDelivered`. The argument is in layers, each of which uses those below:

 - `Base`: the types; `Working` (a goroutine that is past the gate in `runTask`
   holds the turn of its task); `Issued` (every id in a snapshot, in memory or
   saved, or with a goroutine was given out before); and the invariant of the gate.
   Each step of the runtime is a step of the gate, leaves it alone or starts it
   anew (`GateMoves`), so `TurnGate_proofs` is used as it stands, with the
   goroutines as callers and tasks and conversations as keys.
 - `Outsiders`: a goroutine that is not running is outside the gate. The gate cannot
   know this, since it is the runtime that returns; with `Working` and the gate's
   own accounts it gives `TurnsOwnTheGate`. A way out of `runTask` that skips the
   release would leave a caller inside that no goroutine runs.
 - `OneDriver`, inductive over `Base`. It needs one turn per key from the gate:
   otherwise a second goroutine could begin a task that is under way.
 - `Approved`: whoever comes to a call carries no approval of an earlier step, and
   an approval on its way was granted. Without the first, a goroutine could run
   its second tool on the approval of its first.
 - `Live`, as long as the process is not stopping: no two goroutines share an id,
   an id that is not shown yet is undecided, whatever is shown or decided has the
   goroutine that waits for it, and a goroutine that waits is in one of three
   places: shown and undecided, with exactly one decision on its way, or with
   that decision in its channel (`Awaits`). `ApprovalAnswerable` and
   `DecisionDelivered` follow (`DeskSuffices`), but neither is inductive: that a
   decision is not lost depends on its being the only one, since a channel has
   room for one, and that depends on ids not being shared and on `OneDriver`,
   which keeps others from moving the task on meanwhile. After the stop
   goroutines leave their waits and their approvals stay behind, which is where
   `task_stale` (section 6) begins.

`TaskSteps_proofs` goes on from there, under the same assumptions.
 - `StepsFollowStatus` speaks of what the user sees, and is not inductive: whether
   `Finish` leaves a step open depends on where the goroutine of the task
   is. `StepInv` says, for a goroutine that drives a task, which step is open
   (`InStep`: the one it is at, none between two), and of every snapshot that its steps
   agree with its status (`Agrees`), on disk too, for a restart reads from there. That
   the goroutine and the snapshot stay together needs `OneDriver`.
 - `TerminalIsFinal` needs `OneDriver` for the same reason and, for restarts, `Saved`:
   until a save fails the disk has what the memory has.
 - `RuntimeImplementsTaskContract` shows that every step is a step of `TaskContract` for
   each task or leaves it alone. Its hypothesis `[](fails = 0)` is that of the run
   (`MaxPersistFails` is 0 in `task_life`): after a failed save a restart brings an
   older status back, which no contract on one task's status can allow.
   `ProcessKeepsTaskContract` goes further: with saves that fail, too, every step but
   a restart is a step of the contract. `ProcessKeepsGateContract` says the same of
   `GateContract`, with tasks and conversations as its keys: only a restart, which empties
   the gate at once, is no step of it.
 - `RuntimeRunsTheLoop` follows a goroutine's place in `runTask`. With
   `LoopImplementsContract` below, what the runtime assumes of the loop and what the loop
   does are proved against one contract.
 - `SnapshotsAgree` is the part of `StepInv` that the user and a restart read:
   `StepsFollowStatus` holds on disk as well as in memory.
 - `GoroutinesGetDone` is what safety says of `RunEnds`: `LoopToGo` counts the steps of
   `LoopContract` that a goroutine can still take, each step it takes lowers the count
   or leaves the turn, and no step of another goroutine raises it. `ActsLimited`, that no
   goroutine takes more than `MaxActions` actions, is the strengthening it needs.
 - `WaitingTakesSlots`: the goroutines that wait for an approval are at most as many as
   the slots taken. Whoever waits is inside the gate (`Working`), and the gate's
   channel counts whoever is inside. A user who leaves as many approvals undecided as
   the gate has slots stops all other turns.

`AgentLoop_proofs` proves, for any plan steps, fingerprints and limits: the types,
`PlanMatchesTrajectory`, `NoWrongRouteTwice`, `FailuresStopTheTurn`,
`CompletionsSurvive`, `AnswersRestOnWork` and `ImplementsLoop`. `LoopInv` adds how
a turn stands (`OpenEnd`, `Concluded`, `LastRuns`: whoever is acting or judged works on
the last step of the trajectory), that a step that led astray was an action, and
`FailuresCounted`: the step that many failures back helped, or there is none.
`FailuresStopTheTurn` alone is not inductive, since it says nothing of a counter below
its limit, and `NoWrongRouteTwice` needs the response, which has no fingerprint, to be
told from actions, which is what `StepAssumption` is for: the index that stands for no plan
step is neither a step nor a fingerprint. `AnswersRestOnWork` rests on
`PlanMatchesTrajectory`: the evidence of a completed plan step is the work that the answer
needs. Two results are about sizes:
 - `TurnsGetShorter`, what safety says of `TurnEnds`: `StepsToGo` falls with every
   step, so a turn has at most `3 * MaxActions + 3` of them, whatever its callees
   answer and however often the plan is revised.
 - `PlanStaysSmall`: a plan has at most `MaxPlan + MaxActions - 1` steps. `MaxPlan` alone is
   not a bound, since `RevisePlan` adds the completed steps to the new ones
   (`plan.go:68`). It follows from `PlanCounted`: an action completes one step at most,
   and the first plan has none completed. Its one hypothesis is that the set of step
   names is finite, so that a plan has a size at all.

`Toolset_proofs` proves, for any turns, jobs, endpoints, names and tools, from the
assumptions of the modules: the types, `Confined`, `JobsScheduled`, `JobsKept`,
`NeighboursSpared` and `NothingLeftOpen`.
 - `Confined` is not inductive: `docker start` and `docker exec` act on the name, long
   after the inspection, and others replace the container meanwhile. `BoxInv` adds
   what the turn has seen (`Seen`): while it is about to start a container or a
   process, the container of that name is gone or has the restrictions, since
   nothing in the program or outside makes one without them. The mutex is not needed
   for this; it is what `NeighboursSpared` rests on.
 - `JobsScheduled` and `JobsKept` follow from `CronInv`: scheduler and maps agree and
   can be scheduled again, in every state; once the jobs are loaded the maps agree
   with what was reported; so does a file that is whole (`FileKeeps`); and for
   the holder of the mutex (`CallKeeps`), a job being created is in the maps and not
   yet reported, one being deleted is out of them, and a file just written holds the
   maps. `JobsKept` alone is not inductive: that a restart finds the jobs rests on
   the file, and the file on the maps it was written from.
 - `NeighboursSpared` follows from `SpareInv`: between its inspection and the end of
   `ensureSandbox` a turn holds the mutex (`Locked`), and, with a matching image,
   whoever is about to remove the container has one before it that is not valid,
   while whatever runs, runs in a valid one (`Trusted`). Here the mutex matters: it is
   why the inspection is still true when the removal comes.
 - `NothingLeftOpen` follows from `OpenInv`, which counts what is open and registered
   by no map (`Leaked`): nothing until the start fails, then at most the one session
   that was refused, and never the scheduler, which is registered before the
   first endpoint is tried.
 - `NoMutexIsLeftBehind` and `CallsGetShorter` are what safety says of
   `CallsReturnAll`: each mutex is held by exactly the turn that is between its `Lock`
   and its `Unlock` (`MutexesHeld`), and every step of a call, failed or not, lowers
   `CallToGo`, which is six at most. So whoever waits for a mutex waits for a call
   that is about to return, and fairness is needed only for the single steps.

`OpenCLI_proofs` proves `ArgumentsSurvive`, for any sites, commands, catalogue of inputs and
values, any number of inputs and any call of a tool whose texts begin with no dash, from
`CatalogueAssumption`. Nothing
changes in this model: the theorem is about what the operators compute.
 - A command line is flattened from one sequence per input, and `FlattenSeq` is
   defined by recursion. `FlattenJoins` describes it as the last value of a function
   that joins one sequence after another; by `NumbersUpTo`, an induction by least elements
   as in `Context_proofs`, `FlattenMadeOf` derives that every sequence stands in the
   result unbroken, and that every place of the result is in one of them.
 - `StartOfCommandLine`: positionals without a gap are a sequence of the given
   texts followed by nothing (`FlattenSingles`), so the i-th one stands at i.
   `EndOfCommandLine`: behind them a flag stands only in the segment of its own option,
   with the value after it, since names tell options apart (`TokensDiffer`) and, in
   a call without dashes, no value is a flag (`TextsDiffer`).
 - `CommandLineUnderstood` lets the parser read that: the texts that are no option's value
   are the positionals, in their order, and each option finds its flag, its negation, or neither and so
   the default. `CallsCompile` says when there is a command line at all (no gap, no
   boolean positional, no integer beyond int64),
   `LoadedNames` that a tool's name leads back to its command.

`Context_proofs` is first about operators of `Conversation`: sums of lengths are folds, and what a fold
does is an induction over data. The library's induction theorems cannot be used, so
the induction is by least elements: `LeastNatural` takes the smallest counterexample
of a set of naturals, `FoldExists` shows that the recursion over finite sets or
indices has a function that satisfies it, and `FoldSums` that the fold adds one
element at a time. On these rest that `bounded` leaves the longest end of a dialogue that
both bounds allow (`BoundedFacts`), that cutting the cut thread after an exchange is
cutting the whole dialogue (`RecentExchange`), and that artifacts that were
accepted one after the other are accepted again in that order (`ApplyAllKeeps`).

Then it bounds each section of a prompt of `PromptContext`: the newest messages or steps
that fit hold the newest one if any; `Ranked` is an ordering (the elements before two
different elements differ in number, `RankedFacts`); taking in that order stays
within the budget or takes only the first (`TakeFacts`); the shares of the sections
sum to no more than the limit and what the floors of 64 add to a small one
(`AllocationFacts`), which is nothing from a limit of 3,200 on (`FloorsAreFree`).
`BuildFacts` adds them up, for every positive limit.

`Memory_proofs` proves, for any conversations, tools, skills, goals and number of
turns, over failed turns, failed saves and restarts:
 - `ThreadIsRecentHistory` and `SkillsCarryOver` from `TurnInv`, which adds that what a
   conversation remembers, and what its turn has active, can be applied in order
   (`Fits`). Without it the next turn could drop an artifact in silence
   (`turn.go:210`).
 - `HintsAreBacked` and `SavedCountsGrow` from `RouteInv`: counts are covered by the
   log, windows hold only what was logged, memory is ahead of the tables edge by
   edge, and a transition being saved is in the log and not in the saved window
   (`SaveInv`). Neither is inductive: that a save lowers no count rests on memory
   being ahead, and that on a restart reading both tables back, whatever was
   missing from them.
 - `PromptFits` from `TurnInv` and `BuildFacts`.

The assumptions on constants that these use are typing ones, each named in its
module: sizes and lengths are naturals and limits positive ones (`PromptAssumption`,
`MemoryAssumption`: they are token counts), the catalogue of tools is a sequence of tools
(`RoutingAssumption`), and of booleans `CatalogueAssumption`. TLC evaluates them in the runs.

Model-checked only: liveness (`CallsReturn`, `RunEnds`, `StopDrains`, `TurnEnds`,
`CallsReturnAll`), TLAPS having no rules for fairness here. What safety says of them is
proved of three (`GoroutinesGetDone`, `TurnsGetShorter`, `CallsGetShorter`): the steps of a
goroutine, of a turn and of a call are numbered, and no mutex is left behind. What
fairness adds is that each single step is taken.

## 6. Where the code and its texts disagree

- `gate_admission`: a call for a busy key occupies a slot until it is refused, and a
  call whose key no other caller has is refused in between, although fewer turns
  than the limit are active: one caller holds the first key, a second asks for it and
  has taken the last slot, a third with the second key is turned away
  (`turngate.go:34` against the comment at `:10-11`).
- `task_continuation`: `Finish` shows the task as waiting for input before the
  deferred `release` frees its key. A continuation accepted in between is refused
  by the gate and fails the task (`runtime.go:282` against `:199-200`).
- `task_stale`: a task cancelled while it waits for an approval is saved as failed
  with the approval still pending; a restart restores it (`Finish`,
  `task.go:314-336`, against `task_test.go:100-101`).
- `task_forms`: the answer to an earlier form of a task passes the comparison of
  ids with a later one (`runtime.go:241`, `interaction.go:255`).
- `loop_repeat`: a call that failed for a technical reason is accepted again with
  the same arguments (`turn.go:322` against `OCTOSUCKER.md:12`).

- `cron_fence`: a job whose content holds three backquotes is saved to a file that
  the next start cannot read, and the registry refuses to start
  (`cronjob/runner.go:400` against `:103`).

Four texts say more than the models could confirm, without a run of their own.
`activate_skill` promises that "complete SKILL.md instructions remain active for the
conversation" (`builtin/skills/runner.go:124`): `SkillsCarryOver` shows it for turns that end
without an error in one process, a turn that fails forgets what it activated, and
of several active skills a prompt shows those that fit. And a sandbox image whose USER
is not the configured one makes every command remove the container of the last
one (`docker.go:205`); `NeighboursSpared` is conditioned on an image that matches.
`internal/runtime/DESIGN.md:165-166` says that "recommendations require repeated, similar
successful examples"; the code, and `HintsAreBacked`, require two judgements after the last tool and one success for a
goal that resembles the present one. And `DESIGN.md:88` says that "the latest steps are
retained as complete structured units", while a newest step longer than its section is clipped
(`manager.go:245-247`): `PromptFits` says that it is there, not that it is whole.

## 7. Not modelled

`PROJECT.json` has a reason for each component. Left out altogether are the Telegram
ingress and tool (one goroutine that waits for one turn after the other, and one
call), the thinker (one model call), the knowledge graph and the set-up of
the database (SQL statements), and configuration, model client and logs
(parsing, files and HTTP at start-up). Of modelled components, what only
inspects or formats strings is left out: prompts, JSON schemas, the checks of paths and
arguments of commands, the classification of risk, the repair of a form's
keys, the scanning and paging of skills. How OpenCLI reads a text that begins with a
dash is not modelled, nor is a session whose server has an empty name, which
`addProvider` refuses as it does one whose name is taken. `Runtime.Close` is modelled as far as it
closes the registry; that it also clears fields that tasks may still use is a data
race listed under the hazards.
