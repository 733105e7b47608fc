---------------------------- MODULE Toolset_proofs ----------------------------
(***************************************************************************)
(* Proofs about Toolset for any set of turns, any jobs, specs and contents, *)
(* any backends and any MCP endpoints: the types, the scheduled jobs over  *)
(* failed writes, deaths and restarts, the confinement of commands, the    *)
(* removal of containers, and what a failed start or a close leaves open.  *)
(***************************************************************************)
EXTENDS Toolset, FiniteSetTheorems, TLAPS

-----------------------------------------------------------------------------
(* Types. *)

\* A container that exists stays one when it is started or stopped.
LEMMA SwitchContainer ==
  ASSUME container \in {NoContainer} \cup Container, container.exists, NEW r \in BOOLEAN
  PROVE  [container EXCEPT !.running = r] \in Container
<1>1. container \in Container
  BY DEF NoContainer
<1>2. QED
  BY <1>1 DEF Container

\* The initial states have the types.
LEMMA TypeInit == Init => TypeOK
<1> SUFFICES ASSUME Init PROVE TypeOK
  OBVIOUS
<1>1. /\ life = "down" /\ pc \in [Turns -> {"idle"}] /\ cronMu = None /\ ensure = None
      /\ step \in Nat /\ open = {} /\ inside = {} /\ strays = FALSE
  BY DEF Init, CronInit, BoxInit
<1>2. tasks = {} /\ entries = {} /\ promised = {} /\ dropped = {} /\ file \in File
  BY DEF Init, CronInit, File
<1>3. request \in [Turns -> Request]
  BY DEF Init, CronInit, Request
<1>4. backend \in Backends /\ userMatches \in BOOLEAN /\ container \in {NoContainer} \cup Container
  BY DEF Init, BoxInit
<1>5. QED
  BY <1>1, <1>2, <1>3, <1>4 DEF TypeOK

\* A step that starts the process keeps the types.
LEMMA TypeStartUp ==
  ASSUME TypeOK, StartUp PROVE TypeOK'
<1> USE DEF TypeOK
<1>1. CASE Boot
  BY <1>1 DEF Boot, cronVars, boxVars
<1>2. CASE RegisterBuiltin
  BY <1>2 DEF RegisterBuiltin, AddProvider, cronVars, boxVars
<1>3. CASE CreateCronFile
  BY <1>3 DEF CreateCronFile, DefaultFileCreated, File, callVars, boxVars
<1>4. CASE FillCronFile
  BY <1>4 DEF FillCronFile, DefaultFileFilled, File, CronStep, callVars, boxVars
<1>5. CASE RegisterCron
  <2>1. file.jobs \in SUBSET Task
    BY <1>5 DEF RegisterCron, LoadAndSchedule, Decodable, File, Absent, Torn, Encoded
  <2>2. QED
    BY <1>5, <2>1 DEF RegisterCron, LoadAndSchedule, AddProvider, boxVars
<1>6. CASE RegisterSession
  <2>1. \A i \in DOMAIN Endpoints : Endpoints[i] \in RemoteOwners
    BY DEF RemoteOwners, ToSet
  <2>2. open' \subseteq {"cronjob"} \cup RemoteOwners /\ step' = step + 1
    BY <1>6, <2>1 DEF RegisterSession, AddProvider
  <2>3. QED
    BY <1>6, <2>2 DEF RegisterSession, AddProvider, cronVars, boxVars
<1>7. CASE SessionNameTaken
  BY <1>7 DEF SessionNameTaken, RemoteOwners, ToSet, cronVars, boxVars
<1>8. CASE Ready
  BY <1>8 DEF Ready, cronVars, boxVars, regVars
<1>9. CASE \E offered \in Offerings : ReindexTools(offered)
  BY <1>9 DEF ReindexTools, callVars, cronVars, boxVars
<1>10. QED
  BY <1>1, <1>2, <1>3, <1>4, <1>5, <1>6, <1>7, <1>8, <1>9 DEF StartUp

\* A step that ends it does.
LEMMA TypeTearDown ==
  ASSUME TypeOK, TearDown PROVE TypeOK'
<1> USE DEF TypeOK
<1>1. CASE StartFails
  BY <1>1 DEF StartFails, cronVars, boxVars, regVars
<1>2. CASE Close
  BY <1>2 DEF Close, cronVars, boxVars
<1>3. CASE ProcessEnds
  BY <1>3 DEF ProcessEnds, CronForgets, BoxForgets, Busy, Request, NoRequest
<1>4. QED
  BY <1>1, <1>2, <1>3 DEF TearDown

\* A step of the world outside does.
LEMMA TypeOutside ==
  ASSUME TypeOK, Outside PROVE TypeOK'
<1> USE DEF TypeOK
<1>1. ASSUME NEW S \in SUBSET Task, EditFile(S), UNCHANGED <<boxVars, regVars>> PROVE TypeOK'
  <2>1. dropped' = {} /\ promised' = S /\ file' = Encoded(S)
    BY <1>1 DEF EditFile
  <2>2. QED
    BY <1>1, <2>1 DEF EditFile, File, callVars, boxVars, regVars
<1>2. ASSUME StraysEnd, UNCHANGED <<cronVars, regVars>> PROVE TypeOK'
  BY <1>2 DEF StraysEnd, callVars, cronVars, regVars
<1>3. ASSUME OutsiderStops, UNCHANGED <<cronVars, regVars>> PROVE TypeOK'
  <2>1. container' \in {NoContainer} \cup Container
    BY <1>3, SwitchContainer DEF OutsiderStops
  <2>2. QED
    BY <1>3, <2>1 DEF OutsiderStops, callVars, cronVars, regVars
<1>4. QED
  BY <1>1, <1>2, <1>3 DEF Outside

\* A step of a cron tool does.
LEMMA TypeCron ==
  ASSUME TypeOK, NEW t \in Turns, CronCall(t), UNCHANGED <<boxVars, regVars>> PROVE TypeOK'
<1> USE DEF TypeOK, Goto
<1>1. ASSUME NEW j \in Task, CreateTask(t, j) PROVE TypeOK'
  BY <1>1 DEF CreateTask, Request, boxVars, regVars
<1>2. ASSUME NEW j \in Task, DeleteTask(t, j) PROVE TypeOK'
  BY <1>2 DEF DeleteTask, Request, boxVars, regVars
<1>3. CASE TruncateFile(t)
  BY <1>3 DEF TruncateFile, File, boxVars, regVars
<1>4. CASE FillFile(t)
  BY <1>4 DEF FillFile, File, boxVars, regVars
<1>5. CASE Report(t)
  <2>1. request[t] \in Request
    OBVIOUS
  <2>2. request[t].op # "none" => request[t].task \in Task /\ request[t].task.id \in JobIds
    BY <2>1 DEF Request, NoRequest, Task
  <2>3. QED
    BY <1>5, <2>2 DEF Report, Return, Request, boxVars, regVars
<1>6. CASE PersistFails(t)
  BY <1>6 DEF PersistFails, Return, Request, boxVars, regVars
<1>7. QED
  BY <1>1, <1>2, <1>3, <1>4, <1>5, <1>6 DEF CronCall

\* A step of run_command does.
LEMMA TypeCommand ==
  ASSUME TypeOK, NEW t \in Turns, CommandCall(t), UNCHANGED <<cronVars, regVars>> PROVE TypeOK'
<1> USE DEF TypeOK, Goto, cronVars, regVars
<1>1. CASE RunCommand(t) \/ LockSandbox(t) \/ InspectSandbox(t)
  BY <1>1 DEF RunCommand, LockSandbox, InspectSandbox, boxVars
<1>2. CASE RemoveSandbox(t)
  BY <1>2 DEF RemoveSandbox
<1>3. CASE StartSandbox(t)
  <2>1. container' \in Container
    BY <1>3, SwitchContainer DEF StartSandbox
  <2>2. QED
    BY <1>3, <2>1 DEF StartSandbox
<1>4. CASE CreateSandbox(t)
  BY <1>4 DEF CreateSandbox, NewContainer, Container
<1>5. CASE EnsureFails(t)
  <2>1. \/ container' = container \/ container' = NoContainer
        \/ container.exists /\ container' = [container EXCEPT !.running = TRUE]
        \/ \E r \in BOOLEAN : container' = NewContainer(r)
    BY <1>5 DEF EnsureFails
  <2>2. \A r \in BOOLEAN : NewContainer(r) \in Container
    BY DEF NewContainer, Container
  <2>3. container' \in {NoContainer} \cup Container
    BY <2>1, <2>2, SwitchContainer
  <2>4. QED
    BY <1>5, <2>3 DEF EnsureFails
<1>6. CASE ExecStarts(t) \/ ExecFails(t) \/ ExecEnds(t) \/ ExecTimesOut(t) \/ HostRunEnds(t)
  BY <1>6 DEF ExecStarts, ExecFails, ExecEnds, ExecTimesOut, HostRunEnds, boxVars
<1>7. QED
  BY <1>1, <1>2, <1>3, <1>4, <1>5, <1>6 DEF CommandCall, CommandStep

\* The types are kept.
LEMMA TypeNext == ASSUME TypeOK, [Next]_vars PROVE TypeOK'
<1>1. ASSUME NEW t \in Turns, CallRemote(t) \/ RemoteReturns(t) PROVE TypeOK'
  BY <1>1 DEF CallRemote, RemoteReturns, Goto, TypeOK, cronVars, boxVars, regVars
<1>2. ASSUME NEW t \in Turns, Call(t) PROVE TypeOK'
  BY <1>1, <1>2, TypeCron, TypeCommand DEF Call
<1>3. CASE UNCHANGED vars
  BY <1>3 DEF TypeOK, vars, callVars, cronVars, boxVars, regVars
<1>4. QED
  BY <1>2, <1>3, TypeStartUp, TypeTearDown, TypeOutside DEF Next

\* Every variable keeps its type, over starts, failures and deaths.
THEOREM TypesHold == Spec => []TypeOK
<1>1. Init => TypeOK
  BY TypeInit
<1>2. TypeOK /\ [Next]_vars => TypeOK'
  BY TypeNext
<1>3. QED
  BY <1>1, <1>2, PTL DEF Spec

-----------------------------------------------------------------------------
(* Commands. *)

\* A turn that is about to start a container, or a process in it, has seen that the
\* container has the restrictions; another one of that name has them too.
Seen == \A t \in Turns : pc[t] \in {"start", "exec"} => ~container.exists \/ container.hardened

BoxInv == Confined /\ Seen

\* What exists is a container, what runs exists.
LEMMA ContainerFacts ==
  ASSUME TypeOK
  PROVE  /\ container.exists \in BOOLEAN /\ container.running \in BOOLEAN /\ container.hardened \in BOOLEAN
         /\ container.running => container.exists
         /\ ~NoContainer.exists /\ ~NoContainer.running
<1>1. CASE container = NoContainer
  BY <1>1 DEF NoContainer
<1>2. CASE container \in Container
  BY <1>2 DEF NoContainer, Container
<1>3. QED
  BY <1>1, <1>2 DEF TypeOK

\* Starting or stopping a container changes nothing else of it.
LEMMA SwitchFacts ==
  ASSUME TypeOK, container.exists, NEW r \in BOOLEAN
  PROVE  LET c == [container EXCEPT !.running = r]
         IN c.running = r /\ c.exists /\ c.hardened = container.hardened
<1>1. container \in Container
  BY DEF TypeOK, NoContainer
<1>2. QED
  BY <1>1 DEF Container

\* A new container has the restrictions.
LEMMA NewFacts ==
  ASSUME NEW r \in BOOLEAN
  PROVE  NewContainer(r).hardened /\ NewContainer(r).exists /\ NewContainer(r).running = r
BY DEF NewContainer

\* Nothing runs in the container at first.
LEMMA BoxBegins == Init => BoxInv
BY DEF Init, BoxInit, BoxInv, Confined, Seen, Busy

\* A step of run_command keeps what runs confined.
LEMMA BoxCommand ==
  ASSUME TypeOK, BoxInv, NEW t \in Turns, CommandCall(t) PROVE BoxInv'
<1> USE ContainerFacts DEF BoxInv, Seen, Confined, Busy, Goto
<1>0. pc \in [Turns -> {"idle", "persist", "writing", "written", "remote", "hostRun", "lock", "inspect",
                         "remove", "start", "create", "exec", "inContainer"}]
  BY DEF TypeOK
<1>1. CASE RunCommand(t) \/ LockSandbox(t) \/ ExecFails(t) \/ HostRunEnds(t)
  BY <1>0, <1>1 DEF RunCommand, LockSandbox, ExecFails, HostRunEnds, boxVars
<1>2. CASE InspectSandbox(t)
  BY <1>0, <1>2 DEF InspectSandbox, Valid
<1>3. CASE RemoveSandbox(t)
  BY <1>0, <1>3 DEF RemoveSandbox
<1>4. CASE StartSandbox(t)
  <2>1. container'.running /\ container'.hardened = container.hardened /\ container.exists
    BY <1>4, SwitchFacts DEF StartSandbox
  <2>2. container.hardened
    BY <1>4, <2>1 DEF StartSandbox
  <2>3. QED
    BY <1>0, <1>4, <2>1, <2>2 DEF StartSandbox
<1>5. CASE CreateSandbox(t)
  <2>1. container'.running /\ container'.hardened
    BY <1>5, NewFacts DEF CreateSandbox
  <2>2. QED
    BY <1>0, <1>5, <2>1 DEF CreateSandbox
<1>6. CASE EnsureFails(t)
  <2>1. pc' = [pc EXCEPT ![t] = "idle"]
    BY <1>6 DEF EnsureFails
  <2>2. CASE container' = container /\ inside' = inside /\ strays' = strays
    BY <1>0, <2>1, <2>2
  <2>3. CASE container' = NoContainer /\ inside' = {} /\ strays' = FALSE
    BY <1>0, <2>1, <2>3
  <2>4. CASE /\ container.exists /\ container' = [container EXCEPT !.running = TRUE]
             /\ inside' = inside /\ strays' = strays
    <3>1. container'.running /\ container'.hardened = container.hardened
      BY <2>4, SwitchFacts
    <3>2. QED
      BY <1>0, <2>1, <2>4, <3>1
  <2>5. CASE /\ ~container.exists /\ inside' = inside /\ strays' = strays
             /\ \E r \in BOOLEAN : container' = NewContainer(r)
    <3>1. container'.hardened /\ ~Busy
      BY <2>5, NewFacts
    <3>2. QED
      BY <1>0, <2>1, <2>5, <3>1
  <2>6. QED
    BY <1>6, <2>2, <2>3, <2>4, <2>5 DEF EnsureFails
<1>7. CASE ExecStarts(t) \/ ExecEnds(t) \/ ExecTimesOut(t)
  BY <1>0, <1>7 DEF ExecStarts, ExecEnds, ExecTimesOut
<1>8. QED
  BY <1>1, <1>2, <1>3, <1>4, <1>5, <1>6, <1>7 DEF CommandCall, CommandStep

\* So does every other step.
LEMMA BoxNext == ASSUME TypeOK, BoxInv, [Next]_vars PROVE BoxInv'
<1> USE DEF BoxInv, Seen, Confined, Busy
<1>0. pc \in [Turns -> {"idle", "persist", "writing", "written", "remote", "hostRun", "lock", "inspect",
                         "remove", "start", "create", "exec", "inContainer"}]
  BY DEF TypeOK
<1>1. ASSUME UNCHANGED boxVars, UNCHANGED pc PROVE BoxInv'
  BY <1>1 DEF boxVars
<1>2. CASE StartUp \/ StartFails \/ Close \/ UNCHANGED vars
  <2>1. UNCHANGED boxVars /\ UNCHANGED pc
    BY <1>2 DEF StartUp, Boot, RegisterBuiltin, CreateCronFile, FillCronFile, RegisterCron, RegisterSession,
                SessionNameTaken, Ready, ReindexTools, AddProvider, StartFails, Close, vars, callVars
  <2>2. QED
    BY <1>1, <2>1
<1>3. CASE ProcessEnds
  BY <1>3 DEF ProcessEnds, BoxForgets
<1>4. CASE Outside
  <2>1. CASE \E S \in SUBSET Task : EditFile(S) /\ UNCHANGED <<boxVars, regVars>>
    BY <1>1, <2>1 DEF EditFile, callVars
  <2>2. CASE StraysEnd
    BY <2>2 DEF StraysEnd, callVars
  <2>3. CASE OutsiderStops
    <3>1. container' = NoContainer \/ (container'.hardened = container.hardened /\ container.exists)
      BY <2>3, SwitchFacts DEF OutsiderStops
    <3>2. QED
      BY <2>3, <3>1, ContainerFacts DEF OutsiderStops, callVars
  <2>4. QED
    BY <1>4, <2>1, <2>2, <2>3 DEF Outside
<1>5. ASSUME NEW t \in Turns, CronCall(t), UNCHANGED boxVars PROVE BoxInv'
  <2>1. \E q \in {"idle", "persist", "writing", "written"} : pc' = [pc EXCEPT ![t] = q]
    BY <1>5 DEF CronCall, CreateTask, DeleteTask, TruncateFile, FillFile, Report, PersistFails, Return, Goto
  <2>2. QED
    BY <1>0, <1>5, <2>1 DEF boxVars
<1>6. ASSUME NEW t \in Turns, CallRemote(t) \/ RemoteReturns(t) PROVE BoxInv'
  BY <1>0, <1>6 DEF CallRemote, RemoteReturns, Goto, boxVars
<1>7. QED
  BY <1>2, <1>3, <1>4, <1>5, <1>6, BoxCommand DEF Next, TearDown, Call

\* Commands run in a container with the restrictions of ensureSandbox, whoever
\* replaces, stops and starts it meanwhile.
THEOREM CommandsConfined == Spec => []Confined
<1>1. Init => TypeOK /\ BoxInv
  BY TypeInit, BoxBegins
<1>2. TypeOK /\ BoxInv /\ [Next]_vars => (TypeOK /\ BoxInv)'
  BY TypeNext, BoxNext
<1>3. BoxInv => Confined
  BY DEF BoxInv
<1>4. QED
  BY <1>1, <1>2, <1>3, PTL DEF Spec

-----------------------------------------------------------------------------
(* Jobs. *)

\* The maps agree with what was reported.
Kept == promised \subseteq tasks /\ \A j \in tasks : j.id \notin dropped

\* The jobs have been read: the start has come past the cron provider.
Loaded == Serving \/ (life = "starting" /\ step > CronStep)

\* A file that can be read agrees with it; the default file is for who has no jobs.
FileKeeps ==
    /\ file = Absent => promised = {}
    /\ life = "starting" /\ step = 0 => promised = {}
    /\ file.state = "whole" => promised \subseteq file.jobs /\ \A j \in file.jobs : j.id \notin dropped

\* What holds while t has the mutex: its job is in or out of the map already, and
\* not reported yet; when the file is written it holds the whole map.
CallKeeps(t) ==
    pc[t] \in {"persist", "writing", "written"} =>
        /\ Serving /\ cronMu = t
        /\ request[t].op = "create" => request[t].task \in tasks \ promised
        /\ request[t].op = "delete" => WithId(tasks, request[t].task.id) = {}
        /\ pc[t] = "written" => file = Encoded(tasks)

CronInv == /\ entries = tasks /\ Schedulable(tasks)
           /\ Loaded => Kept
           /\ FileKeeps
           /\ \A t \in Turns : CallKeeps(t)

\* There is nothing to keep at first.
LEMMA CronBegins == Init => CronInv
BY DEF Init, CronInit, CronInv, Schedulable, Loaded, Serving, FileKeeps, Absent, CallKeeps

\* The cron provider is the sixth, and the endpoints come after it.
LEMMA CronIsSixth ==
  ASSUME step \in Nat
  PROVE  /\ Opening("cronjob") => step = CronStep
         /\ \A name : Opening(name) /\ name # "cronjob" => step # CronStep
         /\ \A i \in DOMAIN Endpoints : Connecting(i) => step > CronStep
         /\ Registered \in Nat /\ Registered >= CronStep
<1>1. Builtins[6] = "cronjob" /\ DOMAIN Builtins = 1..7 /\ Len(Builtins) = 7
  BY DEF Builtins
<1>2. \A i \in 1..7 : Builtins[i] = "cronjob" => i = 6
  BY DEF Builtins
<1>3. Len(Endpoints) \in Nat /\ DOMAIN Endpoints = 1..Len(Endpoints)
  BY ToolsetAssumption
<1>4. QED
  BY <1>1, <1>2, <1>3 DEF Opening, Connecting, Registered, CronStep

\* A step that starts the process keeps the jobs.
LEMMA CronStartUp == ASSUME TypeOK, CronInv, StartUp PROVE CronInv'
<1> USE CronIsSixth DEF CronInv, FileKeeps, CallKeeps, Loaded, Serving, Kept
<1>0. step \in Nat
  BY DEF TypeOK
<1>1. CASE Boot
  BY <1>0, <1>1 DEF Boot, cronVars, CronStep
<1>2. CASE RegisterBuiltin
  <2>1. step # CronStep /\ step # 0
    BY <1>0, <1>2 DEF RegisterBuiltin, Opening, Builtins
  <2>2. UNCHANGED <<life, pc, cronVars>> /\ step' = step + 1 /\ life = "starting"
    BY <1>2 DEF RegisterBuiltin, AddProvider, Opening
  <2>3. QED
    BY <1>0, <2>1, <2>2 DEF cronVars, CronStep
<1>3. CASE CreateCronFile
  <2>1. file = Absent /\ file' = Torn /\ life = "starting" /\ step' = 0
        /\ UNCHANGED <<life, pc, tasks, entries, cronMu, request, promised, dropped>>
    BY <1>3 DEF CreateCronFile, DefaultFileCreated, Opening, callVars
  <2>2. Torn.state = "torn" /\ Torn # Absent
    BY DEF Torn, Absent
  <2>3. QED
    BY <2>1, <2>2 DEF CronStep
<1>4. CASE FillCronFile
  <2>1. file' = Encoded({}) /\ promised = {} /\ life = "starting" /\ step' = CronStep
        /\ UNCHANGED <<life, pc, tasks, entries, cronMu, request, promised, dropped>>
    BY <1>4 DEF FillCronFile, DefaultFileFilled, callVars
  <2>2. Encoded({}).jobs = {} /\ Encoded({}) # Absent
    BY DEF Encoded, Absent
  <2>3. QED
    BY <2>1, <2>2 DEF CronStep
<1>5. CASE RegisterCron
  <2>1. /\ file.state = "whole" /\ Schedulable(file.jobs) /\ tasks' = file.jobs /\ entries' = file.jobs
        /\ life = "starting" /\ step' = step + 1
        /\ UNCHANGED <<life, pc, file, cronMu, request, promised, dropped>>
    BY <1>5 DEF RegisterCron, LoadAndSchedule, Decodable, AddProvider, Opening
  <2>2. Schedulable(tasks')
    BY <2>1
  <2>3. QED
    BY <1>0, <2>1, <2>2 DEF Schedulable
<1>6. CASE RegisterSession
  <2>1. UNCHANGED <<life, pc, cronVars>> /\ step' = step + 1 /\ step > CronStep /\ life = "starting"
    BY <1>0, <1>6 DEF RegisterSession, AddProvider, Connecting
  <2>2. QED
    BY <1>0, <2>1 DEF cronVars, CronStep
<1>7. CASE SessionNameTaken
  <2>1. UNCHANGED <<pc, cronVars, step>> /\ life = "starting" /\ life' = "failing"
    BY <1>7 DEF SessionNameTaken, Connecting
  <2>2. QED
    BY <2>1 DEF cronVars, Schedulable
<1>8. CASE Ready
  <2>1. UNCHANGED <<pc, cronVars, step>> /\ life = "starting" /\ life' = "up" /\ step = Registered + 2
    BY <1>8 DEF Ready, regVars
  <2>2. Registered \in Nat /\ step > CronStep
    BY <1>0, <2>1 DEF CronStep
  <2>3. QED
    BY <1>0, <2>1, <2>2 DEF cronVars, Schedulable
<1>9. CASE \E offered \in Offerings : ReindexTools(offered)
  <2>1. UNCHANGED <<life, pc, cronVars>> /\ life = "starting" /\ step = Registered + 1 /\ step' = step + 1
    BY <1>9 DEF ReindexTools, callVars
  <2>2. Registered \in Nat /\ step > CronStep /\ step' > CronStep
    BY <1>0, <2>1 DEF CronStep
  <2>3. QED
    BY <1>0, <2>1, <2>2 DEF cronVars, Schedulable
<1>10. QED
  BY <1>1, <1>2, <1>3, <1>4, <1>5, <1>6, <1>7, <1>8, <1>9 DEF StartUp

\* A step of a cron tool does.
LEMMA CronTool == ASSUME TypeOK, CronInv, NEW t \in Turns, CronCall(t) PROVE CronInv'
<1> USE DEF CronInv, FileKeeps, CallKeeps, Loaded, Kept, Goto
<1>0. /\ pc \in [Turns -> {"idle", "persist", "writing", "written", "remote", "hostRun", "lock", "inspect",
                         "remove", "start", "create", "exec", "inContainer"}]
      /\ request \in [Turns -> Request] /\ cronMu \in Turns \cup {None} /\ None \notin Turns
  BY TurnsAssumption DEF TypeOK
<1>1. ASSUME NEW j \in Task, CreateTask(t, j) PROVE CronInv'
  <2>1. Serving /\ Serving' /\ Kept
    BY <1>1 DEF CreateTask, Serving
  <2>2. Schedulable(tasks')
    BY <1>1 DEF CreateTask, Schedulable, WithId
  <2>3. Kept' /\ j \notin promised
    BY <1>1, <2>1 DEF CreateTask, WithId
  <2>4. FileKeeps'
    BY <1>1, <2>1 DEF CreateTask, Serving
  <2>5. \A u \in Turns : CallKeeps(u)'
    BY <1>0, <1>1, <2>1, <2>3 DEF CreateTask
  <2>6. QED
    BY <1>1, <2>2, <2>3, <2>4, <2>5 DEF CreateTask
<1>2. ASSUME NEW j \in Task, DeleteTask(t, j) PROVE CronInv'
  <2>1. Serving /\ Serving' /\ Kept
    BY <1>2 DEF DeleteTask, Serving
  <2>2. Schedulable(tasks') /\ WithId(tasks', j.id) = {}
    BY <1>2 DEF DeleteTask, Schedulable, WithId
  <2>3. Kept'
    BY <1>2, <2>1 DEF DeleteTask
  <2>4. FileKeeps'
    BY <1>2, <2>1 DEF DeleteTask, Serving
  <2>5. \A u \in Turns : CallKeeps(u)'
    BY <1>0, <1>2, <2>1, <2>2 DEF DeleteTask
  <2>6. QED
    BY <1>2, <2>2, <2>3, <2>4, <2>5 DEF DeleteTask
<1>3. CASE TruncateFile(t)
  <2>1. Torn.state = "torn" /\ Torn # Absent
    BY DEF Torn, Absent
  <2>2. QED
    BY <1>0, <1>3, <2>1 DEF TruncateFile, Serving
<1>4. CASE FillFile(t)
  <2>1. Encoded(tasks).jobs = tasks /\ Encoded(tasks) # Absent
    BY DEF Encoded, Absent
  <2>2. Serving /\ Kept /\ cronMu = t
    BY <1>4 DEF FillFile
  <2>3. FileKeeps'
    BY <1>4, <2>1, <2>2 DEF FillFile, Serving
  <2>4. \A u \in Turns : CallKeeps(u)'
    BY <1>0, <1>4, <2>2 DEF FillFile, Serving
  <2>5. QED
    BY <1>4, <2>3, <2>4 DEF FillFile, Serving, Schedulable
<1>5. CASE Report(t)
  <2>1. /\ Serving /\ Serving' /\ Kept /\ cronMu = t /\ file = Encoded(tasks)
        /\ UNCHANGED <<life, tasks, entries, file>>
        /\ pc' = [pc EXCEPT ![t] = "idle"] /\ cronMu' = None
    BY <1>5 DEF Report, Return, Serving
  <2>2. Encoded(tasks).jobs = tasks /\ Encoded(tasks) # Absent
    BY DEF Encoded, Absent
  <2>3. Kept'
    BY <1>5, <2>1 DEF Report, Return, WithId
  <2>4. FileKeeps'
    BY <2>1, <2>2, <2>3 DEF Serving
  <2>5. \A u \in Turns : CallKeeps(u)'
    BY <1>0, <2>1
  <2>6. QED
    BY <2>1, <2>3, <2>4, <2>5 DEF Schedulable
<1>6. CASE PersistFails(t)
  <2>1. /\ Serving /\ Serving' /\ Kept /\ cronMu = t
        /\ UNCHANGED <<life, file, promised, dropped>>
        /\ pc' = [pc EXCEPT ![t] = "idle"] /\ cronMu' = None
    BY <1>6 DEF PersistFails, Return, Serving
  <2>2. tasks' \subseteq tasks /\ entries' = tasks' /\ promised \subseteq tasks'
    BY <1>6, <2>1 DEF PersistFails, Return
  <2>3. Schedulable(tasks')
    BY <2>2 DEF Schedulable
  <2>4. FileKeeps'
    BY <2>1 DEF Serving
  <2>5. \A u \in Turns : CallKeeps(u)'
    BY <1>0, <2>1
  <2>6. QED
    BY <2>1, <2>2, <2>3, <2>4, <2>5
<1>7. QED
  BY <1>1, <1>2, <1>3, <1>4, <1>5, <1>6 DEF CronCall

\* Every step does.
LEMMA CronNext == ASSUME TypeOK, CronInv, [Next]_vars PROVE CronInv'
<1> USE DEF CronInv, FileKeeps, CallKeeps, Loaded, Serving, Kept
<1>0. pc \in [Turns -> {"idle", "persist", "writing", "written", "remote", "hostRun", "lock", "inspect",
                         "remove", "start", "create", "exec", "inContainer"}]
  BY DEF TypeOK
<1>1. CASE StartFails \/ Close
  BY <1>1 DEF StartFails, Close, cronVars, regVars
<1>2. CASE ProcessEnds
  BY <1>2 DEF ProcessEnds, CronForgets, Schedulable
<1>3. ASSUME NEW S \in SUBSET Task, EditFile(S) PROVE CronInv'
  <2>1. Encoded(S).jobs = S /\ Encoded(S) # Absent
    BY DEF Encoded, Absent
  <2>2. QED
    BY <1>3, <2>1 DEF EditFile, callVars, Schedulable
<1>4. CASE (StraysEnd \/ OutsiderStops) /\ UNCHANGED <<cronVars, regVars>>
  BY <1>4 DEF StraysEnd, OutsiderStops, callVars, cronVars, regVars, Schedulable
<1>5. ASSUME NEW t \in Turns, CommandCall(t) \/ CallRemote(t) \/ RemoteReturns(t),
             UNCHANGED <<cronVars, regVars>>
      PROVE  CronInv'
  <2>1. UNCHANGED life
    BY <1>5 DEF CommandCall, CommandStep, RunCommand, LockSandbox, InspectSandbox, RemoveSandbox, StartSandbox,
                CreateSandbox, EnsureFails, ExecStarts, ExecFails, ExecEnds, ExecTimesOut, HostRunEnds,
                CallRemote, RemoteReturns
  <2>2. \E q \in {"idle", "remote", "hostRun", "lock", "inspect", "remove", "start", "create", "exec",
                   "inContainer"} : pc' = [pc EXCEPT ![t] = q]
    BY <1>5 DEF CommandCall, CommandStep, RunCommand, LockSandbox, InspectSandbox, RemoveSandbox, StartSandbox,
                CreateSandbox, EnsureFails, ExecStarts, ExecFails, ExecEnds, ExecTimesOut, HostRunEnds,
                CallRemote, RemoteReturns, Goto
  <2>3. QED
    BY <1>0, <1>5, <2>1, <2>2 DEF cronVars, regVars, Schedulable
<1>6. CASE UNCHANGED vars
  BY <1>6 DEF vars, callVars, cronVars, regVars, Schedulable
<1>7. ASSUME NEW t \in Turns, Call(t) PROVE CronInv'
  <2>1. CASE CronCall(t)
    BY <2>1, CronTool
  <2>2. QED
    BY <1>5, <1>7, <2>1 DEF Call, CallRemote, RemoteReturns
<1>8. QED
  BY <1>1, <1>2, <1>3, <1>4, <1>6, <1>7, CronStartUp DEF Next, TearDown, Outside

\* Between calls the scheduler runs the jobs of the map, one per id.
THEOREM JobsStayScheduled == Spec => []JobsScheduled
<1>1. Init => TypeOK /\ CronInv
  BY TypeInit, CronBegins
<1>2. TypeOK /\ CronInv /\ [Next]_vars => (TypeOK /\ CronInv)'
  BY TypeNext, CronNext
<1>3. CronInv => JobsScheduled
  BY DEF CronInv, JobsScheduled
<1>4. QED
  BY <1>1, <1>2, <1>3, PTL DEF Spec

\* A process that serves has the jobs it, or one before it, reported as created, and
\* not those reported as deleted, whichever writes failed or were cut short.
THEOREM ReportedJobsAreKept == Spec => []JobsKept
<1>1. Init => TypeOK /\ CronInv
  BY TypeInit, CronBegins
<1>2. TypeOK /\ CronInv /\ [Next]_vars => (TypeOK /\ CronInv)'
  BY TypeNext, CronNext
<1>3. CronInv => JobsKept
  BY DEF CronInv, JobsKept, Loaded, Kept
<1>4. QED
  BY <1>1, <1>2, <1>3, PTL DEF Spec
-----------------------------------------------------------------------------
(* Containers are not removed under a neighbour. *)

\* The mutex is held from the inspection to the start or the creation.
Locked == \A t \in Turns : pc[t] \in {"inspect", "remove", "start", "create"} => ensure = t

\* Where the image has the configured user, every process is in a valid container, a
\* turn about to start one has seen a valid one, and a turn about to remove one an
\* invalid one, which stays invalid as long as the turn has the mutex.
Trusted ==
    userMatches =>
        /\ Busy => Valid(container)
        /\ \A t \in Turns : /\ pc[t] \in {"start", "exec"} => ~container.exists \/ Valid(container)
                            /\ pc[t] = "remove" => ~container.exists \/ ~Valid(container)

SpareInv == Locked /\ Trusted

\* Starting or stopping a container leaves it as valid as it was.
LEMMA SwitchValid ==
  ASSUME TypeOK, container.exists, NEW r \in BOOLEAN
  PROVE  Valid([container EXCEPT !.running = r]) = Valid(container)
<1>1. container \in Container
  BY DEF TypeOK, NoContainer
<1>2. QED
  BY <1>1 DEF Container, Valid

\* A new one is valid if the image has the user.
LEMMA NewValid == ASSUME NEW r \in BOOLEAN, userMatches PROVE Valid(NewContainer(r))
BY DEF NewContainer, Valid

\* No turn is in the mutex at first, and nothing runs.
LEMMA SpareBegins == Init => SpareInv
BY DEF Init, BoxInit, SpareInv, Locked, Trusted, Busy

\* A step that goes from one place outside the mutex, with nothing to do, to another
\* disturbs neither; so does one that leaves the mutex.
LEMMA SpareMoves ==
  ASSUME TypeOK, SpareInv, NEW t \in Turns,
         NEW q \in {"idle", "persist", "writing", "written", "remote", "hostRun", "lock", "inContainer"},
         pc' = [pc EXCEPT ![t] = q],
         ensure' = ensure \/ pc[t] \in {"inspect", "remove", "start", "create"},
         userMatches' = userMatches,
         userMatches => /\ Busy' => Valid(container')
                        /\ ~container'.exists \/ (container.exists /\ Valid(container') = Valid(container))
                             \/ (pc[t] = "create" /\ Valid(container'))
  PROVE  SpareInv'
<1> USE DEF SpareInv, Locked
<1>0. pc \in [Turns -> {"idle", "persist", "writing", "written", "remote", "hostRun", "lock", "inspect",
                         "remove", "start", "create", "exec", "inContainer"}]
      /\ userMatches \in BOOLEAN
  BY DEF TypeOK
<1>1. Locked'
  BY <1>0
<1>2. ASSUME userMatches, NEW u \in Turns
      PROVE  /\ pc'[u] \in {"start", "exec"} => ~container'.exists \/ Valid(container')
             /\ pc'[u] = "remove" => ~container'.exists \/ ~Valid(container')
  BY <1>0, <1>2 DEF Trusted
<1>3. Trusted'
  BY <1>0, <1>2 DEF Trusted
<1>4. QED
  BY <1>1, <1>3

\* A step of run_command keeps the mutex and what was seen under it.
LEMMA SpareCommand ==
  ASSUME TypeOK, SpareInv, NEW t \in Turns, CommandCall(t) PROVE SpareInv'
<1> USE DEF Goto
<1>0. /\ pc \in [Turns -> {"idle", "persist", "writing", "written", "remote", "hostRun", "lock", "inspect",
                         "remove", "start", "create", "exec", "inContainer"}]
      /\ userMatches \in BOOLEAN /\ None \notin Turns
  BY TurnsAssumption DEF TypeOK
<1>1. ASSUME container' = container, Busy' => Busy, ensure' = ensure, userMatches' = userMatches,
             NEW q \in {"idle", "persist", "writing", "written", "remote", "hostRun", "lock", "inContainer"},
             pc' = [pc EXCEPT ![t] = q]
      PROVE  SpareInv'
  BY <1>0, <1>1 DEF SpareInv, Locked, Trusted
<1>2. CASE RunCommand(t) \/ ExecFails(t) \/ HostRunEnds(t)
  BY <1>1, <1>2 DEF RunCommand, ExecFails, HostRunEnds, boxVars, Busy
<1>3. CASE LockSandbox(t)
  BY <1>0, <1>3 DEF LockSandbox, SpareInv, Locked, Trusted, Busy
<1>4. CASE InspectSandbox(t)
  <2>0. Valid(container) \in BOOLEAN /\ container.running \in BOOLEAN /\ container.exists \in BOOLEAN
        /\ (container.running => container.exists)
    BY ContainerFacts DEF Valid
  <2>1. Locked'
    <3>1. ensure = t /\ \A u \in Turns : u # t => pc[u] \notin {"inspect", "remove", "start", "create"}
      BY <1>4 DEF InspectSandbox, SpareInv, Locked
    <3>2. ensure' = t \/ pc'[t] = "exec"
      BY <1>0, <1>4, <2>0, <3>1 DEF InspectSandbox
    <3>3. \A u \in Turns : u # t => pc'[u] = pc[u]
      BY <1>0, <1>4 DEF InspectSandbox
    <3>4. QED
      BY <3>1, <3>2, <3>3 DEF Locked
  <2>2. Trusted'
    BY <1>0, <1>4 DEF InspectSandbox, SpareInv, Trusted, Busy
  <2>3. QED
    BY <2>1, <2>2 DEF SpareInv
<1>5. CASE RemoveSandbox(t)
  <2>1. Locked' /\ ~Busy' /\ ~container'.exists
    BY <1>0, <1>5 DEF RemoveSandbox, SpareInv, Locked, Busy, NoContainer
  <2>2. QED
    BY <2>1 DEF SpareInv, Trusted
<1>6. CASE StartSandbox(t)
  <2>1. /\ Valid(container') = Valid(container) /\ pc' = [pc EXCEPT ![t] = "exec"] /\ pc[t] = "start"
        /\ container.exists /\ userMatches' = userMatches /\ Busy' = Busy /\ ensure = t
    BY <1>6, SwitchValid DEF StartSandbox, SpareInv, Locked, Busy
  <2>2. Locked'
    BY <1>0, <2>1 DEF SpareInv, Locked
  <2>3. Trusted'
    BY <1>0, <2>1 DEF SpareInv, Trusted
  <2>4. QED
    BY <2>2, <2>3 DEF SpareInv
<1>7. CASE CreateSandbox(t)
  <2>1. /\ userMatches => Valid(container')
        /\ pc' = [pc EXCEPT ![t] = "exec"] /\ pc[t] = "create" /\ userMatches' = userMatches /\ ensure = t
    BY <1>7, NewValid DEF CreateSandbox, SpareInv, Locked
  <2>2. Locked'
    BY <1>0, <2>1 DEF SpareInv, Locked
  <2>3. \A u \in Turns : pc'[u] # "remove"
    BY <1>0, <2>1 DEF SpareInv, Locked
  <2>4. QED
    BY <2>1, <2>2, <2>3 DEF SpareInv, Trusted
<1>8. CASE EnsureFails(t)
  <2>1. /\ pc' = [pc EXCEPT ![t] = "idle"] /\ pc[t] \in {"inspect", "remove", "start", "create"}
        /\ userMatches' = userMatches
    BY <1>8 DEF EnsureFails
  <2>2. userMatches => /\ Busy' => Valid(container')
                       /\ ~container'.exists \/ (container.exists /\ Valid(container') = Valid(container))
                             \/ (pc[t] = "create" /\ Valid(container'))
    <3>0. container.exists \in BOOLEAN /\ ~NoContainer.exists
      BY ContainerFacts
    <3>1. CASE container' = container /\ inside' = inside /\ strays' = strays
      BY <3>0, <3>1 DEF SpareInv, Trusted, Busy
    <3>2. CASE container' = NoContainer /\ inside' = {} /\ strays' = FALSE
      BY <3>0, <3>2 DEF Busy
    <3>3. CASE /\ container.exists /\ container' = [container EXCEPT !.running = TRUE]
               /\ inside' = inside /\ strays' = strays
      BY <3>3, SwitchValid DEF SpareInv, Trusted, Busy
    <3>4. CASE pc[t] = "create" /\ \E r \in BOOLEAN : container' = NewContainer(r)
      BY <3>4, NewValid
    <3>5. QED
      BY <1>8, <3>1, <3>2, <3>3, <3>4 DEF EnsureFails
  <2>3. QED
    BY <2>1, <2>2, SpareMoves
<1>9. CASE ExecStarts(t)
  <2>1. container.exists /\ pc[t] = "exec"
    BY <1>9, ContainerFacts DEF ExecStarts
  <2>2. QED
    BY <1>0, <1>9, <2>1 DEF ExecStarts, SpareInv, Locked, Trusted
<1>10. CASE ExecEnds(t) \/ ExecTimesOut(t)
  BY <1>1, <1>10 DEF ExecEnds, ExecTimesOut, Busy
<1>11. QED
  BY <1>2, <1>3, <1>4, <1>5, <1>6, <1>7, <1>8, <1>9, <1>10 DEF CommandCall, CommandStep

\* So does every other step.
LEMMA SpareNext == ASSUME TypeOK, SpareInv, [Next]_vars PROVE SpareInv'
<1>0. pc \in [Turns -> {"idle", "persist", "writing", "written", "remote", "hostRun", "lock", "inspect",
                         "remove", "start", "create", "exec", "inContainer"}]
  BY DEF TypeOK
<1>1. ASSUME UNCHANGED boxVars, UNCHANGED pc PROVE SpareInv'
  BY <1>1 DEF boxVars, SpareInv, Locked, Trusted, Busy
<1>2. CASE StartUp \/ StartFails \/ Close \/ UNCHANGED vars
  <2>1. UNCHANGED boxVars /\ UNCHANGED pc
    BY <1>2 DEF StartUp, Boot, RegisterBuiltin, CreateCronFile, FillCronFile, RegisterCron, RegisterSession,
                SessionNameTaken, Ready, ReindexTools, AddProvider, StartFails, Close, vars, callVars
  <2>2. QED
    BY <1>1, <2>1
<1>3. CASE ProcessEnds
  BY <1>3 DEF ProcessEnds, BoxForgets, SpareInv, Locked, Trusted, Busy
<1>4. CASE Outside
  <2>1. CASE \E S \in SUBSET Task : EditFile(S) /\ UNCHANGED <<boxVars, regVars>>
    BY <1>1, <2>1 DEF EditFile, callVars
  <2>2. CASE StraysEnd
    BY <2>2 DEF StraysEnd, callVars, SpareInv, Locked, Trusted, Busy
  <2>3. CASE OutsiderStops
    <3>1. container.exists /\ (~container'.exists \/ Valid(container') = Valid(container))
      BY <2>3, SwitchValid, ContainerFacts DEF OutsiderStops
    <3>2. ~Busy' /\ UNCHANGED <<pc, ensure, userMatches>>
      BY <2>3 DEF OutsiderStops, callVars, Busy
    <3>3. QED
      BY <3>1, <3>2 DEF SpareInv, Locked, Trusted
  <2>4. QED
    BY <1>4, <2>1, <2>2, <2>3 DEF Outside
<1>5. ASSUME NEW t \in Turns, CronCall(t), UNCHANGED boxVars PROVE SpareInv'
  <2>1. \E q \in {"idle", "persist", "writing", "written"} : pc' = [pc EXCEPT ![t] = q]
    BY <1>5 DEF CronCall, CreateTask, DeleteTask, TruncateFile, FillFile, Report, PersistFails, Return, Goto
  <2>2. QED
    BY <1>0, <1>5, <2>1 DEF boxVars, SpareInv, Locked, Trusted, Busy
<1>6. ASSUME NEW t \in Turns, CallRemote(t) \/ RemoteReturns(t) PROVE SpareInv'
  BY <1>0, <1>6 DEF CallRemote, RemoteReturns, Goto, boxVars, SpareInv, Locked, Trusted, Busy
<1>7. QED
  BY <1>2, <1>3, <1>4, <1>5, <1>6, SpareCommand DEF Next, TearDown, Call

\* A call under way removes a container only in the two ways of ensureSandbox, and
\* then it has seen that the container is invalid.
LEMMA RemovesInvalid ==
  ASSUME TypeOK, SpareInv, [Next]_vars, userMatches, pc' # pc, container.exists, ~container'.exists
  PROVE  ~Busy
<1>1. ASSUME NEW t \in Turns, CommandCall(t) PROVE pc[t] = "remove"
  <2>1. CASE UNCHANGED container
    BY <2>1
  <2>2. CASE StartSandbox(t) \/ CreateSandbox(t)
    BY <2>2, SwitchFacts, NewFacts DEF StartSandbox, CreateSandbox
  <2>3. CASE EnsureFails(t)
    BY <2>3, SwitchFacts, NewFacts DEF EnsureFails, Goto
  <2>4. QED
    BY <1>1, <2>1, <2>2, <2>3 DEF CommandCall, CommandStep, RunCommand, LockSandbox, InspectSandbox, RemoveSandbox,
                ExecStarts, ExecFails, ExecEnds, ExecTimesOut, HostRunEnds, boxVars, Goto
<1>2. \E t \in Turns : CommandCall(t)
  <2>1. container' # container
    OBVIOUS
  <2>2. ~StartUp /\ ~TearDown /\ ~UNCHANGED vars
    BY <2>1 DEF StartUp, Boot, RegisterBuiltin, CreateCronFile, FillCronFile, RegisterCron, RegisterSession,
                SessionNameTaken, Ready, ReindexTools, AddProvider, TearDown, StartFails, Close, ProcessEnds,
                BoxForgets, vars, boxVars
  <2>3. ~Outside
    BY <2>1 DEF Outside, EditFile, StraysEnd, OutsiderStops, callVars, boxVars
  <2>4. QED
    BY <2>1, <2>2, <2>3 DEF Next, Call, CallRemote, RemoteReturns, boxVars
<1>3. QED
  BY <1>1, <1>2 DEF SpareInv, Trusted

\* A command never removes a container in which another call's process runs, if the
\* image has the configured user.
THEOREM NeighboursAreSpared == Spec => NeighboursSpared
<1>1. Init => TypeOK /\ SpareInv
  BY TypeInit, SpareBegins
<1>2. TypeOK /\ SpareInv /\ [Next]_vars => (TypeOK /\ SpareInv)'
  BY TypeNext, SpareNext
<1>3. TypeOK /\ SpareInv /\ [Next]_vars
        => [userMatches /\ pc' # pc /\ container.exists /\ ~container'.exists => ~Busy]_vars
  BY RemovesInvalid
<1>4. QED
  BY <1>1, <1>2, <1>3, PTL DEF Spec, NeighboursSpared

-----------------------------------------------------------------------------
(* What is closed. *)

Owners == {p.owner : p \in providers}

\* What nobody can close: open, and the provider of no map.
Leaked == open \ Owners

\* Until the start fails, whatever is open is registered; then one session may not
\* be, and it is not the scheduler, which was registered before the first endpoint.
OpenInv ==
    /\ life = "down" => open = {}
    /\ life = "starting" /\ step > CronStep => "cronjob" \in Owners
    /\ life \in {"starting", "up"} => Leaked = {}
    /\ life \in {"failing", "refused"} => "cronjob" \notin Leaked /\ \A x, y \in Leaked : x = y
    /\ life = "refused" => open \cap Owners = {}
    /\ life = "closed" => open = {}

\* Nothing is open at first.
LEMMA OpenBegins == Init => OpenInv
BY DEF Init, OpenInv

\* A provider is added to those there are.
LEMMA AddedOwner ==
  ASSUME NEW id, NEW owner, AddProvider(id, owner)
  PROVE  Owners' = Owners \cup {owner} /\ step' = step + 1 /\ life' = life
<1>1. [id |-> id, owner |-> owner].owner = owner
  OBVIOUS
<1>2. QED
  BY <1>1 DEF AddProvider, Owners

\* A step that starts the process leaves nothing unregistered but a session whose
\* server's name was taken.
LEMMA OpenStartUp == ASSUME TypeOK, OpenInv, StartUp PROVE OpenInv'
<1> USE CronIsSixth, AddedOwner DEF OpenInv, Leaked
<1>0. step \in Nat /\ CronStep = 6
  BY DEF TypeOK, CronStep
<1>1. CASE Boot
  BY <1>0, <1>1 DEF Boot
<1>2. CASE RegisterBuiltin
  <2>1. step # CronStep
    BY <1>0, <1>2 DEF RegisterBuiltin, Opening, Builtins
  <2>2. Owners \subseteq Owners' /\ step' = step + 1 /\ life = "starting" /\ UNCHANGED <<life, open>>
    BY <1>2 DEF RegisterBuiltin, AddProvider, Opening, Owners
  <2>3. QED
    BY <1>0, <2>1, <2>2
<1>3. CASE CreateCronFile
  BY <1>0, <1>3 DEF CreateCronFile, callVars, Opening, Owners
<1>4. CASE FillCronFile
  BY <1>0, <1>4 DEF FillCronFile, callVars, Owners
<1>5. CASE RegisterCron
  <2>1. life = "starting" /\ open' = open \cup {"cronjob"} /\ Owners' = Owners \cup {"cronjob"} /\ life' = life
    BY <1>5 DEF RegisterCron, Opening
  <2>2. QED
    BY <2>1
<1>6. CASE RegisterSession
  <2>1. PICK i \in DOMAIN Endpoints, name \in ServerNames :
            /\ Connecting(i) /\ AddProvider(name, Endpoints[i]) /\ open' = open \cup {Endpoints[i]}
    BY <1>6 DEF RegisterSession
  <2>2. life = "starting" /\ step > CronStep /\ Owners' = Owners \cup {Endpoints[i]} /\ life' = life
    BY <1>0, <2>1 DEF Connecting
  <2>3. QED
    BY <2>1, <2>2
<1>7. CASE SessionNameTaken
  <2>1. PICK i \in DOMAIN Endpoints : Connecting(i) /\ open' = open \cup {Endpoints[i]}
    BY <1>7 DEF SessionNameTaken
  <2>2. life = "starting" /\ step > CronStep /\ Owners' = Owners /\ life' = "failing"
    BY <1>0, <1>7, <2>1 DEF SessionNameTaken, Connecting, Owners
  <2>3. QED
    BY <2>1, <2>2
<1>8. CASE Ready
  BY <1>8 DEF Ready, regVars, Owners
<1>9. CASE \E offered \in Offerings : ReindexTools(offered)
  <2>1. /\ life = "starting" /\ life' = life /\ Owners' = Owners /\ open' = open /\ step' = step + 1
        /\ step = Registered + 1
    BY <1>9 DEF ReindexTools, callVars, Owners
  <2>2. step > CronStep
    BY <1>0, <2>1
  <2>3. QED
    BY <2>1, <2>2
<1>10. QED
  BY <1>1, <1>2, <1>3, <1>4, <1>5, <1>6, <1>7, <1>8, <1>9 DEF StartUp

\* Closing goes through all that is registered; no other step opens or closes.
LEMMA OpenNext == ASSUME TypeOK, OpenInv, [Next]_vars PROVE OpenInv'
<1> USE DEF OpenInv, Leaked, Owners
<1>1. CASE StartFails
  BY <1>1 DEF StartFails, regVars
<1>2. CASE Close
  BY <1>2 DEF Close
<1>3. CASE ProcessEnds
  BY <1>3 DEF ProcessEnds
<1>4. ASSUME UNCHANGED <<life, regVars>> PROVE OpenInv'
  BY <1>4 DEF regVars
<1>5. CASE Outside \/ UNCHANGED vars
  BY <1>4, <1>5 DEF Outside, EditFile, StraysEnd, OutsiderStops, vars, callVars
<1>6. ASSUME NEW t \in Turns, Call(t) PROVE OpenInv'
  <2>1. CASE CronCall(t) /\ UNCHANGED <<boxVars, regVars>>
    BY <1>4, <2>1 DEF CronCall, CreateTask, DeleteTask, TruncateFile, FillFile, Report, PersistFails, Return
  <2>2. CASE CommandCall(t) /\ UNCHANGED <<cronVars, regVars>>
    BY <1>4, <2>2 DEF CommandCall, CommandStep, RunCommand, LockSandbox, InspectSandbox, RemoveSandbox,
                StartSandbox, CreateSandbox, EnsureFails, ExecStarts, ExecFails, ExecEnds, ExecTimesOut, HostRunEnds
  <2>3. CASE CallRemote(t) \/ RemoteReturns(t)
    BY <1>4, <2>3 DEF CallRemote, RemoteReturns
  <2>4. QED
    BY <1>6, <2>1, <2>2, <2>3 DEF Call
<1>7. QED
  BY <1>1, <1>2, <1>3, <1>5, <1>6, OpenStartUp DEF Next, TearDown

\* A set whose elements are all equal has at most one.
LEMMA AtMostOne == ASSUME NEW S, \A x, y \in S : x = y PROVE Cardinality(S) <= 1
<1>1. CASE S = {}
  BY <1>1, FS_EmptySet
<1>2. CASE S # {}
  <2>1. PICK x \in S : S = {x}
    BY <1>2
  <2>2. QED
    BY <2>1, FS_Singleton
<1>3. QED
  BY <1>1, <1>2

\* A start that failed and a runtime that was closed leave nothing open but the one
\* session whose server came with a name that was taken.
THEOREM NothingIsLeftOpen == Spec => []NothingLeftOpen
<1>1. Init => TypeOK /\ OpenInv
  BY TypeInit, OpenBegins
<1>2. TypeOK /\ OpenInv /\ [Next]_vars => (TypeOK /\ OpenInv)'
  BY TypeNext, OpenNext
<1>3. OpenInv => NothingLeftOpen
  <2>1. SUFFICES ASSUME OpenInv, life = "refused"
                 PROVE  /\ "cronjob" \notin open
                        /\ \A e \in open : \A p \in providers : p.owner # e
                        /\ Cardinality(open) <= 1
    BY DEF OpenInv, NothingLeftOpen
  <2>2. Leaked = open
    BY <2>1 DEF OpenInv, Leaked
  <2>3. Cardinality(open) <= 1
    BY <2>1, <2>2, AtMostOne DEF OpenInv
  <2>4. QED
    BY <2>1, <2>2, <2>3 DEF OpenInv, Leaked, Owners
<1>4. QED
  BY <1>1, <1>2, <1>3, PTL DEF Spec
-----------------------------------------------------------------------------
(* Calls end: no mutex is left behind, and every step of a call shortens it. *)

InEnsure == {"inspect", "remove", "start", "create"}
InCron == {"persist", "writing", "written"}

\* Each mutex is held by exactly the turn that is between its Lock and its Unlock.
MutexesHeld == \A t \in Turns : /\ ensure = t <=> pc[t] \in InEnsure
                                /\ cronMu = t <=> pc[t] \in InCron

\* The steps of its own that a call takes at most until it has returned.
CallToGo(t) ==
    CASE pc[t] = "idle" -> 0
      [] pc[t] \in {"inContainer", "hostRun", "remote", "written"} -> 1
      [] pc[t] \in {"exec", "writing"} -> 2
      [] pc[t] \in {"start", "create", "persist"} -> 3
      [] pc[t] = "remove" -> 4
      [] pc[t] = "inspect" -> 5
      [] pc[t] = "lock" -> 6

\* A step that moves one turn and gives the mutexes to it, takes them from it or leaves
\* them, as its places say, keeps them held.
LEMMA MutexMoves ==
  ASSUME TypeOK, MutexesHeld, NEW t \in Turns,
         NEW q \in {"idle", "persist", "writing", "written", "remote", "hostRun", "lock", "inspect",
                    "remove", "start", "create", "exec", "inContainer"},
         pc' = [pc EXCEPT ![t] = q],
         ensure' = IF q \in InEnsure THEN t ELSE IF pc[t] \in InEnsure THEN None ELSE ensure,
         cronMu' = IF q \in InCron THEN t ELSE IF pc[t] \in InCron THEN None ELSE cronMu,
         q \in InEnsure => ensure \in {None, t},
         q \in InCron => cronMu \in {None, t}
  PROVE  MutexesHeld'
<1>1. None \notin Turns
  BY TurnsAssumption
<1>2. pc'[t] = q /\ \A u \in Turns : u # t => pc'[u] = pc[u]
  BY DEF TypeOK
<1>3. ASSUME NEW u \in Turns PROVE ensure' = u <=> pc'[u] \in InEnsure
  BY <1>1, <1>2 DEF MutexesHeld
<1>4. ASSUME NEW u \in Turns PROVE cronMu' = u <=> pc'[u] \in InCron
  BY <1>1, <1>2 DEF MutexesHeld
<1>5. QED
  BY <1>3, <1>4 DEF MutexesHeld

\* So do the steps of a cron tool.
LEMMA MutexCron ==
  ASSUME TypeOK, MutexesHeld, NEW t \in Turns, CronCall(t), UNCHANGED boxVars PROVE MutexesHeld'
<1> USE DEF InEnsure, InCron, Goto, boxVars
<1>0. cronMu = t <=> pc[t] \in InCron
  BY DEF MutexesHeld
<1>1. CASE \E j \in Task : CreateTask(t, j) \/ DeleteTask(t, j)
  BY <1>1, MutexMoves DEF CreateTask, DeleteTask
<1>2. CASE TruncateFile(t) \/ FillFile(t)
  BY <1>0, <1>2, MutexMoves DEF TruncateFile, FillFile
<1>3. CASE Report(t) \/ PersistFails(t)
  BY <1>0, <1>3, MutexMoves DEF Report, PersistFails, Return
<1>4. QED
  BY <1>1, <1>2, <1>3 DEF CronCall

\* So do the steps of run_command.
LEMMA MutexCommand ==
  ASSUME TypeOK, MutexesHeld, NEW t \in Turns, CommandCall(t), UNCHANGED cronMu PROVE MutexesHeld'
<1> USE DEF InEnsure, InCron, Goto
<1>0. ensure = t <=> pc[t] \in InEnsure
  BY DEF MutexesHeld
<1>1. CASE RunCommand(t)
  BY <1>1, MutexMoves DEF RunCommand, boxVars
<1>2. CASE LockSandbox(t)
  BY <1>2, MutexMoves DEF LockSandbox
<1>3. CASE InspectSandbox(t)
  <2>0. Valid(container) \in BOOLEAN /\ container.running \in BOOLEAN /\ container.exists \in BOOLEAN
        /\ (container.running => container.exists)
    BY ContainerFacts DEF Valid
  <2>1. CASE Valid(container) /\ container.running
    <3>1. pc' = [pc EXCEPT ![t] = "exec"] /\ ensure' = None /\ pc[t] = "inspect"
      BY <1>3, <2>0, <2>1 DEF InspectSandbox
    <3>2. QED
      BY <3>1, MutexMoves
  <2>2. CASE ~(Valid(container) /\ container.running)
    <3>1. PICK q \in {"create", "remove", "start"} : pc' = [pc EXCEPT ![t] = q]
      BY <1>3, <2>0, <2>2 DEF InspectSandbox
    <3>2. ensure' = t /\ ensure = t /\ pc[t] = "inspect"
      BY <1>0, <1>3, <2>2 DEF InspectSandbox
    <3>3. QED
      BY <3>1, <3>2, MutexMoves
  <2>3. QED
    BY <2>1, <2>2
<1>4. CASE RemoveSandbox(t)
  BY <1>0, <1>4, MutexMoves DEF RemoveSandbox
<1>5. CASE StartSandbox(t) \/ CreateSandbox(t)
  BY <1>5, MutexMoves DEF StartSandbox, CreateSandbox
<1>6. CASE EnsureFails(t)
  <2>1. pc' = [pc EXCEPT ![t] = "idle"] /\ pc[t] \in InEnsure /\ ensure' = None
    BY <1>6 DEF EnsureFails
  <2>2. QED
    BY <2>1, MutexMoves
<1>7. CASE ExecStarts(t) \/ ExecFails(t)
  BY <1>7, MutexMoves DEF ExecStarts, ExecFails, boxVars
<1>8. CASE ExecEnds(t) \/ ExecTimesOut(t) \/ HostRunEnds(t)
  BY <1>8, MutexMoves DEF ExecEnds, ExecTimesOut, HostRunEnds, boxVars
<1>9. QED
  BY <1>1, <1>2, <1>3, <1>4, <1>5, <1>6, <1>7, <1>8 DEF CommandCall, CommandStep

\* So does every other step.
LEMMA MutexNext == ASSUME TypeOK, MutexesHeld, [Next]_vars PROVE MutexesHeld'
<1> USE DEF InEnsure, InCron
<1>1. ASSUME UNCHANGED <<pc, ensure, cronMu>> PROVE MutexesHeld'
  BY <1>1 DEF MutexesHeld
<1>2. CASE StartUp \/ StartFails \/ Close \/ UNCHANGED vars
  <2>1. UNCHANGED <<pc, ensure, cronMu>>
    BY <1>2 DEF StartUp, Boot, RegisterBuiltin, CreateCronFile, DefaultFileCreated, FillCronFile, DefaultFileFilled,
                RegisterCron, LoadAndSchedule, RegisterSession, SessionNameTaken, Ready, ReindexTools, AddProvider,
                StartFails, Close, vars, callVars, cronVars, boxVars
  <2>2. QED
    BY <1>1, <2>1
<1>3. CASE ProcessEnds
  BY <1>3, TurnsAssumption DEF ProcessEnds, BoxForgets, CronForgets, MutexesHeld
<1>4. CASE Outside
  <2>1. UNCHANGED <<pc, ensure, cronMu>>
    BY <1>4 DEF Outside, EditFile, StraysEnd, OutsiderStops, callVars, cronVars, boxVars
  <2>2. QED
    BY <1>1, <2>1
<1>5. ASSUME NEW t \in Turns, CallRemote(t) \/ RemoteReturns(t) PROVE MutexesHeld'
  BY <1>5, MutexMoves DEF CallRemote, RemoteReturns, Goto, cronVars, boxVars
<1>6. ASSUME NEW t \in Turns, Call(t) PROVE MutexesHeld'
  BY <1>5, <1>6, MutexCron, MutexCommand DEF Call, cronVars
<1>7. QED
  BY <1>2, <1>3, <1>4, <1>6 DEF Next, TearDown

\* No error path keeps the mutex of the sandbox or of the cron jobs: each is held by
\* exactly the turn that is between its Lock and its Unlock, whatever docker and the
\* file system answered (ensureSandbox in docker.go, createTask and deleteTask in runner.go).
THEOREM NoMutexIsLeftBehind == Spec => []MutexesHeld
<1>1. Init => TypeOK /\ MutexesHeld
  BY TypeInit, TurnsAssumption DEF Init, BoxInit, CronInit, MutexesHeld, InEnsure, InCron
<1>2. TypeOK /\ MutexesHeld /\ [Next]_vars => (TypeOK /\ MutexesHeld)'
  BY TypeNext, MutexNext
<1>3. QED
  BY <1>1, <1>2, PTL DEF Spec

\* A step that moves one turn on to a later place shortens its call and no other.
LEMMA ShorterMoves ==
  ASSUME TypeOK, NEW t \in Turns,
         NEW q \in {"idle", "persist", "writing", "written", "remote", "hostRun", "lock", "inspect",
                    "remove", "start", "create", "exec", "inContainer"},
         pc' = [pc EXCEPT ![t] = q],
         \/ pc[t] = "idle"
         \/ pc[t] # "idle" /\ q = "idle"
         \/ pc[t] = "persist" /\ q = "writing"
         \/ pc[t] = "writing" /\ q = "written"
         \/ pc[t] = "lock" /\ q = "inspect"
         \/ pc[t] = "inspect" /\ q \in {"create", "remove", "start", "exec"}
         \/ pc[t] = "remove" /\ q = "create"
         \/ pc[t] \in {"start", "create"} /\ q = "exec"
         \/ pc[t] = "exec" /\ q = "inContainer"
  PROVE  \A u \in Turns : pc'[u] = pc[u] \/ pc[u] = "idle" \/ CallToGo(u)' < CallToGo(u)
<1>1. pc'[t] = q /\ \A u \in Turns : u # t => pc'[u] = pc[u]
  BY DEF TypeOK
<1>2. pc[t] \in {"idle", "persist", "writing", "written", "remote", "hostRun", "lock", "inspect",
                 "remove", "start", "create", "exec", "inContainer"}
  BY DEF TypeOK
<1>3. pc[t] = "idle" \/ CallToGo(t)' < CallToGo(t)
  BY <1>1, <1>2 DEF CallToGo
<1>4. QED
  BY <1>1, <1>3

\* So does every step of a call.
LEMMA ShorterNext ==
  ASSUME TypeOK, [Next]_vars
  PROVE  \A u \in Turns : pc'[u] = pc[u] \/ pc[u] = "idle" \/ CallToGo(u)' < CallToGo(u)
<1> DEFINE Shorter == \A u \in Turns : pc'[u] = pc[u] \/ pc[u] = "idle" \/ CallToGo(u)' < CallToGo(u)
<1>1. CASE StartUp \/ StartFails \/ Close \/ UNCHANGED vars \/ Outside
  BY <1>1 DEF StartUp, Boot, RegisterBuiltin, CreateCronFile, FillCronFile, RegisterCron, RegisterSession,
              SessionNameTaken, Ready, ReindexTools, AddProvider, StartFails, Close, vars, callVars,
              Outside, EditFile, StraysEnd, OutsiderStops
<1>2. CASE ProcessEnds
  <2>1. ASSUME NEW u \in Turns PROVE pc[u] = "idle" \/ CallToGo(u)' < CallToGo(u)
    <3>1. pc'[u] = "idle"
      BY <1>2 DEF ProcessEnds
    <3>2. pc[u] \in {"idle", "persist", "writing", "written", "remote", "hostRun", "lock", "inspect",
                     "remove", "start", "create", "exec", "inContainer"}
      BY DEF TypeOK
    <3>3. QED
      BY <3>1, <3>2 DEF CallToGo
  <2>2. QED
    BY <2>1
<1>3. ASSUME NEW t \in Turns, CronCall(t) PROVE Shorter
  <2>1. CASE \E j \in Task : CreateTask(t, j) \/ DeleteTask(t, j)
    BY <2>1, ShorterMoves DEF CreateTask, DeleteTask, Goto
  <2>2. CASE TruncateFile(t) \/ FillFile(t)
    BY <2>2, ShorterMoves DEF TruncateFile, FillFile, Goto
  <2>3. CASE Report(t) \/ PersistFails(t)
    BY <2>3, ShorterMoves DEF Report, PersistFails, Return, Goto
  <2>4. QED
    BY <1>3, <2>1, <2>2, <2>3 DEF CronCall
<1>4. ASSUME NEW t \in Turns, CommandCall(t) PROVE Shorter
  <2>1. CASE RunCommand(t) \/ LockSandbox(t)
    BY <2>1, ShorterMoves DEF RunCommand, LockSandbox, Goto
  <2>2. CASE InspectSandbox(t)
    <3>1. pc[t] = "inspect" /\ \E q \in {"create", "remove", "start", "exec"} : pc' = [pc EXCEPT ![t] = q]
      BY <2>2 DEF InspectSandbox, Goto
    <3>2. QED
      BY <3>1, ShorterMoves
  <2>3. CASE RemoveSandbox(t) \/ StartSandbox(t) \/ CreateSandbox(t)
    BY <2>3, ShorterMoves DEF RemoveSandbox, StartSandbox, CreateSandbox, Goto
  <2>4. CASE EnsureFails(t)
    <3>1. pc[t] # "idle" /\ pc' = [pc EXCEPT ![t] = "idle"]
      BY <2>4 DEF EnsureFails, Goto
    <3>2. QED
      BY <3>1, ShorterMoves
  <2>5. CASE ExecStarts(t) \/ ExecFails(t) \/ ExecEnds(t) \/ ExecTimesOut(t) \/ HostRunEnds(t)
    BY <2>5, ShorterMoves DEF ExecStarts, ExecFails, ExecEnds, ExecTimesOut, HostRunEnds, Goto
  <2>6. QED
    BY <1>4, <2>1, <2>2, <2>3, <2>4, <2>5 DEF CommandCall, CommandStep
<1>5. ASSUME NEW t \in Turns, CallRemote(t) \/ RemoteReturns(t) PROVE Shorter
  BY <1>5, ShorterMoves DEF CallRemote, RemoteReturns, Goto
<1>6. QED
  BY <1>1, <1>2, <1>3, <1>4, <1>5 DEF Next, TearDown, Call

\* Every step of a call, failed or not, brings it nearer to its return: no call goes
\* through ensureSandbox or persistLocked twice, and none takes more than six steps.
THEOREM CallsGetShorter ==
  Spec => [][\A t \in Turns : pc'[t] = pc[t] \/ pc[t] = "idle" \/ CallToGo(t)' < CallToGo(t)]_vars
<1>1. Init => TypeOK
  BY TypeInit
<1>2. TypeOK /\ [Next]_vars => TypeOK'
  BY TypeNext
<1>3. TypeOK /\ [Next]_vars
        => [\A t \in Turns : pc'[t] = pc[t] \/ pc[t] = "idle" \/ CallToGo(t)' < CallToGo(t)]_vars
  BY ShorterNext
<1>4. QED
  BY <1>1, <1>2, <1>3, PTL DEF Spec
=============================================================================
