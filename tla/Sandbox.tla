------------------------------- MODULE Sandbox -------------------------------
(***************************************************************************)
(* internal/tools/builtin/exec: run_command of several turns in one Docker *)
(* container.  ensureSandbox holds a mutex from the inspection to the      *)
(* start or the creation of the container; the command itself, docker      *)
(* exec, runs without it.  Every docker client runs under the call's       *)
(* timeout, so each may fail, before or after it took effect.  The         *)
(* container belongs to the daemon: it outlives the agent, and users and   *)
(* the daemon stop or remove it at any time.                               *)
(***************************************************************************)
EXTENDS ToolCalls

CONSTANTS Backends   \* the configured backend is one of these

ASSUME BackendAssumption == Backends \subseteq {"docker", "macos_sandbox_exec", "host"}

VARIABLES backend,     \* r.cfg.backend
          userMatches, \* the image's USER is r.cfg.containerUser
          container,   \* the container that has r.cfg.name, or NoContainer
          ensure,      \* the holder of r.ensure
          inside,      \* turns whose process runs in the container
          strays       \* processes of calls that have ended still run in it

boxVars == <<backend, userMatches, container, ensure, inside, strays>>

NoContainer == [hardened |-> FALSE, user |-> FALSE, running |-> FALSE, exists |-> FALSE]

\* hardened: image, network, read-only root, capabilities, limits and mounts are
\* those of ensureSandbox; user: Config.User is the configured one.
Container == [hardened : BOOLEAN, user : BOOLEAN, running : BOOLEAN, exists : {TRUE}]

\* validateSandbox.
Valid(c) == c.hardened /\ c.user

\* docker run of ensureSandbox: hardened, and without --user, so that Config.User
\* is what the image says.
NewContainer(running) ==
    [hardened |-> TRUE, user |-> userMatches, running |-> running, exists |-> TRUE]

\* At the start any container may be there, one of an older configuration too;
\* nothing of this agent runs in it.  The other backends have no container.
BoxInit == /\ backend \in Backends
           /\ \/ /\ backend = "docker"
                 /\ userMatches \in BOOLEAN
                 /\ container \in {NoContainer} \cup Container
              \/ /\ backend # "docker"
                 /\ userMatches = FALSE
                 /\ container = NoContainer
           /\ ensure = None
           /\ inside = {}
           /\ strays = FALSE

\* Some process of run_command is in the container.
Busy == inside # {} \/ strays

-----------------------------------------------------------------------------
\* runCommand up to ensureSandbox.  Calls whose arguments, work_dir or timeout are
\* refused, or that the blacklist or the preflight stops, change nothing.
RunCommand(t) == /\ life = "up"
                 /\ Goto(t, "idle", IF backend = "docker" THEN "lock" ELSE "hostRun")
                 /\ UNCHANGED <<life, boxVars>>

\* runHost, runMacOSSandbox: the process ends or is killed at its timeout, and
\* nothing it started holds its output open: cmd.Run waits for that without limit.
HostRunEnds(t) == Goto(t, "hostRun", "idle") /\ UNCHANGED <<life, boxVars>>

\* Mutant: without the mutex.
LockSandbox_Free(t) == /\ Goto(t, "lock", "inspect")
                       /\ ensure' = t
                       /\ UNCHANGED <<life, backend, userMatches, container, inside, strays>>

\* r.ensure.Lock(): waits for the mutex whatever the timeout says.
LockSandbox(t) == /\ Goto(t, "lock", "inspect")
                  /\ ensure = None
                  /\ ensure' = t
                  /\ UNCHANGED <<life, backend, userMatches, container, inside, strays>>

\* Mutant: a container that runs is good enough.
InspectSandbox_RunningIsEnough(t) ==
    /\ Goto(t, "inspect", IF ~container.exists THEN "create"
                          ELSE IF container.running THEN "exec"
                          ELSE IF ~Valid(container) THEN "remove" ELSE "start")
    /\ ensure' = IF container.running THEN None ELSE ensure
    /\ UNCHANGED <<life, backend, userMatches, container, inside, strays>>

\* inspectSandbox and validateSandbox: what to do next.  A valid container that
\* runs ends ensureSandbox.
InspectSandbox(t) ==
    LET ready == Valid(container) /\ container.running IN
    /\ Goto(t, "inspect", IF ~container.exists THEN "create"
                          ELSE IF ~Valid(container) THEN "remove"
                          ELSE IF container.running THEN "exec" ELSE "start")
    /\ ensure' = IF ready THEN None ELSE ensure
    /\ UNCHANGED <<life, backend, userMatches, container, inside, strays>>

\* docker rm -f: everything in the container dies with it.
RemoveSandbox(t) == /\ Goto(t, "remove", "create")
                    /\ container' = NoContainer
                    /\ inside' = {} /\ strays' = FALSE
                    /\ UNCHANGED <<life, backend, userMatches, ensure>>

\* docker start of a valid container that did not run, if it is still there.
StartSandbox(t) == /\ container.exists
                   /\ Goto(t, "start", "exec")
                   /\ container' = [container EXCEPT !.running = TRUE]
                   /\ ensure' = None
                   /\ UNCHANGED <<life, backend, userMatches, inside, strays>>

\* docker run -d, if the name is free.
CreateSandbox(t) == /\ ~container.exists
                    /\ Goto(t, "create", "exec")
                    /\ container' = NewContainer(TRUE)
                    /\ ensure' = None
                    /\ UNCHANGED <<life, backend, userMatches, inside, strays>>

\* Mutant: the mutex is not released on the way out.
EnsureFails_KeepsMutex(t) ==
    /\ \E from \in {"inspect", "remove", "start", "create"} : Goto(t, from, "idle")
    /\ UNCHANGED <<life, boxVars>>

\* A docker client of ensureSandbox fails or is killed, perhaps after the daemon
\* did what it was told; the deferred Unlock runs and the call returns.
EnsureFails(t) ==
    /\ ensure' = None
    /\ \/ /\ \E from \in {"inspect", "remove", "start", "create"} : Goto(t, from, "idle")
          /\ UNCHANGED <<container, inside, strays>>
       \/ /\ Goto(t, "remove", "idle")
          /\ container' = NoContainer
          /\ inside' = {} /\ strays' = FALSE
       \/ /\ Goto(t, "start", "idle") /\ container.exists
          /\ container' = [container EXCEPT !.running = TRUE]
          /\ UNCHANGED <<inside, strays>>
       \/ /\ Goto(t, "create", "idle") /\ ~container.exists
          /\ \E running \in BOOLEAN : container' = NewContainer(running)
          /\ UNCHANGED <<inside, strays>>
    /\ UNCHANGED <<life, backend, userMatches>>

\* docker exec finds a running container and starts the process ...
ExecStarts(t) == /\ container.running
                 /\ Goto(t, "exec", "inContainer")
                 /\ inside' = inside \cup {t}
                 /\ UNCHANGED <<life, backend, userMatches, container, ensure, strays>>

\* ... or fails: no such container, not running, timed out.
ExecFails(t) == Goto(t, "exec", "idle") /\ UNCHANGED <<life, boxVars>>

\* The process ends, or it has been killed with the container.
ExecEnds(t) == /\ Goto(t, "inContainer", "idle")
               /\ inside' = inside \ {t}
               /\ UNCHANGED <<life, backend, userMatches, container, ensure, strays>>

\* The timeout kills the docker client; the process in the container lives on.
ExecTimesOut(t) == /\ t \in inside
                   /\ Goto(t, "inContainer", "idle")
                   /\ inside' = inside \ {t}
                   /\ strays' = TRUE
                   /\ UNCHANGED <<life, backend, userMatches, container, ensure>>

\* What a timed-out call left behind ends.
StraysEnd == strays /\ strays' = FALSE
             /\ UNCHANGED <<callVars, backend, userMatches, container, ensure, inside>>

\* The container exits, or somebody stops or removes it.
OutsiderStops == /\ container.exists
                 /\ \E c \in {NoContainer, [container EXCEPT !.running = FALSE]} : container' = c
                 /\ inside' = {} /\ strays' = FALSE
                 /\ UNCHANGED <<callVars, backend, userMatches, ensure>>

\* The agent dies: the daemon keeps the container and what runs in it.
BoxForgets == /\ ensure' = None
              /\ strays' = Busy
              /\ inside' = {}
              /\ UNCHANGED <<backend, userMatches, container>>

\* What a turn does in docker between entering the mutex and the end of its call.
CommandStep(t) == \/ InspectSandbox(t) \/ RemoveSandbox(t) \/ StartSandbox(t)
                  \/ CreateSandbox(t) \/ EnsureFails(t) \/ ExecStarts(t)
                  \/ ExecFails(t) \/ ExecEnds(t) \/ ExecTimesOut(t)

CommandCall(t) == RunCommand(t) \/ LockSandbox(t) \/ CommandStep(t) \/ HostRunEnds(t)

-----------------------------------------------------------------------------
(***************************************************************************)
(* Whatever runs in the container, of this process or of one before it,    *)
(* runs in a running container with the restrictions of ensureSandbox,     *)
(* although the container is replaced, stopped and started meanwhile.      *)
(***************************************************************************)
Confined == Busy => container.hardened /\ container.running
=============================================================================
