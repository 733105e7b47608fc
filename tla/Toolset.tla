------------------------------- MODULE Toolset -------------------------------
(***************************************************************************)
(* internal/tools: the registry that opens the tool providers one after    *)
(* the other, indexes their tools, dispatches the calls of the turns and   *)
(* closes what it opened, with the scheduled jobs (CronJobs), the command  *)
(* sandbox (Sandbox) and the sessions to MCP servers behind it; and        *)
(* NewRuntime and Close of internal/runtime/runtime.go as far as they open *)
(* and close it.                                                           *)
(***************************************************************************)
EXTENDS CronJobs, Sandbox, Sequences, SequencesExt

CONSTANTS Endpoints,      \* the configured MCP endpoints, a sequence
          ServerNames,    \* names their servers may give themselves
          RemoteTools,    \* tools the servers may offer
          Optional        \* the optional providers that are not configured

RemoteOwners == ToSet(Endpoints)

ASSUME ToolsetAssumption == /\ Optional \subseteq {"telegram", "opencli"}
                            /\ Endpoints \in Seq(RemoteOwners)

VARIABLES step,       \* the next step of NewRegistry and NewRuntime
          providers,  \* r.providersByName: [id, owner], the owner an endpoint or the id itself
          open,       \* closable providers that are open: the scheduler, sessions
          index       \* r.toolToProvider as a set of [tool, owner]

regVars == <<step, providers, open, index>>
vars == <<callVars, cronVars, boxVars, regVars>>

\* The order of registerBuiltins; the endpoints follow.
Builtins == <<"exec", "telegram", "skills", "opencli", "thinker", "cronjob", "tool_registry">>
CronStep == 6
Registered == Len(Builtins) + Len(Endpoints)   \* the last step that adds a provider

BuiltinTools(owner) ==
    CASE owner = "exec" -> {"run_command"}
      [] owner = "cronjob" -> {"create_cronjob", "delete_cronjob", "list_cronjobs"}
      [] owner = "tool_registry" -> {"list_tool_providers", "list_tools_for_provider"}
      [] OTHER -> {owner}   \* the tools of the other builtins, as one

Init == /\ life = "down"
        /\ pc = [t \in Turns |-> "idle"]
        /\ CronInit /\ BoxInit
        /\ step = 0 /\ providers = {} /\ open = {} /\ index = {}

-----------------------------------------------------------------------------
\* NewRuntime is called in a new process.
Boot == /\ life = "down"
        /\ life' = "starting"
        /\ step' = 1
        /\ UNCHANGED <<pc, cronVars, boxVars, providers, open, index>>

\* NewRegistry has come to this builtin, to the i-th endpoint.
Opening(name) == life = "starting" /\ step \in DOMAIN Builtins /\ Builtins[step] = name
Connecting(i) == life = "starting" /\ step = Len(Builtins) + i

\* Mutant: the name is not looked up.
AddProvider_Overwrites(id, owner) ==
    /\ providers' = {p \in providers : p.id # id} \cup {[id |-> id, owner |-> owner]}
    /\ step' = step + 1
    /\ UNCHANGED <<life, pc, boxVars, index>>

\* addProvider with a name that is free.
AddProvider(id, owner) ==
    /\ \A p \in providers : p.id # id
    /\ providers' = providers \cup {[id |-> id, owner |-> owner]}
    /\ step' = step + 1
    /\ UNCHANGED <<life, pc, boxVars, index>>

\* The builtins that hold nothing open; telegram and OpenCLI may be left out.
RegisterBuiltin ==
    \E b \in {"exec", "telegram", "skills", "opencli", "thinker", "tool_registry"} :
        /\ Opening(b)
        /\ \/ b \notin Optional /\ AddProvider(b, b)
           \/ b \in Optional /\ step' = step + 1 /\ UNCHANGED <<life, pc, boxVars, providers, index>>
        /\ UNCHANGED <<cronVars, open>>

\* cronjob.NewRunner: a missing file is created before the jobs are loaded ...
CreateCronFile == /\ Opening("cronjob")
                  /\ DefaultFileCreated
                  /\ step' = 0
                  /\ UNCHANGED <<callVars, boxVars, providers, open, index>>

\* ... which here takes two steps; step 0 stands between them ...
FillCronFile == /\ life = "starting" /\ step = 0
                /\ DefaultFileFilled
                /\ step' = CronStep
                /\ UNCHANGED <<callVars, boxVars, providers, open, index>>

\* ... and then the scheduler starts.
RegisterCron == /\ Opening("cronjob")
                /\ LoadAndSchedule
                /\ open' = open \cup {"cronjob"}
                /\ AddProvider("cronjob", "cronjob")

\* NewRemoteSession connects and learns the server's name.
RegisterSession ==
    \E i \in DOMAIN Endpoints, name \in ServerNames :
        /\ Connecting(i)
        /\ AddProvider(name, Endpoints[i])
        /\ open' = open \cup {Endpoints[i]}
        /\ UNCHANGED cronVars

\* The server's name is taken: addProvider fails with the session already open.
SessionNameTaken ==
    \E i \in DOMAIN Endpoints, name \in ServerNames :
        /\ Connecting(i)
        /\ \E p \in providers : p.id = name
        /\ life' = "failing"
        /\ open' = open \cup {Endpoints[i]}
        /\ UNCHANGED <<pc, cronVars, boxVars, step, providers, index>>

\* Every tool of every provider, given what the servers offer at this moment.
Offers(offered) == UNION {{[tool |-> x, owner |-> p.owner] :
                            x \in IF p.owner \in RemoteOwners THEN offered[p.owner]
                                  ELSE BuiltinTools(p.owner)} : p \in providers}

\* A server offers one tool or several.
Offerings == [RemoteOwners -> SUBSET RemoteTools \ {{}}]

\* reindexTools: no tool name has two owners.
ReindexTools(offered) ==
    /\ life = "starting" /\ step = Registered + 1
    /\ \A a, b \in Offers(offered) : a.tool = b.tool => a = b
    /\ index' = Offers(offered)
    /\ step' = step + 1
    /\ UNCHANGED <<callVars, cronVars, boxVars, providers, open>>

\* The rest of NewRuntime succeeds.
Ready == /\ life = "starting" /\ step = Registered + 2
         /\ life' = "up"
         /\ UNCHANGED <<pc, cronVars, boxVars, regVars>>

\* A constructor, a connection, a list of tools or the rest of NewRuntime fails, and
\* so does cronjob.NewRunner on a file it cannot read: initializationError, closeAll.
StartFails == /\ life = "starting"
              /\ life' = "failing"
              /\ UNCHANGED <<pc, cronVars, boxVars, regVars>>

\* Registry.Close, from initializationError and closeAll or from Runtime.Close after
\* the context was cancelled, with calls still under way: it goes through all the
\* registered providers, whatever one of them answers.
Close ==
    /\ life \in {"failing", "up"}
    /\ life' = IF life = "failing" THEN "refused" ELSE "closed"
    /\ open' = open \ {p.owner : p \in providers}
    /\ UNCHANGED <<pc, cronVars, boxVars, step, providers, index>>

\* The process exits, or dies anywhere.
ProcessEnds == /\ life # "down"
               /\ life' = "down"
               /\ pc' = [t \in Turns |-> "idle"]
               /\ CronForgets /\ BoxForgets
               /\ step' = 0 /\ providers' = {} /\ open' = {} /\ index' = {}

\* A call dispatched to a session; the server may never answer.
CallRemote(t) == /\ Serving
                 /\ \E a \in index : a.owner \in RemoteOwners /\ a.owner \in open
                 /\ Goto(t, "idle", "remote")
                 /\ UNCHANGED <<life, cronVars, boxVars, regVars>>

\* The server answers, or the session or the turn's context is closed.
RemoteReturns(t) == Goto(t, "remote", "idle") /\ UNCHANGED <<life, cronVars, boxVars, regVars>>

StartUp == \/ Boot \/ RegisterBuiltin \/ CreateCronFile \/ FillCronFile \/ RegisterCron
           \/ RegisterSession \/ SessionNameTaken \/ Ready
           \/ \E offered \in Offerings : ReindexTools(offered)

TearDown == StartFails \/ Close \/ ProcessEnds

Outside == \/ \E S \in SUBSET Task : EditFile(S) /\ UNCHANGED <<boxVars, regVars>>
           \/ StraysEnd /\ UNCHANGED <<cronVars, regVars>>
           \/ OutsiderStops /\ UNCHANGED <<cronVars, regVars>>

Call(t) == \/ CronCall(t) /\ UNCHANGED <<boxVars, regVars>>
           \/ CommandCall(t) /\ UNCHANGED <<cronVars, regVars>>
           \/ CallRemote(t)
           \/ RemoteReturns(t)

Next == StartUp \/ TearDown \/ Outside \/ \E t \in Turns : Call(t)

\* What a call does on its own: files and docker clients answer or fail in bounded
\* time, a mutex is given to whoever waits for it long enough.
Advance(t) == \/ (TruncateFile(t) \/ FillFile(t) \/ Report(t) \/ PersistFails(t)) /\ UNCHANGED <<boxVars, regVars>>
              \/ CommandStep(t) /\ UNCHANGED <<cronVars, regVars>>

Spec == /\ Init /\ [][Next]_vars
        /\ \A t \in Turns : /\ WF_vars(Advance(t))
                            /\ SF_vars(LockSandbox(t) /\ UNCHANGED <<cronVars, regVars>>)

-----------------------------------------------------------------------------
(***************************************************************************)
(* The types of all variables.                                             *)
(***************************************************************************)
TypeOK ==
    /\ life \in {"down", "starting", "failing", "refused", "up", "closed"}
    /\ pc \in [Turns -> {"idle", "persist", "writing", "written", "remote", "hostRun", "lock", "inspect",
                         "remove", "start", "create", "exec", "inContainer"}]
    /\ tasks \subseteq Task /\ entries \subseteq Task
    /\ file \in File
    /\ cronMu \in Turns \cup {None} /\ ensure \in Turns \cup {None}
    /\ request \in [Turns -> Request]
    /\ promised \subseteq Task /\ dropped \subseteq JobIds
    /\ backend \in Backends /\ userMatches \in BOOLEAN
    /\ container \in {NoContainer} \cup Container
    /\ inside \subseteq Turns /\ strays \in BOOLEAN
    /\ step \in Nat
    /\ open \subseteq {"cronjob"} \cup RemoteOwners

(***************************************************************************)
(* A command never removes a container in which another call's process     *)
(* runs, if the image has the configured user: the stale inspection of one *)
(* turn meets the container another turn has just created.                 *)
(***************************************************************************)
NeighboursSpared ==
    [][userMatches /\ pc' # pc /\ container.exists /\ ~container'.exists => ~Busy]_vars

(***************************************************************************)
(* A start that failed and a runtime that was closed leave nothing open,   *)
(* except the session whose server came with a name that was taken: it is  *)
(* in no map and nobody can close it.                                      *)
(***************************************************************************)
NothingLeftOpen ==
    /\ life = "closed" => open = {}
    /\ life = "refused" => /\ "cronjob" \notin open
                           /\ \A e \in open : \A p \in providers : p.owner # e
                           /\ Cardinality(open) <= 1

(***************************************************************************)
(* Every call ends, whatever docker or the file system answers: no error   *)
(* path keeps the mutex of the sandbox.  Two kinds of calls are left out:  *)
(* one to an MCP server has no timeout, and one on the host outlasts its   *)
(* timeout if a process the command left behind holds its output open.     *)
(***************************************************************************)
CallsReturnAll == \A t \in Turns : (pc[t] \notin {"idle", "remote", "hostRun"}) ~> (pc[t] = "idle")
=============================================================================
