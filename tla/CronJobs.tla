------------------------------ MODULE CronJobs -------------------------------
(***************************************************************************)
(* internal/tools/builtin/cronjob/runner.go: jobs live in three places, the *)
(* scheduler, the maps tasks/ids and the file cronjob.md.  A mutex makes   *)
(* the calls atomic to each other, not to the death of the process: the    *)
(* file is rewritten in place (os.WriteFile truncates, then writes), so    *)
(* opening it, truncating it and filling it are separate steps.  A job is  *)
(* a record; the entry id a job has in the scheduler is abstracted to the  *)
(* job the entry runs.                                                     *)
(***************************************************************************)
EXTENDS ToolCalls

CONSTANTS JobIds, Specs, Contents,
          BadSpecs,         \* specs that cron's parser refuses
          FencedContents    \* contents in which three backquotes occur

ASSUME CronAssumption == BadSpecs \subseteq Specs /\ FencedContents \subseteq Contents

Task == [id : JobIds, spec : Specs, content : Contents]

VARIABLES tasks,      \* r.tasks (and r.ids: both maps always have the same keys)
          entries,    \* the jobs that have an entry in r.cron
          file,       \* cronjob.md
          cronMu,     \* the holder of r.mu
          request,    \* request[t]: the call t is making under r.mu
          promised,   \* history: jobs reported as created, no deletion asked for since
          dropped     \* history: ids reported as deleted, no creation asked for since

cronVars == <<tasks, entries, file, cronMu, request, promised, dropped>>

NoRequest == [op |-> "none"]
Request == [op : {"create", "delete"}, task : Task] \cup {NoRequest}
Absent == [state |-> "absent", jobs |-> {}]
Torn == [state |-> "torn", jobs |-> {}]

\* What encodeTasksMarkdown makes of a set of jobs: the JSON between two fences.
Encoded(S) == [state |-> "whole", jobs |-> S]
File == {Absent, Torn} \cup {Encoded(S) : S \in SUBSET Task}

\* decodeTasksMarkdown takes the JSON up to the FIRST closing fence: it fails on
\* a torn file and on one in which a job's content holds a fence of its own.
Decodable(f) == /\ f.state = "whole"
                /\ \A j \in f.jobs : j.content \notin FencedContents

\* The loop of loadAndSchedule: ids are unique and every spec parses.
Schedulable(S) == /\ \A j \in S : j.spec \notin BadSpecs
                  /\ \A j, k \in S : j.id = k.id => j = k

WithId(S, id) == {j \in S : j.id = id}

CronInit == /\ tasks = {} /\ entries = {}
            /\ file = Absent
            /\ cronMu = None
            /\ request = [t \in Turns |-> NoRequest]
            /\ promised = {} /\ dropped = {}

-----------------------------------------------------------------------------
\* createTask up to persistLocked: the id is new, AddFunc takes the spec.  A call
\* that finds the id or a bad spec, or whose arguments are no non-empty strings,
\* changes nothing and has no action.
CreateTask(t, j) ==
    /\ Serving /\ cronMu = None
    /\ WithId(tasks, j.id) = {}
    /\ j.spec \notin BadSpecs
    /\ Goto(t, "idle", "persist")
    /\ cronMu' = t
    /\ request' = [request EXCEPT ![t] = [op |-> "create", task |-> j]]
    /\ entries' = entries \cup {j}
    /\ tasks' = tasks \cup {j}
    /\ dropped' = dropped \ {j.id}
    /\ UNCHANGED <<life, file, promised>>

\* deleteTask up to persistLocked, for the job j that has the id asked for.
DeleteTask(t, j) ==
    /\ Serving /\ cronMu = None
    /\ j \in tasks
    /\ Goto(t, "idle", "persist")
    /\ cronMu' = t
    /\ request' = [request EXCEPT ![t] = [op |-> "delete", task |-> j]]
    /\ entries' = entries \ {j}
    /\ tasks' = tasks \ {j}
    /\ promised' = promised \ {j}
    /\ UNCHANGED <<life, file, dropped>>

\* The call returns and the deferred Unlock runs.
Return(t, from) == /\ Goto(t, from, "idle")
                   /\ cronMu' = None
                   /\ request' = [request EXCEPT ![t] = NoRequest]
                   /\ UNCHANGED life

\* persistLocked opens the file: O_TRUNC empties it before anything is written.
TruncateFile(t) == /\ Goto(t, "persist", "writing")
                   /\ file' = Torn
                   /\ UNCHANGED <<life, tasks, entries, cronMu, request, promised, dropped>>

\* Mutant: a creation writes its own job only.
FillFile_OneJob(t) ==
    /\ Goto(t, "writing", "written")
    /\ file' = Encoded(IF request[t].op = "create" THEN {request[t].task} ELSE tasks)
    /\ UNCHANGED <<life, tasks, entries, cronMu, request, promised, dropped>>

\* ... and then writes all of r.tasks into it.
FillFile(t) ==
    /\ Goto(t, "writing", "written")
    /\ file' = Encoded(tasks)
    /\ UNCHANGED <<life, tasks, entries, cronMu, request, promised, dropped>>

\* The call reports what it did.
Report(t) ==
    LET r == request[t] IN
    /\ Return(t, "written")
    /\ \/ /\ r.op = "create"
          /\ promised' = promised \cup {r.task}
          /\ UNCHANGED dropped
       \/ /\ r.op = "delete"
          /\ dropped' = dropped \cup {r.task.id}
          /\ UNCHANGED promised
    /\ UNCHANGED <<tasks, entries, file>>

\* Mutant: the job stays in the scheduler.
PersistFails_KeepsEntry(t) ==
    /\ \E from \in {"persist", "writing"} : Return(t, from)
    /\ tasks' = IF request[t].op = "create" THEN tasks \ {request[t].task} ELSE tasks
    /\ UNCHANGED <<entries, file, promised, dropped>>

\* ... or the open or the write fails: createTask takes the job back, deleteTask
\* returns the error and leaves the job deleted.  A failed write leaves what
\* TruncateFile left.
PersistFails(t) ==
    LET undone == IF request[t].op = "create" THEN {request[t].task} ELSE {} IN
    /\ \E from \in {"persist", "writing"} : Return(t, from)
    /\ tasks' = tasks \ undone
    /\ entries' = entries \ undone
    /\ UNCHANGED <<file, promised, dropped>>

-----------------------------------------------------------------------------
\* loadFromDisk finds no file and writes the default one: the first half.
DefaultFileCreated == file = Absent /\ file' = Torn /\ UNCHANGED <<tasks, entries, cronMu, request, promised, dropped>>

\* Mutant: the fences are forgotten.
DefaultFileFilled_Bare == file = Torn /\ file' = [state |-> "bare", jobs |-> {}] /\ UNCHANGED <<tasks, entries, cronMu, request, promised, dropped>>

\* The second half.
DefaultFileFilled == file = Torn /\ file' = Encoded({}) /\ UNCHANGED <<tasks, entries, cronMu, request, promised, dropped>>

\* loadFromDisk and loadAndSchedule succeed.
LoadAndSchedule ==
    /\ Decodable(file) /\ Schedulable(file.jobs)
    /\ tasks' = file.jobs
    /\ entries' = file.jobs
    /\ UNCHANGED <<file, cronMu, request, promised, dropped>>

\* The user edits the file while the agent is down: what it holds then is wanted.
\* The edited jobs may repeat an id or have a bad spec; they hold no fence.
EditFile(S) ==
    /\ life = "down"
    /\ \A j \in S : j.content \notin FencedContents
    /\ file' = Encoded(S)
    /\ promised' = S
    /\ dropped' = {}
    /\ UNCHANGED <<callVars, tasks, entries, cronMu, request>>

\* The process is gone: only the file and the history remain.
CronForgets == /\ tasks' = {} /\ entries' = {}
               /\ cronMu' = None
               /\ request' = [t \in Turns |-> NoRequest]
               /\ UNCHANGED <<file, promised, dropped>>

CronCall(t) == \/ \E j \in Task : CreateTask(t, j) \/ DeleteTask(t, j)
               \/ TruncateFile(t) \/ FillFile(t) \/ Report(t) \/ PersistFails(t)

-----------------------------------------------------------------------------
(***************************************************************************)
(* A serving process has every job whose creation it reported and no        *)
(* deletion of which was asked for, and none whose deletion it reported,   *)
(* over failed and torn writes, rollbacks, deaths and restarts.            *)
(***************************************************************************)
JobsKept ==
    Serving /\ cronMu = None => /\ promised \subseteq tasks
                                /\ \A j \in tasks : j.id \notin dropped

(***************************************************************************)
(* Between calls the scheduler runs exactly the jobs list_cronjobs shows,  *)
(* one per id, whichever writes failed.                                    *)
(***************************************************************************)
JobsScheduled ==
    Serving /\ cronMu = None => /\ entries = tasks
                                /\ Schedulable(tasks)

(***************************************************************************)
(* What create_cronjob wrote can be read back: "Create and persist a cron  *)
(* task in workspace/cronjob.md" (runner.go:103).                          *)
(***************************************************************************)
PersistedIsReadable == file.state = "whole" => Decodable(file)
=============================================================================
