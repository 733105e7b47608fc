---------------------------- MODULE TaskContract ----------------------------
(***************************************************************************)
(* What the runtime promises about a task, seen by the user who polls it:  *)
(* a task is engaged while an execution works on it, at most one at a time;*)
(* it is running or waits for an approval exactly while it is engaged, it  *)
(* waits for input when nobody works on it, and completed and failed are   *)
(* final.  A crash leaves nothing engaged: what was under way waits for    *)
(* the user to continue it.                                                *)
(***************************************************************************)
CONSTANT Tasks

VARIABLES status,   \* status[t], "absent" before the task is created
          engaged   \* the tasks an execution works on

cvars == <<status, engaged>>

Set(t, s) == status' = [status EXCEPT ![t] = s]

CInit == /\ status = [t \in Tasks |-> "absent"]
         /\ engaged = {}

Start(t) == /\ t \notin engaged
            /\ status[t] \in {"absent", "waiting_input"}
            /\ Set(t, "running")
            /\ engaged' = engaged \cup {t}

Ask(t) == /\ t \in engaged
          /\ status[t] = "running"
          /\ Set(t, "waiting_approval")
          /\ UNCHANGED engaged

Decide(t) == /\ t \in engaged
             /\ status[t] = "waiting_approval"
             /\ Set(t, "running")
             /\ UNCHANGED engaged

Conclude(t, s) == /\ t \in engaged
                  /\ Set(t, s)
                  /\ engaged' = engaged \ {t}

Crash == /\ status' = [t \in Tasks |-> IF t \in engaged THEN "waiting_input" ELSE status[t]]
         /\ engaged' = {}

CNext == \/ \E t \in Tasks : \/ Start(t) \/ Ask(t) \/ Decide(t)
                             \/ \E s \in {"completed", "failed", "waiting_input"} : Conclude(t, s)
         \/ Crash

CSpec == CInit /\ [][CNext]_cvars
=============================================================================
