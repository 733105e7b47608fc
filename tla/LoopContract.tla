---------------------------- MODULE LoopContract ----------------------------
(***************************************************************************)
(* The agent loop as the runtime sees it: a turn alternates between the    *)
(* planner and at most MaxActions actions until one response is written.   *)
(* AgentLoop, which models the loop's decisions, and TaskRuntime, which    *)
(* models the goroutines that run it, both implement it: TaskRuntime's     *)
(* goroutines do what the loop does, and no more.                          *)
(***************************************************************************)
EXTENDS Naturals

CONSTANT MaxActions

VARIABLES phase,  \* out, planning, acting, responding, replied or over
          acts,   \* the actions begun in this turn
          out     \* how the turn is to end: a disposition, or an error

cvars == <<phase, acts, out>>

Ends == {"answer", "clarify", "blocked"}

CInit == phase = "out" /\ acts = 0 /\ out = "none"

Enter == /\ phase = "out" /\ phase' = "planning"
         /\ UNCHANGED <<acts, out>>

Act == /\ phase = "planning" /\ phase' = "acting"
       /\ acts < MaxActions /\ acts' = acts + 1
       /\ UNCHANGED out

Conclude(e) == /\ phase' = "responding"
               /\ out' = e
               /\ UNCHANGED acts

\* The planner decides to respond, or the action limit decides for it.
EndTurn == /\ phase = "planning"
           /\ \E e \in Ends : (acts = MaxActions => e = "blocked") /\ Conclude(e)

\* An action is assessed: the turn goes on, is answered or is blocked.
Assess == /\ phase = "acting"
          /\ \/ phase' = "planning" /\ UNCHANGED <<acts, out>>
             \/ Conclude("answer")
             \/ Conclude("blocked")

Respond == /\ phase = "responding" /\ phase' = "replied"
           /\ out' \in {out, "error"}
           /\ UNCHANGED acts

Close == /\ phase = "replied" /\ phase' = "over"
         /\ UNCHANGED <<acts, out>>

PlanFails == /\ phase = "planning" /\ phase' = "over"
             /\ acts < MaxActions
             /\ out' = "error"
             /\ UNCHANGED acts

\* The turn is left behind, by its goroutine or by a crash.
Leave == phase' = "out" /\ acts' = 0 /\ out' = "none"

CNext == Enter \/ Act \/ EndTurn \/ Assess \/ Respond \/ Close \/ PlanFails \/ Leave

CSpec == CInit /\ [][CNext]_cvars
=============================================================================
