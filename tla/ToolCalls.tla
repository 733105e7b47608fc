------------------------------ MODULE ToolCalls ------------------------------
(***************************************************************************)
(* What the tool providers share: the life of the agent process that holds *)
(* their registry, and where each turn is in the tool call it is making.   *)
(* A turn executes one tool at a time (execution/executor.go, Execute), up *)
(* to four turns at once, so the providers meet calls of several turns.    *)
(***************************************************************************)
EXTENDS Integers, FiniteSets

CONSTANTS Turns,   \* the turns that may call a tool at one time
          None     \* no turn: a mutex that is free

ASSUME TurnsAssumption == None \notin Turns

VARIABLES life,    \* of the process: down, starting, failing, refused, up, closed
          pc       \* pc[t]: the next step of turn t's tool call

callVars == <<life, pc>>

\* The process holds a registry that accepts calls.  The goroutines of tasks go
\* on calling tools while Runtime.Close runs and after it (runtime.go:448).
Serving == life \in {"up", "closed"}

Goto(t, from, to) == pc[t] = from /\ pc' = [pc EXCEPT ![t] = to]
=============================================================================
