------------------------------- MODULE Memory --------------------------------
(***************************************************************************)
(* What the agent remembers, composed: turns of several conversations      *)
(* (runtime.go, RunTurn and runTask; agentloop/loop.go, Run) begin with    *)
(* what their conversation left (Conversation), act, learn which tool      *)
(* helped after which (Routing), are cut down to prompts (PromptContext)   *)
(* and leave their artifacts and an exchange behind if they end well.  The *)
(* gate allows one turn per conversation (TurnGate).  Conversations die    *)
(* with the process, what was learned survives in the database.            *)
(***************************************************************************)
EXTENDS PromptContext

CONSTANTS StepSizes,   \* of each tool: the tokens of a step's head and of its output
          MaxWork      \* bound: turns begun and actions taken, in all

ASSUME MemoryAssumption == /\ "activate_skill" \in Tools
                           /\ StepSizes \in [Tools -> [head : Nat, output : Nat]]

VARIABLES up,     \* the runtime serves turns
          turn,   \* turn[c]: the turn of conversation c, or NoTurn
          work    \* turns begun and actions taken

vars == <<conversationVars, routingVars, up, turn, work>>

NoTurn == [phase |-> "none"]
Running(c) == turn[c] # NoTurn
At(c, phase) == turn[c].phase = phase

Init == /\ ConversationInit /\ RoutingInit
        /\ up = FALSE
        /\ turn = [c \in Chats |-> NoTurn]
        /\ work = 0

-----------------------------------------------------------------------------
\* NewRuntime: an empty store, the graph read from the database.
Boot == /\ ~up /\ up' = TRUE
        /\ LoadFromStore
        /\ UNCHANGED <<conversationVars, turn, work>>

\* RunTurn up to loop.Run; the text, not empty, is the goal.
BeginTurn(c, goal) ==
    /\ up /\ ~Running(c) /\ work < MaxWork
    /\ turn' = [turn EXCEPT ![c] = [phase |-> "deciding", goal |-> goal,
                                    context |-> threads[c], active |-> ApplyAll(remembered[c]), steps |-> <<>>]]
    /\ work' = work + 1
    /\ UNCHANGED <<conversationVars, routingVars, up>>

Step(tool) == [tool |-> tool, head |-> StepSizes[tool].head, output |-> StepSizes[tool].output]

\* The planner reads the graph, which waits for its lock, and chooses a tool; a tool
\* that fails gives no signal to learn from.
ToolFails(c, tool) ==
    /\ At(c, "deciding") /\ learning = NotLearning /\ work < MaxWork
    /\ turn' = [turn EXCEPT ![c].steps = Append(@, Step(tool))]
    /\ work' = work + 1
    /\ UNCHANGED <<conversationVars, routingVars, up>>

\* A tool that works: activate_skill puts a skill into the context if it is not
\* refused there, which is a failure of the tool.
ToolWorks(c, tool, skill) ==
    /\ At(c, "deciding") /\ learning = NotLearning /\ work < MaxWork
    /\ tool = "activate_skill" => Applies(turn[c].active, skill)
    /\ turn' = [turn EXCEPT ![c].steps = Append(@, Step(tool)),
                            ![c].active = IF tool = "activate_skill" THEN Apply(@, skill) ELSE @,
                            ![c].phase = "judged"]
    /\ work' = work + 1
    /\ UNCHANGED <<conversationVars, routingVars, up>>

\* learn, before the last step: from the tool of the step before.
LastTransition(c, outcome) ==
    LET s == turn[c].steps
    IN [edge |-> [from |-> IF Len(s) >= 2 THEN s[Len(s) - 1].tool ELSE NoTool, to |-> Last(s).tool],
        goal |-> turn[c].goal, outcome |-> outcome]

\* The evaluator gives no signal or cannot be reached.
NoSignal(c) == /\ At(c, "judged")
               /\ turn' = [turn EXCEPT ![c].phase = "deciding"]
               /\ UNCHANGED <<conversationVars, routingVars, up, work>>

\* RecordOutcome: the transition is counted ...
Learn(c, outcome) == /\ At(c, "judged")
                     /\ CountOutcome(LastTransition(c, outcome))
                     /\ turn' = [turn EXCEPT ![c].phase = "saving"]
                     /\ UNCHANGED <<conversationVars, up, work>>

\* ... and saved, or not; the turn goes on in any case.
SaveLearned(c) ==
    /\ At(c, "saving")
    /\ \/ UpsertEdge /\ UNCHANGED turn
       \/ (AppendTransition \/ SaveFails) /\ turn' = [turn EXCEPT ![c].phase = "deciding"]
    /\ UNCHANGED <<conversationVars, up, work>>

\* loop.Run returns no error: the turn has an answer, whether completed, blocked or asking.
Finish(c, answer) ==
    /\ At(c, "deciding")
    /\ Remember(c, turn[c].active, GoalRunes[turn[c].goal], answer)
    /\ turn' = [turn EXCEPT ![c] = NoTurn]
    /\ UNCHANGED <<routingVars, up, work>>

\* loop.Run fails in the planner or the responder: nothing is remembered.
FailTurn(c) == /\ At(c, "deciding")
               /\ turn' = [turn EXCEPT ![c] = NoTurn]
               /\ UNCHANGED <<conversationVars, routingVars, up, work>>

\* The process exits or dies, within a save too.
ProcessEnds == /\ up /\ up' = FALSE
               /\ turn' = [c \in Chats |-> NoTurn]
               /\ ConversationForgets /\ RoutingForgets
               /\ UNCHANGED work

Next == \/ Boot \/ ProcessEnds
        \/ \E c \in Chats :
              \/ \E goal \in Goals : BeginTurn(c, goal)
              \/ \E tool \in Tools : ToolFails(c, tool)
              \/ \E tool \in Tools, skill \in Skills : ToolWorks(c, tool, skill)
              \/ NoSignal(c)
              \/ \E outcome \in Outcomes : Learn(c, outcome)
              \/ SaveLearned(c)
              \/ \E answer \in Lengths : Finish(c, answer)
              \/ FailTurn(c)

Spec == Init /\ [][Next]_vars

-----------------------------------------------------------------------------
(***************************************************************************)
(* A skill activated in a turn that ended well is active in every later    *)
(* turn of its conversation while the process lives, and in no turn of     *)
(* another: "complete SKILL.md instructions remain active for the          *)
(* conversation" (builtin/skills/runner.go:124).                           *)
(***************************************************************************)
SkillsCarryOver ==
    \A c \in Chats :
        /\ ToSet(remembered[c]) = activated[c]
        /\ Running(c) => activated[c] \subseteq ToSet(turn[c].active)

(***************************************************************************)
(* An outcome the database counts is counted for good: no save, failed save *)
(* or restart makes a count smaller, although every save writes what the   *)
(* memory of the current process holds.                                    *)
(***************************************************************************)
SavedCountsGrow ==
    [][\A e \in Edges, o \in Outcomes : savedCounts'[e][o] >= savedCounts[e][o]]_vars

(***************************************************************************)
(* However long the dialogue and the steps of a turn are, its prompts hold *)
(* the newest message, the newest step and, if any is active, an artifact, *)
(* and pass their limit, whatever it is, by no more than the plan, the     *)
(* summary of the older steps, the largest tool and, where the limit is    *)
(* small, the least size of each section account for.                      *)
(***************************************************************************)
PromptFits ==
    \A c \in Chats : Running(c) =>
        \A a \in Audiences, hints \in Recommendations(turn[c].goal, IF turn[c].steps = <<>> THEN NoTool ELSE Last(turn[c].steps).tool) :
            LET p == Build(a, turn[c], IF a = "planner" THEN hints ELSE {}) IN
            /\ turn[c].context # <<>> => p.messages >= 1
            /\ turn[c].steps # <<>> => p.steps >= 1
            /\ turn[c].active # <<>> => p.artifacts # {}
            /\ p.tokens <= BudgetTokens[a] + Overhang(a)
=============================================================================
