---------------------------- MODULE PromptContext ----------------------------
(***************************************************************************)
(* internal/runtime/contextmanager/manager.go: how Build cuts a turn down  *)
(* to the prompt of the planner, the evaluator or the responder.  A text   *)
(* is its length in tokens, as estimateTokens estimates it for ASCII; what *)
(* does not depend on the turn is a constant.  Division is Go's: sizes are *)
(* not negative.                                                           *)
(***************************************************************************)
EXTENDS Conversation, Routing

CONSTANTS BudgetTokens,   \* budget: the limit of each audience
          Overlap,        \* Overlap[g][x]: overlapScore of goal g and the tool or skill x
          GoalRunes,      \* the length of each goal, which is the user's text
          ProjectTokens, CatalogTokens, PlanTokens, FeedbackTokens,
          ToolTokens,     \* the descriptor of each tool as JSON
          LineTokens      \* a line about a step that is left out, at most

Audiences == {"planner", "evaluator", "responder"}

ASSUME PromptAssumption ==
    /\ \A a \in Audiences : BudgetTokens[a] \in Nat \ {0}
    /\ \A g \in Goals : \A x \in Tools \cup Skills : Overlap[g][x] \in Nat
    /\ GoalRunes \in [Goals -> Lengths] /\ ToolTokens \in [Tools -> Nat]
    /\ {ProjectTokens, CatalogTokens, PlanTokens, FeedbackTokens, LineTokens} \subseteq Nat

Larger(x, y) == IF x > y THEN x ELSE y
Smaller(x, y) == IF x < y THEN x ELSE y

\* estimateTokens of n ASCII runes.
Tokens(n) == (n + 3) \div 4

\* clipText: what has no budget is not clipped at all.
Clip(size, budget) == IF budget <= 0 THEN size ELSE Smaller(size, budget)

\* "(none)"
NoneIfEmpty(size) == IF size = 0 THEN 2 ELSE size

\* The notes about what was left out, and the headings around the plan.
NoteTokens == 22

\* allocationFor, the shares of a limit in percent, at least 64 tokens each; a section
\* of share 0 is left out.
Share(audience) ==
    CASE audience = "evaluator" ->
            [goal |-> 5, project |-> 8, conversation |-> 12, skills |-> 0, active |-> 20,
             tools |-> 0, routing |-> 0, trajectory |-> 50, feedback |-> 3]
      [] audience = "responder" ->
            [goal |-> 5, project |-> 8, conversation |-> 15, skills |-> 5, active |-> 15,
             tools |-> 14, routing |-> 0, trajectory |-> 35, feedback |-> 0]
      [] OTHER ->
            [goal |-> 4, project |-> 6, conversation |-> 12, skills |-> 5, active |-> 14,
             tools |-> 27, routing |-> 2, trajectory |-> 27, feedback |-> 2]

Percent(audience, s) == (BudgetTokens[audience] * Share(audience)[s]) \div 100
Allocation(audience) ==
    [s \in DOMAIN Share(audience) |-> IF Share(audience)[s] = 0 THEN 0 ELSE Larger(64, Percent(audience, s))]

Total(costs) == FoldLeft(LAMBDA n, x : n + x, 0, costs)

\* From the newest on as many as fit, and always the newest: how many.
NewestThatFit(costs, budget) ==
    IF costs = <<>> THEN 0
    ELSE Max({1} \cup {n \in 1..Len(costs) : Total(Newest(n, costs)) <= budget})

\* Mutant: entries are counted at their full length.
RenderConversation_Unclipped(messages, budget) ==
    LET entry(m) == Tokens(m.runes + IF m.role = "user" THEN 6 ELSE 11)
        costs == [i \in DOMAIN messages |-> entry(messages[i]) + 2]
        n == NewestThatFit(costs, budget)
    IN [kept |-> n,
        tokens |-> Total(Newest(n, costs)) + IF n < Len(messages) THEN NoteTokens ELSE 0]

\* renderConversation: "USER: " or "ASSISTANT: " and the text, clipped.
RenderConversation(messages, budget) ==
    LET entry(m) == Clip(Tokens(m.runes + IF m.role = "user" THEN 6 ELSE 11), Larger(128, budget \div 2))
        costs == [i \in DOMAIN messages |-> entry(messages[i]) + 2]
        n == NewestThatFit(costs, budget)
    IN [kept |-> n,
        tokens |-> Total(Newest(n, costs)) + IF n < Len(messages) THEN NoteTokens ELSE 0]

\* A sequence by descending score; equal scores keep their order: the k-th element has
\* k - 1 before it.
Ranked(s, score) ==
    LET before(i) == {j \in DOMAIN s : score[s[j]] > score[s[i]] \/ (score[s[j]] = score[s[i]] /\ j < i)}
    IN [k \in DOMAIN s |-> s[CHOOSE i \in DOMAIN s : Cardinality(before(i)) = k - 1]]

\* In the order given, all that still fits, and always the first.
TakeThoseThatFit(s, cost, budget) ==
    FoldLeft(LAMBDA r, x : IF r.kept # {} /\ r.used + cost[x] > budget THEN r
                           ELSE [kept |-> r.kept \cup {x}, used |-> r.used + cost[x]],
             [kept |-> {}, used |-> 0], s)

\* renderArtifacts: clipped each to the whole section, ranked by their overlap with the goal.
RenderArtifacts(active, goal, budget) ==
    LET cost == [s \in Skills |-> Clip(Tokens(SkillRunes[s]), budget) + 2]
        taken == TakeThoseThatFit(Ranked(active, Overlap[goal]), cost, budget)
    IN [kept |-> taken.kept,
        tokens |-> taken.used + IF Cardinality(taken.kept) < Len(active) THEN NoteTokens ELSE 0]

\* toolScore.
ToolScore(tool, goal, steps, hints) ==
      Overlap[goal][tool]
    + (IF tool \in {"activate_skill", "read_skill_resource"} THEN 100 ELSE 0)
    + (IF steps # <<>> /\ Last(steps).tool = tool THEN 80 ELSE 0)
    + (IF tool \in hints THEN 60 ELSE 0)
    + (IF \E i \in DOMAIN steps : steps[i].tool = tool THEN 40 ELSE 0)

\* renderRankedJSON of the tool catalog: all of it, or the best that fit.
RenderTools(goal, steps, hints, budget) ==
    LET score == [tool \in Tools |-> ToolScore(tool, goal, steps, hints)]
        taken == TakeThoseThatFit(Ranked(Catalog, score), ToolTokens, budget)
    IN IF budget <= 0 THEN 0
       ELSE taken.used + IF taken.kept # Tools THEN NoteTokens ELSE 0

\* renderStep: the output of the newest step may be longer than that of the others.
StepTokens(steps, i, budget) ==
    steps[i].head + Clip(steps[i].output, IF i = Len(steps) THEN Smaller(6000, Larger(512, budget \div 3))
                                          ELSE Smaller(2500, Larger(256, budget \div 8)))

\* renderTrajectory: the newest steps, a newest step too long clipped to the section,
\* and a summary of the older ones in what is left, or in 128.
RenderTrajectory(steps, budget) ==
    LET costs == [i \in DOMAIN steps |-> StepTokens(steps, i, budget) + 4]
        n == NewestThatFit(costs, budget)
        omitted == Len(steps) - n
        used == Smaller(Total(Newest(n, costs)), budget)
        summary == Clip(NoteTokens + omitted * LineTokens, Larger(128, budget - used))
    IN [kept |-> n, tokens |-> used + IF omitted > 0 THEN summary ELSE 0]

\* The plan, when the turn has one, comes on top of the trajectory's share.
PlanPart(budget) == Clip(PlanTokens, Larger(128, budget \div 3)) + NoteTokens

\* Build: turn has a goal, a context, active artifacts and steps; hints are the
\* planner's only, the evaluator gets no tools and no skills.
Build(audience, turn, hints) ==
    LET b == Allocation(audience)
        conversation == RenderConversation(turn.context, b.conversation)
        artifacts == RenderArtifacts(turn.active, turn.goal, b.active)
        trajectory == RenderTrajectory(turn.steps, b.trajectory)
        feedback == IF audience = "responder" THEN 0 ELSE Clip(FeedbackTokens, b.feedback)
        sections == << Clip(Tokens(GoalRunes[turn.goal]), b.goal), Clip(ProjectTokens, b.project),
                       conversation.tokens,
                       IF b.skills = 0 THEN 0 ELSE Clip(CatalogTokens, b.skills),
                       artifacts.tokens,
                       RenderTools(turn.goal, turn.steps, hints, b.tools),
                       IF b.routing = 0 THEN 0 ELSE Clip(8 * Cardinality(hints), b.routing),
                       trajectory.tokens + PlanPart(b.trajectory),
                       feedback >>
    IN [messages |-> conversation.kept, steps |-> trajectory.kept, artifacts |-> artifacts.kept,
        tokens |-> Total([i \in DOMAIN sections |-> NoneIfEmpty(sections[i])])]

\* What the floors of 64 add to the shares of a small limit.
FloorTokens(audience) ==
    LET raised(s) == Allocation(audience)[s] - Percent(audience, s)
    IN raised("goal") + raised("project") + raised("conversation") + raised("skills") + raised("active")
         + raised("tools") + raised("routing") + raised("trajectory") + raised("feedback")

\* How far a prompt may pass its limit: the plan, the summary of older steps, the
\* notes, a first tool that is larger than the section of tools, and, where the limit
\* is small, the floors of the sections and of the newest message.
Overhang(audience) ==
    LET b == Allocation(audience)
        largest == Max({ToolTokens[tool] : tool \in Tools})
    IN Larger(128, b.trajectory \div 3) + 128 + 7 * NoteTokens + Larger(0, largest - b.tools)
         + FloorTokens(audience) + Larger(0, 130 - b.conversation)
=============================================================================
