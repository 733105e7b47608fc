------------------------------- MODULE Routing -------------------------------
(***************************************************************************)
(* internal/runtime/toolrouting, internal/runtime/learning and the routing *)
(* tables of internal/storage/routing_sqlite.go: what is learned about     *)
(* which tool helps after which.  RecordTransition counts an outcome in    *)
(* memory, then saves the counts of the edge, then appends the transition  *)
(* to a second table: three steps between which the process may die, the   *)
(* last two of which may fail.  The lock of the graph is held throughout.  *)
(***************************************************************************)
EXTENDS Integers, FiniteSets, Sequences, SequencesExt

CONSTANTS Catalog,      \* g.catalogTools: the names of all tools, a sequence
          NoTool,       \* the tool before the first one
          Goals,        \* the users' goals
          Words,        \* intentWordSet of each goal
          RecentCap,    \* recentTransitionsCap and routingTransitionsMaxRows, 200
          HintLimit     \* the limit the planner asks for, 3

Tools == ToSet(Catalog)

ASSUME RoutingAssumption ==
    /\ Catalog \in Seq(Tools) /\ NoTool \notin Tools
    /\ \A g \in Goals : IsFiniteSet(Words[g])
    /\ RecentCap \in Nat /\ HintLimit \in Nat

Edges == [from : Tools \cup {NoTool}, to : Tools]
Outcomes == {"helpful", "wrong_route"}
Transition == [edge : Edges, goal : Goals, outcome : Outcomes]

VARIABLES counts,       \* g.edges: outcomes per edge, an absent row being zeros
          recent,       \* g.recentTransitions
          savedCounts,  \* the table routing_edges
          savedRecent,  \* the table routing_transitions, in the order of ids
          learning,     \* under g.mu: the next step and the transition, or NotLearning
          recorded      \* history: every transition that was recorded, in order

routingVars == <<counts, recent, savedCounts, savedRecent, learning, recorded>>

NoCounts == [e \in Edges |-> [o \in Outcomes |-> 0]]
NotLearning == [step |-> "none"]

\* The last RecentCap elements.
Capped(s) == IF Len(s) > RecentCap THEN SubSeq(s, Len(s) - RecentCap + 1, Len(s)) ELSE s

\* How often a sequence of transitions has outcome o on edge e.
Times(s, e, o) == Cardinality({i \in DOMAIN s : s[i].edge = e /\ s[i].outcome = o})

Tried(e) == counts[e]["helpful"] + counts[e]["wrong_route"]

\* wordOverlapRatio of at least 0.2; a goal without words resembles nothing.
Resembles(g, h) == Words[g] # {} /\ 5 * Cardinality(Words[g] \cap Words[h]) >= Cardinality(Words[g])

\* intentMatchRate as a pair: transitions of e with a goal like g, helpful ones of these.
Match(g, e) == LET like == {i \in DOMAIN recent : recent[i].edge = e /\ Resembles(g, recent[i].goal)}
               IN [all |-> Cardinality(like),
                   helpful |-> Cardinality({i \in like : recent[i].outcome = "helpful"})]

\* The three thresholds of Recommend: two outcomes, 67%, 20%.
Supported(g, e) == /\ Tried(e) >= 2
                   /\ 100 * counts[e]["helpful"] >= 67 * Tried(e)
                   /\ Match(g, e).all > 0
                   /\ 5 * Match(g, e).helpful >= Match(g, e).all

\* Recommend's score of e is at least that of f: 0.65 rate + 0.35 match.
ScoresAtLeast(g, e, f) ==
    LET num(x) == 65 * counts[x]["helpful"] * Match(g, x).all + 35 * Match(g, x).helpful * Tried(x)
        den(x) == Tried(x) * Match(g, x).all
    IN num(e) * den(f) >= num(f) * den(e)

\* The results Recommend may return: the order of equal scores is not fixed.
Recommendations(g, last) ==
    LET edge(tool) == [from |-> last, to |-> tool]
        candidates == {tool \in Tools : Supported(g, edge(tool))}
        size == IF Cardinality(candidates) > HintLimit THEN HintLimit ELSE Cardinality(candidates)
    IN {H \in SUBSET candidates :
            /\ Cardinality(H) = size
            /\ \A h \in H, x \in candidates \ H : ScoresAtLeast(g, edge(h), edge(x))}

RoutingInit == /\ counts = NoCounts /\ recent = <<>>
               /\ savedCounts = NoCounts /\ savedRecent = <<>>
               /\ learning = NotLearning
               /\ recorded = <<>>

-----------------------------------------------------------------------------
\* RecordTransition takes the lock and updates the memory.
CountOutcome(t) ==
    /\ learning = NotLearning
    /\ counts' = [counts EXCEPT ![t.edge][t.outcome] = @ + 1]
    /\ recent' = Capped(Append(recent, t))
    /\ recorded' = Append(recorded, t)
    /\ learning' = [step |-> "upsert", of |-> t]
    /\ UNCHANGED <<savedCounts, savedRecent>>

\* Mutant: the row is made to count this outcome only.
UpsertEdge_Delta ==
    /\ learning.step = "upsert"
    /\ savedCounts' = [savedCounts EXCEPT ![learning.of.edge] = [NoCounts[learning.of.edge] EXCEPT ![learning.of.outcome] = 1]]
    /\ learning' = [learning EXCEPT !.step = "append"]
    /\ UNCHANGED <<counts, recent, savedRecent, recorded>>

\* Mutant: the error of the upsert is ignored.
UpsertEdge_IgnoresError ==
    /\ learning.step = "upsert"
    /\ savedCounts' \in {savedCounts, [savedCounts EXCEPT ![learning.of.edge] = counts[learning.of.edge]]}
    /\ learning' = [learning EXCEPT !.step = "append"]
    /\ UNCHANGED <<counts, recent, savedRecent, recorded>>

\* RoutingEdgeUpsert writes the counts the memory has, missed saves included ...
UpsertEdge ==
    /\ learning.step = "upsert"
    /\ savedCounts' = [savedCounts EXCEPT ![learning.of.edge] = counts[learning.of.edge]]
    /\ learning' = [learning EXCEPT !.step = "append"]
    /\ UNCHANGED <<counts, recent, savedRecent, recorded>>

\* ... RoutingTransitionAppend inserts and prunes in one transaction ...
AppendTransition ==
    /\ learning.step = "append"
    /\ savedRecent' = Capped(Append(savedRecent, learning.of))
    /\ learning' = NotLearning
    /\ UNCHANGED <<counts, recent, savedCounts, recorded>>

\* ... and either may fail; the first failure ends the call, the loop logs it.
SaveFails ==
    /\ learning # NotLearning
    /\ learning' = NotLearning
    /\ UNCHANGED <<counts, recent, savedCounts, savedRecent, recorded>>

\* The process is gone; toolrouting.New will read the two tables.
RoutingForgets == /\ counts' = NoCounts /\ recent' = <<>>
                  /\ learning' = NotLearning
                  /\ UNCHANGED <<savedCounts, savedRecent, recorded>>

\* loadFromStore.
LoadFromStore == /\ counts' = savedCounts /\ recent' = savedRecent
                 /\ UNCHANGED <<savedCounts, savedRecent, learning, recorded>>

-----------------------------------------------------------------------------
\* The transitions of a window are among the outcomes its edges count, and these
\* are outcomes that were recorded.
Accounted(window, edges) ==
    \A e \in Edges, o \in Outcomes : /\ Times(window, e, o) <= edges[e][o]
                                     /\ edges[e][o] <= Times(recorded, e, o)

(***************************************************************************)
(* Failed and interrupted saves may lose evidence and never make any up:   *)
(* in memory and in the database the counts cover the transitions and are  *)
(* covered by what was recorded, and every tool Recommend may name was     *)
(* tried twice after the same tool and helped once with a goal like this.  *)
(***************************************************************************)
HintsAreBacked ==
    /\ Accounted(recent, counts)
    /\ Accounted(savedRecent, savedCounts)
    /\ \A g \in Goals, last \in Tools \cup {NoTool} :
          \A H \in Recommendations(g, last) : \A tool \in H :
              LET e == [from |-> last, to |-> tool] IN
              /\ Times(recorded, e, "helpful") + Times(recorded, e, "wrong_route") >= 2
              /\ \E r \in ToSet(recorded) : /\ r.edge = e /\ r.outcome = "helpful"
                                            /\ Resembles(g, r.goal)
=============================================================================
