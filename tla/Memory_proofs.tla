---------------------------- MODULE Memory_proofs ----------------------------
(***************************************************************************)
(* Proofs about Memory for any conversations, tools, goals and skills and  *)
(* any number of turns: what a thread, the artifacts of a conversation and *)
(* the counts of the routing graph hold, over failed turns, failed saves   *)
(* and restarts.                                                           *)
(***************************************************************************)
EXTENDS Memory, Context_proofs

-----------------------------------------------------------------------------
(* Types. *)

Steps == {Step(tool) : tool \in Tools}

\* A turn that runs; the evaluator judges it after a step.
Turn == [phase : {"deciding", "judged", "saving"}, goal : Goals, context : Seq(Message),
         active : Seq(Skills), steps : Seq(Steps)]

Learning == [step : {"upsert", "append"}, of : Transition]

ThreadTypes == threads \in [Chats -> Seq(Message)] /\ said \in [Chats -> Seq(Message)]

RouteTypes == /\ counts \in [Edges -> [Outcomes -> Nat]] /\ savedCounts \in [Edges -> [Outcomes -> Nat]]
              /\ recent \in Seq(Transition) /\ savedRecent \in Seq(Transition) /\ recorded \in Seq(Transition)
              /\ learning \in {NotLearning} \cup Learning

TurnTypes == /\ turn \in [Chats -> {NoTurn} \cup Turn]
             /\ \A c \in Chats : At(c, "judged") => turn[c].steps # <<>>
             /\ up \in BOOLEAN

\* What ended turns left to a conversation, and what its turn began with and added:
\* artifacts one can apply one after the other, all that were ever activated.
SkillInv ==
    /\ remembered \in [Chats -> Seq(Skills)] /\ activated \in [Chats -> SUBSET Skills]
    /\ \A c \in Chats :
          /\ Fits(remembered[c]) /\ ToSet(remembered[c]) = activated[c]
          /\ Running(c) => Fits(turn[c].active) /\ activated[c] \subseteq ToSet(turn[c].active)

\* A thread is what the two bounds leave of the whole dialogue.
ThreadInv == \A c \in Chats : Recent(threads[c], said[c])

TurnInv == ThreadTypes /\ TurnTypes /\ SkillInv /\ ThreadInv

\* NoTurn has no phase of a turn.
LEMMA TurnFacts ==
  ASSUME TurnTypes, NEW c \in Chats, NEW p \in {"deciding", "judged", "saving"}, At(c, p)
  PROVE  turn[c] \in Turn /\ Running(c) /\ turn[c].phase = p
<1>1. NoTurn.phase = "none"
  BY DEF NoTurn
<1>2. turn[c] # NoTurn
  BY <1>1 DEF At
<1>3. QED
  BY <1>2 DEF TurnTypes, Running, At

\* There is nothing to remember at first.
LEMMA NothingRemembered ==
  /\ Fits(<<>>) /\ ToSet(<<>>) = {}
  /\ Recent(<<>>, <<>>)
<1>1. /\ MaxArtifacts \in Nat /\ MaxMessages \in Nat
      /\ maxContextTotalRunes = 60000 /\ maxConversationRunes = 24000
  BY ConversationAssumption DEF maxContextTotalRunes, maxConversationRunes
<1>2. <<>> \in Seq(Skills) /\ Len(<<>>) = 0 /\ DOMAIN <<>> = 1..0 /\ <<>> \in Seq(Message)
  OBVIOUS
<1>3. ActiveRunes(<<>>) <= maxContextTotalRunes /\ Runes(<<>>) <= maxConversationRunes
  BY <1>1, ActiveFacts, RunesFacts
<1>4. Fits(<<>>)
  BY <1>1, <1>2, <1>3 DEF Fits
<1>5. Newest(0, <<>>) = <<>>
  BY DEF Newest
<1>6. Recent(<<>>, <<>>)
  BY <1>1, <1>2, <1>3, <1>5 DEF Recent
<1>7. QED
  BY <1>4, <1>6 DEF ToSet

\* The turns begin with the types, and with nothing to remember.
LEMMA TurnBegins == Init => TurnInv
<1> SUFFICES ASSUME Init PROVE TurnInv
  OBVIOUS
<1>1. ThreadTypes /\ TurnTypes
  <2>1. ThreadTypes
    BY DEF Init, ConversationInit, ThreadTypes
  <2>2. NoTurn.phase # "judged"
    BY DEF NoTurn
  <2>3. QED
    BY <2>1, <2>2 DEF Init, TurnTypes, At
<1>2. ThreadInv
  BY NothingRemembered DEF Init, ConversationInit, ThreadInv
<1>3. SkillInv
  BY NothingRemembered DEF Init, ConversationInit, SkillInv, Running
<1>4. QED
  BY <1>1, <1>2, <1>3 DEF TurnInv

\* A step that changes one turn, keeps what the conversations remember, and neither
\* drops an artifact nor breaks their bounds.
LEMMA OneTurn ==
  ASSUME TurnInv, NEW c \in Chats, NEW new \in {NoTurn} \cup Turn,
         turn' = [turn EXCEPT ![c] = new], UNCHANGED <<conversationVars, up>>,
         new # NoTurn => Fits(new.active) /\ activated[c] \subseteq ToSet(new.active),
         new.phase = "judged" => new.steps # <<>>
  PROVE  TurnInv'
<1>1. turn \in [Chats -> {NoTurn} \cup Turn]
  BY DEF TurnInv, TurnTypes
<1>2. TurnTypes'
  BY <1>1 DEF TurnInv, TurnTypes, At
<1>3. SkillInv'
  BY <1>1 DEF TurnInv, SkillInv, Running, conversationVars
<1>4. ThreadTypes' /\ ThreadInv'
  BY DEF TurnInv, ThreadTypes, ThreadInv, conversationVars
<1>5. QED
  BY <1>2, <1>3, <1>4 DEF TurnInv

\* A turn begins with all the artifacts of its conversation.
LEMMA TurnBeginTurn ==
  ASSUME TurnInv, NEW c \in Chats, NEW goal \in Goals, BeginTurn(c, goal)
  PROVE  TurnInv'
<1> DEFINE new == [phase |-> "deciding", goal |-> goal, context |-> threads[c],
                   active |-> ApplyAll(remembered[c]), steps |-> <<>>]
<1>1. Fits(remembered[c]) /\ ToSet(remembered[c]) = activated[c] /\ threads[c] \in Seq(Message)
  BY DEF TurnInv, SkillInv, ThreadTypes
<1>2. ApplyAll(remembered[c]) = remembered[c]
  BY <1>1, ApplyAllKeeps
<1>3. remembered[c] \in Seq(Skills)
  BY <1>1 DEF Fits
<1>4. new \in Turn
  BY <1>1, <1>2, <1>3 DEF Turn
<1>5. Fits(new.active) /\ activated[c] \subseteq ToSet(new.active) /\ new.phase # "judged"
  BY <1>1, <1>2
<1>6. turn' = [turn EXCEPT ![c] = new] /\ UNCHANGED <<conversationVars, up>>
  BY DEF BeginTurn
<1> HIDE DEF new
<1>7. QED
  BY <1>4, <1>5, <1>6, OneTurn

\* The steps grow by one.
LEMMA StepAdded ==
  ASSUME NEW steps \in Seq(Steps), NEW tool \in Tools
  PROVE  Append(steps, Step(tool)) \in Seq(Steps) /\ Append(steps, Step(tool)) # <<>>
<1>1. Step(tool) \in Steps
  BY DEF Steps
<1>2. QED
  BY <1>1, AppendProperties

\* A tool that fails leaves a step.
LEMMA TurnToolFails ==
  ASSUME TurnInv, NEW c \in Chats, NEW tool \in Tools, ToolFails(c, tool)
  PROVE  TurnInv'
<1> DEFINE old == turn[c]
           new == [old EXCEPT !.steps = Append(@, Step(tool))]
<1>1. old \in Turn /\ Running(c) /\ old.phase = "deciding"
  BY TurnFacts DEF ToolFails, TurnInv
<1>2. Append(old.steps, Step(tool)) \in Seq(Steps)
  BY <1>1, StepAdded DEF Turn
<1>3. new \in Turn /\ new.active = old.active /\ new.phase = "deciding"
  BY <1>1, <1>2 DEF Turn
<1>4. Fits(new.active) /\ activated[c] \subseteq ToSet(new.active)
  BY <1>1, <1>3 DEF TurnInv, SkillInv
<1>5. turn' = [turn EXCEPT ![c] = new] /\ UNCHANGED <<conversationVars, up>>
  BY DEF ToolFails, TurnInv, TurnTypes
<1> HIDE DEF new
<1>6. QED
  BY <1>3, <1>4, <1>5, OneTurn

\* One that works may add an artifact.
LEMMA TurnToolWorks ==
  ASSUME TurnInv, NEW c \in Chats, NEW tool \in Tools, NEW skill \in Skills, ToolWorks(c, tool, skill)
  PROVE  TurnInv'
<1> DEFINE old == turn[c]
           added == IF tool = "activate_skill" THEN Apply(old.active, skill) ELSE old.active
           new == [old EXCEPT !.steps = Append(@, Step(tool)), !.active = added, !.phase = "judged"]
<1>1. old \in Turn /\ Running(c) /\ old.phase = "deciding"
  BY TurnFacts DEF ToolWorks, TurnInv
<1>2. Append(old.steps, Step(tool)) \in Seq(Steps) /\ Append(old.steps, Step(tool)) # <<>>
  BY <1>1, StepAdded DEF Turn
<1>3. Fits(old.active) /\ activated[c] \subseteq ToSet(old.active)
  BY <1>1 DEF TurnInv, SkillInv
<1>4. Fits(added) /\ activated[c] \subseteq ToSet(added)
  BY <1>3, ApplyFits DEF ToolWorks
<1>5. added \in Seq(Skills)
  BY <1>4 DEF Fits
<1>6. turn' = [turn EXCEPT ![c] = new] /\ UNCHANGED <<conversationVars, up>>
  BY DEF ToolWorks, TurnInv, TurnTypes
<1> HIDE DEF added
<1>7. new \in Turn /\ new.active = added /\ new.steps # <<>>
  BY <1>1, <1>2, <1>5 DEF Turn
<1> HIDE DEF new
<1>8. QED
  BY <1>4, <1>6, <1>7, OneTurn

\* The evaluation and the learning change the phase only.
LEMMA TurnPhase ==
  ASSUME TurnInv, NEW c \in Chats, NEW p \in {"deciding", "judged", "saving"},
         NEW q \in {"deciding", "saving"}, At(c, p),
         turn' = [turn EXCEPT ![c].phase = q], UNCHANGED <<conversationVars, up>>
  PROVE  TurnInv'
<1> DEFINE old == turn[c]
           new == [old EXCEPT !.phase = q]
<1>1. old \in Turn /\ Running(c)
  BY TurnFacts DEF TurnInv
<1>2. new \in Turn /\ new.active = old.active /\ new.phase = q
  BY <1>1 DEF Turn
<1>3. Fits(new.active) /\ activated[c] \subseteq ToSet(new.active)
  BY <1>1, <1>2 DEF TurnInv, SkillInv
<1>4. turn' = [turn EXCEPT ![c] = new]
  BY DEF TurnInv, TurnTypes
<1> HIDE DEF new
<1>5. QED
  BY <1>2, <1>3, <1>4, OneTurn

\* A turn that ends well leaves its artifacts and an exchange.
LEMMA TurnFinish ==
  ASSUME TurnInv, NEW c \in Chats, NEW answer \in Lengths, Finish(c, answer)
  PROVE  TurnInv'
<1> DEFINE active == turn[c].active
           ex == Exchange(GoalRunes[turn[c].goal], answer)
<1>1. turn[c] \in Turn /\ Running(c)
  BY TurnFacts DEF Finish, TurnInv
<1>2. Fits(active) /\ activated[c] \subseteq ToSet(active) /\ active \in Seq(Skills)
  BY <1>1 DEF TurnInv, SkillInv, Turn
<1>3. GoalRunes[turn[c].goal] \in Lengths
  BY <1>1, PromptAssumption DEF Turn
<1>4. /\ remembered' = [remembered EXCEPT ![c] = active]
      /\ threads' = [threads EXCEPT ![c] = Bounded(@ \o ex)]
      /\ said' = [said EXCEPT ![c] = @ \o ex]
      /\ activated' = [activated EXCEPT ![c] = @ \cup ToSet(active)]
      /\ turn' = [turn EXCEPT ![c] = NoTurn] /\ up' = up
  BY DEF Finish, Remember
<1>5. threads[c] \in Seq(Message) /\ said[c] \in Seq(Message) /\ Recent(threads[c], said[c])
  BY DEF TurnInv, ThreadTypes, ThreadInv
<1>6. Recent(Bounded(threads[c] \o ex), said[c] \o ex)
  BY <1>3, <1>5, RecentExchange
<1>7. said[c] \o ex \in Seq(Message) /\ Bounded(threads[c] \o ex) \in Seq(Message)
  <2>1. ex \in Seq(Message)
    BY <1>3 DEF Exchange, Message
  <2> HIDE DEF ex
  <2>2. said[c] \o ex \in Seq(Message) /\ threads[c] \o ex \in Seq(Message)
    BY <1>5, <2>1
  <2>3. \E n \in 0..Len(threads[c] \o ex) : Bounded(threads[c] \o ex) = Newest(n, threads[c] \o ex)
    BY <2>2, BoundedFacts
  <2>4. QED
    BY <2>2, <2>3, NewestFacts
<1> HIDE DEF active, ex
<1>8. ThreadTypes' /\ ThreadInv'
  BY <1>4, <1>6, <1>7 DEF TurnInv, ThreadTypes, ThreadInv
<1>9. TurnTypes'
  <2>1. turn' \in [Chats -> {NoTurn} \cup Turn]
    BY <1>4 DEF TurnInv, TurnTypes
  <2>2. \A d \in Chats : turn'[d] = NoTurn \/ turn'[d] = turn[d]
    BY <1>4 DEF TurnInv, TurnTypes
  <2>3. NoTurn.phase # "judged"
    BY DEF NoTurn
  <2>4. QED
    BY <1>4, <2>1, <2>2, <2>3 DEF TurnInv, TurnTypes, At
<1>10. SkillInv'
  <2>1. activated[c] \cup ToSet(active) = ToSet(active) /\ activated[c] \subseteq Skills
    BY <1>2 DEF TurnInv, SkillInv
  <2>2. ToSet(active) \subseteq Skills
    BY <1>2 DEF ToSet
  <2>3. /\ remembered' \in [Chats -> Seq(Skills)] /\ activated' \in [Chats -> SUBSET Skills]
    BY <1>2, <1>4, <2>1, <2>2 DEF TurnInv, SkillInv
  <2>4. ASSUME NEW d \in Chats
        PROVE  /\ Fits(remembered'[d]) /\ ToSet(remembered'[d]) = activated'[d]
               /\ turn'[d] # NoTurn => Fits(turn'[d].active) /\ activated'[d] \subseteq ToSet(turn'[d].active)
    <3>1. CASE d = c
      BY <1>2, <1>4, <2>1, <3>1 DEF TurnInv, SkillInv, TurnTypes
    <3>2. CASE d # c
      BY <1>4, <3>2 DEF TurnInv, SkillInv, TurnTypes, Running
    <3>3. QED
      BY <3>1, <3>2
  <2>5. QED
    BY <2>3, <2>4 DEF SkillInv, Running
<1>11. QED
  BY <1>8, <1>9, <1>10 DEF TurnInv

\* Every step keeps what the turns and conversations hold.
LEMMA TurnNext == ASSUME TurnInv, [Next]_vars PROVE TurnInv'
<1>1. CASE Boot \/ UNCHANGED vars
  <2>1. UNCHANGED <<conversationVars, turn>> /\ up' \in BOOLEAN
    BY <1>1 DEF Boot, vars, TurnInv, TurnTypes
  <2>2. QED
    BY <2>1 DEF TurnInv, ThreadTypes, TurnTypes, SkillInv, ThreadInv, Running, At, conversationVars
<1>2. CASE ProcessEnds
  <2>1. /\ threads' = [c \in Chats |-> <<>>] /\ said' = [c \in Chats |-> <<>>]
        /\ remembered' = [c \in Chats |-> <<>>] /\ activated' = [c \in Chats |-> {}]
        /\ turn' = [c \in Chats |-> NoTurn] /\ up' = FALSE
    BY <1>2 DEF ProcessEnds, ConversationForgets
  <2>2. ThreadTypes' /\ TurnTypes'
    <3>1. NoTurn.phase # "judged"
      BY DEF NoTurn
    <3>2. TurnTypes'
      BY <2>1, <3>1 DEF TurnTypes, At
    <3>3. ThreadTypes'
      BY <2>1 DEF ThreadTypes
    <3>4. QED
      BY <3>2, <3>3
  <2>3. ThreadInv'
    BY <2>1, NothingRemembered DEF ThreadInv
  <2>4. SkillInv'
    BY <2>1, NothingRemembered DEF SkillInv, Running
  <2>5. QED
    BY <2>2, <2>3, <2>4 DEF TurnInv
<1>3. ASSUME NEW c \in Chats, NoSignal(c) \/ (\E outcome \in Outcomes : Learn(c, outcome)) \/ SaveLearned(c)
      PROVE  TurnInv'
  <2>1. CASE NoSignal(c)
    BY <2>1, TurnPhase DEF NoSignal
  <2>2. CASE \E outcome \in Outcomes : Learn(c, outcome)
    BY <2>2, TurnPhase DEF Learn
  <2>3. CASE SaveLearned(c)
    <3>1. CASE UNCHANGED turn
      BY <2>3, <3>1 DEF SaveLearned, TurnInv, ThreadTypes, TurnTypes, SkillInv, ThreadInv, Running, At,
                conversationVars
    <3>2. CASE turn' = [turn EXCEPT ![c].phase = "deciding"]
      BY <2>3, <3>2, TurnPhase DEF SaveLearned
    <3>3. QED
      BY <2>3, <3>1, <3>2 DEF SaveLearned
  <2>4. QED
    BY <1>3, <2>1, <2>2, <2>3
<1>4. ASSUME NEW c \in Chats, FailTurn(c) PROVE TurnInv'
  <2>1. turn' = [turn EXCEPT ![c] = NoTurn] /\ UNCHANGED <<conversationVars, up>> /\ NoTurn.phase # "judged"
    BY <1>4 DEF FailTurn, NoTurn
  <2>2. QED
    BY <2>1, OneTurn
<1>5. QED
  BY <1>1, <1>2, <1>3, <1>4, TurnBeginTurn, TurnToolFails, TurnToolWorks, TurnFinish DEF Next

-----------------------------------------------------------------------------
(* The conversations. *)

(* ThreadIsRecentHistory: cutting a thread after every exchange comes to   *)
(* the same as cutting the whole dialogue once (store.go, bounded).        *)
THEOREM ThreadsAreRecent == Spec => []ThreadIsRecentHistory
<1>1. TurnInv => ThreadIsRecentHistory
  <2> SUFFICES ASSUME TurnInv, NEW c \in Chats
               PROVE  LET t == threads[c]
                          h == said[c]
                      IN /\ IsSuffix(t, h)
                         /\ Len(t) <= MaxMessages /\ Runes(t) <= maxConversationRunes
                         /\ Len(t) < Len(h) => \/ Len(t) = MaxMessages
                                               \/ Runes(Newest(Len(t) + 1, h)) > maxConversationRunes
    BY DEF ThreadIsRecentHistory
  <2>1. said[c] \in Seq(Message) /\ Recent(threads[c], said[c])
    BY DEF TurnInv, ThreadTypes, ThreadInv
  <2>2. PICK n \in 0..Len(said[c]) :
          /\ threads[c] = Newest(n, said[c])
          /\ n <= MaxMessages /\ Runes(threads[c]) <= maxConversationRunes
          /\ n < Len(said[c]) => n = MaxMessages \/ Runes(Newest(n + 1, said[c])) > maxConversationRunes
    BY <2>1 DEF Recent
  <2>3. IsSuffix(threads[c], said[c]) /\ Len(threads[c]) = n
    BY <2>1, <2>2, NewestIsSuffix, NewestFacts
  <2>4. QED
    BY <2>2, <2>3
<1>2. QED
  BY <1>1, TurnBegins, TurnNext, PTL DEF Spec

(* SkillsCarryOver: the artifacts an ended turn leaves can all be applied  *)
(* again, one after the other, so that the loop NewTurn ends at the first  *)
(* refusal of (turn.go, ApplyContextArtifacts) never ends early.           *)
THEOREM SkillsStayActive == Spec => []SkillsCarryOver
<1>1. TurnInv => SkillsCarryOver
  BY DEF TurnInv, SkillInv, SkillsCarryOver
<1>2. QED
  BY <1>1, TurnBegins, TurnNext, PTL DEF Spec

-----------------------------------------------------------------------------
(* Windows of transitions. *)

\* Where a sequence of transitions has an outcome on an edge.
Places(s, e, o) == {i \in DOMAIN s : s[i].edge = e /\ s[i].outcome = o}

LEMMA TimesFacts ==
  ASSUME NEW s \in Seq(Transition), NEW e, NEW o
  PROVE  /\ IsFiniteSet(Places(s, e, o)) /\ Places(s, e, o) \subseteq 1..Len(s)
         /\ Times(s, e, o) = Cardinality(Places(s, e, o)) /\ Times(s, e, o) \in Nat
<1>1. DOMAIN s = 1..Len(s) /\ Len(s) \in Nat
  OBVIOUS
<1>2. IsFiniteSet(1..Len(s))
  BY <1>1, FS_Interval
<1>3. Places(s, e, o) \subseteq 1..Len(s)
  BY <1>1 DEF Places
<1>4. IsFiniteSet(Places(s, e, o))
  BY <1>2, <1>3, FS_Subset
<1>5. Times(s, e, o) = Cardinality(Places(s, e, o))
  BY DEF Times, Places
<1>6. QED
  BY <1>3, <1>4, <1>5, FS_CardinalityType

LEMMA TimesNothing == ASSUME NEW e, NEW o PROVE Times(<<>>, e, o) = 0
<1>1. Places(<<>>, e, o) = {}
  BY DEF Places
<1>2. QED
  BY <1>1, FS_EmptySet DEF Times, Places

\* One transition more is one outcome more on its edge.
LEMMA TimesOneMore ==
  ASSUME NEW s \in Seq(Transition), NEW t \in Transition, NEW e, NEW o
  PROVE  Times(Append(s, t), e, o) = Times(s, e, o) + IF t.edge = e /\ t.outcome = o THEN 1 ELSE 0
<1> DEFINE n == Len(s) + 1
           r == Append(s, t)
<1>1. /\ r \in Seq(Transition) /\ Len(r) = n /\ n \in Nat /\ r[n] = t
      /\ \A i \in 1..Len(s) : r[i] = s[i]
      /\ DOMAIN r = 1..n /\ DOMAIN s = 1..(n - 1) /\ Len(s) = n - 1
  BY AppendProperties
<1> HIDE DEF n, r
<1>2. n \notin Places(s, e, o)
  BY <1>1 DEF Places
<1>3. CASE t.edge = e /\ t.outcome = o
  <2>1. Places(r, e, o) = Places(s, e, o) \cup {n}
    BY <1>1, <1>3 DEF Places
  <2>2. Cardinality(Places(r, e, o)) = Cardinality(Places(s, e, o)) + 1
    BY <2>1, <1>2, TimesFacts, FS_AddElement
  <2>3. QED
    BY <2>2, <1>1, <1>3, TimesFacts DEF r
<1>4. CASE ~(t.edge = e /\ t.outcome = o)
  <2>1. Places(r, e, o) = Places(s, e, o)
    BY <1>1, <1>4 DEF Places
  <2>2. Times(r, e, o) = Times(s, e, o) /\ Times(s, e, o) \in Nat
    BY <2>1, <1>1, TimesFacts
  <2>3. QED
    BY <2>2, <1>4 DEF r
<1>5. QED
  BY <1>3, <1>4

\* The newest n of a sequence have no outcome more often than it.
LEMMA TimesNewest ==
  ASSUME NEW s \in Seq(Transition), NEW n \in 0..Len(s), NEW e, NEW o
  PROVE  Times(Newest(n, s), e, o) <= Times(s, e, o)
<1> DEFINE r == Newest(n, s)
           k == Len(s) - n
           f == [i \in Places(r, e, o) |-> i + k]
<1>1. r \in Seq(Transition) /\ Len(r) = n /\ \A i \in 1..n : r[i] = s[k + i]
  <2>1. /\ r \in Seq(Transition) /\ Len(r) = n
        /\ \A i \in 1..n : r[i] = s[Len(s) - n + i]
    BY NewestFacts
  <2>2. QED
    BY <2>1
<1>2. k \in Nat /\ n \in Nat /\ Len(s) = k + n /\ DOMAIN s = 1..(k + n)
  OBVIOUS
<1> HIDE DEF r, k
<1>3. Places(r, e, o) \subseteq 1..n
  BY <1>1, TimesFacts
<1>4. \A i \in Places(r, e, o) : i + k \in Places(s, e, o)
  <2> SUFFICES ASSUME NEW i \in Places(r, e, o) PROVE i + k \in Places(s, e, o)
    OBVIOUS
  <2>1. i \in 1..n /\ i \in Nat
    BY <1>3, <1>2
  <2>2. i + k \in DOMAIN s /\ r[i] = s[i + k]
    BY <2>1, <1>1, <1>2
  <2>3. r[i].edge = e /\ r[i].outcome = o
    BY DEF Places
  <2>4. QED
    BY <2>2, <2>3 DEF Places
<1>5. f \in Injection(Places(r, e, o), Places(s, e, o))
  <2>1. f \in [Places(r, e, o) -> Places(s, e, o)]
    BY <1>4
  <2>2. \A i, j \in Places(r, e, o) : f[i] = f[j] => i = j
    BY <1>2, <1>3
  <2>3. QED
    BY <2>1, <2>2 DEF Injection, IsInjective
<1> HIDE DEF f
<1>6. Cardinality(Places(r, e, o)) <= Cardinality(Places(s, e, o))
  BY <1>5, TimesFacts, FS_Injection
<1>7. QED
  BY <1>1, <1>6, TimesFacts DEF r


\* What the window keeps of a sequence of transitions is the newest part of it.
LEMMA CappedFacts ==
  ASSUME NEW s \in Seq(Transition)
  PROVE  /\ Capped(s) \in Seq(Transition) /\ ToSet(Capped(s)) \subseteq ToSet(s)
         /\ \A e, o : Times(Capped(s), e, o) <= Times(s, e, o)
<1>1. CASE Len(s) > RecentCap
  <2>1. RecentCap \in 0..Len(s) /\ Capped(s) = Newest(RecentCap, s)
    BY <1>1, RoutingAssumption DEF Capped, Newest
  <2>2. /\ Newest(RecentCap, s) \in Seq(Transition) /\ Len(Newest(RecentCap, s)) = RecentCap
        /\ \A i \in 1..RecentCap : Newest(RecentCap, s)[i] = s[Len(s) - RecentCap + i]
    BY <2>1, NewestFacts
  <2>3. ToSet(Newest(RecentCap, s)) \subseteq ToSet(s)
    <3>1. \A i \in 1..RecentCap : Len(s) - RecentCap + i \in DOMAIN s
      BY <2>1
    <3>2. DOMAIN Newest(RecentCap, s) = 1..RecentCap
      BY <2>2
    <3>3. QED
      BY <2>2, <3>1, <3>2 DEF ToSet
  <2>4. \A e, o : Times(Newest(RecentCap, s), e, o) <= Times(s, e, o)
    BY <2>1, TimesNewest
  <2>5. QED
    BY <2>1, <2>2, <2>3, <2>4
<1>2. CASE ~(Len(s) > RecentCap)
  <2>1. Capped(s) = s
    BY <1>2 DEF Capped
  <2>2. \A e, o : Times(s, e, o) \in Nat
    BY TimesFacts
  <2>3. QED
    BY <2>1, <2>2
<1>3. QED
  BY <1>1, <1>2

\* The log, or a window, with one transition more.
LEMMA ToSetAppend ==
  ASSUME NEW s \in Seq(Transition), NEW t \in Transition
  PROVE  Append(s, t) \in Seq(Transition) /\ ToSet(Append(s, t)) = ToSet(s) \cup {t}
<1> DEFINE r == Append(s, t)
           n == Len(s) + 1
<1>1. /\ r \in Seq(Transition) /\ r[n] = t /\ DOMAIN r = 1..n /\ DOMAIN s = 1..(n - 1)
      /\ \A i \in 1..(n - 1) : r[i] = s[i]
  BY AppendProperties
<1>2. n \in Nat /\ n >= 1
  OBVIOUS
<1> HIDE DEF r, n
<1>3. 1..n = 1..(n - 1) \cup {n}
  BY <1>2
<1>4. ToSet(r) = ToSet(s) \cup {t}
  BY <1>1, <1>3 DEF ToSet
<1>5. QED
  BY <1>1, <1>4 DEF r

-----------------------------------------------------------------------------
(* The routing graph and its two tables. *)

\* The transition being saved: its outcome is counted in memory and not yet in the
\* saved window; once its edge is saved, memory and table agree on that edge.
SaveInv ==
    learning # NotLearning =>
        LET t == learning.of IN
        /\ t \in ToSet(recorded)
        /\ Times(savedRecent, t.edge, t.outcome) < counts[t.edge][t.outcome]
        /\ learning.step = "append" => savedCounts[t.edge] = counts[t.edge]

\* Memory is ahead of the database while there is a process, and both are behind the log.
EvidenceInv ==
    /\ RouteTypes
    /\ Accounted(recent, counts) /\ Accounted(savedRecent, savedCounts)
    /\ ToSet(recent) \subseteq ToSet(recorded) /\ ToSet(savedRecent) \subseteq ToSet(recorded)
    /\ up => \A e \in Edges, o \in Outcomes : savedCounts[e][o] <= counts[e][o]
    /\ SaveInv

\* Without a process there are neither turns nor saves.
DownInv == ~up => learning = NotLearning /\ \A c \in Chats : ~Running(c)

RouteInv == EvidenceInv /\ DownInv

LEMMA RouteTransition ==
  ASSUME NEW t \in Transition
  PROVE  t.edge \in Edges /\ t.outcome \in Outcomes
BY DEF Transition

\* An empty log accounts for empty windows and counts of zero.
LEMMA NothingRecorded ==
  ASSUME RouteTypes PROVE Accounted(<<>>, NoCounts)
<1> SUFFICES ASSUME NEW e \in Edges, NEW o \in Outcomes
             PROVE  Times(<<>>, e, o) <= NoCounts[e][o] /\ NoCounts[e][o] <= Times(recorded, e, o)
  BY DEF Accounted
<1>1. NoCounts[e][o] = 0
  BY DEF NoCounts
<1>2. Times(<<>>, e, o) = 0 /\ Times(recorded, e, o) \in Nat
  BY TimesNothing, TimesFacts DEF RouteTypes
<1>3. QED
  BY <1>1, <1>2

LEMMA RouteBegins == Init => RouteInv
<1> SUFFICES ASSUME Init PROVE RouteInv
  OBVIOUS
<1>1. RouteTypes
  BY DEF Init, RoutingInit, RouteTypes, NoCounts
<1>2. Accounted(recent, counts) /\ Accounted(savedRecent, savedCounts)
  BY <1>1, NothingRecorded DEF Init, RoutingInit
<1>3. SaveInv /\ DownInv
  BY DEF Init, RoutingInit, SaveInv, DownInv, Running
<1>4. up = FALSE /\ recent = recorded /\ savedRecent = recorded
  BY DEF Init, RoutingInit
<1>5. QED
  BY <1>1, <1>2, <1>3, <1>4 DEF RouteInv, EvidenceInv

\* An outcome is counted in memory.
LEMMA RouteCounts ==
  ASSUME EvidenceInv, up, NEW t \in Transition, CountOutcome(t), up' = up
  PROVE  EvidenceInv'
<1>1. t.edge \in Edges /\ t.outcome \in Outcomes
  BY RouteTransition
<1>2. RouteTypes
  BY DEF EvidenceInv
<1>3. /\ counts' = [counts EXCEPT ![t.edge][t.outcome] = @ + 1]
      /\ recent' = Capped(Append(recent, t)) /\ recorded' = Append(recorded, t)
      /\ learning' = [step |-> "upsert", of |-> t]
      /\ savedCounts' = savedCounts /\ savedRecent' = savedRecent
  BY DEF CountOutcome
<1> DEFINE More(e, o) == IF t.edge = e /\ t.outcome = o THEN 1 ELSE 0
<1>4. ASSUME NEW e \in Edges, NEW o \in Outcomes
      PROVE  /\ counts'[e][o] = counts[e][o] + More(e, o)
             /\ counts[e][o] \in Nat /\ savedCounts[e][o] \in Nat
  BY <1>1, <1>2, <1>3 DEF RouteTypes
<1>5. ASSUME NEW e \in Edges, NEW o \in Outcomes
      PROVE  /\ Times(recorded', e, o) = Times(recorded, e, o) + More(e, o)
             /\ Times(recorded, e, o) \in Nat
  BY <1>2, <1>3, TimesOneMore, TimesFacts DEF RouteTypes
<1>6. ASSUME NEW e \in Edges, NEW o \in Outcomes
      PROVE  /\ Times(recent', e, o) <= Times(recent, e, o) + More(e, o)
             /\ Times(recent, e, o) \in Nat /\ Times(recent', e, o) \in Nat
  <2>1. recent \in Seq(Transition) /\ Append(recent, t) \in Seq(Transition)
    BY <1>2, ToSetAppend DEF RouteTypes
  <2>2. Capped(Append(recent, t)) \in Seq(Transition)
    BY <2>1, CappedFacts
  <2>3. Times(recent', e, o) <= Times(Append(recent, t), e, o)
    BY <1>3, <2>1, CappedFacts
  <2>4. Times(recent, e, o) \in Nat /\ Times(recent', e, o) \in Nat
    BY <1>3, <2>1, <2>2, TimesFacts
  <2>5. QED
    BY <2>1, <2>3, <2>4, TimesOneMore
<1>7. \A e \in Edges, o \in Outcomes : More(e, o) \in {0, 1} /\ More(t.edge, t.outcome) = 1
  OBVIOUS
<1> HIDE DEF More
<1>8. ASSUME NEW e \in Edges, NEW o \in Outcomes
      PROVE  /\ Times(recent, e, o) <= counts[e][o] /\ counts[e][o] <= Times(recorded, e, o)
             /\ Times(savedRecent, e, o) <= savedCounts[e][o] /\ savedCounts[e][o] <= Times(recorded, e, o)
             /\ savedCounts[e][o] <= counts[e][o] /\ Times(savedRecent, e, o) \in Nat
  <2>1. Times(savedRecent, e, o) \in Nat
    BY <1>2, TimesFacts DEF RouteTypes
  <2>2. QED
    BY <2>1 DEF EvidenceInv, Accounted
<1>9. Accounted(recent, counts)'
  <2> SUFFICES ASSUME NEW e \in Edges, NEW o \in Outcomes
               PROVE  Times(recent', e, o) <= counts'[e][o] /\ counts'[e][o] <= Times(recorded', e, o)
    BY DEF Accounted
  <2>1. More(e, o) \in {0, 1}
    BY <1>7
  <2>2. QED
    BY <2>1, <1>4, <1>5, <1>6, <1>8
<1>10. Accounted(savedRecent, savedCounts)'
  <2> SUFFICES ASSUME NEW e \in Edges, NEW o \in Outcomes
               PROVE  /\ Times(savedRecent, e, o) <= savedCounts[e][o]
                      /\ savedCounts[e][o] <= Times(recorded', e, o)
    BY <1>3 DEF Accounted
  <2>1. More(e, o) \in {0, 1}
    BY <1>7
  <2>2. QED
    BY <2>1, <1>4, <1>5, <1>8
<1>11. /\ recent' \in Seq(Transition) /\ recorded' \in Seq(Transition)
       /\ ToSet(recent') \subseteq ToSet(recorded') /\ ToSet(savedRecent') \subseteq ToSet(recorded')
       /\ t \in ToSet(recorded')
  <2>1. /\ recent \in Seq(Transition) /\ recorded \in Seq(Transition)
        /\ ToSet(recent) \subseteq ToSet(recorded) /\ ToSet(savedRecent) \subseteq ToSet(recorded)
    BY DEF EvidenceInv, RouteTypes
  <2>2. /\ Append(recent, t) \in Seq(Transition) /\ ToSet(Append(recent, t)) = ToSet(recent) \cup {t}
        /\ Append(recorded, t) \in Seq(Transition) /\ ToSet(Append(recorded, t)) = ToSet(recorded) \cup {t}
    BY <2>1, ToSetAppend
  <2>3. Capped(Append(recent, t)) \in Seq(Transition) /\ ToSet(Capped(Append(recent, t))) \subseteq ToSet(recent) \cup {t}
    BY <2>2, CappedFacts
  <2>4. QED
    BY <1>3, <2>1, <2>2, <2>3
<1>12. RouteTypes'
  <2>1. counts' \in [Edges -> [Outcomes -> Nat]]
    BY <1>1, <1>2, <1>3 DEF RouteTypes
  <2>2. learning' \in Learning
    BY <1>3 DEF Learning
  <2>3. QED
    BY <1>2, <1>3, <1>11, <2>1, <2>2 DEF RouteTypes
<1>13. up' => \A e \in Edges, o \in Outcomes : savedCounts'[e][o] <= counts'[e][o]
  <2> SUFFICES ASSUME NEW e \in Edges, NEW o \in Outcomes PROVE savedCounts'[e][o] <= counts'[e][o]
    OBVIOUS
  <2>1. More(e, o) \in {0, 1}
    BY <1>7
  <2>2. QED
    BY <2>1, <1>3, <1>4, <1>8
<1>14. SaveInv'
  <2>1. learning'.of = t /\ learning'.step # "append"
    BY <1>3
  <2>2. Times(savedRecent, t.edge, t.outcome) < counts'[t.edge][t.outcome]
    BY <1>1, <1>4, <1>7, <1>8
  <2>3. QED
    BY <1>3, <1>11, <2>1, <2>2 DEF SaveInv
<1>15. QED
  BY <1>9, <1>10, <1>11, <1>12, <1>13, <1>14 DEF EvidenceInv

\* The transition that is being saved.
LEMMA RouteSaving ==
  ASSUME EvidenceInv, learning # NotLearning
  PROVE  LET t == learning.of IN
         /\ learning \in Learning /\ t \in Transition /\ t.edge \in Edges /\ t.outcome \in Outcomes
         /\ t \in ToSet(recorded)
         /\ Times(savedRecent, t.edge, t.outcome) < counts[t.edge][t.outcome]
         /\ learning.step = "append" => savedCounts[t.edge] = counts[t.edge]
<1>1. learning \in Learning
  BY DEF EvidenceInv, RouteTypes
<1>2. learning.of \in Transition
  BY <1>1 DEF Learning
<1>3. QED
  BY <1>1, <1>2, RouteTransition DEF EvidenceInv, SaveInv

\* The counts of its edge are saved.
LEMMA RouteUpsert ==
  ASSUME EvidenceInv, up, UpsertEdge, up' = up
  PROVE  EvidenceInv' /\ \A e \in Edges, o \in Outcomes : savedCounts'[e][o] >= savedCounts[e][o]
<1> DEFINE t == learning.of
<1>1. learning # NotLearning
  BY DEF UpsertEdge, NotLearning
<1>2. /\ learning \in Learning /\ t \in Transition /\ t.edge \in Edges /\ t.outcome \in Outcomes
      /\ t \in ToSet(recorded)
      /\ Times(savedRecent, t.edge, t.outcome) < counts[t.edge][t.outcome]
  BY <1>1, RouteSaving
<1>3. /\ savedCounts' = [savedCounts EXCEPT ![t.edge] = counts[t.edge]]
      /\ learning' = [learning EXCEPT !.step = "append"]
      /\ counts' = counts /\ recent' = recent /\ savedRecent' = savedRecent /\ recorded' = recorded
  BY DEF UpsertEdge
<1>4. learning' \in Learning /\ learning'.of = t
  BY <1>2, <1>3 DEF Learning
<1> HIDE DEF t
<1>5. RouteTypes
  BY DEF EvidenceInv
<1>6. savedCounts' \in [Edges -> [Outcomes -> Nat]] /\ savedCounts'[t.edge] = counts[t.edge]
  BY <1>2, <1>3, <1>5 DEF RouteTypes
<1>7. RouteTypes'
  BY <1>3, <1>4, <1>5, <1>6 DEF RouteTypes
<1>8. ASSUME NEW e \in Edges, NEW o \in Outcomes
      PROVE  /\ savedCounts'[e][o] = counts[e][o] \/ savedCounts'[e][o] = savedCounts[e][o]
             /\ counts[e][o] \in Nat /\ savedCounts[e][o] \in Nat /\ Times(savedRecent, e, o) \in Nat
             /\ savedCounts[e][o] <= counts[e][o] /\ counts[e][o] <= Times(recorded, e, o)
             /\ Times(savedRecent, e, o) <= savedCounts[e][o] /\ savedCounts[e][o] <= Times(recorded, e, o)
             /\ Times(recorded, e, o) \in Nat
  <2>1. savedCounts'[e][o] = counts[e][o] \/ savedCounts'[e][o] = savedCounts[e][o]
    BY <1>2, <1>3, <1>5 DEF RouteTypes
  <2>2. counts[e][o] \in Nat /\ savedCounts[e][o] \in Nat
    BY <1>5 DEF RouteTypes
  <2>3. Times(savedRecent, e, o) \in Nat /\ Times(recorded, e, o) \in Nat
    BY <1>5, TimesFacts DEF RouteTypes
  <2>4. QED
    BY <2>1, <2>2, <2>3 DEF EvidenceInv, Accounted
<1>9. \A e \in Edges, o \in Outcomes : savedCounts'[e][o] >= savedCounts[e][o]
  BY <1>8
<1>10. up' => \A e \in Edges, o \in Outcomes : savedCounts'[e][o] <= counts'[e][o]
  BY <1>3, <1>8
<1>11. Accounted(savedRecent, savedCounts)'
  BY <1>3, <1>8 DEF Accounted
<1>12. SaveInv'
  BY <1>2, <1>3, <1>4, <1>6 DEF SaveInv
<1>13. Accounted(recent, counts)' /\ ToSet(recent') \subseteq ToSet(recorded') /\ ToSet(savedRecent') \subseteq ToSet(recorded')
  BY <1>3 DEF EvidenceInv, Accounted
<1>14. QED
  BY <1>7, <1>9, <1>10, <1>11, <1>12, <1>13 DEF EvidenceInv


\* The transition is appended to its table.
LEMMA RouteAppend ==
  ASSUME EvidenceInv, AppendTransition, up' = up
  PROVE  EvidenceInv'
<1> DEFINE t == learning.of
<1>1. learning # NotLearning
  BY DEF AppendTransition, NotLearning
<1>2. /\ t \in Transition /\ t.edge \in Edges /\ t.outcome \in Outcomes /\ t \in ToSet(recorded)
      /\ Times(savedRecent, t.edge, t.outcome) < counts[t.edge][t.outcome]
      /\ savedCounts[t.edge] = counts[t.edge]
  BY <1>1, RouteSaving DEF AppendTransition
<1>3. /\ savedRecent' = Capped(Append(savedRecent, t)) /\ learning' = NotLearning
      /\ counts' = counts /\ recent' = recent /\ savedCounts' = savedCounts /\ recorded' = recorded
  BY DEF AppendTransition
<1> HIDE DEF t
<1>4. RouteTypes /\ savedRecent \in Seq(Transition) /\ ToSet(savedRecent) \subseteq ToSet(recorded)
  BY DEF EvidenceInv, RouteTypes
<1>5. /\ Append(savedRecent, t) \in Seq(Transition)
      /\ ToSet(Append(savedRecent, t)) = ToSet(savedRecent) \cup {t}
  BY <1>2, <1>4, ToSetAppend
<1>6. savedRecent' \in Seq(Transition) /\ ToSet(savedRecent') \subseteq ToSet(Append(savedRecent, t))
  BY <1>3, <1>5, CappedFacts
<1>7. RouteTypes' /\ ToSet(savedRecent') \subseteq ToSet(recorded')
  BY <1>2, <1>3, <1>4, <1>5, <1>6 DEF RouteTypes
<1>8. Accounted(savedRecent, savedCounts)'
  <2> SUFFICES ASSUME NEW e \in Edges, NEW o \in Outcomes
               PROVE  /\ Times(savedRecent', e, o) <= savedCounts[e][o]
                      /\ savedCounts[e][o] <= Times(recorded, e, o)
    BY <1>3 DEF Accounted
  <2>1. Times(savedRecent', e, o) <= Times(Append(savedRecent, t), e, o)
    BY <1>3, <1>5, CappedFacts
  <2>2. /\ Times(savedRecent', e, o) \in Nat /\ Times(Append(savedRecent, t), e, o) \in Nat
        /\ Times(savedRecent, e, o) \in Nat
    BY <1>4, <1>5, <1>6, TimesFacts
  <2>3. Times(savedRecent, e, o) <= savedCounts[e][o] /\ savedCounts[e][o] <= Times(recorded, e, o)
    BY DEF EvidenceInv, Accounted
  <2>4. savedCounts[e][o] \in Nat
    BY <1>4 DEF RouteTypes
  <2>5. CASE t.edge = e /\ t.outcome = o
    <3>1. Times(Append(savedRecent, t), e, o) = Times(savedRecent, e, o) + 1
      BY <1>2, <1>4, <2>5, TimesOneMore
    <3>2. Times(savedRecent, e, o) < savedCounts[e][o]
      BY <1>2, <2>5
    <3>3. QED
      BY <2>1, <2>2, <2>3, <2>4, <3>1, <3>2
  <2>6. CASE ~(t.edge = e /\ t.outcome = o)
    <3>1. Times(Append(savedRecent, t), e, o) = Times(savedRecent, e, o) + 0
      BY <1>2, <1>4, <2>6, TimesOneMore
    <3>2. QED
      BY <2>1, <2>2, <2>3, <2>4, <3>1
  <2>7. QED
    BY <2>5, <2>6
<1>9. /\ Accounted(recent, counts)' /\ ToSet(recent') \subseteq ToSet(recorded')
      /\ up' => \A e \in Edges, o \in Outcomes : savedCounts'[e][o] <= counts'[e][o]
  BY <1>3 DEF EvidenceInv, Accounted
<1>10. SaveInv'
  BY <1>3 DEF SaveInv
<1>11. QED
  BY <1>7, <1>8, <1>9, <1>10 DEF EvidenceInv

\* A save that fails forgets the transition and nothing else.
LEMMA RouteSaveFails ==
  ASSUME EvidenceInv, SaveFails, up' = up
  PROVE  EvidenceInv'
<1>1. learning' = NotLearning /\ UNCHANGED <<counts, recent, savedCounts, savedRecent, recorded, up>>
  BY DEF SaveFails
<1>2. SaveInv'
  BY <1>1 DEF SaveInv
<1>3. QED
  BY <1>1, <1>2 DEF EvidenceInv, RouteTypes, Accounted

\* A process that ends leaves the tables, also within a save.
LEMMA RouteEnds ==
  ASSUME EvidenceInv, ProcessEnds
  PROVE  RouteInv'
<1>1. /\ counts' = NoCounts /\ recent' = <<>> /\ learning' = NotLearning /\ up' = FALSE
      /\ savedCounts' = savedCounts /\ savedRecent' = savedRecent /\ recorded' = recorded
      /\ turn' = [c \in Chats |-> NoTurn]
  BY DEF ProcessEnds, RoutingForgets
<1>2. RouteTypes
  BY DEF EvidenceInv
<1>3. RouteTypes'
  BY <1>1, <1>2 DEF RouteTypes, NoCounts
<1>4. Accounted(recent, counts)'
  BY <1>1, <1>2, NothingRecorded DEF Accounted
<1>5. Accounted(savedRecent, savedCounts)' /\ ToSet(savedRecent') \subseteq ToSet(recorded')
  BY <1>1 DEF EvidenceInv, Accounted
<1>6. ToSet(recent') \subseteq ToSet(recorded')
  BY <1>1 DEF ToSet
<1>7. SaveInv' /\ DownInv'
  BY <1>1 DEF SaveInv, DownInv, Running
<1>8. QED
  BY <1>1, <1>3, <1>4, <1>5, <1>6, <1>7 DEF RouteInv, EvidenceInv

\* A process begins with what the tables hold.
LEMMA RouteBoots ==
  ASSUME RouteInv, Boot
  PROVE  RouteInv'
<1>1. /\ counts' = savedCounts /\ recent' = savedRecent /\ up' = TRUE /\ learning' = learning
      /\ savedCounts' = savedCounts /\ savedRecent' = savedRecent /\ recorded' = recorded
      /\ learning = NotLearning
  BY DEF Boot, LoadFromStore, RouteInv, DownInv
<1>2. RouteTypes /\ Accounted(savedRecent, savedCounts) /\ ToSet(savedRecent) \subseteq ToSet(recorded)
  BY DEF RouteInv, EvidenceInv
<1>3. RouteTypes'
  BY <1>1, <1>2 DEF RouteTypes
<1>4. Accounted(recent, counts)' /\ Accounted(savedRecent, savedCounts)'
  BY <1>1, <1>2 DEF Accounted
<1>5. \A e \in Edges, o \in Outcomes : savedCounts'[e][o] <= counts'[e][o]
  BY <1>1, <1>2 DEF RouteTypes
<1>6. SaveInv' /\ DownInv'
  BY <1>1 DEF SaveInv, DownInv
<1>7. QED
  BY <1>1, <1>2, <1>3, <1>4, <1>5, <1>6 DEF RouteInv, EvidenceInv

\* What learn records is a transition.
LEMMA LastTransitionType ==
  ASSUME TurnTypes, NEW c \in Chats, At(c, "judged"), NEW o \in Outcomes
  PROVE  LastTransition(c, o) \in Transition
<1> DEFINE s == turn[c].steps
           n == Len(s)
<1>1. turn[c] \in Turn /\ s # <<>>
  BY TurnFacts DEF TurnTypes
<1>2. s \in Seq(Steps) /\ turn[c].goal \in Goals
  BY <1>1 DEF Turn
<1> HIDE DEF s
<1>3. n \in Nat /\ n >= 1 /\ \A i \in 1..n : s[i] \in Steps
  BY <1>1, <1>2
<1>4. \A x \in Steps : x.tool \in Tools
  BY DEF Steps, Step
<1>5. s[n].tool \in Tools /\ Last(s) = s[n]
  BY <1>3, <1>4 DEF Last
<1>6. n >= 2 => s[n - 1].tool \in Tools
  <2>1. n >= 2 => n - 1 \in 1..n
    BY <1>3
  <2>2. QED
    BY <1>3, <1>4, <2>1
<1> HIDE DEF n
<1>7. [from |-> IF n >= 2 THEN s[n - 1].tool ELSE NoTool, to |-> Last(s).tool] \in Edges
  BY <1>5, <1>6 DEF Edges
<1>8. QED
  BY <1>2, <1>7 DEF LastTransition, Transition, s, n

\* Every step keeps the evidence.
LEMMA RouteNext == ASSUME TurnInv, RouteInv, [Next]_vars PROVE RouteInv'
<1>1. EvidenceInv /\ DownInv /\ TurnTypes
  BY DEF RouteInv, TurnInv
<1>2. ASSUME UNCHANGED <<routingVars, up>> PROVE EvidenceInv'
  BY <1>1, <1>2 DEF EvidenceInv, RouteTypes, Accounted, SaveInv, routingVars
<1>3. ASSUME up, up' = up PROVE DownInv'
  BY <1>3 DEF DownInv
<1>4. ASSUME NEW c \in Chats, NEW p \in {"deciding", "judged", "saving"}, At(c, p) PROVE up
  BY <1>1, <1>4, TurnFacts DEF DownInv, TurnTypes
<1>5. ASSUME NEW c \in Chats, NEW goal \in Goals, BeginTurn(c, goal) PROVE RouteInv'
  BY <1>2, <1>3, <1>5 DEF BeginTurn, RouteInv
<1>6. ASSUME NEW c \in Chats, NEW tool \in Tools, ToolFails(c, tool) PROVE RouteInv'
  BY <1>2, <1>3, <1>4, <1>6 DEF ToolFails, RouteInv
<1>7. ASSUME NEW c \in Chats, NEW tool \in Tools, NEW skill \in Skills, ToolWorks(c, tool, skill) PROVE RouteInv'
  BY <1>2, <1>3, <1>4, <1>7 DEF ToolWorks, RouteInv
<1>8. ASSUME NEW c \in Chats, NoSignal(c) PROVE RouteInv'
  BY <1>2, <1>3, <1>4, <1>8 DEF NoSignal, RouteInv
<1>9. ASSUME NEW c \in Chats, NEW outcome \in Outcomes, Learn(c, outcome) PROVE RouteInv'
  <2>1. At(c, "judged") /\ CountOutcome(LastTransition(c, outcome)) /\ up' = up
    BY <1>9 DEF Learn
  <2>2. up /\ LastTransition(c, outcome) \in Transition
    BY <1>1, <1>4, <2>1, LastTransitionType
  <2>3. QED
    BY <1>1, <1>3, <2>1, <2>2, RouteCounts DEF RouteInv
<1>10. ASSUME NEW c \in Chats, SaveLearned(c) PROVE RouteInv'
  <2>1. up /\ up' = up
    BY <1>4, <1>10 DEF SaveLearned
  <2>2. UpsertEdge \/ AppendTransition \/ SaveFails
    BY <1>10 DEF SaveLearned
  <2>3. EvidenceInv'
    BY <1>1, <2>1, <2>2, RouteUpsert, RouteAppend, RouteSaveFails
  <2>4. QED
    BY <1>3, <2>1, <2>3 DEF RouteInv
<1>11. ASSUME NEW c \in Chats, NEW answer \in Lengths, Finish(c, answer) PROVE RouteInv'
  BY <1>2, <1>3, <1>4, <1>11 DEF Finish, RouteInv
<1>12. ASSUME NEW c \in Chats, FailTurn(c) PROVE RouteInv'
  BY <1>2, <1>3, <1>4, <1>12 DEF FailTurn, RouteInv
<1>13. CASE UNCHANGED vars
  BY <1>1, <1>2, <1>13 DEF vars, RouteInv, DownInv, routingVars, Running
<1>14. QED
  BY <1>1, <1>5, <1>6, <1>7, <1>8, <1>9, <1>10, <1>11, <1>12, <1>13, RouteEnds, RouteBoots DEF Next

(* What the routing graph of every state holds. *)
LEMMA EvidenceAlways == Spec => [](TurnInv /\ RouteInv)
<1>1. Init => TurnInv /\ RouteInv
  BY TurnBegins, RouteBegins
<1>2. TurnInv /\ RouteInv /\ [Next]_vars => TurnInv' /\ RouteInv'
  BY TurnNext, RouteNext
<1>3. QED
  BY <1>1, <1>2, PTL DEF Spec

(* SavedCountsGrow: memory holds at least the counts of the database, also *)
(* after saves that failed, so that writing the whole row never takes an   *)
(* outcome back (routing_sqlite.go, RoutingEdgeUpsert).                    *)
THEOREM SavedCountsOnlyGrow == Spec => SavedCountsGrow
<1> DEFINE Grow == \A e \in Edges, o \in Outcomes : savedCounts'[e][o] >= savedCounts[e][o]
<1>1. TurnInv /\ RouteInv /\ [Next]_vars => [Grow]_vars
  <2> SUFFICES ASSUME TurnInv, RouteInv, [Next]_vars PROVE Grow
    OBVIOUS
  <2>1. CASE savedCounts' = savedCounts
    BY <2>1 DEF RouteInv, EvidenceInv, RouteTypes
  <2>2. ASSUME NEW c \in Chats, SaveLearned(c) PROVE Grow
    <3>1. UpsertEdge \/ savedCounts' = savedCounts
      BY <2>2 DEF SaveLearned, AppendTransition, SaveFails
    <3>2. up /\ up' = up
      BY <2>2, TurnFacts DEF SaveLearned, TurnInv, RouteInv, DownInv
    <3>3. QED
      BY <2>1, <3>1, <3>2, RouteUpsert DEF RouteInv
  <2>3. CASE UNCHANGED vars \/ Boot \/ ProcessEnds
    BY <2>1, <2>3 DEF vars, routingVars, Boot, LoadFromStore, ProcessEnds, RoutingForgets
  <2>4. QED
    BY <2>1, <2>2, <2>3 DEF Next, BeginTurn, ToolFails, ToolWorks, NoSignal, Learn, CountOutcome, Finish, FailTurn,
       routingVars
<1>2. QED
  BY <1>1, EvidenceAlways, PTL DEF Spec, SavedCountsGrow

(* HintsAreBacked: the three thresholds of Recommend (toolrouting, graph)  *)
(* only pass evidence the log of all transitions contains.                 *)
THEOREM HintsHaveEvidence == Spec => []HintsAreBacked
<1>1. RouteInv => HintsAreBacked
  <2> SUFFICES ASSUME RouteInv PROVE HintsAreBacked
    OBVIOUS
  <2>1. /\ RouteTypes /\ Accounted(recent, counts) /\ Accounted(savedRecent, savedCounts)
        /\ ToSet(recent) \subseteq ToSet(recorded)
    BY DEF RouteInv, EvidenceInv
  <2>2. ASSUME NEW g \in Goals, NEW last \in Tools \cup {NoTool},
               NEW H \in Recommendations(g, last), NEW tool \in H
        PROVE  LET e == [from |-> last, to |-> tool] IN
               /\ Times(recorded, e, "helpful") + Times(recorded, e, "wrong_route") >= 2
               /\ \E r \in ToSet(recorded) : r.edge = e /\ r.outcome = "helpful" /\ Resembles(g, r.goal)
    <3> DEFINE e == [from |-> last, to |-> tool]
               like == {i \in DOMAIN recent : recent[i].edge = e /\ Resembles(g, recent[i].goal)}
               helpful == {i \in like : recent[i].outcome = "helpful"}
    <3>1. tool \in Tools /\ Supported(g, e)
      BY DEF Recommendations
    <3>2. e \in Edges
      BY <3>1 DEF Edges
    <3>3. Tried(e) >= 2 /\ Match(g, e).all > 0 /\ 5 * Match(g, e).helpful >= Match(g, e).all
      BY <3>1 DEF Supported
    <3>4. Match(g, e).all = Cardinality(like) /\ Match(g, e).helpful = Cardinality(helpful)
      BY DEF Match
    <3>5. /\ helpful \subseteq 1..Len(recent) /\ like \subseteq 1..Len(recent)
          /\ \A i \in helpful : /\ recent[i] \in ToSet(recent) /\ recent[i].edge = e
                                /\ recent[i].outcome = "helpful" /\ Resembles(g, recent[i].goal)
      BY <2>1 DEF RouteTypes, ToSet
    <3> HIDE DEF e, like, helpful
    <3>6. /\ IsFiniteSet(helpful) /\ IsFiniteSet(like)
          /\ Cardinality(helpful) \in Nat /\ Cardinality(like) \in Nat
      <4>1. Len(recent) \in Nat
        BY <2>1 DEF RouteTypes
      <4>2. IsFiniteSet(1..Len(recent))
        BY <4>1, FS_Interval
      <4>3. QED
        BY <3>5, <4>2, FS_Subset, FS_CardinalityType
    <3>7. Cardinality(helpful) # 0
      BY <3>3, <3>4, <3>6
    <3>8. PICK i \in helpful : TRUE
      BY <3>6, <3>7, FS_EmptySet
    <3>9. \E r \in ToSet(recorded) : r.edge = e /\ r.outcome = "helpful" /\ Resembles(g, r.goal)
      BY <2>1, <3>5, <3>8
    <3>10. "helpful" \in Outcomes /\ "wrong_route" \in Outcomes
      BY DEF Outcomes
    <3>11. /\ counts[e]["helpful"] \in Nat /\ counts[e]["wrong_route"] \in Nat
           /\ Times(recorded, e, "helpful") \in Nat /\ Times(recorded, e, "wrong_route") \in Nat
      BY <2>1, <3>2, <3>10, TimesFacts DEF RouteTypes
    <3>12. /\ counts[e]["helpful"] <= Times(recorded, e, "helpful")
           /\ counts[e]["wrong_route"] <= Times(recorded, e, "wrong_route")
      BY <2>1, <3>2, <3>10 DEF Accounted
    <3>13. Times(recorded, e, "helpful") + Times(recorded, e, "wrong_route") >= 2
      BY <3>3, <3>11, <3>12 DEF Tried
    <3>14. QED
      BY <3>9, <3>13 DEF e
  <2>3. QED
    BY <2>1, <2>2 DEF HintsAreBacked
<1>2. QED
  BY <1>1, EvidenceAlways, PTL

-----------------------------------------------------------------------------
(* Prompts. *)

\* A turn is what a prompt is built from.
LEMMA PromptOfATurn ==
  ASSUME TurnInv, NEW c \in Chats, Running(c)
  PROVE  /\ turn[c].goal \in Goals /\ turn[c].context \in Seq(Message)
         /\ turn[c].active \in Seq(Skills) /\ turn[c].steps \in Seq(StepRecord)
<1>1. turn[c] \in Turn
  BY DEF TurnInv, TurnTypes, Running
<1>2. /\ turn[c].goal \in Goals /\ turn[c].context \in Seq(Message)
      /\ turn[c].active \in Seq(Skills) /\ turn[c].steps \in Seq(Steps)
  BY <1>1 DEF Turn
<1>3. Steps \subseteq StepRecord
  <2> SUFFICES ASSUME NEW tool \in Tools PROVE Step(tool) \in StepRecord
    BY DEF Steps
  <2>1. StepSizes[tool].head \in Nat /\ StepSizes[tool].output \in Nat
    BY MemoryAssumption
  <2>2. QED
    BY <2>1 DEF Step, StepRecord
<1>4. \A s \in Seq(Steps) : s \in Seq(StepRecord)
  BY <1>3
<1>5. QED
  BY <1>2, <1>4

(***************************************************************************)
(* However long the dialogue and the trajectory of a turn, what the        *)
(* planner, the evaluator and the responder are sent (prompt_context.go)   *)
(* holds the newest message, the newest step and an active artifact, and   *)
(* passes its limit, any positive one, by no more than the overhang of its *)
(* sections; of a limit of 3200 or more the floors of the sections take    *)
(* nothing (FloorsAreFree).                                                *)
(***************************************************************************)
THEOREM PromptsFit == Spec => []PromptFits
<1>1. TurnInv => PromptFits
  <2> SUFFICES ASSUME TurnInv, NEW c \in Chats, Running(c), NEW a \in Audiences, NEW last,
                      NEW hints \in Recommendations(turn[c].goal, last)
               PROVE  LET p == Build(a, turn[c], IF a = "planner" THEN hints ELSE {}) IN
                      /\ turn[c].context # <<>> => p.messages >= 1
                      /\ turn[c].steps # <<>> => p.steps >= 1
                      /\ turn[c].active # <<>> => p.artifacts # {}
                      /\ p.tokens <= BudgetTokens[a] + Overhang(a)
    BY DEF PromptFits
  <2> DEFINE t == turn[c]
             shown == IF a = "planner" THEN hints ELSE {}
  <2>1. hints \subseteq Tools
    BY DEF Recommendations
  <2>2. shown \in SUBSET Tools
    BY <2>1
  <2>3. t.goal \in Goals /\ t.context \in Seq(Message) /\ t.active \in Seq(Skills) /\ t.steps \in Seq(StepRecord)
    BY PromptOfATurn
  <2>4. Tools # {}
    BY MemoryAssumption
  <2> HIDE DEF t, shown
  <2>5. LET p == Build(a, t, shown) IN
        /\ t.context # <<>> => p.messages >= 1
        /\ t.steps # <<>> => p.steps >= 1
        /\ t.active # <<>> => p.artifacts # {}
        /\ p.tokens <= BudgetTokens[a] + Overhang(a)
    BY <2>2, <2>3, <2>4, BuildFacts
  <2>6. QED
    BY <2>5 DEF t, shown
<1>2. QED
  BY <1>1, TurnBegins, TurnNext, PTL DEF Spec

=============================================================================
