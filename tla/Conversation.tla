---------------------------- MODULE Conversation -----------------------------
(***************************************************************************)
(* internal/runtime/conversation/store.go and the context artifacts of     *)
(* internal/runtime/model/turn.go: what a conversation remembers of its    *)
(* turns, in memory only.  A message is its role and its length in runes;  *)
(* an artifact is the skill whose instructions it carries, activate_skill  *)
(* being the only tool that emits artifacts, with the content the catalog  *)
(* had at the start of the process.                                        *)
(***************************************************************************)
EXTENDS Integers, FiniteSets, Sequences, SequencesExt

CONSTANTS Chats,          \* conversation ids, normalised
          Lengths,        \* the lengths of messages, trimmed and not empty
          MaxMessages,    \* 20 in the code
          Skills,         \* the skills of the catalog
          SkillRunes,     \* the length of the instructions of each
          MaxArtifacts    \* 8 in the code

maxConversationRunes == 24000
maxContextTotalRunes == 60000
MaxInstructionRunes == 20000

\* A longer SKILL.md keeps the process from starting (catalog.go, parseSkill).
ASSUME ConversationAssumption ==
    /\ Lengths \subseteq Nat \ {0}
    /\ MaxMessages \in Nat /\ MaxArtifacts \in Nat
    /\ SkillRunes \in [Skills -> 1..MaxInstructionRunes]

VARIABLES threads,     \* s.threads
          remembered,  \* s.artifacts
          said,        \* history: every message of the conversation since the start
          activated    \* history: skills activated in turns that ended well since the start

conversationVars == <<threads, remembered, said, activated>>

Message == [role : {"user", "assistant"}, runes : Lengths]

Runes(messages) == FoldLeft(LAMBDA n, m : n + m.runes, 0, messages)

\* The last n elements of a sequence.
Newest(n, s) == SubSeq(s, Len(s) - n + 1, Len(s))

\* Mutant: the message that overflows is kept as well.
Bounded_OneTooMany(messages) ==
    LET recent == IF Len(messages) > MaxMessages THEN Newest(MaxMessages, messages) ELSE messages
        fits == {n \in 0..Len(recent) : n = 0 \/ Runes(Newest(n - 1, recent)) <= maxConversationRunes}
    IN Newest(Max(fits), recent)

\* bounded: the last messages, and of these as many, from the end, as fit.
Bounded(messages) ==
    LET recent == IF Len(messages) > MaxMessages THEN Newest(MaxMessages, messages) ELSE messages
        fits == {n \in 0..Len(recent) : Runes(Newest(n, recent)) <= maxConversationRunes}
    IN Newest(Max(fits), recent)

\* The artifacts' total length.
ActiveRunes(active) == FoldLeft(LAMBDA n, s : n + SkillRunes[s], 0, active)

\* One round of the loop of ApplyContextArtifacts: an artifact that is active is
\* replaced by itself, a new one must respect both bounds.
Applies(active, s) == \/ s \in ToSet(active)
                      \/ /\ Len(active) < MaxArtifacts
                         /\ ActiveRunes(active) + SkillRunes[s] <= maxContextTotalRunes

Apply(active, s) == IF s \in ToSet(active) THEN active ELSE Append(active, s)

\* ApplyContextArtifacts as NewTurn calls it: the first artifact that is refused
\* ends the loop, the ones before it stay, the error is ignored.
ApplyAll(artifacts) ==
    FoldLeft(LAMBDA r, s : IF r.ok /\ Applies(r.active, s)
                           THEN [ok |-> TRUE, active |-> Apply(r.active, s)]
                           ELSE [r EXCEPT !.ok = FALSE],
             [ok |-> TRUE, active |-> <<>>], artifacts).active

\* NewStore.
ConversationInit == /\ threads = [c \in Chats |-> <<>>]
                    /\ remembered = [c \in Chats |-> <<>>]
                    /\ said = [c \in Chats |-> <<>>]
                    /\ activated = [c \in Chats |-> {}]

-----------------------------------------------------------------------------
\* What AppendExchange appends: both texts are known to be non-empty.
Exchange(user, answer) == <<[role |-> "user", runes |-> user], [role |-> "assistant", runes |-> answer]>>

\* Mutant: the artifacts the turn began with are stored, not those it ended with.
Remember_Before(c, active, user, answer) ==
    /\ remembered' = remembered
    /\ threads' = [threads EXCEPT ![c] = Bounded(@ \o Exchange(user, answer))]
    /\ said' = [said EXCEPT ![c] = @ \o Exchange(user, answer)]
    /\ activated' = [activated EXCEPT ![c] = @ \cup ToSet(active)]

\* RememberContextArtifacts and AppendExchange, after loop.Run returned no error:
\* the gate keeps other turns of the conversation out, so the two are one step.
Remember(c, active, user, answer) ==
    /\ remembered' = [remembered EXCEPT ![c] = active]
    /\ threads' = [threads EXCEPT ![c] = Bounded(@ \o Exchange(user, answer))]
    /\ said' = [said EXCEPT ![c] = @ \o Exchange(user, answer)]
    /\ activated' = [activated EXCEPT ![c] = @ \cup ToSet(active)]

\* A new process has an empty store.
ConversationForgets == /\ threads' = [c \in Chats |-> <<>>]
                       /\ remembered' = [c \in Chats |-> <<>>]
                       /\ said' = [c \in Chats |-> <<>>]
                       /\ activated' = [c \in Chats |-> {}]

-----------------------------------------------------------------------------
(***************************************************************************)
(* Cutting the thread after every exchange loses nothing but what the two  *)
(* bounds cut from the whole dialogue: the thread is an end of it, and a   *)
(* message more would break a bound.                                       *)
(***************************************************************************)
ThreadIsRecentHistory ==
    \A c \in Chats :
        LET t == threads[c]
            h == said[c]
        IN /\ IsSuffix(t, h)
           /\ Len(t) <= MaxMessages /\ Runes(t) <= maxConversationRunes
           /\ Len(t) < Len(h) => \/ Len(t) = MaxMessages
                                 \/ Runes(Newest(Len(t) + 1, h)) > maxConversationRunes
=============================================================================
