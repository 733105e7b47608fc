---------------------------- MODULE GateContract ----------------------------
(***************************************************************************)
(* What the turn gate promises to its callers, without the channel and the *)
(* map it is built from: a caller that asks for a key is let in only when  *)
(* nobody is in under that key and fewer than Limit callers are in, and it *)
(* is turned away only for one of two reasons it could observe.            *)
(***************************************************************************)
EXTENDS Naturals, FiniteSets

CONSTANTS Callers,  \* goroutines that start turns
          Keys,     \* "conversation:<id>" and "task:<id>"
          NoKey,    \* the key of a caller that is out
          Limit     \* turns that may be active at once

VARIABLES where,    \* out, asking, judged, in, refused, leaving or away
          wants     \* wants[c]: the key c asks for or is in under

cvars == <<where, wants>>

In == {c \in Callers : where[c] = "in"}
\* Callers that may stand in the way: let in, or being judged, or on their way
\* out of a refusal or of a finished turn.
Crowd == {c \in Callers : where[c] \in {"judged", "in", "refused", "leaving"}}

Move(c, from, to) == where[c] = from /\ where' = [where EXCEPT ![c] = to]

CInit == /\ where = [c \in Callers |-> "out"]
         /\ wants = [c \in Callers |-> NoKey]

Ask(c, k) == Move(c, "out", "asking") /\ wants' = [wants EXCEPT ![c] = k]

\* The call is taken up; whether its key is free is still to be judged.
TakeUp(c) == Move(c, "asking", "judged") /\ UNCHANGED wants

Admit(c) == /\ Move(c, "judged", "in")
            /\ \A d \in In : wants[d] # wants[c]
            /\ Cardinality(In) < Limit
            /\ UNCHANGED wants

RefuseFull(c) == /\ Move(c, "asking", "away")
                 /\ Cardinality(Crowd) >= Limit
                 /\ UNCHANGED wants

\* The key is taken: the call is lost, but it has yet to return.
RefuseKey(c) == /\ Move(c, "judged", "refused")
                /\ \E d \in In : wants[d] = wants[c]
                /\ UNCHANGED wants

Return(c) == Move(c, "refused", "away") /\ UNCHANGED wants

Leave(c) == Move(c, "in", "leaving") /\ UNCHANGED wants

Gone(c) == Move(c, "leaving", "away") /\ UNCHANGED wants

Depart(c) == Move(c, "away", "out") /\ wants' = [wants EXCEPT ![c] = NoKey]

CNext == \E c \in Callers : \/ \E k \in Keys : Ask(c, k)
                            \/ TakeUp(c) \/ Admit(c)
                            \/ RefuseFull(c) \/ RefuseKey(c) \/ Return(c)
                            \/ Leave(c) \/ Gone(c) \/ Depart(c)

CSpec == CInit /\ [][CNext]_cvars
=============================================================================
