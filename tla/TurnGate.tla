------------------------------ MODULE TurnGate ------------------------------
(***************************************************************************)
(* internal/runtime/turngate.go: the gate every turn passes.  A buffered   *)
(* channel counts the slots in use, a mutex-protected map holds the keys   *)
(* of the active turns.  tryAcquire sends to the channel BEFORE it looks   *)
(* at the map, and release deletes the key BEFORE it receives from the     *)
(* channel, so the two structures disagree between the steps: each channel *)
(* operation and each critical section is an action.                       *)
(***************************************************************************)
EXTENDS Integers, FiniteSets

CONSTANTS Callers,    \* goroutines calling tryAcquire
          Keys,       \* conversation and task keys, already normalised
          NoKey,      \* the key of a goroutine outside the gate
          GateLimit   \* the argument of newTurnGate

\* The limit of newTurnGate: a non-positive argument selects the default.
defaultMaxConcurrentTurns == 4
Capacity == IF GateLimit <= 0 THEN defaultMaxConcurrentTurns ELSE GateLimit

ASSUME GateAssumption == /\ IsFiniteSet(Callers)
                         /\ NoKey \notin Keys
                         /\ GateLimit \in Int

VARIABLES slots,    \* len(g.slots): the slots in use
          active,   \* the keys of g.active
          pc,       \* pc[c]: where c is in tryAcquire or release
          key       \* key[c]: the argument of c's latest call

gvars == <<slots, active, pc, key>>

GateInit == /\ slots = 0
            /\ active = {}
            /\ pc = [c \in Callers |-> "idle"]
            /\ key = [c \in Callers |-> NoKey]

Goto(c, from, to) == pc[c] = from /\ pc' = [pc EXCEPT ![c] = to]

-----------------------------------------------------------------------------
\* tryAcquire(k) is entered.
Call(c, k) == /\ Goto(c, "idle", "called")
              /\ key' = [key EXCEPT ![c] = k]
              /\ UNCHANGED <<slots, active>>

\* Mutant: the channel has one place too many.
TakeSlot_OneTooMany(c) == /\ Goto(c, "called", "check")
                          /\ slots <= Capacity
                          /\ slots' = slots + 1
                          /\ UNCHANGED <<active, key>>

\* The send to the channel succeeds ...
TakeSlot(c) == /\ Goto(c, "called", "check")
               /\ slots < Capacity
               /\ slots' = slots + 1
               /\ UNCHANGED <<active, key>>

\* Mutant: a blocking send, without the default branch.
RejectFull_Never(c) == FALSE

\* ... or the select takes its default branch.
RejectFull(c) == /\ Goto(c, "called", "rejected")
                 /\ slots >= Capacity
                 /\ UNCHANGED <<slots, active, key>>

\* Mutant: the map is not consulted.
InsertKey_Unchecked(c) == /\ Goto(c, "check", "holding")
                          /\ active' = active \cup {key[c]}
                          /\ UNCHANGED <<slots, key>>

\* The critical section of tryAcquire: the key is new.
InsertKey(c) == /\ Goto(c, "check", "holding")
                /\ key[c] \notin active
                /\ active' = active \cup {key[c]}
                /\ UNCHANGED <<slots, key>>

\* Mutant: the refused call keeps its slot.
FindKey_LeaksSlot(c) == /\ Goto(c, "check", "rejected")
                        /\ key[c] \in active
                        /\ UNCHANGED <<slots, active, key>>

\* The critical section of tryAcquire: the key is taken.
FindKey(c) == /\ Goto(c, "check", "refund")
              /\ key[c] \in active
              /\ UNCHANGED <<slots, active, key>>

\* The receive after the critical section; it would block on an empty channel.
RefundSlot(c) == /\ Goto(c, "refund", "rejected")
                 /\ slots > 0
                 /\ slots' = slots - 1
                 /\ UNCHANGED <<active, key>>

\* Mutant: the key stays in the map.
DeleteKey_Forgets(c) == Goto(c, "holding", "freeing") /\ UNCHANGED <<slots, active, key>>

\* release, first half: the critical section inside once.Do.
DeleteKey(c) == /\ Goto(c, "holding", "freeing")
                /\ active' = active \ {key[c]}
                /\ UNCHANGED <<slots, key>>

\* release, second half: the receive; once.Do returns.
FreeSlot(c) == /\ Goto(c, "freeing", "released")
               /\ slots > 0
               /\ slots' = slots - 1
               /\ UNCHANGED <<active, key>>

\* Mutant: without once, a second call releases again.
ReleaseAgain_NoOnce(c) == /\ Goto(c, "released", "freeing")
                          /\ active' = active \ {key[c]}
                          /\ UNCHANGED <<slots, key>>

\* A release function called once more does nothing, and c drops it.
ReleaseAgain(c) == /\ Goto(c, "released", "idle")
                   /\ key' = [key EXCEPT ![c] = NoKey]
                   /\ UNCHANGED <<slots, active>>

\* Mutant: the key of the refused call is remembered.
Dismiss_KeepsKey(c) == Goto(c, "rejected", "idle") /\ UNCHANGED <<slots, active, key>>

\* The caller has dealt with the refusal.
Dismiss(c) == /\ Goto(c, "rejected", "idle")
              /\ key' = [key EXCEPT ![c] = NoKey]
              /\ UNCHANGED <<slots, active>>

\* The steps of a call or of a release that has begun.
Internal(c) == \/ TakeSlot(c) \/ RejectFull(c)
               \/ InsertKey(c) \/ FindKey(c) \/ RefundSlot(c)
               \/ FreeSlot(c)

GateStep(c) == \/ \E k \in Keys : Call(c, k)
               \/ Internal(c)
               \/ DeleteKey(c)
               \/ ReleaseAgain(c)
               \/ Dismiss(c)

GateNext == \E c \in Callers : GateStep(c)

\* A turn may hold its key forever; a call or a release, once begun, goes on.
GateFairness == \A c \in Callers : WF_gvars(Internal(c))

GateSafety == GateInit /\ [][GateNext]_gvars
GateSpec == GateSafety /\ GateFairness

-----------------------------------------------------------------------------
Places == {"idle", "called", "check", "refund", "rejected", "holding", "freeing", "released"}

GateTypeOK == /\ slots \in Nat
              /\ active \in SUBSET Keys
              /\ pc \in [Callers -> Places]
              /\ key \in [Callers -> Keys \cup {NoKey}]
              /\ \A c \in Callers : key[c] = NoKey <=> pc[c] = "idle"

Holders == {c \in Callers : pc[c] = "holding"}
\* Callers between their send to the channel and their receive from it.
SlotUsers == {c \in Callers : pc[c] \in {"check", "refund", "holding", "freeing"}}

\* A key has one turn at a time: what turnGate's comment calls "one active
\* turn per conversation/task".
OneTurnPerKey == \A c, d \in Holders : key[c] = key[d] => c = d

\* The map holds exactly the keys of the turns that hold the gate, so a key
\* is neither left behind by a finished turn nor deleted under a live one.
KeysAreHeld == active = {key[c] : c \in Holders}

\* The channel's length is the number of callers that still owe it a receive:
\* no path through tryAcquire or release leaks a slot or returns one twice.
SlotsAreOwed == slots = Cardinality(SlotUsers)

\* The two receives of turngate.go never find the channel empty, so neither a
\* rejected call nor a release can hang.
DrainNeverBlocks == \A c \in Callers : pc[c] \in {"refund", "freeing"} => slots > 0

\* A caller inside tryAcquire or release gets out, whatever the others do.
CallsReturn == \A c \in Callers :
                 /\ pc[c] = "called" ~> pc[c] \in {"rejected", "holding"}
                 /\ pc[c] = "freeing" ~> pc[c] = "released"

\* The callers that hold a slot only to be refused: their key is taken.
Losers == {c \in Callers : \/ pc[c] = "refund"
                           \/ pc[c] = "check" /\ key[c] \in active}

\* A call whose key no other caller has is turned away only while Capacity
\* slots serve turns that are active, being admitted or leaving, never because
\* of a slot that a call for a busy key holds on its way to its own refusal
\* ("allowing a small, bounded number of independent turns to make progress
\* concurrently", turngate.go:10-11).
IndependentTurnsAdmitted ==
  [][\A c \in Callers :
       RejectFull(c) /\ (\A d \in Callers \ {c} : key[d] # key[c])
         => Cardinality(SlotUsers \ Losers) >= Capacity]_gvars

-----------------------------------------------------------------------------
\* The gate seen from outside: a caller's program counter names its state in
\* the contract, and the channel and the map disappear.
Seen(p) == CASE p = "idle"    -> "out"
             [] p = "called"  -> "asking"
             [] p = "check"   -> "judged"
             [] p = "holding" -> "in"
             [] p = "refund"  -> "refused"
             [] p = "freeing" -> "leaving"
             [] p \in {"rejected", "released"} -> "away"

Where == [c \in Callers |-> Seen(pc[c])]

Contract == INSTANCE GateContract WITH Limit <- Capacity, where <- Where, wants <- key

\* The channel and the map together implement the contract of GateContract:
\* no interleaving lets in or turns away a caller the contract would not.
ImplementsContract == Contract!CSpec
=============================================================================
