--------------------------- MODULE TurnGate_proofs ---------------------------
(***************************************************************************)
(* Proofs about TurnGate for any finite set of callers, any set of keys    *)
(* and any limit.  The inductive invariant ties the two shared structures  *)
(* to the program counters: the map holds the keys of the holders, one     *)
(* holder per key, and the channel counts the callers that owe it a        *)
(* receive.                                                                *)
(***************************************************************************)
EXTENDS TurnGate, FiniteSetTheorems, TLAPS

GateInv == /\ GateTypeOK
           /\ OneTurnPerKey
           /\ KeysAreHeld
           /\ SlotsAreOwed
           /\ slots <= Capacity

\* The places from which a caller owes the channel a receive, and the others.
Inside == {"check", "refund", "holding", "freeing"}
Outside == {"idle", "called", "rejected", "released"}

\* The limit newTurnGate settles on is a positive integer.
LEMMA CapacityPositive == Capacity \in Nat /\ Capacity > 0
BY GateAssumption DEF Capacity, defaultMaxConcurrentTurns

\* Callers and holders of slots are finitely many.
LEMMA SlotUsersFinite == IsFiniteSet(SlotUsers) /\ IsFiniteSet(Holders)
<1>1. SlotUsers \in SUBSET Callers /\ Holders \in SUBSET Callers
  BY DEF SlotUsers, Holders
<1>2. QED
  BY <1>1, GateAssumption, FS_Subset

\* Nobody owes the channel anything before the first call.
LEMMA GateInitInv == GateInit => GateInv
<1> SUFFICES ASSUME GateInit PROVE GateInv
  OBVIOUS
<1> USE DEF GateInit
<1>1. GateTypeOK
  BY GateAssumption DEF GateTypeOK, Places
<1>2. Holders = {} /\ SlotUsers = {}
  BY DEF Holders, SlotUsers
<1>3. OneTurnPerKey /\ KeysAreHeld
  BY <1>2 DEF OneTurnPerKey, KeysAreHeld
<1>4. SlotsAreOwed
  BY <1>2, FS_EmptySet DEF SlotsAreOwed
<1>5. QED
  BY <1>1, <1>3, <1>4, CapacityPositive DEF GateInv

\* Every step of a caller keeps the variables within their types.
LEMMA GateTypeStep == GateTypeOK /\ [GateNext]_gvars => GateTypeOK'
<1> SUFFICES ASSUME GateTypeOK, [GateNext]_gvars PROVE GateTypeOK'
  OBVIOUS
<1> USE GateAssumption DEF GateTypeOK, Goto, Places
<1>1. ASSUME NEW c \in Callers, NEW k \in Keys, Call(c, k) PROVE GateTypeOK'
  BY <1>1 DEF Call
<1>2. ASSUME NEW c \in Callers, TakeSlot(c) PROVE GateTypeOK'
  BY <1>2 DEF TakeSlot
<1>3. ASSUME NEW c \in Callers, RejectFull(c) PROVE GateTypeOK'
  BY <1>3 DEF RejectFull
<1>4. ASSUME NEW c \in Callers, InsertKey(c) PROVE GateTypeOK'
  BY <1>4 DEF InsertKey
<1>5. ASSUME NEW c \in Callers, FindKey(c) PROVE GateTypeOK'
  BY <1>5 DEF FindKey
<1>6. ASSUME NEW c \in Callers, RefundSlot(c) PROVE GateTypeOK'
  BY <1>6 DEF RefundSlot
<1>7. ASSUME NEW c \in Callers, DeleteKey(c) PROVE GateTypeOK'
  BY <1>7 DEF DeleteKey
<1>8. ASSUME NEW c \in Callers, FreeSlot(c) PROVE GateTypeOK'
  BY <1>8 DEF FreeSlot
<1>9. ASSUME NEW c \in Callers, ReleaseAgain(c) PROVE GateTypeOK'
  BY <1>9 DEF ReleaseAgain
<1>10. ASSUME NEW c \in Callers, Dismiss(c) PROVE GateTypeOK'
  BY <1>10 DEF Dismiss
<1>11. CASE UNCHANGED gvars
  BY <1>11 DEF gvars
<1>12. QED
  BY <1>1, <1>2, <1>3, <1>4, <1>5, <1>6, <1>7, <1>8, <1>9, <1>10, <1>11
     DEF GateNext, GateStep, Internal

\* A step into the gate adds one to the callers that owe a receive ...
LEMMA SlotUsersJoin ==
  ASSUME GateTypeOK, NEW c \in Callers, pc[c] \in Outside,
         NEW l \in Inside, pc' = [pc EXCEPT ![c] = l]
  PROVE  Cardinality(SlotUsers') = Cardinality(SlotUsers) + 1
<1>1. SlotUsers' = SlotUsers \cup {c} /\ c \notin SlotUsers
  BY DEF SlotUsers, GateTypeOK, Inside, Outside
<1>2. QED
  BY <1>1, SlotUsersFinite, FS_AddElement

\* ... a step out of it takes one away ...
LEMMA SlotUsersLeave ==
  ASSUME GateTypeOK, NEW c \in Callers, pc[c] \in Inside,
         NEW l \in Outside, pc' = [pc EXCEPT ![c] = l]
  PROVE  Cardinality(SlotUsers') = Cardinality(SlotUsers) - 1
<1>1. SlotUsers' = SlotUsers \ {c} /\ c \in SlotUsers
  BY DEF SlotUsers, GateTypeOK, Inside, Outside
<1>2. QED
  BY <1>1, SlotUsersFinite, FS_RemoveElement

\* ... and the others leave them alone.
LEMMA SlotUsersStay ==
  ASSUME GateTypeOK, NEW c \in Callers, NEW l \in Places, pc' = [pc EXCEPT ![c] = l],
         pc[c] \in Inside <=> l \in Inside
  PROVE  SlotUsers' = SlotUsers
BY DEF SlotUsers, GateTypeOK, Inside, Places

\* Steps that neither take nor give back a key leave the holders alone.
LEMMA HoldersStay ==
  ASSUME GateTypeOK, NEW c \in Callers, NEW l \in Places \ {"holding"},
         pc' = [pc EXCEPT ![c] = l], pc[c] # "holding"
  PROVE  Holders' = Holders
BY DEF Holders, GateTypeOK, Places

\* The strengthened invariant is inductive.
LEMMA GateInvStep == GateInv /\ [GateNext]_gvars => GateInv'
<1> SUFFICES ASSUME GateInv, [GateNext]_gvars PROVE GateInv'
  OBVIOUS
<1> USE DEF Goto
<1>0. GateTypeOK /\ GateTypeOK'
  BY GateTypeStep DEF GateInv
<1> DEFINE Keep == (OneTurnPerKey /\ KeysAreHeld)'
           Count == (SlotsAreOwed /\ slots <= Capacity)'
\* A caller that is not a holder moves, and the map stays as it is.
<1>a. ASSUME NEW c \in Callers, NEW l \in Places \ {"holding"}, Goto(c, pc[c], l),
             pc[c] # "holding", UNCHANGED active,
             UNCHANGED key \/ \E k \in Keys \cup {NoKey} : key' = [key EXCEPT ![c] = k]
      PROVE  Keep
  <2>1. Holders' = Holders
    BY <1>a, <1>0, HoldersStay
  <2>2. \A d \in Holders : key'[d] = key[d]
    BY <1>a, <1>0 DEF Holders, GateTypeOK
  <2>3. QED
    BY <1>a, <2>1, <2>2 DEF GateInv, OneTurnPerKey, KeysAreHeld
<1>b. ASSUME NEW c \in Callers, NEW l \in Places, pc' = [pc EXCEPT ![c] = l],
             pc[c] \in Inside <=> l \in Inside, UNCHANGED slots
      PROVE  Count
  BY <1>b, <1>0, SlotUsersStay DEF GateInv, SlotsAreOwed, Capacity
<1>1. ASSUME NEW c \in Callers, NEW k \in Keys, Call(c, k) PROVE Keep /\ Count
  BY <1>1, <1>a, <1>b DEF Call, Places, Inside
<1>2. ASSUME NEW c \in Callers, TakeSlot(c) PROVE Keep /\ Count
  <2>1. Keep
    BY <1>2, <1>a DEF TakeSlot, Places
  <2>2. Cardinality(SlotUsers') = Cardinality(SlotUsers) + 1
    BY <1>2, <1>0, SlotUsersJoin DEF TakeSlot, Inside, Outside
  <2>3. Count
    BY <1>2, <1>0, <2>2, CapacityPositive DEF TakeSlot, GateInv, GateTypeOK, SlotsAreOwed
  <2>4. QED
    BY <2>1, <2>3
<1>3. ASSUME NEW c \in Callers, RejectFull(c) PROVE Keep /\ Count
  BY <1>3, <1>a, <1>b DEF RejectFull, Places, Inside
<1>4. ASSUME NEW c \in Callers, InsertKey(c) PROVE Keep /\ Count
  <2>1. Holders' = Holders \cup {c} /\ c \notin Holders
    BY <1>4, <1>0 DEF InsertKey, Holders, GateTypeOK
  <2>2. \A d \in Holders : key[d] # key[c]
    BY <1>4 DEF InsertKey, GateInv, KeysAreHeld
  <2>3. Keep
    BY <1>4, <2>1, <2>2 DEF InsertKey, GateInv, OneTurnPerKey, KeysAreHeld
  <2>4. Count
    BY <1>4, <1>b DEF InsertKey, Places, Inside
  <2>5. QED
    BY <2>3, <2>4
<1>5. ASSUME NEW c \in Callers, FindKey(c) PROVE Keep /\ Count
  BY <1>5, <1>a, <1>b DEF FindKey, Places, Inside
<1>6. ASSUME NEW c \in Callers, RefundSlot(c) PROVE Keep /\ Count
  <2>1. Keep
    BY <1>6, <1>a DEF RefundSlot, Places
  <2>2. Cardinality(SlotUsers') = Cardinality(SlotUsers) - 1
    BY <1>6, <1>0, SlotUsersLeave DEF RefundSlot, Inside, Outside
  <2>3. Count
    BY <1>6, <1>0, <2>2, CapacityPositive DEF RefundSlot, GateInv, GateTypeOK, SlotsAreOwed
  <2>4. QED
    BY <2>1, <2>3
<1>7. ASSUME NEW c \in Callers, DeleteKey(c) PROVE Keep /\ Count
  <2>1. Holders' = Holders \ {c} /\ c \in Holders
    BY <1>7, <1>0 DEF DeleteKey, Holders, GateTypeOK
  <2>2. \A d \in Holders' : key[d] # key[c]
    BY <2>1 DEF GateInv, OneTurnPerKey
  <2>3. OneTurnPerKey'
    BY <1>7, <2>1 DEF DeleteKey, GateInv, OneTurnPerKey
  <2>4. KeysAreHeld'
    BY <1>7, <2>1, <2>2 DEF DeleteKey, GateInv, KeysAreHeld
  <2>5. Count
    BY <1>7, <1>b DEF DeleteKey, Places, Inside
  <2>6. QED
    BY <2>3, <2>4, <2>5
<1>8. ASSUME NEW c \in Callers, FreeSlot(c) PROVE Keep /\ Count
  <2>1. Keep
    BY <1>8, <1>a DEF FreeSlot, Places
  <2>2. Cardinality(SlotUsers') = Cardinality(SlotUsers) - 1
    BY <1>8, <1>0, SlotUsersLeave DEF FreeSlot, Inside, Outside
  <2>3. Count
    BY <1>8, <1>0, <2>2, CapacityPositive DEF FreeSlot, GateInv, GateTypeOK, SlotsAreOwed
  <2>4. QED
    BY <2>1, <2>3
<1>9. ASSUME NEW c \in Callers, ReleaseAgain(c) PROVE Keep /\ Count
  BY <1>9, <1>a, <1>b DEF ReleaseAgain, Places, Inside
<1>10. ASSUME NEW c \in Callers, Dismiss(c) PROVE Keep /\ Count
  BY <1>10, <1>a, <1>b DEF Dismiss, Places, Inside
<1>11. ASSUME UNCHANGED gvars PROVE Keep /\ Count
  BY <1>11 DEF gvars, GateInv, OneTurnPerKey, KeysAreHeld, SlotsAreOwed, Holders, SlotUsers, Capacity
<1>12. QED
  BY <1>0, <1>1, <1>2, <1>3, <1>4, <1>5, <1>6, <1>7, <1>8, <1>9, <1>10, <1>11
     DEF GateNext, GateStep, Internal, GateInv

\* The strengthened invariant holds throughout.
THEOREM GateInvariant == GateSafety => []GateInv
BY GateInitInv, GateInvStep, PTL DEF GateSafety

\* Every variable of the gate keeps its type.
THEOREM GateTypeCorrect == GateSafety => []GateTypeOK
<1>1. GateInv => GateTypeOK
  BY DEF GateInv
<1>2. QED
  BY <1>1, GateInvariant, PTL

\* Two turns never hold the gate under one key.
THEOREM MutualExclusion == GateSafety => []OneTurnPerKey
<1>1. GateInv => OneTurnPerKey
  BY DEF GateInv
<1>2. QED
  BY <1>1, GateInvariant, PTL

\* The keys of the map are those of the turns that hold the gate.
THEOREM MapMatchesHolders == GateSafety => []KeysAreHeld
<1>1. GateInv => KeysAreHeld
  BY DEF GateInv
<1>2. QED
  BY <1>1, GateInvariant, PTL

\* The channel counts the callers that have yet to receive from it.
THEOREM SlotAccounting == GateSafety => []SlotsAreOwed
<1>1. GateInv => SlotsAreOwed
  BY DEF GateInv
<1>2. QED
  BY <1>1, GateInvariant, PTL

\* No receive of turngate.go ever finds the channel empty.
THEOREM NoBlockedReceive == GateSafety => []DrainNeverBlocks
<1>1. GateInv => DrainNeverBlocks
  <2> SUFFICES ASSUME GateInv, NEW c \in Callers, pc[c] \in {"refund", "freeing"}
               PROVE  slots > 0
    BY DEF DrainNeverBlocks
  <2>1. c \in SlotUsers
    BY DEF SlotUsers
  <2>2. Cardinality(SlotUsers) # 0
    BY <2>1, SlotUsersFinite, FS_EmptySet
  <2>3. QED
    BY <2>2 DEF GateInv, SlotsAreOwed, GateTypeOK
<1>2. QED
  BY <1>1, GateInvariant, PTL

-----------------------------------------------------------------------------
\* The contract's own instance of Cardinality is Cardinality.
LEMMA ContractCardinality == \A S : Contract!Cardinality(S) = Cardinality(S)
BY DEF Contract!Cardinality, Cardinality, Contract!IsFiniteSet, IsFiniteSet

\* What the contract sees of the callers, in terms of their program counters.
LEMMA ContractView ==
  ASSUME GateTypeOK
  PROVE  Contract!In = Holders /\ Contract!Crowd = SlotUsers
<1>1. \A c \in Callers : pc[c] \in Places /\ Where[c] = Seen(pc[c])
  BY DEF GateTypeOK, Where
<1>2. \A p \in Places : /\ Seen(p) = "in" <=> p = "holding"
                        /\ Seen(p) \in {"judged", "in", "refused", "leaving"} <=> p \in Inside
  BY DEF Seen, Places, Inside
<1>3. QED
  BY <1>1, <1>2 DEF Contract!In, Contract!Crowd, Holders, SlotUsers, Inside

\* A program counter that moves moves the contract's state with it.
LEMMA WhereMoves ==
  ASSUME GateTypeOK, NEW c \in Callers, NEW p \in Places, NEW q \in Places, Goto(c, p, q)
  PROVE  Contract!Move(c, Seen(p), Seen(q))
<1>1. Where' = [Where EXCEPT ![c] = Seen(q)]
  BY DEF GateTypeOK, Where, Goto
<1>2. Where[c] = Seen(p)
  BY DEF Where, Goto
<1>3. QED
  BY <1>1, <1>2 DEF Contract!Move

\* Each step on the channel or the map is a step of the contract.
LEMMA ContractStep == GateInv /\ [GateNext]_gvars => [Contract!CNext]_(Contract!cvars)
<1> SUFFICES ASSUME GateInv, [GateNext]_gvars
             PROVE  Contract!CNext \/ UNCHANGED Contract!cvars
  BY DEF Contract!cvars
<1>0. GateTypeOK
  BY DEF GateInv
<1>a. \A c \in Callers : \A p, q \in Places : Goto(c, p, q) => Contract!Move(c, Seen(p), Seen(q))
  BY <1>0, WhereMoves
<1> USE <1>0, <1>a DEF Places, Seen
<1>1. ASSUME NEW c \in Callers, NEW k \in Keys, Call(c, k) PROVE Contract!CNext
  <2>1. Contract!Ask(c, k)
    BY <1>1 DEF Call, Contract!Ask
  <2>2. QED
    BY <2>1 DEF Contract!CNext
<1>2. ASSUME NEW c \in Callers, TakeSlot(c) PROVE Contract!CNext
  <2>1. Contract!TakeUp(c)
    BY <1>2 DEF TakeSlot, Contract!TakeUp
  <2>2. QED
    BY <2>1 DEF Contract!CNext
<1>3. ASSUME NEW c \in Callers, RejectFull(c) PROVE Contract!CNext
  <2>1. Cardinality(Contract!Crowd) >= Capacity
    BY <1>3, ContractView DEF RejectFull, GateInv, SlotsAreOwed
  <2>2. Contract!RefuseFull(c)
    BY <1>3, <2>1, ContractCardinality DEF RejectFull, Contract!RefuseFull
  <2>3. QED
    BY <2>2 DEF Contract!CNext
<1>4. ASSUME NEW c \in Callers, InsertKey(c) PROVE Contract!CNext
  <2>1. \A d \in Holders : key[d] # key[c]
    BY <1>4 DEF InsertKey, GateInv, KeysAreHeld
  <2>2. Cardinality(Holders) < Capacity
    <3>1. Holders \subseteq SlotUsers \ {c} /\ c \in SlotUsers
      BY <1>4 DEF InsertKey, Goto, Holders, SlotUsers
    <3>2. /\ IsFiniteSet(SlotUsers \ {c})
          /\ Cardinality(SlotUsers \ {c}) = Cardinality(SlotUsers) - 1
      BY <3>1, SlotUsersFinite, FS_RemoveElement
    <3>3. Cardinality(Holders) <= Cardinality(SlotUsers \ {c})
      BY <3>1, <3>2, FS_Subset
    <3>4. Cardinality(Holders) \in Nat
      BY SlotUsersFinite, FS_CardinalityType
    <3>5. QED
      BY <3>2, <3>3, <3>4, CapacityPositive DEF GateInv, SlotsAreOwed, GateTypeOK
  <2>3. Contract!Admit(c)
    BY <1>4, <2>1, <2>2, ContractView, ContractCardinality DEF InsertKey, Contract!Admit
  <2>4. QED
    BY <2>3 DEF Contract!CNext
<1>5. ASSUME NEW c \in Callers, FindKey(c) PROVE Contract!CNext
  <2>1. \E d \in Holders : key[d] = key[c]
    BY <1>5 DEF FindKey, GateInv, KeysAreHeld
  <2>2. Contract!RefuseKey(c)
    BY <1>5, <2>1, ContractView DEF FindKey, Contract!RefuseKey
  <2>3. QED
    BY <2>2 DEF Contract!CNext
<1>6. ASSUME NEW c \in Callers, RefundSlot(c) PROVE Contract!CNext
  <2>1. Contract!Return(c)
    BY <1>6 DEF RefundSlot, Contract!Return
  <2>2. QED
    BY <2>1 DEF Contract!CNext
<1>7. ASSUME NEW c \in Callers, DeleteKey(c) PROVE Contract!CNext
  <2>1. Contract!Leave(c)
    BY <1>7 DEF DeleteKey, Contract!Leave
  <2>2. QED
    BY <2>1 DEF Contract!CNext
<1>8. ASSUME NEW c \in Callers, FreeSlot(c) PROVE Contract!CNext
  <2>1. Contract!Gone(c)
    BY <1>8 DEF FreeSlot, Contract!Gone
  <2>2. QED
    BY <2>1 DEF Contract!CNext
<1>9. ASSUME NEW c \in Callers, ReleaseAgain(c) \/ Dismiss(c) PROVE Contract!CNext
  <2>1. Contract!Depart(c)
    BY <1>9 DEF ReleaseAgain, Dismiss, Contract!Depart
  <2>2. QED
    BY <2>1 DEF Contract!CNext
<1>10. CASE UNCHANGED gvars
  BY <1>10 DEF gvars, Contract!cvars, Where
<1>11. QED
  BY <1>1, <1>2, <1>3, <1>4, <1>5, <1>6, <1>7, <1>8, <1>9, <1>10
     DEF GateNext, GateStep, Internal

\* The gate implements its contract: whatever the interleaving, a caller is
\* let in or turned away only for the reasons the contract allows.
THEOREM GateImplementsContract == GateSafety => ImplementsContract
<1>1. GateInit => Contract!CInit
  BY DEF GateInit, Contract!CInit, Where, Seen
<1>2. QED
  BY <1>1, ContractStep, GateInvariant, PTL DEF GateSafety, ImplementsContract, Contract!CSpec
=============================================================================
