---------------------------- MODULE Context_proofs ----------------------------
(***************************************************************************)
(* What the operators compute that give a turn its context, for inputs of  *)
(* any size: the sums of lengths, the cut of a thread (Bounded) and the    *)
(* artifacts a turn begins with (ApplyAll) of Conversation, then what a    *)
(* prompt built by PromptContext holds, the bound of each section and      *)
(* their sum.  Most are folds over sequences; what a fold computes is      *)
(* shown by induction over the length of the sequence, as the least number *)
(* for which a claim fails.                                                *)
(***************************************************************************)
EXTENDS PromptContext, SequenceTheorems, FiniteSetTheorems, WellFoundedInduction, TLAPS


-----------------------------------------------------------------------------
(* Numbers. *)

\* A set of naturals that is not empty has a least element.
LEMMA LeastNatural ==
  ASSUME NEW T \in SUBSET Nat, T # {}
  PROVE  \E m \in T : \A k \in T : m <= k
<1> DEFINE R == OpToRel(<, Nat)
<1>1. \A k, m \in Nat : <<k, m>> \in R <=> k < m
  BY DEF OpToRel
<1>2. IsWellFoundedOn(R, Nat)
  BY NatLessThanWellFounded
<1> HIDE DEF R
<1>3. PICK m \in T : \A k \in T : ~(<<k, m>> \in R)
  BY <1>2, WFMin
<1>4. \A k \in T : m <= k
  <2>1. SUFFICES ASSUME NEW k \in T PROVE m <= k
    OBVIOUS
  <2>2. k \in Nat /\ m \in Nat /\ ~(k < m)
    BY <1>1, <1>3
  <2>3. QED
    BY <2>2
<1>5. QED
  BY <1>4

\* Induction up to n, for a set of numbers.
LEMMA UpTo ==
  ASSUME NEW n \in Nat, NEW T, 0 \in T, \A k \in 0..n : k < n /\ k \in T => k + 1 \in T
  PROVE  \A k \in 0..n : k \in T
<1> DEFINE Bad == {k \in 0..n : k \notin T}
<1>1. SUFFICES ASSUME Bad # {} PROVE FALSE
  OBVIOUS
<1>2. Bad \in SUBSET Nat
  OBVIOUS
<1>3. PICK m \in Bad : \A k \in Bad : m <= k
  BY <1>1, <1>2, LeastNatural
<1>4. m \in 0..n /\ m # 0 /\ m \notin T
  BY <1>3
<1>5. m - 1 \in 0..n /\ m - 1 < n /\ ~(m <= m - 1) /\ (m - 1) + 1 = m
  BY <1>4
<1>6. m - 1 \in T
  BY <1>3, <1>5
<1>7. QED
  BY <1>4, <1>5, <1>6

\* A bounded set of naturals that is not empty has a maximum.
LEMMA MaxFacts ==
  ASSUME NEW S \in SUBSET Nat, S # {}, NEW b \in Nat, \A x \in S : x <= b
  PROVE  Max(S) \in S /\ \A x \in S : x <= Max(S)
<1> DEFINE T == {b - x : x \in S}
<1>1. T \in SUBSET Nat /\ T # {}
  <2>1. \A x \in S : b - x \in Nat /\ b - x \in T
    OBVIOUS
  <2>2. PICK x \in S : TRUE
    OBVIOUS
  <2>3. QED
    BY <2>1, <2>2
<1>2. PICK m \in T : \A k \in T : m <= k
  BY <1>1, LeastNatural
<1>3. PICK x \in S : m = b - x
  BY <1>2
<1>4. \A y \in S : x >= y
  <2>1. SUFFICES ASSUME NEW y \in S PROVE x >= y
    OBVIOUS
  <2>2. b - x <= b - y /\ x \in Nat /\ y \in Nat
    BY <1>2, <1>3
  <2>3. QED
    BY <2>2
<1>5. QED
  BY <1>4 DEF Max

\* The maximum of an initial interval, and of a part of it.
LEMMA MaxInterval ==
  ASSUME NEW n \in Nat
  PROVE  /\ \A T \in SUBSET (1..n) : T # {} => Max(T) \in T /\ \A x \in T : x <= Max(T)
         /\ n > 0 => Max(1..n) = n /\ (1..n) \ {Max(1..n)} = 1..(n - 1)
<1>1. \A T \in SUBSET (1..n) : T # {} => Max(T) \in T /\ \A x \in T : x <= Max(T)
  <2>1. SUFFICES ASSUME NEW T \in SUBSET (1..n), T # {} PROVE Max(T) \in T /\ \A x \in T : x <= Max(T)
    OBVIOUS
  <2>2. T \in SUBSET Nat /\ \A x \in T : x <= n
    OBVIOUS
  <2>3. QED
    BY <2>1, <2>2, MaxFacts
<1>2. ASSUME n > 0 PROVE Max(1..n) = n
  <2>1. 1..n # {} /\ n \in 1..n
    BY <1>2
  <2>2. Max(1..n) \in 1..n /\ n <= Max(1..n)
    BY <1>1, <2>1
  <2>3. QED
    BY <2>2
<1>3. QED
  BY <1>1, <1>2

-----------------------------------------------------------------------------
(* Folds. *)

\* g is the recursive function of MapThenFoldSet as FoldLeft uses it for n elements,
\* with op as the step for a value and the number of an element.
IsFold(g, n, base, op) ==
    \A T \in SUBSET (1..n) : g[T] = IF T = {} THEN base ELSE op[<<g[T \ {Max(T)}], Max(T)>>]

\* There is such a function.
LEMMA FoldExists ==
  ASSUME NEW V, NEW base \in V, NEW n \in Nat, NEW op \in [V \X (1..n) -> V]
  PROVE  \E g : g \in [SUBSET (1..n) -> V] /\ IsFold(g, n, base, op)
<1> DEFINE Solved(k) == \E g : g \in [SUBSET (1..k) -> V] /\ IsFold(g, k, base, op)
           Bad == {k \in 0..n : ~Solved(k)}
<1>1. SUFFICES ASSUME Bad # {} PROVE FALSE
  <2>1. n \in 0..n
    OBVIOUS
  <2>2. Bad = {} => Solved(n)
    BY <2>1
  <2>3. QED
    BY <2>2
<1>2. PICK m \in Bad : \A k \in Bad : m <= k
  <2>1. Bad \in SUBSET Nat
    OBVIOUS
  <2>2. QED
    BY <1>1, <2>1, LeastNatural
<1>3. m # 0
  <2>1. SUFFICES ASSUME m = 0 PROVE Solved(m)
    BY <1>2
  <2>2. \A T \in SUBSET (1..m) : T = {}
    BY <2>1
  <2>3. IsFold([T \in SUBSET (1..m) |-> base], m, base, op)
    BY <2>2 DEF IsFold
  <2>4. QED
    BY <2>3
<1>4. m - 1 \in 0..n /\ Solved(m - 1) /\ m \in 1..n
  <2>1. m \in 0..n /\ m # 0
    BY <1>2, <1>3
  <2>2. m - 1 \in 0..n /\ ~(m <= m - 1) /\ m \in 1..n
    BY <2>1
  <2>3. QED
    BY <1>2, <2>2
<1>5. PICK g : g \in [SUBSET (1..(m - 1)) -> V] /\ IsFold(g, m - 1, base, op)
  BY <1>4
<1> DEFINE h == [T \in SUBSET (1..m) |-> IF m \in T THEN op[<<g[T \ {m}], m>>] ELSE g[T]]
<1>6. ASSUME NEW T \in SUBSET (1..m)
      PROVE  /\ m \in T => T \ {m} \in SUBSET (1..(m - 1)) /\ Max(T) = m /\ T # {}
             /\ m \notin T => /\ T \in SUBSET (1..(m - 1))
                              /\ T # {} => Max(T) \in T /\ m \notin T \ {Max(T)}
  <2>1. m \in Nat
    BY <1>4
  <2>2. T # {} => Max(T) \in T /\ \A x \in T : x <= Max(T)
    BY <2>1, MaxInterval
  <2>3. m \in T => m = Max(T)
    <3>1. SUFFICES ASSUME m \in T PROVE m = Max(T)
      OBVIOUS
    <3>2. Max(T) \in 1..m /\ m <= Max(T)
      BY <2>2, <3>1
    <3>3. QED
      BY <1>4, <3>2
  <2>4. \A x \in T : x # m => x \in 1..(m - 1)
    BY <1>4
  <2>5. QED
    BY <2>2, <2>3, <2>4
<1>7. h \in [SUBSET (1..m) -> V]
  BY <1>4, <1>5, <1>6
<1>8. ASSUME NEW T \in SUBSET (1..m)
      PROVE  h[T] = IF T = {} THEN base ELSE op[<<h[T \ {Max(T)}], Max(T)>>]
  <2>1. CASE m \in T
    <3>1. Max(T) = m /\ T # {} /\ T \ {m} \in SUBSET (1..m)
      BY <1>6, <2>1
    <3>2. h[T \ {m}] = g[T \ {m}]
      BY <3>1
    <3>3. QED
      BY <2>1, <3>1, <3>2
  <2>2. CASE m \notin T
    <3>1. h[T] = g[T] /\ T \in SUBSET (1..(m - 1))
      BY <1>6, <2>2
    <3>2. T # {} => h[T \ {Max(T)}] = g[T \ {Max(T)}]
      BY <1>6, <2>2
    <3>3. g[T] = IF T = {} THEN base ELSE op[<<g[T \ {Max(T)}], Max(T)>>]
      BY <1>5, <3>1 DEF IsFold
    <3>4. QED
      BY <3>1, <3>2, <3>3
  <2>3. QED
    BY <2>1, <2>2
<1>9. IsFold(h, m, base, op)
  BY <1>8 DEF IsFold
<1>10. QED
  BY <1>2, <1>7, <1>9

-----------------------------------------------------------------------------
(* Sums. *)

\* sum[k] is what the first k of the weights w make together.
PartialSums(sum, n, w) == /\ sum \in [0..n -> Nat]
                          /\ sum[0] = 0
                          /\ \A k \in 1..n : sum[k] = sum[k - 1] + w[k]

\* The function of a fold that adds has the partial sums at the initial intervals.
LEMMA FoldSums ==
  ASSUME NEW n \in Nat, NEW w \in [1..n -> Nat], NEW h,
         \A T \in SUBSET (1..n) : h[T] = IF T = {} THEN 0 ELSE h[T \ {Max(T)}] + w[Max(T)]
  PROVE  PartialSums([k \in 0..n |-> h[1..k]], n, w)
<1> DEFINE sum == [k \in 0..n |-> h[1..k]]
           Good == {k \in 0..n : h[1..k] \in Nat}
<1>1. h[1..0] = 0
  <2>1. 1..0 = {}
    OBVIOUS
  <2>2. QED
    BY <2>1
<1>2. ASSUME NEW k \in 1..n PROVE h[1..k] = h[1..(k - 1)] + w[k]
  <2>1. k \in Nat /\ k > 0 /\ 1..k \in SUBSET (1..n) /\ 1..k # {}
    OBVIOUS
  <2>2. Max(1..k) = k /\ (1..k) \ {Max(1..k)} = 1..(k - 1)
    BY <2>1, MaxInterval
  <2>3. QED
    BY <2>1, <2>2
<1>3. \A k \in 0..n : k \in Good
  <2>1. 0 \in Good
    BY <1>1
  <2>2. ASSUME NEW k \in 0..n, k < n, k \in Good PROVE k + 1 \in Good
    <3>1. k + 1 \in 1..n /\ (k + 1) - 1 = k /\ k + 1 \in 0..n
      BY <2>2
    <3>2. h[1..(k + 1)] = h[1..k] + w[k + 1]
      BY <1>2, <3>1
    <3>3. h[1..k] \in Nat /\ w[k + 1] \in Nat
      BY <2>2, <3>1
    <3>4. QED
      BY <3>1, <3>2, <3>3
  <2> HIDE DEF Good
  <2>3. QED
    BY <2>1, <2>2, UpTo
<1>4. sum \in [0..n -> Nat]
  BY <1>3
<1>5. sum[0] = 0
  BY <1>1
<1>6. \A k \in 1..n : sum[k] = sum[k - 1] + w[k]
  <2>1. ASSUME NEW k \in 1..n PROVE k \in 0..n /\ k - 1 \in 0..n
    OBVIOUS
  <2>2. QED
    BY <1>2, <2>1
<1>7. QED
  BY <1>4, <1>5, <1>6 DEF PartialSums

\* Where the weights agree the sums do.
LEMMA SumsAgree ==
  ASSUME NEW n \in Nat, NEW m \in Nat, NEW v, NEW w, NEW a, NEW b,
         PartialSums(a, n, v), PartialSums(b, m, w),
         NEW l \in Nat, l <= n, l <= m, \A k \in 1..l : v[k] = w[k]
  PROVE  a[l] = b[l]
<1> DEFINE Good == {k \in 0..l : a[k] = b[k]}
<1>1. 0 \in Good
  BY DEF PartialSums
<1>2. ASSUME NEW k \in 0..l, k < l, k \in Good PROVE k + 1 \in Good
  <2>1. k + 1 \in 1..l /\ k + 1 \in 1..n /\ k + 1 \in 1..m /\ (k + 1) - 1 = k /\ k + 1 \in 0..l
    BY <1>2
  <2>2. a[k + 1] = a[k] + v[k + 1] /\ b[k + 1] = b[k] + w[k + 1]
    BY <2>1 DEF PartialSums
  <2>3. a[k] = b[k]
    BY <1>2
  <2>4. QED
    BY <2>1, <2>2, <2>3
<1> HIDE DEF Good
<1>3. \A k \in 0..l : k \in Good
  BY <1>1, <1>2, UpTo
<1>4. l \in 0..l
  OBVIOUS
<1>5. QED
  BY <1>3, <1>4 DEF Good

\* The recursive function of a fold that adds exists.
LEMMA SumFoldExists ==
  ASSUME NEW n \in Nat, NEW w \in [1..n -> Nat]
  PROVE  \E g \in [SUBSET (1..n) -> Nat] :
            \A T \in SUBSET (1..n) : g[T] = IF T = {} THEN 0 ELSE g[T \ {Max(T)}] + w[Max(T)]
<1> DEFINE op == [p \in Nat \X (1..n) |-> p[1] + w[p[2]]]
<1>1. op \in [Nat \X (1..n) -> Nat]
  OBVIOUS
<1>2. \A x \in Nat, i \in 1..n : op[<<x, i>>] = x + w[i]
  OBVIOUS
<1> HIDE DEF op
<1>3. PICK g : g \in [SUBSET (1..n) -> Nat] /\ IsFold(g, n, 0, op)
  BY <1>1, FoldExists
<1>4. ASSUME NEW T \in SUBSET (1..n), T # {} PROVE g[T] = g[T \ {Max(T)}] + w[Max(T)]
  <2>1. Max(T) \in 1..n
    BY <1>4, MaxInterval
  <2>2. g[T \ {Max(T)}] \in Nat
    BY <1>3
  <2>3. QED
    BY <1>2, <1>3, <1>4, <2>1, <2>2 DEF IsFold
<1>5. QED
  BY <1>3, <1>4 DEF IsFold

\* The sum of the lengths of messages.
LEMMA RunesSum ==
  ASSUME NEW messages \in Seq(Message)
  PROVE  \E sum : /\ PartialSums(sum, Len(messages), [i \in 1..Len(messages) |-> messages[i].runes])
                  /\ Runes(messages) = sum[Len(messages)]
<1> DEFINE n == Len(messages)
           w == [i \in 1..n |-> messages[i].runes]
           Body(h) == [T \in SUBSET DOMAIN messages |->
                          IF T = {} THEN 0 ELSE h[T \ {Max(T)}] + messages[Max(T)].runes]
           iter == CHOOSE h : h = Body(h)
<1>1. n \in Nat /\ DOMAIN messages = 1..n /\ w \in [1..n -> Nat]
  <2>1. \A i \in 1..n : messages[i] \in Message
    OBVIOUS
  <2>2. \A m \in Message : m.runes \in Nat
    BY ConversationAssumption DEF Message
  <2>3. QED
    BY <2>1, <2>2
<1>2. Runes(messages) = iter[DOMAIN messages]
  BY DEF Runes, FoldLeft, MapThenFoldSet
<1>3. PICK g \in [SUBSET (1..n) -> Nat] :
          \A T \in SUBSET (1..n) : g[T] = IF T = {} THEN 0 ELSE g[T \ {Max(T)}] + w[Max(T)]
  <2> HIDE DEF n, w
  <2>1. QED
    BY <1>1, SumFoldExists
<1>4. \A T \in SUBSET (1..n) : T # {} => w[Max(T)] = messages[Max(T)].runes
  BY <1>1, MaxInterval
<1>5. g = Body(g)
  BY <1>1, <1>3, <1>4
<1>6. iter = Body(iter)
  BY <1>5
<1> HIDE DEF iter
<1>7. ASSUME NEW T \in SUBSET (1..n)
      PROVE  iter[T] = IF T = {} THEN 0 ELSE iter[T \ {Max(T)}] + w[Max(T)]
  <2>1. iter[T] = IF T = {} THEN 0 ELSE iter[T \ {Max(T)}] + messages[Max(T)].runes
    BY <1>1, <1>6
  <2> HIDE DEF w
  <2>2. QED
    BY <1>4, <2>1
<1> HIDE DEF n, w
<1>8. PartialSums([k \in 0..n |-> iter[1..k]], n, w)
  BY <1>1, <1>7, FoldSums
<1>9. n \in 0..n
  BY <1>1
<1> DEFINE sum == [k \in 0..n |-> iter[1..k]]
<1>10. PartialSums(sum, n, w) /\ Runes(messages) = sum[n]
  BY <1>1, <1>2, <1>8, <1>9
<1> HIDE DEF sum
<1>11. QED
  BY <1>10 DEF n, w

\* The length of a thread: of none, and of one with a message more.
LEMMA RunesFacts ==
  /\ Runes(<<>>) = 0
  /\ \A s \in Seq(Message) : Runes(s) \in Nat
  /\ \A s \in Seq(Message), m \in Message : Runes(Append(s, m)) = Runes(s) + m.runes
<1> DEFINE w(s) == [i \in 1..Len(s) |-> s[i].runes]
<1>1. ASSUME NEW s \in Seq(Message)
      PROVE  \E sum : PartialSums(sum, Len(s), w(s)) /\ Runes(s) = sum[Len(s)]
  BY RunesSum
<1> HIDE DEF w
<1>2. Runes(<<>>) = 0
  <2>1. <<>> \in Seq(Message) /\ Len(<<>>) = 0
    OBVIOUS
  <2>2. QED
    BY <1>1, <2>1 DEF PartialSums
<1>3. ASSUME NEW s \in Seq(Message) PROVE Runes(s) \in Nat
  BY <1>1, <1>3 DEF PartialSums
<1>4. ASSUME NEW s \in Seq(Message), NEW m \in Message PROVE Runes(Append(s, m)) = Runes(s) + m.runes
  <2> DEFINE t == Append(s, m)
             n == Len(s)
  <2>1. /\ t \in Seq(Message) /\ Len(t) = n + 1 /\ n \in Nat
        /\ \A i \in 1..n : w(t)[i] = w(s)[i]
        /\ w(t)[n + 1] = m.runes
    BY DEF w
  <2> HIDE DEF t, n
  <2>2. PICK a : PartialSums(a, n, w(s)) /\ Runes(s) = a[n]
    BY <1>1 DEF n
  <2>3. PICK b : PartialSums(b, n + 1, w(t)) /\ Runes(t) = b[n + 1]
    BY <1>1, <2>1
  <2>4. n + 1 \in Nat /\ n <= n + 1 /\ n + 1 \in 1..(n + 1) /\ (n + 1) - 1 = n
    BY <2>1
  <2>5. a[n] = b[n]
    BY <2>1, <2>2, <2>3, <2>4, SumsAgree
  <2>6. b[n + 1] = b[n] + w(t)[n + 1]
    BY <2>3, <2>4 DEF PartialSums
  <2>7. QED
    BY <2>1, <2>2, <2>3, <2>5, <2>6 DEF t
<1>5. QED
  BY <1>2, <1>3, <1>4

\* The sum of the lengths of artifacts.
LEMMA ActiveSum ==
  ASSUME NEW active \in Seq(Skills)
  PROVE  \E sum : /\ PartialSums(sum, Len(active), [i \in 1..Len(active) |-> SkillRunes[active[i]]])
                  /\ ActiveRunes(active) = sum[Len(active)]
<1> DEFINE n == Len(active)
           w == [i \in 1..n |-> SkillRunes[active[i]]]
           Body(h) == [T \in SUBSET DOMAIN active |->
                          IF T = {} THEN 0 ELSE h[T \ {Max(T)}] + SkillRunes[active[Max(T)]]]
           iter == CHOOSE h : h = Body(h)
<1>1. n \in Nat /\ DOMAIN active = 1..n /\ w \in [1..n -> Nat]
  <2>1. \A i \in 1..n : active[i] \in Skills
    OBVIOUS
  <2>2. \A s \in Skills : SkillRunes[s] \in Nat
    <3>1. \A s \in Skills : SkillRunes[s] \in 1..MaxInstructionRunes
      BY ConversationAssumption
    <3>2. \A x \in 1..MaxInstructionRunes : x \in Nat
      BY DEF MaxInstructionRunes
    <3>3. QED
      BY <3>1, <3>2
  <2>3. QED
    BY <2>1, <2>2
<1>2. ActiveRunes(active) = iter[DOMAIN active]
  BY DEF ActiveRunes, FoldLeft, MapThenFoldSet
<1>3. PICK g \in [SUBSET (1..n) -> Nat] :
          \A T \in SUBSET (1..n) : g[T] = IF T = {} THEN 0 ELSE g[T \ {Max(T)}] + w[Max(T)]
  <2> HIDE DEF n, w
  <2>1. QED
    BY <1>1, SumFoldExists
<1>4. \A T \in SUBSET (1..n) : T # {} => w[Max(T)] = SkillRunes[active[Max(T)]]
  BY <1>1, MaxInterval
<1>5. g = Body(g)
  BY <1>1, <1>3, <1>4
<1>6. iter = Body(iter)
  BY <1>5
<1> HIDE DEF iter
<1>7. ASSUME NEW T \in SUBSET (1..n)
      PROVE  iter[T] = IF T = {} THEN 0 ELSE iter[T \ {Max(T)}] + w[Max(T)]
  <2>1. iter[T] = IF T = {} THEN 0 ELSE iter[T \ {Max(T)}] + SkillRunes[active[Max(T)]]
    BY <1>1, <1>6
  <2> HIDE DEF w
  <2>2. QED
    BY <1>4, <2>1
<1> HIDE DEF n, w
<1>8. PartialSums([k \in 0..n |-> iter[1..k]], n, w)
  BY <1>1, <1>7, FoldSums
<1>9. n \in 0..n
  BY <1>1
<1> DEFINE sum == [k \in 0..n |-> iter[1..k]]
<1>10. PartialSums(sum, n, w) /\ ActiveRunes(active) = sum[n]
  BY <1>1, <1>2, <1>8, <1>9
<1> HIDE DEF sum
<1>11. QED
  BY <1>10 DEF n, w

\* The length of artifacts: of none, and of one more.
LEMMA ActiveFacts ==
  /\ ActiveRunes(<<>>) = 0
  /\ \A a \in Seq(Skills) : ActiveRunes(a) \in Nat
  /\ \A a \in Seq(Skills), s \in Skills : ActiveRunes(Append(a, s)) = ActiveRunes(a) + SkillRunes[s]
<1> DEFINE w(a) == [i \in 1..Len(a) |-> SkillRunes[a[i]]]
<1>1. ASSUME NEW a \in Seq(Skills)
      PROVE  \E sum : PartialSums(sum, Len(a), w(a)) /\ ActiveRunes(a) = sum[Len(a)]
  BY ActiveSum
<1> HIDE DEF w
<1>2. ActiveRunes(<<>>) = 0
  <2>1. <<>> \in Seq(Skills) /\ Len(<<>>) = 0
    OBVIOUS
  <2>2. QED
    BY <1>1, <2>1 DEF PartialSums
<1>3. ASSUME NEW a \in Seq(Skills) PROVE ActiveRunes(a) \in Nat
  BY <1>1, <1>3 DEF PartialSums
<1>4. ASSUME NEW s \in Seq(Skills), NEW m \in Skills
      PROVE  ActiveRunes(Append(s, m)) = ActiveRunes(s) + SkillRunes[m]
  <2> DEFINE t == Append(s, m)
             n == Len(s)
  <2>1. /\ t \in Seq(Skills) /\ Len(t) = n + 1 /\ n \in Nat
        /\ \A i \in 1..n : w(t)[i] = w(s)[i]
        /\ w(t)[n + 1] = SkillRunes[m]
    BY DEF w
  <2> HIDE DEF t, n
  <2>2. PICK a : PartialSums(a, n, w(s)) /\ ActiveRunes(s) = a[n]
    BY <1>1 DEF n
  <2>3. PICK b : PartialSums(b, n + 1, w(t)) /\ ActiveRunes(t) = b[n + 1]
    BY <1>1, <2>1
  <2>4. n + 1 \in Nat /\ n <= n + 1 /\ n + 1 \in 1..(n + 1) /\ (n + 1) - 1 = n
    BY <2>1
  <2>5. a[n] = b[n]
    BY <2>1, <2>2, <2>3, <2>4, SumsAgree
  <2>6. b[n + 1] = b[n] + w(t)[n + 1]
    BY <2>3, <2>4 DEF PartialSums
  <2>7. QED
    BY <2>1, <2>2, <2>3, <2>5, <2>6 DEF t
<1>5. QED
  BY <1>2, <1>3, <1>4

-----------------------------------------------------------------------------
(* The cut of a thread. *)

\* The last n elements are a sequence of n elements.
LEMMA NewestFacts ==
  ASSUME NEW S, NEW s \in Seq(S), NEW n \in 0..Len(s)
  PROVE  /\ Newest(n, s) \in Seq(S) /\ Len(Newest(n, s)) = n
         /\ \A i \in 1..n : Newest(n, s)[i] = s[Len(s) - n + i]
<1> DEFINE k == Len(s) - n + 1
<1>1. k \in Int /\ Len(s) \in Int /\ Len(s) \in Nat /\ n \in Nat /\ k <= Len(s) + 1
  OBVIOUS
<1>2. \A i \in k..Len(s) : s[i] \in S
  OBVIOUS
<1>3. /\ SubSeq(s, k, Len(s)) \in Seq(S)
      /\ Len(SubSeq(s, k, Len(s))) = IF k <= Len(s) THEN Len(s) - k + 1 ELSE 0
      /\ \A i \in 1..(Len(s) - k + 1) : SubSeq(s, k, Len(s))[i] = s[k + i - 1]
  BY <1>1, <1>2, SubSeqProperties
<1>4. Len(s) - k + 1 = n /\ \A i \in 1..n : k + i - 1 = Len(s) - n + i
  OBVIOUS
<1>5. QED
  BY <1>1, <1>3, <1>4 DEF Newest

\* The newest of the newest are the newest.
LEMMA NewestOfNewest ==
  ASSUME NEW S, NEW s \in Seq(S), NEW m \in 0..Len(s), NEW n \in 0..m
  PROVE  Newest(n, Newest(m, s)) = Newest(n, s)
<1> DEFINE r == Newest(m, s)
<1>1. /\ r \in Seq(S) /\ Len(r) = m /\ n \in 0..Len(s)
      /\ \A i \in 1..m : r[i] = s[Len(s) - m + i]
  BY NewestFacts
<1> HIDE DEF r
<1>2. /\ Newest(n, r) \in Seq(S) /\ Len(Newest(n, r)) = n
      /\ \A i \in 1..n : Newest(n, r)[i] = r[m - n + i]
  BY <1>1, NewestFacts
<1>3. /\ Newest(n, s) \in Seq(S) /\ Len(Newest(n, s)) = n
      /\ \A i \in 1..n : Newest(n, s)[i] = s[Len(s) - n + i]
  BY <1>1, NewestFacts
<1>4. ASSUME NEW i \in 1..n PROVE Newest(n, r)[i] = Newest(n, s)[i]
  <2>1. m - n + i \in 1..m /\ Len(s) - m + (m - n + i) = Len(s) - n + i
    OBVIOUS
  <2>2. QED
    BY <1>1, <1>2, <1>3, <2>1
<1>5. Newest(n, r) = Newest(n, s)
  BY <1>2, <1>3, <1>4, SeqEqual
<1>6. QED
  BY <1>5 DEF r

\* All of a sequence is the newest of it.
LEMMA NewestAll ==
  ASSUME NEW S, NEW s \in Seq(S) PROVE Newest(Len(s), s) = s /\ Newest(0, s) = <<>>
<1>1. Len(s) \in 0..Len(s) /\ 0 \in 0..Len(s)
  OBVIOUS
<1>2. /\ Newest(Len(s), s) \in Seq(S) /\ Len(Newest(Len(s), s)) = Len(s)
      /\ \A i \in 1..Len(s) : Newest(Len(s), s)[i] = s[Len(s) - Len(s) + i]
  BY <1>1, NewestFacts
<1>3. Newest(0, s) \in Seq(S) /\ Len(Newest(0, s)) = 0
  BY <1>1, NewestFacts
<1>4. \A i \in 1..Len(s) : Newest(Len(s), s)[i] = s[i]
  BY <1>2
<1>5. QED
  BY <1>2, <1>3, <1>4, SeqEqual

\* The newest n + 1 elements contain the newest n, whatever is put behind.
LEMMA NewestBehind ==
  ASSUME NEW S, NEW s \in Seq(S), NEW x \in S, NEW n \in 0..Len(s)
  PROVE  Newest(n + 1, Append(s, x)) = Append(Newest(n, s), x)
<1> DEFINE t == Append(s, x)
<1>1. /\ t \in Seq(S) /\ Len(t) = Len(s) + 1 /\ n + 1 \in 0..Len(t)
      /\ \A i \in 1..Len(s) : t[i] = s[i]
      /\ t[Len(s) + 1] = x
  OBVIOUS
<1> HIDE DEF t
<1>2. /\ Newest(n + 1, t) \in Seq(S) /\ Len(Newest(n + 1, t)) = n + 1
      /\ \A i \in 1..(n + 1) : Newest(n + 1, t)[i] = t[Len(t) - (n + 1) + i]
  BY <1>1, NewestFacts
<1> DEFINE r == Newest(n, s)
<1>3. /\ r \in Seq(S) /\ Len(r) = n
      /\ \A i \in 1..n : r[i] = s[Len(s) - n + i]
  BY NewestFacts
<1> HIDE DEF r
<1> DEFINE q == Append(r, x)
           u == Newest(n + 1, t)
<1>4. /\ q \in Seq(S) /\ Len(q) = n + 1
      /\ \A i \in 1..n : q[i] = r[i]
      /\ q[n + 1] = x
  BY <1>3
<1> HIDE DEF q, u
<1>5. ASSUME NEW i \in 1..(n + 1) PROVE u[i] = q[i]
  <2>1. Len(t) - (n + 1) + i = Len(s) - n + i
    BY <1>1
  <2>2. u[i] = t[Len(s) - n + i]
    BY <1>2, <2>1 DEF u
  <2>3. CASE i = n + 1
    <3>1. Len(s) - n + i = Len(s) + 1
      BY <2>3
    <3>2. QED
      BY <1>1, <1>4, <2>2, <2>3, <3>1
  <2>4. CASE i # n + 1
    <3>1. i \in 1..n /\ Len(s) - n + i \in 1..Len(s)
      BY <2>4
    <3>2. t[Len(s) - n + i] = s[Len(s) - n + i]
      BY <1>1, <3>1
    <3>3. q[i] = r[i] /\ r[i] = s[Len(s) - n + i]
      BY <1>3, <1>4, <3>1
    <3>4. QED
      BY <2>2, <3>2, <3>3
  <2>5. QED
    BY <2>3, <2>4
<1>6. u = q
  <2>1. u \in Seq(S) /\ Len(u) = n + 1
    BY <1>2 DEF u
  <2>2. QED
    BY <1>4, <1>5, <2>1, SeqEqual
<1>7. QED
  BY <1>6 DEF q, r, t, u

\* Bounded keeps an end of the messages that respects both bounds, and a message more
\* would break one.
LEMMA BoundedFacts ==
  ASSUME NEW messages \in Seq(Message)
  PROVE  \E n \in 0..Len(messages) :
            /\ Bounded(messages) = Newest(n, messages)
            /\ n <= MaxMessages /\ Runes(Newest(n, messages)) <= maxConversationRunes
            /\ n < Len(messages) => \/ n = MaxMessages
                                    \/ Runes(Newest(n + 1, messages)) > maxConversationRunes
<1> DEFINE size == IF Len(messages) > MaxMessages THEN MaxMessages ELSE Len(messages)
           newest == IF Len(messages) > MaxMessages THEN Newest(MaxMessages, messages) ELSE messages
           fits == {n \in 0..Len(newest) : Runes(Newest(n, newest)) <= maxConversationRunes}
           n == Max(fits)
<1>0. MaxMessages \in Nat /\ Len(messages) \in Nat /\ maxConversationRunes = 24000
  BY ConversationAssumption DEF maxConversationRunes
<1>1. /\ size \in 0..Len(messages) /\ size <= MaxMessages
      /\ size < Len(messages) => size = MaxMessages
      /\ newest = Newest(size, messages) /\ newest \in Seq(Message) /\ Len(newest) = size
  <2>1. size \in 0..Len(messages) /\ size <= MaxMessages /\ (size < Len(messages) => size = MaxMessages)
    BY <1>0
  <2>2. newest = Newest(size, messages)
    BY NewestAll
  <2>3. QED
    BY <2>1, <2>2, NewestFacts
<1>2. ASSUME NEW k \in 0..size
      PROVE  Newest(k, newest) = Newest(k, messages) /\ Newest(k, messages) \in Seq(Message)
  <2> HIDE DEF size, newest
  <2>1. k \in 0..Len(messages)
    BY <1>1
  <2>2. QED
    BY <1>1, <2>1, NewestOfNewest, NewestFacts
<1>3. Bounded(messages) = Newest(n, newest)
  BY DEF Bounded
<1> HIDE DEF newest, size
<1>4. n \in fits /\ \A k \in fits : k <= n
  <2>1. fits \in SUBSET Nat /\ size \in Nat /\ \A k \in fits : k <= size
    BY <1>0, <1>1
  <2>2. 0 \in 0..Len(newest)
    BY <1>1, <2>1
  <2>3. Newest(0, newest) = <<>>
    BY <1>1, NewestAll
  <2>4. 0 \in fits
    BY <1>0, <2>2, <2>3, RunesFacts
  <2> HIDE DEF fits
  <2>5. QED
    BY <2>1, <2>4, MaxFacts
<1> HIDE DEF n
<1>5. n \in 0..size /\ Runes(Newest(n, newest)) <= maxConversationRunes
  BY <1>1, <1>4
<1>6. ASSUME n < size PROVE Runes(Newest(n + 1, messages)) > maxConversationRunes
  <2>1. n + 1 \in 0..size /\ n + 1 \notin fits
    BY <1>0, <1>1, <1>4, <1>5, <1>6
  <2>2. Newest(n + 1, newest) = Newest(n + 1, messages) /\ Runes(Newest(n + 1, messages)) \in Nat
    BY <1>2, <2>1, RunesFacts
  <2>3. QED
    BY <1>0, <1>1, <2>1, <2>2
<1>7. /\ n \in 0..Len(messages) /\ n <= MaxMessages /\ Bounded(messages) = Newest(n, messages)
      /\ Runes(Newest(n, messages)) <= maxConversationRunes
  BY <1>0, <1>1, <1>2, <1>3, <1>5
<1>8. n < Len(messages) => n = MaxMessages \/ Runes(Newest(n + 1, messages)) > maxConversationRunes
  BY <1>0, <1>1, <1>5, <1>6
<1>9. QED
  BY <1>7, <1>8

\* t is what the two bounds leave of the whole dialogue h.
Recent(t, h) ==
    \E n \in 0..Len(h) :
        /\ t = Newest(n, h)
        /\ n <= MaxMessages /\ Runes(t) <= maxConversationRunes
        /\ n < Len(h) => n = MaxMessages \/ Runes(Newest(n + 1, h)) > maxConversationRunes

\* An exchange is two messages, put behind one after the other.
LEMMA ExchangeFacts ==
  ASSUME NEW s \in Seq(Message), NEW u \in Lengths, NEW v \in Lengths
  PROVE  \E p, q \in Message : Exchange(u, v) = <<p, q>> /\ s \o Exchange(u, v) = Append(Append(s, p), q)
<1> DEFINE p == [role |-> "user", runes |-> u]
           q == [role |-> "assistant", runes |-> v]
<1>1. p \in Message /\ q \in Message /\ Exchange(u, v) = <<p, q>>
  BY DEF Message, Exchange
<1> HIDE DEF p, q
<1>2. s \o <<p, q>> = Append(Append(s, p), q)
  BY <1>1
<1>3. QED
  BY <1>1, <1>2

\* Cutting what was cut already, with an exchange behind it, is cutting the whole.
LEMMA RecentExchange ==
  ASSUME NEW t \in Seq(Message), NEW h \in Seq(Message), Recent(t, h),
         NEW u \in Lengths, NEW v \in Lengths
  PROVE  Recent(Bounded(t \o Exchange(u, v)), h \o Exchange(u, v))
<1>0. MaxMessages \in Nat /\ maxConversationRunes \in Nat /\ \A m \in Message : m.runes \in Nat
  <2>1. Lengths \subseteq Nat /\ MaxMessages \in Nat
    BY ConversationAssumption
  <2>2. \A m \in Message : m.runes \in Lengths
    BY DEF Message
  <2>3. maxConversationRunes \in Nat
    BY DEF maxConversationRunes
  <2>4. QED
    BY <2>1, <2>2, <2>3
<1>1. PICK n \in 0..Len(h) :
        /\ t = Newest(n, h)
        /\ n <= MaxMessages /\ Runes(t) <= maxConversationRunes
        /\ n < Len(h) => n = MaxMessages \/ Runes(Newest(n + 1, h)) > maxConversationRunes
  BY DEF Recent
<1>2. PICK p, q \in Message : h \o Exchange(u, v) = Append(Append(h, p), q) /\ Exchange(u, v) = <<p, q>>
  BY ExchangeFacts
<1>3. t \o Exchange(u, v) = Append(Append(t, p), q)
  BY <1>2
<1> DEFINE hh == Append(Append(h, p), q)
           tt == Append(Append(t, p), q)
<1>4. /\ Append(h, p) \in Seq(Message) /\ Len(Append(h, p)) = Len(h) + 1
      /\ hh \in Seq(Message) /\ Len(hh) = Len(h) + 2 /\ tt \in Seq(Message) /\ Len(h) \in Nat
  OBVIOUS
<1>5. ASSUME NEW k \in 0..Len(h)
      PROVE  Newest(k + 2, hh) = Append(Append(Newest(k, h), p), q) /\ k + 2 \in 0..Len(hh)
  <2>1. Newest(k + 1, Append(h, p)) = Append(Newest(k, h), p)
    BY NewestBehind
  <2>2. k + 1 \in 0..Len(Append(h, p)) /\ (k + 1) + 1 = k + 2
    BY <1>4
  <2>3. Newest((k + 1) + 1, hh) = Append(Newest(k + 1, Append(h, p)), q)
    BY <1>4, <2>2, NewestBehind
  <2>4. QED
    BY <1>4, <2>1, <2>2, <2>3
<1>6. tt = Newest(n + 2, hh) /\ n + 2 \in 0..Len(hh) /\ Len(tt) = n + 2
  <2>1. tt = Newest(n + 2, hh) /\ n + 2 \in 0..Len(hh)
    BY <1>1, <1>5
  <2> HIDE DEF tt, hh
  <2>2. QED
    BY <1>4, <2>1, NewestFacts
<1> HIDE DEF tt, hh
<1>7. PICK k \in 0..Len(tt) :
            /\ Bounded(tt) = Newest(k, tt)
            /\ k <= MaxMessages /\ Runes(Newest(k, tt)) <= maxConversationRunes
            /\ k < Len(tt) => k = MaxMessages \/ Runes(Newest(k + 1, tt)) > maxConversationRunes
  BY <1>4, BoundedFacts
<1>8. k \in 0..(n + 2) /\ k \in 0..Len(hh) /\ k \in Nat /\ n \in Nat
  BY <1>4, <1>6, <1>7
<1>9. \A l \in 0..(n + 2) : Newest(l, tt) = Newest(l, hh)
  BY <1>4, <1>6, NewestOfNewest
<1>10. ASSUME k < Len(hh) PROVE k = MaxMessages \/ Runes(Newest(k + 1, hh)) > maxConversationRunes
  <2>1. CASE k < n + 2
    <3>1. k + 1 \in 0..(n + 2)
      BY <1>8, <2>1
    <3>2. QED
      BY <1>6, <1>7, <1>9, <2>1, <3>1
  <2>2. CASE k = n + 2
    <3>1. n < Len(h) /\ n # MaxMessages
      BY <1>0, <1>4, <1>7, <1>8, <1>10, <2>2
    <3>2. Runes(Newest(n + 1, h)) > maxConversationRunes /\ n + 1 \in 0..Len(h)
      BY <1>1, <1>4, <3>1
    <3> DEFINE r == Newest(n + 1, h)
    <3>3. r \in Seq(Message)
      BY <3>2, NewestFacts
    <3>4. Newest((n + 1) + 2, hh) = Append(Append(r, p), q)
      BY <1>5, <3>2
    <3> HIDE DEF r
    <3>5. Append(r, p) \in Seq(Message)
      BY <3>3
    <3>6. /\ Runes(Append(r, p)) = Runes(r) + p.runes
          /\ Runes(Append(Append(r, p), q)) = Runes(Append(r, p)) + q.runes
          /\ Runes(r) \in Nat
      BY <3>3, <3>5, RunesFacts
    <3>7. Runes(Append(Append(r, p), q)) >= Runes(r)
      BY <1>0, <3>6
    <3>8. (n + 1) + 2 = k + 1 /\ Runes(Append(Append(r, p), q)) \in Nat
      BY <1>0, <1>8, <2>2, <3>6
    <3>9. Newest(k + 1, hh) = Append(Append(r, p), q)
      BY <3>4, <3>8
    <3>10. Runes(r) > maxConversationRunes
      BY <1>0, <3>2 DEF r
    <3>11. ASSUME NEW x \in Nat, NEW y \in Nat, x >= y, NEW z \in Nat, y > z PROVE x > z
      BY <3>11
    <3>12. Runes(Append(Append(r, p), q)) > maxConversationRunes
      BY <1>0, <3>6, <3>7, <3>8, <3>10, <3>11
    <3>13. QED
      BY <1>0, <3>9, <3>12
  <2>3. QED
    BY <1>8, <2>1, <2>2
<1>11. Bounded(tt) = Newest(k, hh) /\ Runes(Bounded(tt)) <= maxConversationRunes
  BY <1>7, <1>8, <1>9
<1>12. Recent(Bounded(tt), hh)
  BY <1>7, <1>8, <1>10, <1>11 DEF Recent
<1>13. QED
  BY <1>2, <1>3, <1>12 DEF hh, tt

\* An end of a sequence is a suffix in the sense of SequencesExt.
LEMMA NewestIsSuffix ==
  ASSUME NEW S, NEW s \in Seq(S), NEW n \in 0..Len(s)
  PROVE  IsSuffix(Newest(n, s), s)
<1> DEFINE r == Newest(n, s)
           a == Reverse(r)
           b == Reverse(s)
<1>1. r \in Seq(S) /\ Len(r) = n /\ \A i \in 1..n : r[i] = s[Len(s) - n + i]
  BY NewestFacts
<1> HIDE DEF r
<1>2. n \in Nat /\ Len(s) \in Nat /\ n <= Len(s)
  OBVIOUS
<1>3. a \in Seq(S) /\ Len(a) = n /\ \A i \in 1..n : a[i] = r[n - i + 1]
  BY <1>1, <1>2 DEF Reverse
<1>4. b \in Seq(S) /\ Len(b) = Len(s) /\ \A i \in 1..Len(s) : b[i] = s[Len(s) - i + 1]
  BY <1>2 DEF Reverse
<1> HIDE DEF a, b
<1>5. ASSUME NEW i \in 1..n PROVE a[i] = b[i]
  <2>1. n - i + 1 \in 1..n /\ Len(s) - n + (n - i + 1) = Len(s) - i + 1 /\ i \in 1..Len(s)
    BY <1>2
  <2>2. a[i] = r[n - i + 1] /\ b[i] = s[Len(s) - i + 1]
    BY <1>3, <1>4, <2>1
  <2>3. QED
    BY <1>1, <2>1, <2>2
<1>6. SubSeq(a, 1, n) = SubSeq(b, 1, n)
  <2>1. 1 \in Int /\ n \in Int /\ (\A i \in 1..n : a[i] \in S) /\ (\A i \in 1..n : b[i] \in S)
    BY <1>2, <1>3, <1>4, <1>5
  <2>2. /\ SubSeq(a, 1, n) \in Seq(S) /\ Len(SubSeq(a, 1, n)) = IF 1 <= n THEN n - 1 + 1 ELSE 0
        /\ \A i \in 1..(n - 1 + 1) : SubSeq(a, 1, n)[i] = a[1 + i - 1]
    BY <2>1, SubSeqProperties
  <2>3. /\ SubSeq(b, 1, n) \in Seq(S) /\ Len(SubSeq(b, 1, n)) = IF 1 <= n THEN n - 1 + 1 ELSE 0
        /\ \A i \in 1..(n - 1 + 1) : SubSeq(b, 1, n)[i] = b[1 + i - 1]
    BY <2>1, SubSeqProperties
  <2>4. n - 1 + 1 = n /\ Len(SubSeq(a, 1, n)) = n /\ Len(SubSeq(b, 1, n)) = n /\ \A i \in 1..n : 1 + i - 1 = i
    BY <1>2, <2>2, <2>3
  <2>5. \A i \in 1..n : SubSeq(a, 1, n)[i] = SubSeq(b, 1, n)[i]
    BY <1>5, <2>2, <2>3, <2>4
  <2>6. QED
    BY <2>2, <2>3, <2>4, <2>5, SeqEqual
<1>7. QED
  BY <1>2, <1>3, <1>4, <1>6 DEF IsSuffix, IsPrefix, a, b, r

-----------------------------------------------------------------------------
(* The artifacts a turn begins with. *)

\* What ApplyContextArtifacts makes one after the other: no artifact twice, within
\* both bounds.
Fits(active) ==
    /\ active \in Seq(Skills)
    /\ \A i, j \in 1..Len(active) : active[i] = active[j] => i = j
    /\ Len(active) <= MaxArtifacts
    /\ ActiveRunes(active) <= maxContextTotalRunes

\* One more artifact that is not refused fits as well.
LEMMA ApplyFits ==
  ASSUME NEW active, Fits(active), NEW s \in Skills, Applies(active, s)
  PROVE  Fits(Apply(active, s)) /\ ToSet(Apply(active, s)) = ToSet(active) \cup {s}
<1>0. active \in Seq(Skills) /\ MaxArtifacts \in Nat /\ DOMAIN active = 1..Len(active) /\ Len(active) \in Nat
  BY ConversationAssumption DEF Fits
<1>1. CASE s \in ToSet(active)
  BY <1>1 DEF Apply
<1>2. CASE s \notin ToSet(active)
  <2> DEFINE a == Append(active, s)
  <2>1. /\ a \in Seq(Skills) /\ Len(a) = Len(active) + 1 /\ DOMAIN a = 1..Len(a)
        /\ \A i \in 1..Len(active) : a[i] = active[i]
        /\ a[Len(active) + 1] = s
    BY <1>0
  <2>2. ActiveRunes(a) = ActiveRunes(active) + SkillRunes[s]
    BY <1>0, ActiveFacts
  <2> HIDE DEF a
  <2>3. \A i \in 1..Len(active) : active[i] # s
    BY <1>0, <1>2 DEF ToSet
  <2>4. \A i, j \in 1..Len(a) : a[i] = a[j] => i = j
    BY <1>0, <2>1, <2>3 DEF Fits
  <2>5. Len(a) <= MaxArtifacts /\ ActiveRunes(a) <= maxContextTotalRunes
    BY <1>0, <1>2, <2>1, <2>2 DEF Applies
  <2>6. ToSet(a) = ToSet(active) \cup {s}
    <3>1. \A i \in DOMAIN a : a[i] \in ToSet(active) \cup {s}
      BY <1>0, <2>1 DEF ToSet
    <3>2. \A i \in DOMAIN active : i \in DOMAIN a /\ a[i] = active[i]
      BY <1>0, <2>1
    <3>3. Len(active) + 1 \in DOMAIN a
      BY <1>0, <2>1
    <3>4. QED
      BY <2>1, <3>1, <3>2, <3>3 DEF ToSet
  <2>7. Apply(active, s) = a
    BY <1>2 DEF Apply, a
  <2>8. QED
    BY <2>1, <2>4, <2>5, <2>6, <2>7 DEF Fits
<1>3. QED
  BY <1>1, <1>2

\* The first k elements of a sequence, one after the other.
LEMMA Firsts ==
  ASSUME NEW S, NEW s \in Seq(S)
  PROVE  /\ SubSeq(s, 1, 0) = <<>> /\ SubSeq(s, 1, Len(s)) = s
         /\ \A k \in 0..Len(s) : /\ SubSeq(s, 1, k) \in Seq(S) /\ Len(SubSeq(s, 1, k)) = k
                                 /\ \A i \in 1..k : SubSeq(s, 1, k)[i] = s[i]
         /\ \A k \in 0..Len(s) : k < Len(s) => SubSeq(s, 1, k + 1) = Append(SubSeq(s, 1, k), s[k + 1])
<1>1. ASSUME NEW k \in 0..Len(s)
      PROVE  /\ SubSeq(s, 1, k) \in Seq(S) /\ Len(SubSeq(s, 1, k)) = k
             /\ \A i \in 1..k : SubSeq(s, 1, k)[i] = s[i]
  <2>1. 1 \in Int /\ k \in Int /\ \A i \in 1..k : s[i] \in S
    OBVIOUS
  <2>2. /\ SubSeq(s, 1, k) \in Seq(S) /\ Len(SubSeq(s, 1, k)) = IF 1 <= k THEN k - 1 + 1 ELSE 0
        /\ \A i \in 1..(k - 1 + 1) : SubSeq(s, 1, k)[i] = s[1 + i - 1]
    BY <2>1, SubSeqProperties
  <2>3. k - 1 + 1 = k /\ \A i \in 1..k : 1 + i - 1 = i
    OBVIOUS
  <2>4. QED
    BY <2>2, <2>3
<1>2. SubSeq(s, 1, 0) = <<>>
  BY <1>1
<1>3. SubSeq(s, 1, Len(s)) = s
  BY SubSeqFull
<1>4. ASSUME NEW k \in 0..Len(s), k < Len(s)
      PROVE  SubSeq(s, 1, k + 1) = Append(SubSeq(s, 1, k), s[k + 1])
  <2> DEFINE a == SubSeq(s, 1, k + 1)
             b == SubSeq(s, 1, k)
             c == Append(b, s[k + 1])
  <2>1. k + 1 \in 0..Len(s) /\ k + 1 \in 1..Len(s) /\ s[k + 1] \in S
    BY <1>4
  <2>2. a \in Seq(S) /\ Len(a) = k + 1 /\ \A i \in 1..(k + 1) : a[i] = s[i]
    BY <1>1, <2>1
  <2>3. b \in Seq(S) /\ Len(b) = k /\ \A i \in 1..k : b[i] = s[i]
    BY <1>1
  <2> HIDE DEF a, b
  <2>4. c \in Seq(S) /\ Len(c) = k + 1 /\ (\A i \in 1..k : c[i] = b[i]) /\ c[k + 1] = s[k + 1]
    BY <2>1, <2>3
  <2> HIDE DEF c
  <2>5. \A i \in 1..(k + 1) : a[i] = c[i]
    <3>1. ASSUME NEW i \in 1..(k + 1) PROVE i \in 1..k \/ i = k + 1
      OBVIOUS
    <3>2. QED
      BY <2>2, <2>3, <2>4, <3>1
  <2>6. a = c
    BY <2>2, <2>4, <2>5, SeqEqual
  <2>7. QED
    BY <2>6 DEF a, b, c
<1>5. QED
  BY <1>1, <1>2, <1>3, <1>4

\* The first artifacts of those that fit are within the bounds, and each is new to
\* those before it.
LEMMA FirstsApply ==
  ASSUME NEW a, Fits(a), NEW k \in 0..Len(a), k < Len(a)
  PROVE  Applies(SubSeq(a, 1, k), a[k + 1]) /\ Apply(SubSeq(a, 1, k), a[k + 1]) = SubSeq(a, 1, k + 1)
<1> DEFINE n == Len(a)
           Good == {j \in 0..n : ActiveRunes(SubSeq(a, 1, n - j)) <= maxContextTotalRunes}
<1>0. a \in Seq(Skills) /\ n \in Nat /\ MaxArtifacts \in Nat /\ maxContextTotalRunes \in Nat
  BY ConversationAssumption DEF Fits, maxContextTotalRunes
<1>1. \A s \in Skills : SkillRunes[s] \in Nat
  <2>1. \A s \in Skills : SkillRunes[s] \in 1..MaxInstructionRunes
    BY ConversationAssumption
  <2>2. \A x \in 1..MaxInstructionRunes : x \in Nat
    BY DEF MaxInstructionRunes
  <2>3. QED
    BY <2>1, <2>2
<1>2. ASSUME NEW l \in 0..n, l < n
      PROVE  ActiveRunes(SubSeq(a, 1, l + 1)) = ActiveRunes(SubSeq(a, 1, l)) + SkillRunes[a[l + 1]]
  <2>1. SubSeq(a, 1, l) \in Seq(Skills) /\ SubSeq(a, 1, l + 1) = Append(SubSeq(a, 1, l), a[l + 1])
    BY <1>0, <1>2, Firsts
  <2>2. a[l + 1] \in Skills
    BY <1>0, <1>2
  <2>3. QED
    BY <2>1, <2>2, ActiveFacts
<1>3. \A j \in 0..n : j \in Good
  <2>1. 0 \in Good
    <3>1. n - 0 = n /\ SubSeq(a, 1, n) = a
      BY <1>0, Firsts
    <3>2. ActiveRunes(SubSeq(a, 1, n - 0)) <= maxContextTotalRunes
      <4> HIDE DEF n
      <4>1. QED
        BY <3>1 DEF Fits
    <3>3. 0 \in 0..n
      BY <1>0
    <3> HIDE DEF n
    <3>4. QED
      BY <3>2, <3>3
  <2>2. ASSUME NEW j \in 0..n, j < n, j \in Good PROVE j + 1 \in Good
    <3> DEFINE l == n - (j + 1)
    <3>1. l \in 0..n /\ l < n /\ l + 1 = n - j /\ j + 1 \in 0..n
      BY <1>0, <2>2
    <3> HIDE DEF l
    <3>2. ActiveRunes(SubSeq(a, 1, n - j)) = ActiveRunes(SubSeq(a, 1, l)) + SkillRunes[a[l + 1]]
      BY <1>2, <3>1
    <3>3. ActiveRunes(SubSeq(a, 1, l)) \in Nat /\ SkillRunes[a[l + 1]] \in Nat
      <4>1. SubSeq(a, 1, l) \in Seq(Skills)
        BY <1>0, <3>1, Firsts
      <4>2. a[l + 1] \in Skills
        BY <1>0, <3>1
      <4>3. QED
        BY <1>1, <4>1, <4>2, ActiveFacts
    <3>4. ActiveRunes(SubSeq(a, 1, l)) <= maxContextTotalRunes
      BY <1>0, <2>2, <3>2, <3>3
    <3>5. QED
      BY <3>1, <3>4 DEF l
  <2> HIDE DEF Good, n
  <2>3. QED
    BY <1>0, <2>1, <2>2, UpTo
<1>4. ActiveRunes(SubSeq(a, 1, k + 1)) <= maxContextTotalRunes
  <2>1. n - (k + 1) \in 0..n /\ n - (n - (k + 1)) = k + 1
    BY <1>0
  <2>2. QED
    BY <1>3, <2>1
<1>5. ActiveRunes(SubSeq(a, 1, k)) + SkillRunes[a[k + 1]] <= maxContextTotalRunes
  BY <1>2, <1>4
<1> DEFINE b == SubSeq(a, 1, k)
<1>6. b \in Seq(Skills) /\ Len(b) = k /\ (\A i \in 1..k : b[i] = a[i]) /\ SubSeq(a, 1, k + 1) = Append(b, a[k + 1])
  BY <1>0, Firsts
<1> HIDE DEF b
<1>7. Len(b) < MaxArtifacts
  BY <1>0, <1>6 DEF Fits
<1>8. a[k + 1] \notin ToSet(b)
  <2>1. DOMAIN b = 1..k
    BY <1>6
  <2>2. \A i \in 1..k : i \in 1..n /\ k + 1 \in 1..n /\ i # k + 1
    BY <1>0
  <2>3. \A i \in 1..k : a[i] # a[k + 1]
    BY <2>2 DEF Fits
  <2>4. QED
    BY <1>6, <2>1, <2>3 DEF ToSet
<1>9. Applies(b, a[k + 1]) /\ Apply(b, a[k + 1]) = SubSeq(a, 1, k + 1)
  BY <1>5, <1>6, <1>7, <1>8 DEF Applies, Apply, b
<1>10. QED
  BY <1>9 DEF b

\* Artifacts that fit are all applied, in their order: NewTurn refuses none of what
\* RememberContextArtifacts was given.
LEMMA ApplyAllKeeps == ASSUME NEW a, Fits(a) PROVE ApplyAll(a) = a
<1> DEFINE n == Len(a)
           V == [ok : BOOLEAN, active : Seq(Skills)]
           base == [ok |-> TRUE, active |-> <<>>]
           Round(r, s) == IF r.ok /\ Applies(r.active, s)
                          THEN [ok |-> TRUE, active |-> Apply(r.active, s)]
                          ELSE [r EXCEPT !.ok = FALSE]
           op == [p \in V \X (1..n) |-> Round(p[1], a[p[2]])]
           Body(h) == [T \in SUBSET DOMAIN a |->
                          IF T = {} THEN base ELSE Round(h[T \ {Max(T)}], a[Max(T)])]
           iter == CHOOSE h : h = Body(h)
           Good == {k \in 0..n : iter[1..k] = [ok |-> TRUE, active |-> SubSeq(a, 1, k)]}
<1>0. a \in Seq(Skills) /\ n \in Nat /\ DOMAIN a = 1..n /\ \A i \in 1..n : a[i] \in Skills
  BY DEF Fits
<1>1. ApplyAll(a) = iter[DOMAIN a].active
  BY DEF ApplyAll, FoldLeft, MapThenFoldSet
<1>2. \A r \in V, s \in Skills : Round(r, s) \in V
  <2>1. ASSUME NEW r \in V, NEW s \in Skills PROVE Round(r, s) \in V
    <3>1. r.active \in Seq(Skills) /\ r.ok \in BOOLEAN
      OBVIOUS
    <3>2. Apply(r.active, s) \in Seq(Skills)
      BY <3>1 DEF Apply
    <3>3. QED
      BY <3>1, <3>2
  <2>2. QED
    BY <2>1
<1>3. base \in V
  OBVIOUS
<1> HIDE DEF Round, base
<1>4. op \in [V \X (1..n) -> V]
  BY <1>0, <1>2
<1>5. \A r \in V, i \in 1..n : op[<<r, i>>] = Round(r, a[i])
  OBVIOUS
<1> HIDE DEF op, V
<1>6. PICK g : g \in [SUBSET (1..n) -> V] /\ IsFold(g, n, base, op)
  <2> HIDE DEF n
  <2>1. QED
    BY <1>0, <1>3, <1>4, FoldExists
<1>7. g = Body(g)
  <2>1. ASSUME NEW T \in SUBSET (1..n), T # {} PROVE g[T] = Round(g[T \ {Max(T)}], a[Max(T)])
    <3>1. Max(T) \in 1..n
      BY <1>0, <2>1, MaxInterval
    <3>2. g[T \ {Max(T)}] \in V
      BY <1>6
    <3>3. QED
      BY <1>5, <1>6, <2>1, <3>1, <3>2 DEF IsFold
  <2>2. \A T \in SUBSET (1..n) : T = {} => g[T] = base
    BY <1>6 DEF IsFold
  <2>3. QED
    BY <1>0, <1>6, <2>1, <2>2
<1>8. iter = Body(iter)
  BY <1>7
<1> HIDE DEF iter
<1>9. \A k \in 0..n : k \in Good
  <2>1. 0 \in Good
    <3>1. 1..0 = {} /\ SubSeq(a, 1, 0) = <<>>
      BY <1>0, Firsts
    <3>2. iter[{}] = base
      BY <1>8
    <3>3. iter[1..0] = [ok |-> TRUE, active |-> SubSeq(a, 1, 0)]
      BY <3>1, <3>2 DEF base
    <3>4. 0 \in 0..n
      BY <1>0
    <3> HIDE DEF n
    <3>5. QED
      BY <3>3, <3>4
  <2>2. ASSUME NEW k \in 0..n, k < n, k \in Good PROVE k + 1 \in Good
    <3>1. k + 1 \in Nat /\ k + 1 > 0 /\ k + 1 \in 1..n /\ (k + 1) - 1 = k /\ k + 1 \in 0..n
      BY <1>0, <2>2
    <3>2. Max(1..(k + 1)) = k + 1 /\ (1..(k + 1)) \ {k + 1} = 1..k
      BY <3>1, MaxInterval
    <3>3. 1..(k + 1) \in SUBSET DOMAIN a /\ 1..(k + 1) # {}
      <4> HIDE DEF n
      <4>1. \A i \in 1..(k + 1) : i \in 1..n
        BY <1>0, <3>1
      <4>2. 1 \in 1..(k + 1)
        BY <3>1
      <4>3. QED
        BY <1>0, <4>1, <4>2
    <3>4. iter[1..(k + 1)] = Round(iter[1..k], a[k + 1])
      BY <1>8, <3>2, <3>3
    <3>5. iter[1..k] = [ok |-> TRUE, active |-> SubSeq(a, 1, k)]
      BY <2>2
    <3>6. /\ Applies(SubSeq(a, 1, k), a[k + 1])
          /\ Apply(SubSeq(a, 1, k), a[k + 1]) = SubSeq(a, 1, k + 1)
      BY <2>2, FirstsApply
    <3>7. iter[1..(k + 1)] = [ok |-> TRUE, active |-> SubSeq(a, 1, k + 1)]
      <4>1. ASSUME NEW b, NEW s, Applies(b, s)
            PROVE  Round([ok |-> TRUE, active |-> b], s) = [ok |-> TRUE, active |-> Apply(b, s)]
        <5>1. [ok |-> TRUE, active |-> b].ok /\ [ok |-> TRUE, active |-> b].active = b
          OBVIOUS
        <5>2. QED
          BY <4>1, <5>1 DEF Round
      <4>2. Round([ok |-> TRUE, active |-> SubSeq(a, 1, k)], a[k + 1])
              = [ok |-> TRUE, active |-> Apply(SubSeq(a, 1, k), a[k + 1])]
        BY <3>6, <4>1, Zenon
      <4>3. iter[1..(k + 1)] = Round([ok |-> TRUE, active |-> SubSeq(a, 1, k)], a[k + 1])
        BY <3>4, <3>5, Zenon
      <4>4. QED
        BY <3>6, <4>2, <4>3, Zenon
    <3>8. QED
      BY <3>1, <3>7
  <2> HIDE DEF Good, n
  <2>3. QED
    BY <1>0, <2>1, <2>2, UpTo
<1>10. iter[1..n] = [ok |-> TRUE, active |-> a]
  <2>1. n \in 0..n /\ SubSeq(a, 1, n) = a
    BY <1>0, Firsts
  <2>2. QED
    BY <1>9, <2>1
<1>11. QED
  BY <1>0, <1>1, <1>10

-----------------------------------------------------------------------------
(* Sizes. *)

\* clipText keeps to a budget there is.
LEMMA ClipFacts ==
  ASSUME NEW size \in Nat, NEW budget \in Nat
  PROVE  Clip(size, budget) \in Nat /\ (budget > 0 => Clip(size, budget) <= budget)
BY DEF Clip, Smaller

LEMMA LargerFacts ==
  ASSUME NEW x \in Int, NEW y \in Int
  PROVE  /\ Larger(x, y) \in Int /\ Larger(x, y) >= x /\ Larger(x, y) >= y
         /\ Larger(x, y) = x \/ Larger(x, y) = y
BY DEF Larger

LEMMA SmallerFacts ==
  ASSUME NEW x \in Int, NEW y \in Int
  PROVE  /\ Smaller(x, y) \in Int /\ Smaller(x, y) <= x /\ Smaller(x, y) <= y
         /\ Smaller(x, y) = x \/ Smaller(x, y) = y
BY DEF Smaller

LEMMA TokensFacts == ASSUME NEW n \in Nat PROVE Tokens(n) \in Nat
BY DEF Tokens

\* The sum of the costs is the last of the partial sums.
LEMMA TotalSum ==
  ASSUME NEW costs \in Seq(Nat)
  PROVE  \E sum : PartialSums(sum, Len(costs), costs) /\ Total(costs) = sum[Len(costs)]
<1> DEFINE n == Len(costs)
           Body(h) == [T \in SUBSET DOMAIN costs |->
                          IF T = {} THEN 0 ELSE h[T \ {Max(T)}] + costs[Max(T)]]
           iter == CHOOSE h : h = Body(h)
<1>1. n \in Nat /\ DOMAIN costs = 1..n /\ costs \in [1..n -> Nat]
  OBVIOUS
<1>2. Total(costs) = iter[DOMAIN costs]
  BY DEF Total, FoldLeft, MapThenFoldSet
<1>3. PICK g \in [SUBSET (1..n) -> Nat] :
          \A T \in SUBSET (1..n) : g[T] = IF T = {} THEN 0 ELSE g[T \ {Max(T)}] + costs[Max(T)]
  <2> HIDE DEF n
  <2>1. QED
    BY <1>1, SumFoldExists
<1>4. g = Body(g)
  BY <1>1, <1>3
<1>5. iter = Body(iter)
  BY <1>4
<1> HIDE DEF iter
<1>6. \A T \in SUBSET (1..n) : iter[T] = IF T = {} THEN 0 ELSE iter[T \ {Max(T)}] + costs[Max(T)]
  BY <1>1, <1>5
<1> HIDE DEF n
<1>7. PartialSums([k \in 0..n |-> iter[1..k]], n, costs)
  BY <1>1, <1>6, FoldSums
<1>8. n \in 0..n
  BY <1>1
<1> DEFINE sum == [k \in 0..n |-> iter[1..k]]
<1>9. PartialSums(sum, n, costs) /\ Total(costs) = sum[n]
  BY <1>1, <1>2, <1>7, <1>8
<1> HIDE DEF sum
<1>10. QED
  BY <1>9 DEF n

\* The total is a number; of no costs it is 0, of one cost it is this one.
LEMMA TotalFacts ==
  ASSUME NEW costs \in Seq(Nat)
  PROVE  /\ Total(costs) \in Nat
         /\ Len(costs) = 0 => Total(costs) = 0
         /\ Len(costs) = 1 => Total(costs) = costs[1]
<1>1. PICK sum : PartialSums(sum, Len(costs), costs) /\ Total(costs) = sum[Len(costs)]
  BY TotalSum
<1>2. Len(costs) \in 0..Len(costs) /\ Len(costs) \in Nat
  OBVIOUS
<1>3. Total(costs) \in Nat /\ sum[0] = 0
  BY <1>1, <1>2 DEF PartialSums
<1>4. ASSUME Len(costs) = 1 PROVE sum[1] = costs[1]
  <2>1. 1 \in 1..Len(costs) /\ 1 - 1 = 0
    BY <1>4
  <2>2. costs[1] \in Nat
    BY <2>1
  <2>3. sum[1] = sum[1 - 1] + costs[1]
    BY <1>1, <2>1 DEF PartialSums
  <2>4. QED
    BY <1>3, <2>1, <2>2, <2>3
<1>5. Len(costs) = 0 => Total(costs) = sum[0]
  BY <1>1
<1>6. Len(costs) = 1 => Total(costs) = sum[1]
  BY <1>1
<1>7. QED
  BY <1>3, <1>4, <1>5, <1>6

\* What is kept from the newest on: at least one of some, and no more than fits or the newest.
LEMMA NewestThatFitFacts ==
  ASSUME NEW costs \in Seq(Nat), NEW budget \in Nat
  PROVE  LET n == NewestThatFit(costs, budget) IN
         /\ n \in 0..Len(costs) /\ Total(Newest(n, costs)) \in Nat
         /\ Len(costs) > 0 => n >= 1
         /\ \/ Total(Newest(n, costs)) <= budget
            \/ Len(costs) > 0 /\ Total(Newest(n, costs)) = costs[Len(costs)]
<1> DEFINE l == Len(costs)
           fits == {n \in 1..l : Total(Newest(n, costs)) <= budget}
           S == {1} \cup fits
<1>1. l \in Nat
  OBVIOUS
<1>2. \A n \in 0..l : Newest(n, costs) \in Seq(Nat) /\ Len(Newest(n, costs)) = n
  BY NewestFacts
<1>3. \A n \in 0..l : Total(Newest(n, costs)) \in Nat
  BY <1>2, TotalFacts
<1>4. CASE l = 0
  <2>1. costs = <<>> /\ NewestThatFit(costs, budget) = 0
    BY <1>4 DEF NewestThatFit
  <2>2. Total(Newest(0, costs)) = 0
    BY <1>1, <1>2, TotalFacts
  <2>3. QED
    BY <1>4, <2>1, <2>2
<1>5. CASE l > 0
  <2>1. costs # <<>> /\ NewestThatFit(costs, budget) = Max(S)
    BY <1>5 DEF NewestThatFit
  <2>2. S \in SUBSET Nat /\ S # {} /\ \A x \in S : x <= l
    BY <1>1, <1>5
  <2>3. Max(S) \in S /\ Max(S) >= 1
    <3>1. 1 \in S
      OBVIOUS
    <3> HIDE DEF S, l
    <3>2. Max(S) \in S /\ \A x \in S : x <= Max(S)
      BY <1>1, <2>2, MaxFacts
    <3>3. Max(S) \in Nat /\ 1 <= Max(S)
      BY <2>2, <3>1, <3>2
    <3>4. QED
      BY <3>2, <3>3
  <2>4. Total(Newest(1, costs)) = costs[l]
    <3>0. 1 \in 0..l
      BY <1>1, <1>5
    <3>1. 1 \in 0..l /\ Newest(1, costs) \in Seq(Nat) /\ Len(Newest(1, costs)) = 1
      BY <1>2, <3>0
    <3>2. \A i \in 1..1 : Newest(1, costs)[i] = costs[l - 1 + i]
      BY <3>1, NewestFacts
    <3>3. Newest(1, costs)[1] = costs[l]
      BY <1>1, <3>2
    <3>4. QED
      BY <3>1, <3>3, TotalFacts
  <2>5. Max(S) \in 0..l
    BY <2>2, <2>3, <1>1
  <2>6. Max(S) = 1 \/ Total(Newest(Max(S), costs)) <= budget
    BY <2>3
  <2>7. QED
    BY <1>3, <1>5, <2>1, <2>3, <2>4, <2>5, <2>6
<1>6. QED
  BY <1>1, <1>4, <1>5

-----------------------------------------------------------------------------
(* Ranks. *)

\* The k-th element of a ranked sequence is one of the sequence: as no two have the
\* same number before them, there is one with k - 1 before it.
LEMMA RankedFacts ==
  ASSUME NEW S, NEW s \in Seq(S), NEW score, \A x \in S : score[x] \in Nat
  PROVE  Ranked(s, score) \in Seq(S) /\ Len(Ranked(s, score)) = Len(s)
<1> DEFINE n == Len(s)
           before(i) == {j \in DOMAIN s : score[s[j]] > score[s[i]] \/ (score[s[j]] = score[s[i]] /\ j < i)}
           f == [i \in 1..n |-> Cardinality(before(i))]
<1>1. n \in Nat /\ DOMAIN s = 1..n /\ \A i \in 1..n : s[i] \in S /\ score[s[i]] \in Nat
  OBVIOUS
<1>2. IsFiniteSet(1..n) /\ Cardinality(1..n) = n /\ IsFiniteSet(0..(n - 1)) /\ Cardinality(0..(n - 1)) = n
  <2>1. IsFiniteSet(1..n) /\ Cardinality(1..n) = IF 1 > n THEN 0 ELSE n - 1 + 1
    BY <1>1, FS_Interval
  <2>2. n - 1 \in Int /\ IsFiniteSet(0..(n - 1))
    BY <1>1, FS_Interval
  <2>3. Cardinality(0..(n - 1)) = IF 0 > n - 1 THEN 0 ELSE (n - 1) - 0 + 1
    BY <2>2, FS_Interval
  <2>4. QED
    BY <1>1, <2>1, <2>2, <2>3
<1>3. \A i \in 1..n : before(i) \subseteq 1..n /\ i \notin before(i)
  BY <1>1
<1>4. \A i, j \in 1..n : i # j => j \in before(i) \/ i \in before(j)
  BY <1>1
<1>5. \A i, j \in 1..n : j \in before(i) => before(j) \subseteq before(i)
  <2> SUFFICES ASSUME NEW i \in 1..n, NEW j \in 1..n, j \in before(i), NEW k \in before(j)
               PROVE  k \in before(i)
    OBVIOUS
  <2>1. i \in Nat /\ j \in Nat /\ k \in Nat /\ k \in 1..n
    BY <1>1
  <2>2. score[s[i]] \in Nat /\ score[s[j]] \in Nat /\ score[s[k]] \in Nat
    BY <1>1, <2>1
  <2>3. QED
    BY <1>1, <2>1, <2>2
<1> HIDE DEF before
<1>6. \A i \in 1..n : IsFiniteSet(before(i)) /\ Cardinality(before(i)) \in Nat
  BY <1>2, <1>3, FS_Subset, FS_CardinalityType
<1>7. \A i, j \in 1..n : j \in before(i) => Cardinality(before(j)) < Cardinality(before(i))
  <2> SUFFICES ASSUME NEW i \in 1..n, NEW j \in 1..n, j \in before(i)
               PROVE  Cardinality(before(j)) < Cardinality(before(i))
    OBVIOUS
  <2>1. before(j) \in SUBSET before(i) /\ before(j) # before(i)
    BY <1>3, <1>5
  <2>2. Cardinality(before(j)) <= Cardinality(before(i)) /\ Cardinality(before(j)) # Cardinality(before(i))
    BY <1>6, <2>1, FS_Subset
  <2>3. QED
    BY <1>6, <2>2
<1>8. \A i \in 1..n : Cardinality(before(i)) \in 0..(n - 1)
  <2> SUFFICES ASSUME NEW i \in 1..n PROVE Cardinality(before(i)) \in 0..(n - 1)
    OBVIOUS
  <2>1. before(i) \in SUBSET (1..n) /\ before(i) # 1..n
    BY <1>3
  <2>2. Cardinality(before(i)) <= n /\ Cardinality(before(i)) # n
    BY <1>2, <2>1, FS_Subset
  <2>3. QED
    BY <1>1, <1>6, <2>2
<1>9. f \in Injection(1..n, 0..(n - 1))
  <2>1. f \in [1..n -> 0..(n - 1)]
    BY <1>8
  <2>2. ASSUME NEW i \in 1..n, NEW j \in 1..n, f[i] = f[j] PROVE i = j
    <3>1. Cardinality(before(i)) = Cardinality(before(j)) /\ Cardinality(before(i)) \in Nat
      BY <1>6, <2>2
    <3>2. j \notin before(i) /\ i \notin before(j)
      BY <1>7, <3>1
    <3>3. QED
      BY <1>4, <3>2
  <2>3. QED
    BY <2>1, <2>2 DEF Injection, IsInjective
<1>10. f \in Surjection(1..n, 0..(n - 1))
  <2> HIDE DEF f
  <2>1. QED
    BY <1>2, <1>9, FS_Injection
<1>11. \A k \in 1..n : \E i \in 1..n : Cardinality(before(i)) = k - 1
  <2> SUFFICES ASSUME NEW k \in 1..n PROVE \E i \in 1..n : Cardinality(before(i)) = k - 1
    OBVIOUS
  <2>1. k - 1 \in 0..(n - 1)
    BY <1>1
  <2>2. \E i \in 1..n : f[i] = k - 1
    BY <1>10, <2>1 DEF Surjection
  <2>3. QED
    BY <2>2
<1>12. Ranked(s, score) = [k \in 1..n |-> s[CHOOSE i \in 1..n : Cardinality(before(i)) = k - 1]]
  BY <1>1 DEF Ranked, before
<1>13. \A k \in 1..n : s[CHOOSE i \in 1..n : Cardinality(before(i)) = k - 1] \in S
  BY <1>1, <1>11
<1>14. Ranked(s, score) \in [1..n -> S]
  BY <1>12, <1>13
<1> HIDE DEF n
<1>15. Ranked(s, score) \in Seq(S) /\ Len(Ranked(s, score)) = n
  BY <1>1, <1>14
<1>16. QED
  BY <1>15 DEF n

\* What is taken: something of some, and no more than fits or the first costs.
LEMMA TakeFacts ==
  ASSUME NEW S, NEW s \in Seq(S), NEW cost, \A x \in S : cost[x] \in Nat, NEW budget \in Nat,
         NEW most \in Nat, budget <= most, \A x \in S : cost[x] <= most
  PROVE  LET r == TakeThoseThatFit(s, cost, budget) IN
         /\ r.kept \subseteq S /\ r.used \in Nat /\ r.used <= most
         /\ Len(s) > 0 => r.kept # {}
<1> DEFINE n == Len(s)
           V == [kept : SUBSET S, used : Nat]
           base == [kept |-> {}, used |-> 0]
           Round(r, x) == IF r.kept # {} /\ r.used + cost[x] > budget THEN r
                          ELSE [kept |-> r.kept \cup {x}, used |-> r.used + cost[x]]
           op == [p \in V \X (1..n) |-> Round(p[1], s[p[2]])]
           Body(h) == [T \in SUBSET DOMAIN s |->
                          IF T = {} THEN base ELSE Round(h[T \ {Max(T)}], s[Max(T)])]
           iter == CHOOSE h : h = Body(h)
           Fine(r) == r \in V /\ r.used <= most /\ (r.kept = {} => r.used = 0)
           Good == {k \in 0..n : Fine(iter[1..k]) /\ (k > 0 => iter[1..k].kept # {})}
<1>0. n \in Nat /\ DOMAIN s = 1..n /\ \A i \in 1..n : s[i] \in S
  OBVIOUS
<1>1. TakeThoseThatFit(s, cost, budget) = iter[DOMAIN s]
  BY DEF TakeThoseThatFit, FoldLeft, MapThenFoldSet
<1>2. \A r \in V, x \in S : Round(r, x) \in V
  OBVIOUS
<1>3. \A r \in V, x \in S : Fine(r) => Fine(Round(r, x)) /\ Round(r, x).kept # {}
  <2> SUFFICES ASSUME NEW r \in V, NEW x \in S, Fine(r)
               PROVE  Fine(Round(r, x)) /\ Round(r, x).kept # {}
    OBVIOUS
  <2>1. cost[x] \in Nat /\ cost[x] <= most /\ r.used \in Nat
    OBVIOUS
  <2>2. CASE r.kept # {} /\ r.used + cost[x] > budget
    BY <2>2
  <2>3. CASE ~(r.kept # {} /\ r.used + cost[x] > budget)
    <3>1. Round(r, x) = [kept |-> r.kept \cup {x}, used |-> r.used + cost[x]]
      BY <2>3
    <3>2. r.used + cost[x] <= most
      BY <2>1, <2>3
    <3>3. Round(r, x) \in V
      BY <1>2
    <3>4. QED
      BY <3>1, <3>2, <3>3
  <2>4. QED
    BY <2>2, <2>3
<1>4. base \in V /\ Fine(base)
  OBVIOUS
<1> HIDE DEF Round, base
<1>5. op \in [V \X (1..n) -> V]
  BY <1>0, <1>2
<1>6. \A r \in V, i \in 1..n : op[<<r, i>>] = Round(r, s[i])
  OBVIOUS
<1> HIDE DEF op, V, Fine
<1>7. PICK g : g \in [SUBSET (1..n) -> V] /\ IsFold(g, n, base, op)
  <2> HIDE DEF n
  <2>1. QED
    BY <1>0, <1>4, <1>5, FoldExists
<1>8. g = Body(g)
  <2>1. ASSUME NEW T \in SUBSET (1..n), T # {} PROVE g[T] = Round(g[T \ {Max(T)}], s[Max(T)])
    <3>1. Max(T) \in 1..n
      BY <1>0, <2>1, MaxInterval
    <3>2. g[T \ {Max(T)}] \in V
      BY <1>7
    <3>3. QED
      BY <1>6, <1>7, <2>1, <3>1, <3>2 DEF IsFold
  <2>2. \A T \in SUBSET (1..n) : T = {} => g[T] = base
    BY <1>7 DEF IsFold
  <2>3. QED
    BY <1>0, <1>7, <2>1, <2>2
<1>9. iter = Body(iter)
  BY <1>8
<1> HIDE DEF iter
<1>10. \A k \in 0..n : k \in Good
  <2>1. 0 \in Good
    <3>1. iter[1..0] = base
      <4>1. 1..0 = {}
        OBVIOUS
      <4>2. QED
        BY <1>9, <4>1
    <3>2. 0 \in 0..n /\ ~(0 > 0)
      BY <1>0
    <3> HIDE DEF n
    <3>3. QED
      BY <1>4, <3>1, <3>2
  <2>2. ASSUME NEW k \in 0..n, k < n, k \in Good PROVE k + 1 \in Good
    <3>1. k + 1 \in Nat /\ k + 1 > 0 /\ k + 1 \in 1..n /\ (k + 1) - 1 = k /\ k + 1 \in 0..n
      BY <1>0, <2>2
    <3>2. Max(1..(k + 1)) = k + 1 /\ (1..(k + 1)) \ {k + 1} = 1..k
      BY <3>1, MaxInterval
    <3>3. 1..(k + 1) \in SUBSET DOMAIN s /\ 1..(k + 1) # {}
      <4> HIDE DEF n
      <4>1. \A i \in 1..(k + 1) : i \in 1..n
        BY <1>0, <3>1
      <4>2. 1 \in 1..(k + 1)
        BY <3>1
      <4>3. QED
        BY <1>0, <4>1, <4>2
    <3>4. iter[1..(k + 1)] = Round(iter[1..k], s[k + 1])
      BY <1>9, <3>2, <3>3
    <3>5. Fine(iter[1..k]) /\ iter[1..k] \in V
      BY <2>2 DEF Fine
    <3>6. s[k + 1] \in S
      BY <1>0, <3>1
    <3>7. Fine(Round(iter[1..k], s[k + 1])) /\ Round(iter[1..k], s[k + 1]).kept # {}
      BY <1>3, <3>5, <3>6
    <3>8. QED
      BY <3>1, <3>4, <3>7
  <2> HIDE DEF Good, n
  <2>3. QED
    BY <1>0, <2>1, <2>2, UpTo
<1>11. n \in Good
  <2>1. n \in 0..n
    BY <1>0
  <2>2. QED
    BY <1>10, <2>1
<1>12. QED
  BY <1>0, <1>1, <1>11 DEF Fine, V


-----------------------------------------------------------------------------
(* The sections. *)

StepRecord == [tool : Tools, head : Nat, output : Nat]

\* The newest message is kept whatever its length, and the section respects its budget
\* unless that is less than the 130 tokens the message may cost.
LEMMA ConversationPart ==
  ASSUME NEW messages \in Seq(Message), NEW budget \in Nat
  PROVE  LET r == RenderConversation(messages, budget) IN
         /\ r.tokens \in Nat /\ r.tokens <= budget + Larger(0, 130 - budget) + NoteTokens
         /\ messages # <<>> => r.kept >= 1
<1> DEFINE entry(m) == Clip(Tokens(m.runes + IF m.role = "user" THEN 6 ELSE 11), Larger(128, budget \div 2))
           costs == [i \in DOMAIN messages |-> entry(messages[i]) + 2]
           n == NewestThatFit(costs, budget)
           r == RenderConversation(messages, budget)
           room == budget + Larger(0, 130 - budget)
<1>1. budget \div 2 \in Nat /\ (budget \div 2 > 128 => (budget \div 2) + 2 <= budget)
  OBVIOUS
<1>room. room \in Nat /\ budget <= room /\ 130 <= room
  BY DEF Larger
<1> HIDE DEF room
<1>2. LET most == Larger(128, budget \div 2) IN most \in Nat /\ most > 0 /\ most + 2 <= room
  BY <1>1, <1>room DEF Larger
<1>3. ASSUME NEW m \in Message PROVE entry(m) \in Nat /\ entry(m) + 2 <= room
  <2>1. m.runes \in Nat
    <3>1. m.runes \in Lengths
      BY DEF Message
    <3>2. QED
      BY <3>1, ConversationAssumption
  <2>2. Tokens(m.runes + IF m.role = "user" THEN 6 ELSE 11) \in Nat
    <3>1. m.runes + (IF m.role = "user" THEN 6 ELSE 11) \in Nat
      BY <2>1
    <3>2. QED
      BY <3>1, TokensFacts
  <2> DEFINE most == Larger(128, budget \div 2)
             size == Tokens(m.runes + IF m.role = "user" THEN 6 ELSE 11)
  <2>3. most \in Nat /\ most > 0 /\ most + 2 <= room
    BY <1>2
  <2> HIDE DEF most, size
  <2>4. Clip(size, most) \in Nat /\ Clip(size, most) <= most
    BY <2>2, <2>3, ClipFacts DEF size
  <2>5. QED
    BY <1>room, <2>3, <2>4 DEF most, size
<1> HIDE DEF entry
<1>4. costs \in Seq(Nat) /\ Len(costs) = Len(messages)
  <2>1. DOMAIN messages = 1..Len(messages) /\ Len(messages) \in Nat
    OBVIOUS
  <2>2. \A i \in 1..Len(messages) : entry(messages[i]) + 2 \in Nat
    BY <1>3
  <2>3. costs \in [1..Len(messages) -> Nat]
    BY <2>1, <2>2
  <2> HIDE DEF costs
  <2>4. QED
    BY <2>1, <2>3
<1>5. Len(costs) > 0 => costs[Len(costs)] <= room
  <2>1. ASSUME Len(messages) > 0 PROVE costs[Len(messages)] <= room
    <3>1. Len(messages) \in DOMAIN messages
      BY <2>1
    <3>2. messages[Len(messages)] \in Message
      BY <3>1
    <3>3. QED
      BY <1>3, <3>1, <3>2
  <2>2. QED
    BY <1>4, <2>1
<1>6. /\ r.kept = n
      /\ r.tokens = Total(Newest(n, costs)) + IF n < Len(messages) THEN NoteTokens ELSE 0
  BY DEF RenderConversation, entry
<1> HIDE DEF costs, r
<1>7. /\ Total(Newest(n, costs)) \in Nat /\ Total(Newest(n, costs)) <= room
      /\ Len(costs) > 0 => n >= 1
  <2> DEFINE total == Total(Newest(n, costs))
  <2>1. /\ total \in Nat /\ (Len(costs) > 0 => n >= 1)
        /\ total <= budget \/ (Len(costs) > 0 /\ total = costs[Len(costs)])
    BY <1>4, NewestThatFitFacts
  <2> HIDE DEF total, n
  <2>2. total <= room
    BY <1>5, <1>room, <2>1
  <2>3. QED
    BY <2>1, <2>2 DEF total
<1>8. messages # <<>> => Len(messages) > 0
  OBVIOUS
<1>9. QED
  BY <1>4, <1>6, <1>7, <1>8, <1>room DEF r, room, NoteTokens

\* Of active artifacts at least one is kept; the first may take the whole section.
LEMMA ArtifactsPart ==
  ASSUME NEW active \in Seq(Skills), NEW goal \in Goals, NEW budget \in Nat, budget > 0
  PROVE  LET r == RenderArtifacts(active, goal, budget) IN
         /\ r.tokens \in Nat /\ r.tokens <= budget + 2 + NoteTokens
         /\ active # <<>> => r.kept # {}
<1> DEFINE cost == [s \in Skills |-> Clip(Tokens(SkillRunes[s]), budget) + 2]
           ranked == Ranked(active, Overlap[goal])
           taken == TakeThoseThatFit(ranked, cost, budget)
<1>1. (\A s \in Skills : cost[s] \in Nat) /\ (\A s \in Skills : cost[s] <= budget + 2)
  <2> SUFFICES ASSUME NEW s \in Skills PROVE cost[s] \in Nat /\ cost[s] <= budget + 2
    OBVIOUS
  <2>1. SkillRunes[s] \in 1..MaxInstructionRunes
    BY ConversationAssumption
  <2>2. SkillRunes[s] \in Nat
    <3>1. \A x \in 1..MaxInstructionRunes : x \in Nat
      BY DEF MaxInstructionRunes
    <3>2. QED
      BY <2>1, <3>1
  <2>3. Clip(Tokens(SkillRunes[s]), budget) \in Nat /\ Clip(Tokens(SkillRunes[s]), budget) <= budget
    BY <2>2, TokensFacts, ClipFacts
  <2>4. cost[s] = Clip(Tokens(SkillRunes[s]), budget) + 2
    OBVIOUS
  <2> HIDE DEF cost
  <2>5. QED
    BY <2>3, <2>4
<1>2. ranked \in Seq(Skills) /\ Len(ranked) = Len(active)
  BY PromptAssumption, RankedFacts
<1>3. RenderArtifacts(active, goal, budget) =
        [kept |-> taken.kept,
         tokens |-> taken.used + IF Cardinality(taken.kept) < Len(active) THEN NoteTokens ELSE 0]
  BY DEF RenderArtifacts
<1> HIDE DEF cost, ranked
<1> DEFINE most == budget + 2
<1>4. most \in Nat /\ budget <= most
  OBVIOUS
<1>5. /\ taken.used \in Nat /\ taken.used <= budget + 2
      /\ Len(ranked) > 0 => taken.kept # {}
  <2>1. \A s \in Skills : cost[s] <= most
    BY <1>1
  <2> HIDE DEF most
  <2>2. /\ taken.used \in Nat /\ taken.used <= most
        /\ Len(ranked) > 0 => taken.kept # {}
    BY <1>1, <1>2, <1>4, <2>1, TakeFacts
  <2>3. QED
    BY <2>2 DEF most
<1> HIDE DEF taken
<1>6. active # <<>> => Len(active) > 0
  OBVIOUS
<1>7. QED
  BY <1>2, <1>3, <1>5, <1>6 DEF NoteTokens

\* The largest descriptor of a tool.
LargestTool == Max({ToolTokens[tool] : tool \in Tools})

LEMMA LargestFacts ==
  ASSUME Tools # {}
  PROVE  LargestTool \in Nat /\ IsFiniteSet(Tools) /\ \A tool \in Tools : ToolTokens[tool] <= LargestTool
<1> DEFINE sizes == {ToolTokens[tool] : tool \in Tools}
           costs == [i \in 1..Len(Catalog) |-> ToolTokens[Catalog[i]]]
<1>1. Catalog \in Seq(Tools) /\ ToolTokens \in [Tools -> Nat]
  BY RoutingAssumption, PromptAssumption
<1>2. Len(Catalog) \in Nat /\ DOMAIN Catalog = 1..Len(Catalog) /\ Tools = {Catalog[i] : i \in 1..Len(Catalog)}
  BY <1>1 DEF Tools, ToSet
<1>3. IsFiniteSet(1..Len(Catalog))
  <2>1. 1 \in Int /\ Len(Catalog) \in Int
    BY <1>2
  <2>2. QED
    BY <2>1, FS_Interval
<1>4. IsFiniteSet(Tools)
  <2> DEFINE f == [i \in 1..Len(Catalog) |-> Catalog[i]]
  <2>1. f \in Surjection(1..Len(Catalog), Tools)
    BY <1>2 DEF Surjection
  <2> HIDE DEF f
  <2>2. QED
    BY <1>3, <2>1, FS_Surjection
<1>5. costs \in Seq(Nat) /\ Len(costs) = Len(Catalog) /\ \A i \in 1..Len(Catalog) : costs[i] = ToolTokens[Catalog[i]]
  <2>1. costs \in [1..Len(Catalog) -> Nat]
    BY <1>1, <1>2
  <2>2. \A i \in 1..Len(Catalog) : costs[i] = ToolTokens[Catalog[i]]
    OBVIOUS
  <2> HIDE DEF costs
  <2>3. QED
    BY <1>2, <2>1, <2>2
<1> HIDE DEF costs
<1>6. PICK sum : PartialSums(sum, Len(Catalog), costs)
  BY <1>5, TotalSum
<1>7. \A k \in 0..Len(Catalog) : sum[k] \in Nat
  BY <1>6 DEF PartialSums
<1> DEFINE Below == {k \in 0..Len(Catalog) : \A i \in 1..k : costs[i] <= sum[k]}
<1>8. \A k \in 0..Len(Catalog) : k \in Below
  <2>1. 0 \in Below
    BY <1>2
  <2>2. ASSUME NEW k \in 0..Len(Catalog), k < Len(Catalog), k \in Below PROVE k + 1 \in Below
    <3>1. k \in Nat /\ k + 1 \in 1..Len(Catalog) /\ k + 1 \in 0..Len(Catalog) /\ (k + 1) - 1 = k
      BY <2>2
    <3>2. sum[k + 1] = sum[k] + costs[k + 1]
      BY <1>6, <3>1 DEF PartialSums
    <3>3. \A i \in 1..(k + 1) : costs[i] \in Nat
      BY <1>5, <3>1
    <3>4. ASSUME NEW i \in 1..(k + 1) PROVE costs[i] <= sum[k + 1]
      <4>1. CASE i = k + 1
        BY <1>7, <3>2, <3>3, <4>1
      <4>2. CASE i # k + 1
        <5>1. i \in 1..k
          BY <3>1, <4>2
        <5>2. costs[i] <= sum[k] /\ costs[i] \in Nat /\ costs[k + 1] \in Nat /\ sum[k] \in Nat
          BY <1>7, <2>2, <3>1, <3>3, <5>1
        <5>3. QED
          BY <3>2, <5>2
      <4>3. QED
        BY <4>1, <4>2
    <3>5. QED
      BY <3>1, <3>4
  <2> HIDE DEF Below
  <2>3. QED
    BY <1>2, <2>1, <2>2, UpTo
<1>9. \E b \in Nat : \A x \in sizes : x <= b
  <2>1. Len(Catalog) \in Below
    <3>1. Len(Catalog) \in 0..Len(Catalog)
      BY <1>2
    <3>2. QED
      BY <1>8, <3>1
  <2>2. \A i \in 1..Len(Catalog) : ToolTokens[Catalog[i]] <= sum[Len(Catalog)]
    BY <1>5, <2>1
  <2>3. \A x \in sizes : x <= sum[Len(Catalog)]
    BY <1>2, <2>2
  <2>4. sum[Len(Catalog)] \in Nat
    BY <1>2, <1>7
  <2> HIDE DEF sizes
  <2>5. QED
    BY <2>3, <2>4
<1>10. sizes \in SUBSET Nat /\ sizes # {} /\ \A tool \in Tools : ToolTokens[tool] \in sizes
  BY <1>1
<1> HIDE DEF sizes
<1>11. Max(sizes) \in sizes /\ \A x \in sizes : x <= Max(sizes)
  BY <1>9, <1>10, MaxFacts
<1>12. LargestTool = Max(sizes)
  BY DEF LargestTool, sizes
<1>13. QED
  BY <1>4, <1>10, <1>11, <1>12


\* The catalog of tools passes its section by a note, and by the first tool's size.
LEMMA ToolsPart ==
  ASSUME Tools # {}, NEW goal \in Goals, NEW steps \in Seq(StepRecord), NEW hints, NEW budget \in Nat
  PROVE  /\ RenderTools(goal, steps, hints, budget) \in Nat
         /\ RenderTools(goal, steps, hints, budget) <= budget + Larger(0, LargestTool - budget) + NoteTokens
<1> DEFINE score == [tool \in Tools |-> ToolScore(tool, goal, steps, hints)]
           ranked == Ranked(Catalog, score)
           taken == TakeThoseThatFit(ranked, ToolTokens, budget)
           most == budget + Larger(0, LargestTool - budget)
<1>1. LargestTool \in Nat /\ \A tool \in Tools : ToolTokens[tool] <= LargestTool
  BY LargestFacts
<1>2. most \in Nat /\ budget <= most /\ LargestTool <= most
  BY <1>1 DEF Larger
<1>3. (\A tool \in Tools : ToolTokens[tool] \in Nat) /\ (\A tool \in Tools : ToolTokens[tool] <= most)
  <2>1. \A tool \in Tools : ToolTokens[tool] \in Nat
    BY PromptAssumption
  <2> HIDE DEF most
  <2>2. QED
    BY <1>1, <1>2, <2>1
<1>4. \A tool \in Tools : score[tool] \in Nat
  <2> SUFFICES ASSUME NEW tool \in Tools PROVE ToolScore(tool, goal, steps, hints) \in Nat
    OBVIOUS
  <2>1. Overlap[goal][tool] \in Nat
    BY PromptAssumption
  <2> DEFINE b == IF tool \in {"activate_skill", "read_skill_resource"} THEN 100 ELSE 0
             c == IF steps # <<>> /\ Last(steps).tool = tool THEN 80 ELSE 0
             d == IF tool \in hints THEN 60 ELSE 0
             e == IF \E i \in DOMAIN steps : steps[i].tool = tool THEN 40 ELSE 0
  <2>2. ToolScore(tool, goal, steps, hints) = Overlap[goal][tool] + b + c + d + e
    BY DEF ToolScore
  <2>3. b \in Nat /\ c \in Nat /\ d \in Nat /\ e \in Nat
    OBVIOUS
  <2> DEFINE o == Overlap[goal][tool]
  <2>4. o \in Nat /\ ToolScore(tool, goal, steps, hints) = o + b + c + d + e
    BY <2>1, <2>2
  <2> HIDE DEF b, c, d, e, o, score, ranked, taken, most
  <2>5. o + b + c + d + e \in Nat
    BY <2>3, <2>4
  <2>6. QED
    BY <2>4, <2>5
<1>5. RenderTools(goal, steps, hints, budget) =
        IF budget <= 0 THEN 0 ELSE taken.used + IF taken.kept # Tools THEN NoteTokens ELSE 0
  BY DEF RenderTools
<1> HIDE DEF score
<1>6. ranked \in Seq(Tools)
  BY <1>4, RoutingAssumption, RankedFacts
<1> HIDE DEF ranked, most
<1>7. taken.used \in Nat /\ taken.used <= most
  BY <1>2, <1>3, <1>6, TakeFacts
<1> HIDE DEF taken
<1>8. RenderTools(goal, steps, hints, budget) \in Nat /\ RenderTools(goal, steps, hints, budget) <= most + 22
  BY <1>2, <1>5, <1>7 DEF NoteTokens
<1>9. QED
  BY <1>8 DEF most, NoteTokens

\* The newest step is kept; the steps and what is said of the others pass the section
\* by the least a summary is given.
LEMMA TrajectoryPart ==
  ASSUME NEW steps \in Seq(StepRecord), NEW budget \in Nat
  PROVE  LET r == RenderTrajectory(steps, budget) IN
         /\ r.tokens \in Nat /\ r.tokens <= budget + 128
         /\ steps # <<>> => r.kept >= 1
<1> DEFINE costs == [i \in DOMAIN steps |-> StepTokens(steps, i, budget) + 4]
           n == NewestThatFit(costs, budget)
           omitted == Len(steps) - n
           used == Smaller(Total(Newest(n, costs)), budget)
           size == NoteTokens + omitted * LineTokens
           left == Larger(128, budget - used)
<1>1. costs \in Seq(Nat) /\ Len(costs) = Len(steps)
  <2>1. DOMAIN steps = 1..Len(steps) /\ Len(steps) \in Nat
    OBVIOUS
  <2>2. ASSUME NEW i \in 1..Len(steps) PROVE StepTokens(steps, i, budget) + 4 \in Nat
    <3>1. steps[i].head \in Nat /\ steps[i].output \in Nat
      <4>1. steps[i] \in StepRecord
        OBVIOUS
      <4>2. QED
        BY <4>1 DEF StepRecord
    <3>2. budget \div 3 \in Nat /\ budget \div 8 \in Nat
      OBVIOUS
    <3> DEFINE limit == IF i = Len(steps) THEN Smaller(6000, Larger(512, budget \div 3))
                                          ELSE Smaller(2500, Larger(256, budget \div 8))
    <3>3. limit \in Nat
      BY <3>2 DEF Smaller, Larger
    <3>4. StepTokens(steps, i, budget) = steps[i].head + Clip(steps[i].output, limit)
      BY DEF StepTokens
    <3> HIDE DEF limit
    <3>5. Clip(steps[i].output, limit) \in Nat
      BY <3>1, <3>3, ClipFacts
    <3>6. QED
      BY <3>1, <3>4, <3>5
  <2>3. costs \in [1..Len(steps) -> Nat]
    BY <2>1, <2>2
  <2> HIDE DEF costs
  <2>4. QED
    BY <2>1, <2>3
<1>2. RenderTrajectory(steps, budget) =
        [kept |-> n, tokens |-> used + IF omitted > 0 THEN Clip(size, left) ELSE 0]
  BY DEF RenderTrajectory
<1> HIDE DEF costs
<1>3. n \in 0..Len(costs) /\ Total(Newest(n, costs)) \in Nat /\ (Len(costs) > 0 => n >= 1)
  BY <1>1, NewestThatFitFacts
<1> HIDE DEF n
<1>4. used \in Nat /\ used <= budget
  BY <1>3 DEF Smaller
<1>5. omitted \in Nat
  BY <1>1, <1>3
<1>6. size \in Nat
  <2>1. LineTokens \in Nat
    BY PromptAssumption
  <2> HIDE DEF omitted
  <2>2. omitted * LineTokens \in Nat
    BY <1>5, <2>1
  <2>3. QED
    BY <2>2 DEF NoteTokens
<1> HIDE DEF used, omitted, size
<1>7. left \in Nat /\ left > 0 /\ used + left <= budget + 128
  BY <1>4 DEF Larger
<1> HIDE DEF left
<1>8. Clip(size, left) \in Nat /\ Clip(size, left) <= left
  BY <1>6, <1>7, ClipFacts
<1>9. steps # <<>> => n >= 1
  <2>1. steps # <<>> => Len(steps) > 0
    OBVIOUS
  <2>2. QED
    BY <1>1, <1>3, <2>1
<1>10. QED
  BY <1>2, <1>4, <1>7, <1>8, <1>9

LEMMA PlanFacts ==
  ASSUME NEW budget \in Nat
  PROVE  PlanPart(budget) \in Nat /\ PlanPart(budget) <= Larger(128, budget \div 3) + NoteTokens
<1> DEFINE most == Larger(128, budget \div 3)
<1>1. most \in Nat /\ most > 0
  BY DEF Larger
<1>2. PlanPart(budget) = Clip(PlanTokens, most) + NoteTokens
  BY DEF PlanPart
<1> HIDE DEF most
<1>3. Clip(PlanTokens, most) \in Nat /\ Clip(PlanTokens, most) <= most
  BY <1>1, PromptAssumption, ClipFacts
<1>4. PlanPart(budget) \in Nat /\ PlanPart(budget) <= most + NoteTokens
  BY <1>1, <1>2, <1>3 DEF NoteTokens
<1>5. QED
  BY <1>4 DEF most

-----------------------------------------------------------------------------
(* The sum. *)

\* The share of one section.
LEMMA SharePart ==
  ASSUME NEW limit \in Nat \ {0}, NEW share \in Nat
  PROVE  LET q == (limit * share) \div 100
             b == IF share = 0 THEN 0 ELSE Larger(64, q)
         IN /\ q \in Nat /\ 100 * q <= limit * share
            /\ b \in Nat /\ q <= b /\ (share > 0 => b >= 64)
<1> DEFINE x == limit * share
<1>1. x \in Nat /\ (share = 0 => x = 0)
  OBVIOUS
<1> HIDE DEF x
<1>2. x \div 100 \in Nat /\ 100 * (x \div 100) <= x /\ (x = 0 => x \div 100 = 0)
  BY <1>1
<1>3. QED
  BY <1>1, <1>2 DEF Larger, x

\* The sections of an audience share its limit, and what the floors add to it.
LEMMA AllocationFacts ==
  ASSUME NEW a \in Audiences
  PROVE  LET b == Allocation(a) IN
         /\ b.goal \in Nat /\ b.goal >= 64 /\ b.project \in Nat /\ b.project >= 64
         /\ b.conversation \in Nat /\ b.skills \in Nat
         /\ b.active \in Nat /\ b.active >= 64 /\ b.tools \in Nat /\ b.routing \in Nat
         /\ b.trajectory \in Nat /\ b.feedback \in Nat
         /\ a # "responder" => b.feedback > 0
         /\ FloorTokens(a) \in Nat
         /\ b.goal + b.project + b.conversation + b.skills + b.active + b.tools + b.routing
              + b.trajectory + b.feedback <= BudgetTokens[a] + FloorTokens(a)
<1> DEFINE L == BudgetTokens[a]
           Pct(share) == (L * share) \div 100
           Part(share) == IF share = 0 THEN 0 ELSE Larger(64, Pct(share))
           b == Allocation(a)
<1>1. L \in Nat \ {0}
  BY PromptAssumption
<1> DEFINE Sized(share) == /\ Pct(share) \in Nat /\ 100 * Pct(share) <= L * share
                           /\ Part(share) \in Nat /\ Pct(share) <= Part(share) /\ (share > 0 => Part(share) >= 64)
<1>2. \A share \in Nat : Sized(share)
  <2> HIDE DEF L
  <2>1. QED
    BY <1>1, SharePart
<1> HIDE DEF Sized
<1>3. CASE a = "evaluator"
  <2>1. /\ b.goal = Part(5) /\ b.project = Part(8) /\ b.conversation = Part(12)
        /\ b.skills = Part(0) /\ b.active = Part(20) /\ b.tools = Part(0)
        /\ b.routing = Part(0) /\ b.trajectory = Part(50) /\ b.feedback = Part(3)
    BY <1>3 DEF Allocation, Share, Percent
  <2>2. FloorTokens(a) = (Part(5) - Pct(5)) + (Part(8) - Pct(8))
          + (Part(12) - Pct(12)) + (Part(0) - Pct(0))
          + (Part(20) - Pct(20)) + (Part(0) - Pct(0))
          + (Part(0) - Pct(0)) + (Part(50) - Pct(50))
          + (Part(3) - Pct(3))
    <3>1. /\ Share(a).goal = 5 /\ Share(a).project = 8 /\ Share(a).conversation = 12
          /\ Share(a).skills = 0 /\ Share(a).active = 20 /\ Share(a).tools = 0
          /\ Share(a).routing = 0 /\ Share(a).trajectory = 50 /\ Share(a).feedback = 3
      BY <1>3 DEF Share
    <3> HIDE DEF Part
    <3>2. QED
      BY <2>1, <3>1 DEF FloorTokens, Percent
  <2> HIDE DEF L, Part, Pct, b
  <2>3. Sized(0) /\ Sized(3) /\ Sized(5) /\ Sized(8) /\ Sized(12) /\ Sized(20) /\ Sized(50)
    BY <1>2
  <2> USE DEF Sized
  <2>4. /\ b.goal \in Nat /\ b.goal >= 64 /\ b.project \in Nat /\ b.project >= 64
        /\ b.conversation \in Nat /\ b.skills \in Nat
    BY <2>1, <2>3
  <2>5. /\ b.active \in Nat /\ b.active >= 64 /\ b.tools \in Nat /\ b.routing \in Nat
        /\ b.trajectory \in Nat /\ b.feedback \in Nat
        /\ a # "responder" => b.feedback > 0
    BY <1>3, <2>1, <2>3
  <2>6. FloorTokens(a) \in Nat
    BY <2>2, <2>3
  <2>7. b.goal + b.project + b.conversation + b.skills + b.active + b.tools + b.routing
          + b.trajectory + b.feedback <= L + FloorTokens(a)
    BY <1>1, <2>1, <2>2, <2>3
  <2>8. QED
    BY <2>4, <2>5, <2>6, <2>7 DEF b, L
<1>4. CASE a = "responder"
  <2>1. /\ b.goal = Part(5) /\ b.project = Part(8) /\ b.conversation = Part(15)
        /\ b.skills = Part(5) /\ b.active = Part(15) /\ b.tools = Part(14)
        /\ b.routing = Part(0) /\ b.trajectory = Part(35) /\ b.feedback = Part(0)
    BY <1>4 DEF Allocation, Share, Percent
  <2>2. FloorTokens(a) = (Part(5) - Pct(5)) + (Part(8) - Pct(8))
          + (Part(15) - Pct(15)) + (Part(5) - Pct(5))
          + (Part(15) - Pct(15)) + (Part(14) - Pct(14))
          + (Part(0) - Pct(0)) + (Part(35) - Pct(35))
          + (Part(0) - Pct(0))
    <3>1. /\ Share(a).goal = 5 /\ Share(a).project = 8 /\ Share(a).conversation = 15
          /\ Share(a).skills = 5 /\ Share(a).active = 15 /\ Share(a).tools = 14
          /\ Share(a).routing = 0 /\ Share(a).trajectory = 35 /\ Share(a).feedback = 0
      BY <1>4 DEF Share
    <3> HIDE DEF Part
    <3>2. QED
      BY <2>1, <3>1 DEF FloorTokens, Percent
  <2> HIDE DEF L, Part, Pct, b
  <2>3. Sized(0) /\ Sized(5) /\ Sized(8) /\ Sized(14) /\ Sized(15) /\ Sized(35)
    BY <1>2
  <2> USE DEF Sized
  <2>4. /\ b.goal \in Nat /\ b.goal >= 64 /\ b.project \in Nat /\ b.project >= 64
        /\ b.conversation \in Nat /\ b.skills \in Nat
    BY <2>1, <2>3
  <2>5. /\ b.active \in Nat /\ b.active >= 64 /\ b.tools \in Nat /\ b.routing \in Nat
        /\ b.trajectory \in Nat /\ b.feedback \in Nat
        /\ a # "responder" => b.feedback > 0
    BY <1>4, <2>1, <2>3
  <2>6. FloorTokens(a) \in Nat
    BY <2>2, <2>3
  <2>7. b.goal + b.project + b.conversation + b.skills + b.active + b.tools + b.routing
          + b.trajectory + b.feedback <= L + FloorTokens(a)
    BY <1>1, <2>1, <2>2, <2>3
  <2>8. QED
    BY <2>4, <2>5, <2>6, <2>7 DEF b, L
<1>5. CASE a = "planner"
  <2>1. /\ b.goal = Part(4) /\ b.project = Part(6) /\ b.conversation = Part(12)
        /\ b.skills = Part(5) /\ b.active = Part(14) /\ b.tools = Part(27)
        /\ b.routing = Part(2) /\ b.trajectory = Part(27) /\ b.feedback = Part(2)
    BY <1>5 DEF Allocation, Share, Percent
  <2>2. FloorTokens(a) = (Part(4) - Pct(4)) + (Part(6) - Pct(6))
          + (Part(12) - Pct(12)) + (Part(5) - Pct(5))
          + (Part(14) - Pct(14)) + (Part(27) - Pct(27))
          + (Part(2) - Pct(2)) + (Part(27) - Pct(27))
          + (Part(2) - Pct(2))
    <3>1. /\ Share(a).goal = 4 /\ Share(a).project = 6 /\ Share(a).conversation = 12
          /\ Share(a).skills = 5 /\ Share(a).active = 14 /\ Share(a).tools = 27
          /\ Share(a).routing = 2 /\ Share(a).trajectory = 27 /\ Share(a).feedback = 2
      BY <1>5 DEF Share
    <3> HIDE DEF Part
    <3>2. QED
      BY <2>1, <3>1 DEF FloorTokens, Percent
  <2> HIDE DEF L, Part, Pct, b
  <2>3. Sized(2) /\ Sized(4) /\ Sized(5) /\ Sized(6) /\ Sized(12) /\ Sized(14) /\ Sized(27)
    BY <1>2
  <2> USE DEF Sized
  <2>4. /\ b.goal \in Nat /\ b.goal >= 64 /\ b.project \in Nat /\ b.project >= 64
        /\ b.conversation \in Nat /\ b.skills \in Nat
    BY <2>1, <2>3
  <2>5. /\ b.active \in Nat /\ b.active >= 64 /\ b.tools \in Nat /\ b.routing \in Nat
        /\ b.trajectory \in Nat /\ b.feedback \in Nat
        /\ a # "responder" => b.feedback > 0
    BY <1>5, <2>1, <2>3
  <2>6. FloorTokens(a) \in Nat
    BY <2>2, <2>3
  <2>7. b.goal + b.project + b.conversation + b.skills + b.active + b.tools + b.routing
          + b.trajectory + b.feedback <= L + FloorTokens(a)
    BY <1>1, <2>1, <2>2, <2>3
  <2>8. QED
    BY <2>4, <2>5, <2>6, <2>7 DEF b, L
<1>6. QED
  BY <1>3, <1>4, <1>5 DEF Audiences

\* A limit of 3200 has no share below the floor, and room for any message.
LEMMA FloorsAreFree ==
  ASSUME NEW a \in Audiences, BudgetTokens[a] >= 3200
  PROVE  FloorTokens(a) = 0 /\ Larger(0, 130 - Allocation(a).conversation) = 0
<1> DEFINE L == BudgetTokens[a]
           b == Allocation(a)
<1>1. L \in Nat /\ L >= 3200
  BY PromptAssumption
<1>2. \A share \in Nat : share = 0 \/ share >= 2 =>
         LET q == (L * share) \div 100
         IN q \in Nat /\ (IF share = 0 THEN 0 ELSE Larger(64, q)) = q /\ q >= 32 * share
  <2>1. SUFFICES ASSUME NEW share \in Nat, share = 0 \/ share >= 2
                 PROVE  LET q == (L * share) \div 100
                        IN q \in Nat /\ (IF share = 0 THEN 0 ELSE Larger(64, q)) = q /\ q >= 32 * share
    OBVIOUS
  <2> DEFINE x == L * share
  <2>2. x \in Nat /\ x >= 3200 * share
    <3>1. PICK l \in Nat : L = 3200 + l
      <4>1. L - 3200 \in Nat /\ L = 3200 + (L - 3200)
        BY <1>1
      <4>2. QED
        BY <4>1
    <3> HIDE DEF L
    <3>2. l * share \in Nat /\ L * share = 3200 * share + l * share
      BY <3>1
    <3>3. QED
      BY <3>2
  <2> HIDE DEF x
  <2>3. x \div 100 \in Nat /\ x \div 100 >= 32 * share /\ (x = 0 => x \div 100 = 0)
    BY <2>2
  <2>4. share = 0 => x = 0
    BY <1>1 DEF x
  <2>5. QED
    BY <2>1, <2>3, <2>4 DEF Larger, x
<1>3. \A s \in DOMAIN Share(a) : Share(a)[s] \in Nat /\ (Share(a)[s] = 0 \/ Share(a)[s] >= 2)
  BY DEF Share
<1>4. \A s \in DOMAIN Share(a) : Percent(a, s) \in Nat /\ b[s] = Percent(a, s) /\ b[s] >= 32 * Share(a)[s]
  BY <1>2, <1>3 DEF Allocation, Percent
<1>5. /\ DOMAIN Share(a) = {"goal", "project", "conversation", "skills", "active", "tools", "routing",
                           "trajectory", "feedback"}
      /\ Share(a).conversation >= 12
  BY DEF Share
<1> HIDE DEF b
<1>6. \A s \in DOMAIN Share(a) : Percent(a, s) \in Nat /\ b[s] - Percent(a, s) = 0
  BY <1>4
<1>7. FloorTokens(a) = 0
  BY <1>5, <1>6 DEF FloorTokens, b
<1>8. b.conversation \in Nat /\ b.conversation >= 384
  <2>1. b["conversation"] \in Nat /\ b["conversation"] >= 32 * Share(a)["conversation"]
    BY <1>4, <1>5
  <2>2. Share(a)["conversation"] \in Nat
    BY <1>3, <1>5
  <2>3. QED
    BY <1>5, <2>1, <2>2
<1>9. QED
  BY <1>7, <1>8 DEF Larger, b

\* An empty section says so.
LEMMA NoneFacts ==
  ASSUME NEW x \in Nat
  PROVE  NoneIfEmpty(x) \in Nat /\ NoneIfEmpty(x) <= Larger(x, 2) /\ NoneIfEmpty(x) <= x + 2
BY DEF NoneIfEmpty, Larger

\* Nine numbers, added by threes.
LEMMA NineNumbers ==
  \A x1, x2, x3, x4, x5, x6, x7, x8, x9 \in Nat :
     x1 + x2 + x3 + x4 + x5 + x6 + x7 + x8 + x9 = (x1 + x2 + x3) + (x4 + x5 + x6) + (x7 + x8 + x9)
OBVIOUS

\* The total of nine sections.
LEMMA NineSections ==
  ASSUME NEW s \in [1..9 -> Nat]
  PROVE  Total(s) = (s[1] + s[2] + s[3]) + (s[4] + s[5] + s[6]) + (s[7] + s[8] + s[9])
<1> DEFINE n == 9
<1>0. n \in Nat /\ s \in [1..n -> Nat]
  OBVIOUS
<1> HIDE DEF n
<1>1. s \in Seq(Nat) /\ Len(s) = n
  <2>1. s \in Seq(Nat)
    BY <1>0, SeqDef
  <2>2. DOMAIN s = 1..n
    BY <1>0
  <2>3. QED
    BY <1>0, <2>1, <2>2, LenProperties
<1> USE DEF n
<1>2. PICK sum : PartialSums(sum, Len(s), s) /\ Total(s) = sum[Len(s)]
  BY <1>1, TotalSum
<1>3. sum[0] = 0 /\ Total(s) = sum[9] /\ \A k \in 1..9 : sum[k] = sum[k - 1] + s[k]
  BY <1>1, <1>2 DEF PartialSums
<1>4. /\ sum[1] = sum[0] + s[1] /\ sum[2] = sum[1] + s[2] /\ sum[3] = sum[2] + s[3] /\ sum[4] = sum[3] + s[4]
      /\ sum[5] = sum[4] + s[5] /\ sum[6] = sum[5] + s[6] /\ sum[7] = sum[6] + s[7] /\ sum[8] = sum[7] + s[8]
      /\ sum[9] = sum[8] + s[9]
  <2>1. \A k \in 1..9 : sum[k] = sum[k - 1] + s[k]
    BY <1>3
  <2>2. /\ 1 - 1 = 0 /\ 2 - 1 = 1 /\ 3 - 1 = 2 /\ 4 - 1 = 3 /\ 5 - 1 = 4 /\ 6 - 1 = 5 /\ 7 - 1 = 6
        /\ 8 - 1 = 7 /\ 9 - 1 = 8
    OBVIOUS
  <2>3. \A k \in {1, 2, 3, 4, 5, 6, 7, 8, 9} : k \in 1..9
    OBVIOUS
  <2>4. QED
    BY <2>1, <2>2, <2>3
<1>5. /\ s[1] \in Nat /\ s[2] \in Nat /\ s[3] \in Nat /\ s[4] \in Nat /\ s[5] \in Nat /\ s[6] \in Nat
      /\ s[7] \in Nat /\ s[8] \in Nat /\ s[9] \in Nat
  OBVIOUS
<1>6. Total(s) = s[1] + s[2] + s[3] + s[4] + s[5] + s[6] + s[7] + s[8] + s[9]
  BY <1>3, <1>4, <1>5
<1>7. QED
  BY <1>5, <1>6, NineNumbers

\* Three sums of three: what the sections come to, and their budgets.
LEMMA ThreeSizes ==
  ASSUME NEW x \in Nat, NEW y \in Nat, NEW z \in Nat, NEW k \in Nat, NEW l \in Nat, NEW m \in Nat,
         x <= k, y <= l, z <= m
  PROVE  x + y + z \in Nat /\ x + y + z <= k + l + m
OBVIOUS

\* What the planner, the evaluator and the responder are sent.
LEMMA BuildFacts ==
  ASSUME Tools # {}, NEW a \in Audiences, NEW turn, NEW hints \in SUBSET Tools,
         turn.goal \in Goals, turn.context \in Seq(Message), turn.active \in Seq(Skills),
         turn.steps \in Seq(StepRecord)
  PROVE  LET p == Build(a, turn, hints) IN
         /\ turn.context # <<>> => p.messages >= 1
         /\ turn.steps # <<>> => p.steps >= 1
         /\ turn.active # <<>> => p.artifacts # {}
         /\ p.tokens <= BudgetTokens[a] + Overhang(a)
<1> DEFINE b == Allocation(a)
           lGoal == b.goal
           lProject == b.project
           lConversation == b.conversation
           lSkills == b.skills
           lActive == b.active
           lTools == b.tools
           lRouting == b.routing
           lTrajectory == b.trajectory
           lFeedback == b.feedback
           conversation == RenderConversation(turn.context, lConversation)
           artifacts == RenderArtifacts(turn.active, turn.goal, lActive)
           trajectory == RenderTrajectory(turn.steps, lTrajectory)
           s3 == conversation.tokens
           s5 == artifacts.tokens
           used == trajectory.tokens
           s1 == Clip(Tokens(GoalRunes[turn.goal]), lGoal)
           s2 == Clip(ProjectTokens, lProject)
           s4 == IF lSkills = 0 THEN 0 ELSE Clip(CatalogTokens, lSkills)
           s6 == RenderTools(turn.goal, turn.steps, hints, lTools)
           s7 == IF lRouting = 0 THEN 0 ELSE Clip(8 * Cardinality(hints), lRouting)
           s8 == used + PlanPart(lTrajectory)
           s9 == IF a = "responder" THEN 0 ELSE Clip(FeedbackTokens, lFeedback)
           sections == <<s1, s2, s3, s4, s5, s6, s7, s8, s9>>
           sizes == [i \in DOMAIN sections |-> NoneIfEmpty(sections[i])]
           plan == Larger(128, lTrajectory \div 3)
           tool == Larger(0, LargestTool - lTools)
           floors == FloorTokens(a)
           first == Larger(0, 130 - lConversation)
<1>1. Build(a, turn, hints) = [messages |-> conversation.kept, steps |-> trajectory.kept,
                               artifacts |-> artifacts.kept, tokens |-> Total(sizes)]
  BY DEF Build
<1>2. Overhang(a) = plan + 128 + 7 * NoteTokens + tool + floors + first
  BY DEF Overhang, LargestTool
<1>3. /\ lGoal \in Nat /\ lGoal >= 64 /\ lProject \in Nat /\ lProject >= 64
      /\ lConversation \in Nat /\ lSkills \in Nat
      /\ lActive \in Nat /\ lActive >= 64 /\ lTools \in Nat /\ lRouting \in Nat
      /\ lTrajectory \in Nat /\ lFeedback \in Nat
  BY AllocationFacts
<1>sum. /\ floors \in Nat
        /\ lGoal + lProject + lConversation + lSkills + lActive + lTools + lRouting
             + lTrajectory + lFeedback <= BudgetTokens[a] + floors
  BY AllocationFacts
<1>told. a # "responder" => lFeedback > 0
  BY AllocationFacts
<1>4. ProjectTokens \in Nat /\ CatalogTokens \in Nat /\ FeedbackTokens \in Nat /\ BudgetTokens[a] \in Nat
  BY PromptAssumption
<1>5. LargestTool \in Nat /\ IsFiniteSet(Tools)
  BY LargestFacts
<1> HIDE DEF b, lGoal, lProject, lConversation, lSkills, lActive, lTools, lRouting, lTrajectory, lFeedback, sections, sizes
<1>6. s1 \in Nat /\ s1 <= lGoal
  <2>1. GoalRunes[turn.goal] \in Lengths
    BY PromptAssumption
  <2>2. GoalRunes[turn.goal] \in Nat
    BY <2>1, ConversationAssumption
  <2>3. Tokens(GoalRunes[turn.goal]) \in Nat
    BY <2>2, TokensFacts
  <2>4. lGoal > 0
    BY <1>3
  <2>5. QED
    BY <1>3, <2>3, <2>4, ClipFacts
<1>7. s2 \in Nat /\ s2 <= lProject
  <2>1. lProject > 0
    BY <1>3
  <2>2. QED
    BY <1>3, <1>4, <2>1, ClipFacts
<1>8. /\ s3 \in Nat /\ s3 <= lConversation + first + 22
      /\ turn.context # <<>> => conversation.kept >= 1
  BY <1>3, ConversationPart DEF NoteTokens
<1>9. s4 \in Nat /\ s4 <= lSkills
  <2>1. CASE lSkills = 0
    BY <1>3, <2>1
  <2>2. CASE lSkills # 0
    <3>1. lSkills > 0
      BY <1>3, <2>2
    <3>2. QED
      BY <1>3, <1>4, <2>2, <3>1, ClipFacts
  <2>3. QED
    BY <2>1, <2>2
<1>10. /\ s5 \in Nat /\ s5 <= lActive + 24
       /\ turn.active # <<>> => artifacts.kept # {}
  <2>1. lActive > 0
    BY <1>3
  <2>2. /\ s5 \in Nat /\ s5 <= lActive + 2 + NoteTokens
        /\ turn.active # <<>> => artifacts.kept # {}
    BY <1>3, <2>1, ArtifactsPart
  <2> HIDE DEF artifacts, s5
  <2>3. QED
    BY <1>3, <2>2 DEF NoteTokens
<1>11. s6 \in Nat /\ s6 <= lTools + tool + 22
  BY <1>3, ToolsPart DEF NoteTokens
<1>12. s7 \in Nat /\ s7 <= lRouting
  <2>1. CASE lRouting = 0
    BY <1>3, <2>1
  <2>2. CASE lRouting # 0
    <3>1. lRouting > 0
      BY <1>3, <2>2
    <3>2. Cardinality(hints) \in Nat
      BY <1>5, FS_Subset, FS_CardinalityType
    <3>3. 8 * Cardinality(hints) \in Nat
      BY <3>2
    <3>4. QED
      BY <1>3, <2>2, <3>1, <3>3, ClipFacts
  <2>3. QED
    BY <2>1, <2>2
<1>13. /\ used \in Nat /\ used <= lTrajectory + 128
       /\ turn.steps # <<>> => trajectory.kept >= 1
  BY <1>3, TrajectoryPart
<1>14. PlanPart(lTrajectory) \in Nat /\ PlanPart(lTrajectory) <= plan + 22
  BY <1>3, PlanFacts DEF NoteTokens
<1>15. plan \in Nat /\ tool \in Nat /\ first \in Nat
  <2>1. lTrajectory \div 3 \in Int
    BY <1>3
  <2>2. LargestTool - lTools \in Int
    BY <1>3, <1>5
  <2>3. 130 - lConversation \in Int
    BY <1>3
  <2>4. QED
    BY <2>1, <2>2, <2>3 DEF Larger
<1> HIDE DEF conversation, artifacts, trajectory, s3, s5, used, plan, tool, floors, first
<1>16. s8 \in Nat /\ s8 <= lTrajectory + plan + 150
  BY <1>3, <1>13, <1>14, <1>15
<1>17. s9 \in Nat /\ s9 <= lFeedback
  <2>1. CASE a = "responder"
    BY <1>3, <2>1
  <2>2. CASE a # "responder"
    BY <1>3, <1>4, <1>told, <2>2, ClipFacts
  <2>3. QED
    BY <2>1, <2>2
<1> HIDE DEF s1, s2, s4, s6, s7, s8, s9
<1>18. /\ sizes \in [1..9 -> Nat]
       /\ sizes[1] = NoneIfEmpty(s1) /\ sizes[2] = NoneIfEmpty(s2) /\ sizes[3] = NoneIfEmpty(s3)
       /\ sizes[4] = NoneIfEmpty(s4) /\ sizes[5] = NoneIfEmpty(s5) /\ sizes[6] = NoneIfEmpty(s6)
       /\ sizes[7] = NoneIfEmpty(s7) /\ sizes[8] = NoneIfEmpty(s8) /\ sizes[9] = NoneIfEmpty(s9)
  <2> USE DEF sections, sizes
  <2>1. /\ sections[1] = s1 /\ sections[2] = s2 /\ sections[3] = s3 /\ sections[4] = s4
        /\ sections[5] = s5 /\ sections[6] = s6 /\ sections[7] = s7 /\ sections[8] = s8
        /\ sections[9] = s9 /\ DOMAIN sections = 1..9
    OBVIOUS
  <2> HIDE DEF sections
  <2>2. \A i \in 1..9 : sections[i] \in Nat
    <3>1. \A i \in 1..9 : i \in {1, 2, 3, 4, 5, 6, 7, 8, 9}
      OBVIOUS
    <3>2. QED
      BY <1>6, <1>7, <1>8, <1>9, <1>10, <1>11, <1>12, <1>16, <1>17, <2>1, <3>1
  <2>3. \A i \in 1..9 : NoneIfEmpty(sections[i]) \in Nat
    BY <2>2, NoneFacts
  <2>4. sizes \in [1..9 -> Nat] /\ \A i \in 1..9 : sizes[i] = NoneIfEmpty(sections[i])
    BY <2>1, <2>3
  <2> HIDE DEF sizes
  <2>5. \A i \in {1, 2, 3, 4, 5, 6, 7, 8, 9} : i \in 1..9
    OBVIOUS
  <2>6. \A i \in {1, 2, 3, 4, 5, 6, 7, 8, 9} : sizes[i] = NoneIfEmpty(sections[i])
    BY <2>4, <2>5
  <2>7. QED
    BY <2>1, <2>4, <2>6
<1> HIDE DEF sizes
<1>19. Total(sizes) = (sizes[1] + sizes[2] + sizes[3]) + (sizes[4] + sizes[5] + sizes[6])
                        + (sizes[7] + sizes[8] + sizes[9])
  BY <1>18, NineSections
<1>20. ASSUME NEW x \in Nat, NEW y \in Nat, x <= y, y >= 2
       PROVE  NoneIfEmpty(x) \in Nat /\ NoneIfEmpty(x) <= y
  BY <1>20 DEF NoneIfEmpty
<1>21. sizes[1] \in Nat /\ sizes[1] <= lGoal /\ sizes[2] \in Nat /\ sizes[2] <= lProject
  <2>1. lGoal >= 2 /\ lProject >= 2
    BY <1>3
  <2>2. NoneIfEmpty(s1) \in Nat /\ NoneIfEmpty(s1) <= lGoal
    BY <1>3, <1>6, <1>20, <2>1
  <2>3. NoneIfEmpty(s2) \in Nat /\ NoneIfEmpty(s2) <= lProject
    BY <1>3, <1>7, <1>20, <2>1
  <2>4. QED
    BY <1>18, <2>2, <2>3
<1>22. sizes[3] \in Nat /\ sizes[3] <= lConversation + first + 22
  <2>1. lConversation + first + 22 \in Nat /\ lConversation + first + 22 >= 2
    BY <1>3, <1>15
  <2> DEFINE most == lConversation + first + 22
  <2> HIDE DEF most
  <2>2. NoneIfEmpty(s3) \in Nat /\ NoneIfEmpty(s3) <= most
    <3>1. most \in Nat /\ most >= 2 /\ s3 \in Nat /\ s3 <= most
      BY <1>8, <2>1 DEF most
    <3>2. QED
      BY <1>20, <3>1
  <2>3. QED
    BY <1>18, <2>2 DEF most
<1>23. sizes[4] \in Nat /\ sizes[4] <= lSkills + 2 /\ sizes[7] \in Nat /\ sizes[7] <= lRouting + 2
  <2>1. NoneIfEmpty(s4) \in Nat /\ NoneIfEmpty(s4) <= s4 + 2
    BY <1>9, NoneFacts
  <2>2. NoneIfEmpty(s7) \in Nat /\ NoneIfEmpty(s7) <= s7 + 2
    BY <1>12, NoneFacts
  <2>3. NoneIfEmpty(s4) <= lSkills + 2
    BY <1>3, <1>9, <2>1
  <2>4. NoneIfEmpty(s7) <= lRouting + 2
    BY <1>3, <1>12, <2>2
  <2>5. QED
    BY <1>18, <2>1, <2>2, <2>3, <2>4
<1>24. sizes[5] \in Nat /\ sizes[5] <= lActive + 24
  <2>1. lActive + 24 \in Nat /\ lActive + 24 >= 2
    BY <1>3
  <2> DEFINE most == lActive + 24
  <2> HIDE DEF most
  <2>2. NoneIfEmpty(s5) \in Nat /\ NoneIfEmpty(s5) <= most
    <3>1. most \in Nat /\ most >= 2 /\ s5 \in Nat /\ s5 <= most
      BY <1>10, <2>1 DEF most
    <3>2. QED
      BY <1>20, <3>1
  <2>3. QED
    BY <1>18, <2>2 DEF most
<1>25. sizes[6] \in Nat /\ sizes[6] <= lTools + tool + 22
  <2>1. lTools + tool + 22 \in Nat /\ lTools + tool + 22 >= 2
    BY <1>3, <1>15
  <2> DEFINE most == lTools + tool + 22
  <2> HIDE DEF most
  <2>2. NoneIfEmpty(s6) \in Nat /\ NoneIfEmpty(s6) <= most
    <3>1. most \in Nat /\ most >= 2 /\ s6 \in Nat /\ s6 <= most
      BY <1>11, <2>1 DEF most
    <3>2. QED
      BY <1>20, <3>1
  <2>3. QED
    BY <1>18, <2>2 DEF most
<1>26. sizes[8] \in Nat /\ sizes[8] <= lTrajectory + plan + 150
  <2>1. lTrajectory + plan + 150 \in Nat /\ lTrajectory + plan + 150 >= 2
    BY <1>3, <1>15
  <2> DEFINE most == lTrajectory + plan + 150
  <2> HIDE DEF most
  <2>2. NoneIfEmpty(s8) \in Nat /\ NoneIfEmpty(s8) <= most
    <3>1. most \in Nat /\ most >= 2 /\ s8 \in Nat /\ s8 <= most
      BY <1>16, <2>1 DEF most
    <3>2. QED
      BY <1>20, <3>1
  <2>3. QED
    BY <1>18, <2>2 DEF most
<1>27. sizes[9] \in Nat /\ sizes[9] <= lFeedback + 2
  <2>1. NoneIfEmpty(s9) \in Nat /\ NoneIfEmpty(s9) <= s9 + 2
    BY <1>17, NoneFacts
  <2>2. lFeedback \in Nat
    BY <1>3
  <2>3. NoneIfEmpty(s9) <= lFeedback + 2
    BY <1>17, <2>1, <2>2
  <2>4. QED
    BY <1>18, <2>1, <2>3
<1>28. Total(sizes) <= BudgetTokens[a] + (plan + 128 + 7 * 22 + tool + floors + first)
  <2> DEFINE t1 == sizes[1] + sizes[2] + sizes[3]
             t2 == sizes[4] + sizes[5] + sizes[6]
             t3 == sizes[7] + sizes[8] + sizes[9]
             l1 == lGoal + lProject + lConversation
             l2 == lSkills + lActive + lTools
             l3 == lRouting + lTrajectory + lFeedback
  <2>0. l1 \in Nat /\ l2 \in Nat /\ l3 \in Nat
    BY <1>3
  <2>1. t1 \in Nat /\ t1 <= l1 + first + 22
    <3>1. /\ lConversation + first + 22 \in Nat
          /\ lGoal + lProject + (lConversation + first + 22) = l1 + first + 22
      BY <1>3, <1>15
    <3>2. t1 \in Nat /\ t1 <= lGoal + lProject + (lConversation + first + 22)
      BY <1>3, <1>21, <1>22, <3>1, ThreeSizes
    <3> HIDE DEF t1, l1
    <3>3. QED
      BY <3>1, <3>2
  <2>2. t2 \in Nat /\ t2 <= l2 + tool + 48
    <3>1. /\ lSkills + 2 \in Nat /\ lActive + 24 \in Nat /\ lTools + tool + 22 \in Nat
          /\ (lSkills + 2) + (lActive + 24) + (lTools + tool + 22) = l2 + tool + 48
      BY <1>3, <1>15
    <3>2. t2 \in Nat /\ t2 <= (lSkills + 2) + (lActive + 24) + (lTools + tool + 22)
      BY <1>23, <1>24, <1>25, <3>1, ThreeSizes
    <3> HIDE DEF t2, l2
    <3>3. QED
      BY <3>1, <3>2
  <2>3. t3 \in Nat /\ t3 <= l3 + plan + 154
    <3>0. lRouting + 2 \in Nat /\ lTrajectory + plan + 150 \in Nat /\ lFeedback + 2 \in Nat
      BY <1>3, <1>15
    <3>1. (lRouting + 2) + (lTrajectory + plan + 150) + (lFeedback + 2) = l3 + plan + 154
      BY <1>3, <1>15
    <3>2. t3 \in Nat /\ t3 <= (lRouting + 2) + (lTrajectory + plan + 150) + (lFeedback + 2)
      <4> DEFINE x == sizes[7]
                 y == sizes[8]
                 z == sizes[9]
                 m7 == lRouting + 2
                 m8 == lTrajectory + plan + 150
                 m9 == lFeedback + 2
      <4>1. x \in Nat /\ x <= m7
        BY <1>23
      <4>2. y \in Nat /\ y <= m8
        BY <1>26
      <4>3. z \in Nat /\ z <= m9
        BY <1>27
      <4>4. m7 \in Nat /\ m8 \in Nat /\ m9 \in Nat
        BY <3>0
      <4> HIDE DEF x, y, z, m7, m8, m9
      <4>5. x + y + z \in Nat /\ x + y + z <= m7 + m8 + m9
        BY <4>1, <4>2, <4>3, <4>4, ThreeSizes
      <4>6. QED
        BY <4>5 DEF x, y, z, m7, m8, m9
    <3> HIDE DEF t3, l3
    <3>3. QED
      BY <3>1, <3>2
  <2>4. Total(sizes) = t1 + t2 + t3
    BY <1>19
  <2>5. l1 + l2 + l3 <= BudgetTokens[a] + floors /\ floors \in Nat
    BY <1>3, <1>sum
  <2> HIDE DEF t1, t2, t3, l1, l2, l3
  <2>6. QED
    BY <1>4, <1>15, <2>0, <2>1, <2>2, <2>3, <2>4, <2>5
<1>29. QED
  BY <1>1, <1>2, <1>8, <1>10, <1>13, <1>28 DEF NoteTokens

=============================================================================
