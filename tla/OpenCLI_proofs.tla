---------------------------- MODULE OpenCLI_proofs ----------------------------
(***************************************************************************)
(* ArgumentsSurvive for every catalogue: whatever commands OpenCLI lists   *)
(* and whatever values a call gives, the command line that the provider    *)
(* compiles is read as what the call says.  The command line is made of    *)
(* segments, one per input, one after another (FlattenSeq): the proof      *)
(* shows that each segment stands in it unbroken and that nothing else     *)
(* does, and then that OpenCLI's parser takes every segment for what it    *)
(* is.                                                                     *)
(***************************************************************************)
EXTENDS OpenCLI, Toolset, SequenceTheorems, FiniteSetTheorems, WellFoundedInduction, TLAPS

-----------------------------------------------------------------------------
(* Induction up to a number. *)

\* A set of naturals that is not empty has a least element.
LEMMA LeastNumber ==
  ASSUME NEW T \in SUBSET Nat, T # {}
  PROVE  \E m \in T : \A k \in T : ~(k < m)
<1> DEFINE R == OpToRel(<, Nat)
<1>1. \A k, m \in Nat : <<k, m>> \in R <=> k < m
  BY DEF OpToRel
<1>2. IsWellFoundedOn(R, Nat)
  BY NatLessThanWellFounded
<1> HIDE DEF R
<1>3. PICK m \in T : \A k \in T : ~(<<k, m>> \in R)
  BY <1>2, WFMin
<1>4. QED
  BY <1>1, <1>3

\* Induction up to n, for a set of numbers.
LEMMA NumbersUpTo ==
  ASSUME NEW n \in Nat, NEW T, 0 \in T, \A k \in 0..n : k < n /\ k \in T => k + 1 \in T
  PROVE  \A k \in 0..n : k \in T
<1> DEFINE Bad == {k \in 0..n : k \notin T}
<1>1. SUFFICES ASSUME Bad # {} PROVE FALSE
  OBVIOUS
<1>2. Bad \in SUBSET Nat
  OBVIOUS
<1>3. PICK m \in Bad : \A k \in Bad : ~(k < m)
  BY <1>1, <1>2, LeastNumber
<1>4. m \in 0..n /\ m # 0 /\ m \notin T
  BY <1>3
<1>5. m - 1 \in 0..n /\ m - 1 < n /\ m - 1 < m /\ (m - 1) + 1 = m
  BY <1>4
<1>6. m - 1 \in T
  BY <1>3, <1>5
<1>7. QED
  BY <1>4, <1>5, <1>6

-----------------------------------------------------------------------------
(* FlattenSeq. *)

\* f holds the first parts of ss, joined.
Joins(f, ss, n) == /\ n > 0 => f[1] = ss[1]
                   /\ \A i \in 2..n : f[i] = f[i - 1] \o ss[i]

\* There is such a function up to every length.
LEMMA JoinsExist ==
  ASSUME NEW T, NEW ss \in Seq(Seq(T))
  PROVE  \E f \in [1..Len(ss) -> Seq(T)] : Joins(f, ss, Len(ss))
<1> DEFINE n == Len(ss)
           Joined(k) == \E f \in [1..k -> Seq(T)] : Joins(f, ss, k)
           Solved == {k \in 0..n : Joined(k)}
<1>1. n \in Nat /\ \A i \in 1..n : ss[i] \in Seq(T)
  BY LenProperties, ElementOfSeq
<1> HIDE DEF n
<1>2. Joined(0)
  <2>1. [i \in 1..0 |-> <<>>] \in [1..0 -> Seq(T)]
    OBVIOUS
  <2>2. Joins([i \in 1..0 |-> <<>>], ss, 0)
    BY DEF Joins
  <2>3. QED
    BY <2>1, <2>2
<1>3. ASSUME NEW k \in 0..n, k < n, Joined(k) PROVE Joined(k + 1)
  <2>1. PICK f \in [1..k -> Seq(T)] : Joins(f, ss, k)
    BY <1>3
  <2>2. k \in Nat /\ k + 1 \in 1..n /\ ss[k + 1] \in Seq(T)
    BY <1>1, <1>3
  <2> DEFINE new == IF k = 0 THEN ss[1] ELSE f[k] \o ss[k + 1]
             g == [i \in 1..(k + 1) |-> IF i = k + 1 THEN new ELSE f[i]]
  <2>3. new \in Seq(T)
    <3>1. CASE k = 0
      BY <2>2, <3>1
    <3>2. CASE k # 0
      <4>1. f[k] \in Seq(T)
        BY <2>2, <3>2
      <4>2. f[k] \o ss[k + 1] \in Seq(T)
        BY <2>2, <4>1, ConcatProperties
      <4>3. QED
        BY <3>2, <4>2
    <3>3. QED
      BY <3>1, <3>2
  <2>4. /\ k = 0 => new = ss[1]
        /\ k # 0 => new = f[k] \o ss[k + 1]
    OBVIOUS
  <2> HIDE DEF new
  <2>5. g \in [1..(k + 1) -> Seq(T)]
    BY <2>2, <2>3
  <2>6. g[1] = ss[1]
    BY <2>1, <2>2, <2>4 DEF Joins
  <2>7. ASSUME NEW i \in 2..(k + 1) PROVE g[i] = g[i - 1] \o ss[i]
    <3>1. CASE i = k + 1
      <4>1. k # 0 /\ k \in 1..(k + 1) /\ k # k + 1 /\ i - 1 = k
        BY <2>2, <3>1
      <4>2. g[i] = new /\ g[k] = f[k]
        BY <2>2, <3>1, <4>1
      <4> HIDE DEF g
      <4>3. QED
        BY <2>4, <3>1, <4>1, <4>2
    <3>2. CASE i # k + 1
      <4>1. i \in 2..k /\ i \in 1..k /\ i - 1 \in 1..k /\ i - 1 # k + 1
        BY <2>2, <3>2
      <4>2. g[i] = f[i] /\ g[i - 1] = f[i - 1]
        BY <2>2, <3>2, <4>1
      <4> HIDE DEF g
      <4>3. QED
        BY <2>1, <4>1, <4>2 DEF Joins
    <3>3. QED
      BY <3>1, <3>2
  <2> HIDE DEF g
  <2>8. Joins(g, ss, k + 1)
    BY <2>6, <2>7 DEF Joins
  <2>9. QED
    BY <2>5, <2>8
<1> HIDE DEF Joined
<1>4. \A k \in 0..n : k < n /\ k \in Solved => k + 1 \in Solved
  <2>1. SUFFICES ASSUME NEW k \in 0..n, k < n, k \in Solved PROVE k + 1 \in Solved
    OBVIOUS
  <2>2. k + 1 \in 0..n /\ Joined(k)
    BY <1>1, <2>1
  <2>3. QED
    BY <1>3, <2>1, <2>2
<1>5. 0 \in Solved
  BY <1>1, <1>2
<1>6. \A k \in 0..n : k \in Solved
  <2> HIDE DEF Solved
  <2>1. QED
    BY <1>1, <1>4, <1>5, NumbersUpTo
<1>7. Joined(n)
  BY <1>1, <1>6
<1>8. QED
  BY <1>7 DEF n, Joined

\* FlattenSeq gives the last value of such a function.
LEMMA FlattenJoins ==
  ASSUME NEW T, NEW ss \in Seq(Seq(T)), Len(ss) > 0
  PROVE  \E f : Joins(f, ss, Len(ss)) /\ FlattenSeq(ss) = f[Len(ss)]
<1> DEFINE n == Len(ss)
           Body(f) == [i \in 1..n |-> IF i = 1 THEN ss[i] ELSE f[i - 1] \o ss[i]]
           flatten == CHOOSE f : f = Body(f)
<1>1. PICK h \in [1..n -> Seq(T)] : Joins(h, ss, n)
  BY JoinsExist
<1>2. n \in Nat /\ n # 0
  BY LenProperties
<1>3. h = Body(h)
  <2>1. ASSUME NEW i \in 1..n PROVE h[i] = Body(h)[i]
    <3>1. n > 0 /\ (i # 1 => i \in 2..n)
      BY <1>2
    <3>2. QED
      BY <1>1, <3>1 DEF Joins
  <2>2. QED
    BY <2>1
<1>4. flatten = Body(flatten)
  BY <1>3
<1>5. FlattenSeq(ss) = flatten[n]
  BY <1>2 DEF FlattenSeq
<1>6. Joins(flatten, ss, n)
  <2> HIDE DEF flatten
  <2>1. \A i \in 1..n : flatten[i] = IF i = 1 THEN ss[i] ELSE flatten[i - 1] \o ss[i]
    BY <1>4
  <2>2. 1 \in 1..n /\ \A i \in 2..n : i \in 1..n /\ i # 1
    BY <1>2
  <2>3. QED
    BY <2>1, <2>2 DEF Joins
<1>7. QED
  BY <1>5, <1>6

-----------------------------------------------------------------------------
(* Segments. *)

\* s stands in F after the first d elements.
Segment(F, s, d) == \A j \in 1..Len(s) : d + j \in 1..Len(F) /\ F[d + j] = s[j]

\* Every element of F lies in one of the first k sequences of ss, and these stand in F.
Covered(F, ss, k) == \A n \in 1..Len(F) : \E i \in 1..k : \E d \in Nat :
                         d < n /\ n <= d + Len(ss[i]) /\ Segment(F, ss[i], d)
Present(F, ss, k) == \A i \in 1..k : \E d \in Nat : Segment(F, ss[i], d)

\* A segment stays when something is appended, and what is appended is one.
LEMMA SegmentAppended ==
  ASSUME NEW T, NEW F \in Seq(T), NEW s \in Seq(T)
  PROVE  /\ \A t \in Seq(T), d \in Nat : Segment(F, t, d) => Segment(F \o s, t, d)
         /\ Segment(F \o s, s, Len(F))
<1>1. /\ F \o s \in Seq(T) /\ Len(F \o s) = Len(F) + Len(s) /\ Len(F) \in Nat /\ Len(s) \in Nat
      /\ \A n \in 1..(Len(F) + Len(s)) : (F \o s)[n] = IF n <= Len(F) THEN F[n] ELSE s[n - Len(F)]
  BY ConcatProperties, LenProperties
<1>2. ASSUME NEW t \in Seq(T), NEW d \in Nat, Segment(F, t, d), NEW j \in 1..Len(t)
      PROVE  d + j \in 1..Len(F \o s) /\ (F \o s)[d + j] = t[j]
  <2>1. d + j \in 1..Len(F) /\ F[d + j] = t[j]
    BY <1>2 DEF Segment
  <2>2. d + j \in 1..(Len(F) + Len(s)) /\ d + j <= Len(F)
    BY <1>1, <2>1
  <2>3. QED
    BY <1>1, <2>1, <2>2
<1>3. ASSUME NEW j \in 1..Len(s)
      PROVE  Len(F) + j \in 1..Len(F \o s) /\ (F \o s)[Len(F) + j] = s[j]
  <2>1. /\ Len(F) + j \in 1..(Len(F) + Len(s))
        /\ ~(Len(F) + j <= Len(F)) /\ (Len(F) + j) - Len(F) = j
    BY <1>1
  <2>2. QED
    BY <1>1, <2>1
<1>4. QED
  BY <1>2, <1>3 DEF Segment

\* F is made of the first k sequences of ss.
MadeOf(F, T, ss, k) == F \in Seq(T) /\ Covered(F, ss, k) /\ Present(F, ss, k)

LEMMA MadeOfAppended ==
  ASSUME NEW T, NEW ss \in Seq(Seq(T)), NEW k \in Nat, k + 1 \in 1..Len(ss), NEW F, MadeOf(F, T, ss, k)
  PROVE  MadeOf(F \o ss[k + 1], T, ss, k + 1)
<1> DEFINE s == ss[k + 1]
           G == F \o s
<1>1. /\ F \in Seq(T) /\ s \in Seq(T) /\ Len(F) \in Nat /\ Len(s) \in Nat
      /\ \A i \in 1..k : ss[i] \in Seq(T)
  <2>1. Len(ss) \in Nat /\ \A i \in 1..Len(ss) : ss[i] \in Seq(T)
    BY LenProperties, ElementOfSeq
  <2>2. \A i \in 1..k : i \in 1..Len(ss)
    BY <2>1
  <2>3. F \in Seq(T) /\ s \in Seq(T)
    BY <2>1 DEF MadeOf
  <2>4. QED
    BY <2>1, <2>2, <2>3, LenProperties
<1>2. /\ G \in Seq(T) /\ Len(G) = Len(F) + Len(s)
      /\ \A t \in Seq(T), d \in Nat : Segment(F, t, d) => Segment(G, t, d)
      /\ Segment(G, s, Len(F))
  BY <1>1, SegmentAppended, ConcatProperties
<1> HIDE DEF G, s
<1>3. ASSUME NEW n \in 1..Len(G)
      PROVE  \E i \in 1..(k + 1) : \E d \in Nat : d < n /\ n <= d + Len(ss[i]) /\ Segment(G, ss[i], d)
  <2>1. CASE n <= Len(F)
    <3>1. n \in 1..Len(F)
      BY <1>1, <2>1
    <3>2. PICK i \in 1..k : \E d \in Nat : d < n /\ n <= d + Len(ss[i]) /\ Segment(F, ss[i], d)
      BY <3>1 DEF MadeOf, Covered
    <3>3. i \in 1..(k + 1)
      OBVIOUS
    <3>4. QED
      BY <1>1, <1>2, <3>2, <3>3
  <2>2. CASE ~(n <= Len(F))
    <3>1. Len(F) < n /\ n <= Len(F) + Len(s) /\ k + 1 \in 1..(k + 1)
      BY <1>1, <1>2, <2>2
    <3>2. Segment(G, ss[k + 1], Len(F)) /\ Len(s) = Len(ss[k + 1])
      BY <1>2 DEF s
    <3>3. QED
      BY <1>1, <3>1, <3>2
  <2>3. QED
    BY <2>1, <2>2
<1>4. ASSUME NEW i \in 1..(k + 1) PROVE \E d \in Nat : Segment(G, ss[i], d)
  <2>1. CASE i = k + 1
    BY <1>1, <1>2, <2>1 DEF s
  <2>2. CASE i # k + 1
    <3>1. i \in 1..k
      BY <2>2
    <3>2. QED
      BY <1>1, <1>2, <3>1 DEF MadeOf, Present
  <2>3. QED
    BY <2>1, <2>2
<1>5. Covered(G, ss, k + 1) /\ Present(G, ss, k + 1)
  BY <1>3, <1>4 DEF Covered, Present
<1>6. QED
  BY <1>2, <1>5 DEF MadeOf, G, s

\* What is flattened is made of all the sequences.
LEMMA FlattenMadeOf ==
  ASSUME NEW T, NEW ss \in Seq(Seq(T))
  PROVE  MadeOf(FlattenSeq(ss), T, ss, Len(ss))
<1> DEFINE n == Len(ss)
<1>1. n \in Nat
  BY LenProperties
<1>2. MadeOf(<<>>, T, ss, 0)
  <2>1. <<>> \in Seq(T) /\ Len(<<>>) = 0
    BY EmptySeq
  <2>2. Covered(<<>>, ss, 0) /\ Present(<<>>, ss, 0)
    BY <2>1 DEF Covered, Present
  <2>3. QED
    BY <2>1, <2>2 DEF MadeOf
<1>3. CASE n = 0
  <2>1. ss = <<>>
    BY <1>3, EmptySeq
  <2>2. FlattenSeq(ss) = <<>>
    BY <1>3, <2>1 DEF FlattenSeq
  <2>3. QED
    BY <1>2, <1>3, <2>2
<1>4. CASE n # 0
  <2>1. n > 0
    BY <1>1, <1>4
  <2>2. PICK f : Joins(f, ss, n) /\ FlattenSeq(ss) = f[n]
    BY <2>1, FlattenJoins
  <2> DEFINE S == {k \in 0..n : k > 0 => MadeOf(f[k], T, ss, k)}
  <2>3. ASSUME NEW k \in 0..n, k < n, k \in S PROVE k + 1 \in S
    <3>1. k \in Nat /\ k + 1 \in 1..n /\ k + 1 \in 0..n
      BY <1>1, <2>3
    <3>2. CASE k = 0
      <4>1. MadeOf(<<>> \o ss[1], T, ss, 1)
        <5>1. 0 + 1 = 1 /\ 0 + 1 \in 1..n
          BY <3>1, <3>2
        <5>2. MadeOf(<<>> \o ss[0 + 1], T, ss, 0 + 1)
          BY <1>2, <5>1, MadeOfAppended
        <5>3. QED
          BY <5>1, <5>2
      <4>2. ss[1] \in Seq(T)
        BY <3>1, <3>2, ElementOfSeq
      <4>3. <<>> \o ss[1] = ss[1]
        BY <4>2, ConcatEmptySeq
      <4>4. f[1] = ss[1]
        BY <2>1, <2>2 DEF Joins
      <4>5. QED
        BY <3>1, <3>2, <4>1, <4>3, <4>4
    <3>3. CASE k # 0
      <4>1. k > 0 /\ k + 1 \in 2..n /\ (k + 1) - 1 = k
        BY <3>1, <3>3
      <4>2. MadeOf(f[k], T, ss, k)
        BY <2>3, <4>1
      <4>3. MadeOf(f[k] \o ss[k + 1], T, ss, k + 1)
        BY <3>1, <4>2, MadeOfAppended
      <4>4. f[k + 1] = f[k] \o ss[k + 1]
        BY <2>2, <4>1 DEF Joins
      <4>5. QED
        BY <3>1, <4>3, <4>4
    <3>4. QED
      BY <3>2, <3>3
  <2>4. 0 \in S
    BY <1>1
  <2>5. \A k \in 0..n : k \in S
    <3> HIDE DEF S, n
    <3>1. QED
      BY <1>1, <2>3, <2>4, NumbersUpTo
  <2>6. MadeOf(f[n], T, ss, n)
    BY <1>1, <2>1, <2>5
  <2>7. QED
    BY <2>2, <2>6
<1>5. QED
  BY <1>3, <1>4

\* Sequences of one element, followed by empty ones.
LEMMA FlattenSingles ==
  ASSUME NEW T, NEW ss \in Seq(Seq(T)), NEW m \in 0..Len(ss),
         \A i \in 1..m : Len(ss[i]) = 1, \A i \in (m + 1)..Len(ss) : ss[i] = <<>>
  PROVE  /\ FlattenSeq(ss) \in Seq(T) /\ Len(FlattenSeq(ss)) = m
         /\ \A j \in 1..m : FlattenSeq(ss)[j] = ss[j][1]
<1> DEFINE n == Len(ss)
<1>1. n \in Nat /\ m \in Nat /\ m <= n /\ \A i \in 1..n : ss[i] \in Seq(T)
  BY LenProperties, ElementOfSeq
<1>2. CASE n = 0
  <2>1. ss = <<>> /\ m = 0
    BY <1>1, <1>2, EmptySeq
  <2>2. FlattenSeq(ss) = <<>>
    BY <1>2, <2>1 DEF FlattenSeq
  <2>3. <<>> \in Seq(T) /\ Len(<<>>) = 0
    BY EmptySeq
  <2>4. FlattenSeq(ss) \in Seq(T) /\ Len(FlattenSeq(ss)) = m
    BY <2>1, <2>2, <2>3
  <2>5. \A j \in 1..m : FlattenSeq(ss)[j] = ss[j][1]
    BY <2>1
  <2>6. QED
    BY <2>4, <2>5
<1>3. CASE n # 0
  <2>1. n > 0
    BY <1>1, <1>3
  <2>2. PICK f : Joins(f, ss, n) /\ FlattenSeq(ss) = f[n]
    BY <2>1, FlattenJoins
  <2> DEFINE low(k) == IF k <= m THEN k ELSE m
             Good(F, k) == F \in Seq(T) /\ Len(F) = low(k) /\ \A j \in 1..low(k) : F[j] = ss[j][1]
             S == {k \in 0..n : k > 0 => Good(f[k], k)}
  <2>3. ASSUME NEW k \in 0..n, k < n, NEW F, Good(F, k) PROVE Good(F \o ss[k + 1], k + 1)
    <3>1. k \in Nat /\ k + 1 \in 1..n /\ ss[k + 1] \in Seq(T) /\ F \in Seq(T)
      BY <1>1, <2>3
    <3>2. /\ F \o ss[k + 1] \in Seq(T) /\ Len(F \o ss[k + 1]) = Len(F) + Len(ss[k + 1])
          /\ \A j \in 1..(Len(F) + Len(ss[k + 1])) :
                (F \o ss[k + 1])[j] = IF j <= Len(F) THEN F[j] ELSE ss[k + 1][j - Len(F)]
      BY <3>1, ConcatProperties
    <3>3. CASE k + 1 <= m
      <4>1. low(k) = k /\ low(k + 1) = k + 1 /\ Len(ss[k + 1]) = 1 /\ Len(F) = k
        BY <1>1, <2>3, <3>1, <3>3
      <4>2. ASSUME NEW j \in 1..(k + 1) PROVE (F \o ss[k + 1])[j] = ss[j][1]
        <5>1. CASE j = k + 1
          <6>1. ~(j <= k) /\ j - k = 1
            BY <3>1, <5>1
          <6>2. (F \o ss[k + 1])[j] = ss[k + 1][j - k]
            BY <3>2, <4>1, <6>1
          <6>3. QED
            BY <5>1, <6>1, <6>2
        <5>2. CASE j # k + 1
          <6>1. j \in 1..k
            BY <3>1, <5>2
          <6>2. QED
            BY <2>3, <3>1, <3>2, <4>1, <6>1
        <5>3. QED
          BY <5>1, <5>2
      <4>3. QED
        BY <3>1, <3>2, <4>1, <4>2
    <3>4. CASE ~(k + 1 <= m)
      <4>1. low(k) = m /\ low(k + 1) = m
        BY <1>1, <3>1, <3>4
      <4>2. ss[k + 1] = <<>>
        BY <1>1, <3>1, <3>4
      <4>3. F \o ss[k + 1] = F
        BY <3>1, <4>2, ConcatEmptySeq
      <4>4. QED
        BY <2>3, <4>1, <4>3
    <3>5. QED
      BY <3>3, <3>4
  <2>4. Good(<<>>, 0)
    <3>1. low(0) = 0
      BY <1>1
    <3>2. QED
      BY <3>1, EmptySeq
  <2> HIDE DEF Good
  <2>5. ASSUME NEW k \in 0..n, k < n, k \in S PROVE k + 1 \in S
    <3>1. k \in Nat /\ k + 1 \in 1..n /\ k + 1 \in 0..n
      BY <1>1, <2>5
    <3>2. CASE k = 0
      <4>1. Good(<<>> \o ss[1], 1)
        <5>1. 0 + 1 = 1 /\ 0 \in 0..n /\ 0 < n
          BY <2>1
        <5>2. Good(<<>> \o ss[0 + 1], 0 + 1)
          BY <2>3, <2>4, <5>1
        <5>3. QED
          BY <5>1, <5>2
      <4>2. ss[1] \in Seq(T)
        BY <3>1, <3>2, ElementOfSeq
      <4>3. <<>> \o ss[1] = ss[1]
        BY <4>2, ConcatEmptySeq
      <4>4. f[1] = ss[1]
        BY <2>1, <2>2 DEF Joins
      <4>5. QED
        BY <3>1, <3>2, <4>1, <4>3, <4>4
    <3>3. CASE k # 0
      <4>1. k > 0 /\ k + 1 \in 2..n /\ (k + 1) - 1 = k
        BY <3>1, <3>3
      <4>2. Good(f[k], k)
        BY <2>5, <4>1
      <4>3. Good(f[k] \o ss[k + 1], k + 1)
        BY <2>3, <2>5, <4>2
      <4>4. f[k + 1] = f[k] \o ss[k + 1]
        BY <2>2, <4>1 DEF Joins
      <4>5. QED
        BY <3>1, <4>3, <4>4
    <3>4. QED
      BY <3>2, <3>3
  <2>6. 0 \in S
    BY <1>1
  <2>7. \A k \in 0..n : k \in S
    <3> HIDE DEF S, n
    <3>1. QED
      BY <1>1, <2>5, <2>6, NumbersUpTo
  <2>8. Good(f[n], n) /\ low(n) = m
    BY <1>1, <2>1, <2>7
  <2>9. QED
    BY <2>2, <2>8 DEF Good
<1>4. QED
  BY <1>2, <1>3

-----------------------------------------------------------------------------
(* Tools and calls. *)

Arguments == {buildArgument(h) : h \in HelpArguments}

\* A switch has no default or a boolean one.
LEMMA SwitchDefaults ==
  ASSUME NEW a \in Arguments, a.type = "boolean"
  PROVE  a.default = NoDefault \/ a.default \in Booleans
<1>1. PICK h \in HelpArguments : a = buildArgument(h)
  BY DEF Arguments
<1>2. a.type = schemaType(h) /\ a.default = h.default
  BY <1>1 DEF buildArgument
<1>3. \/ h.type = "bool" \/ h.default = NoDefault
      \/ h.default # NoDefault /\ h.default.kind = "boolean"
  BY <1>2 DEF schemaType, inferredType
<1>4. QED
  BY <1>2, <1>3, CatalogueAssumption

\* The two boolean values differ.
LEMMA TruthValues == True # False
<1>1. True.text.body.words[1] = "true" /\ False.text.body.words[1] = "false"
  BY DEF True, False, Plain
<1>2. QED
  BY <1>1

\* What buildTool makes of a command that it accepts.
IsTool(spec) ==
    /\ spec.positionals \in Seq(Arguments) /\ spec.options \in Seq(Arguments)
    /\ \A i, j \in 1..Len(spec.options) : spec.options[i].cliName = spec.options[j].cliName => i = j

LEMMA ToolsAreTools ==
  ASSUME NEW c \in HelpCommands, Accepts(c)
  PROVE  IsTool(buildTool(c))
<1>1. PICK l \in (0..MaxInputs) \X (0..MaxInputs) :
        c \in [positionals : [1..l[1] -> HelpArguments], options : [1..l[2] -> HelpArguments]]
  BY DEF HelpCommands
<1> DEFINE p == l[1]
           o == l[2]
<1>2. /\ p \in Nat /\ o \in Nat
      /\ c.positionals \in [1..p -> HelpArguments] /\ c.options \in [1..o -> HelpArguments]
  BY <1>1, CatalogueAssumption
<1> HIDE DEF p, o
<1>3. c.positionals \in Seq(HelpArguments) /\ c.options \in Seq(HelpArguments)
  BY <1>2, SeqDef
<1>4. Len(c.positionals) = p /\ Len(c.options) = o
  BY <1>2, <1>3, LenProperties
<1> DEFINE P == [i \in 1..p |-> buildArgument(c.positionals[i])]
           O == [i \in 1..o |-> buildArgument(c.options[i])]
<1>5. buildTool(c).positionals = P /\ buildTool(c).options = O
  BY <1>2 DEF buildTool
<1>6. P \in [1..p -> Arguments] /\ O \in [1..o -> Arguments]
  BY <1>2 DEF Arguments
<1>7. P \in Seq(Arguments) /\ O \in Seq(Arguments)
  BY <1>2, <1>6, SeqDef
<1>8. Len(O) = o
  BY <1>2, <1>6, <1>7, LenProperties
<1>9. ASSUME NEW i \in 1..o, NEW j \in 1..o, O[i].cliName = O[j].cliName PROVE i = j
  <2>1. c.options[i].name = c.options[j].name
    BY <1>9 DEF buildArgument
  <2>2. /\ DOMAIN Inputs(c) = 1..(p + o)
        /\ \A n \in 1..(p + o) : Inputs(c)[n] = IF n <= p THEN c.positionals[n] ELSE c.options[n - p]
    <3>1. /\ Inputs(c) \in Seq(HelpArguments) /\ Len(Inputs(c)) = p + o
          /\ \A n \in 1..(p + o) : Inputs(c)[n] = IF n <= p THEN c.positionals[n] ELSE c.options[n - p]
      BY <1>3, <1>4, ConcatProperties DEF Inputs
    <3>2. QED
      BY <3>1, LenProperties
  <2>3. /\ p + i \in 1..(p + o) /\ ~(p + i <= p) /\ (p + i) - p = i
        /\ p + j \in 1..(p + o) /\ ~(p + j <= p) /\ (p + j) - p = j
    BY <1>2
  <2>4. Inputs(c)[p + i] = c.options[i] /\ Inputs(c)[p + j] = c.options[j]
    BY <2>2, <2>3
  <2>5. p + i = p + j
    BY <2>1, <2>2, <2>3, <2>4 DEF Accepts
  <2>6. QED
    BY <1>2, <2>5
<1>10. QED
  BY <1>5, <1>7, <1>8, <1>9 DEF IsTool

\* What the registry's check says of an input.
Checked(args, a) == IF Given(args, a) THEN args[a.property] \in Values /\ Fits(args[a.property], a.type)
                                      ELSE ~a.required

IsCall(spec, args) == /\ \A i \in 1..Len(spec.positionals) : Checked(args, spec.positionals[i])
                      /\ \A i \in 1..Len(spec.options) : Checked(args, spec.options[i])

LEMMA ValidCalls ==
  ASSUME NEW spec, IsTool(spec), NEW args \in ValidArguments(spec)
  PROVE  IsCall(spec, args)
<1> DEFINE all == spec.positionals \o spec.options
           p == Len(spec.positionals)
           o == Len(spec.options)
           Property(S) == {all[i].property : i \in S}
           required == {i \in DOMAIN all : all[i].required}
<1>1. spec.positionals \in Seq(Arguments) /\ spec.options \in Seq(Arguments) /\ p \in Nat /\ o \in Nat
  <2>1. spec.positionals \in Seq(Arguments) /\ spec.options \in Seq(Arguments)
    BY DEF IsTool
  <2>2. QED
    BY <2>1, LenProperties
<1>2. /\ DOMAIN all = 1..(p + o)
      /\ \A n \in 1..(p + o) : all[n] = IF n <= p THEN spec.positionals[n] ELSE spec.options[n - p]
  <2>1. /\ all \in Seq(Arguments) /\ Len(all) = p + o
        /\ \A n \in 1..(p + o) : all[n] = IF n <= p THEN spec.positionals[n] ELSE spec.options[n - p]
    BY <1>1, ConcatProperties
  <2>2. QED
    BY <2>1, LenProperties
<1>3. PICK S \in {S \in SUBSET DOMAIN all : required \subseteq S} : args \in [Property(S) -> Values]
  BY DEF ValidArguments
<1>4. \A i \in DOMAIN all : all[i].property \in DOMAIN args => Fits(args[all[i].property], all[i].type)
  BY DEF ValidArguments
<1> HIDE DEF all, p, o
<1>5. ASSUME NEW i \in DOMAIN all PROVE Checked(args, all[i])
  <2>1. CASE all[i].property \in DOMAIN args
    <3>1. args[all[i].property] \in Values
      BY <1>3, <2>1
    <3>2. QED
      BY <1>4, <2>1, <3>1 DEF Checked, Given
  <2>2. CASE all[i].property \notin DOMAIN args
    <3>1. i \notin S
      BY <1>3, <2>2
    <3>2. ~all[i].required
      BY <1>3, <3>1
    <3>3. QED
      BY <2>2, <3>2 DEF Checked, Given
  <2>3. QED
    BY <2>1, <2>2
<1>6. ASSUME NEW i \in 1..p PROVE Checked(args, spec.positionals[i])
  <2>1. i \in DOMAIN all /\ all[i] = spec.positionals[i]
    BY <1>1, <1>2
  <2>2. QED
    BY <1>5, <2>1
<1>7. ASSUME NEW i \in 1..o PROVE Checked(args, spec.options[i])
  <2>1. p + i \in 1..(p + o) /\ ~(p + i <= p) /\ (p + i) - p = i
    BY <1>1
  <2>2. p + i \in DOMAIN all /\ all[p + i] = spec.options[i]
    BY <1>2, <2>1
  <2>3. QED
    BY <1>5, <2>2
<1>8. QED
  BY <1>6, <1>7 DEF IsCall, p, o

-----------------------------------------------------------------------------
(* The command line. *)

Text(v) == v.text

Tokens == {Text(v) : v \in Values} \cup {Flag(a) : a \in Arguments} \cup {Negated(a) : a \in Arguments}

\* The flags of an option begin with dashes, and name it.
LEMMA TokensDiffer ==
  ASSUME NEW a, NEW b
  PROVE  /\ Flag(a).dash = "--" /\ Negated(a).dash = "--" /\ Flag(a) # Negated(b)
         /\ Flag(a) = Flag(b) => a.cliName = b.cliName
         /\ Negated(a) = Negated(b) => a.cliName = b.cliName
<1>1. Flag(a).dash = "--" /\ Flag(a).body = a.cliName /\ Flag(a).tail = "" /\ Flag(b).body = b.cliName
  BY DEF Flag
<1>2. Negated(a).dash = "--" /\ Negated(b).tail = "=false" /\ Negated(a).body = a.cliName /\ Negated(b).body = b.cliName
  BY DEF Negated
<1>3. QED
  BY <1>1, <1>2

\* A given text that does not begin with a dash is no flag.
LEMMA TextsDiffer ==
  ASSUME NEW args, ~Dashed(args), NEW a, Given(args, a)
  PROVE  /\ Text(args[a.property]).dash = ""
         /\ \A b : Text(args[a.property]) # Flag(b) /\ Text(args[a.property]) # Negated(b)
<1>1. Text(args[a.property]).dash = ""
  BY DEF Text, Dashed, Given
<1>2. QED
  BY <1>1, TokensDiffer

PositionalSegments(spec, args) ==
    [i \in DOMAIN spec.positionals |-> PositionalTokens(args, spec.positionals[i])]
OptionSegments(spec, args) == [i \in DOMAIN spec.options |-> OptionTokens(args, spec.options[i])]

\* The first k positionals are given, and the command line begins with their texts.
IsStart(P, spec, args, k) ==
    /\ k \in 0..Len(spec.positionals)
    /\ \A i \in 1..Len(spec.positionals) : Given(args, spec.positionals[i]) <=> i <= k
    /\ P \in Seq(Tokens) /\ Len(P) = k
    /\ \A j \in 1..k : P[j] = Text(args[spec.positionals[j].property])

LEMMA StartOfCommandLine ==
  ASSUME NEW spec, IsTool(spec), NEW args, IsCall(spec, args), ~Gap(spec, args)
  PROVE  \E k \in Nat : IsStart(FlattenSeq(PositionalSegments(spec, args)), spec, args, k)
<1> DEFINE P == spec.positionals
           n == Len(P)
           G(i) == Given(args, P[i])
           ss == PositionalSegments(spec, args)
<1>1. P \in Seq(Arguments) /\ n \in Nat /\ DOMAIN P = 1..n
  <2>1. P \in Seq(Arguments)
    BY DEF IsTool
  <2>2. QED
    BY <2>1, LenProperties
<1>2. \A i \in 1..n : G(i) => args[P[i].property] \in Values
  BY DEF IsCall, Checked
<1>3. \A i, j \in 1..n : i < j /\ G(j) => G(i)
  BY <1>1 DEF Gap
<1>4. /\ ss = [i \in 1..n |-> PositionalTokens(args, P[i])]
      /\ \A i \in 1..n : PositionalTokens(args, P[i]) = IF G(i) THEN <<Text(args[P[i].property])>> ELSE <<>>
  BY <1>1 DEF PositionalSegments, PositionalTokens, scalarText, Text
<1> HIDE DEF n, P, G, ss
<1>5. PICK k \in 0..n : \A i \in 1..n : G(i) <=> i <= k
  <2> DEFINE Missing == {i \in 1..n : ~G(i)}
  <2>1. CASE Missing = {}
    BY <1>1, <2>1
  <2>2. CASE Missing # {}
    <3>1. Missing \in SUBSET Nat
      OBVIOUS
    <3>2. PICK m \in Missing : \A i \in Missing : ~(i < m)
      BY <2>2, <3>1, LeastNumber
    <3>3. m \in 1..n /\ ~G(m) /\ m - 1 \in 0..n
      BY <1>1, <3>2
    <3>4. ASSUME NEW i \in 1..n PROVE G(i) <=> i <= m - 1
      <4>1. CASE i < m
        <5>1. i <= m - 1 /\ i \notin Missing
          BY <3>2, <3>3, <4>1
        <5>2. QED
          BY <5>1
      <4>2. CASE i = m
        <5>1. ~(i <= m - 1)
          BY <3>3, <4>2
        <5>2. QED
          BY <3>3, <4>2, <5>1
      <4>3. CASE m < i
        <5>1. ~(i <= m - 1) /\ ~G(i)
          BY <1>3, <3>3, <4>3
        <5>2. QED
          BY <5>1
      <4>4. i < m \/ i = m \/ m < i
        BY <3>3
      <4>5. QED
        BY <4>1, <4>2, <4>3, <4>4
    <3>5. QED
      BY <3>3, <3>4
  <2>3. QED
    BY <2>1, <2>2
<1>6. \A i \in 1..n : G(i) => Text(args[P[i].property]) \in Tokens
  BY <1>2 DEF Tokens
<1>7. ASSUME NEW i \in 1..n
      PROVE  /\ ss[i] \in Seq(Tokens)
             /\ i <= k => Len(ss[i]) = 1 /\ ss[i][1] = Text(args[P[i].property])
             /\ ~(i <= k) => ss[i] = <<>>
  <2>1. CASE i <= k
    <3>1. ss[i] = <<Text(args[P[i].property])>> /\ Text(args[P[i].property]) \in Tokens
      BY <1>4, <1>5, <1>6, <2>1
    <3>2. QED
      BY <2>1, <3>1
  <2>2. CASE ~(i <= k)
    <3>1. ss[i] = <<>>
      BY <1>4, <1>5, <2>2
    <3>2. QED
      BY <2>2, <3>1
  <2>3. QED
    BY <2>1, <2>2
<1>8. ss \in Seq(Seq(Tokens)) /\ Len(ss) = n
  <2>1. ss \in [1..n -> Seq(Tokens)]
    BY <1>4, <1>7
  <2>2. ss \in Seq(Seq(Tokens))
    BY <1>1, <2>1, SeqDef
  <2>3. QED
    BY <1>1, <2>1, <2>2, LenProperties
<1>9. /\ FlattenSeq(ss) \in Seq(Tokens) /\ Len(FlattenSeq(ss)) = k
      /\ \A j \in 1..k : FlattenSeq(ss)[j] = ss[j][1]
  <2>1. /\ k \in 0..Len(ss)
        /\ \A i \in 1..k : Len(ss[i]) = 1
        /\ \A i \in (k + 1)..Len(ss) : ss[i] = <<>>
    BY <1>1, <1>7, <1>8
  <2>2. QED
    BY <1>8, <2>1, FlattenSingles
<1>10. \A j \in 1..k : FlattenSeq(ss)[j] = Text(args[P[j].property])
  BY <1>1, <1>7, <1>9
<1>11. k \in Nat
  BY <1>1
<1>12. IsStart(FlattenSeq(ss), spec, args, k)
  BY <1>5, <1>9, <1>10 DEF IsStart, n, P, G
<1>13. QED
  BY <1>11, <1>12 DEF ss

\* An option is on the command line as a flag, or as a switch turned off.
Flagged(args, a) == Given(args, a) /\ (a.type = "boolean" => args[a.property] = True)
TurnedOff(args, a) == Given(args, a) /\ a.type = "boolean" /\ args[a.property] # True /\ a.default = True

\* What OptionTokens is, case by case.
LEMMA SegmentsOfOptions ==
  ASSUME NEW a \in Arguments, NEW args, Checked(args, a)
  PROVE  /\ OptionTokens(args, a) \in Seq(Tokens)
         /\ Flagged(args, a) /\ a.type # "boolean" => OptionTokens(args, a) = <<Flag(a), Text(args[a.property])>>
         /\ Flagged(args, a) /\ a.type = "boolean" => OptionTokens(args, a) = <<Flag(a)>>
         /\ TurnedOff(args, a) => OptionTokens(args, a) = <<Negated(a)>>
         /\ ~Flagged(args, a) /\ ~TurnedOff(args, a) => OptionTokens(args, a) = <<>>
<1>1. CASE Flagged(args, a) /\ a.type # "boolean"
  <2>1. OptionTokens(args, a) = <<Flag(a), Text(args[a.property])>> /\ args[a.property] \in Values
    BY <1>1 DEF OptionTokens, Flagged, Checked, scalarText, Text
  <2>2. Flag(a) \in Tokens /\ Text(args[a.property]) \in Tokens
    BY <2>1 DEF Tokens
  <2>3. QED
    BY <1>1, <2>1, <2>2 DEF TurnedOff
<1>2. CASE Flagged(args, a) /\ a.type = "boolean"
  <2>1. OptionTokens(args, a) = <<Flag(a)>>
    BY <1>2 DEF OptionTokens, Flagged
  <2>2. Flag(a) \in Tokens
    BY DEF Tokens
  <2>3. QED
    BY <1>2, <2>1, <2>2 DEF TurnedOff, Flagged
<1>3. CASE TurnedOff(args, a)
  <2>1. OptionTokens(args, a) = <<Negated(a)>>
    BY <1>3 DEF OptionTokens, TurnedOff
  <2>2. Negated(a) \in Tokens
    BY DEF Tokens
  <2>3. QED
    BY <1>3, <2>1, <2>2 DEF TurnedOff, Flagged
<1>4. CASE ~Flagged(args, a) /\ ~TurnedOff(args, a)
  <2>1. OptionTokens(args, a) = <<>>
    BY <1>4 DEF OptionTokens, TurnedOff, Flagged
  <2>2. QED
    BY <1>4, <2>1
<1>5. QED
  BY <1>1, <1>2, <1>3, <1>4

\* What OpenCLI can find among the elements of F after the first k.
IsEnd(F, spec, args, k) ==
    /\ \A n \in (k + 1)..Len(F) : F[n].dash = "" =>
          n > k + 1 /\ \E i \in 1..Len(spec.options) : F[n - 1] = Flag(spec.options[i]) /\ spec.options[i].type # "boolean"
    /\ \A n \in (k + 1)..Len(F), i \in 1..Len(spec.options) : F[n] = Flag(spec.options[i]) =>
          /\ Flagged(args, spec.options[i])
          /\ spec.options[i].type # "boolean" =>
                n + 1 <= Len(F) /\ F[n + 1] = Text(args[spec.options[i].property])
    /\ \A n \in (k + 1)..Len(F), i \in 1..Len(spec.options) : F[n] = Negated(spec.options[i]) => TurnedOff(args, spec.options[i])
    /\ \A i \in 1..Len(spec.options) : Flagged(args, spec.options[i]) => \E n \in (k + 1)..Len(F) : F[n] = Flag(spec.options[i])
    /\ \A i \in 1..Len(spec.options) : TurnedOff(args, spec.options[i]) => \E n \in (k + 1)..Len(F) : F[n] = Negated(spec.options[i])

LEMMA EndOfCommandLine ==
  ASSUME NEW spec, IsTool(spec), NEW args, IsCall(spec, args), ~Dashed(args)
  PROVE  /\ FlattenSeq(OptionSegments(spec, args)) \in Seq(Tokens)
         /\ IsEnd(FlattenSeq(OptionSegments(spec, args)), spec, args, 0)
<1> DEFINE O == spec.options
           o == Len(O)
           ss == OptionSegments(spec, args)
           F == FlattenSeq(ss)
<1>1. O \in Seq(Arguments) /\ o \in Nat /\ DOMAIN O = 1..o /\ \A i \in 1..o : O[i] \in Arguments
  <2>1. O \in Seq(Arguments)
    BY DEF IsTool
  <2>2. QED
    BY <2>1, LenProperties, ElementOfSeq
<1>2. \A i \in 1..o : Checked(args, O[i])
  BY DEF IsCall
<1>3. \A i, j \in 1..o : O[i].cliName = O[j].cliName => i = j
  BY DEF IsTool
<1>4. ss = [i \in 1..o |-> OptionTokens(args, O[i])]
  BY <1>1 DEF OptionSegments
<1> HIDE DEF o, O, ss, F
<1>5. ASSUME NEW i \in 1..o
      PROVE  /\ ss[i] \in Seq(Tokens)
             /\ Flagged(args, O[i]) /\ O[i].type # "boolean" => ss[i] = <<Flag(O[i]), Text(args[O[i].property])>>
             /\ Flagged(args, O[i]) /\ O[i].type = "boolean" => ss[i] = <<Flag(O[i])>>
             /\ TurnedOff(args, O[i]) => ss[i] = <<Negated(O[i])>>
             /\ ~Flagged(args, O[i]) /\ ~TurnedOff(args, O[i]) => ss[i] = <<>>
  <2>1. ss[i] = OptionTokens(args, O[i]) /\ O[i] \in Arguments /\ Checked(args, O[i])
    BY <1>1, <1>2, <1>4
  <2>2. QED
    BY <2>1, SegmentsOfOptions
<1>6. ss \in Seq(Seq(Tokens)) /\ Len(ss) = o
  <2>1. ss \in [1..o -> Seq(Tokens)]
    BY <1>4, <1>5
  <2>2. ss \in Seq(Seq(Tokens))
    BY <1>1, <2>1, SeqDef
  <2>3. QED
    BY <1>1, <2>1, <2>2, LenProperties
<1>7. MadeOf(F, Tokens, ss, o)
  BY <1>6, FlattenMadeOf DEF F
<1>8. F \in Seq(Tokens) /\ Len(F) \in Nat
  <2>1. F \in Seq(Tokens)
    BY <1>7 DEF MadeOf
  <2>2. QED
    BY <2>1, LenProperties
\* Every element is the first of a segment, or the second after a flag.
<1>9. ASSUME NEW n \in 1..Len(F)
      PROVE  \E i \in 1..o :
               \/ /\ Flagged(args, O[i]) /\ O[i].type # "boolean" /\ n + 1 \in 1..Len(F)
                  /\ F[n] = Flag(O[i]) /\ F[n + 1] = Text(args[O[i].property])
               \/ /\ Flagged(args, O[i]) /\ O[i].type # "boolean" /\ n - 1 \in 1..Len(F)
                  /\ F[n - 1] = Flag(O[i]) /\ F[n] = Text(args[O[i].property])
               \/ Flagged(args, O[i]) /\ O[i].type = "boolean" /\ F[n] = Flag(O[i])
               \/ TurnedOff(args, O[i]) /\ F[n] = Negated(O[i])
  <2>1. PICK i \in 1..o : \E d \in Nat : d < n /\ n <= d + Len(ss[i]) /\ Segment(F, ss[i], d)
    BY <1>7 DEF MadeOf, Covered
  <2>2. PICK d \in Nat : d < n /\ n <= d + Len(ss[i]) /\ Segment(F, ss[i], d)
    BY <2>1
  <2>3. n - d \in 1..Len(ss[i]) /\ d + (n - d) = n /\ Len(ss[i]) \in Nat
    <3>1. Len(ss[i]) \in Nat
      BY <1>5, LenProperties
    <3>2. QED
      BY <1>8, <2>2, <3>1
  <2>4. F[n] = ss[i][n - d]
    BY <2>2, <2>3 DEF Segment
  <2>5. CASE Flagged(args, O[i]) /\ O[i].type # "boolean"
    <3>1. ss[i] = <<Flag(O[i]), Text(args[O[i].property])>>
      BY <1>5, <2>5
    <3>2. Len(ss[i]) = 2 /\ ss[i][1] = Flag(O[i]) /\ ss[i][2] = Text(args[O[i].property])
      BY <3>1
    <3>3. /\ d + 1 \in 1..Len(F) /\ F[d + 1] = Flag(O[i])
          /\ d + 2 \in 1..Len(F) /\ F[d + 2] = Text(args[O[i].property])
      BY <2>2, <3>2 DEF Segment
    <3>4. n = d + 1 \/ n = d + 2
      BY <2>3, <3>2
    <3>5. CASE n = d + 1
      <4>1. n + 1 = d + 2
        BY <3>5
      <4>2. QED
        BY <2>5, <3>3, <3>5, <4>1
    <3>6. CASE n = d + 2
      <4>1. n - 1 = d + 1
        BY <3>6
      <4>2. QED
        BY <2>5, <3>3, <3>6, <4>1
    <3>7. QED
      BY <3>4, <3>5, <3>6
  <2>6. CASE Flagged(args, O[i]) /\ O[i].type = "boolean"
    <3>1. ss[i] = <<Flag(O[i])>>
      BY <1>5, <2>6
    <3>2. Len(ss[i]) = 1 /\ ss[i][1] = Flag(O[i])
      BY <3>1
    <3>3. n - d = 1
      BY <2>3, <3>2
    <3>4. QED
      BY <2>4, <2>6, <3>2, <3>3
  <2>7. CASE TurnedOff(args, O[i])
    <3>1. ss[i] = <<Negated(O[i])>>
      BY <1>5, <2>7
    <3>2. Len(ss[i]) = 1 /\ ss[i][1] = Negated(O[i])
      BY <3>1
    <3>3. n - d = 1
      BY <2>3, <3>2
    <3>4. QED
      BY <2>4, <2>7, <3>2, <3>3
  <2>8. CASE ~Flagged(args, O[i]) /\ ~TurnedOff(args, O[i])
    <3>1. Len(ss[i]) = 0
      BY <1>5, <2>8
    <3>2. QED
      BY <2>3, <3>1
  <2>9. QED
    BY <2>5, <2>6, <2>7, <2>8
<1>10. ASSUME NEW n \in 1..Len(F), F[n].dash = ""
       PROVE  n > 1 /\ \E i \in 1..o : F[n - 1] = Flag(O[i]) /\ O[i].type # "boolean"
  <2>1. PICK i \in 1..o : O[i].type # "boolean" /\ n - 1 \in 1..Len(F) /\ F[n - 1] = Flag(O[i])
    BY <1>9, <1>10, TokensDiffer
  <2>2. QED
    BY <1>8, <2>1
<1>11. ASSUME NEW n \in 1..Len(F), NEW i \in 1..o, F[n] = Flag(O[i])
       PROVE  /\ Flagged(args, O[i])
              /\ O[i].type # "boolean" => n + 1 <= Len(F) /\ F[n + 1] = Text(args[O[i].property])
  <2>1. PICK j \in 1..o : /\ Flagged(args, O[j]) /\ F[n] = Flag(O[j])
                          /\ O[j].type # "boolean" => n + 1 <= Len(F) /\ F[n + 1] = Text(args[O[j].property])
    <3>1. \A a : F[n] # Negated(a)
      BY <1>11, TokensDiffer
    <3>2. \A j \in 1..o : Flagged(args, O[j]) => F[n] # Text(args[O[j].property])
      BY <1>11, TextsDiffer DEF Flagged
    <3>3. n + 1 \in 1..Len(F) => n + 1 <= Len(F)
      OBVIOUS
    <3>4. QED
      BY <1>9, <3>1, <3>2, <3>3
  <2>2. O[i].cliName = O[j].cliName
    BY <1>11, <2>1, TokensDiffer
  <2>3. i = j
    BY <1>3, <2>2
  <2>4. QED
    BY <2>1, <2>3
<1>12. ASSUME NEW n \in 1..Len(F), NEW i \in 1..o, F[n] = Negated(O[i]) PROVE TurnedOff(args, O[i])
  <2>1. PICK j \in 1..o : TurnedOff(args, O[j]) /\ F[n] = Negated(O[j])
    <3>1. \A a : F[n] # Flag(a)
      BY <1>12, TokensDiffer
    <3>2. \A j \in 1..o : Flagged(args, O[j]) => F[n] # Text(args[O[j].property])
      BY <1>12, TextsDiffer DEF Flagged
    <3>3. QED
      BY <1>9, <3>1, <3>2
  <2>2. O[i].cliName = O[j].cliName
    BY <1>12, <2>1, TokensDiffer
  <2>3. i = j
    BY <1>3, <2>2
  <2>4. QED
    BY <2>1, <2>3
<1>13. ASSUME NEW i \in 1..o
       PROVE  /\ Flagged(args, O[i]) => \E n \in 1..Len(F) : F[n] = Flag(O[i])
              /\ TurnedOff(args, O[i]) => \E n \in 1..Len(F) : F[n] = Negated(O[i])
  <2>1. PICK d \in Nat : Segment(F, ss[i], d)
    BY <1>7 DEF MadeOf, Present
  <2>2. 1 \in 1..Len(ss[i]) => d + 1 \in 1..Len(F) /\ F[d + 1] = ss[i][1]
    BY <2>1 DEF Segment
  <2>3. ASSUME Flagged(args, O[i]) PROVE 1 \in 1..Len(ss[i]) /\ ss[i][1] = Flag(O[i])
    <3>1. ss[i] = <<Flag(O[i])>> \/ ss[i] = <<Flag(O[i]), Text(args[O[i].property])>>
      BY <1>5, <2>3
    <3>2. QED
      BY <3>1
  <2>4. ASSUME TurnedOff(args, O[i]) PROVE 1 \in 1..Len(ss[i]) /\ ss[i][1] = Negated(O[i])
    <3>1. ss[i] = <<Negated(O[i])>>
      BY <1>5, <2>4
    <3>2. QED
      BY <3>1
  <2>5. QED
    BY <2>2, <2>3, <2>4
<1>14. IsEnd(F, spec, args, 0)
  <2>1. (0 + 1)..Len(F) = 1..Len(F) /\ 0 + 1 = 1
    OBVIOUS
  <2>2. QED
    BY <1>10, <1>11, <1>12, <1>13, <2>1 DEF IsEnd, o, O
<1>15. QED
  BY <1>8, <1>14 DEF F, ss

\* What holds at the end of a command line holds of it as a whole.
LEMMA CommandLine ==
  ASSUME NEW spec, NEW args, NEW k \in Nat, NEW P, IsStart(P, spec, args, k),
         NEW O \in Seq(Tokens), IsEnd(O, spec, args, 0)
  PROVE  /\ P \o O \in Seq(Tokens) /\ k <= Len(P \o O)
         /\ \A j \in 1..k : (P \o O)[j] = Text(args[spec.positionals[j].property])
         /\ IsEnd(P \o O, spec, args, k)
<1> DEFINE F == P \o O
<1>1. P \in Seq(Tokens) /\ Len(P) = k /\ \A j \in 1..k : P[j] = Text(args[spec.positionals[j].property])
  BY DEF IsStart
<1>2. /\ F \in Seq(Tokens) /\ Len(F) = k + Len(O) /\ Len(O) \in Nat
      /\ \A n \in 1..(k + Len(O)) : F[n] = IF n <= k THEN P[n] ELSE O[n - k]
  BY <1>1, ConcatProperties, LenProperties
<1> HIDE DEF F
<1>3. \A j \in 1..k : F[j] = Text(args[spec.positionals[j].property])
  BY <1>1, <1>2
<1>4. ASSUME NEW n \in (k + 1)..Len(F)
      PROVE  n - k \in 1..Len(O) /\ F[n] = O[n - k] /\ n \in Nat /\ (n - k) - 1 = (n - 1) - k /\ (n - k) + 1 = (n + 1) - k
  BY <1>2
<1>5. ASSUME NEW n \in 1..Len(O) PROVE n + k \in (k + 1)..Len(F) /\ F[n + k] = O[n]
  <2>1. n + k \in 1..(k + Len(O)) /\ ~(n + k <= k) /\ (n + k) - k = n /\ n + k \in (k + 1)..(k + Len(O))
    BY <1>2
  <2>2. QED
    BY <1>2, <2>1
<1>6. /\ \A n \in 1..Len(O) : O[n].dash = "" =>
            n > 1 /\ \E i \in 1..Len(spec.options) : O[n - 1] = Flag(spec.options[i]) /\ spec.options[i].type # "boolean"
      /\ \A n \in 1..Len(O), i \in 1..Len(spec.options) : O[n] = Flag(spec.options[i]) =>
            /\ Flagged(args, spec.options[i])
            /\ spec.options[i].type # "boolean" =>
                  n + 1 <= Len(O) /\ O[n + 1] = Text(args[spec.options[i].property])
      /\ \A n \in 1..Len(O), i \in 1..Len(spec.options) : O[n] = Negated(spec.options[i]) => TurnedOff(args, spec.options[i])
      /\ \A i \in 1..Len(spec.options) : Flagged(args, spec.options[i]) => \E n \in 1..Len(O) : O[n] = Flag(spec.options[i])
      /\ \A i \in 1..Len(spec.options) : TurnedOff(args, spec.options[i]) => \E n \in 1..Len(O) : O[n] = Negated(spec.options[i])
  <2>1. (0 + 1)..Len(O) = 1..Len(O) /\ 0 + 1 = 1
    OBVIOUS
  <2>2. QED
    BY <2>1 DEF IsEnd
<1>7. ASSUME NEW n \in (k + 1)..Len(F), F[n].dash = ""
      PROVE  n > k + 1 /\ \E i \in 1..Len(spec.options) : F[n - 1] = Flag(spec.options[i]) /\ spec.options[i].type # "boolean"
  <2>1. n - k > 1 /\ \E i \in 1..Len(spec.options) : O[(n - k) - 1] = Flag(spec.options[i]) /\ spec.options[i].type # "boolean"
    BY <1>4, <1>6, <1>7
  <2>2. n > k + 1 /\ n - 1 \in (k + 1)..Len(F)
    BY <1>2, <2>1
  <2>3. F[n - 1] = O[(n - k) - 1]
    BY <1>4, <2>2
  <2>4. QED
    BY <2>1, <2>2, <2>3
<1>8. ASSUME NEW n \in (k + 1)..Len(F), NEW i \in 1..Len(spec.options), F[n] = Flag(spec.options[i])
      PROVE  /\ Flagged(args, spec.options[i])
             /\ spec.options[i].type # "boolean" =>
                   n + 1 <= Len(F) /\ F[n + 1] = Text(args[spec.options[i].property])
  <2>1. /\ Flagged(args, spec.options[i])
        /\ spec.options[i].type # "boolean" =>
              (n - k) + 1 <= Len(O) /\ O[(n - k) + 1] = Text(args[spec.options[i].property])
    <3>1. n - k \in 1..Len(O) /\ O[n - k] = Flag(spec.options[i])
      BY <1>4, <1>8
    <3>2. QED
      BY <1>6, <3>1
  <2>2. ASSUME (n - k) + 1 <= Len(O) PROVE n + 1 <= Len(F) /\ F[n + 1] = O[(n - k) + 1]
    <3>1. n + 1 \in (k + 1)..Len(F)
      BY <1>2, <2>2
    <3>2. QED
      BY <1>4, <3>1
  <2>3. QED
    BY <2>1, <2>2
<1>9. ASSUME NEW n \in (k + 1)..Len(F), NEW i \in 1..Len(spec.options), F[n] = Negated(spec.options[i])
      PROVE  TurnedOff(args, spec.options[i])
  <2>1. n - k \in 1..Len(O) /\ O[n - k] = Negated(spec.options[i])
    BY <1>4, <1>9
  <2>2. QED
    BY <1>6, <2>1
<1>10. ASSUME NEW i \in 1..Len(spec.options)
       PROVE  /\ Flagged(args, spec.options[i]) => \E n \in (k + 1)..Len(F) : F[n] = Flag(spec.options[i])
              /\ TurnedOff(args, spec.options[i]) => \E n \in (k + 1)..Len(F) : F[n] = Negated(spec.options[i])
  BY <1>5, <1>6
<1>11. IsEnd(F, spec, args, k)
  BY <1>7, <1>8, <1>9, <1>10 DEF IsEnd
<1>12. k <= Len(F)
  BY <1>2
<1>13. QED
  BY <1>2, <1>3, <1>11, <1>12 DEF F

-----------------------------------------------------------------------------
(* What OpenCLI reads. *)

\* The i-th element of an initial interval is i.
LEMMA IthOfInterval ==
  ASSUME NEW k \in Nat, NEW i \in 1..k
  PROVE  i = CHOOSE n \in 1..k : Cardinality({m \in 1..k : m < n}) = i - 1
<1>1. ASSUME NEW n \in 1..k PROVE Cardinality({m \in 1..k : m < n}) = n - 1
  <2>1. {m \in 1..k : m < n} = 1..(n - 1)
    OBVIOUS
  <2>2. Cardinality(1..(n - 1)) = n - 1
    BY FS_Interval
  <2>3. QED
    BY <2>1, <2>2
<1> DEFINE Before(n) == Cardinality({m \in 1..k : m < n})
<1>2. \A n \in 1..k : Before(n) = n - 1
  BY <1>1
<1> HIDE DEF Before
<1>3. \A n \in 1..k : Before(n) = i - 1 <=> n = i
  BY <1>2
<1>4. i = CHOOSE n \in 1..k : Before(n) = i - 1
  BY <1>3
<1>5. QED
  BY <1>4 DEF Before

\* A place on the line is among the first k or after them.
LEMMA PlacesOnTheLine ==
  ASSUME NEW k \in Nat, NEW m \in Nat
  PROVE  /\ \A n \in 1..m : n \in 1..k \/ n \in (k + 1)..m
         /\ \A n \in (k + 1)..m : n > k + 1 => n > 1
OBVIOUS

\* A command line that begins with the positionals and ends with the options is
\* understood as it was meant.
LEMMA CommandLineUnderstood ==
  ASSUME NEW spec, IsTool(spec), NEW args, IsCall(spec, args), ~Dashed(args),
         NEW k \in Nat, k <= Len(spec.positionals),
         \A i \in 1..Len(spec.positionals) : Given(args, spec.positionals[i]) <=> i <= k,
         NEW F \in Seq(Tokens), k <= Len(F),
         \A j \in 1..k : F[j] = Text(args[spec.positionals[j].property]),
         IsEnd(F, spec, args, k)
  PROVE  Understood(spec, F) = Meant(spec, args)
<1> DEFINE Valued(n) == \E i \in DOMAIN spec.options :
                            F[n] = Flag(spec.options[i]) /\ spec.options[i].type # "boolean"
           free == {n \in DOMAIN F : F[n].dash = "" /\ ~(n > 1 /\ Valued(n - 1))}
           Nth(i) == CHOOSE n \in free : Cardinality({m \in free : m < n}) = i - 1
           At(token) == {n \in DOMAIN F : F[n] = token}
           Positional(i, a) == IF i <= Cardinality(free) THEN F[Nth(i)] ELSE a.default.text
           Switch(a) == CASE At(Flag(a)) # {} -> True.text
                          [] At(Flag(a)) = {} /\ At(Negated(a)) # {} -> False.text
                          [] OTHER -> IF a.default = NoDefault THEN False.text ELSE a.default.text
           Option(a) == IF At(Flag(a)) = {} THEN a.default.text
                        ELSE F[(CHOOSE n \in At(Flag(a)) : TRUE) + 1]
           Default(a) == IF a.type = "boolean" /\ a.default = NoDefault THEN False.text ELSE a.default.text
           Said(a) == IF Given(args, a) THEN args[a.property].text ELSE Default(a)
           Named(a) == IF Given(args, a) THEN args[a.property].text ELSE a.default.text
           p == Len(spec.positionals)
           o == Len(spec.options)
<1>1. /\ p \in Nat /\ DOMAIN spec.positionals = 1..p
      /\ o \in Nat /\ DOMAIN spec.options = 1..o
      /\ \A i \in 1..o : spec.options[i] \in Arguments
      /\ DOMAIN F = 1..Len(F) /\ Len(F) \in Nat
  <2>1. spec.positionals \in Seq(Arguments) /\ spec.options \in Seq(Arguments)
    BY DEF IsTool
  <2>2. QED
    BY <2>1, LenProperties, ElementOfSeq
<1>2. Understood(spec, F) =
        [p |-> [i \in DOMAIN spec.positionals |-> Positional(i, spec.positionals[i])],
         o |-> [i \in DOMAIN spec.options |-> IF spec.options[i].type = "boolean"
                                              THEN Switch(spec.options[i]) ELSE Option(spec.options[i])]]
  BY DEF Understood
<1>3. Meant(spec, args) =
        [p |-> [i \in DOMAIN spec.positionals |-> Named(spec.positionals[i])],
         o |-> [i \in DOMAIN spec.options |-> Said(spec.options[i])]]
  BY DEF Meant
<1>4. \A j \in 1..k : F[j].dash = "" /\ \A a : F[j] # Flag(a) /\ F[j] # Negated(a)
  <2>1. SUFFICES ASSUME NEW j \in 1..k PROVE F[j].dash = "" /\ \A a : F[j] # Flag(a) /\ F[j] # Negated(a)
    OBVIOUS
  <2>2. Given(args, spec.positionals[j]) /\ F[j] = Text(args[spec.positionals[j].property])
    OBVIOUS
  <2>3. /\ Text(args[spec.positionals[j].property]).dash = ""
        /\ \A b : /\ Text(args[spec.positionals[j].property]) # Flag(b)
                 /\ Text(args[spec.positionals[j].property]) # Negated(b)
    BY <2>2, TextsDiffer
  <2>4. QED
    BY <2>2, <2>3
<1>4a. free = 1..k
  <2>1. ASSUME NEW n \in 1..k PROVE n \in free
    <3>1. F[n].dash = ""
      BY <1>4
    <3>2. ASSUME n > 1 PROVE ~Valued(n - 1)
      <4>1. n - 1 \in 1..k
        BY <3>2
      <4>2. \A a : F[n - 1] # Flag(a)
        BY <1>4, <4>1
      <4>3. QED
        BY <4>2
    <3>3. n \in DOMAIN F
      BY <1>1
    <3>4. QED
      BY <3>1, <3>2, <3>3
  <2>2. ASSUME NEW n \in free PROVE n \in 1..k
    <3>1. n \in DOMAIN F /\ F[n].dash = "" /\ ~(n > 1 /\ Valued(n - 1))
      OBVIOUS
    <3>2. ASSUME n \in (k + 1)..Len(F) PROVE FALSE
      <4>1. n > k + 1 /\ \E i \in 1..o : F[n - 1] = Flag(spec.options[i]) /\ spec.options[i].type # "boolean"
        BY <3>1, <3>2 DEF IsEnd
      <4>2. Valued(n - 1)
        BY <1>1, <4>1
      <4>3. n > 1
        BY <1>1, <3>2, <4>1, PlacesOnTheLine
      <4>4. QED
        BY <3>1, <4>2, <4>3
    <3> HIDE DEF Valued, free
    <3>3. n \in 1..k \/ n \in (k + 1)..Len(F)
      <4>1. n \in 1..Len(F) /\ Len(F) \in Nat
        BY <1>1, <3>1
      <4>2. QED
        BY <4>1, PlacesOnTheLine
    <3>4. QED
      BY <3>2, <3>3
  <2>3. QED
    BY <2>1, <2>2
<1>5. ASSUME NEW i \in 1..p PROVE Positional(i, spec.positionals[i]) = Named(spec.positionals[i])
  <2>1. Cardinality(free) = k
    <3>1. Cardinality(1..k) = k
      BY FS_Interval
    <3>2. QED
      BY <1>4a, <3>1
  <2>2. CASE i <= k
    <3>1. i \in 1..k
      BY <2>2
    <3>2. Nth(i) = CHOOSE n \in 1..k : Cardinality({m \in 1..k : m < n}) = i - 1
      BY <1>4a
    <3>3. Nth(i) = i
      BY <3>1, <3>2, IthOfInterval
    <3>4. F[i] = args[spec.positionals[i].property].text
      BY <3>1 DEF Text
    <3> HIDE DEF Nth, free
    <3>5. Positional(i, spec.positionals[i]) = F[i]
      BY <2>1, <2>2, <3>3
    <3>6. Given(args, spec.positionals[i])
      BY <2>2
    <3>7. QED
      BY <3>4, <3>5, <3>6
  <2>3. CASE ~(i <= k)
    <3>1. ~Given(args, spec.positionals[i])
      BY <2>3
    <3> HIDE DEF Nth, free
    <3>2. QED
      BY <2>1, <2>3, <3>1
  <2>4. QED
    BY <2>2, <2>3
<1> HIDE DEF Valued, free, Nth
<1>6. ASSUME NEW i \in 1..o
      PROVE  /\ \A n \in At(Flag(spec.options[i])) : n \in (k + 1)..Len(F) /\ F[n] = Flag(spec.options[i])
             /\ \A n \in At(Negated(spec.options[i])) : n \in (k + 1)..Len(F) /\ F[n] = Negated(spec.options[i])
             /\ Flagged(args, spec.options[i]) <=> At(Flag(spec.options[i])) # {}
             /\ TurnedOff(args, spec.options[i]) <=> At(Negated(spec.options[i])) # {}
  <2>1. \A j \in 1..k : \A a : F[j] # Flag(a) /\ F[j] # Negated(a)
    BY <1>4
  <2>2. \A n \in DOMAIN F : n \notin 1..k => n \in (k + 1)..Len(F)
    BY <1>1
  <2>3. \A n \in (k + 1)..Len(F) : n \in DOMAIN F
    BY <1>1
  <2>4. /\ \A n \in At(Flag(spec.options[i])) : n \in (k + 1)..Len(F) /\ F[n] = Flag(spec.options[i])
        /\ \A n \in At(Negated(spec.options[i])) : n \in (k + 1)..Len(F) /\ F[n] = Negated(spec.options[i])
    BY <2>1, <2>2
  <2>5. /\ Flagged(args, spec.options[i]) => At(Flag(spec.options[i])) # {}
        /\ TurnedOff(args, spec.options[i]) => At(Negated(spec.options[i])) # {}
    BY <2>3 DEF IsEnd
  <2> HIDE DEF At
  <2>6. /\ At(Flag(spec.options[i])) # {} => Flagged(args, spec.options[i])
        /\ At(Negated(spec.options[i])) # {} => TurnedOff(args, spec.options[i])
    BY <2>4 DEF IsEnd
  <2>7. QED
    BY <2>4, <2>5, <2>6
<1>7. ASSUME NEW i \in 1..o, spec.options[i].type # "boolean" PROVE Option(spec.options[i]) = Said(spec.options[i])
  <2> DEFINE a == spec.options[i]
             found == At(Flag(a))
  <2>1. Flagged(args, a) <=> Given(args, a)
    BY <1>7 DEF Flagged
  <2>2. found # {} <=> Given(args, a)
    BY <1>6, <2>1
  <2>3. \A n \in found : F[n + 1] = Text(args[a.property])
    <3> HIDE DEF At
    <3>1. QED
      BY <1>6, <1>7 DEF IsEnd
  <2>4. \A v : Text(v) = v.text
    BY DEF Text
  <2>5. Option(a) = IF found = {} THEN a.default.text ELSE F[(CHOOSE n \in found : TRUE) + 1]
    OBVIOUS
  <2>6. Said(a) = IF Given(args, a) THEN args[a.property].text ELSE a.default.text
    BY <1>7
  <2> HIDE DEF found, Option, Said, a
  <2>7. CASE Given(args, a)
    <3>1. (CHOOSE n \in found : TRUE) \in found
      BY <2>2, <2>7
    <3>2. F[(CHOOSE n \in found : TRUE) + 1] = args[a.property].text
      BY <2>3, <2>4, <3>1
    <3>3. Option(a) = F[(CHOOSE n \in found : TRUE) + 1]
      BY <2>2, <2>5, <2>7
    <3>4. QED
      BY <2>6, <2>7, <3>2, <3>3 DEF a
  <2>8. CASE ~Given(args, a)
    <3>1. found = {}
      BY <2>2, <2>8
    <3>2. QED
      BY <2>5, <2>6, <2>8, <3>1 DEF a
  <2>9. QED
    BY <2>7, <2>8
<1>8. ASSUME NEW i \in 1..o, spec.options[i].type = "boolean" PROVE Switch(spec.options[i]) = Said(spec.options[i])
  <2> DEFINE a == spec.options[i]
             on == At(Flag(a))
             off == At(Negated(a))
  <2>1. a \in Arguments /\ a.type = "boolean" /\ Checked(args, a)
    BY <1>1, <1>8 DEF IsCall
  <2>2. (on # {} <=> Flagged(args, a)) /\ (off # {} <=> TurnedOff(args, a))
    BY <1>6
  <2>3. a.default = NoDefault \/ a.default \in Booleans
    BY <2>1, SwitchDefaults
  <2>4. Given(args, a) => args[a.property] \in {True, False}
    <3>1. SUFFICES ASSUME Given(args, a) PROVE args[a.property] \in {True, False}
      OBVIOUS
    <3>2. args[a.property] \in Values /\ args[a.property].kind = "boolean"
      BY <2>1, <3>1 DEF Checked, Fits
    <3>3. args[a.property] \in Booleans
      BY <3>2, CatalogueAssumption
    <3>4. QED
      BY <3>3 DEF Booleans
  <2>5. Switch(a) = IF on # {} THEN True.text ELSE IF off # {} THEN False.text
                    ELSE IF a.default = NoDefault THEN False.text ELSE a.default.text
    OBVIOUS
  <2>6. Said(a) = IF Given(args, a) THEN args[a.property].text
                  ELSE IF a.default = NoDefault THEN False.text ELSE a.default.text
    BY <2>1
  <2>7. a.default = True \/ a.default = False \/ a.default = NoDefault
    BY <2>3 DEF Booleans
  <2> HIDE DEF on, off, Switch, Said, a
  <2>8. CASE Flagged(args, a)
    BY <2>1, <2>2, <2>5, <2>6, <2>8 DEF Flagged, a
  <2>9. CASE TurnedOff(args, a)
    <3>1. ~Flagged(args, a) /\ Given(args, a) /\ args[a.property] = False
      BY <2>4, <2>9 DEF Flagged, TurnedOff
    <3>2. QED
      BY <2>2, <2>5, <2>6, <2>9, <3>1 DEF a
  <2>10. CASE ~Flagged(args, a) /\ ~TurnedOff(args, a)
    <3>1. Switch(a) = IF a.default = NoDefault THEN False.text ELSE a.default.text
      BY <2>2, <2>5, <2>10
    <3>2. CASE ~Given(args, a)
      BY <2>6, <3>1, <3>2 DEF a
    <3>3. CASE Given(args, a)
      <4>1. args[a.property] = False
        BY <2>1, <2>4, <2>10, <3>3 DEF Flagged
      <4>2. a.default # True
        BY <2>1, <2>10, <3>3, <4>1, TruthValues DEF TurnedOff
      <4>3. (IF a.default = NoDefault THEN False.text ELSE a.default.text) = False.text
        BY <2>7, <4>2
      <4>4. QED
        BY <2>6, <3>1, <3>3, <4>1, <4>3 DEF a
    <3>4. QED
      BY <3>2, <3>3
  <2>11. QED
    BY <2>8, <2>9, <2>10
<1> HIDE DEF Positional, Switch, Option, Said, Named
<1>9. [i \in DOMAIN spec.positionals |-> Positional(i, spec.positionals[i])]
        = [i \in DOMAIN spec.positionals |-> Named(spec.positionals[i])]
  BY <1>1, <1>5
<1>10. [i \in DOMAIN spec.options |-> IF spec.options[i].type = "boolean"
                                      THEN Switch(spec.options[i]) ELSE Option(spec.options[i])]
         = [i \in DOMAIN spec.options |-> Said(spec.options[i])]
  BY <1>1, <1>7, <1>8
<1>11. QED
  BY <1>2, <1>3, <1>9, <1>10

-----------------------------------------------------------------------------
(* The property. *)

\* A call that is compiled is understood.
LEMMA CompiledUnderstood ==
  ASSUME NEW spec, IsTool(spec), NEW args, IsCall(spec, args), ~Gap(spec, args), ~Dashed(args)
  PROVE  Understood(spec, Argv(spec, args)) = Meant(spec, args)
<1> DEFINE P == FlattenSeq(PositionalSegments(spec, args))
           O == FlattenSeq(OptionSegments(spec, args))
<1>1. PICK k \in Nat : IsStart(P, spec, args, k)
  BY StartOfCommandLine
<1>2. O \in Seq(Tokens) /\ IsEnd(O, spec, args, 0)
  BY EndOfCommandLine
<1>3. Argv(spec, args) = P \o O
  BY DEF Argv, PositionalSegments, OptionSegments
<1> HIDE DEF P, O
<1>4. /\ P \o O \in Seq(Tokens) /\ k <= Len(P \o O)
      /\ \A j \in 1..k : (P \o O)[j] = Text(args[spec.positionals[j].property])
      /\ IsEnd(P \o O, spec, args, k)
  BY <1>1, <1>2, CommandLine
<1>5. /\ k <= Len(spec.positionals)
      /\ \A i \in 1..Len(spec.positionals) : Given(args, spec.positionals[i]) <=> i <= k
  <2>1. /\ k \in 0..Len(spec.positionals)
        /\ \A i \in 1..Len(spec.positionals) : Given(args, spec.positionals[i]) <=> i <= k
    BY <1>1 DEF IsStart
  <2>2. QED
    BY <2>1
<1>6. Understood(spec, P \o O) = Meant(spec, args)
  BY <1>4, <1>5, CommandLineUnderstood
<1>7. QED
  BY <1>3, <1>6

\* A given value has a text, unless its input is boolean or it is too large.
LEMMA ValuesHaveTexts ==
  ASSUME NEW args, NEW a, Given(args, a), Checked(args, a), a.type # "boolean",
         ~(a.type = "integer" /\ args[a.property].kind = "huge")
  PROVE  scalarText(args[a.property], a.type).ok
<1>1. Fits(args[a.property], a.type)
  BY DEF Checked
<1>2. QED
  BY <1>1 DEF scalarText

\* A call without a gap is compiled, unless a positional is boolean or an integer
\* too large.
LEMMA CallsCompile ==
  ASSUME NEW spec, IsTool(spec), NEW args, IsCall(spec, args), ~TooLarge(spec, args),
         \A i \in DOMAIN spec.positionals : spec.positionals[i].type # "boolean"
  PROVE  Compiles(spec, args)
<1>1. DOMAIN spec.positionals = 1..Len(spec.positionals) /\ DOMAIN spec.options = 1..Len(spec.options)
  <2>1. spec.positionals \in Seq(Arguments) /\ spec.options \in Seq(Arguments)
    BY DEF IsTool
  <2>2. QED
    BY <2>1, LenProperties
<1>2. ASSUME NEW i \in DOMAIN spec.positionals
      PROVE  IF Given(args, spec.positionals[i])
             THEN scalarText(args[spec.positionals[i].property], spec.positionals[i].type).ok
             ELSE ~spec.positionals[i].required
  <2>1. Checked(args, spec.positionals[i])
    BY <1>1 DEF IsCall
  <2>2. CASE Given(args, spec.positionals[i])
    <3>1. ~(spec.positionals[i].type = "integer" /\ args[spec.positionals[i].property].kind = "huge")
      BY <2>2 DEF TooLarge, Range
    <3>2. QED
      BY <2>1, <2>2, <3>1, ValuesHaveTexts
  <2>3. CASE ~Given(args, spec.positionals[i])
    BY <2>1, <2>3 DEF Checked
  <2>4. QED
    BY <2>2, <2>3
<1>3. ASSUME NEW i \in DOMAIN spec.options, Given(args, spec.options[i]), spec.options[i].type # "boolean"
      PROVE  scalarText(args[spec.options[i].property], spec.options[i].type).ok
  <2>1. Checked(args, spec.options[i])
    BY <1>1 DEF IsCall
  <2>2. ~(spec.options[i].type = "integer" /\ args[spec.options[i].property].kind = "huge")
    BY <1>3 DEF TooLarge, Range
  <2>3. QED
    BY <1>3, <2>1, <2>2, ValuesHaveTexts
<1>4. QED
  BY <1>2, <1>3 DEF Compiles

\* Every call of every command of the catalogue is understood, whatever the
\* catalogue is and whatever values the call gives, unless a text begins with a dash.
THEOREM CallsAreUnderstood == CallsUnderstood
<1>1. SUFFICES ASSUME NEW c \in HelpCommands, Accepts(c), NEW args \in ValidArguments(buildTool(c))
               PROVE  IF compileArguments(buildTool(c), args).ok
                      THEN ~Dashed(args) =>
                             Understood(buildTool(c), compileArguments(buildTool(c), args).argv) = Meant(buildTool(c), args)
                      ELSE \/ Gap(buildTool(c), args)
                           \/ TooLarge(buildTool(c), args)
                           \/ \E i \in DOMAIN buildTool(c).positionals : buildTool(c).positionals[i].type = "boolean"
  BY DEF CallsUnderstood
<1> DEFINE spec == buildTool(c)
<1>2. IsTool(spec)
  BY <1>1, ToolsAreTools
<1>3. IsCall(spec, args)
  BY <1>2, ValidCalls
<1> HIDE DEF spec
<1>4. CASE Compiles(spec, args) /\ ~Gap(spec, args)
  <2>1. compileArguments(spec, args) = [ok |-> TRUE, argv |-> Argv(spec, args)]
    BY <1>4 DEF compileArguments
  <2>2. compileArguments(spec, args).ok /\ compileArguments(spec, args).argv = Argv(spec, args)
    BY <2>1
  <2>3. ~Dashed(args) => Understood(spec, Argv(spec, args)) = Meant(spec, args)
    BY <1>2, <1>3, <1>4, CompiledUnderstood
  <2>4. QED
    BY <2>2, <2>3 DEF spec
<1>5. CASE ~(Compiles(spec, args) /\ ~Gap(spec, args))
  <2>1. compileArguments(spec, args) = [ok |-> FALSE]
    BY <1>5 DEF compileArguments
  <2>2. ~compileArguments(spec, args).ok
    BY <2>1
  <2>3. \/ Gap(spec, args) \/ TooLarge(spec, args)
        \/ \E i \in DOMAIN spec.positionals : spec.positionals[i].type = "boolean"
    BY <1>2, <1>3, <1>5, CallsCompile
  <2>4. QED
    BY <2>2, <2>3 DEF spec
<1>6. QED
  BY <1>4, <1>5

\* A start with any set of commands that is not refused leads from the name of
\* each one's tool to that command.
LEMMA LoadedNames ==
  ASSUME NEW allowed, Load(allowed).ok, NEW a \in allowed
  PROVE  Load(allowed).commands[ToolName(a.site, a.command)] = a
<1> DEFINE name(b) == ToolName(b.site, b.command)
           Names == {name(b) : b \in allowed}
           Named(n) == CHOOSE b \in allowed : name(b) = n
           Clash == \E b, d \in allowed : b # d /\ name(b) = name(d)
           commands == [n \in Names |-> Named(n)]
<1>1. ~Clash
  <2>1. SUFFICES ASSUME Clash PROVE FALSE
    OBVIOUS
  <2>2. Load(allowed) = [ok |-> FALSE]
    BY <2>1 DEF Load
  <2>3. QED
    BY <2>2
<1>2. Load(allowed) = [ok |-> TRUE, commands |-> commands]
  BY <1>1 DEF Load
<1>3. Load(allowed).commands = commands
  BY <1>2
<1> HIDE DEF name, Names, Named
<1>4. name(a) \in Names
  BY DEF Names
<1>5. Named(name(a)) = a
  BY <1>1 DEF Named
<1>6. commands[name(a)] = a
  BY <1>4, <1>5
<1>7. QED
  BY <1>3, <1>6 DEF name

\* ArgumentsSurvive: whatever OpenCLI's catalogue holds and whatever a call gives,
\* the command is the one whose tool was called, and it understands exactly the
\* arguments of the call where none of their texts begins with a dash; only a gap,
\* a boolean positional or an integer beyond int64 is refused (provider.go:355,
\* compileArguments).
THEOREM ArgumentsReachTheCommand == Spec => []ArgumentsSurvive
<1>1. ToolsNameCommands
  <2>1. SUFFICES ASSUME NEW a \in [site : Sites, command : CommandNames],
                        NEW b \in [site : Sites, command : CommandNames], Load({a, b}).ok
                 PROVE  Load({a, b}).commands[ToolName(a.site, a.command)] = a
    BY DEF ToolsNameCommands
  <2>2. QED
    BY <2>1, LoadedNames
<1>2. ArgumentsSurvive
  BY <1>1, CallsAreUnderstood DEF ArgumentsSurvive
<1>3. QED
  BY <1>2, PTL
==============================================================================
