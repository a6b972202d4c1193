---------------------------- MODULE FileStore_proofs ----------------------------
(***************************************************************************)
(* What FileStore's operators come to, for any layout and any lengths of   *)
(* pieces and blocks: reading and writing are those of one row of bytes    *)
(* (ReadsTheRow, WritesTheRow), the pieces fill the row, and the blocks a  *)
(* piece (PiecesFill, BlockInPiece).                                       *)
(*                                                                         *)
(* The loops of the code are recursive functions, the folds those of the   *)
(* community modules.  That such a function exists, and what it returns,   *)
(* is proved by induction over a set of numbers: the numbers up to which   *)
(* it does are all of them (InductionBySet).                               *)
(***************************************************************************)
EXTENDS FileStore, SequenceTheorems, WellFoundedInduction, TLAPS

\* Induction, over a set of numbers
LEMMA InductionBySet ==
  ASSUME NEW S \in SUBSET Nat, 0 \in S, \A n \in S : n + 1 \in S
  PROVE  S = Nat
<1> DEFINE T == Nat \ S
<1>1. SUFFICES ASSUME T # {} PROVE FALSE
  OBVIOUS
<1>2. \E x \in T : \A y \in T : ~(<<y, x>> \in OpToRel(<, Nat))
  <2>1. IsWellFoundedOn(OpToRel(<, Nat), Nat)
    BY NatLessThanWellFounded
  <2>2. T \subseteq Nat
    OBVIOUS
  <2> HIDE DEF T
  <2> QED BY <2>1, <2>2, <1>1, WFMin
<1>3. PICK x \in T : \A y \in T : ~(<<y, x>> \in OpToRel(<, Nat))
  BY <1>2
<1>4. \A y \in T : ~(y < x)
  BY <1>3 DEF OpToRel
<1>5. x \in Nat /\ x # 0 /\ x - 1 \in Nat
  OBVIOUS
<1>6. x - 1 \in S
  BY <1>4, <1>5
<1> QED BY <1>5, <1>6

-----------------------------------------------------------------------------
(* Sequences one behind the other, and FlattenSeq.                           *)

\* f is FlattenSeq as far as n
FlatTo(f, s, n) ==
  f = [i \in 1 .. n |-> IF i = 1 THEN s[i] ELSE f[i - 1] \o s[i]]

\* The function FlattenSeq is defined by exists
LEMMA FlatExists ==
  ASSUME NEW s, NEW n \in Nat
  PROVE  \E f : FlatTo(f, s, n)
<1> DEFINE S == {m \in Nat : \E f : FlatTo(f, s, m)}
<1>1. 0 \in S
  <2> DEFINE f == [i \in 1 .. 0 |-> 0]
  <2>1. FlatTo(f, s, 0)
    BY DEF FlatTo
  <2> HIDE DEF f
  <2> QED BY <2>1
<1>2. ASSUME NEW m \in S PROVE m + 1 \in S
  <2>1. PICK f : FlatTo(f, s, m)
    OBVIOUS
  <2> DEFINE g == [i \in 1 .. m + 1 |-> IF i = 1 THEN s[i]
                                        ELSE IF i = m + 1 THEN f[m] \o s[m + 1] ELSE f[i]]
  <2>2. FlatTo(g, s, m + 1)
    <3>1. ASSUME NEW i \in 1 .. m + 1
          PROVE  g[i] = IF i = 1 THEN s[i] ELSE g[i - 1] \o s[i]
      <4>1. CASE i = 1
        BY <4>1
      <4>2. CASE i # 1 /\ i = m + 1
        <5>1. m \in 1 .. m
          BY <4>2
        <5>2. f[m] = IF m = 1 THEN s[m] ELSE f[m - 1] \o s[m]
          BY <2>1, <5>1 DEF FlatTo
        <5>3. g[m] = f[m]
          BY <5>1, <5>2
        <5>4. g[i] = f[m] \o s[m + 1]
          BY <4>2
        <5>5. i - 1 = m
          BY <4>2
        <5> HIDE DEF g
        <5> QED BY <4>2, <5>3, <5>4, <5>5
      <4>3. CASE i # 1 /\ i # m + 1
        <5>1. i \in 1 .. m /\ i - 1 \in 1 .. m
          BY <4>3
        <5>2. f[i] = f[i - 1] \o s[i]
          BY <2>1, <4>3, <5>1 DEF FlatTo
        <5>3. f[i - 1] = IF i - 1 = 1 THEN s[i - 1] ELSE f[(i - 1) - 1] \o s[i - 1]
          BY <2>1, <5>1 DEF FlatTo
        <5>4. g[i - 1] = f[i - 1]
          BY <4>3, <5>1, <5>3
        <5> QED BY <4>3, <5>2, <5>4
      <4> QED BY <4>1, <4>2, <4>3
    <3>2. g = [i \in 1 .. m + 1 |-> g[i]]
      OBVIOUS
    <3> HIDE DEF g
    <3> QED BY <3>1, <3>2 DEF FlatTo
  <2>3. m + 1 \in Nat
    OBVIOUS
  <2> HIDE DEF g
  <2> QED BY <2>2, <2>3
<1>3. S = Nat
  <2> S \in SUBSET Nat
    OBVIOUS
  <2> HIDE DEF S
  <2> QED BY <1>1, <1>2, InductionBySet
<1>4. n \in S
  <2> HIDE DEF S
  <2> QED BY <1>3
<1> QED BY <1>4

\* FlattenSeq, step by step
LEMMA FlattenSteps ==
  ASSUME NEW s, Len(s) \in Nat
  PROVE  \E f : /\ Len(s) > 0 => f[1] = s[1] /\ FlattenSeq(s) = f[Len(s)]
                /\ \A i \in 1 .. Len(s) - 1 : f[i + 1] = f[i] \o s[i + 1]
<1> DEFINE f == CHOOSE g : g = [i \in 1 .. Len(s) |-> IF i = 1 THEN s[i] ELSE g[i - 1] \o s[i]]
<1>1. f = [i \in 1 .. Len(s) |-> IF i = 1 THEN s[i] ELSE f[i - 1] \o s[i]]
  <2>1. \E g : g = [i \in 1 .. Len(s) |-> IF i = 1 THEN s[i] ELSE g[i - 1] \o s[i]]
    BY FlatExists DEF FlatTo
  <2> QED BY <2>1
<1>2. Len(s) > 0 => FlattenSeq(s) = f[Len(s)]
  BY DEF FlattenSeq
<1> HIDE DEF f
<1>3. \A i \in 1 .. Len(s) : f[i] = IF i = 1 THEN s[i] ELSE f[i - 1] \o s[i]
  BY <1>1
<1>4. Len(s) > 0 => f[1] = s[1]
  BY <1>3
<1>5. ASSUME NEW i \in 1 .. Len(s) - 1 PROVE f[i + 1] = f[i] \o s[i + 1]
  <2>1. i + 1 \in 1 .. Len(s) /\ i + 1 # 1 /\ (i + 1) - 1 = i
    OBVIOUS
  <2> QED BY <1>3, <2>1
<1> QED BY <1>2, <1>4, <1>5

\* What is flattened is a sequence
LEMMA FlattenType ==
  ASSUME NEW V, NEW s \in Seq(Seq(V))
  PROVE  FlattenSeq(s) \in Seq(V)
<1>0. Len(s) \in Nat
  OBVIOUS
<1>1. PICK f : /\ Len(s) > 0 => f[1] = s[1] /\ FlattenSeq(s) = f[Len(s)]
               /\ \A i \in 1 .. Len(s) - 1 : f[i + 1] = f[i] \o s[i + 1]
  BY <1>0, FlattenSteps
<1> DEFINE S == {m \in Nat : m + 1 <= Len(s) => f[m + 1] \in Seq(V)}
<1>2. 0 \in S
  BY <1>1
<1>3. ASSUME NEW m \in S PROVE m + 1 \in S
  <2>1. CASE (m + 1) + 1 <= Len(s)
    <3>1. m + 1 \in 1 .. Len(s) - 1 /\ m + 1 <= Len(s) /\ (m + 1) + 1 \in 1 .. Len(s)
      BY <2>1, <1>0
    <3>2. f[m + 1] \in Seq(V) /\ s[(m + 1) + 1] \in Seq(V)
      BY <3>1
    <3>3. f[(m + 1) + 1] = f[m + 1] \o s[(m + 1) + 1]
      BY <3>1, <1>1
    <3>4. f[(m + 1) + 1] \in Seq(V)
      BY <3>2, <3>3, ConcatProperties
    <3> QED BY <3>4
  <2> QED BY <2>1
<1>4. S = Nat
  <2> S \in SUBSET Nat
    OBVIOUS
  <2> HIDE DEF S
  <2> QED BY <1>2, <1>3, InductionBySet
<1>5. CASE Len(s) > 0
  <2>1. Len(s) - 1 \in Nat /\ (Len(s) - 1) + 1 = Len(s)
    BY <1>0, <1>5
  <2>2. Len(s) - 1 \in S
    <3> HIDE DEF S
    <3> QED BY <1>4, <2>1
  <2> QED BY <1>1, <1>5, <2>1, <2>2
<1>6. CASE Len(s) = 0
  <2>1. FlattenSeq(s) = s
    BY <1>6 DEF FlattenSeq
  <2>2. s = <<>>
    BY <1>6
  <2> QED BY <2>1, <2>2
<1> QED BY <1>0, <1>5, <1>6

\* a sequence more at the end
LEMMA FlattenLast ==
  ASSUME NEW V, NEW s \in Seq(Seq(V)), NEW x \in Seq(V)
  PROVE  FlattenSeq(Append(s, x)) = FlattenSeq(s) \o x
<1> DEFINE t == Append(s, x)
<1>0. Len(s) \in Nat /\ Len(t) = Len(s) + 1 /\ t[Len(s) + 1] = x
      /\ \A i \in 1 .. Len(s) : t[i] = s[i]
  OBVIOUS
<1> HIDE DEF t
<1>1. PICK f : /\ Len(s) > 0 => f[1] = s[1] /\ FlattenSeq(s) = f[Len(s)]
               /\ \A i \in 1 .. Len(s) - 1 : f[i + 1] = f[i] \o s[i + 1]
  BY <1>0, FlattenSteps
<1>2. PICK g : /\ Len(t) > 0 => g[1] = t[1] /\ FlattenSeq(t) = g[Len(t)]
               /\ \A i \in 1 .. Len(t) - 1 : g[i + 1] = g[i] \o t[i + 1]
  <2>1. Len(t) \in Nat
    BY <1>0
  <2> QED BY <2>1, FlattenSteps
<1> DEFINE S == {m \in Nat : m + 1 <= Len(s) => g[m + 1] = f[m + 1]}
<1>3. 0 \in S
  <2>1. 1 <= Len(s) => g[1] = f[1]
    BY <1>0, <1>1, <1>2
  <2> QED BY <2>1
<1>4. ASSUME NEW m \in S PROVE m + 1 \in S
  <2>1. CASE (m + 1) + 1 <= Len(s)
    <3>1. /\ m + 1 \in 1 .. Len(s) - 1 /\ m + 1 \in 1 .. Len(t) - 1
          /\ m + 1 <= Len(s) /\ (m + 1) + 1 \in 1 .. Len(s)
      BY <2>1, <1>0
    <3>2. f[(m + 1) + 1] = f[m + 1] \o s[(m + 1) + 1]
      BY <3>1, <1>1
    <3>3. g[(m + 1) + 1] = g[m + 1] \o t[(m + 1) + 1]
      BY <3>1, <1>2
    <3>4. g[m + 1] = f[m + 1] /\ t[(m + 1) + 1] = s[(m + 1) + 1]
      BY <3>1, <1>0
    <3>5. g[(m + 1) + 1] = f[(m + 1) + 1]
      BY <3>2, <3>3, <3>4
    <3> QED BY <3>5
  <2> QED BY <2>1
<1>5. S = Nat
  <2> S \in SUBSET Nat
    OBVIOUS
  <2> HIDE DEF S
  <2> QED BY <1>3, <1>4, InductionBySet
<1>6. CASE Len(s) > 0
  <2>1. Len(s) - 1 \in Nat /\ (Len(s) - 1) + 1 = Len(s)
    BY <1>0, <1>6
  <2>2. Len(s) - 1 \in S
    <3> HIDE DEF S
    <3> QED BY <1>5, <2>1
  <2>3. g[Len(s)] = f[Len(s)]
    BY <1>0, <2>1, <2>2
  <2>4. Len(s) \in 1 .. Len(t) - 1
    BY <1>0, <1>6
  <2>5. g[Len(s) + 1] = g[Len(s)] \o t[Len(s) + 1]
    BY <1>2, <2>4
  <2>6. FlattenSeq(t) = g[Len(s) + 1]
    BY <1>0, <1>2
  <2>7. FlattenSeq(s) = f[Len(s)]
    BY <1>1, <1>6
  <2> QED BY <2>3, <2>5, <2>6, <2>7, <1>0 DEF t
<1>7. CASE Len(s) = 0
  <2>1. FlattenSeq(s) = s /\ s = <<>>
    BY <1>7 DEF FlattenSeq
  <2>2. FlattenSeq(t) = g[1] /\ g[1] = x
    BY <1>0, <1>2, <1>7
  <2> QED BY <2>1, <2>2, ConcatEmptySeq DEF t
<1> QED BY <1>0, <1>6, <1>7

\* \o by a name the provers see
Cat(x, y) == x \o y

\* A sequence put together from three, in either order
LEMMA CatAssociative ==
  ASSUME NEW V, NEW x \in Seq(V), NEW y \in Seq(V), NEW z \in Seq(V)
  PROVE  Cat(Cat(x, y), z) = Cat(x, Cat(y, z))
BY DEF Cat

\* the first of them taken off
LEMMA FlattenFirst ==
  ASSUME NEW V, NEW s \in Seq(Seq(V)), NEW t \in Seq(Seq(V)), Len(s) = Len(t) + 1,
         \A i \in 1 .. Len(t) : t[i] = s[i + 1]
  PROVE  FlattenSeq(s) = s[1] \o FlattenSeq(t)
<1>0. Len(s) \in Nat /\ Len(t) \in Nat /\ Len(s) > 0 /\ s[1] \in Seq(V)
  OBVIOUS
<1>1. PICK f : /\ Len(s) > 0 => f[1] = s[1] /\ FlattenSeq(s) = f[Len(s)]
               /\ \A i \in 1 .. Len(s) - 1 : f[i + 1] = f[i] \o s[i + 1]
  BY <1>0, FlattenSteps
<1>2. PICK g : /\ Len(t) > 0 => g[1] = t[1] /\ FlattenSeq(t) = g[Len(t)]
               /\ \A i \in 1 .. Len(t) - 1 : g[i + 1] = g[i] \o t[i + 1]
  BY <1>0, FlattenSteps
<1> DEFINE Led(k) == g[k] \in Seq(V) /\ f[k + 1] = s[1] \o g[k]
           S == {m \in Nat : m + 1 <= Len(t) => Led(m + 1)}
<1>3. 0 \in S
  <2>1. ASSUME 1 <= Len(t)
        PROVE  Led(1)
    <3>1. 1 \in 1 .. Len(s) - 1 /\ 1 \in 1 .. Len(t)
      BY <1>0, <2>1
    <3>2. f[1 + 1] = f[1] \o s[1 + 1]
      BY <1>1, <3>1
    <3>3. t[1] = s[1 + 1] /\ t[1] \in Seq(V)
      BY <3>1
    <3>4. f[1] = s[1] /\ g[1] = t[1]
      BY <1>0, <1>1, <1>2, <2>1
    <3> QED BY <3>2, <3>3, <3>4
  <2> HIDE DEF Led
  <2> QED BY <2>1
<1>4. ASSUME NEW m \in S PROVE m + 1 \in S
  <2>1. CASE (m + 1) + 1 <= Len(t)
    <3>1. PICK k \in Nat : k = m + 1
      OBVIOUS
    <3>2. k \in 1 .. Len(t) - 1 /\ k + 1 \in 1 .. Len(s) - 1 /\ k <= Len(t) /\ k + 1 \in 1 .. Len(t)
      BY <2>1, <1>0, <3>1
    <3>3. Led(k)
      <4> HIDE DEF Led
      <4> QED BY <3>1, <3>2
    <3>4. g[k + 1] = g[k] \o t[k + 1]
      BY <3>2, <1>2
    <3>5. f[(k + 1) + 1] = f[k + 1] \o s[(k + 1) + 1]
      BY <3>2, <1>1
    <3>6. t[k + 1] = s[(k + 1) + 1] /\ t[k + 1] \in Seq(V)
      BY <3>2
    <3> DEFINE a == s[1]
               b == g[k]
               c == t[k + 1]
    <3>7. a \in Seq(V) /\ b \in Seq(V) /\ c \in Seq(V)
      BY <1>0, <3>3, <3>6
    <3>8. f[(k + 1) + 1] = f[k + 1] \o c /\ f[k + 1] = a \o b /\ g[k + 1] = b \o c
      BY <3>3, <3>4, <3>5, <3>6
    <3> HIDE DEF a, b, c
    <3>9. f[(k + 1) + 1] = Cat(a, g[k + 1])
      <4>1. f[(k + 1) + 1] = Cat(Cat(a, b), c) /\ g[k + 1] = Cat(b, c)
        BY <3>8 DEF Cat
      <4> QED BY <3>7, <4>1, CatAssociative
    <3>11. g[k + 1] \in Seq(V)
      BY <3>7, <3>8, ConcatProperties
    <3>10. Led(k + 1)
      BY <3>9, <3>11 DEF a, Cat
    <3> HIDE DEF Led
    <3> QED BY <3>1, <3>10
  <2> HIDE DEF Led
  <2> QED BY <2>1
<1>5. S = Nat
  <2> S \in SUBSET Nat
    OBVIOUS
  <2> HIDE DEF S
  <2> QED BY <1>3, <1>4, InductionBySet
<1>6. CASE Len(t) > 0
  <2>1. Len(t) - 1 \in Nat /\ (Len(t) - 1) + 1 = Len(t)
    BY <1>0, <1>6
  <2>2. Len(t) - 1 \in S
    <3> HIDE DEF S
    <3> QED BY <1>5, <2>1
  <2>3. Led(Len(t))
    <3> HIDE DEF Led
    <3> QED BY <1>0, <2>1, <2>2
  <2>4. FlattenSeq(t) = g[Len(t)] /\ FlattenSeq(s) = f[Len(t) + 1]
    BY <1>0, <1>1, <1>2, <1>6
  <2> QED BY <2>3, <2>4
<1>7. CASE Len(t) = 0
  <2>1. FlattenSeq(t) = t /\ t = <<>>
    BY <1>7 DEF FlattenSeq
  <2>2. FlattenSeq(s) = s[1]
    BY <1>0, <1>1, <1>7
  <2> QED BY <1>0, <2>1, <2>2, ConcatEmptySeq
<1> QED BY <1>0, <1>6, <1>7

-----------------------------------------------------------------------------
(* Where files begin.                                                        *)

\* f is the sum of the lengths, over D
SumTo(lens, f, D) == f = [j \in D |-> IF j = 0 THEN 0 ELSE f[j - 1] + lens[j]]

\* Two sums of the same lengths agree as far as both go
LEMMA SumUnique ==
  ASSUME NEW lens, NEW n \in Nat, NEW m \in Nat, NEW g, NEW h,
         SumTo(lens, g, 0 .. n), SumTo(lens, h, 0 .. m)
  PROVE  \A j \in 0 .. n : j \in 0 .. m => g[j] = h[j]
<1> DEFINE S == {j \in Nat : j \in 0 .. n /\ j \in 0 .. m => g[j] = h[j]}
<1>1. /\ \A j \in 0 .. n : g[j] = IF j = 0 THEN 0 ELSE g[j - 1] + lens[j]
      /\ \A j \in 0 .. m : h[j] = IF j = 0 THEN 0 ELSE h[j - 1] + lens[j]
  <2>1. \A j \in 0 .. n : g[j] = IF j = 0 THEN 0 ELSE g[j - 1] + lens[j]
    BY DEF SumTo
  <2>2. \A j \in 0 .. m : h[j] = IF j = 0 THEN 0 ELSE h[j - 1] + lens[j]
    BY DEF SumTo
  <2> QED BY <2>1, <2>2
<1>2. 0 \in S
  BY <1>1
<1>3. ASSUME NEW j \in S PROVE j + 1 \in S
  <2>1. SUFFICES ASSUME j + 1 \in 0 .. n, j + 1 \in 0 .. m PROVE g[j + 1] = h[j + 1]
    OBVIOUS
  <2>2. j \in 0 .. n /\ j \in 0 .. m /\ j + 1 # 0 /\ (j + 1) - 1 = j
    BY <2>1
  <2>3. g[j] = h[j]
    BY <2>2
  <2>4. g[j + 1] = g[j] + lens[j + 1] /\ h[j + 1] = h[j] + lens[j + 1]
    BY <1>1, <2>1, <2>2
  <2> QED BY <2>3, <2>4
<1>4. S = Nat
  <2> S \in SUBSET Nat
    OBVIOUS
  <2> HIDE DEF S
  <2> QED BY <1>2, <1>3, InductionBySet
<1> QED BY <1>4

\* The function Offset is defined by exists
LEMMA SumExists == ASSUME NEW lens PROVE \E f : SumTo(lens, f, Nat)
<1> DEFINE S == {n \in Nat : \E g : SumTo(lens, g, 0 .. n)}
<1>1. 0 \in S
  <2> DEFINE g == [j \in 0 .. 0 |-> 0]
  <2>1. SumTo(lens, g, 0 .. 0)
    BY DEF SumTo
  <2> QED BY <2>1
<1>2. ASSUME NEW n \in S PROVE n + 1 \in S
  <2>1. PICK g : SumTo(lens, g, 0 .. n)
    OBVIOUS
  <2> DEFINE h == [j \in 0 .. n + 1 |-> IF j = n + 1 THEN g[n] + lens[n + 1] ELSE g[j]]
  <2>2. SumTo(lens, h, 0 .. n + 1)
    <3>1. SUFFICES ASSUME NEW j \in 0 .. n + 1
                   PROVE h[j] = IF j = 0 THEN 0 ELSE h[j - 1] + lens[j]
      BY Zenon DEF SumTo
    <3>2. CASE j = n + 1
      BY <3>2
    <3>3. CASE j # n + 1
      BY <3>3, <2>1 DEF SumTo
    <3> QED BY <3>2, <3>3
  <2>3. n + 1 \in Nat
    OBVIOUS
  <2> HIDE DEF h
  <2> QED BY <2>2, <2>3
<1>3. S = Nat
  <2> S \in SUBSET Nat
    OBVIOUS
  <2> HIDE DEF S
  <2> QED BY <1>1, <1>2, InductionBySet
<1> DEFINE upTo(n) == CHOOSE g : SumTo(lens, g, 0 .. n)
           f == [n \in Nat |-> upTo(n)[n]]
<1>4. ASSUME NEW n \in Nat PROVE SumTo(lens, upTo(n), 0 .. n)
  <2>1. \E g : SumTo(lens, g, 0 .. n)
    BY <1>3
  <2> QED BY <2>1
<1> HIDE DEF S, upTo
<1>5. ASSUME NEW n \in Nat PROVE f[n] = IF n = 0 THEN 0 ELSE f[n - 1] + lens[n]
  <2>1. n \in 0 .. n
    OBVIOUS
  <2>2. upTo(n)[n] = IF n = 0 THEN 0 ELSE upTo(n)[n - 1] + lens[n]
    BY <1>4, <2>1 DEF SumTo
  <2>3. ASSUME n # 0 PROVE upTo(n)[n - 1] = upTo(n - 1)[n - 1]
    <3>1. n - 1 \in Nat /\ n - 1 \in 0 .. n /\ n - 1 \in 0 .. n - 1
      BY <2>3
    <3>2. SumTo(lens, upTo(n), 0 .. n) /\ SumTo(lens, upTo(n - 1), 0 .. n - 1)
      BY <1>4, <3>1
    <3> QED BY <3>1, <3>2, SumUnique
  <2>4. n # 0 => n - 1 \in Nat
    OBVIOUS
  <2> QED BY <2>2, <2>3, <2>4
<1>6. f = [n \in Nat |-> IF n = 0 THEN 0 ELSE f[n - 1] + lens[n]]
  <2>1. f = [n \in Nat |-> f[n]]
    OBVIOUS
  <2> HIDE DEF f
  <2> QED BY <1>5, <2>1
<1> QED BY <1>6 DEF SumTo

\* Offset, file after file
LEMMA OffsetStep ==
  ASSUME NEW lens
  PROVE  /\ Offset(lens, 1) = 0
         /\ \A i \in Nat \ {0} : Offset(lens, i + 1) = Offset(lens, i) + lens[i]
<1> DEFINE f == CHOOSE g : g = [j \in Nat |-> IF j = 0 THEN 0 ELSE g[j - 1] + lens[j]]
<1>1. f = [j \in Nat |-> IF j = 0 THEN 0 ELSE f[j - 1] + lens[j]]
  <2>1. \E g : g = [j \in Nat |-> IF j = 0 THEN 0 ELSE g[j - 1] + lens[j]]
    BY SumExists DEF SumTo
  <2> QED
    BY <2>1
<1>2. \A i : Offset(lens, i) = f[i - 1]
  BY DEF Offset
<1> HIDE DEF f
<1>3. \A i \in Nat : f[i] = IF i = 0 THEN 0 ELSE f[i - 1] + lens[i]
  BY <1>1
<1>4. f[0] = 0
  BY <1>3
<1>5. ASSUME NEW i \in Nat \ {0} PROVE f[(i + 1) - 1] = f[i - 1] + lens[i]
  BY <1>3
<1> QED
  BY <1>2, <1>4, <1>5


\* Every file begins at a number
LEMMA OffsetType ==
  ASSUME NEW lens \in Seq(Nat)
  PROVE  \A i \in 1 .. Len(lens) + 1 : Offset(lens, i) \in Nat
<1> DEFINE S == {n \in Nat : n <= Len(lens) => Offset(lens, n + 1) \in Nat}
<1>1. 0 \in S
  BY OffsetStep
<1>2. ASSUME NEW n \in S PROVE n + 1 \in S
  <2>1. CASE n + 1 <= Len(lens)
    <3>1. Offset(lens, (n + 1) + 1) = Offset(lens, n + 1) + lens[n + 1]
      BY OffsetStep
    <3>2. n <= Len(lens) /\ n + 1 \in 1 .. Len(lens)
      BY <2>1
    <3> QED
      BY <3>1, <3>2
  <2> QED
    BY <2>1
<1>3. S = Nat
  <2> S \in SUBSET Nat
    OBVIOUS
  <2> HIDE DEF S
  <2> QED BY <1>1, <1>2, InductionBySet
<1>4. ASSUME NEW i \in 1 .. Len(lens) + 1 PROVE Offset(lens, i) \in Nat
  <2>1. i - 1 \in Nat /\ i - 1 <= Len(lens) /\ (i - 1) + 1 = i
    OBVIOUS
  <2>3. i - 1 \in S
    <3> HIDE DEF S
    <3> QED BY <1>3, <2>1
  <2>2. Offset(lens, (i - 1) + 1) \in Nat
    BY <2>1, <2>3
  <2> QED
    BY <2>1, <2>2
<1> QED BY <1>4

\* A file begins where the one before it ends
LEMMA OffsetNext ==
  ASSUME NEW lens \in Seq(Nat), NEW i \in 1 .. Len(lens)
  PROVE  /\ Offset(lens, i) \in Nat /\ Offset(lens, i + 1) \in Nat
         /\ Offset(lens, i + 1) = Offset(lens, i) + lens[i]
         /\ lens[i] \in Nat
<1>1. i \in Nat \ {0} /\ i \in 1 .. Len(lens) + 1 /\ i + 1 \in 1 .. Len(lens) + 1
  OBVIOUS
<1>2. lens[i] \in Nat
  OBVIOUS
<1>3. Offset(lens, i + 1) = Offset(lens, i) + lens[i]
  BY <1>1, OffsetStep
<1>4. Offset(lens, i) \in Nat /\ Offset(lens, i + 1) \in Nat
  BY <1>1, OffsetType
<1> QED BY <1>2, <1>3, <1>4

\* Files lie in their order
LEMMA OffsetMonotone ==
  ASSUME NEW lens \in Seq(Nat), NEW i \in 1 .. Len(lens) + 1, NEW j \in i .. Len(lens) + 1
  PROVE  Offset(lens, i) <= Offset(lens, j)
<1>0. \A k \in 1 .. Len(lens) : Offset(lens, k) <= Offset(lens, k + 1)
  <2> SUFFICES ASSUME NEW k \in 1 .. Len(lens) PROVE Offset(lens, k) <= Offset(lens, k + 1)
    OBVIOUS
  <2>1. /\ Offset(lens, k) \in Nat /\ Offset(lens, k + 1) \in Nat /\ lens[k] \in Nat
        /\ Offset(lens, k + 1) = Offset(lens, k) + lens[k]
    BY OffsetNext
  <2> QED BY <2>1
<1> DEFINE S == {n \in Nat : i + n <= Len(lens) + 1 => Offset(lens, i) <= Offset(lens, i + n)}
<1>1. 0 \in S
  BY OffsetType
<1>2. ASSUME NEW n \in S PROVE n + 1 \in S
  <2>1. CASE i + n <= Len(lens)
    <3>1. i + n \in 1 .. Len(lens) /\ i + n <= Len(lens) + 1
      BY <2>1
    <3>2. Offset(lens, i + n) <= Offset(lens, (i + n) + 1)
      BY <3>1, <1>0
    <3>3. (i + n) + 1 = i + (n + 1)
      OBVIOUS
    <3>4. Offset(lens, i + n) \in Nat /\ Offset(lens, i) \in Nat /\ Offset(lens, (i + n) + 1) \in Nat
      BY <3>1, OffsetNext, OffsetType
    <3> QED
      BY <3>1, <3>2, <3>3, <3>4
  <2> QED
    BY <2>1
<1>3. S = Nat
  <2> S \in SUBSET Nat
    OBVIOUS
  <2> HIDE DEF S
  <2> QED BY <1>1, <1>2, InductionBySet
<1>4. j - i \in S
  <2>1. j - i \in Nat
    OBVIOUS
  <2> HIDE DEF S
  <2> QED BY <1>3, <2>1
<1>5. i + (j - i) = j
  OBVIOUS
<1> QED BY <1>4, <1>5

-----------------------------------------------------------------------------
(* fileStore.find.                                                           *)

\* one step of the binary search g
Probed(lens, off, g, w) ==
  LET low == w[1]
      high == w[2]
      probe == (low + high) \div 2
  IN  IF low >= high - 1 THEN low
      ELSE IF off < Offset(lens, probe + 1) THEN g[<<low, probe>>]
      ELSE g[<<probe, high>>]

\* The probe of the binary search is between its bounds
LEMMA Midpoint ==
  ASSUME NEW low \in Nat, NEW high \in Nat, ~(low >= high - 1)
  PROVE  /\ (low + high) \div 2 \in Nat
         /\ low < (low + high) \div 2 /\ (low + high) \div 2 < high
OBVIOUS

\* The function Find is defined by exists: its bounds come closer
LEMMA SearchExists ==
  ASSUME NEW lens \in Seq(Nat), NEW off
  PROVE  \E g : g = [w \in (0 .. Len(lens)) \X (0 .. Len(lens)) |-> Probed(lens, off, g, w)]
<1> DEFINE D == 0 .. Len(lens)
           Good(g, m) == \A low \in D, high \in D : high - low <= m =>
                            g[<<low, high>>] = Probed(lens, off, g, <<low, high>>)
           S == {m \in Nat : \E g : g = [w \in D \X D |-> g[w]] /\ Good(g, m)}
<1>0. Len(lens) \in Nat
  OBVIOUS
<1>1. 0 \in S
  <2> DEFINE g == [w \in D \X D |-> w[1]]
  <2>1. \A low \in D, high \in D : high - low <= 0 => low >= high - 1
    OBVIOUS
  <2>2. Good(g, 0)
    BY <2>1 DEF Probed
  <2>3. g = [w \in D \X D |-> g[w]]
    OBVIOUS
  <2> QED BY <2>2, <2>3
<1>2. ASSUME NEW m \in S PROVE m + 1 \in S
  <2>1. PICK g : g = [w \in D \X D |-> g[w]] /\ Good(g, m)
    OBVIOUS
  <2> DEFINE h == [w \in D \X D |-> Probed(lens, off, g, w)]
  <2>2. h = [w \in D \X D |-> h[w]]
    OBVIOUS
  <2>3. ASSUME NEW low \in D, NEW high \in D, high - low <= m
        PROVE  h[<<low, high>>] = g[<<low, high>>]
    BY <2>1, <2>3
  <2>4. Good(h, m + 1)
    <3> SUFFICES ASSUME NEW low \in D, NEW high \in D, high - low <= m + 1
                 PROVE  h[<<low, high>>] = Probed(lens, off, h, <<low, high>>)
      OBVIOUS
    <3>1. h[<<low, high>>] = Probed(lens, off, g, <<low, high>>)
      OBVIOUS
    <3>2. CASE low >= high - 1
      BY <3>1, <3>2 DEF Probed
    <3>3. CASE ~(low >= high - 1)
      <4> DEFINE probe == (low + high) \div 2
      <4>1. probe \in Nat /\ low < probe /\ probe < high
        BY <3>3, Midpoint
      <4> HIDE DEF probe
      <4>2. probe \in D /\ high - probe <= m /\ probe - low <= m
        BY <4>1
      <4>3. h[<<low, probe>>] = g[<<low, probe>>] /\ h[<<probe, high>>] = g[<<probe, high>>]
        BY <4>2, <2>3
      <4>4. Probed(lens, off, g, <<low, high>>) = Probed(lens, off, h, <<low, high>>)
        BY <3>3, <4>3 DEF Probed, probe
      <4> QED BY <3>1, <4>4
    <3> QED BY <3>2, <3>3
  <2>5. m + 1 \in Nat
    OBVIOUS
  <2> HIDE DEF h, Good
  <2> QED BY <2>2, <2>4, <2>5
<1>3. S = Nat
  <2> S \in SUBSET Nat
    OBVIOUS
  <2> HIDE DEF S
  <2> QED BY <1>1, <1>2, InductionBySet
<1>4. PICK g : g = [w \in D \X D |-> g[w]] /\ Good(g, Len(lens))
  BY <1>0, <1>3
<1>5. \A low \in D, high \in D : g[<<low, high>>] = Probed(lens, off, g, <<low, high>>)
  <2>1. \A low \in D, high \in D : high - low <= Len(lens)
    BY <1>0
  <2> QED BY <1>4, <2>1
<1>6. \A w \in D \X D : g[w] = Probed(lens, off, g, w)
  <2> TAKE w \in D \X D
  <2>1. w = <<w[1], w[2]>> /\ w[1] \in D /\ w[2] \in D
    OBVIOUS
  <2> QED BY <1>5, <2>1
<1>7. g = [w \in D \X D |-> Probed(lens, off, g, w)]
  BY <1>4, <1>6
<1> QED BY <1>7

\* The binary search finds a file, and one that begins at off or before it
LEMMA FindBelow ==
  ASSUME NEW lens \in Seq(Nat), Len(lens) > 0, NEW off \in Nat
  PROVE  Find(lens, off) \in 1 .. Len(lens) /\ Offset(lens, Find(lens, off)) <= off
<1> DEFINE D == 0 .. Len(lens)
           g == CHOOSE s : s = [w \in D \X D |->
                  LET low == w[1]
                      high == w[2]
                      probe == (low + high) \div 2
                  IN  IF low >= high - 1 THEN low
                      ELSE IF off < Offset(lens, probe + 1) THEN s[<<low, probe>>]
                      ELSE s[<<probe, high>>]]
<1>1. g = [w \in D \X D |-> Probed(lens, off, g, w)]
  <2>1. \E s : s = [w \in D \X D |->
                  LET low == w[1]
                      high == w[2]
                      probe == (low + high) \div 2
                  IN  IF low >= high - 1 THEN low
                      ELSE IF off < Offset(lens, probe + 1) THEN s[<<low, probe>>]
                      ELSE s[<<probe, high>>]]
    BY SearchExists DEF Probed
  <2>2. g = [w \in D \X D |->
                  LET low == w[1]
                      high == w[2]
                      probe == (low + high) \div 2
                  IN  IF low >= high - 1 THEN low
                      ELSE IF off < Offset(lens, probe + 1) THEN g[<<low, probe>>]
                      ELSE g[<<probe, high>>]]
    BY <2>1
  <2> QED BY <2>2 DEF Probed
<1>2. Find(lens, off) = g[<<0, Len(lens)>>] + 1
  BY DEF Find
<1> HIDE DEF g
<1>3. \A low \in D, high \in D : g[<<low, high>>] = Probed(lens, off, g, <<low, high>>)
  BY <1>1
<1> DEFINE Below(r) == r \in 0 .. Len(lens) - 1 /\ Offset(lens, r + 1) <= off
           S == {m \in Nat : \A low \in D, high \in D :
                   high - low <= m /\ low < high /\ Offset(lens, low + 1) <= off
                     => Below(g[<<low, high>>])}
<1>4. 0 \in S
  OBVIOUS
<1>5. ASSUME NEW m \in S PROVE m + 1 \in S
  <2> SUFFICES ASSUME NEW low \in D, NEW high \in D,
                      high - low <= m + 1, low < high, Offset(lens, low + 1) <= off
               PROVE  Below(g[<<low, high>>])
    OBVIOUS
  <2>1. CASE low >= high - 1
    <3>1. g[<<low, high>>] = low
      BY <1>3, <2>1 DEF Probed
    <3> QED BY <3>1
  <2>2. CASE ~(low >= high - 1)
    <3> DEFINE probe == (low + high) \div 2
    <3>1. probe \in Nat /\ low < probe /\ probe < high
      BY <2>2, Midpoint
    <3>2. g[<<low, high>>] = IF off < Offset(lens, probe + 1) THEN g[<<low, probe>>] ELSE g[<<probe, high>>]
      BY <1>3, <2>2 DEF Probed
    <3> HIDE DEF probe
    <3>3. probe \in D /\ high - probe <= m /\ probe - low <= m
      BY <3>1
    <3>4. Offset(lens, probe + 1) \in Nat
      <4>1. probe + 1 \in 1 .. Len(lens) + 1
        BY <3>3
      <4> QED BY <4>1, OffsetType
    <3>5. CASE off < Offset(lens, probe + 1)
      <4>1. Below(g[<<low, probe>>])
        BY <3>1, <3>3
      <4> QED BY <4>1, <3>2, <3>5
    <3>6. CASE ~(off < Offset(lens, probe + 1))
      <4>1. Below(g[<<probe, high>>])
        <5>1. Offset(lens, probe + 1) <= off
          BY <3>4, <3>6
        <5> QED BY <3>1, <3>3, <5>1
      <4> QED BY <4>1, <3>2, <3>6
    <3> QED BY <3>5, <3>6
  <2> QED BY <2>1, <2>2
<1>6. S = Nat
  <2> S \in SUBSET Nat
    OBVIOUS
  <2> HIDE DEF S
  <2> QED BY <1>4, <1>5, InductionBySet
<1>7. Len(lens) \in S /\ 0 \in D /\ Len(lens) \in D
  <2> HIDE DEF S
  <2> QED BY <1>6
<1>8. Offset(lens, 0 + 1) <= off
  BY OffsetStep
<1>9. Below(g[<<0, Len(lens)>>])
  BY <1>7, <1>8
<1> QED BY <1>2, <1>9

-----------------------------------------------------------------------------
(* The loop of RawReadAt and RawWriteAt.                                     *)

\* one step of the loop g of Chunks
Looped(lens, n, g, w) ==
  LET i == w[1]
      o == w[2]
      p == w[3]
      at == o - Offset(lens, i)
      chunk == Least(p, lens[i] - at)
  IN  IF i > Len(lens) \/ p = 0 THEN <<>>
      ELSE IF at >= lens[i] THEN g[<<i + 1, o, p>>]
      ELSE <<[file |-> i, at |-> at, from |-> n - p, n |-> chunk]>>
           \o g[<<i + 1, o + chunk, p - chunk>>]

\* the states of that loop
States(lens) == (1 .. Len(lens) + 1) \X Nat \X Nat

\* A chunk ends where its file ends, or where all is read
LEMMA ChunkFits ==
  ASSUME NEW lens \in Seq(Nat), NEW i \in 1 .. Len(lens), NEW o \in Nat, NEW p \in Nat \ {0},
         ~(o - Offset(lens, i) >= lens[i]),
         NEW chunk, chunk = Least(p, lens[i] - (o - Offset(lens, i)))
  PROVE  /\ chunk \in 1 .. p /\ o + chunk \in Nat /\ p - chunk \in Nat
         /\ chunk = p \/ o + chunk = Offset(lens, i + 1)
         /\ o + chunk <= Offset(lens, i + 1)
<1>1. /\ Offset(lens, i) \in Nat /\ Offset(lens, i + 1) \in Nat /\ lens[i] \in Nat
      /\ Offset(lens, i + 1) = Offset(lens, i) + lens[i]
  BY OffsetNext
<1>2. \A a, b, c \in Nat, q \in Nat \ {0} :
        ~(c - a >= b) =>
           LET d == IF q < b - (c - a) THEN q ELSE b - (c - a)
           IN  /\ d \in 1 .. q /\ c + d \in Nat /\ q - d \in Nat
               /\ d = q \/ c + d = a + b
               /\ c + d <= a + b
  OBVIOUS
<1>3. /\ chunk \in 1 .. p /\ o + chunk \in Nat /\ p - chunk \in Nat
      /\ chunk = p \/ o + chunk = Offset(lens, i) + lens[i]
      /\ o + chunk <= Offset(lens, i) + lens[i]
  BY <1>1, <1>2 DEF Least
<1> QED BY <1>1, <1>3

\* The function Chunks is defined by exists: it goes on to the next file
LEMMA LoopExists ==
  ASSUME NEW lens \in Seq(Nat), NEW n
  PROVE  \E g : g = [w \in States(lens) |-> Looped(lens, n, g, w)]
<1> DEFINE D == 1 .. Len(lens) + 1
           Good(g, m) == \A i \in D, o \in Nat, p \in Nat : Len(lens) + 1 - i <= m =>
                            g[<<i, o, p>>] = Looped(lens, n, g, <<i, o, p>>)
           S == {m \in Nat : \E g : g = [w \in D \X Nat \X Nat |-> g[w]] /\ Good(g, m)}
<1>0. Len(lens) \in Nat
  OBVIOUS
<1>1. 0 \in S
  <2> DEFINE g == [w \in D \X Nat \X Nat |-> <<>>]
  <2>1. \A i \in D : Len(lens) + 1 - i <= 0 => i > Len(lens)
    OBVIOUS
  <2>2. Good(g, 0)
    BY <2>1 DEF Looped
  <2>3. g = [w \in D \X Nat \X Nat |-> g[w]]
    OBVIOUS
  <2> HIDE DEF g, Good
  <2> QED BY <2>2, <2>3
<1>2. ASSUME NEW m \in S PROVE m + 1 \in S
  <2>1. PICK g : g = [w \in D \X Nat \X Nat |-> g[w]] /\ Good(g, m)
    OBVIOUS
  <2> DEFINE h == [w \in D \X Nat \X Nat |-> Looped(lens, n, g, w)]
  <2>2. h = [w \in D \X Nat \X Nat |-> h[w]]
    OBVIOUS
  <2>3. ASSUME NEW i \in D, NEW o \in Nat, NEW p \in Nat, Len(lens) + 1 - i <= m
        PROVE  h[<<i, o, p>>] = g[<<i, o, p>>]
    BY <2>1, <2>3
  <2>4. Good(h, m + 1)
    <3> SUFFICES ASSUME NEW i \in D, NEW o \in Nat, NEW p \in Nat, Len(lens) + 1 - i <= m + 1
                 PROVE  h[<<i, o, p>>] = Looped(lens, n, h, <<i, o, p>>)
      OBVIOUS
    <3>1. h[<<i, o, p>>] = Looped(lens, n, g, <<i, o, p>>)
      OBVIOUS
    <3> HIDE DEF h
    <3>2. CASE i > Len(lens) \/ p = 0
      BY <3>1, <3>2 DEF Looped
    <3>3. CASE i <= Len(lens) /\ p # 0
      <4>1. i + 1 \in D /\ Len(lens) + 1 - (i + 1) <= m
        BY <3>3
      <4>2. CASE o - Offset(lens, i) >= lens[i]
        <5>1. h[<<i + 1, o, p>>] = g[<<i + 1, o, p>>]
          BY <4>1, <2>3
        <5> QED BY <3>1, <3>3, <4>2, <5>1 DEF Looped
      <4>3. CASE ~(o - Offset(lens, i) >= lens[i])
        <5> DEFINE chunk == Least(p, lens[i] - (o - Offset(lens, i)))
        <5>1. o + chunk \in Nat /\ p - chunk \in Nat
          <6>1. i \in 1 .. Len(lens) /\ p \in Nat \ {0}
            BY <3>3
          <6> QED BY <6>1, <4>3, ChunkFits
        <5> HIDE DEF chunk
        <5>2. h[<<i + 1, o + chunk, p - chunk>>] = g[<<i + 1, o + chunk, p - chunk>>]
          BY <4>1, <5>1, <2>3
        <5> QED BY <3>1, <3>3, <4>3, <5>2 DEF Looped, chunk
      <4> QED BY <4>2, <4>3
    <3>4. i > Len(lens) \/ p = 0 \/ (i <= Len(lens) /\ p # 0)
      OBVIOUS
    <3> QED BY <3>2, <3>3, <3>4
  <2>5. m + 1 \in Nat
    OBVIOUS
  <2> HIDE DEF h, Good
  <2> QED BY <2>2, <2>4, <2>5
<1>3. S = Nat
  <2> S \in SUBSET Nat
    OBVIOUS
  <2> HIDE DEF S
  <2> QED BY <1>1, <1>2, InductionBySet
<1>4. PICK g : g = [w \in D \X Nat \X Nat |-> g[w]] /\ Good(g, Len(lens))
  BY <1>0, <1>3
<1>5. \A i \in D, o \in Nat, p \in Nat : g[<<i, o, p>>] = Looped(lens, n, g, <<i, o, p>>)
  <2>1. \A i \in D : Len(lens) + 1 - i <= Len(lens)
    BY <1>0
  <2> QED BY <1>4, <2>1
<1>6. \A w \in D \X Nat \X Nat : g[w] = Looped(lens, n, g, w)
  <2> TAKE w \in D \X Nat \X Nat
  <2>1. w = <<w[1], w[2], w[3]>> /\ w[1] \in D /\ w[2] \in Nat /\ w[3] \in Nat
    OBVIOUS
  <2> QED BY <1>5, <2>1
<1>7. g = [w \in D \X Nat \X Nat |-> Looped(lens, n, g, w)]
  BY <1>4, <1>6
<1> QED BY <1>7 DEF States

\* The loop of Chunks, as far as its steps
LEMMA ChunksLoop ==
  ASSUME NEW lens \in Seq(Nat), NEW off, NEW n
  PROVE  \E g : /\ \A w \in States(lens) : g[w] = Looped(lens, n, g, w)
                /\ Chunks(lens, off, n) = g[<<Find(lens, off), off, n>>]
<1> DEFINE g == CHOOSE h : h = [w \in (1 .. Len(lens) + 1) \X Nat \X Nat |->
                  LET i == w[1]
                      o == w[2]
                      p == w[3]
                      at == o - Offset(lens, i)
                      chunk == Least(p, lens[i] - at)
                  IN  IF i > Len(lens) \/ p = 0 THEN <<>>
                      ELSE IF at >= lens[i] THEN h[<<i + 1, o, p>>]
                      ELSE <<[file |-> i, at |-> at, from |-> n - p, n |-> chunk]>>
                           \o h[<<i + 1, o + chunk, p - chunk>>]]
<1>1. g = [w \in States(lens) |-> Looped(lens, n, g, w)]
  <2>1. \E h : h = [w \in (1 .. Len(lens) + 1) \X Nat \X Nat |->
                  LET i == w[1]
                      o == w[2]
                      p == w[3]
                      at == o - Offset(lens, i)
                      chunk == Least(p, lens[i] - at)
                  IN  IF i > Len(lens) \/ p = 0 THEN <<>>
                      ELSE IF at >= lens[i] THEN h[<<i + 1, o, p>>]
                      ELSE <<[file |-> i, at |-> at, from |-> n - p, n |-> chunk]>>
                           \o h[<<i + 1, o + chunk, p - chunk>>]]
    <3>1. \E h : h = [w \in States(lens) |-> Looped(lens, n, h, w)]
      BY LoopExists
    <3> QED BY <3>1 DEF Looped, States
  <2> QED BY <2>1 DEF Looped, States
<1>2. Chunks(lens, off, n) = g[<<Find(lens, off), off, n>>]
  BY DEF Chunks
<1> HIDE DEF g
<1>3. \A w \in States(lens) : g[w] = Looped(lens, n, g, w)
  BY <1>1
<1> QED BY <1>2, <1>3

\* a chunk
ChunkType == [file : Nat, at : Nat, from : Nat, n : Nat]

\* a chunk of a file from i on lies where its bytes belong
InPlace(lens, off, i, c) ==
  /\ c.file \in i .. Len(lens) /\ c.n > 0 /\ c.at + c.n <= lens[c.file]
  /\ Offset(lens, c.file) + c.at = off + c.from

\* d goes on where c ends, in a later file
Follows(c, d) == d.from = c.from + c.n /\ c.file < d.file

\* what a loop that has p bytes left at file i should return
Covers(lens, off, n, cs, i, p) ==
  /\ cs \in Seq(ChunkType)
  /\ \A k \in 1 .. Len(cs) : InPlace(lens, off, i, cs[k])
  /\ \A k \in 1 .. Len(cs) - 1 : Follows(cs[k], cs[k + 1])
  /\ Len(cs) > 0 => /\ cs[1].from = n - p
                    /\ cs[Len(cs)].from + cs[Len(cs)].n = Least(n, TotalSize(lens) - off)
  /\ Len(cs) = 0 => p = 0 \/ off + n - p >= TotalSize(lens)

\* A sequence with one more at its head
LEMMA ConsSeq ==
  ASSUME NEW T, NEW c \in T, NEW s \in Seq(T)
  PROVE  /\ <<c>> \o s \in Seq(T)
         /\ Len(<<c>> \o s) = Len(s) + 1
         /\ (<<c>> \o s)[1] = c
         /\ \A k \in 2 .. Len(s) + 1 : (<<c>> \o s)[k] = s[k - 1]
OBVIOUS

\* A chunk before chunks that cover the rest
LEMMA CoversOne ==
  ASSUME NEW lens \in Seq(Nat), NEW off \in Nat, NEW n \in Nat,
         NEW i \in 1 .. Len(lens), NEW o \in Nat, NEW p \in 1 .. n,
         o + p = off + n, Offset(lens, i) <= o, ~(o - Offset(lens, i) >= lens[i]),
         NEW chunk, chunk = Least(p, lens[i] - (o - Offset(lens, i))),
         NEW rest, Covers(lens, off, n, rest, i + 1, p - chunk)
  PROVE  Covers(lens, off, n,
                <<[file |-> i, at |-> o - Offset(lens, i), from |-> n - p, n |-> chunk]>> \o rest,
                i, p)
<1> DEFINE c == [file |-> i, at |-> o - Offset(lens, i), from |-> n - p, n |-> chunk]
           cs == <<c>> \o rest
<1>1. /\ Offset(lens, i) \in Nat /\ Offset(lens, i + 1) \in Nat /\ lens[i] \in Nat
      /\ Offset(lens, i + 1) = Offset(lens, i) + lens[i]
  BY OffsetNext
<1>2. /\ chunk \in 1 .. p /\ o + chunk \in Nat /\ p - chunk \in Nat
      /\ chunk = p \/ o + chunk = Offset(lens, i + 1)
      /\ o + chunk <= Offset(lens, i + 1)
  <2>1. p \in Nat \ {0}
    OBVIOUS
  <2> QED BY <2>1, ChunkFits
<1>a. o - Offset(lens, i) \in Nat /\ n - p \in Nat /\ chunk \in Nat /\ i \in Nat
  <2>1. \A a \in Nat : a <= o => o - a \in Nat
    OBVIOUS
  <2>2. n - p \in Nat /\ i \in Nat
    OBVIOUS
  <2>3. chunk \in Nat
    BY <1>2
  <2> QED BY <1>1, <2>1, <2>2, <2>3
<1>3. c \in ChunkType /\ c.file = i /\ c.at = o - Offset(lens, i) /\ c.from = n - p /\ c.n = chunk
  BY <1>a DEF ChunkType
<1>4. InPlace(lens, off, i, c)
  <2>0. \A a, b, e \in Nat : o + e <= a + b
           => (o - a) + e <= b /\ a + (o - a) = off + (n - p)
    OBVIOUS
  <2>1. (o - Offset(lens, i)) + chunk <= lens[i] /\ chunk > 0
        /\ Offset(lens, i) + (o - Offset(lens, i)) = off + (n - p)
    <3>1. chunk > 0 /\ o + chunk <= Offset(lens, i) + lens[i]
      BY <1>1, <1>2
    <3> QED BY <1>1, <1>a, <2>0, <3>1
  <2> QED BY <1>3, <2>1 DEF InPlace
<1>5. rest \in Seq(ChunkType)
  BY DEF Covers
<1> HIDE DEF c
<1>6. /\ cs \in Seq(ChunkType) /\ Len(cs) = Len(rest) + 1 /\ cs[1] = c
      /\ \A k \in 2 .. Len(rest) + 1 : cs[k] = rest[k - 1]
  BY <1>3, <1>5, ConsSeq
<1>l. Len(rest) \in Nat
  BY <1>5
<1> HIDE DEF cs
<1>7. ASSUME NEW k \in 1 .. Len(cs) PROVE InPlace(lens, off, i, cs[k])
  <2>1. CASE k = 1
    BY <2>1, <1>4, <1>6
  <2>2. CASE k # 1
    <3>0. k \in 2 .. Len(rest) + 1
      BY <2>2, <1>l, <1>6
    <3>1. k - 1 \in 1 .. Len(rest) /\ cs[k] = rest[k - 1]
      <4>1. k - 1 \in 1 .. Len(rest)
        BY <1>l, <3>0
      <4> QED BY <1>6, <3>0, <4>1
    <3>2. InPlace(lens, off, i + 1, rest[k - 1])
      BY <3>1 DEF Covers
    <3>3. rest[k - 1].file \in i + 1 .. Len(lens)
      BY <3>2 DEF InPlace
    <3> QED BY <3>1, <3>2, <3>3 DEF InPlace
  <2> QED BY <2>1, <2>2
<1>8. ASSUME NEW k \in 1 .. Len(cs) - 1 PROVE Follows(cs[k], cs[k + 1])
  <2>0. k \in 1 .. Len(rest) /\ cs[k + 1] = rest[k]
    BY <1>5, <1>6
  <2>1. CASE k = 1
    <3>1. rest[1].from = n - (p - chunk)
      BY <2>0, <2>1, <1>5 DEF Covers
    <3>2. rest[1].file \in i + 1 .. Len(lens)
      BY <2>0, <2>1 DEF Covers, InPlace
    <3>3. \A e \in Nat : n - (p - e) = (n - p) + e
      OBVIOUS
    <3>4. cs[1].file = i /\ cs[1].from + cs[1].n = (n - p) + chunk
      BY <1>3, <1>6
    <3>5. cs[2] = rest[1] /\ i < rest[1].file /\ rest[1].from = (n - p) + chunk
      <4>1. cs[2] = rest[1]
        BY <2>0, <2>1
      <4>2. i < rest[1].file
        BY <3>2
      <4>3. rest[1].from = (n - p) + chunk
        BY <3>1, <3>3, <1>a
      <4> QED BY <4>1, <4>2, <4>3
    <3> QED BY <2>1, <3>4, <3>5 DEF Follows
  <2>2. CASE k # 1
    <3>1. k - 1 \in 1 .. Len(rest) - 1 /\ cs[k] = rest[k - 1] /\ (k - 1) + 1 = k
      BY <2>0, <2>2, <1>l, <1>6
    <3> QED BY <3>1, <2>0 DEF Covers
  <2> QED BY <2>1, <2>2
<1>t. /\ TotalSize(lens) \in Nat /\ Offset(lens, i + 1) <= TotalSize(lens)
  <2>1. Len(lens) \in Nat /\ Len(lens) + 1 \in 1 .. Len(lens) + 1 /\ i + 1 \in 1 .. Len(lens) + 1
        /\ Len(lens) + 1 \in i + 1 .. Len(lens) + 1
    OBVIOUS
  <2> QED BY <2>1, OffsetType, OffsetMonotone DEF TotalSize
<1>9. cs[Len(cs)].from + cs[Len(cs)].n = Least(n, TotalSize(lens) - off)
  <2>1. CASE Len(rest) = 0
    <3>1. p - chunk = 0 \/ off + n - (p - chunk) >= TotalSize(lens)
      BY <2>1 DEF Covers
    <3>2. (n - p) + chunk = Least(n, TotalSize(lens) - off)
      <4>1. PICK e \in Nat : e = chunk
        BY <1>a
      <4>2. PICK next \in Nat : next = Offset(lens, i + 1)
        BY <1>1
      <4>3. PICK total \in Nat : total = TotalSize(lens)
        BY <1>t
      <4>4. /\ e <= p /\ (e = p \/ o + e = next) /\ o + e <= next /\ next <= total
            /\ p - e = 0 \/ off + n - (p - e) >= total
        BY <3>1, <1>2, <1>t, <4>1, <4>2, <4>3
      <4>5. (n - p) + e = IF n < total - off THEN n ELSE total - off
        BY <4>4
      <4> QED BY <4>1, <4>3, <4>5 DEF Least
    <3> QED BY <2>1, <3>2, <1>3, <1>6
  <2>2. CASE Len(rest) > 0
    <3>1. cs[Len(cs)] = rest[Len(rest)]
      BY <2>2, <1>l, <1>6
    <3> QED BY <2>2, <3>1 DEF Covers
  <2> QED BY <2>1, <2>2, <1>5
<1>10. Len(cs) > 0
  BY <1>5, <1>6
<1>11. Covers(lens, off, n, cs, i, p)
  BY <1>3, <1>6, <1>7, <1>8, <1>9, <1>10 DEF Covers
<1> QED BY <1>11 DEF cs, c

\* A file passed over, empty or ended before, changes nothing
LEMMA CoversMore ==
  ASSUME NEW lens \in Seq(Nat), NEW off, NEW n, NEW i \in Nat, NEW p, NEW cs,
         Covers(lens, off, n, cs, i + 1, p)
  PROVE  Covers(lens, off, n, cs, i, p)
<1>1. \A k \in 1 .. Len(cs) : InPlace(lens, off, i, cs[k])
  <2> TAKE k \in 1 .. Len(cs)
  <2>1. InPlace(lens, off, i + 1, cs[k])
    BY DEF Covers
  <2>2. cs[k].file \in i + 1 .. Len(lens)
    BY <2>1 DEF InPlace
  <2> QED BY <2>1, <2>2 DEF InPlace
<1> QED BY <1>1 DEF Covers

\* By induction from the last file to the first: what the loop returns
\* covers what is left to read
LEMMA LoopCovers ==
  ASSUME NEW lens \in Seq(Nat), NEW off \in Nat, NEW n \in Nat, NEW g,
         \A w \in States(lens) : g[w] = Looped(lens, n, g, w)
  PROVE  \A i \in 1 .. Len(lens) + 1, o \in Nat, p \in 0 .. n :
           o + p = off + n /\ (p > 0 => Offset(lens, i) <= o)
             => Covers(lens, off, n, g[<<i, o, p>>], i, p)
<1> DEFINE D == 1 .. Len(lens) + 1
           Ready(i, o, p) == o + p = off + n /\ (p > 0 => Offset(lens, i) <= o)
           S == {m \in Nat : \A i \in D, o \in Nat, p \in 0 .. n :
                    Len(lens) + 1 - i <= m /\ Ready(i, o, p)
                       => Covers(lens, off, n, g[<<i, o, p>>], i, p)}
<1>0. Len(lens) \in Nat
  OBVIOUS
<1>a. \A i \in D, o \in Nat, p \in 0 .. n :
         g[<<i, o, p>>] = Looped(lens, n, g, <<i, o, p>>)
  BY DEF States
<1>b. ASSUME NEW i \in D, NEW o \in Nat, NEW p \in 0 .. n, Ready(i, o, p),
             i > Len(lens) \/ p = 0
      PROVE  Covers(lens, off, n, g[<<i, o, p>>], i, p)
  <2>1. g[<<i, o, p>>] = <<>>
    BY <1>a, <1>b DEF Looped
  <2>2. p = 0 \/ off + n - p >= TotalSize(lens)
    <3>1. CASE i > Len(lens) /\ p > 0
      <4>1. i = Len(lens) + 1
        BY <3>1
      <4> QED BY <4>1, <3>1, <1>b, OffsetType DEF TotalSize
    <3> QED BY <3>1, <1>b
  <2> QED BY <2>1, <2>2 DEF Covers
<1>1. 0 \in S
  <2>1. \A i \in D : Len(lens) + 1 - i <= 0 => i > Len(lens)
    OBVIOUS
  <2> HIDE DEF Ready
  <2> QED BY <1>b, <2>1
<1>2. ASSUME NEW m \in S PROVE m + 1 \in S
  <2> SUFFICES ASSUME NEW i \in D, NEW o \in Nat, NEW p \in 0 .. n,
                      Len(lens) + 1 - i <= m + 1, Ready(i, o, p)
               PROVE  Covers(lens, off, n, g[<<i, o, p>>], i, p)
    <3>1. m + 1 \in Nat
      OBVIOUS
    <3> HIDE DEF Ready
    <3> QED BY <3>1
  <2>1. CASE i > Len(lens) \/ p = 0
    BY <2>1, <1>b
  <2>2. CASE i <= Len(lens) /\ p # 0
    <3>0. g[<<i, o, p>>] = Looped(lens, n, g, <<i, o, p>>) /\ ~(i > Len(lens) \/ p = 0)
      BY <1>a, <2>2
    <3>1. i + 1 \in D /\ Len(lens) + 1 - (i + 1) <= m /\ i \in 1 .. Len(lens)
      BY <2>2
    <3>2. /\ Offset(lens, i) \in Nat /\ lens[i] \in Nat
          /\ Offset(lens, i + 1) = Offset(lens, i) + lens[i]
      BY <3>1, OffsetNext
    <3>3. CASE o - Offset(lens, i) >= lens[i]
      <4>1. g[<<i, o, p>>] = g[<<i + 1, o, p>>]
        BY <3>0, <3>3 DEF Looped
      <4>2. Ready(i + 1, o, p)
        BY <3>2, <3>3
      <4>3. Covers(lens, off, n, g[<<i + 1, o, p>>], i + 1, p)
        <5> HIDE DEF Ready
        <5> QED BY <3>1, <4>2
      <4> QED BY <4>1, <4>3, CoversMore
    <3>4. CASE ~(o - Offset(lens, i) >= lens[i])
      <4> DEFINE chunk == Least(p, lens[i] - (o - Offset(lens, i)))
      <4>1. /\ chunk \in 1 .. p /\ o + chunk \in Nat /\ p - chunk \in Nat
            /\ chunk = p \/ o + chunk = Offset(lens, i + 1)
        <5>1. p \in Nat \ {0}
          BY <2>2
        <5>2. i \in 1 .. Len(lens)
          BY <3>1
        <5>3. \A e : e = Least(p, lens[i] - (o - Offset(lens, i)))
                => /\ e \in 1 .. p /\ o + e \in Nat /\ p - e \in Nat
                   /\ e = p \/ o + e = Offset(lens, i + 1)
          BY <5>1, <5>2, <3>4, ChunkFits
        <5> QED BY <5>3
      <4>2. g[<<i, o, p>>] = <<[file |-> i, at |-> o - Offset(lens, i), from |-> n - p, n |-> chunk]>>
                             \o g[<<i + 1, o + chunk, p - chunk>>]
        BY <3>0, <3>4 DEF Looped
      <4> HIDE DEF chunk
      <4>3. p - chunk \in 0 .. n /\ Ready(i + 1, o + chunk, p - chunk)
        <5>1. \A e \in 1 .. p : p - e \in 0 .. n /\ (o + e) + (p - e) = off + n
                /\ (e = p => ~(p - e > 0))
          OBVIOUS
        <5>2. p - chunk > 0 => Offset(lens, i + 1) <= o + chunk
          <6>1. chunk # p => o + chunk = Offset(lens, i + 1)
            BY <4>1
          <6>2. Offset(lens, i + 1) \in Nat
            BY <3>2
          <6> QED BY <4>1, <5>1, <6>1, <6>2
        <5> QED BY <4>1, <5>1, <5>2
      <4>4. Covers(lens, off, n, g[<<i + 1, o + chunk, p - chunk>>], i + 1, p - chunk)
        <5> HIDE DEF Ready
        <5> QED BY <3>1, <4>1, <4>3
      <4>5. p \in 1 .. n /\ Offset(lens, i) <= o /\ o + p = off + n
        BY <2>2
      <4> QED BY <3>1, <3>4, <4>2, <4>4, <4>5, CoversOne DEF chunk
    <3> QED BY <3>3, <3>4
  <2> QED BY <2>1, <2>2
<1>3. S = Nat
  <2> S \in SUBSET Nat
    OBVIOUS
  <2> HIDE DEF S
  <2> QED BY <1>1, <1>2, InductionBySet
<1>4. Len(lens) \in S
  <2> HIDE DEF S
  <2> QED BY <1>0, <1>3
<1>5. \A i \in D : Len(lens) + 1 - i <= Len(lens)
  BY <1>0
<1> QED BY <1>4, <1>5

\* The chunks cover the bytes asked for, in order, as far as the files go
LEMMA ChunksCover ==
  ASSUME NEW lens \in Seq(Nat), Len(lens) > 0, NEW off \in Nat, NEW n \in Nat
  PROVE  Covers(lens, off, n, Chunks(lens, off, n), 1, n)
<1>1. PICK g : /\ \A w \in States(lens) : g[w] = Looped(lens, n, g, w)
               /\ Chunks(lens, off, n) = g[<<Find(lens, off), off, n>>]
  BY ChunksLoop
<1>2. Find(lens, off) \in 1 .. Len(lens) + 1 /\ Offset(lens, Find(lens, off)) <= off
  <2>1. Find(lens, off) \in 1 .. Len(lens) /\ Offset(lens, Find(lens, off)) <= off
    BY FindBelow
  <2> QED BY <2>1
<1>3. Covers(lens, off, n, Chunks(lens, off, n), Find(lens, off), n)
  BY <1>1, <1>2, LoopCovers
<1> QED
  <2> DEFINE cs == Chunks(lens, off, n)
  <2>1. \A k \in 1 .. Len(cs) : InPlace(lens, off, 1, cs[k])
    <3> TAKE k \in 1 .. Len(cs)
    <3>1. InPlace(lens, off, Find(lens, off), cs[k])
      BY <1>3 DEF Covers
    <3>2. cs[k].file \in Find(lens, off) .. Len(lens)
      BY <3>1 DEF InPlace
    <3> QED BY <1>2, <3>1, <3>2 DEF InPlace
  <2> QED BY <1>3, <2>1 DEF Covers

-----------------------------------------------------------------------------
(* Reading and writing the row.                                              *)

\* the lengths of one file or more
Layout(lens) == lens \in Seq(Nat) /\ Len(lens) > 0

\* files of just these lengths
Sized(disk, lens) ==
  /\ disk \in [1 .. Len(lens) -> Seq(Int)]
  /\ \A i \in 1 .. Len(lens) : Len(disk[i]) = lens[i]

\* No place is in two files
LEMMA OneFile ==
  ASSUME NEW lens \in Seq(Nat), NEW k \in Int, NEW i \in 1 .. Len(lens), NEW j \in 1 .. Len(lens),
         k - Offset(lens, i) \in 1 .. lens[i], k - Offset(lens, j) \in 1 .. lens[j]
  PROVE  i = j
<1>1. ASSUME NEW a \in 1 .. Len(lens), NEW b \in 1 .. Len(lens), a < b,
             k - Offset(lens, a) \in 1 .. lens[a], k - Offset(lens, b) \in 1 .. lens[b]
      PROVE  FALSE
  <2>1. /\ Offset(lens, a) \in Nat /\ Offset(lens, a + 1) \in Nat /\ lens[a] \in Nat
        /\ Offset(lens, a + 1) = Offset(lens, a) + lens[a]
    BY OffsetNext
  <2>2. Offset(lens, b) \in Nat
    BY OffsetNext
  <2>3. Offset(lens, a + 1) <= Offset(lens, b)
    <3>1. a + 1 \in 1 .. Len(lens) + 1 /\ b \in a + 1 .. Len(lens) + 1
      BY <1>1
    <3> QED BY <3>1, OffsetMonotone
  <2>4. k <= Offset(lens, a + 1)
    <3>1. PICK x \in Nat, y \in Nat : x = Offset(lens, a) /\ y = lens[a]
      BY <2>1
    <3>2. k - x \in 1 .. y /\ Offset(lens, a + 1) = x + y
      BY <1>1, <2>1, <3>1
    <3> QED BY <3>2
  <2>5. k > Offset(lens, b)
    BY <1>1, <2>2
  <2>6. \A x, y \in Nat : k <= x /\ x <= y => ~(k > y)
    OBVIOUS
  <2> QED BY <2>1, <2>2, <2>3, <2>4, <2>5, <2>6
<1> QED
  <2>1. i < j \/ j < i \/ i = j
    OBVIOUS
  <2> QED BY <1>1, <2>1

\* The file that covers a place is the one FileOf names
LEMMA FileOfPlace ==
  ASSUME NEW lens \in Seq(Nat), NEW k \in Int, NEW i \in 1 .. Len(lens),
         k - Offset(lens, i) \in 1 .. lens[i]
  PROVE  FileOf(lens, k) = i
<1>1. DOMAIN lens = 1 .. Len(lens)
  OBVIOUS
<1>2. \A j \in DOMAIN lens : k - Offset(lens, j) \in 1 .. lens[j] => j = i
  BY <1>1, OneFile
<1> QED BY <1>1, <1>2 DEF FileOf

\* Every place of the row is in a file
LEMMA PlaceHasFile ==
  ASSUME NEW lens \in Seq(Nat), NEW k \in 1 .. TotalSize(lens)
  PROVE  /\ FileOf(lens, k) \in 1 .. Len(lens)
         /\ k - Offset(lens, FileOf(lens, k)) \in 1 .. lens[FileOf(lens, k)]
<1> DEFINE Inside(i) == i \in 1 .. Len(lens) /\ k - Offset(lens, i) \in 1 .. lens[i]
           S == {m \in Nat : m <= Len(lens) /\ k <= Offset(lens, m + 1) => \E i : Inside(i)}
<1>0. Len(lens) \in Nat
  OBVIOUS
<1>t. TotalSize(lens) = Offset(lens, Len(lens) + 1)
  BY DEF TotalSize
<1>k. k \in Nat /\ k > 0
  <2>1. TotalSize(lens) \in Nat
    <3>1. Len(lens) + 1 \in 1 .. Len(lens) + 1
      BY <1>0
    <3> QED BY <1>t, <3>1, OffsetType
  <2> QED BY <2>1
<1>1. 0 \in S
  <2>1. Offset(lens, 1) = 0
    BY OffsetStep
  <2>2. ~(k <= Offset(lens, 1))
    BY <2>1, <1>k
  <2> HIDE DEF Inside
  <2> QED BY <2>2
<1>2. ASSUME NEW m \in S PROVE m + 1 \in S
  <2>1. ASSUME m + 1 <= Len(lens), k <= Offset(lens, (m + 1) + 1) PROVE \E i : Inside(i)
    <3>1. PICK i \in Nat : i = m + 1
      OBVIOUS
    <3>2. i \in 1 .. Len(lens)
      BY <2>1, <3>1
    <3>3. /\ Offset(lens, i) \in Nat /\ Offset(lens, i + 1) \in Nat /\ lens[i] \in Nat
          /\ Offset(lens, i + 1) = Offset(lens, i) + lens[i]
      BY <3>2, OffsetNext
    <3>4. CASE k <= Offset(lens, i)
      <4> HIDE DEF Inside
      <4> QED BY <3>1, <3>2, <3>4
    <3>5. CASE ~(k <= Offset(lens, i))
      <4>1. k - Offset(lens, i) \in 1 .. lens[i]
        BY <2>1, <3>1, <3>3, <3>5, <1>k
      <4> QED BY <3>2, <4>1
    <3> QED BY <3>4, <3>5
  <2>2. m + 1 \in Nat
    OBVIOUS
  <2> HIDE DEF Inside
  <2> QED BY <2>1, <2>2
<1>3. S = Nat
  <2> S \in SUBSET Nat
    OBVIOUS
  <2> HIDE DEF S
  <2> QED BY <1>1, <1>2, InductionBySet
<1>4. \E i : Inside(i)
  <2>1. Len(lens) \in S
    <3> HIDE DEF S
    <3> QED BY <1>0, <1>3
  <2>2. k <= Offset(lens, Len(lens) + 1)
    BY <1>t, <1>k
  <2> HIDE DEF Inside
  <2> QED BY <2>1, <2>2, <1>0
<1>5. PICK i \in 1 .. Len(lens) : k - Offset(lens, i) \in 1 .. lens[i]
  BY <1>4
<1>6. FileOf(lens, k) = i
  BY <1>5, <1>k, FileOfPlace
<1> QED BY <1>5, <1>6

\* No file ends behind the end of the row
LEMMA TotalNext ==
  ASSUME NEW lens \in Seq(Nat), NEW i \in 1 .. Len(lens)
  PROVE  TotalSize(lens) \in Nat /\ Offset(lens, i + 1) <= TotalSize(lens)
<1>1. Len(lens) \in Nat /\ Len(lens) + 1 \in 1 .. Len(lens) + 1 /\ i + 1 \in 1 .. Len(lens) + 1
      /\ Len(lens) + 1 \in i + 1 .. Len(lens) + 1
  OBVIOUS
<1> QED BY <1>1, OffsetType, OffsetMonotone DEF TotalSize

\* A byte of a file and its place in the row
LEMMA ByteOfFile ==
  ASSUME NEW lens \in Seq(Nat), NEW disk, Sized(disk, lens),
         NEW i \in 1 .. Len(lens), NEW x \in 1 .. lens[i], NEW k, k = Offset(lens, i) + x
  PROVE  ByteAt(disk, lens, k) = disk[i][x] /\ disk[i][x] \in Int
<1>1. Offset(lens, i) \in Nat /\ lens[i] \in Nat
  BY OffsetNext
<1>2. k \in Int /\ k - Offset(lens, i) = x
  BY <1>1
<1>3. FileOf(lens, k) = i
  BY <1>2, FileOfPlace
<1>4. disk[i] \in Seq(Int) /\ Len(disk[i]) = lens[i]
  BY DEF Sized
<1>5. x \in DOMAIN disk[i] /\ disk[i][x] \in Int
  BY <1>1, <1>4
<1> QED BY <1>2, <1>3, <1>5 DEF ByteAt

\* n zeros
LEMMA ZerosAre ==
  ASSUME NEW n \in Nat
  PROVE  Zeros(n) \in Seq(Int) /\ Len(Zeros(n)) = n /\ \A k \in 1 .. n : Zeros(n)[k] = 0
BY DEF Zeros

\* w is u, a bytes long, and then v, b bytes long
Joined(V, w, u, v, a, b) ==
  /\ w \in Seq(V) /\ Len(w) = a + b
  /\ \A k \in 1 .. a : w[k] = u[k]
  /\ \A k \in a + 1 .. a + b : w[k] = v[k - a]

\* Two sequences, one behind the other
LEMMA CatParts ==
  ASSUME NEW V, NEW u \in Seq(V), NEW v \in Seq(V), NEW a \in Nat, NEW b \in Nat,
         Len(u) = a, Len(v) = b
  PROVE  Joined(V, u \o v, u, v, a, b)
BY DEF Joined

\* the loop of Read
ReadTo(f, disk, cs, n) ==
  f = [j \in 0 .. n |->
         IF j = 0 THEN <<>>
         ELSE f[j - 1] \o SubSeq(disk[cs[j].file], cs[j].at + 1, cs[j].at + cs[j].n)]

\* The loop of Read is a function
LEMMA ReadExists ==
  ASSUME NEW disk, NEW cs, NEW n \in Nat
  PROVE  \E f : ReadTo(f, disk, cs, n)
<1> DEFINE part(j) == SubSeq(disk[cs[j].file], cs[j].at + 1, cs[j].at + cs[j].n)
           S == {m \in Nat : \E f : ReadTo(f, disk, cs, m)}
<1>1. 0 \in S
  <2> DEFINE f == [j \in 0 .. 0 |-> <<>>]
  <2>1. ReadTo(f, disk, cs, 0)
    BY DEF ReadTo
  <2> HIDE DEF f
  <2> QED BY <2>1
<1>2. ASSUME NEW m \in S PROVE m + 1 \in S
  <2>1. PICK f : ReadTo(f, disk, cs, m)
    OBVIOUS
  <2>2. \A j \in 0 .. m : f[j] = IF j = 0 THEN <<>> ELSE f[j - 1] \o part(j)
    BY <2>1 DEF ReadTo
  <2> HIDE DEF part
  <2> DEFINE g == [j \in 0 .. m + 1 |-> IF j = m + 1 THEN f[m] \o part(m + 1) ELSE f[j]]
  <2>3. ASSUME NEW j \in 0 .. m + 1
        PROVE  g[j] = IF j = 0 THEN <<>> ELSE g[j - 1] \o part(j)
    <3>1. CASE j = m + 1
      <4>1. j # 0 /\ j - 1 = m /\ m \in 0 .. m + 1 /\ m # m + 1
        BY <3>1
      <4>2. g[m] = f[m] /\ g[j] = f[m] \o part(j)
        BY <3>1, <4>1
      <4> HIDE DEF g
      <4> QED BY <4>1, <4>2
    <3>2. CASE j # m + 1
      <4>1. j \in 0 .. m
        BY <3>2
      <4>2. g[j] = f[j] /\ f[j] = IF j = 0 THEN <<>> ELSE f[j - 1] \o part(j)
        BY <2>2, <3>2, <4>1
      <4>3. j # 0 => g[j - 1] = f[j - 1]
        BY <4>1
      <4> HIDE DEF g
      <4> QED BY <4>2, <4>3
    <3> QED BY <3>1, <3>2
  <2>4. g = [j \in 0 .. m + 1 |-> g[j]] /\ m + 1 \in Nat
    OBVIOUS
  <2> HIDE DEF g
  <2>5. ReadTo(g, disk, cs, m + 1)
    BY <2>3, <2>4 DEF ReadTo, part
  <2> QED BY <2>4, <2>5
<1>3. S = Nat
  <2> S \in SUBSET Nat
    OBVIOUS
  <2> HIDE DEF S
  <2> QED BY <1>1, <1>2, InductionBySet
<1>4. n \in S
  <2> HIDE DEF S
  <2> QED BY <1>3
<1> QED BY <1>4

\* The bytes that are read, chunk after chunk, and what Read makes of them
Reads(f, disk, cs, n, read) ==
  /\ f[0] = <<>>
  /\ \A j \in 1 .. Len(cs) :
       f[j] = f[j - 1] \o SubSeq(disk[cs[j].file], cs[j].at + 1, cs[j].at + cs[j].n)
  /\ read = f[Len(cs)] \o Zeros(n - Len(f[Len(cs)]))

\* Read, chunk after chunk
LEMMA ReadSteps ==
  ASSUME NEW lens, NEW disk, NEW off, NEW n, NEW cs \in Seq(ChunkType), cs = Chunks(lens, off, n)
  PROVE  \E f : Reads(f, disk, cs, n, Read(disk, lens, off, n))
<1>0. Len(cs) \in Nat
  OBVIOUS
<1> DEFINE f == CHOOSE g : g = [j \in 0 .. Len(cs) |->
                  IF j = 0 THEN <<>>
                  ELSE g[j - 1] \o SubSeq(disk[cs[j].file], cs[j].at + 1, cs[j].at + cs[j].n)]
<1>1. ReadTo(f, disk, cs, Len(cs))
  <2>1. PICK g : ReadTo(g, disk, cs, Len(cs))
    BY <1>0, ReadExists
  <2> QED BY <2>1 DEF ReadTo
<1>2. Read(disk, lens, off, n) = f[Len(cs)] \o Zeros(n - Len(f[Len(cs)]))
  BY DEF Read
<1> HIDE DEF f
<1> SUFFICES Reads(f, disk, cs, n, Read(disk, lens, off, n))
  OBVIOUS
<1> QED
  <2>1. 0 \in 0 .. Len(cs) /\ \A j \in 1 .. Len(cs) : j \in 0 .. Len(cs) /\ j # 0
    BY <1>0
  <2> QED BY <1>1, <1>2, <2>1 DEF ReadTo, Reads

\* the bytes of the row from off on, and zeros behind its end
IsRead(read, disk, lens, off, n) ==
  /\ read \in Seq(Int) /\ Len(read) = n
  /\ \A k \in 1 .. n : read[k] =
       IF off + k <= TotalSize(lens) THEN ByteAt(disk, lens, off + k) ELSE 0

\* RawReadAt reads the row: whatever lengths the files have, empty ones
\* among them, wherever the bytes begin and end.
THEOREM ReadsTheRow ==
  ASSUME NEW lens, Layout(lens), NEW disk, Sized(disk, lens), NEW off \in Nat, NEW n \in Nat
  PROVE  IsRead(Read(disk, lens, off, n), disk, lens, off, n)
<1> DEFINE cs == Chunks(lens, off, n)
           s == [j \in 1 .. Len(cs) |-> SubSeq(disk[cs[j].file], cs[j].at + 1, cs[j].at + cs[j].n)]
           total == TotalSize(lens)
           To(j) == cs[j].from + cs[j].n
           Row(b, m) == /\ b \in Seq(Int) /\ Len(b) = m
                        /\ \A k \in 1 .. m : b[k] = ByteAt(disk, lens, off + k)
<1>1. lens \in Seq(Nat) /\ Len(lens) > 0 /\ Len(lens) \in Nat
  BY DEF Layout
<1>2. Covers(lens, off, n, cs, 1, n)
  BY <1>1, ChunksCover
<1>3. cs \in Seq(ChunkType) /\ Len(cs) \in Nat
  BY <1>2 DEF Covers
<1>t. total \in Nat
  <2>1. 1 \in 1 .. Len(lens)
    BY <1>1
  <2> QED BY <1>1, <2>1, TotalNext
<1> HIDE DEF cs, total
<1>4. ASSUME NEW j \in 1 .. Len(cs)
      PROVE  /\ cs[j].from \in Nat /\ cs[j].n \in Nat /\ s[j] \in Seq(Int) /\ Len(s[j]) = cs[j].n
             /\ \A x \in 1 .. cs[j].n : s[j][x] = ByteAt(disk, lens, off + cs[j].from + x)
             /\ off + To(j) <= total
  <2>1. cs[j] \in ChunkType
    BY <1>3
  <2>2. InPlace(lens, off, 1, cs[j])
    BY <1>2 DEF Covers
  <2>3. PICK i \in 1 .. Len(lens) : i = cs[j].file
    BY <2>2, <1>1 DEF InPlace
  <2>4. PICK at \in Nat, from \in Nat, m \in Nat : at = cs[j].at /\ from = cs[j].from /\ m = cs[j].n
    BY <2>1 DEF ChunkType
  <2>5. PICK o \in Nat, l \in Nat : o = Offset(lens, i) /\ l = lens[i] /\ Offset(lens, i + 1) = o + l
    BY <1>1, OffsetNext
  <2>6. m > 0 /\ at + m <= l /\ o + at = off + from
    BY <2>2, <2>3, <2>4, <2>5 DEF InPlace
  <2>7. disk[i] \in Seq(Int) /\ Len(disk[i]) = l
    BY <2>5 DEF Sized
  <2>8. s[j] = SubSeq(disk[i], at + 1, at + m)
    BY <2>3, <2>4
  <2>9. s[j] \in Seq(Int) /\ Len(s[j]) = m /\ \A x \in 1 .. m : s[j][x] = disk[i][at + x]
    <3> HIDE DEF s
    <3>1. \A x \in at + 1 .. at + m : disk[i][x] \in Int
      BY <2>6, <2>7
    <3>2. at + 1 <= at + m /\ (at + m) - (at + 1) + 1 = m
      BY <2>6
    <3>3. /\ SubSeq(disk[i], at + 1, at + m) \in Seq(Int)
          /\ Len(SubSeq(disk[i], at + 1, at + m)) = (at + m) - (at + 1) + 1
          /\ \A x \in 1 .. (at + m) - (at + 1) + 1 :
               SubSeq(disk[i], at + 1, at + m)[x] = disk[i][(at + 1) + x - 1]
      BY <3>1, <3>2, SubSeqProperties
    <3>4. \A x \in 1 .. m : (at + 1) + x - 1 = at + x
      OBVIOUS
    <3> QED BY <2>8, <3>2, <3>3, <3>4
  <2>10. ASSUME NEW x \in 1 .. m PROVE s[j][x] = ByteAt(disk, lens, off + from + x)
    <3> HIDE DEF s
    <3>1. at + x \in 1 .. l /\ off + from + x = o + (at + x)
      BY <2>6
    <3>2. ByteAt(disk, lens, off + from + x) = disk[i][at + x]
      BY <1>1, <2>5, <3>1, ByteOfFile
    <3> QED BY <2>9, <3>2
  <2>11. off + (from + m) <= total
    <3>1. o + l <= total
      BY <1>1, <2>5, TotalNext DEF total
    <3> QED BY <2>6, <3>1, <1>t
  <2> HIDE DEF s
  <2> QED BY <2>4, <2>9, <2>10, <2>11
<1>5. PICK f : Reads(f, disk, cs, n, Read(disk, lens, off, n))
  <2>1. cs = Chunks(lens, off, n)
    BY DEF cs
  <2> QED BY <1>3, <2>1, ReadSteps
<1>6. /\ f[0] = <<>>
      /\ \A j \in 1 .. Len(cs) : f[j] = f[j - 1] \o s[j]
  <2>1. f[0] = <<>>
    BY <1>5 DEF Reads
  <2>2. ASSUME NEW j \in 1 .. Len(cs) PROVE f[j] = f[j - 1] \o s[j]
    <3>1. f[j] = f[j - 1] \o SubSeq(disk[cs[j].file], cs[j].at + 1, cs[j].at + cs[j].n)
      BY <1>5 DEF Reads
    <3> QED BY <3>1
  <2> QED BY <2>1, <2>2
<1> HIDE DEF s
<1>7. \A j \in 1 .. Len(cs) : cs[j].from = IF j = 1 THEN 0 ELSE To(j - 1)
  <2> TAKE j \in 1 .. Len(cs)
  <2>1. CASE j = 1
    <3>1. cs[1].from = n - n
      BY <2>1, <1>2, <1>3 DEF Covers
    <3> QED BY <2>1, <3>1
  <2>2. CASE j # 1
    <3>1. j - 1 \in 1 .. Len(cs) - 1 /\ (j - 1) + 1 = j
      BY <2>2, <1>3
    <3>2. Follows(cs[j - 1], cs[j])
      BY <3>1, <1>2 DEF Covers
    <3> QED BY <2>2, <3>2 DEF Follows
  <2> QED BY <2>1, <2>2
<1> DEFINE End(j) == IF j = 0 THEN 0 ELSE To(j)
           S == {m \in Nat : m <= Len(cs) => Row(f[m], End(m))}
<1>8. 0 \in S
  <2>1. Row(f[0], 0) /\ End(0) = 0
    BY <1>6
  <2> HIDE DEF Row, End
  <2> QED BY <2>1
<1>9. ASSUME NEW m \in S PROVE m + 1 \in S
  <2>1. ASSUME m + 1 <= Len(cs) PROVE Row(f[m + 1], End(m + 1))
    <3>1. PICK j \in 1 .. Len(cs) : j = m + 1 /\ j - 1 = m /\ m <= Len(cs)
      BY <2>1, <1>3
    <3>2. PICK b \in Nat : b = cs[j].n
      BY <1>4
    <3>3. PICK a \in Nat : a = cs[j].from
      BY <1>4
    <3>4. End(j - 1) = a /\ End(j) = a + b
      <4>1. j \in Nat /\ j # 0 /\ (j = 1 <=> j - 1 = 0)
        OBVIOUS
      <4> QED BY <4>1, <3>2, <3>3, <1>7
    <3>5. Row(f[j - 1], a)
      <4> HIDE DEF Row, End
      <4> QED BY <3>1, <3>4
    <3>6. f[j] = f[j - 1] \o s[j]
      BY <1>6
    <3>9. /\ s[j] \in Seq(Int) /\ Len(s[j]) = b
          /\ \A x \in 1 .. b : s[j][x] = ByteAt(disk, lens, off + a + x)
      BY <3>2, <3>3, <1>4
    <3>10. /\ f[j - 1] \in Seq(Int) /\ Len(f[j - 1]) = a
           /\ \A k \in 1 .. a : f[j - 1][k] = ByteAt(disk, lens, off + k)
      BY <3>5
    <3>11. PICK u \in Seq(Int), v \in Seq(Int) : u = f[j - 1] /\ v = s[j]
      BY <3>9, <3>10
    <3>12. /\ u \o v \in Seq(Int) /\ Len(u \o v) = a + b
           /\ \A k \in 1 .. a : (u \o v)[k] = u[k]
           /\ \A k \in a + 1 .. a + b : (u \o v)[k] = v[k - a]
      <4>1. Len(u) = a /\ Len(v) = b
        BY <3>9, <3>10, <3>11
      <4>2. u \in Seq(Int) /\ v \in Seq(Int) /\ a \in Nat /\ b \in Nat
        OBVIOUS
      <4> HIDE DEF S, Row, End, To
      <4>3. Joined(Int, u \o v, u, v, a, b)
        BY <4>1, <4>2, CatParts
      <4> QED BY <4>3 DEF Joined
    <3>13. ASSUME NEW k \in 1 .. a + b PROVE (u \o v)[k] = ByteAt(disk, lens, off + k)
      <4>1. CASE k <= a
        <5>1. k \in 1 .. a
          BY <4>1
        <5>2. (u \o v)[k] = u[k]
          BY <5>1, <3>12
        <5>3. u[k] = ByteAt(disk, lens, off + k)
          BY <5>1, <3>10, <3>11
        <5> QED BY <5>2, <5>3
      <4>2. CASE ~(k <= a)
        <5>1. k \in a + 1 .. a + b /\ k - a \in 1 .. b /\ off + a + (k - a) = off + k
          BY <4>2
        <5>2. v[k - a] = ByteAt(disk, lens, off + a + (k - a))
          BY <5>1, <3>9, <3>11
        <5>3. (u \o v)[k] = v[k - a]
          BY <5>1, <3>12
        <5> QED BY <5>1, <5>2, <5>3
      <4> QED BY <4>1, <4>2
    <3>14. Row(f[j], a + b)
      BY <3>6, <3>11, <3>12, <3>13
    <3> HIDE DEF Row, End
    <3> QED BY <3>1, <3>4, <3>14
  <2>2. m + 1 \in Nat
    OBVIOUS
  <2> HIDE DEF Row, End
  <2> QED BY <2>1, <2>2
<1> DEFINE bytes == f[Len(cs)]
<1>10. Row(bytes, End(Len(cs)))
  <2>1. S = Nat
    <3> S \in SUBSET Nat
      OBVIOUS
    <3> HIDE DEF S
    <3> QED BY <1>8, <1>9, InductionBySet
  <2>2. Len(cs) \in S
    <3> HIDE DEF S
    <3> QED BY <1>3, <2>1
  <2> HIDE DEF Row, End
  <2> QED BY <2>2, <1>3, <1>6
<1>11. PICK m \in Nat : /\ Row(bytes, m) /\ m <= n
                        /\ \A k \in 1 .. n : k <= m <=> off + k <= total
  <2>1. CASE Len(cs) = 0
    <3>1. Row(bytes, 0)
      <4>1. End(Len(cs)) = 0
        BY <2>1
      <4> HIDE DEF Row, End
      <4> QED BY <4>1, <1>10
    <3>2. n = 0 \/ off >= total
      <4>1. n = 0 \/ off + n - n >= total
        BY <2>1, <1>2 DEF Covers, total
      <4>2. off + n - n = off
        OBVIOUS
      <4> QED BY <4>1, <4>2
    <3>3. \A k \in 1 .. n : k <= 0 <=> off + k <= total
      BY <3>2, <1>t
    <3> HIDE DEF Row
    <3> QED BY <3>1, <3>3
  <2>2. CASE Len(cs) > 0
    <3>1. Len(cs) \in 1 .. Len(cs) /\ Len(cs) # 0
      BY <2>2, <1>3
    <3>2. PICK m \in Nat : m = End(Len(cs)) /\ m = To(Len(cs))
      BY <3>1, <1>4
    <3>3. m = Least(n, total - off)
      BY <2>2, <3>2, <1>2 DEF Covers, total
    <3>4. m <= n /\ \A k \in 1 .. n : k <= m <=> off + k <= total
      BY <3>3, <1>t DEF Least
    <3> HIDE DEF Row, End, To
    <3> QED BY <3>2, <3>4, <1>10
  <2> HIDE DEF Row, bytes
  <2> QED BY <2>1, <2>2, <1>3
<1>12. Read(disk, lens, off, n) = bytes \o Zeros(n - Len(bytes))
  BY <1>5 DEF Reads
<1> HIDE DEF bytes
<1>13. bytes \in Seq(Int) /\ Len(bytes) = m /\ \A k \in 1 .. m : bytes[k] = ByteAt(disk, lens, off + k)
  BY <1>11
<1>14. PICK z \in Seq(Int) : z = Zeros(n - m) /\ Len(z) = n - m /\ \A k \in 1 .. n - m : z[k] = 0
  <2>1. n - m \in Nat
    BY <1>11
  <2> QED BY <2>1, ZerosAre
<1>15. /\ bytes \o z \in Seq(Int) /\ Len(bytes \o z) = n
       /\ \A k \in 1 .. m : (bytes \o z)[k] = bytes[k]
       /\ \A k \in m + 1 .. n : (bytes \o z)[k] = z[k - m]
  <2>1. PICK r \in Nat : r = n - m /\ m + r = n
    <3>1. n - m \in Nat /\ m + (n - m) = n
      BY <1>11
    <3> QED BY <3>1
  <2>2. Len(bytes) = m /\ Len(z) = r
    BY <1>13, <1>14, <2>1
  <2>3. /\ bytes \o z \in Seq(Int) /\ Len(bytes \o z) = m + r
        /\ \A k \in 1 .. m : (bytes \o z)[k] = bytes[k]
        /\ \A k \in m + 1 .. m + r : (bytes \o z)[k] = z[k - m]
    <3>1. PICK u \in Seq(Int) : u = bytes
      BY <1>13
    <3>2. Len(u) = m /\ Len(z) = r
      BY <2>2, <3>1
    <3>3. /\ u \o z \in Seq(Int) /\ Len(u \o z) = m + r
          /\ \A k \in 1 .. m : (u \o z)[k] = u[k]
          /\ \A k \in m + 1 .. m + r : (u \o z)[k] = z[k - m]
      BY <3>2
    <3> QED BY <3>1, <3>3
  <2> QED BY <2>1, <2>3
<1>16. ASSUME NEW k \in 1 .. n
       PROVE  (bytes \o z)[k] = IF off + k <= total THEN ByteAt(disk, lens, off + k) ELSE 0
  <2>0. k <= m <=> off + k <= total
    BY <1>11
  <2>1. CASE k <= m
    <3>1. k \in 1 .. m
      BY <2>1
    <3> QED BY <2>0, <2>1, <3>1, <1>13, <1>15
  <2>2. CASE ~(k <= m)
    <3>1. k \in m + 1 .. n /\ k - m \in 1 .. n - m
      BY <2>2
    <3> QED BY <2>0, <2>2, <3>1, <1>14, <1>15
  <2> QED BY <2>1, <2>2
<1> QED BY <1>12, <1>13, <1>14, <1>15, <1>16 DEF total, IsRead

\* one step of the fold g of Written, s the chunks that are done
Picked(g, s, disk, bytes, cs) ==
  IF s = {} THEN disk ELSE PutChunk(bytes, g[s \ {Max(s)}], cs[Max(s)])

\* g is that fold over subsets of D
Picks(g, D, disk, bytes, cs) == g = [s \in SUBSET D |-> Picked(g, s, disk, bytes, cs)]

\* The last chunk of the first m
LEMMA MaxIs ==
  ASSUME NEW m \in Nat, NEW s \in SUBSET (1 .. m), m \in s
  PROVE  Max(s) = m
<1>1. \A x \in s : m >= x
  OBVIOUS
<1>2. \A y \in s : (\A x \in s : y >= x) => y = m
  OBVIOUS
<1> QED BY <1>1, <1>2 DEF Max

\* The fold of Written is a function of the chunks that are left
LEMMA PickedExists ==
  ASSUME NEW disk, NEW bytes, NEW cs, NEW n \in Nat
  PROVE  \E g : Picks(g, 1 .. n, disk, bytes, cs)
<1> DEFINE S == {m \in Nat : \E g : g = [s \in SUBSET (1 .. m) |-> Picked(g, s, disk, bytes, cs)]}
<1>1. 0 \in S
  <2> DEFINE g == [s \in SUBSET (1 .. 0) |-> disk]
  <2>1. \A s \in SUBSET (1 .. 0) : s = {}
    OBVIOUS
  <2>2. g = [s \in SUBSET (1 .. 0) |-> Picked(g, s, disk, bytes, cs)]
    BY <2>1 DEF Picked
  <2> HIDE DEF g
  <2> QED BY <2>2
<1>2. ASSUME NEW m \in S PROVE m + 1 \in S
  <2>0. m \in Nat
    OBVIOUS
  <2>1. PICK g : g = [s \in SUBSET (1 .. m) |-> Picked(g, s, disk, bytes, cs)]
    OBVIOUS
  <2> DEFINE h == [s \in SUBSET (1 .. m + 1) |->
                     IF m + 1 \in s THEN PutChunk(bytes, g[s \ {m + 1}], cs[m + 1]) ELSE g[s]]
  <2>2. ASSUME NEW s \in SUBSET (1 .. m + 1) PROVE h[s] = Picked(h, s, disk, bytes, cs)
    <3>1. CASE m + 1 \in s
      <4>1. Max(s) = m + 1
        BY <3>1, MaxIs, m + 1 \in Nat
      <4>2. s \ {m + 1} \in SUBSET (1 .. m) /\ s \ {m + 1} \in SUBSET (1 .. m + 1) /\ m + 1 \notin s \ {m + 1}
        OBVIOUS
      <4>3. h[s \ {m + 1}] = g[s \ {m + 1}]
        BY <4>2
      <4>4. h[s] = PutChunk(bytes, g[s \ {m + 1}], cs[m + 1])
        BY <3>1
      <4>5. s # {}
        BY <3>1
      <4> HIDE DEF h
      <4> QED BY <4>1, <4>3, <4>4, <4>5 DEF Picked
    <3>2. CASE m + 1 \notin s
      <4>1. s \in SUBSET (1 .. m)
        BY <3>2
      <4>2. h[s] = g[s] /\ g[s] = Picked(g, s, disk, bytes, cs)
        BY <2>1, <3>2, <4>1
      <4>3. s \ {Max(s)} \in SUBSET (1 .. m) /\ s \ {Max(s)} \in SUBSET (1 .. m + 1)
            /\ m + 1 \notin s \ {Max(s)}
        BY <3>2, <4>1
      <4>4. h[s \ {Max(s)}] = g[s \ {Max(s)}]
        BY <4>3
      <4> HIDE DEF h
      <4> QED BY <4>2, <4>4 DEF Picked
    <3> QED BY <3>1, <3>2
  <2>3. h = [s \in SUBSET (1 .. m + 1) |-> h[s]]
    OBVIOUS
  <2>4. m + 1 \in Nat
    OBVIOUS
  <2> HIDE DEF h
  <2>5. h = [s \in SUBSET (1 .. m + 1) |-> Picked(h, s, disk, bytes, cs)]
    BY <2>2, <2>3
  <2> QED BY <2>4, <2>5
<1>3. S = Nat
  <2> S \in SUBSET Nat
    OBVIOUS
  <2> HIDE DEF S
  <2> QED BY <1>1, <1>2, InductionBySet
<1>4. n \in S
  <2> HIDE DEF S
  <2> QED BY <1>3
<1> QED BY <1>4 DEF Picks

\* d are the disks as chunk after chunk is put, written the last of them
PutsChunks(d, disk, bytes, cs, written) ==
  /\ d[0] = disk
  /\ \A j \in 1 .. Len(cs) : d[j] = PutChunk(bytes, d[j - 1], cs[j])
  /\ written = d[Len(cs)]

\* Written, chunk after chunk
LEMMA WrittenSteps ==
  ASSUME NEW lens, NEW disk, NEW bytes, NEW off, NEW cs \in Seq(ChunkType),
         cs = Chunks(lens, off, Len(bytes))
  PROVE  \E d : PutsChunks(d, disk, bytes, cs, Written(disk, lens, bytes, off))
<1>1. DOMAIN cs = 1 .. Len(cs) /\ Len(cs) \in Nat
  OBVIOUS
<1> DEFINE it == CHOOSE g : g = [s \in SUBSET DOMAIN cs |->
                    IF s = {} THEN disk ELSE PutChunk(bytes, g[s \ {Max(s)}], cs[Max(s)])]
<1>2. it = [s \in SUBSET DOMAIN cs |-> Picked(it, s, disk, bytes, cs)]
  <2>1. \E g : g = [s \in SUBSET DOMAIN cs |->
                    IF s = {} THEN disk ELSE PutChunk(bytes, g[s \ {Max(s)}], cs[Max(s)])]
    <3>1. PICK g : Picks(g, DOMAIN cs, disk, bytes, cs)
      BY <1>1, PickedExists
    <3> QED BY <3>1 DEF Picks, Picked
  <2> QED BY <2>1 DEF Picked
<1>3. Written(disk, lens, bytes, off) = it[DOMAIN cs]
  BY DEF Written, FoldLeft, MapThenFoldSet
<1> HIDE DEF it
<1> DEFINE d == [j \in 0 .. Len(cs) |-> it[1 .. j]]
<1>4. d[0] = disk
  <2>1. 1 .. 0 = {} /\ {} \in SUBSET DOMAIN cs
    OBVIOUS
  <2> QED BY <1>1, <1>2, <2>1 DEF Picked
<1>5. ASSUME NEW j \in 1 .. Len(cs) PROVE d[j] = PutChunk(bytes, d[j - 1], cs[j])
  <2>1. /\ 1 .. j \in SUBSET DOMAIN cs /\ 1 .. j # {} /\ j \in 1 .. j /\ j \in Nat
        /\ (1 .. j) \ {j} = 1 .. j - 1 /\ j - 1 \in 0 .. Len(cs)
    <3>1. j \in Nat /\ j \in 1 .. j /\ j - 1 \in 0 .. Len(cs) /\ 1 .. j \subseteq 1 .. Len(cs)
      BY <1>1
    <3>2. (1 .. j) \ {j} = 1 .. j - 1
      OBVIOUS
    <3> QED BY <1>1, <3>1, <3>2
  <2>2. Max(1 .. j) = j
    BY <2>1, MaxIs
  <2>3. it[1 .. j] = PutChunk(bytes, it[1 .. j - 1], cs[j])
    BY <1>2, <2>1, <2>2 DEF Picked
  <2> QED BY <2>1, <2>3, <1>1
<1>6. d[Len(cs)] = it[DOMAIN cs]
  BY <1>1
<1> HIDE DEF d
<1> QED BY <1>3, <1>4, <1>5, <1>6 DEF PutsChunks

\* A file after WriteAt
LEMMA PatchedFile ==
  ASSUME NEW file \in Seq(Int), NEW at \in Nat, NEW p \in Seq(Int)
  PROVE  /\ Patched(file, at, p) \in Seq(Int)
         /\ Len(Patched(file, at, p)) = Len(file)
         /\ \A x \in 1 .. Len(file) :
              Patched(file, at, p)[x] = IF x - at \in 1 .. Len(p) THEN p[x - at] ELSE file[x]
<1>1. Len(file) \in Nat
  OBVIOUS
<1>2. \A x \in 1 .. Len(file) :
        (IF x - at \in 1 .. Len(p) THEN p[x - at] ELSE file[x]) \in Int
  <2> TAKE x \in 1 .. Len(file)
  <2>1. CASE x - at \in 1 .. Len(p)
    <3>1. p[x - at] \in Int
      BY <2>1
    <3> QED BY <2>1, <3>1
  <2>2. CASE x - at \notin 1 .. Len(p)
    BY <2>2
  <2> QED BY <2>1, <2>2
<1> DEFINE q == Patched(file, at, p)
<1>3. q = [x \in 1 .. Len(file) |-> IF x - at \in 1 .. Len(p) THEN p[x - at] ELSE file[x]]
  BY DEF Patched
<1> HIDE DEF q
<1>4. q \in [1 .. Len(file) -> Int]
  BY <1>2, <1>3
<1>5. q \in Seq(Int) /\ Len(q) = Len(file)
  BY <1>1, <1>4
<1> QED BY <1>3, <1>5 DEF q

\* e is d with the bytes of chunk c in the row
Puts(e, d, lens, bytes, off, c) ==
  /\ Sized(e, lens)
  /\ \A k \in 1 .. TotalSize(lens) : ByteAt(e, lens, k) =
       IF k - off \in c.from + 1 .. c.from + c.n THEN bytes[k - off] ELSE ByteAt(d, lens, k)

\* One chunk written: its bytes are in the row, the others stay
LEMMA PutChunkRow ==
  ASSUME NEW lens, Layout(lens), NEW d, Sized(d, lens), NEW bytes \in Seq(Int), NEW off \in Nat,
         NEW c \in ChunkType, InPlace(lens, off, 1, c), c.from + c.n <= Len(bytes)
  PROVE  Puts(PutChunk(bytes, d, c), d, lens, bytes, off, c)
<1>0. lens \in Seq(Nat) /\ Len(lens) \in Nat
  BY DEF Layout
<1>1. PICK i \in 1 .. Len(lens) : i = c.file
  BY <1>0 DEF InPlace
<1>2. PICK at \in Nat, from \in Nat, m \in Nat : at = c.at /\ from = c.from /\ m = c.n
  BY DEF ChunkType
<1>3. PICK o \in Nat, l \in Nat : o = Offset(lens, i) /\ l = lens[i] /\ Offset(lens, i + 1) = o + l
  BY <1>0, OffsetNext
<1>4. m > 0 /\ at + m <= l /\ o + at = off + from /\ from + m <= Len(bytes)
  BY <1>1, <1>2, <1>3 DEF InPlace
<1>5. d[i] \in Seq(Int) /\ Len(d[i]) = l
  BY <1>3 DEF Sized
<1> DEFINE p == SubSeq(bytes, from + 1, from + m)
           e == PutChunk(bytes, d, c)
<1>6. p \in Seq(Int) /\ Len(p) = m /\ \A x \in 1 .. m : p[x] = bytes[from + x]
  <2>1. \A x \in from + 1 .. from + m : bytes[x] \in Int
    BY <1>4
  <2>2. from + 1 <= from + m /\ (from + m) - (from + 1) + 1 = m
    BY <1>4
  <2>3. /\ SubSeq(bytes, from + 1, from + m) \in Seq(Int)
        /\ Len(SubSeq(bytes, from + 1, from + m)) = (from + m) - (from + 1) + 1
        /\ \A x \in 1 .. (from + m) - (from + 1) + 1 :
             SubSeq(bytes, from + 1, from + m)[x] = bytes[(from + 1) + x - 1]
    BY <2>1, <2>2, SubSeqProperties
  <2>4. \A x \in 1 .. m : (from + 1) + x - 1 = from + x
    OBVIOUS
  <2> QED BY <2>2, <2>3, <2>4
<1>7. e = [d EXCEPT ![i] = Patched(d[i], at, p)]
  BY <1>1, <1>2 DEF PutChunk
<1> HIDE DEF p, e
<1>8. /\ Patched(d[i], at, p) \in Seq(Int) /\ Len(Patched(d[i], at, p)) = l
      /\ \A x \in 1 .. l :
           Patched(d[i], at, p)[x] = IF x - at \in 1 .. m THEN p[x - at] ELSE d[i][x]
  <2>1. PICK f \in Seq(Int), q \in Seq(Int) : f = d[i] /\ q = p
    BY <1>5, <1>6
  <2>2. Len(f) = l /\ Len(q) = m
    BY <2>1, <1>5, <1>6
  <2>3. /\ Patched(f, at, q) \in Seq(Int) /\ Len(Patched(f, at, q)) = Len(f)
        /\ \A x \in 1 .. Len(f) :
             Patched(f, at, q)[x] = IF x - at \in 1 .. Len(q) THEN q[x - at] ELSE f[x]
    BY PatchedFile
  <2> QED BY <2>1, <2>2, <2>3
<1>9. d \in [1 .. Len(lens) -> Seq(Int)]
  BY DEF Sized
<1>10. /\ e = [j \in 1 .. Len(lens) |-> e[j]] /\ e[i] = Patched(d[i], at, p)
       /\ \A j \in 1 .. Len(lens) : j # i => e[j] = d[j]
  BY <1>7, <1>9
<1>11. Sized(e, lens)
  <2>1. ASSUME NEW j \in 1 .. Len(lens) PROVE e[j] \in Seq(Int) /\ Len(e[j]) = lens[j]
    <3>1. CASE j = i
      BY <3>1, <1>3, <1>8, <1>10
    <3>2. CASE j # i
      BY <3>2, <1>10 DEF Sized
    <3> QED BY <3>1, <3>2
  <2> QED BY <2>1, <1>10 DEF Sized
<1>12. ASSUME NEW k \in 1 .. TotalSize(lens)
       PROVE  ByteAt(e, lens, k) =
                IF k - off \in from + 1 .. from + m THEN bytes[k - off] ELSE ByteAt(d, lens, k)
  <2>1. PICK j \in 1 .. Len(lens) : j = FileOf(lens, k) /\ k - Offset(lens, j) \in 1 .. lens[j]
    BY <1>0, PlaceHasFile
  <2>2. PICK a \in Nat, n \in Nat : a = Offset(lens, j) /\ n = lens[j]
    BY <1>0, OffsetNext
  <2>3. PICK x \in 1 .. n : x = k - a /\ k = a + x
    <3>1. k \in Int
      BY <1>0, TotalNext
    <3>2. k - a \in 1 .. n /\ k = a + (k - a)
      BY <2>1, <2>2, <3>1
    <3> QED BY <3>2
  <2>4. ByteAt(e, lens, k) = e[j][x] /\ ByteAt(d, lens, k) = d[j][x]
    BY <1>0, <1>11, <2>2, <2>3, ByteOfFile
  <2>5. CASE j = i
    <3>1. a = o /\ n = l /\ x \in 1 .. l
      BY <2>5, <2>2, <1>3
    <3>2. e[j][x] = IF x - at \in 1 .. m THEN p[x - at] ELSE d[j][x]
      BY <3>1, <2>5, <1>8, <1>10
    <3>3. (k - off) - from = x - at
      BY <3>1, <2>3, <1>4
    <3>4. k - off \in from + 1 .. from + m <=> x - at \in 1 .. m
      BY <3>1, <2>3, <1>4
    <3>5. x - at \in 1 .. m => p[x - at] = bytes[k - off]
      <4>1. from + (x - at) = k - off
        BY <3>1, <2>3, <1>4
      <4> QED BY <4>1, <1>6
    <3> QED BY <2>4, <3>2, <3>4, <3>5
  <2>6. CASE j # i
    <3>1. k - off \notin from + 1 .. from + m
      <4>1. SUFFICES ASSUME k - off \in from + 1 .. from + m PROVE FALSE
        OBVIOUS
      <4>2. k - o \in 1 .. l
        BY <4>1, <1>4, <2>3
      <4>3. k \in Int
        BY <2>3
      <4> QED BY <4>2, <4>3, <2>1, <2>6, <1>0, <1>3, OneFile
    <3>2. e[j][x] = d[j][x]
      BY <2>6, <1>10
    <3> QED BY <2>4, <3>1, <3>2
  <2> QED BY <2>5, <2>6
<1> QED BY <1>2, <1>11, <1>12 DEF e, Puts

\* No chunk takes bytes from behind the last one
LEMMA ChunksWithin ==
  ASSUME NEW lens \in Seq(Nat), Len(lens) > 0, NEW off \in Nat, NEW n \in Nat, NEW cs,
         cs = Chunks(lens, off, n)
  PROVE  \A j \in 1 .. Len(cs) : cs[j].from + cs[j].n <= n
<1>1. Covers(lens, off, n, cs, 1, n)
  BY ChunksCover
<1>2. cs \in Seq(ChunkType) /\ Len(cs) \in Nat
  BY <1>1 DEF Covers
<1>3. \A j \in 1 .. Len(cs) : cs[j].from \in Nat /\ cs[j].n \in Nat /\ cs[j].from + cs[j].n \in Nat
  <2> TAKE j \in 1 .. Len(cs)
  <2>1. cs[j] \in ChunkType
    BY <1>2
  <2> QED BY <2>1 DEF ChunkType
<1> DEFINE To(j) == cs[j].from + cs[j].n
           S == {m \in Nat : Len(cs) - m \in 1 .. Len(cs) => To(Len(cs) - m) <= n}
<1>4. 0 \in S
  <2>1. ASSUME Len(cs) > 0 PROVE To(Len(cs)) <= n
    <3>1. To(Len(cs)) = Least(n, TotalSize(lens) - off)
      BY <2>1, <1>1 DEF Covers
    <3>2. TotalSize(lens) \in Nat
      <4>1. 1 \in 1 .. Len(lens)
        OBVIOUS
      <4> QED BY <4>1, TotalNext
    <3> QED BY <3>1, <3>2 DEF Least
  <2> HIDE DEF To
  <2> QED BY <2>1, <1>2
<1>5. ASSUME NEW m \in S PROVE m + 1 \in S
  <2>1. ASSUME Len(cs) - (m + 1) \in 1 .. Len(cs) PROVE To(Len(cs) - (m + 1)) <= n
    <3>1. PICK j \in 1 .. Len(cs) : j = Len(cs) - (m + 1)
      BY <2>1
    <3>2. j + 1 = Len(cs) - m /\ j \in 1 .. Len(cs) - 1 /\ j + 1 \in 1 .. Len(cs)
      BY <3>1, <1>2
    <3>3. To(j + 1) <= n
      <4> HIDE DEF To
      <4> QED BY <3>2
    <3>4. cs[j + 1].from = cs[j].from + cs[j].n
      BY <3>2, <1>1 DEF Covers, Follows
    <3>5. PICK a \in Nat, b \in Nat : a = cs[j].from + cs[j].n /\ b = cs[j + 1].n
      BY <3>2, <1>3
    <3>6. a + b <= n /\ To(j) = a
      BY <3>3, <3>4, <3>5
    <3>7. To(j) <= n
      BY <3>6
    <3> HIDE DEF To
    <3> QED BY <3>1, <3>7
  <2>2. m + 1 \in Nat
    OBVIOUS
  <2> HIDE DEF To
  <2> QED BY <2>1, <2>2
<1>6. S = Nat
  <2> S \in SUBSET Nat
    OBVIOUS
  <2> HIDE DEF S
  <2> QED BY <1>4, <1>5, InductionBySet
<1> SUFFICES ASSUME NEW j \in 1 .. Len(cs) PROVE To(j) <= n
  OBVIOUS
<1>7. PICK m \in Nat : m = Len(cs) - j /\ Len(cs) - m = j
  <2>1. Len(cs) - j \in Nat /\ Len(cs) - (Len(cs) - j) = j
    BY <1>2
  <2> QED BY <2>1
<1>8. m \in S
  <2> HIDE DEF S
  <2> QED BY <1>6
<1> HIDE DEF To
<1> QED BY <1>7, <1>8

\* the bytes in the row from off on, and what there was everywhere else
IsWritten(other, disk, lens, bytes, off) ==
  /\ Sized(other, lens)
  /\ \A k \in 1 .. TotalSize(lens) : ByteAt(other, lens, k) =
       IF k - off \in 1 .. Len(bytes) THEN bytes[k - off] ELSE ByteAt(disk, lens, k)

\* RawWriteAt writes the row: the bytes are at their places, every other
\* place is as it was, and what would be behind the end is dropped.
THEOREM WritesTheRow ==
  ASSUME NEW lens, Layout(lens), NEW disk, Sized(disk, lens), NEW bytes \in Seq(Int), NEW off \in Nat
  PROVE  IsWritten(Written(disk, lens, bytes, off), disk, lens, bytes, off)
<1> DEFINE n == Len(bytes)
           cs == Chunks(lens, off, n)
           total == TotalSize(lens)
           To(j) == IF j = 0 THEN 0 ELSE cs[j].from + cs[j].n
           Row(e, m) == /\ Sized(e, lens)
                        /\ \A k \in 1 .. total : ByteAt(e, lens, k) =
                             IF k - off \in 1 .. m THEN bytes[k - off] ELSE ByteAt(disk, lens, k)
<1>1. lens \in Seq(Nat) /\ Len(lens) > 0 /\ Len(lens) \in Nat /\ n \in Nat
  BY DEF Layout
<1>2. Covers(lens, off, n, cs, 1, n)
  BY <1>1, ChunksCover
<1>3. cs \in Seq(ChunkType) /\ Len(cs) \in Nat
  BY <1>2 DEF Covers
<1>4. total \in Nat
  <2>1. 1 \in 1 .. Len(lens)
    BY <1>1
  <2> QED BY <1>1, <2>1, TotalNext
<1>5. \A j \in 1 .. Len(cs) : cs[j].from + cs[j].n <= n
  BY <1>1, ChunksWithin
<1>6. PICK d : /\ d[0] = disk
               /\ \A j \in 1 .. Len(cs) : d[j] = PutChunk(bytes, d[j - 1], cs[j])
               /\ Written(disk, lens, bytes, off) = d[Len(cs)]
  <2> HIDE DEF cs
  <2>1. cs = Chunks(lens, off, Len(bytes))
    BY DEF cs
  <2>2. PICK d : PutsChunks(d, disk, bytes, cs, Written(disk, lens, bytes, off))
    BY <1>3, <2>1, WrittenSteps
  <2> QED BY <2>2 DEF PutsChunks
<1>7. \A j \in 1 .. Len(cs) : InPlace(lens, off, 1, cs[j])
  BY <1>2 DEF Covers
<1>8. \A j \in 1 .. Len(cs) : cs[j].from = To(j - 1)
  <2> TAKE j \in 1 .. Len(cs)
  <2>1. CASE j = 1
    <3>1. cs[1].from = n - n
      BY <2>1, <1>2, <1>3 DEF Covers
    <3> QED BY <2>1, <3>1, <1>1
  <2>2. CASE j # 1
    <3>1. j - 1 \in 1 .. Len(cs) - 1 /\ (j - 1) + 1 = j /\ j - 1 # 0
      BY <2>2, <1>3
    <3>2. Follows(cs[j - 1], cs[j])
      BY <3>1, <1>2 DEF Covers
    <3> QED BY <3>1, <3>2 DEF Follows
  <2> QED BY <2>1, <2>2
<1>9. \A j \in 0 .. Len(cs) : To(j) \in Nat
  <2>1. \A j \in 1 .. Len(cs) : cs[j].from + cs[j].n \in Nat
    <3> TAKE j \in 1 .. Len(cs)
    <3>1. cs[j] \in ChunkType
      BY <1>3
    <3>2. cs[j].from \in Nat /\ cs[j].n \in Nat
      BY <3>1 DEF ChunkType
    <3> QED BY <3>2
  <2> QED BY <2>1
<1>10. \A j \in 1 .. Len(cs) : cs[j].from + cs[j].n = To(j)
  OBVIOUS
<1>11. To(0) = 0
  OBVIOUS
<1>12. To(Len(cs)) = 0 => Len(cs) = 0
  <2>1. ASSUME Len(cs) # 0 PROVE To(Len(cs)) # 0
    <3>1. Len(cs) \in 1 .. Len(cs)
      BY <2>1, <1>3
    <3>2. cs[Len(cs)].from \in Nat /\ cs[Len(cs)].n \in Nat /\ cs[Len(cs)].n > 0
      <4>1. cs[Len(cs)] \in ChunkType /\ InPlace(lens, off, 1, cs[Len(cs)])
        BY <3>1, <1>3, <1>7
      <4> QED BY <4>1 DEF ChunkType, InPlace
    <3> QED BY <2>1, <3>2
  <2> QED BY <2>1
<1> HIDE DEF n, cs, total, To
<1> DEFINE S == {m \in Nat : m <= Len(cs) => Row(d[m], To(m))}
<1>13. 0 \in S
  <2>1. Row(d[0], To(0))
    <3>1. \A k \in 1 .. total : k - off \notin 1 .. 0
      OBVIOUS
    <3> QED BY <3>1, <1>6, <1>11
  <2> HIDE DEF Row
  <2> QED BY <2>1
<1>14. ASSUME NEW m \in S PROVE m + 1 \in S
  <2>1. ASSUME m + 1 <= Len(cs) PROVE Row(d[m + 1], To(m + 1))
    <3>1. PICK j \in 1 .. Len(cs) : j = m + 1 /\ j - 1 = m
      BY <2>1, <1>3
    <3>2. Row(d[j - 1], To(j - 1))
      <4>1. m <= Len(cs)
        BY <2>1, <1>3
      <4> HIDE DEF Row
      <4> QED BY <3>1, <4>1
    <3>3. PICK a \in Nat, b \in Nat : a = cs[j].from /\ b = cs[j].n /\ To(j - 1) = a /\ To(j) = a + b
      <4>1. cs[j] \in ChunkType
        BY <1>3
      <4>2. cs[j].from \in Nat /\ cs[j].n \in Nat
        BY <4>1 DEF ChunkType
      <4> QED BY <4>2, <1>8, <1>10
    <3>4. d[j] = PutChunk(bytes, d[j - 1], cs[j])
      BY <1>6
    <3>5. /\ Sized(d[j - 1], lens)
          /\ \A k \in 1 .. total : ByteAt(d[j - 1], lens, k) =
               IF k - off \in 1 .. a THEN bytes[k - off] ELSE ByteAt(disk, lens, k)
      BY <3>2, <3>3
    <3>6. /\ Sized(d[j], lens)
          /\ \A k \in 1 .. total : ByteAt(d[j], lens, k) =
               IF k - off \in a + 1 .. a + b THEN bytes[k - off] ELSE ByteAt(d[j - 1], lens, k)
      <4>1. cs[j] \in ChunkType /\ InPlace(lens, off, 1, cs[j]) /\ cs[j].from + cs[j].n <= Len(bytes)
        BY <1>3, <1>5, <1>7 DEF n
      <4>2. PICK c \in ChunkType, e \in {d[j - 1]} : c = cs[j] /\ e = d[j - 1]
        BY <4>1
      <4>3. Sized(e, lens) /\ InPlace(lens, off, 1, c) /\ c.from + c.n <= Len(bytes)
            /\ c.from = a /\ c.n = b /\ d[j] = PutChunk(bytes, e, c)
        BY <3>3, <3>4, <3>5, <4>1, <4>2
      <4>4. Puts(PutChunk(bytes, e, c), e, lens, bytes, off, c)
        BY <4>2, <4>3, PutChunkRow
      <4> QED BY <4>2, <4>3, <4>4 DEF total, Puts
    <3>7. ASSUME NEW k \in 1 .. total
          PROVE  ByteAt(d[j], lens, k) =
                   IF k - off \in 1 .. a + b THEN bytes[k - off] ELSE ByteAt(disk, lens, k)
      <4>1. k - off \in 1 .. a + b <=> k - off \in 1 .. a \/ k - off \in a + 1 .. a + b
        BY <1>4
      <4> QED BY <3>5, <3>6, <4>1
    <3>8. Row(d[j], To(j))
      BY <3>3, <3>6, <3>7
    <3> HIDE DEF Row
    <3> QED BY <3>1, <3>8
  <2>2. m + 1 \in Nat
    OBVIOUS
  <2> HIDE DEF Row
  <2> QED BY <2>1, <2>2
<1>15. S = Nat
  <2> S \in SUBSET Nat
    OBVIOUS
  <2> HIDE DEF S
  <2> QED BY <1>13, <1>14, InductionBySet
<1>16. Row(d[Len(cs)], To(Len(cs)))
  <2>1. Len(cs) \in S
    <3> HIDE DEF S
    <3> QED BY <1>3, <1>15
  <2> HIDE DEF Row
  <2> QED BY <2>1, <1>3
<1>17. ASSUME NEW k \in 1 .. total
       PROVE  k - off \in 1 .. To(Len(cs)) <=> k - off \in 1 .. n
  <2>1. CASE Len(cs) = 0
    <3>1. n = 0 \/ off + n - n >= total
      BY <2>1, <1>2 DEF Covers, total
    <3>2. To(Len(cs)) = 0
      BY <2>1, <1>11
    <3> QED BY <3>1, <3>2, <1>1, <1>4
  <2>2. CASE Len(cs) > 0
    <3>1. cs[Len(cs)].from + cs[Len(cs)].n = Least(n, total - off)
      BY <2>2, <1>2 DEF Covers, total
    <3>2. To(Len(cs)) = Least(n, total - off)
      <4>1. Len(cs) \in 1 .. Len(cs)
        BY <2>2, <1>3
      <4> QED BY <3>1, <4>1, <1>10
    <3> QED BY <3>2, <1>1, <1>4 DEF Least
  <2> QED BY <2>1, <2>2, <1>3
<1> QED BY <1>6, <1>16, <1>17 DEF n, total, IsWritten

-----------------------------------------------------------------------------
(* Pieces and blocks.                                                        *)

\* Products, as far as they are needed
LEMMA Times ==
  ASSUME NEW p \in Nat, NEW q \in Nat, NEW n \in Nat, p < q
  PROVE  /\ p * n \in Nat /\ q * n \in Nat /\ (p + 1) * n = p * n + n /\ p * n + n <= q * n
<1>1. PICK r \in Nat : q = p + 1 + r
  <2>1. q - p - 1 \in Nat /\ q = p + 1 + (q - p - 1)
    OBVIOUS
  <2> QED BY <2>1
<1>2. (p + 1 + r) * n = p * n + n + r * n
  OBVIOUS
<1>3. (p + 1) * n = p * n + n
  OBVIOUS
<1>4. p * n \in Nat /\ q * n \in Nat /\ r * n \in Nat
  OBVIOUS
<1> DEFINE a == p * n
           b == r * n
           c == q * n
<1>5. a \in Nat /\ b \in Nat /\ c \in Nat /\ c = a + n + b
  BY <1>1, <1>2, <1>4
<1> HIDE DEF a, b, c
<1>6. a + n <= c
  BY <1>5
<1> QED BY <1>3, <1>4, <1>6 DEF a, c

\* Division with what is left
LEMMA Division ==
  ASSUME NEW a \in Nat, NEW n \in Nat \ {0}
  PROVE  /\ a \div n \in Nat /\ a % n \in 0 .. n - 1 /\ (a \div n) * n \in Nat
         /\ a = (a \div n) * n + (a % n)
OBVIOUS

\* ... and back
LEMMA Quotient ==
  ASSUME NEW a \in Nat, NEW n \in Nat \ {0}, NEW q \in Nat, NEW r \in 0 .. n - 1, a = q * n + r
  PROVE  a \div n = q
<1>1. PICK d \in Nat, e \in 0 .. n - 1 : d = a \div n /\ a = d * n + e
  BY Division
<1>2. CASE d = q
  BY <1>1, <1>2
<1>3. CASE d < q
  <2>1. PICK x \in Nat, y \in Nat : x = d * n /\ y = q * n /\ x + n <= y
    BY <1>3, Times
  <2>2. x + e = y + r
    BY <1>1, <2>1
  <2> QED BY <2>1, <2>2
<1>4. CASE q < d
  <2>1. PICK x \in Nat, y \in Nat : x = d * n /\ y = q * n /\ y + n <= x
    BY <1>4, Times
  <2>2. x + e = y + r
    BY <1>1, <2>1
  <2> QED BY <2>1, <2>2
<1> QED BY <1>2, <1>3, <1>4

\* A piece is some whole blocks
LEMMA LengthsAre ==
  /\ BlockLen \in Nat \ {0} /\ PieceLen \in Nat \ {0}
  /\ \E n \in Nat \ {0} : PieceLen = n * BlockLen
<1>1. PICK n \in 1 .. PieceLen : PieceLen = n * BlockLen
  BY LengthsAssumption
<1>2. BlockLen \in Nat \ {0}
  BY LengthsAssumption
<1>3. n \in Nat \ {0}
  OBVIOUS
<1>4. n * BlockLen \in Nat
  BY <1>2, <1>3
<1>5. n * BlockLen # 0
  <2>1. 0 * BlockLen + BlockLen <= n * BlockLen
    BY <1>2, <1>3, Times
  <2>2. 0 * BlockLen = 0
    BY <1>2
  <2> QED BY <1>2, <1>4, <2>1, <2>2
<1> QED BY <1>1, <1>2, <1>3, <1>4, <1>5

\* the places of piece p, counted from 1
LEMMA PlacesOfPiece ==
  ASSUME NEW p \in Nat, NEW k \in Nat \ {0}
  PROVE  /\ p * PieceLen \in Nat
         /\ (k - 1) \div PieceLen \in Nat
         /\ (k - 1) \div PieceLen = p <=> k - p * PieceLen \in 1 .. PieceLen
<1>1. PieceLen \in Nat \ {0}
  BY LengthsAre
<1>2. k - 1 \in Nat
  OBVIOUS
<1>3. p * PieceLen \in Nat
  BY <1>1
<1>4. PICK x \in Nat : x = p * PieceLen
  BY <1>3
<1>5. ASSUME (k - 1) \div PieceLen = p PROVE k - x \in 1 .. PieceLen
  <2>1. PICK e \in 0 .. PieceLen - 1 : k - 1 = x + e
    BY <1>1, <1>2, <1>4, <1>5, Division
  <2> QED BY <1>1, <2>1
<1>6. ASSUME k - x \in 1 .. PieceLen PROVE (k - 1) \div PieceLen = p
  <2>1. PICK e \in 0 .. PieceLen - 1 : k - 1 = x + e
    <3>1. (k - x) - 1 \in 0 .. PieceLen - 1 /\ k - 1 = x + ((k - x) - 1)
      BY <1>1, <1>6
    <3> QED BY <3>1
  <2>2. k - 1 = p * PieceLen + e
    BY <1>4, <2>1
  <2> QED BY <1>1, <1>2, <2>2, Quotient
<1>7. (k - 1) \div PieceLen \in Nat
  BY <1>1, <1>2, Division
<1> QED BY <1>3, <1>4, <1>5, <1>6, <1>7

\* how many pieces there are: none begins at the end or behind it, and the
\* last one ends there
LEMMA PiecesFill ==
  ASSUME NEW t \in Nat, NEW N, N = (t + PieceLen - 1) \div PieceLen, NEW l,
         l = IF t % PieceLen = 0 THEN PieceLen ELSE t % PieceLen
  PROVE  /\ N \in Nat /\ N * PieceLen \in Nat /\ t <= N * PieceLen
         /\ \A p \in 0 .. N - 1 : p * PieceLen \in Nat /\ p * PieceLen < t
         /\ \A p \in 0 .. N - 2 : p * PieceLen + PieceLen <= t
         /\ N > 0 => (N - 1) * PieceLen + l = t /\ l \in 1 .. PieceLen
<1>1. PieceLen \in Nat \ {0}
  BY LengthsAre
<1>2. t + PieceLen - 1 \in Nat
  BY <1>1
<1>3. N \in Nat
  BY <1>1, <1>2, Division
<1>4. PICK x \in Nat, e \in 0 .. PieceLen - 1 : x = N * PieceLen /\ t + PieceLen - 1 = x + e
  BY <1>1, <1>2, Division
<1>5. t <= x
  BY <1>1, <1>4
<1>6. \A p \in Nat : p < N => p * PieceLen \in Nat /\ p * PieceLen + PieceLen <= x
  BY <1>1, <1>3, <1>4, Times
<1>7. ASSUME NEW p \in 0 .. N - 1 PROVE p * PieceLen \in Nat /\ p * PieceLen < t
  <2>1. p \in Nat /\ p < N
    BY <1>3
  <2>2. PICK y \in Nat : y = p * PieceLen /\ y + PieceLen <= x
    BY <1>6, <2>1
  <2>3. y < t
    BY <1>1, <1>4, <2>2
  <2> QED BY <2>2, <2>3
<1>8. ASSUME NEW p \in 0 .. N - 2 PROVE p * PieceLen + PieceLen <= t
  <2>1. p \in Nat /\ p + 1 \in 0 .. N - 1
    BY <1>3
  <2>2. (p + 1) * PieceLen = p * PieceLen + PieceLen /\ p * PieceLen \in Nat
    <3>1. p + 1 \in Nat /\ p < p + 1
      BY <2>1
    <3> QED BY <1>1, <2>1, <3>1, Times
  <2>3. (p + 1) * PieceLen < t /\ (p + 1) * PieceLen \in Nat
    BY <1>7, <2>1
  <2> QED BY <1>1, <2>2, <2>3
<1>9. ASSUME N > 0 PROVE (N - 1) * PieceLen + l = t /\ l \in 1 .. PieceLen
  <2>1. PICK q \in Nat, r \in 0 .. PieceLen - 1 :
          q = t \div PieceLen /\ r = t % PieceLen /\ t = q * PieceLen + r
    BY <1>1, Division
  <2>2. PICK y \in Nat : y = q * PieceLen
    BY <1>1
  <2>3. CASE r = 0
    <3>1. t + PieceLen - 1 = q * PieceLen + (PieceLen - 1) /\ PieceLen - 1 \in 0 .. PieceLen - 1
      BY <1>1, <2>1, <2>2, <2>3
    <3>2. N = q
      BY <1>1, <1>2, <3>1, Quotient
    <3>3. N - 1 \in Nat /\ N - 1 < N /\ (N - 1) + 1 = N
      BY <1>3, <1>9
    <3>4. N * PieceLen = (N - 1) * PieceLen + PieceLen /\ (N - 1) * PieceLen \in Nat
      BY <1>1, <1>3, <3>3, Times
    <3> QED BY <1>1, <2>1, <2>2, <2>3, <3>2, <3>4
  <2>4. CASE r # 0
    <3>1. q + 1 \in Nat /\ r - 1 \in 0 .. PieceLen - 1
      BY <1>1, <2>4
    <3>2. (q + 1) * PieceLen = q * PieceLen + PieceLen
      <4>1. q < q + 1
        OBVIOUS
      <4> QED BY <1>1, <3>1, <4>1, Times
    <3>3. t + PieceLen - 1 = (q + 1) * PieceLen + (r - 1)
      BY <1>1, <2>1, <2>2, <3>2
    <3>4. N = q + 1
      BY <1>1, <1>2, <3>1, <3>3, Quotient
    <3>5. N - 1 = q /\ (N - 1) * PieceLen = y
      BY <3>4, <2>2
    <3>6. l = r
      BY <2>1, <2>4
    <3>7. r \in 1 .. PieceLen /\ y + r = t
      BY <1>1, <1>2, <2>1, <2>2, <2>4
    <3> QED BY <3>5, <3>6, <3>7
  <2> QED BY <2>3, <2>4
<1> QED BY <1>3, <1>4, <1>5, <1>7, <1>8, <1>9

\* A piece of the row: where it begins, how long it is
LEMMA PieceInRow ==
  ASSUME NEW lens, Layout(lens), NEW p \in PiecesOf(lens)
  PROVE  /\ p \in Nat /\ p * PieceLen \in Nat /\ TotalSize(lens) \in Nat
         /\ pieceLength(lens, p) \in 1 .. PieceLen
         /\ pieceLength(lens, p) = Least(PieceLen, TotalSize(lens) - p * PieceLen)
         /\ p * PieceLen + pieceLength(lens, p) <= TotalSize(lens)
         /\ p = NumPieces(lens) - 1 => pieceLength(lens, p) = LastLength(lens)
         /\ p # NumPieces(lens) - 1 => pieceLength(lens, p) = PieceLen
<1> DEFINE t == TotalSize(lens)
           N == NumPieces(lens)
           l == LastLength(lens)
<1>1. t \in Nat
  <2>1. lens \in Seq(Nat) /\ 1 \in 1 .. Len(lens)
    BY DEF Layout
  <2> QED BY <2>1, TotalNext
<1>2. PieceLen \in Nat \ {0}
  BY LengthsAre
<1>3. /\ N = (t + PieceLen - 1) \div PieceLen
      /\ l = IF t % PieceLen = 0 THEN PieceLen ELSE t % PieceLen
  BY DEF NumPieces, LastLength
<1>4. p \in 0 .. N - 1
  BY DEF PiecesOf
<1>5. pieceLength(lens, p) = IF p < N - 1 THEN PieceLen ELSE l
  BY DEF pieceLength
<1> HIDE DEF t, N, l
<1>6. /\ N \in Nat
      /\ \A q \in 0 .. N - 1 : q * PieceLen \in Nat /\ q * PieceLen < t
      /\ \A q \in 0 .. N - 2 : q * PieceLen + PieceLen <= t
      /\ N > 0 => (N - 1) * PieceLen + l = t /\ l \in 1 .. PieceLen
  BY <1>1, <1>3, PiecesFill
<1>7. PICK x \in Nat : x = p * PieceLen /\ x < t /\ p \in Nat
  BY <1>4, <1>6
<1>8. CASE p < N - 1
  <2>1. p \in 0 .. N - 2
    BY <1>4, <1>6, <1>8
  <2>2. x + PieceLen <= t
    BY <1>6, <1>7, <2>1
  <2>3. pieceLength(lens, p) = PieceLen
    BY <1>5, <1>8
  <2>4. Least(PieceLen, t - x) = PieceLen
    BY <1>1, <1>2, <2>2 DEF Least
  <2>5. p # N - 1
    BY <1>6, <1>7, <1>8
  <2> QED BY <1>1, <1>2, <1>7, <2>2, <2>3, <2>4, <2>5 DEF t, N, l
<1>9. CASE ~(p < N - 1)
  <2>1. p = N - 1 /\ N > 0
    BY <1>4, <1>6, <1>9
  <2>2. x + l = t /\ l \in 1 .. PieceLen
    BY <1>6, <1>7, <2>1
  <2>3. Least(PieceLen, t - x) = l
    BY <1>1, <1>2, <2>2 DEF Least
  <2>4. pieceLength(lens, p) = l
    BY <1>5, <1>9
  <2> QED BY <1>1, <1>2, <1>7, <2>1, <2>2, <2>3, <2>4 DEF t, N, l
<1> QED BY <1>8, <1>9

\* Every place is in a piece
LEMMA PlaceInPiece ==
  ASSUME NEW lens, Layout(lens), NEW k \in 1 .. TotalSize(lens)
  PROVE  (k - 1) \div PieceLen \in PiecesOf(lens)
<1> DEFINE t == TotalSize(lens)
           N == NumPieces(lens)
<1>1. t \in Nat
  <2>1. lens \in Seq(Nat) /\ 1 \in 1 .. Len(lens)
    BY DEF Layout
  <2> QED BY <2>1, TotalNext
<1>2. PieceLen \in Nat \ {0}
  BY LengthsAre
<1>3. /\ N = (t + PieceLen - 1) \div PieceLen
  BY DEF NumPieces
<1> HIDE DEF t, N
<1>4. N \in Nat /\ N * PieceLen \in Nat /\ t <= N * PieceLen
  BY <1>1, <1>3, PiecesFill
<1>5. k \in Nat \ {0} /\ k <= t
  BY <1>1 DEF t
<1>6. PICK p \in Nat : p = (k - 1) \div PieceLen
  BY <1>5, PlacesOfPiece
<1>7. p * PieceLen \in Nat /\ k - p * PieceLen \in 1 .. PieceLen
  BY <1>5, <1>6, PlacesOfPiece
<1>8. p < N
  <2>1. SUFFICES ASSUME N <= p PROVE FALSE
    BY <1>4
  <2>2. N * PieceLen <= p * PieceLen
    <3>1. CASE N = p
      BY <3>1, <1>4, <1>7
    <3>2. CASE N < p
      BY <3>2, <1>2, <1>4, Times
    <3> QED BY <2>1, <3>1, <3>2, <1>4
  <2>3. PICK x \in Nat, y \in Nat : x = N * PieceLen /\ y = p * PieceLen
    BY <1>4, <1>7
  <2>4. t <= x /\ x <= y /\ k - y \in 1 .. PieceLen
    BY <1>4, <1>7, <2>2, <2>3
  <2> QED BY <1>1, <1>2, <1>5, <2>4
<1> QED BY <1>4, <1>6, <1>8 DEF PiecesOf, N

\* A block of a piece: where it lies, and that the one before it ends there
LEMMA BlockInPiece ==
  ASSUME NEW lens, Layout(lens), NEW p \in PiecesOf(lens), NEW b \in Nat
  PROVE  /\ NumBlocks(lens, p) \in Nat \ {0}
         /\ b < NumBlocks(lens, p) =>
              /\ BlockAt(p, b) \in Nat /\ BlockLength(lens, p, b) \in 1 .. BlockLen
              /\ BlockAt(p, b) + BlockLength(lens, p, b) = Least(BlockAt(p, b) + BlockLen, TotalSize(lens))
              /\ p * PieceLen <= BlockAt(p, b)
              /\ BlockAt(p, b) + BlockLength(lens, p, b) <= p * PieceLen + PieceLen
<1> DEFINE t == TotalSize(lens)
           N == NumPieces(lens)
           l == LastLength(lens)
           pl == pieceLength(lens, p)
           n == NumBlocks(lens, p)
<1>1. /\ p \in Nat /\ p * PieceLen \in Nat /\ t \in Nat
      /\ pl \in 1 .. PieceLen /\ pl = Least(PieceLen, t - p * PieceLen)
      /\ p * PieceLen + pl <= t
      /\ p = N - 1 => pl = l
      /\ p # N - 1 => pl = PieceLen
  BY PieceInRow
<1>2. PieceLen \in Nat \ {0} /\ BlockLen \in Nat \ {0}
  BY LengthsAre
<1>3. PICK m \in Nat \ {0} : PieceLen = m * BlockLen
  BY LengthsAre
<1>4. n = (pl + BlockLen - 1) \div BlockLen
  BY DEF NumBlocks
<1>5. BlockAt(p, b) = p * PieceLen + b * BlockLen
  BY DEF BlockAt
<1>6. BlockLength(lens, p, b) = IF p = N - 1 THEN Least(BlockLen, l - b * BlockLen) ELSE BlockLen
  BY DEF BlockLength
<1> HIDE DEF t, N, l, pl, n
<1>7. pl + BlockLen - 1 \in Nat /\ pl \in Nat
  BY <1>1, <1>2
<1>8. PICK x \in Nat, e \in 0 .. BlockLen - 1 : n \in Nat /\ x = n * BlockLen /\ pl + BlockLen - 1 = x + e
  BY <1>2, <1>4, <1>7, Division
<1>9. n # 0
  <2>1. 0 * BlockLen = 0
    BY <1>2
  <2> QED BY <1>1, <1>2, <1>8, <2>1
<1>10. ASSUME b < n
       PROVE  /\ BlockAt(p, b) \in Nat /\ BlockLength(lens, p, b) \in 1 .. BlockLen
              /\ BlockAt(p, b) + BlockLength(lens, p, b) = Least(BlockAt(p, b) + BlockLen, t)
              /\ p * PieceLen <= BlockAt(p, b)
              /\ BlockAt(p, b) + BlockLength(lens, p, b) <= p * PieceLen + PieceLen
  <2>1. PICK o \in Nat : o = b * BlockLen /\ o + BlockLen <= x
    BY <1>2, <1>8, <1>10, Times
  <2>2. o < pl
    BY <1>2, <1>7, <1>8, <2>1
  <2>3. PICK y \in Nat : y = p * PieceLen
    BY <1>1
  <2>4. BlockAt(p, b) = y + o
    BY <1>5, <2>1, <2>3
  <2>5. o + BlockLen <= PieceLen
    <3>1. b < m
      <4>1. SUFFICES ASSUME m <= b PROVE FALSE
        BY <1>3
      <4>2. m * BlockLen <= b * BlockLen
        <5>1. CASE m = b
          BY <5>1, <2>1
        <5>2. CASE m < b
          <6>1. PICK z \in Nat : z = m * BlockLen /\ z + BlockLen <= b * BlockLen
            BY <5>2, <1>2, <1>3, Times
          <6> QED BY <6>1, <1>2, <2>1
        <5> QED BY <4>1, <5>1, <5>2, <1>3
      <4>3. PieceLen <= o
        BY <4>2, <1>3, <2>1
      <4> QED BY <4>3, <1>1, <1>2, <1>7, <2>2
    <3> QED BY <3>1, <1>2, <1>3, <2>1, Times
  <2>6. CASE p = N - 1
    <3>1. BlockLength(lens, p, b) = Least(BlockLen, pl - o)
      BY <2>6, <1>1, <1>6, <2>1
    <3>2. pl = Least(PieceLen, t - y)
      BY <1>1, <2>3
    <3>3. y + pl <= t
      BY <1>1, <2>3
    <3>4. CASE o + BlockLen <= pl
      <4>1. Least(BlockLen, pl - o) = BlockLen
        BY <3>4, <1>2, <1>7 DEF Least
      <4>2. Least((y + o) + BlockLen, t) = (y + o) + BlockLen
        BY <3>3, <3>4, <1>1, <1>2, <1>7 DEF Least
      <4> QED BY <3>1, <4>1, <4>2, <1>2, <2>3, <2>4, <2>5
    <3>5. CASE ~(o + BlockLen <= pl)
      <4>1. Least(BlockLen, pl - o) = pl - o
        BY <3>5, <1>2, <1>7 DEF Least
      <4>2. pl < PieceLen
        BY <3>5, <2>5, <1>1, <1>2, <1>7
      <4>3. y + pl = t
        BY <3>2, <4>2, <1>1, <1>2 DEF Least
      <4>4. Least((y + o) + BlockLen, t) = t
        BY <3>5, <4>3, <1>1, <1>2, <1>7 DEF Least
      <4>5. (y + o) + (pl - o) = t /\ pl - o \in 1 .. BlockLen /\ t <= y + PieceLen
        BY <3>5, <4>2, <4>3, <1>2, <1>7, <2>2
      <4> QED BY <3>1, <4>1, <4>4, <4>5, <2>3, <2>4
    <3> QED BY <3>4, <3>5
  <2>7. CASE p # N - 1
    <3>1. pl = PieceLen /\ BlockLength(lens, p, b) = BlockLen
      BY <2>7, <1>1, <1>6
    <3>2. y + PieceLen <= t
      BY <3>1, <1>1, <2>3
    <3>3. Least((y + o) + BlockLen, t) = (y + o) + BlockLen
      BY <3>2, <2>5, <1>1, <1>2 DEF Least
    <3> QED BY <3>1, <3>3, <1>2, <2>3, <2>4, <2>5
  <2> QED BY <2>6, <2>7
<1> QED BY <1>8, <1>9, <1>10 DEF n, t

\* A file has its length when it is resized
LEMMA ResizedFile ==
  ASSUME NEW file \in Seq(Int), NEW n \in Nat
  PROVE  Resized(file, n) \in Seq(Int) /\ Len(Resized(file, n)) = n
<1>1. Len(file) \in Nat
  OBVIOUS
<1>2. CASE file = Absent
  BY <1>2, ZerosAre DEF Resized
<1>3. CASE file # Absent /\ Len(file) > n
  <2>1. Resized(file, n) = SubSeq(file, 1, n)
    BY <1>3 DEF Resized
  <2>2. SubSeq(file, 1, n) \in Seq(Int) /\ Len(SubSeq(file, 1, n)) = n
    <3>1. \A x \in 1 .. n : file[x] \in Int
      BY <1>1, <1>3
    <3>2. /\ SubSeq(file, 1, n) \in Seq(Int)
          /\ Len(SubSeq(file, 1, n)) = IF 1 <= n THEN n - 1 + 1 ELSE 0
      BY <3>1, SubSeqProperties
    <3>3. (IF 1 <= n THEN n - 1 + 1 ELSE 0) = n
      OBVIOUS
    <3> QED BY <3>2, <3>3
  <2> QED BY <2>1, <2>2
<1>4. CASE file # Absent /\ ~(Len(file) > n)
  <2>1. n - Len(file) \in Nat
    BY <1>1, <1>4
  <2>2. PICK z \in Seq(Int) : z = Zeros(n - Len(file)) /\ Len(z) = n - Len(file)
    BY <2>1, ZerosAre
  <2>3. Resized(file, n) = file \o z
    BY <1>4, <2>2 DEF Resized
  <2>4. file \o z \in Seq(Int) /\ Len(file \o z) = Len(file) + Len(z)
    OBVIOUS
  <2>5. Len(file) + (n - Len(file)) = n
    BY <1>1
  <2> QED BY <2>2, <2>3, <2>4, <2>5
<1> QED BY <1>2, <1>3, <1>4

\* the files of the source: each byte is its place
LEMMA SourceRow ==
  ASSUME NEW lens, Layout(lens), NEW files,
         files = [i \in DOMAIN lens |-> [k \in 1 .. lens[i] |-> Offset(lens, i) + k]]
  PROVE  /\ Sized(files, lens)
         /\ \A k \in 1 .. TotalSize(lens) : ByteAt(files, lens, k) = k
<1>1. lens \in Seq(Nat) /\ DOMAIN lens = 1 .. Len(lens)
  BY DEF Layout
<1>2. ASSUME NEW i \in 1 .. Len(lens)
      PROVE  /\ lens[i] \in Nat /\ Offset(lens, i) \in Nat
             /\ files[i] \in Seq(Int) /\ Len(files[i]) = lens[i]
             /\ \A x \in 1 .. lens[i] : files[i][x] = Offset(lens, i) + x
  <2>1. PICK o \in Nat, l \in Nat : o = Offset(lens, i) /\ l = lens[i]
    BY <1>1, OffsetNext
  <2>2. files[i] = [k \in 1 .. l |-> o + k]
    BY <1>1, <2>1
  <2>3. [k \in 1 .. l |-> o + k] \in Seq(Int) /\ Len([k \in 1 .. l |-> o + k]) = l
    OBVIOUS
  <2> QED BY <2>1, <2>2, <2>3
<1>3. Sized(files, lens)
  <2>1. files = [i \in 1 .. Len(lens) |-> files[i]]
    BY <1>1
  <2> QED BY <1>2, <2>1 DEF Sized
<1>4. ASSUME NEW k \in 1 .. TotalSize(lens) PROVE ByteAt(files, lens, k) = k
  <2>1. PICK i \in 1 .. Len(lens) : k - Offset(lens, i) \in 1 .. lens[i]
    BY <1>1, PlaceHasFile
  <2>2. PICK o \in Nat, l \in Nat : o = Offset(lens, i) /\ l = lens[i]
    BY <1>2
  <2>3. k \in Int
    OBVIOUS
  <2>4. PICK x \in 1 .. l : k = o + x
    <3>1. k - o \in 1 .. l /\ k = o + (k - o)
      BY <2>1, <2>2, <2>3
    <3> QED BY <3>1
  <2>5. ByteAt(files, lens, k) = files[i][x]
    <3>1. x \in 1 .. lens[i] /\ k = Offset(lens, i) + x
      BY <2>2, <2>4
    <3> QED BY <1>1, <1>3, <3>1, ByteOfFile
  <2> QED BY <1>2, <2>2, <2>4, <2>5
<1> QED BY <1>3, <1>4

\* Files of the same bytes are the same files
THEOREM SameRow ==
  ASSUME NEW lens, Layout(lens), NEW disk, Sized(disk, lens), NEW other, Sized(other, lens),
         \A k \in 1 .. TotalSize(lens) : ByteAt(disk, lens, k) = ByteAt(other, lens, k)
  PROVE  disk = other
<1>1. lens \in Seq(Nat) /\ Len(lens) \in Nat
  BY DEF Layout
<1>2. ASSUME NEW i \in 1 .. Len(lens) PROVE disk[i] = other[i]
  <2>1. PICK o \in Nat, l \in Nat :
          o = Offset(lens, i) /\ l = lens[i] /\ o + l <= TotalSize(lens) /\ TotalSize(lens) \in Nat
    <3>1. /\ Offset(lens, i) \in Nat /\ lens[i] \in Nat
          /\ Offset(lens, i + 1) = Offset(lens, i) + lens[i]
      BY <1>1, OffsetNext
    <3>2. Offset(lens, i + 1) <= TotalSize(lens) /\ TotalSize(lens) \in Nat
      BY <1>1, TotalNext
    <3> QED BY <3>1, <3>2
  <2>2. ASSUME NEW x \in 1 .. l PROVE disk[i][x] = other[i][x]
    <3>1. o + x \in 1 .. TotalSize(lens)
      BY <2>1
    <3>2. ByteAt(disk, lens, o + x) = disk[i][x] /\ ByteAt(other, lens, o + x) = other[i][x]
      <4>1. x \in 1 .. lens[i] /\ o + x = Offset(lens, i) + x
        BY <2>1
      <4> QED BY <1>1, <4>1, ByteOfFile
    <3> QED BY <3>1, <3>2
  <2>3. PICK f \in Seq(Int), g \in Seq(Int) : f = disk[i] /\ g = other[i]
    BY DEF Sized
  <2>4. Len(f) = l /\ Len(g) = l
    BY <2>1, <2>3 DEF Sized
  <2>5. f = [x \in 1 .. l |-> f[x]] /\ g = [x \in 1 .. l |-> g[x]]
    BY <2>4
  <2> QED BY <2>2, <2>3, <2>5
<1>3. disk = [i \in 1 .. Len(lens) |-> disk[i]] /\ other = [i \in 1 .. Len(lens) |-> other[i]]
  BY DEF Sized
<1> QED BY <1>2, <1>3

\* What is read as a piece
LEMMA SumOfPiece ==
  ASSUME NEW lens, Layout(lens), NEW disk, Sized(disk, lens), NEW p \in PiecesOf(lens)
  PROVE  /\ Sum(disk, lens, p) \in Seq(Int)
         /\ \A k \in 1 .. TotalSize(lens) : (k - 1) \div PieceLen = p
              => Sum(disk, lens, p)[k - p * PieceLen] = ByteAt(disk, lens, k)
<1>1. PICK t \in Nat, o \in Nat, l \in Nat :
        /\ t = TotalSize(lens) /\ o = p * PieceLen /\ l = pieceLength(lens, p) /\ p \in Nat
        /\ l = Least(PieceLen, t - o) /\ o + l <= t
  BY PieceInRow
<1>2. Sum(disk, lens, p) = Read(disk, lens, o, l)
  BY <1>1 DEF Sum
<1>3. /\ Read(disk, lens, o, l) \in Seq(Int)
      /\ \A k \in 1 .. l : Read(disk, lens, o, l)[k] =
            IF o + k <= TotalSize(lens) THEN ByteAt(disk, lens, o + k) ELSE 0
  <2>1. IsRead(Read(disk, lens, o, l), disk, lens, o, l)
    BY ReadsTheRow
  <2> QED BY <2>1 DEF IsRead
<1>4. ASSUME NEW k \in 1 .. TotalSize(lens), (k - 1) \div PieceLen = p
      PROVE  Sum(disk, lens, p)[k - p * PieceLen] = ByteAt(disk, lens, k)
  <2>1. k \in Nat \ {0} /\ k <= t
    BY <1>1
  <2>2. k - o \in 1 .. PieceLen
    BY <1>1, <1>4, <2>1, PlacesOfPiece
  <2>3. PieceLen \in Nat
    BY LengthsAre
  <2>4. k - o \in 1 .. l /\ o + (k - o) = k
    BY <1>1, <2>1, <2>2, <2>3 DEF Least
  <2> QED BY <1>1, <1>2, <1>3, <2>1, <2>4
<1> QED BY <1>2, <1>3, <1>4

\* A piece found good has the bytes it should
LEMMA SumEqual ==
  ASSUME NEW lens, Layout(lens), NEW disk, Sized(disk, lens), NEW other, Sized(other, lens),
         NEW p \in PiecesOf(lens), Sum(disk, lens, p) = Sum(other, lens, p),
         NEW k \in 1 .. TotalSize(lens), (k - 1) \div PieceLen = p
  PROVE  ByteAt(disk, lens, k) = ByteAt(other, lens, k)
BY SumOfPiece

\* What is sent as a block: the bytes of the source, or zeros
BlockData(lens, p, b, data) ==
  /\ data \in Seq(Int) /\ Len(data) = BlockLength(lens, p, b)
  /\ \/ \A x \in 1 .. Len(data) : data[x] = BlockAt(p, b) + x
     \/ \A x \in 1 .. Len(data) : data[x] = 0

\* A block read from the source, and what a damaged one sends
LEMMA BlockOfSource ==
  ASSUME NEW lens, Layout(lens), NEW files, Sized(files, lens),
         \A k \in 1 .. TotalSize(lens) : ByteAt(files, lens, k) = k,
         NEW p \in PiecesOf(lens), NEW b \in 0 .. NumBlocks(lens, p) - 1, NEW n,
         n = BlockLength(lens, p, b)
  PROVE  /\ BlockData(lens, p, b, Read(files, lens, BlockAt(p, b), n))
         /\ BlockData(lens, p, b, Zeros(n))
<1>1. NumBlocks(lens, p) \in Nat /\ b \in Nat /\ b < NumBlocks(lens, p)
  <2>1. NumBlocks(lens, p) \in Nat
    BY BlockInPiece, 0 \in Nat
  <2> QED BY <2>1
<1>2. PICK o \in Nat, l \in Nat, t \in Nat :
        /\ o = BlockAt(p, b) /\ l = n /\ t = TotalSize(lens)
        /\ o + l <= t
  <2>1. /\ BlockAt(p, b) \in Nat /\ n \in 1 .. BlockLen /\ BlockLen \in Nat
        /\ BlockAt(p, b) + n = Least(BlockAt(p, b) + BlockLen, TotalSize(lens))
    BY <1>1, BlockInPiece, LengthsAre
  <2>2. TotalSize(lens) \in Nat
    BY PieceInRow
  <2>3. BlockAt(p, b) + n <= TotalSize(lens)
    BY <2>1, <2>2 DEF Least
  <2> QED BY <2>1, <2>2, <2>3
<1>3. /\ Read(files, lens, o, l) \in Seq(Int) /\ Len(Read(files, lens, o, l)) = l
      /\ \A x \in 1 .. l : Read(files, lens, o, l)[x] =
            IF o + x <= TotalSize(lens) THEN ByteAt(files, lens, o + x) ELSE 0
  <2>1. IsRead(Read(files, lens, o, l), files, lens, o, l)
    BY ReadsTheRow
  <2> QED BY <2>1 DEF IsRead
<1>4. \A x \in 1 .. l : o + x \in 1 .. t
  BY <1>2
<1>5. \A x \in 1 .. l : Read(files, lens, o, l)[x] = o + x
  BY <1>2, <1>3, <1>4
<1>6. BlockData(lens, p, b, Read(files, lens, o, l))
  BY <1>2, <1>3, <1>5 DEF BlockData
<1>7. Zeros(l) \in Seq(Int) /\ Len(Zeros(l)) = l /\ \A x \in 1 .. l : Zeros(l)[x] = 0
  BY ZerosAre
<1>8. BlockData(lens, p, b, Zeros(l))
  BY <1>2, <1>7 DEF BlockData
<1> QED BY <1>2, <1>6, <1>8

\* The places of a block
BlockPlaces(lens, p, b) == BlockAt(p, b) + 1 .. Least(BlockAt(p, b) + BlockLen, TotalSize(lens))

\* The places of a block are places of its piece
LEMMA BlockPlacesIn ==
  ASSUME NEW lens, Layout(lens), NEW p \in PiecesOf(lens), NEW b \in 0 .. NumBlocks(lens, p) - 1,
         NEW k \in BlockPlaces(lens, p, b)
  PROVE  /\ k \in 1 .. TotalSize(lens) /\ k - BlockAt(p, b) \in 1 .. BlockLength(lens, p, b)
         /\ (k - 1) \div PieceLen = p
<1>1. NumBlocks(lens, p) \in Nat /\ b \in Nat /\ b < NumBlocks(lens, p)
  <2>1. NumBlocks(lens, p) \in Nat
    BY BlockInPiece, 0 \in Nat
  <2> QED BY <2>1
<1>2. PICK o \in Nat, l \in 1 .. BlockLen, t \in Nat, q \in Nat :
        /\ o = BlockAt(p, b) /\ l = BlockLength(lens, p, b) /\ t = TotalSize(lens) /\ q = p * PieceLen
        /\ o + l = Least(o + BlockLen, t) /\ q <= o /\ o + l <= q + PieceLen
        /\ p \in Nat
  <2>1. /\ BlockAt(p, b) \in Nat /\ BlockLength(lens, p, b) \in 1 .. BlockLen
        /\ BlockAt(p, b) + BlockLength(lens, p, b) = Least(BlockAt(p, b) + BlockLen, TotalSize(lens))
        /\ p * PieceLen <= BlockAt(p, b)
        /\ BlockAt(p, b) + BlockLength(lens, p, b) <= p * PieceLen + PieceLen
    BY <1>1, BlockInPiece
  <2>2. TotalSize(lens) \in Nat /\ p * PieceLen \in Nat /\ p \in Nat
    BY PieceInRow
  <2> QED BY <2>1, <2>2
<1>3. BlockLen \in Nat /\ PieceLen \in Nat
  BY LengthsAre
<1>4. k \in o + 1 .. o + l
  BY <1>2 DEF BlockPlaces
<1>5. o + l <= t
  BY <1>2, <1>3 DEF Least
<1>6. k \in Nat \ {0} /\ k \in 1 .. t /\ k - o \in 1 .. l /\ k - q \in 1 .. PieceLen
  BY <1>2, <1>3, <1>4, <1>5
<1>7. (k - 1) \div PieceLen = p
  BY <1>2, <1>6, PlacesOfPiece
<1> QED BY <1>2, <1>6, <1>7

\* other after is written with bytes for block b: the pieces besides p and the blocks before b stay
BlockWritten(lens, p, b, data, disk, other) ==
  /\ Sized(other, lens)
  /\ \A k \in 1 .. TotalSize(lens) :
       (k - 1) \div PieceLen # p => ByteAt(other, lens, k) = ByteAt(disk, lens, k)
  /\ \A a \in 0 .. b - 1 : \A k \in BlockPlaces(lens, p, a) :
       ByteAt(other, lens, k) = ByteAt(disk, lens, k)
  /\ Len(data) = BlockLength(lens, p, b) =>
       \A k \in BlockPlaces(lens, p, b) : ByteAt(other, lens, k) = data[k - BlockAt(p, b)]

\* A write for block b, whole or cut short, leaves every other piece and
\* the blocks before b; and a whole one has its bytes there.
LEMMA WritesTheBlock ==
  ASSUME NEW lens, Layout(lens), NEW disk, Sized(disk, lens),
         NEW p \in PiecesOf(lens), NEW b \in 0 .. NumBlocks(lens, p) - 1,
         NEW data \in Seq(Int), Len(data) <= BlockLength(lens, p, b)
  PROVE  BlockWritten(lens, p, b, data, disk, Written(disk, lens, data, BlockAt(p, b)))
<1> DEFINE other == Written(disk, lens, data, BlockAt(p, b))
<1>1. NumBlocks(lens, p) \in Nat /\ b \in Nat /\ b < NumBlocks(lens, p)
  <2>1. NumBlocks(lens, p) \in Nat
    BY BlockInPiece, 0 \in Nat
  <2> QED BY <2>1
<1>2. PICK o \in Nat, l \in 1 .. BlockLen, t \in Nat, q \in Nat :
        /\ o = BlockAt(p, b) /\ l = BlockLength(lens, p, b) /\ t = TotalSize(lens) /\ q = p * PieceLen
        /\ q <= o /\ o + l <= q + PieceLen /\ p \in Nat
  <2>1. /\ BlockAt(p, b) \in Nat /\ BlockLength(lens, p, b) \in 1 .. BlockLen
        /\ p * PieceLen <= BlockAt(p, b)
        /\ BlockAt(p, b) + BlockLength(lens, p, b) <= p * PieceLen + PieceLen
    BY <1>1, BlockInPiece
  <2>2. TotalSize(lens) \in Nat /\ p * PieceLen \in Nat /\ p \in Nat
    BY PieceInRow
  <2> QED BY <2>1, <2>2
<1>3. BlockLen \in Nat /\ PieceLen \in Nat
  BY LengthsAre
<1>4. /\ Sized(other, lens)
      /\ \A k \in 1 .. TotalSize(lens) : ByteAt(other, lens, k) =
           IF k - o \in 1 .. Len(data) THEN data[k - o] ELSE ByteAt(disk, lens, k)
  <2>1. IsWritten(Written(disk, lens, data, o), disk, lens, data, o)
    BY WritesTheRow
  <2> QED BY <1>2, <2>1 DEF IsWritten
<1> HIDE DEF other
<1>5. PICK n \in Nat : n = Len(data) /\ n <= l
  BY <1>2
<1>6. ASSUME NEW k \in 1 .. TotalSize(lens), (k - 1) \div PieceLen # p
      PROVE  ByteAt(other, lens, k) = ByteAt(disk, lens, k)
  <2>1. k \in Nat \ {0}
    BY <1>2
  <2>2. k - q \notin 1 .. PieceLen
    BY <1>2, <1>6, <2>1, PlacesOfPiece
  <2>3. k - o \notin 1 .. n
    BY <1>2, <1>3, <1>5, <2>1, <2>2
  <2> QED BY <1>4, <1>5, <2>3
<1>7. ASSUME NEW a \in 0 .. b - 1, NEW k \in BlockPlaces(lens, p, a)
      PROVE  ByteAt(other, lens, k) = ByteAt(disk, lens, k)
  <2>1. a \in 0 .. NumBlocks(lens, p) - 1 /\ a \in Nat /\ a < b
    BY <1>1
  <2>2. k \in 1 .. TotalSize(lens)
    BY <2>1, BlockPlacesIn
  <2>3. k <= o
    <3>1. PICK x \in Nat, y \in Nat : x = a * BlockLen /\ y = b * BlockLen /\ x + BlockLen <= y
      BY <1>1, <1>3, <2>1, Times
    <3>2. o = q + y /\ BlockAt(p, a) = q + x
      BY <1>2, <3>1 DEF BlockAt
    <3>3. k <= Least((q + x) + BlockLen, t)
      BY <1>2, <3>2 DEF BlockPlaces
    <3>4. k <= (q + x) + BlockLen
      BY <1>2, <1>3, <2>2, <3>3 DEF Least
    <3>5. x + BlockLen <= y /\ o = q + y /\ k \in Nat
      BY <1>2, <2>2, <3>1, <3>2
    <3> QED BY <1>3, <3>4, <3>5
  <2>4. k - o \notin 1 .. n
    BY <1>2, <2>2, <2>3
  <2> QED BY <1>4, <1>5, <2>2, <2>4
<1>8. ASSUME Len(data) = BlockLength(lens, p, b), NEW k \in BlockPlaces(lens, p, b)
      PROVE  ByteAt(other, lens, k) = data[k - BlockAt(p, b)]
  <2>1. k \in 1 .. TotalSize(lens) /\ k - o \in 1 .. l
    BY <1>2, BlockPlacesIn
  <2> QED BY <1>2, <1>4, <1>8, <2>1
<1> QED BY <1>4, <1>6, <1>7, <1>8 DEF BlockWritten, other
==============================================================================
