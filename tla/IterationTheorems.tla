-------------------------- MODULE IterationTheorems --------------------------
(***************************************************************************)
(* Induction and recursion on the naturals, stated without operator        *)
(* parameters so that a proof can cite them: the modules of this project   *)
(* write a loop over a list as a recursive function of the loop index.     *)
(***************************************************************************)
EXTENDS Integers, SequencesExt, FiniteSetTheorems, SequenceTheorems, WellFoundedInduction,
        TLAPS

\* Every set of naturals with an element has a least one.
LEMMA LeastNatural ==
    ASSUME NEW T \in SUBSET Nat, T # {}
    PROVE  \E x \in T : \A y \in T : x <= y
<1> DEFINE R == OpToRel(<, Nat)
<1>1. \E x \in T : \A y \in T : ~ (<<y, x>> \in R)
  <2>1. IsWellFoundedOn(R, Nat)
    BY NatLessThanWellFounded
  <2> HIDE DEF R
  <2> QED
    BY <2>1, WFMin
<1>2. \A x, y \in Nat : y < x => <<y, x>> \in R
  BY DEF OpToRel
<1> HIDE DEF R
<1>3. PICK x \in T : \A y \in T : ~ (<<y, x>> \in R)
  BY <1>1
<1>4. \A y \in T : ~ (y < x)
  BY <1>2, <1>3
<1> QED
  BY <1>3, <1>4

\* A set of naturals with 0 and the successors of its elements is Nat.
LEMMA NatSetInduction ==
    ASSUME NEW S \in SUBSET Nat, 0 \in S, \A n \in S : n + 1 \in S
    PROVE  \A n \in Nat : n \in S
<1> SUFFICES ASSUME Nat \ S # {} PROVE FALSE
  OBVIOUS
<1>1. PICK x \in Nat \ S : \A y \in Nat \ S : x <= y
  BY LeastNatural
<1>2. x - 1 \in Nat /\ x - 1 \in S
  BY <1>1
<1> QED
  BY <1>1, <1>2

\* The runs of a loop of n turns over S from x0, where turn k takes x to F[<<x, k>>].
Iterations(S, x0, n, F) ==
    {f \in [0..n -> S] : /\ f[0] = x0
                         /\ \A k \in 1..n : f[k] = F[<<f[k - 1], k>>]}

\* Applying a step function n times, once for each of 1..n, is a function.
LEMMA IterationExists ==
    ASSUME NEW S, NEW x0 \in S, NEW n \in Nat, NEW F \in [S \X (1..n) -> S]
    PROVE  Iterations(S, x0, n, F) # {}
<1> DEFINE Upto(m) == {f \in [0..m -> S] :
                          /\ f[0] = x0
                          /\ \A k \in 1..m : f[k] = F[<<f[k - 1], k>>]}
           A == {m \in Nat : m <= n => Upto(m) # {}}
<1>1. 0 \in A
  <2>1. [k \in 0..0 |-> x0] \in Upto(0)
    OBVIOUS
  <2> QED
    BY <2>1
<1>2. ASSUME NEW m \in A PROVE m + 1 \in A
  <2> SUFFICES ASSUME m + 1 <= n PROVE Upto(m + 1) # {}
    OBVIOUS
  <2>1. PICK f \in Upto(m) : TRUE
    OBVIOUS
  <2>2. f \in [0..m -> S] /\ f[0] = x0 /\ \A k \in 1..m : f[k] = F[<<f[k - 1], k>>]
    OBVIOUS
  <2> DEFINE g == [k \in 0..(m + 1) |-> IF k = m + 1 THEN F[<<f[m], m + 1>>] ELSE f[k]]
  <2> HIDE DEF A
  <2>3. m \in Nat /\ m + 1 \in 1..n /\ f[m] \in S
    BY <2>2 DEF A
  <2>4. F[<<f[m], m + 1>>] \in S
    BY <2>3
  <2>5. g \in [0..(m + 1) -> S] /\ g[m + 1] = F[<<f[m], m + 1>>]
    BY <2>4, <2>2, <2>3
  <2>6. \A k \in 0..m : g[k] = f[k]
    BY <2>3
  <2>7. g[0] = x0
    BY <2>2, <2>3, <2>6
  <2> HIDE DEF g
  <2>8. ASSUME NEW k \in 1..(m + 1) PROVE g[k] = F[<<g[k - 1], k>>]
    <3>1. CASE k = m + 1
      <4>1. k - 1 = m /\ m \in 0..m
        BY <3>1, <2>3
      <4> QED
        BY <4>1, <3>1, <2>5, <2>6
    <3>2. CASE k # m + 1
      <4>1. k \in 1..m /\ k - 1 \in 0..m /\ k \in 0..m /\ k - 1 # m + 1
        BY <3>2, <2>3
      <4>2. g[k] = f[k] /\ g[k - 1] = f[k - 1]
        BY <4>1, <2>6
      <4> QED
        BY <4>1, <4>2, <2>2
    <3> QED
      BY <3>1, <3>2
  <2> QED
    BY <2>5, <2>7, <2>8
<1>3. n \in A
  BY <1>1, <1>2, NatSetInduction
<1> QED
  BY <1>3 DEF Iterations

\* What holds before a loop and is kept by each of its turns holds after it.
LEMMA LoopStays ==
    ASSUME NEW S, NEW n \in Nat, NEW f,
           f[0] \in S,
           \A k \in 1..n : f[k - 1] \in S => f[k] \in S
    PROVE  f[n] \in S
<1> DEFINE A == {j \in Nat : j <= n => f[j] \in S}
<1>1. 0 \in A
  OBVIOUS
<1>2. ASSUME NEW j \in A PROVE j + 1 \in A
  <2> SUFFICES ASSUME j + 1 <= n PROVE f[j + 1] \in S
    OBVIOUS
  <2>1. j + 1 \in 1..n /\ (j + 1) - 1 = j /\ f[j] \in S
    OBVIOUS
  <2> QED
    BY <2>1
<1>3. n \in A
  BY <1>1, <1>2, NatSetInduction
<1> QED
  BY <1>3

\* The same for what depends on the turn: S[k] holds after turn k.
LEMMA LoopAdvances ==
    ASSUME NEW n \in Nat, NEW S, NEW f,
           f[0] \in S[0],
           \A k \in 1..n : f[k - 1] \in S[k - 1] => f[k] \in S[k]
    PROVE  f[n] \in S[n]
<1> DEFINE A == {j \in Nat : j <= n => f[j] \in S[j]}
<1>1. 0 \in A
  OBVIOUS
<1>2. ASSUME NEW j \in A PROVE j + 1 \in A
  <2> SUFFICES ASSUME j + 1 <= n PROVE f[j + 1] \in S[j + 1]
    OBVIOUS
  <2>1. j + 1 \in 1..n /\ (j + 1) - 1 = j /\ f[j] \in S[j]
    OBVIOUS
  <2> QED
    BY <2>1
<1>3. n \in A
  BY <1>1, <1>2, NatSetInduction
<1> QED
  BY <1>3

\* A set of positions that holds with each position those before it is an initial segment.
LEMMA InitialSegment ==
    ASSUME NEW n \in Nat, NEW D \in SUBSET (1..n),
           \A k \in D : \A j \in 1..k : j \in D
    PROVE  Cardinality(D) \in 0..n /\ D = 1..Cardinality(D)
<1> DEFINE T == {k \in 1..(n + 1) : k \notin D}
<1>1. T \in SUBSET Nat /\ n + 1 \in T
  OBVIOUS
<1>2. PICK x \in T : \A y \in T : x <= y
  <2> HIDE DEF T
  <2> QED
    BY <1>1, LeastNatural
<1>3. x \in 1..(n + 1) /\ x \notin D /\ \A y \in 1..(n + 1) : y \notin D => x <= y
  BY <1>2
<1>4. D = 1..(x - 1)
  <2>1. ASSUME NEW k \in D PROVE k \in 1..(x - 1)
    BY <1>3
  <2>2. ASSUME NEW k \in 1..(x - 1) PROVE k \in D
    BY <1>3
  <2> QED
    BY <2>1, <2>2
<1>5. Cardinality(1..(x - 1)) = x - 1
  BY <1>3, FS_Interval
<1> QED
  BY <1>3, <1>4, <1>5

-----------------------------------------------------------------------------
(* FlattenSeq, which the community modules define by recursion on the index. *)

\* The concatenations of the first 0, 1, ... sequences of q.
Joins(T, q) ==
    {f \in [0..Len(q) -> Seq(T)] : /\ f[0] = << >>
                                   /\ \A k \in 1..Len(q) : f[k] = f[k - 1] \o q[k]}

\* The sequences of q can be concatenated one after the other.
LEMMA JoinsExist ==
    ASSUME NEW T, NEW q \in Seq(Seq(T))
    PROVE  Joins(T, q) # {}
<1> DEFINE n == Len(q)
           S == Seq(T)
           F == [x \in S \X (1..n) |-> x[1] \o q[x[2]]]
<1>1. n \in Nat /\ << >> \in S
  BY EmptySeq
<1>2. ASSUME NEW x \in S, NEW k \in 1..n PROVE x \o q[k] \in S
  <2>1. q[k] \in S
    OBVIOUS
  <2> QED
    BY <2>1, ConcatProperties
<1>3. F \in [S \X (1..n) -> S]
  BY <1>2
<1>4. \A x \in S, k \in 1..n : F[<<x, k>>] = x \o q[k]
  OBVIOUS
<1> HIDE DEF F, S
<1>5. Iterations(S, << >>, n, F) # {}
  <2> HIDE DEF n
  <2> QED
    BY <1>1, <1>3, IterationExists
<1>6. PICK f \in [0..n -> S] : f[0] = << >> /\ \A k \in 1..n : f[k] = F[<<f[k - 1], k>>]
  BY <1>5 DEF Iterations
<1>7. ASSUME NEW k \in 1..n PROVE f[k] = f[k - 1] \o q[k]
  <2>1. k - 1 \in 0..n
    BY <1>1
  <2>2. f[k - 1] \in S
    BY <1>6, <2>1
  <2> QED
    BY <1>4, <1>6, <2>2
<1>8. f \in Joins(T, q)
  BY <1>6, <1>7 DEF Joins, S
<1> QED
  BY <1>8

\* FlattenSeq is the last of these concatenations.
LEMMA FlattenIs ==
    ASSUME NEW T, NEW q \in Seq(Seq(T)), NEW f \in Joins(T, q)
    PROVE  FlattenSeq(q) = f[Len(q)]
<1> DEFINE n == Len(q)
           Loop(g) == [i \in 1..n |-> IF i = 1 THEN q[i] ELSE g[i - 1] \o q[i]]
           flat == CHOOSE g : g = Loop(g)
<1>1. /\ n \in Nat /\ f \in [0..n -> Seq(T)] /\ f[0] = << >>
      /\ \A k \in 1..n : f[k] = f[k - 1] \o q[k] /\ q[k] \in Seq(T)
  <2>1. /\ f \in [0..Len(q) -> Seq(T)] /\ f[0] = << >>
        /\ \A k \in 1..Len(q) : f[k] = f[k - 1] \o q[k]
    BY Zenon DEF Joins
  <2>2. n \in Nat /\ \A k \in 1..n : q[k] \in Seq(T)
    OBVIOUS
  <2> QED
    BY <2>1, <2>2
<1>2. CASE n = 0
  <2>1. q = << >>
    BY <1>2, EmptySeq
  <2>2. FlattenSeq(q) = q
    BY <1>2 DEF FlattenSeq
  <2> QED
    BY <1>1, <1>2, <2>1, <2>2
<1>3. CASE n # 0
  <2> DEFINE r == [i \in 1..n |-> f[i]]
  <2>1. f[1] = q[1]
    <3>1. 1 \in 1..n /\ 1 - 1 = 0
      BY <1>1, <1>3
    <3>2. f[1] = << >> \o q[1] /\ q[1] \in Seq(T)
      BY <1>1, <3>1
    <3> QED
      BY <3>2, ConcatEmptySeq
  <2>2. r = Loop(r)
    <3>1. ASSUME NEW i \in 1..n
          PROVE  f[i] = IF i = 1 THEN q[i] ELSE r[i - 1] \o q[i]
      <4>1. CASE i = 1
        BY <2>1, <4>1
      <4>2. CASE i # 1
        <5>1. i - 1 \in 1..n
          BY <1>1, <4>2
        <5> QED
          BY <1>1, <4>2, <5>1
      <4> QED
        BY <4>1, <4>2
    <3> QED
      BY <3>1
  <2>3. flat = Loop(flat)
    <3> HIDE DEF Loop, r
    <3> QED
      BY <2>2
  <2>4. \A i \in 1..n : flat[i] = IF i = 1 THEN q[i] ELSE flat[i - 1] \o q[i]
    <3> HIDE DEF flat
    <3> QED
      BY <2>3
  <2>5. FlattenSeq(q) = flat[n]
    BY <1>3 DEF FlattenSeq
  <2> DEFINE A == {j \in Nat : j + 1 <= n => flat[j + 1] = f[j + 1]}
  <2> HIDE DEF flat
  <2>6. 0 \in A
    <3>1. 1 \in 1..n
      BY <1>1, <1>3
    <3>2. flat[1] = f[1]
      BY <2>1, <2>4, <3>1
    <3> QED
      BY <3>2
  <2>7. ASSUME NEW j \in A PROVE j + 1 \in A
    <3>1. SUFFICES ASSUME (j + 1) + 1 <= n PROVE flat[(j + 1) + 1] = f[(j + 1) + 1]
      OBVIOUS
    <3>2. /\ j \in Nat /\ (j + 1) + 1 \in 1..n /\ (j + 1) + 1 # 1
          /\ ((j + 1) + 1) - 1 = j + 1 /\ flat[j + 1] = f[j + 1]
      BY <1>1, <3>1
    <3> DEFINE m == (j + 1) + 1
    <3>3. flat[m] = flat[m - 1] \o q[m] /\ f[m] = f[m - 1] \o q[m]
      <4>1. m \in 1..n /\ m # 1
        BY <3>2
      <4> HIDE DEF m
      <4> QED
        BY <1>1, <2>4, <4>1
    <3> QED
      BY <3>2, <3>3
  <2>8. n - 1 \in A
    <3>1. n - 1 \in Nat
      BY <1>1, <1>3
    <3> HIDE DEF A
    <3>2. A \in SUBSET Nat
      BY DEF A
    <3> QED
      BY <2>6, <2>7, <3>1, <3>2, NatSetInduction
  <2> QED
    <3>1. (n - 1) + 1 = n
      BY <1>1
    <3>2. flat[(n - 1) + 1] = f[(n - 1) + 1]
      BY <1>1, <2>8
    <3> QED
      BY <2>5, <3>1, <3>2
<1> QED
  BY <1>2, <1>3

\* It is a sequence of the elements.
LEMMA FlattenType ==
    ASSUME NEW T, NEW q \in Seq(Seq(T))
    PROVE  FlattenSeq(q) \in Seq(T)
<1>1. PICK f : f \in Joins(T, q)
  BY JoinsExist
<1>2. f[Len(q)] \in Seq(T)
  BY <1>1 DEF Joins
<1> QED
  BY <1>1, <1>2, FlattenIs

\* Of nothing, nothing.
LEMMA FlattenEmpty == FlattenSeq(<< >>) = << >>
<1>1. Len(<< >>) = 0
  OBVIOUS
<1> QED
  BY <1>1 DEF FlattenSeq

\* A sequence appended is concatenated at the end.
LEMMA FlattenAppend ==
    ASSUME NEW T, NEW q \in Seq(Seq(T)), NEW s \in Seq(T)
    PROVE  FlattenSeq(Append(q, s)) = FlattenSeq(q) \o s
<1> DEFINE n == Len(q)
           new == Append(q, s)
<1>1. PICK f : f \in Joins(T, q)
  BY JoinsExist
<1>2. /\ n \in Nat /\ f \in [0..n -> Seq(T)] /\ f[0] = << >>
      /\ \A k \in 1..n : f[k] = f[k - 1] \o q[k]
  <2>1. /\ f \in [0..Len(q) -> Seq(T)] /\ f[0] = << >>
        /\ \A k \in 1..Len(q) : f[k] = f[k - 1] \o q[k]
    BY <1>1, Zenon DEF Joins
  <2>2. n \in Nat
    OBVIOUS
  <2> QED
    BY <2>1, <2>2
<1>3. /\ new \in Seq(Seq(T)) /\ Len(new) = n + 1 /\ new[n + 1] = s
      /\ \A k \in 1..n : new[k] = q[k]
  BY AppendProperties
<1> DEFINE g == [k \in 0..(n + 1) |-> IF k = n + 1 THEN f[n] \o s ELSE f[k]]
<1> HIDE DEF n, new
<1>4. f[n] \in Seq(T) /\ f[n] \o s \in Seq(T)
  <2>1. f[n] \in Seq(T)
    BY <1>2
  <2> QED
    BY <2>1, ConcatProperties
<1>5. /\ g \in [0..(n + 1) -> Seq(T)] /\ g[n + 1] = f[n] \o s
      /\ \A k \in 0..n : g[k] = f[k]
  BY <1>2, <1>4
<1> HIDE DEF g
<1>6. ASSUME NEW k \in 1..(n + 1) PROVE g[k] = g[k - 1] \o new[k]
  <2>1. CASE k = n + 1
    <3>1. k - 1 = n /\ n \in 0..n
      BY <1>2, <2>1
    <3> QED
      BY <1>3, <1>5, <2>1, <3>1
  <2>2. CASE k # n + 1
    <3>1. k \in 1..n /\ k \in 0..n /\ k - 1 \in 0..n
      BY <1>2, <2>2
    <3> QED
      BY <1>2, <1>3, <1>5, <3>1
  <2> QED
    BY <2>1, <2>2
<1>7. g \in Joins(T, new)
  <2>1. g[0] = << >>
    BY <1>2, <1>5
  <2> QED
    BY <1>3, <1>5, <1>6, <2>1 DEF Joins
<1>8. FlattenSeq(new) = g[n + 1]
  BY <1>3, <1>7, FlattenIs
<1>9. FlattenSeq(q) = f[n]
  BY <1>1, FlattenIs DEF n
<1> QED
  BY <1>5, <1>8, <1>9 DEF new
==============================================================================
