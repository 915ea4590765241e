---------------------------- MODULE SequenceFacts ----------------------------
(***************************************************************************)
(* What the proofs need to know of the sequences used as stacks: push, pop *)
(* and the empty stack, element by element; and of sets of numbers, whose  *)
(* least and greatest elements stand in for induction.                     *)
(***************************************************************************)
EXTENDS Integers, Sequences, FiniteSets, SequenceTheorems, FiniteSetTheorems,
        WellFoundedInduction, TLAPS

(* Appending keeps the elements and adds one at the end.                   *)
LEMMA AppendFacts ==
    ASSUME NEW S, NEW s \in Seq(S), NEW e \in S
    PROVE  /\ Append(s, e) \in Seq(S)
           /\ Len(Append(s, e)) = Len(s) + 1
           /\ \A i \in 1..Len(s) : Append(s, e)[i] = s[i]
           /\ Append(s, e)[Len(s) + 1] = e
OBVIOUS

(* Dropping the last element keeps the others.                             *)
LEMMA FrontFacts ==
    ASSUME NEW S, NEW s \in Seq(S), s # <<>>
    PROVE  /\ SubSeq(s, 1, Len(s) - 1) \in Seq(S)
           /\ Len(SubSeq(s, 1, Len(s) - 1)) = Len(s) - 1
           /\ \A i \in 1..(Len(s) - 1) : SubSeq(s, 1, Len(s) - 1)[i] = s[i]
           /\ Len(s) \in Nat \ {0}
           /\ s[Len(s)] \in S
<1> DEFINE n == Len(s) - 1
<1>1. Len(s) \in Nat \ {0} /\ 1 \in Int /\ n \in Int /\ n >= 0
  OBVIOUS
<1>2. s[Len(s)] \in S /\ \A i \in 1..n : s[i] \in S
  BY <1>1
<1> HIDE DEF n
<1>3. /\ SubSeq(s, 1, n) \in Seq(S)
      /\ Len(SubSeq(s, 1, n)) = IF 1 <= n THEN n - 1 + 1 ELSE 0
      /\ \A i \in 1..(n - 1 + 1) : SubSeq(s, 1, n)[i] = s[1 + i - 1]
  BY <1>1, <1>2, SubSeqProperties
<1>4. /\ SubSeq(s, 1, n) \in Seq(S) /\ Len(SubSeq(s, 1, n)) = n
      /\ \A i \in 1..n : SubSeq(s, 1, n)[i] = s[i]
  BY <1>1, <1>3
<1> QED
  BY <1>1, <1>2, <1>4 DEF n

(* Replacing one element.                                                  *)
Put(s, i, e) == [s EXCEPT ![i] = e]

\* What replacing one element does.
LEMMA PutFacts ==
    ASSUME NEW S, NEW s \in Seq(S), NEW i \in 1..Len(s), NEW e \in S
    PROVE  /\ Put(s, i, e) \in Seq(S) /\ Len(Put(s, i, e)) = Len(s)
           /\ \A j \in 1..Len(s) : Put(s, i, e)[j] = IF j = i THEN e ELSE s[j]
BY DEF Put

(* The empty sequence.                                                     *)
LEMMA NoElements ==
    ASSUME NEW S
    PROVE  <<>> \in Seq(S) /\ Len(<<>>) = 0
OBVIOUS

(* The first n numbers.                                                    *)
LEMMA IntervalSize ==
    ASSUME NEW n \in Nat
    PROVE  IsFiniteSet(1..n) /\ Cardinality(1..n) = n
BY FS_Interval

(* A set of natural numbers has a least element: < is well-founded on Nat.  *)
LEMMA LeastElement ==
    ASSUME NEW S \in SUBSET Nat, S # {}
    PROVE  \E x \in S : \A y \in S : x <= y
<1>1. \E x \in S : \A y \in S : ~ (<<y, x>> \in OpToRel(<, Nat))
  BY NatLessThanWellFounded, WFMin, Zenon
<1>2. PICK x \in S : \A y \in S : ~ (<<y, x>> \in OpToRel(<, Nat))
  BY <1>1
<1>3. ASSUME NEW y \in S PROVE x <= y
  <2>1. ~ (<<y, x>> \in OpToRel(<, Nat))
    BY <1>2
  <2>2. x \in Nat /\ y \in Nat
    OBVIOUS
  <2>3. ~(y < x)
    BY <2>1, <2>2 DEF OpToRel
  <2> QED
    BY <2>2, <2>3
<1> QED
  BY <1>3

(* A set of numbers up to n has a greatest one: its least upper bound.      *)
LEMMA GreatestElement ==
    ASSUME NEW n \in Nat, NEW S \in SUBSET (1..n), S # {}
    PROVE  \E x \in S : \A y \in S : y <= x
<1> DEFINE T == { b \in Nat : \A y \in S : y <= b }
<1>1. n \in T
  OBVIOUS
<1>2. PICK b \in T : \A c \in T : b <= c
  <2>1. T # {} /\ T \in SUBSET Nat
    BY <1>1
  <2> HIDE DEF T
  <2> QED
    BY <2>1, LeastElement
<1>3. b \in S
  <2> SUFFICES ASSUME b \notin S PROVE FALSE
    OBVIOUS
  <2>1. \A y \in S : y < b
    OBVIOUS
  <2>2. PICK z \in S : TRUE
    OBVIOUS
  <2>3. b - 1 \in Nat /\ \A y \in S : y <= b - 1
    BY <2>1, <2>2
  <2> QED
    BY <2>3, <1>2
<1> QED
  BY <1>3

(* Induction over an interval, for a set of its numbers: the least number  *)
(* that is missing would not be.                                           *)
LEMMA IntervalInduction ==
    ASSUME NEW lo \in Int, NEW hi \in Int, NEW P, lo \in P,
           \A i \in lo..hi : i # lo /\ i - 1 \in P => i \in P
    PROVE  \A i \in lo..hi : i \in P
<1> SUFFICES ASSUME NEW i \in lo..hi, i \notin P PROVE FALSE
  OBVIOUS
<1> DEFINE N == { d \in Nat : lo + d \in lo..hi /\ lo + d \notin P }
<1>1. i - lo \in N
  OBVIOUS
<1>2. PICK d \in N : \A e \in N : d <= e
  <2>1. N # {} /\ N \in SUBSET Nat
    BY <1>1
  <2> HIDE DEF N
  <2> QED
    BY <2>1, LeastElement
<1>3. d \in Nat /\ lo + d \in lo..hi /\ lo + d \notin P /\ d # 0
  OBVIOUS
<1>4. d - 1 \in Nat /\ lo + (d - 1) \in lo..hi /\ d - 1 \notin N
  BY <1>2, <1>3
<1>5. lo + (d - 1) \in P
  BY <1>4
<1>6. (lo + d) - 1 = lo + (d - 1) /\ lo + d # lo
  BY <1>3
<1> QED
  BY <1>3, <1>5, <1>6

(* The step of a recursion on values of S, and the function it defines.    *)
Stepper(G, S) == G \in [Int -> [S -> S]]
Solves(f, lo, hi, b, G) ==
    f[lo] = b /\ \A i \in lo..hi : i # lo => f[i] = G[i][f[i - 1]]

(* A recursive function over an interval exists, if each step stays in a   *)
(* set.                                                                    *)
LEMMA RecursionExists ==
    ASSUME NEW lo \in Int, NEW hi \in Int, lo <= hi, NEW S, NEW b \in S,
           NEW G, Stepper(G, S)
    PROVE  \E f \in [lo..hi -> S] : Solves(f, lo, hi, b, G)
<1> USE DEF Stepper, Solves
<1> DEFINE P == { n \in lo..hi : \E f \in [lo..n -> S] : Solves(f, lo, n, b, G) }
<1>1. lo \in P
  <2> DEFINE f == [i \in lo..lo |-> b]
  <2>1. f \in [lo..lo -> S] /\ Solves(f, lo, lo, b, G) /\ lo \in lo..hi
    OBVIOUS
  <2> HIDE DEF f
  <2> QED
    BY <2>1
<1>2. ASSUME NEW n \in lo..hi, n # lo, n - 1 \in P PROVE n \in P
  <2>1. PICK f \in [lo..(n - 1) -> S] : Solves(f, lo, n - 1, b, G)
    BY <1>2
  <2> DEFINE g == [i \in lo..n |-> IF i = n THEN G[n][f[n - 1]] ELSE f[i]]
  <2>2. n - 1 \in lo..(n - 1) /\ f[n - 1] \in S /\ n \in Int
    BY <1>2
  <2>3. G[n][f[n - 1]] \in S
    BY <2>2
  <2>4. g \in [lo..n -> S]
    BY <2>3
  <2>5. ASSUME NEW i \in lo..n
        PROVE  g[i] = IF i = lo THEN b ELSE G[i][g[i - 1]]
    <3>1. CASE i = n
      <4>1. g[n - 1] = f[n - 1] /\ g[n] = G[n][f[n - 1]]
        BY <1>2
      <4> QED
        BY <3>1, <4>1, <1>2
    <3>2. CASE i # n
      <4>1. i \in lo..(n - 1) /\ g[i] = f[i]
        BY <3>2
      <4>2. f[i] = IF i = lo THEN b ELSE G[i][f[i - 1]]
        BY <2>1, <4>1
      <4>3. i # lo => g[i - 1] = f[i - 1]
        BY <4>1
      <4> QED
        BY <4>1, <4>2, <4>3
    <3> QED
      BY <3>1, <3>2
  <2>6. Solves(g, lo, n, b, G)
    <3>1. lo \in lo..n
      OBVIOUS
    <3> HIDE DEF g
    <3> QED
      BY <2>5, <3>1
  <2> QED
    BY <2>4, <2>6
<1>3. \A n \in lo..hi : n \in P
  <2> HIDE DEF P
  <2> QED
    BY <1>1, <1>2, IntervalInduction
<1>4. hi \in P
  BY <1>3
<1> QED
  BY <1>4

(* The number of elements of U up to p.                                    *)
Rank(U, p) == Cardinality({ q \in U : q <= p })

(* How it grows.                                                           *)
LEMMA RankFacts ==
    ASSUME NEW n \in Nat, NEW U \in SUBSET (1..n)
    PROVE  /\ IsFiniteSet(U) /\ Cardinality(U) \in Nat
           /\ \A p \in Int : IsFiniteSet({ q \in U : q <= p })
           /\ \A p \in Int : Rank(U, p) \in 0..Cardinality(U)
           /\ \A p \in Int : Rank(U, p) =
                 IF p \in U THEN Rank(U, p - 1) + 1 ELSE Rank(U, p - 1)
           /\ Rank(U, 0) = 0 /\ Rank(U, n) = Cardinality(U)
<1>0. \A x \in U : x \in Nat /\ 1 <= x /\ x <= n
  OBVIOUS
<1>1. IsFiniteSet(U) /\ Cardinality(U) \in Nat
  BY <1>0, FS_BoundedSetOfNaturals, FS_CardinalityType
<1>2. ASSUME NEW p \in Int
      PROVE  IsFiniteSet({ q \in U : q <= p }) /\ Rank(U, p) \in 0..Cardinality(U)
  <2> DEFINE B == { q \in U : q <= p }
  <2>1. B \in SUBSET U
    OBVIOUS
  <2> HIDE DEF B
  <2>2. IsFiniteSet(B) /\ Cardinality(B) <= Cardinality(U) /\ Cardinality(B) \in Nat
    BY <1>1, <2>1, FS_Subset, FS_CardinalityType
  <2> QED
    BY <2>2, <1>1 DEF Rank, B
<1>3. ASSUME NEW p \in Int
      PROVE  Rank(U, p) = IF p \in U THEN Rank(U, p - 1) + 1 ELSE Rank(U, p - 1)
  <2> DEFINE B == { q \in U : q <= p }
             A == { q \in U : q <= p - 1 }
  <2>1. /\ p \notin U => B = A
        /\ p \in U => B = A \union {p}
        /\ p \notin A
    <3>1. \A x \in U : (x <= p <=> x <= p - 1 \/ x = p) /\ ~(p <= p - 1)
      BY <1>0
    <3> QED
      BY <3>1
  <2>2. IsFiniteSet(A)
    <3>1. p - 1 \in Int
      OBVIOUS
    <3> QED
      BY <1>2, <3>1
  <2> HIDE DEF A, B
  <2>3. Cardinality(B) = IF p \in U THEN Cardinality(A) + 1 ELSE Cardinality(A)
    BY <2>1, <2>2, FS_AddElement
  <2> QED
    BY <2>3 DEF Rank, A, B
<1>4. Rank(U, 0) = 0
  <2>1. \A q \in U : ~(q <= 0)
    BY <1>0
  <2>2. { q \in U : q <= 0 } = {}
    BY <2>1
  <2> QED
    BY <2>2, FS_EmptySet DEF Rank
<1>5. Rank(U, n) = Cardinality(U)
  <2>1. { q \in U : q <= n } = U
    BY <1>0
  <2> QED
    BY <2>1 DEF Rank
<1> QED
  BY <1>1, <1>2, <1>3, <1>4, <1>5

(* It is strictly monotone on U and takes every value up to the size of U. *)
LEMMA RankOrder ==
    ASSUME NEW n \in Nat, NEW U \in SUBSET (1..n)
    PROVE  /\ \A p \in Int, q \in U : p < q => Rank(U, p) < Rank(U, q)
           /\ \A p, q \in Int : p <= q => Rank(U, p) <= Rank(U, q)
           /\ \A p \in U : Rank(U, p) \in 1..Cardinality(U)
           /\ \A k \in 1..Cardinality(U) : \E p \in U : Rank(U, p) = k
           /\ \A p \in Nat : Rank(U, p) <= p
<1>1. /\ \A p \in Int : Rank(U, p) \in 0..Cardinality(U)
      /\ \A p \in Int : Rank(U, p) =
            IF p \in U THEN Rank(U, p - 1) + 1 ELSE Rank(U, p - 1)
      /\ Rank(U, 0) = 0 /\ Rank(U, n) = Cardinality(U) /\ Cardinality(U) \in Nat
  BY RankFacts
<1>2. ASSUME NEW p \in Int, NEW q \in Int, p <= q PROVE Rank(U, p) <= Rank(U, q)
  <2> DEFINE P == { x \in p..q : Rank(U, p) <= Rank(U, x) }
  <2>1. p \in P
    BY <1>1, <1>2
  <2>2. ASSUME NEW x \in p..q, x # p, x - 1 \in P PROVE x \in P
    <3>1. /\ Rank(U, p) <= Rank(U, x - 1) /\ x \in Int /\ x - 1 \in Int
          /\ Rank(U, x) \in Int /\ Rank(U, x - 1) \in Int /\ Rank(U, p) \in Int
      BY <1>1, <2>2
    <3>2. Rank(U, x - 1) <= Rank(U, x)
      BY <1>1, <3>1
    <3> QED
      BY <3>1, <3>2
  <2>3. \A x \in p..q : x \in P
    <3> HIDE DEF P
    <3> QED
      BY <2>1, <2>2, IntervalInduction
  <2> QED
    BY <2>3, <1>2
<1>3. ASSUME NEW p \in Int, NEW q \in U, p < q PROVE Rank(U, p) < Rank(U, q)
  <2>1. q \in Int /\ q - 1 \in Int /\ p <= q - 1
    BY <1>3
  <2>2. Rank(U, p) <= Rank(U, q - 1) /\ Rank(U, q) = Rank(U, q - 1) + 1
    BY <2>1, <1>1, <1>2
  <2> QED
    BY <2>1, <2>2, <1>1
<1>4. ASSUME NEW p \in U PROVE Rank(U, p) \in 1..Cardinality(U)
  <2>1. 0 < p /\ p \in Int
    OBVIOUS
  <2>2. Rank(U, 0) < Rank(U, p)
    BY <2>1, <1>3
  <2> QED
    BY <2>1, <2>2, <1>1
<1>5. ASSUME NEW k \in 1..Cardinality(U) PROVE \E p \in U : Rank(U, p) = k
  <2> DEFINE T == { p \in Nat : k <= Rank(U, p) }
  <2>1. n \in T
    BY <1>1
  <2>2. PICK p \in T : \A q \in T : p <= q
    <3>1. T # {} /\ T \in SUBSET Nat
      BY <2>1
    <3> HIDE DEF T
    <3> QED
      BY <3>1, LeastElement
  <2>3. p \in Nat /\ k <= Rank(U, p) /\ p # 0 /\ Rank(U, p) \in Nat
    BY <1>1
  <2>4. p - 1 \in Nat /\ ~(k <= Rank(U, p - 1)) /\ Rank(U, p - 1) \in Nat
    BY <1>1, <2>2, <2>3
  <2>5. Rank(U, p) = IF p \in U THEN Rank(U, p - 1) + 1 ELSE Rank(U, p - 1)
    BY <1>1, <2>3
  <2> QED
    BY <2>3, <2>4, <2>5
<1>6. ASSUME NEW p \in Nat PROVE Rank(U, p) <= p
  <2> DEFINE P == { x \in 0..p : Rank(U, x) <= x }
  <2>1. 0 \in P
    BY <1>1
  <2>2. ASSUME NEW x \in 0..p, x # 0, x - 1 \in P PROVE x \in P
    <3>1. Rank(U, x - 1) <= x - 1 /\ x \in Int /\ Rank(U, x - 1) \in Int
      BY <1>1, <2>2
    <3>2. Rank(U, x) <= Rank(U, x - 1) + 1
      BY <1>1, <3>1
    <3> QED
      BY <3>1, <3>2, <1>1
  <2>3. \A x \in 0..p : x \in P
    <3> HIDE DEF P
    <3> QED
      BY <2>1, <2>2, IntervalInduction
  <2> QED
    BY <2>3
<1> QED
  BY <1>2, <1>3, <1>4, <1>5, <1>6
===============================================================================
