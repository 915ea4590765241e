---------------------------- MODULE ZendHashProofs ----------------------------
(***************************************************************************)
(* Tables and iterators, for any number of elements, table addresses,      *)
(* nested walks and copies.                                                *)
(***************************************************************************)
EXTENDS ZendHash, SequenceFacts

-----------------------------------------------------------------------------
(* Rings of copies.                                                        *)

\* The link of every iterator leads to an iterator.
Linked(is) == Len(is) \in Nat /\ \A k \in 1..Len(is) : is[k].next \in 1..Len(is)
\* A set of iterators that no link leaves.
Closed(is, C) == \A k \in C : is[k].next \in C

\* The iterators that can be reached from idx: the least closed set around it.
Mine(is, idx) == Ring(is, idx) \union {idx}

\* The recursion of Ring.
Reached(f, is, idx) ==
    f = [n \in 0..Len(is) |->
           IF n = 0 THEN {is[idx].next} ELSE f[n - 1] \union { is[k].next : k \in f[n - 1] }]

\* Ring is the last of the sets its recursion goes through.
LEMMA RingUnfolds ==
    ASSUME NEW is, Linked(is), NEW idx \in 1..Len(is)
    PROVE  \E f : /\ f \in [0..Len(is) -> SUBSET (1..Len(is))] /\ Reached(f, is, idx)
                  /\ Ring(is, idx) = f[Len(is)] \ {idx}
<1>0. PICK n \in Nat : n = Len(is)
  BY DEF Linked
<1> DEFINE S == SUBSET (1..n)
           G == [i \in Int |-> [X \in S |-> X \union { is[k].next : k \in X }]]
           F == CHOOSE f : Reached(f, is, idx)
<1>1. /\ n \in Int /\ 0 <= n /\ 0 \in 0..n
      /\ {is[idx].next} \in S /\ \A k \in 1..n : is[k].next \in 1..n
  BY <1>0 DEF Linked
<1>a. {is[idx].next} \in S
  BY <1>1
<1>2. G \in [Int -> [S -> S]]
  BY <1>1
<1>3. PICK f \in [0..n -> S] :
        f[0] = {is[idx].next} /\ \A i \in 0..n : i # 0 => f[i] = G[i][f[i - 1]]
  <2> DEFINE b == {is[idx].next}
  <2>1. 0 \in Int /\ n \in Int /\ 0 <= n /\ b \in S /\ Stepper(G, S)
    BY <1>1, <1>a, <1>2 DEF Stepper
  <2> HIDE DEF G, S, b, F
  <2>2. \E f \in [0..n -> S] : Solves(f, 0, n, b, G)
    BY <2>1, RecursionExists
  <2> QED
    BY <2>2 DEF b, Solves
<1>4. \A i \in 0..n : i # 0 =>
        G[i][f[i - 1]] = f[i - 1] \union { is[k].next : k \in f[i - 1] }
  <2>1. \A i \in 0..n : i # 0 => i - 1 \in 0..n /\ i \in Int
    BY <1>1
  <2>2. \A i \in 0..n : i # 0 => f[i - 1] \in S
    BY <2>1
  <2> QED
    BY <2>1, <2>2
<1>5. Reached(f, is, idx)
  <2> HIDE DEF G, S
  <2> QED
    BY <1>0, <1>3, <1>4 DEF Reached
<1>6. Reached(F, is, idx)
  BY <1>5
<1>7. Ring(is, idx) = F[n] \ {idx}
  BY <1>0 DEF Ring, Reached
<1> HIDE DEF F, G
<1>8. \A i \in 0..n : F[i] \in S
  <2> DEFINE P == { i \in 0..n : F[i] \in S }
  <2>0. \A i \in 0..n : F[i] = IF i = 0 THEN {is[idx].next}
                               ELSE F[i - 1] \union { is[k].next : k \in F[i - 1] }
    BY <1>0, <1>6 DEF Reached
  <2>1. 0 \in P
    BY <2>0, <1>1
  <2>2. ASSUME NEW i \in 0..n, i # 0, i - 1 \in P PROVE i \in P
    <3>1. F[i - 1] \in S
      BY <2>2
    <3>2. F[i] = F[i - 1] \union { is[k].next : k \in F[i - 1] }
      BY <2>0, <2>2
    <3>3. { is[k].next : k \in F[i - 1] } \in S
      BY <3>1, <1>1
    <3> QED
      BY <3>1, <3>2, <3>3
  <2>3. \A i \in 0..n : i \in P
    <3> HIDE DEF P, S
    <3> QED
      BY <2>1, <2>2, IntervalInduction
  <2> QED
    BY <2>3
<1>9. F \in [0..n -> S]
  BY <1>0, <1>6, <1>8 DEF Reached
<1> QED
  BY <1>0, <1>6, <1>7, <1>9

\* It is closed, for it cannot grow in every step, and the least such set.
LEMMA MineFacts ==
    ASSUME NEW is, Linked(is), NEW idx \in 1..Len(is)
    PROVE  /\ Mine(is, idx) \in SUBSET (1..Len(is)) /\ idx \in Mine(is, idx)
           /\ Closed(is, Mine(is, idx))
           /\ \A C : idx \in C /\ Closed(is, C) => Mine(is, idx) \subseteq C
<1>0. PICK n \in Nat : n = Len(is)
  BY DEF Linked
<1>1. /\ n \in Int /\ 0 <= n /\ 0 \in 0..n
      /\ \A k \in 1..n : is[k].next \in 1..n
  BY <1>0 DEF Linked
<1>2. PICK f : /\ f \in [0..n -> SUBSET (1..n)] /\ Reached(f, is, idx)
               /\ Ring(is, idx) = f[n] \ {idx}
  BY <1>0, RingUnfolds
<1>3. \A i \in 0..n : f[i] = IF i = 0 THEN {is[idx].next}
                             ELSE f[i - 1] \union { is[k].next : k \in f[i - 1] }
  BY <1>0, <1>2 DEF Reached
<1>4. Mine(is, idx) = f[n] \union {idx} /\ n \in 0..n /\ f[n] \in SUBSET (1..n)
  BY <1>1, <1>2 DEF Mine
<1>5. is[idx].next \in f[n]
  <2> DEFINE P == { i \in 0..n : is[idx].next \in f[i] }
  <2>1. 0 \in P
    BY <1>1, <1>3
  <2>2. ASSUME NEW i \in 0..n, i # 0, i - 1 \in P PROVE i \in P
    BY <1>3, <2>2
  <2>3. \A i \in 0..n : i \in P
    <3> HIDE DEF P
    <3> QED
      BY <2>1, <2>2, IntervalInduction
  <2> QED
    BY <2>3, <1>4
<1>6. Closed(is, f[n])
  <2> DEFINE Big(i) == Closed(is, f[i]) \/ Cardinality(f[i]) >= i + 1
             P == { i \in 0..n : Big(i) }
  <2>0. \A i \in 0..n : IsFiniteSet(f[i]) /\ Cardinality(f[i]) \in Nat
    <3>1. \A i \in 0..n : f[i] \in SUBSET (1..n)
      BY <1>2
    <3> QED
      BY <3>1, <1>1, IntervalSize, FS_Subset, FS_CardinalityType
  <2>1. 0 \in P
    <3>1. f[0] = {is[idx].next} /\ 0 \in 0..n
      BY <1>1, <1>3
    <3>2. Cardinality(f[0]) = 1
      BY <3>1, FS_Singleton
    <3>3. Cardinality(f[0]) >= 0 + 1
      BY <3>2
    <3> QED
      BY <3>1, <3>3
  <2>2. ASSUME NEW i \in 0..n, i # 0, i - 1 \in P PROVE i \in P
    <3>0. i - 1 \in 0..n /\ i \in Nat
      BY <2>2
    <3>1. /\ f[i] = f[i - 1] \union { is[k].next : k \in f[i - 1] }
          /\ i - 1 \in 0..n /\ i \in Nat
      BY <3>0, <1>3, <2>2
    <3>2. CASE Closed(is, f[i - 1])
      <4>1. f[i] = f[i - 1]
        BY <3>1, <3>2 DEF Closed
      <4> QED
        BY <3>2, <4>1
    <3>3. CASE ~Closed(is, f[i - 1])
      <4>1. Cardinality(f[i - 1]) >= (i - 1) + 1
        BY <2>2, <3>3
      <4>2. PICK k \in f[i - 1] : is[k].next \notin f[i - 1]
        BY <3>3 DEF Closed
      <4>3. f[i - 1] \in SUBSET f[i] /\ f[i] # f[i - 1]
        BY <3>1, <4>2
      <4>4. /\ Cardinality(f[i - 1]) <= Cardinality(f[i])
            /\ Cardinality(f[i]) # Cardinality(f[i - 1])
        BY <4>3, <2>0, FS_Subset
      <4>5. Cardinality(f[i]) \in Nat /\ Cardinality(f[i - 1]) \in Nat
        BY <2>0, <3>1
      <4>6. Cardinality(f[i]) >= i + 1
        BY <4>1, <4>4, <4>5, <3>1
      <4> QED
        BY <4>6
    <3> QED
      BY <3>2, <3>3
  <2>3. \A i \in 0..n : i \in P
    <3> HIDE DEF P
    <3> QED
      BY <2>1, <2>2, IntervalInduction
  <2>4. Cardinality(f[n]) <= n
    <3>1. IsFiniteSet(1..n) /\ Cardinality(1..n) = n
      BY <1>1, IntervalSize
    <3> QED
      BY <1>4, <3>1, FS_Subset
  <2>5. ~(Cardinality(f[n]) >= n + 1) /\ Big(n)
    BY <2>0, <2>3, <2>4, <1>1, <1>4
  <2> QED
    BY <2>5
<1>7. Closed(is, Mine(is, idx))
  BY <1>4, <1>5, <1>6 DEF Closed
<1>8. ASSUME NEW C, idx \in C, Closed(is, C) PROVE Mine(is, idx) \subseteq C
  <2> DEFINE P == { i \in 0..n : f[i] \subseteq C }
  <2>1. 0 \in P
    <3>1. f[0] = {is[idx].next} /\ 0 \in 0..n
      BY <1>1, <1>3
    <3>2. is[idx].next \in C
      BY <1>8 DEF Closed
    <3> QED
      BY <3>1, <3>2
  <2>2. ASSUME NEW i \in 0..n, i # 0, i - 1 \in P PROVE i \in P
    <3>1. f[i - 1] \subseteq C /\ f[i] = f[i - 1] \union { is[k].next : k \in f[i - 1] }
      BY <1>3, <2>2
    <3> QED
      BY <3>1, <1>8 DEF Closed
  <2>3. \A i \in 0..n : i \in P
    <3> HIDE DEF P
    <3> QED
      BY <2>1, <2>2, IntervalInduction
  <2>4. f[n] \subseteq C
    BY <2>3, <1>4
  <2> QED
    BY <2>4, <1>4, <1>8
<1> QED
  BY <1>0, <1>4, <1>7, <1>8

\* It depends on the links of its own iterators only.
LEMMA MineSame ==
    ASSUME NEW is, NEW js, Linked(is), Linked(js),
           NEW idx \in 1..Len(is), idx \in 1..Len(js),
           \A k \in Mine(is, idx) : js[k].next = is[k].next
    PROVE  Mine(js, idx) = Mine(is, idx)
<1>1. /\ idx \in Mine(is, idx) /\ Closed(is, Mine(is, idx))
      /\ \A C : idx \in C /\ Closed(is, C) => Mine(is, idx) \subseteq C
  BY MineFacts
<1>2. /\ idx \in Mine(js, idx) /\ Closed(js, Mine(js, idx))
      /\ \A C : idx \in C /\ Closed(js, C) => Mine(js, idx) \subseteq C
  BY MineFacts
<1>3. Closed(js, Mine(is, idx))
  BY <1>1 DEF Closed
<1>4. Mine(js, idx) \subseteq Mine(is, idx)
  BY <1>1, <1>2, <1>3
<1>5. Closed(is, Mine(js, idx))
  BY <1>2, <1>4 DEF Closed
<1> QED
  BY <1>1, <1>2, <1>4, <1>5

-----------------------------------------------------------------------------
(* Heaps.                                                                  *)

Slot == Elems \union {Undef}
TableT == [kind: {"free", "uninit", "packed", "hash"}, slots: Seq(Slot), size: Nat,
           next: Nat, count: Nat]
Iter == [ht: Table \union {Null, Poisoned}, pos: Nat, next: Nat]
HeapT == [tab: [Table -> TableT], iters: Seq(Iter)]

\* Replacing an iterator.
LEMMA PutIter ==
    ASSUME NEW is \in Seq(Iter), NEW i \in 1..Len(is), NEW e \in Iter
    PROVE  /\ Put(is, i, e) \in Seq(Iter) /\ Len(Put(is, i, e)) = Len(is)
           /\ \A j \in 1..Len(is) : Put(is, i, e)[j] = IF j = i THEN e ELSE is[j]
BY PutFacts

\* A table holds no more than its size, and one that is not in use or not
\* initialized holds nothing.
TableOK(ht) ==
    /\ Len(ht.slots) <= ht.size
    /\ ht.kind \in {"free", "uninit"} => Len(ht.slots) = 0
    /\ ht.kind # "free" => ht.size >= 1

On(is, t) == { k \in 1..Len(is) : is[k].ht = t }
InUse(is) == { k \in 1..Len(is) : is[k].ht # Null }

\* The iterators in use are those that can be reached from the heads W, each
\* from one head only.
Parted(is, W) ==
    /\ W \in SUBSET (1..Len(is)) /\ IsFiniteSet(W)
    /\ \A v, w \in W : v # w => Mine(is, v) \intersect Mine(is, w) = {}
    /\ \A k : k \in InUse(is) <=> \E w \in W : k \in Mine(is, w)
\* And no head reaches two on the same table.
Single(is, w) ==
    \A k, l \in Mine(is, w) : is[k].ht \in Table /\ is[k].ht = is[l].ht => k = l
Owned(is, W) == Parted(is, W) /\ \A w \in W : Single(is, w)

\* An iterator that is not in use is its own ring.
SelfNull(is) == \A k \in 1..Len(is) : is[k].ht = Null => is[k].next = k

\* A heap with the tables L in use and walks at the iterators W.
HeapOK(hp, L, W) ==
    /\ hp \in HeapT
    /\ \A t \in Table : TableOK(hp.tab[t]) /\ (t \in L <=> hp.tab[t].kind # "free")
    /\ Linked(hp.iters) /\ SelfNull(hp.iters) /\ Owned(hp.iters, W)
    /\ \A k \in 1..Len(hp.iters) : hp.iters[k].ht \in Table => hp.iters[k].ht \in L
    /\ \A t \in Table : hp.tab[t].count = Cardinality(On(hp.iters, t))

\* Fewer iterators are on a table than nIteratorsCount overflows at, with one
\* to spare.
Room(W) == Cardinality(W) + 1 < MaxCount

\* The set of iterators on a table is finite.
LEMMA OnFinite ==
    ASSUME NEW is, Len(is) \in Nat, NEW t
    PROVE  /\ IsFiniteSet(On(is, t)) /\ Cardinality(On(is, t)) \in Nat
           /\ IsFiniteSet(1..Len(is))
<1>1. IsFiniteSet(1..Len(is))
  BY IntervalSize
<1>2. On(is, t) \subseteq 1..Len(is)
  BY DEF On
<1> QED
  BY <1>1, <1>2, FS_Subset, FS_CardinalityType

\* No more iterators are on a table than there are walks.
LEMMA OnBound ==
    ASSUME NEW is, Linked(is), NEW W, Owned(is, W), NEW t \in Table
    PROVE  Cardinality(On(is, t)) <= Cardinality(W) /\ Cardinality(W) \in Nat
<1>1. IsFiniteSet(W) /\ Cardinality(W) \in Nat
  BY FS_CardinalityType DEF Owned, Parted, Single
<1>2. \A k \in On(is, t) : \E w \in W : k \in Mine(is, w)
  BY SentinelAssumption DEF On, Owned, Parted, Single, InUse
<1> DEFINE h == [k \in On(is, t) |-> CHOOSE w \in W : k \in Mine(is, w)]
<1>3. \A k \in On(is, t) : h[k] \in W /\ k \in Mine(is, h[k])
  BY <1>2
<1>4. h \in [On(is, t) -> W]
  BY <1>3
<1>5. \A k, l \in On(is, t) : h[k] = h[l] => k = l
  <2> SUFFICES ASSUME NEW k \in On(is, t), NEW l \in On(is, t), h[k] = h[l] PROVE k = l
    OBVIOUS
  <2>1. k \in Mine(is, h[k]) /\ l \in Mine(is, h[k]) /\ h[k] \in W
    BY <1>3
  <2>2. is[k].ht = t /\ is[l].ht = t
    BY DEF On
  <2>3. \A w \in W : \A i, j \in Mine(is, w) : is[i].ht \in Table /\ is[i].ht = is[j].ht => i = j
    BY DEF Owned, Parted, Single
  <2> HIDE DEF h
  <2> QED
    BY <2>1, <2>2, <2>3
<1> HIDE DEF h
<1>6. h \in Injection(On(is, t), W)
  BY <1>4, <1>5 DEF Injection, IsInjective
<1> QED
  BY <1>1, <1>6, FS_Injection

-----------------------------------------------------------------------------
(* A new iterator.                                                         *)

\* The least element of a set of natural numbers.
LEMMA MinIs ==
    ASSUME NEW S \in SUBSET Nat, S # {}
    PROVE  Min(S) \in S /\ \A y \in S : Min(S) <= y
<1>1. \E x \in S : \A y \in S : x <= y
  BY LeastElement
<1> QED
  BY <1>1 DEF Min

\* js is is with iterator new at idx, which was not in use.
Added(is, js, idx, new) ==
    /\ 1..Len(js) = 1..Len(is) \union {idx} /\ Len(js) \in Nat
    /\ idx \in 1..Len(is) => is[idx].ht = Null
    /\ js[idx] = new /\ \A k \in 1..Len(is) : k # idx => js[k] = is[k]

\* What zend_hash_iterator_add does.
LEMMA AddFacts ==
    ASSUME NEW hp \in HeapT, NEW t \in Table, NEW pos \in Nat
    PROVE  LET r == zend_hash_iterator_add(hp, t, pos)
               new == [ht |-> t, pos |-> pos, next |-> r.idx]
           IN  /\ r.heap \in HeapT /\ r.idx \in Nat
               /\ Added(hp.iters, r.heap.iters, r.idx, new)
               /\ r.heap.tab = [hp.tab EXCEPT ![t].count = Count(@, 1)]
<1> DEFINE is == hp.iters
           free == { k \in DOMAIN is : is[k].ht = Null }
           idx == IF free = {} THEN Len(is) + 1 ELSE Min(free)
           new == [ht |-> t, pos |-> pos, next |-> idx]
           js == IF free = {} THEN Append(is, new) ELSE [is EXCEPT ![idx] = new]
           r == zend_hash_iterator_add(hp, t, pos)
<1>1. is \in Seq(Iter) /\ Len(is) \in Nat /\ DOMAIN is = 1..Len(is)
  BY DEF HeapT
<1>2. free \in SUBSET Nat /\ (free # {} => Min(free) \in free)
  <2>1. free \in SUBSET Nat
    BY <1>1
  <2> HIDE DEF free
  <2> QED
    BY <2>1, MinIs
<1>3. idx \in Nat /\ (free # {} => idx \in 1..Len(is) /\ is[idx].ht = Null)
  BY <1>1, <1>2
<1>4. new \in Iter
  BY <1>3 DEF Iter
<1>5. js \in Seq(Iter) /\ Added(is, js, idx, new)
  <2>1. CASE free = {}
    <3>1. js = Append(is, new) /\ idx = Len(is) + 1
      BY <2>1
    <3> HIDE DEF is, js, new, idx, free
    <3>2. /\ js \in Seq(Iter) /\ Len(js) = Len(is) + 1 /\ js[Len(is) + 1] = new
          /\ \A k \in 1..Len(is) : js[k] = is[k]
      BY <1>1, <1>4, <3>1, AppendFacts
    <3> QED
      BY <1>1, <3>1, <3>2 DEF Added
  <2>2. CASE free # {}
    <3>1. js = [is EXCEPT ![idx] = new] /\ idx \in 1..Len(is) /\ is[idx].ht = Null
      BY <2>2, <1>3
    <3> HIDE DEF is, js, new, idx, free
    <3>2. js \in Seq(Iter) /\ Len(js) = Len(is)
      BY <1>1, <1>4, <3>1
    <3> QED
      BY <1>1, <3>1, <3>2 DEF Added
  <2> QED
    BY <2>1, <2>2
<1>6. r.idx = idx /\ r.heap = Counted([hp EXCEPT !.iters = js], t, 1)
  BY DEF zend_hash_iterator_add
<1>7. [hp EXCEPT !.iters = js] = [tab |-> hp.tab, iters |-> js]
  <2> HIDE DEF js
  <2> QED
    BY DEF HeapT
<1>8. r.heap = [tab |-> [hp.tab EXCEPT ![t].count = Count(@, 1)], iters |-> js]
  <2> HIDE DEF js, r
  <2> QED
    BY <1>6, <1>7 DEF Counted, HeapT
<1>9. [hp.tab EXCEPT ![t].count = Count(@, 1)] \in [Table -> TableT]
  <2>1. hp.tab[t] \in TableT
    BY DEF HeapT
  <2>2. Count(hp.tab[t].count, 1) \in Nat
    BY <2>1 DEF Count, TableT
  <2> QED
    BY <2>1, <2>2 DEF HeapT, TableT
<1>10. r.heap.iters = js /\ new = [ht |-> t, pos |-> pos, next |-> r.idx]
       /\ r.heap.tab = [hp.tab EXCEPT ![t].count = Count(@, 1)]
  <2> HIDE DEF js, r, idx
  <2> QED
    BY <1>6, <1>8
<1>11. r.heap \in HeapT
  <2> HIDE DEF js, r
  <2> QED
    BY <1>5, <1>8, <1>9 DEF HeapT
<1>12. r.idx \in Nat /\ Added(hp.iters, r.heap.iters, r.idx, new)
  BY <1>3, <1>5, <1>6, <1>10
<1> HIDE DEF js, r, idx, new
<1> QED
  BY <1>10, <1>11, <1>12 DEF r

\* The new iterator is the only one in its ring, and no other ring changes.
LEMMA AddOwned ==
    ASSUME NEW is, NEW js, NEW W, NEW idx, NEW new,
           Linked(is), SelfNull(is), Owned(is, W), Added(is, js, idx, new),
           new.next = idx, new.ht # Null
    PROVE  /\ Linked(js) /\ SelfNull(js) /\ Owned(js, W \union {idx}) /\ idx \notin W
           /\ \A w \in W : Mine(js, w) = Mine(is, w) /\ idx \notin Mine(is, w)
           /\ Mine(js, idx) = {idx}
<1>1. Len(is) \in Nat /\ Len(js) \in Nat /\ idx \in 1..Len(js)
  BY DEF Added, Linked
<1>2. \A k \in 1..Len(js) : k = idx \/ (k # idx /\ k \in 1..Len(is) /\ js[k] = is[k])
  BY DEF Added
<1>3. Linked(js)
  <2> SUFFICES ASSUME NEW k \in 1..Len(js) PROVE js[k].next \in 1..Len(js)
    BY <1>1 DEF Linked
  <2>1. CASE k = idx
    BY <2>1, <1>1 DEF Added
  <2>2. CASE k # idx
    BY <2>2, <1>2 DEF Linked, Added
  <2> QED
    BY <2>1, <2>2
<1>4. SelfNull(js)
  BY <1>2 DEF SelfNull, Added
<1>5. idx \notin InUse(is) /\ InUse(js) = InUse(is) \union {idx}
  BY <1>1, <1>2 DEF InUse, Added
<1>6. \A w \in W : w \in 1..Len(is) /\ Mine(is, w) \subseteq InUse(is)
  BY DEF Owned, Parted, Single
<1>7. \A w \in W : w \in 1..Len(is) /\ w \in 1..Len(js) /\ w \in Mine(is, w)
  BY <1>6, MineFacts DEF Added
<1>8. ASSUME NEW w \in W PROVE Mine(js, w) = Mine(is, w) /\ idx \notin Mine(is, w)
  <2>1. idx \notin Mine(is, w)
    BY <1>5, <1>6
  <2>2. \A k \in Mine(is, w) : js[k].next = is[k].next
    BY <2>1, <1>6 DEF InUse, Added
  <2> QED
    BY <2>1, <2>2, <1>3, <1>7, MineSame
<1>9. idx \notin W
  BY <1>7, <1>8
<1>10. Mine(js, idx) = {idx}
  <2>1. Closed(js, {idx})
    BY DEF Closed, Added
  <2>2. Mine(js, idx) \subseteq {idx} /\ idx \in Mine(js, idx)
    BY <2>1, <1>1, <1>3, MineFacts
  <2> QED
    BY <2>2
<1>11. Owned(js, W \union {idx})
  <2> DEFINE V == W \union {idx}
  <2>1. V \in SUBSET (1..Len(js)) /\ IsFiniteSet(V)
    BY <1>1, <1>7, FS_AddElement DEF Owned, Parted, Single
  <2>2. \A v, w \in V : v # w => Mine(js, v) \intersect Mine(js, w) = {}
    BY <1>8, <1>10 DEF Owned, Parted, Single
  <2>3. \A k : k \in InUse(js) <=> \E w \in V : k \in Mine(js, w)
    <3>1. \A k : (\E w \in V : k \in Mine(js, w)) <=> (k = idx \/ \E w \in W : k \in Mine(is, w))
      BY <1>8, <1>10
    <3> QED
      BY <3>1, <1>5 DEF Owned, Parted, Single
  <2>4. \A w \in V : \A k, l \in Mine(js, w) :
           js[k].ht \in Table /\ js[k].ht = js[l].ht => k = l
    <3>1. ASSUME NEW w \in W, NEW k \in Mine(js, w), NEW l \in Mine(js, w),
                 js[k].ht \in Table, js[k].ht = js[l].ht
          PROVE  k = l
      <4>1. k \in Mine(is, w) /\ l \in Mine(is, w) /\ k # idx /\ l # idx
        BY <1>8
      <4>2. js[k] = is[k] /\ js[l] = is[l]
        BY <4>1, <1>6 DEF InUse, Added
      <4> QED
        BY <3>1, <4>1, <4>2 DEF Owned, Parted, Single
    <3> QED
      BY <3>1, <1>10
  <2> QED
    BY <2>1, <2>2, <2>3, <2>4 DEF Owned, Parted, Single
<1> QED
  BY <1>3, <1>4, <1>8, <1>9, <1>10, <1>11

\* It is counted on its table.
LEMMA AddCount ==
    ASSUME NEW is, NEW js, NEW idx, NEW new, NEW u \in Table, Len(is) \in Nat,
           Added(is, js, idx, new)
    PROVE  Cardinality(On(js, u)) =
              IF new.ht = u THEN Cardinality(On(is, u)) + 1 ELSE Cardinality(On(is, u))
<1>1. idx \notin On(is, u)
  BY SentinelAssumption DEF On, Added
<1>2. On(js, u) = IF new.ht = u THEN On(is, u) \union {idx} ELSE On(is, u)
  <2>1. \A k : k \in 1..Len(js) <=> k \in 1..Len(is) \/ k = idx
    BY DEF Added
  <2>2. \A k \in 1..Len(is) : k # idx => js[k] = is[k]
    BY DEF Added
  <2>3. js[idx] = new
    BY DEF Added
  <2>4. \A k : k \in On(js, u) <=> (k \in On(is, u) \/ (k = idx /\ new.ht = u))
    <3> SUFFICES ASSUME NEW k
                 PROVE  k \in On(js, u) <=> (k \in On(is, u) \/ (k = idx /\ new.ht = u))
      OBVIOUS
    <3>1. CASE k = idx
      BY <3>1, <2>1, <2>3, <1>1 DEF On
    <3>2. CASE k # idx
      BY <3>2, <2>1, <2>2 DEF On
    <3> QED
      BY <3>1, <3>2
  <2> QED
    BY <2>4
<1>3. IsFiniteSet(On(is, u))
  BY OnFinite
<1> QED
  BY <1>1, <1>2, <1>3, FS_AddElement

\* Tables that differ in their counts only.
SameTables(ta, tb) ==
    \A t \in Table : /\ tb[t].kind = ta[t].kind /\ tb[t].slots = ta[t].slots
                     /\ tb[t].size = ta[t].size /\ tb[t].next = ta[t].next

\* A count that has not reached the maximum counts.
LEMMA CountUp ==
    ASSUME NEW hp, NEW L, NEW W, HeapOK(hp, L, W), Room(W), NEW t \in Table
    PROVE  /\ hp.tab[t].count = Cardinality(On(hp.iters, t)) /\ hp.tab[t].count \in Nat
           /\ hp.tab[t].count < MaxCount /\ hp.tab[t].count + 1 < MaxCount
           /\ \A d \in Int : Count(hp.tab[t].count, d) = hp.tab[t].count + d
<1>1. Cardinality(On(hp.iters, t)) <= Cardinality(W) /\ Cardinality(W) \in Nat
  BY OnBound DEF HeapOK
<1>2. hp.tab[t].count = Cardinality(On(hp.iters, t)) /\ hp.tab[t].count \in Nat
  BY OnFinite DEF HeapOK, Linked
<1>3. hp.tab[t].count < MaxCount /\ hp.tab[t].count + 1 < MaxCount
  BY <1>1, <1>2, BoundAssumption DEF Room
<1> QED
  BY <1>2, <1>3 DEF Count

\* Adding an iterator to a table in use.
LEMMA AddHeap ==
    ASSUME NEW hp, NEW L, NEW W, HeapOK(hp, L, W), Room(W),
           NEW t \in Table, t \in L, NEW pos \in Nat
    PROVE  LET r == zend_hash_iterator_add(hp, t, pos)
           IN  /\ HeapOK(r.heap, L, W \union {r.idx}) /\ r.idx \notin W
               /\ SameTables(hp.tab, r.heap.tab)
               /\ Added(hp.iters, r.heap.iters, r.idx,
                        [ht |-> t, pos |-> pos, next |-> r.idx])
               /\ \A w \in W : Mine(r.heap.iters, w) = Mine(hp.iters, w)
                               /\ r.idx \notin Mine(hp.iters, w)
               /\ Mine(r.heap.iters, r.idx) = {r.idx}
<1> DEFINE r == zend_hash_iterator_add(hp, t, pos)
           idx == r.idx
           new == [ht |-> t, pos |-> pos, next |-> r.idx]
           js == r.heap.iters
<1>0. hp \in HeapT
  BY DEF HeapOK
<1>1. /\ r.heap \in HeapT /\ idx \in Nat /\ Added(hp.iters, js, idx, new)
      /\ r.heap.tab = [hp.tab EXCEPT ![t].count = Count(@, 1)]
  BY <1>0, AddFacts
<1>2. new \in Iter /\ new.next = idx /\ new.ht = t /\ t # Null
  BY <1>1, SentinelAssumption DEF Iter
<1> HIDE DEF r, new
<1>3. js \in Seq(Iter) /\ hp.iters \in Seq(Iter) /\ Len(hp.iters) \in Nat /\ hp.tab \in [Table -> TableT]
  BY <1>0, <1>1 DEF HeapT
<1>4. /\ Linked(js) /\ SelfNull(js) /\ Owned(js, W \union {idx}) /\ idx \notin W
      /\ \A w \in W : Mine(js, w) = Mine(hp.iters, w) /\ idx \notin Mine(hp.iters, w)
      /\ Mine(js, idx) = {idx}
  <2>1. Linked(hp.iters) /\ SelfNull(hp.iters) /\ Owned(hp.iters, W)
    BY DEF HeapOK
  <2>2. Added(hp.iters, js, idx, new) /\ new.next = idx /\ new.ht # Null
    BY <1>1, <1>2, <1>3
  <2> HIDE DEF js, idx
  <2> QED
    <3>1. Owned(js, W \union {idx})
      BY <2>1, <2>2, AddOwned
    <3> QED
      BY <3>1, <2>1, <2>2, AddOwned
<1>5. \A u \in Table : r.heap.tab[u] = IF u = t THEN [hp.tab[t] EXCEPT !.count = @ + 1]
                                       ELSE hp.tab[u]
  <2>1. Count(hp.tab[t].count, 1) = hp.tab[t].count + 1
    BY CountUp
  <2> QED
    BY <2>1, <1>1, <1>3
<1>6. SameTables(hp.tab, r.heap.tab)
  <2> SUFFICES ASSUME NEW u \in Table
               PROVE  /\ r.heap.tab[u].kind = hp.tab[u].kind /\ r.heap.tab[u].slots = hp.tab[u].slots
                      /\ r.heap.tab[u].size = hp.tab[u].size /\ r.heap.tab[u].next = hp.tab[u].next
    BY DEF SameTables
  <2>1. hp.tab[u] \in TableT
    BY <1>3
  <2>2. r.heap.tab[u] = hp.tab[u] \/ r.heap.tab[u] = [hp.tab[u] EXCEPT !.count = @ + 1]
    BY <1>5
  <2> QED
    BY <2>1, <2>2 DEF TableT
<1>7. \A u \in Table : r.heap.tab[u].count = Cardinality(On(js, u))
  <2> SUFFICES ASSUME NEW u \in Table PROVE r.heap.tab[u].count = Cardinality(On(js, u))
    OBVIOUS
  <2>1. Cardinality(On(js, u)) =
           IF new.ht = u THEN Cardinality(On(hp.iters, u)) + 1 ELSE Cardinality(On(hp.iters, u))
    BY <1>1, <1>3, AddCount
  <2>2. hp.tab[u].count = Cardinality(On(hp.iters, u)) /\ hp.tab[u] \in TableT
    BY <1>3 DEF HeapOK
  <2> QED
    BY <2>1, <2>2, <1>2, <1>5 DEF TableT
<1>8. \A u \in Table : TableOK(r.heap.tab[u]) /\ (u \in L <=> r.heap.tab[u].kind # "free")
  BY <1>6 DEF SameTables, TableOK, HeapOK
<1>9. \A k \in 1..Len(js) : js[k].ht \in Table => js[k].ht \in L
  BY <1>1, <1>2 DEF Added, HeapOK
<1>10. HeapOK(r.heap, L, W \union {idx})
  BY <1>1, <1>4, <1>7, <1>8, <1>9 DEF HeapOK
<1> QED
  BY <1>1, <1>4, <1>6, <1>10 DEF r, new

-----------------------------------------------------------------------------
(* Copies of iterators.                                                    *)

\* js is is with iterator new at idx, linked into the ring of k behind k.
Copied(is, js, k, idx, new) ==
    /\ 1..Len(js) = 1..Len(is) \union {idx} /\ Len(js) \in Nat
    /\ idx \in 1..Len(is) => is[idx].ht = Null
    /\ js[idx].ht = new.ht /\ js[idx].pos = new.pos /\ js[idx].next = is[k].next
    /\ \A j \in 1..Len(is) : j # idx =>
          /\ js[j].ht = is[j].ht /\ js[j].pos = is[j].pos
          /\ js[j].next = IF j = k THEN idx ELSE is[j].next

\* The copy belongs to the walk of the iterator that was copied.
LEMMA CopyOwned ==
    ASSUME NEW is, NEW js, NEW W, NEW k, NEW idx, NEW new, NEW v \in W,
           Linked(is), SelfNull(is), Owned(is, W), Copied(is, js, k, idx, new),
           k \in Mine(is, v), new.ht \in Table, \A j \in Mine(is, v) : is[j].ht # new.ht
    PROVE  /\ Linked(js) /\ SelfNull(js) /\ Owned(js, W)
           /\ \A w \in W : Mine(js, w) = IF w = v THEN Mine(is, v) \union {idx} ELSE Mine(is, w)
           /\ \A w \in W : idx \notin Mine(is, w)
<1>1. Len(is) \in Nat /\ Len(js) \in Nat /\ idx \in 1..Len(js) /\ new.ht # Null
  BY SentinelAssumption DEF Copied, Linked
<1>2. \A w \in W : w \in 1..Len(is) /\ w \in 1..Len(js) /\ Mine(is, w) \subseteq InUse(is)
  BY DEF Owned, Parted, Single, Copied
<1>3. idx \notin InUse(is) /\ InUse(js) = InUse(is) \union {idx}
  BY <1>1 DEF InUse, Copied
<1>4. \A w \in W : idx \notin Mine(is, w)
  BY <1>2, <1>3
<1>5. k \in 1..Len(is) /\ k # idx /\ k \in InUse(is)
  BY <1>2, <1>4 DEF InUse
<1>6. \A j \in 1..Len(js) : j = idx \/ (j # idx /\ j \in 1..Len(is))
  BY DEF Copied
<1>7. Linked(js)
  <2> SUFFICES ASSUME NEW j \in 1..Len(js) PROVE js[j].next \in 1..Len(js)
    BY <1>1 DEF Linked
  <2>1. CASE j = idx
    BY <2>1, <1>5 DEF Copied, Linked
  <2>2. CASE j # idx
    BY <2>2, <1>6, <1>1 DEF Copied, Linked
  <2> QED
    BY <2>1, <2>2
<1>8. SelfNull(js)
  <2> SUFFICES ASSUME NEW j \in 1..Len(js), js[j].ht = Null PROVE js[j].next = j
    BY DEF SelfNull
  <2>1. j # idx /\ j \in 1..Len(is)
    BY <1>1, <1>6 DEF Copied
  <2>2. is[j].ht = Null /\ j # k
    BY <2>1, <1>5 DEF Copied, InUse
  <2> QED
    BY <2>1, <2>2 DEF Copied, SelfNull
<1>9. \A w \in W : /\ w \in Mine(is, w) /\ Closed(is, Mine(is, w))
                   /\ \A C : w \in C /\ Closed(is, C) => Mine(is, w) \subseteq C
  BY <1>2, MineFacts
<1>10. ASSUME NEW w \in W, w # v PROVE Mine(js, w) = Mine(is, w)
  <2>1. k \notin Mine(is, w)
    BY <1>10 DEF Owned, Parted, Single
  <2>2. \A j \in Mine(is, w) : js[j].next = is[j].next
    BY <2>1, <1>2, <1>4 DEF Copied, InUse
  <2> QED
    BY <2>2, <1>2, <1>7, MineSame
<1>11. Mine(js, v) = Mine(is, v) \union {idx}
  <2> DEFINE M == Mine(is, v) \union {idx}
  <2>1. Closed(js, M)
    <3> SUFFICES ASSUME NEW j \in M PROVE js[j].next \in M
      BY DEF Closed
    <3>1. CASE j = idx
      BY <3>1, <1>9 DEF Copied, Closed
    <3>2. CASE j # idx
      <4>1. j \in Mine(is, v) /\ j \in 1..Len(is) /\ is[j].next \in Mine(is, v)
        BY <3>2, <1>2, <1>9 DEF Closed, InUse
      <4> QED
        BY <3>2, <4>1 DEF Copied
    <3> QED
      BY <3>1, <3>2
  <2>2. /\ v \in Mine(js, v) /\ Closed(js, Mine(js, v))
        /\ \A C : v \in C /\ Closed(js, C) => Mine(js, v) \subseteq C
    BY <1>2, <1>7, MineFacts
  <2>3. Mine(js, v) \subseteq M
    BY <2>1, <2>2, <1>9
  <2>4. Mine(is, v) \subseteq Mine(js, v)
    <3> DEFINE D == Mine(js, v) \intersect Mine(is, v)
    <3>1. Closed(is, D)
      <4> SUFFICES ASSUME NEW j \in D PROVE is[j].next \in D
        BY DEF Closed
      <4>1. j \in 1..Len(is) /\ j # idx /\ is[j].next \in Mine(is, v) /\ js[j].next \in Mine(js, v)
        BY <1>2, <1>4, <1>9, <2>2 DEF Closed, InUse
      <4>2. CASE j = k
        <5>1. idx \in Mine(js, v)
          BY <4>1, <4>2 DEF Copied
        <5>2. js[idx].next \in Mine(js, v)
          BY <5>1, <2>2 DEF Closed
        <5> QED
          BY <5>2, <4>1, <4>2 DEF Copied
      <4>3. CASE j # k
        BY <4>1, <4>3 DEF Copied
      <4> QED
        BY <4>2, <4>3
    <3>2. v \in D
      BY <2>2, <1>9
    <3> HIDE DEF D
    <3>3. Mine(is, v) \subseteq D
      BY <3>1, <3>2, <1>9
    <3> QED
      BY <3>3 DEF D
  <2>5. idx \in Mine(js, v)
    <3>1. js[k].next = idx
      BY <1>5 DEF Copied
    <3> QED
      BY <3>1, <2>2, <2>4 DEF Closed
  <2> QED
    BY <2>3, <2>4, <2>5
<1>12. \A w \in W : Mine(js, w) = IF w = v THEN Mine(is, v) \union {idx} ELSE Mine(is, w)
  BY <1>10, <1>11
<1>13. Owned(js, W)
  <2>1. W \in SUBSET (1..Len(js)) /\ IsFiniteSet(W)
    BY <1>2 DEF Owned, Parted, Single
  <2>2. \A u, w \in W : u # w => Mine(js, u) \intersect Mine(js, w) = {}
    BY <1>12, <1>4 DEF Owned, Parted, Single
  <2>3. \A j : j \in InUse(js) <=> \E w \in W : j \in Mine(js, w)
    <3>1. \A j : (\E w \in W : j \in Mine(js, w)) <=> (j = idx \/ \E w \in W : j \in Mine(is, w))
      BY <1>12
    <3> QED
      BY <3>1, <1>3 DEF Owned, Parted, Single
  <2>4. ASSUME NEW w \in W, NEW i \in Mine(js, w), NEW j \in Mine(js, w),
               js[i].ht \in Table, js[i].ht = js[j].ht
        PROVE  i = j
    <3>1. \A l \in Mine(is, w) : l # idx /\ l \in 1..Len(is) /\ js[l].ht = is[l].ht
      BY <1>2, <1>4 DEF InUse, Copied
    <3>2. CASE i \in Mine(is, w) /\ j \in Mine(is, w)
      BY <3>1, <3>2, <2>4 DEF Owned, Parted, Single
    <3>3. CASE i \notin Mine(is, w) \/ j \notin Mine(is, w)
      <4>1. w = v /\ (i = idx \/ j = idx) /\ js[idx].ht = new.ht
        BY <3>3, <1>12 DEF Copied
      <4>2. \A l \in Mine(is, v) : js[l].ht # new.ht
        BY <3>1, <4>1
      <4> QED
        BY <4>1, <4>2, <2>4, <1>12
    <3> QED
      BY <3>2, <3>3
  <2> QED
    BY <2>1, <2>2, <2>3, <2>4 DEF Owned, Parted, Single
<1> QED
  BY <1>4, <1>7, <1>8, <1>12, <1>13

\* A step of the loop in zend_array_dup_ht_iterators.
DupStep(h, k, src, dst) ==
    IF h.iters[k].ht # src THEN h
    ELSE LET add == zend_hash_iterator_add(h, dst, h.iters[k].pos)
         IN  [add.heap EXCEPT !.iters[add.idx].next = h.iters[k].next,
                              !.iters[k].next = add.idx]

\* The step keeps heaps what they are and copies one iterator.
LEMMA DupStepFacts ==
    ASSUME NEW h \in HeapT, NEW k \in 1..Len(h.iters), NEW src \in Table, NEW dst \in Table
    PROVE  LET r == DupStep(h, k, src, dst)
               add == zend_hash_iterator_add(h, dst, h.iters[k].pos)
           IN  /\ r \in HeapT
               /\ h.iters[k].ht # src => r = h
               /\ h.iters[k].ht = src =>
                     r.tab = add.heap.tab /\ Copied(h.iters, r.iters, k, add.idx,
                        [ht |-> dst, pos |-> h.iters[k].pos, next |-> add.idx])
<1> DEFINE is == h.iters
           add == zend_hash_iterator_add(h, dst, h.iters[k].pos)
           idx == add.idx
           new == [ht |-> dst, pos |-> h.iters[k].pos, next |-> add.idx]
           az == add.heap.iters
           r == DupStep(h, k, src, dst)
<1>1. is \in Seq(Iter) /\ Len(is) \in Nat /\ is[k] \in Iter /\ is[k].pos \in Nat /\ is[k].next \in Nat
  <2>1. is \in Seq(Iter)
    BY DEF HeapT
  <2>2. is[k] \in Iter /\ Len(is) \in Nat
    BY <2>1, ElementOfSeq, LenProperties
  <2> QED
    BY <2>1, <2>2 DEF Iter
<1>2. /\ add.heap \in HeapT /\ idx \in Nat /\ Added(is, az, idx, new)
      /\ add.heap.tab = [h.tab EXCEPT ![dst].count = Count(@, 1)]
  BY <1>1, AddFacts
<1>3. CASE is[k].ht # src
  <2>1. r = h
    BY <1>3 DEF DupStep
  <2> HIDE DEF r
  <2> QED
    BY <1>3, <2>1 DEF r
<1>4. CASE is[k].ht = src
  <2> DEFINE x == [az[idx] EXCEPT !.next = is[k].next]
             bs == Put(az, idx, x)
             y == [bs[k] EXCEPT !.next = idx]
             cs == Put(bs, k, y)
  <2>1. r = [add.heap EXCEPT !.iters[idx].next = is[k].next, !.iters[k].next = idx]
    BY <1>4 DEF DupStep
  <2>2. src # Null /\ k # idx /\ idx \in 1..Len(az) /\ k \in 1..Len(az) /\ az[k] = is[k]
    BY <1>1, <1>2, <1>4, SentinelAssumption DEF Added
  <2>3. az \in Seq(Iter) /\ Len(az) \in Nat
    BY <1>2 DEF HeapT
  <2> HIDE DEF r, az, idx, is, add, new
  <2>4. r = [tab |-> add.heap.tab, iters |-> cs]
    <3> DEFINE ha == add.heap
               hb == [ha EXCEPT !.iters[idx].next = is[k].next]
               hc == [hb EXCEPT !.iters[k].next = idx]
    <3>1. ha = [tab |-> ha.tab, iters |-> az]
      BY <1>2 DEF HeapT, az
    <3>2. r = hc
      BY <2>1
    <3> HIDE DEF ha
    <3>3. hb = [tab |-> ha.tab, iters |-> bs]
      <4>1. ha.iters = az
        BY <3>1
      <4>2. hb = [ha EXCEPT !.iters = [ha.iters EXCEPT ![idx] = [ha.iters[idx] EXCEPT !.next = is[k].next]]]
        OBVIOUS
      <4>3. hb = [ha EXCEPT !.iters = bs]
        BY <4>1, <4>2 DEF Put
      <4> HIDE DEF hb, bs
      <4> QED
        BY <4>3, <3>1
    <3> HIDE DEF hb, bs
    <3>4. hc = [tab |-> ha.tab, iters |-> cs]
      <4>1. hb.iters = bs /\ hb.tab = ha.tab
        BY <3>3
      <4>2. hc = [hb EXCEPT !.iters = [hb.iters EXCEPT ![k] = [hb.iters[k] EXCEPT !.next = idx]]]
        OBVIOUS
      <4>3. hc = [hb EXCEPT !.iters = cs]
        BY <4>1, <4>2 DEF Put
      <4> HIDE DEF hc, cs
      <4> QED
        BY <4>3, <3>3
    <3> QED
      BY <3>2, <3>4 DEF ha
  <2>5. /\ bs \in Seq(Iter) /\ Len(bs) = Len(az) /\ bs[k] = is[k] /\ bs[k] \in Iter
        /\ \A j \in 1..Len(az) : bs[j] = IF j = idx THEN x ELSE az[j]
    <3>1. az[idx] \in Iter
      BY <2>2, <2>3, ElementOfSeq
    <3>2. x \in Iter
      BY <3>1, <1>1 DEF Iter
    <3> HIDE DEF x
    <3>a. /\ bs \in Seq(Iter) /\ Len(bs) = Len(az)
          /\ \A j \in 1..Len(az) : bs[j] = IF j = idx THEN x ELSE az[j]
      BY <3>2, <2>2, <2>3, PutIter
    <3> HIDE DEF bs
    <3>3. bs \in Seq(Iter) /\ Len(bs) = Len(az) /\ bs[k] = az[k]
      BY <3>a, <2>2
    <3> QED
      BY <3>a, <3>3, <2>2, <1>1
  <2>6. cs \in Seq(Iter) /\ Len(cs) = Len(az)
    <3>1. y \in Iter
      BY <2>5, <1>2 DEF Iter
    <3> HIDE DEF bs, y
    <3> QED
      BY <3>1, <2>5, <2>2, <2>3, PutIter
  <2>7. \A j \in 1..Len(az) : cs[j] = IF j = k THEN [is[k] EXCEPT !.next = idx]
                                      ELSE IF j = idx THEN [az[idx] EXCEPT !.next = is[k].next]
                                      ELSE az[j]
    <3>1. x \in Iter /\ y \in Iter /\ y = [is[k] EXCEPT !.next = idx]
      <4>1. az[idx] \in Iter
        BY <2>2, <2>3, ElementOfSeq
      <4> HIDE DEF bs
      <4> QED
        BY <4>1, <1>1, <1>2, <2>5 DEF Iter
    <3> HIDE DEF x, y
    <3>d. x \in Iter /\ y \in Iter
      BY <3>1
    <3> HIDE DEF bs
    <3>2. \A j \in 1..Len(az) : bs[j] = IF j = idx THEN x ELSE az[j]
      BY <2>5
    <3>b. k \in 1..Len(bs)
      BY <2>2, <2>5
    <3>3. /\ cs \in Seq(Iter) /\ Len(cs) = Len(bs)
          /\ \A j \in 1..Len(bs) : cs[j] = IF j = k THEN y ELSE bs[j]
      BY <3>b, <2>5, <3>d, PutIter
    <3>c. Len(bs) = Len(az)
      BY <2>5
    <3> HIDE DEF cs
    <3> QED
      BY <2>2, <3>1, <3>2, <3>3, <3>c DEF x
  <2> HIDE DEF cs, bs
  <2>8. Copied(is, cs, k, idx, new)
    <3>1. 1..Len(cs) = 1..Len(is) \union {idx} /\ Len(cs) \in Nat
          /\ (idx \in 1..Len(is) => is[idx].ht = Null)
      BY <2>6, <2>3, <1>2 DEF Added
    <3>2. /\ cs[idx].ht = new.ht /\ cs[idx].pos = new.pos /\ cs[idx].next = is[k].next
      <4>1. az[idx] = new /\ cs[idx] = [az[idx] EXCEPT !.next = is[k].next]
        BY <2>2, <2>7, <1>2 DEF Added
      <4> QED
        BY <4>1
    <3>3. ASSUME NEW j \in 1..Len(is), j # idx
          PROVE  /\ cs[j].ht = is[j].ht /\ cs[j].pos = is[j].pos
                 /\ cs[j].next = IF j = k THEN idx ELSE is[j].next
      <4>0. is[j] \in Iter
        BY <1>1, ElementOfSeq
      <4>1. j \in 1..Len(az) /\ az[j] = is[j] /\ is[j] \in Iter
        BY <3>3, <4>0, <1>1, <1>2 DEF Added
      <4>2. CASE j = k
        <5>1. cs[j] = [is[k] EXCEPT !.next = idx]
          BY <4>1, <4>2, <2>7
        <5> QED
          BY <5>1, <4>1, <4>2 DEF Iter
      <4>3. CASE j # k
        BY <3>3, <4>1, <4>3, <2>7
      <4> QED
        BY <4>2, <4>3
    <3> QED
      BY <3>1, <3>2, <3>3 DEF Copied
  <2>9. r \in HeapT
    BY <2>4, <2>6, <1>2 DEF HeapT
  <2>10. r.tab = add.heap.tab /\ r.iters = cs
    BY <2>4
  <2> HIDE DEF add, new
  <2> QED
    BY <1>4, <2>8, <2>9, <2>10 DEF r, add, new, idx, is
<1> QED
  BY <1>3, <1>4

\* What the loop has done to heap hp after n iterators: those on src have
\* copies on dst, at the same positions and in the rings of the same walks.
DupKeeps(hp, h, n, src, dst, W) ==
    /\ SameTables(hp.tab, h.tab) /\ Len(hp.iters) <= Len(h.iters)
    /\ \A k \in InUse(hp.iters) : /\ k \in InUse(h.iters) /\ h.iters[k].ht = hp.iters[k].ht
                                  /\ h.iters[k].pos = hp.iters[k].pos
    /\ \A k \in InUse(h.iters) : k \in InUse(hp.iters) \/ h.iters[k].ht = dst
    /\ \A w \in W : Mine(hp.iters, w) \subseteq Mine(h.iters, w)
    /\ \A w \in W : \A k \in Mine(h.iters, w) : h.iters[k].ht = dst =>
          \E l \in Mine(hp.iters, w) : /\ l <= n /\ hp.iters[l].ht = src
                                       /\ hp.iters[l].pos = h.iters[k].pos

\* A step copies the iterator at n, if it is on src, into a ring that has none
\* on dst yet.
LEMMA DupStepHeap ==
    ASSUME NEW hp, NEW h, NEW L, NEW W, NEW n \in 1..Len(hp.iters), NEW src \in Table, NEW dst \in Table,
           HeapOK(hp, L, W), HeapOK(h, L, W), Room(W), src # dst, dst \in L,
           DupKeeps(hp, h, n - 1, src, dst, W)
    PROVE  HeapOK(DupStep(h, n, src, dst), L, W)
           /\ DupKeeps(hp, DupStep(h, n, src, dst), n, src, dst, W)
<1> DEFINE is == h.iters
           add == zend_hash_iterator_add(h, dst, is[n].pos)
           idx == add.idx
           new == [ht |-> dst, pos |-> is[n].pos, next |-> idx]
           r == DupStep(h, n, src, dst)
           js == r.iters
<1>0. /\ hp \in HeapT /\ h \in HeapT /\ Len(hp.iters) \in Nat /\ Len(is) \in Nat
      /\ Len(hp.iters) <= Len(is) /\ n \in 1..Len(is) /\ Linked(is) /\ n \in Nat
  BY DEF HeapOK, Linked, DupKeeps
<1>1. is \in Seq(Iter)
  BY <1>0 DEF HeapT
<1>2. is[n] \in Iter /\ is[n].pos \in Nat
  <2>1. is[n] \in Iter
    BY <1>0, <1>1, ElementOfSeq
  <2> QED
    BY <2>1 DEF Iter
<1>3. /\ r \in HeapT
      /\ is[n].ht # src => r = h
      /\ is[n].ht = src => r.tab = add.heap.tab /\ Copied(is, js, n, idx, new)
  BY <1>0, DupStepFacts
<1>4. CASE is[n].ht # src
  <2>1. r = h
    BY <1>3, <1>4
  <2>2. \A l \in Nat : l <= n - 1 => l <= n
    BY <1>0
  <2>3. \A w \in W : Mine(hp.iters, w) \subseteq Nat
    BY MineFacts DEF HeapOK, Owned, Parted, Single
  <2>4. DupKeeps(hp, h, n, src, dst, W)
    BY <2>2, <2>3 DEF DupKeeps
  <2> HIDE DEF r
  <2> QED
    BY <2>1, <2>4 DEF r
<1>5. CASE is[n].ht = src
  <2>1. r.tab = add.heap.tab /\ Copied(is, js, n, idx, new)
    BY <1>3, <1>5
  <2>2. /\ HeapOK(add.heap, L, W \union {idx}) /\ SameTables(h.tab, add.heap.tab)
        /\ Added(is, add.heap.iters, idx, new)
    BY <1>2, AddHeap
  <2> HIDE DEF add, r, idx, js, new
  <2>3. Linked(is) /\ SelfNull(is) /\ Owned(is, W) /\ Owned(hp.iters, W) /\ Linked(hp.iters)
    BY DEF HeapOK
  <2>4. n \in InUse(is) /\ n \in InUse(hp.iters) /\ hp.iters[n].ht = src
    <3>1. n \in InUse(is)
      BY <1>0, <1>5, SentinelAssumption DEF InUse
    <3>2. n \in InUse(hp.iters)
      BY <3>1, <1>5 DEF DupKeeps
    <3> QED
      BY <3>1, <3>2, <1>5 DEF DupKeeps
  <2>5. PICK v \in W : n \in Mine(hp.iters, v)
    BY <2>3, <2>4 DEF Owned, Parted, Single
  <2>6. n \in Mine(is, v)
    BY <2>5 DEF DupKeeps
  <2>7. \A j \in Mine(is, v) : is[j].ht # dst
    <3> SUFFICES ASSUME NEW j \in Mine(is, v), is[j].ht = dst PROVE FALSE
      OBVIOUS
    <3>1. PICK l \in Mine(hp.iters, v) : l <= n - 1 /\ hp.iters[l].ht = src
      BY DEF DupKeeps
    <3>2. l = n
      BY <3>1, <2>3, <2>4, <2>5 DEF Owned, Parted, Single
    <3> QED
      BY <3>1, <3>2, <1>0
  <2>8. new.ht = dst /\ new.pos = is[n].pos
    BY DEF new
  <2>9. /\ Linked(js) /\ SelfNull(js) /\ Owned(js, W)
        /\ \A w \in W : Mine(js, w) = IF w = v THEN Mine(is, v) \union {idx} ELSE Mine(is, w)
        /\ \A w \in W : idx \notin Mine(is, w)
    BY <2>1, <2>3, <2>6, <2>7, <2>8, CopyOwned
  <2>10. \A u : On(js, u) = On(add.heap.iters, u)
    <3>1. 1..Len(js) = 1..Len(add.heap.iters) /\ 1..Len(js) = 1..Len(is) \union {idx}
      BY <2>1, <2>2 DEF Copied, Added
    <3>2. \A k \in 1..Len(js) : js[k].ht = add.heap.iters[k].ht
      BY <3>1, <2>1, <2>2 DEF Copied, Added
    <3> QED
      BY <3>1, <3>2 DEF On
  <2>11. HeapOK(r, L, W)
    <3>1. \A t \in Table : /\ TableOK(r.tab[t]) /\ (t \in L <=> r.tab[t].kind # "free")
                           /\ r.tab[t].count = Cardinality(On(js, t))
      BY <2>1, <2>2, <2>10 DEF HeapOK
    <3>2. \A k \in 1..Len(js) : js[k].ht \in Table => js[k].ht \in L
      BY <2>1, <2>8 DEF HeapOK, Copied
    <3> QED
      BY <3>1, <3>2, <1>3, <2>9 DEF HeapOK, js
  <2>12. SameTables(hp.tab, r.tab) /\ Len(hp.iters) <= Len(js) /\ Len(js) \in Nat
    <3>1. SameTables(hp.tab, r.tab)
      BY <2>1, <2>2 DEF SameTables, DupKeeps
    <3>2. Len(is) <= Len(js) /\ Len(js) \in Nat
      <4>1. Len(js) \in Nat /\ \A k \in 1..Len(is) : k \in 1..Len(js)
        BY <2>1 DEF Copied
      <4>2. Len(is) = 0 \/ Len(is) \in 1..Len(is)
        BY <1>0
      <4> QED
        BY <4>1, <4>2, <1>0
    <3> QED
      BY <3>1, <3>2, <1>0
  <2>13. idx \notin InUse(is)
    BY <2>1 DEF Copied, InUse
  <2>14. \A k \in InUse(is) : /\ k \in InUse(js) /\ js[k].ht = is[k].ht /\ js[k].pos = is[k].pos
                              /\ k # idx
    BY <2>1, <2>13 DEF Copied, InUse
  <2>15. \A k \in InUse(js) : k \in InUse(is) \/ (k = idx /\ js[k].ht = dst)
    BY <2>1, <2>8 DEF Copied, InUse
  <2>16. \A w \in W : Mine(is, w) \subseteq InUse(is) /\ Mine(hp.iters, w) \subseteq Nat
    BY <2>3, MineFacts DEF Owned, Parted, Single
  <2>17. ASSUME NEW w \in W, NEW k \in Mine(js, w), js[k].ht = dst
         PROVE  \E l \in Mine(hp.iters, w) : l <= n /\ hp.iters[l].ht = src
                                             /\ hp.iters[l].pos = js[k].pos
    <3>1. CASE k \in Mine(is, w)
      <4>1. is[k].ht = dst /\ is[k].pos = js[k].pos
        BY <3>1, <2>14, <2>16, <2>17
      <4>2. PICK l \in Mine(hp.iters, w) : l <= n - 1 /\ hp.iters[l].ht = src
                                           /\ hp.iters[l].pos = is[k].pos
        BY <3>1, <4>1 DEF DupKeeps
      <4>3. l \in Nat /\ l <= n
        BY <4>2, <2>16, <1>0
      <4> QED
        BY <4>1, <4>2, <4>3
    <3>2. CASE k \notin Mine(is, w)
      <4>1. k = idx /\ w = v
        BY <3>2, <2>9, <2>17
      <4>2. js[k].pos = is[n].pos /\ hp.iters[n].pos = is[n].pos
        BY <4>1, <2>1, <2>4, <2>8 DEF Copied, DupKeeps
      <4> QED
        BY <4>1, <4>2, <2>4, <2>5, <1>0
    <3> QED
      BY <3>1, <3>2
  <2>18. DupKeeps(hp, r, n, src, dst, W)
    <3>1. \A k \in InUse(hp.iters) : /\ k \in InUse(js) /\ js[k].ht = hp.iters[k].ht
                                     /\ js[k].pos = hp.iters[k].pos
      BY <2>14 DEF DupKeeps
    <3>2. \A k \in InUse(js) : k \in InUse(hp.iters) \/ js[k].ht = dst
      BY <2>14, <2>15 DEF DupKeeps
    <3>3. \A w \in W : Mine(hp.iters, w) \subseteq Mine(js, w)
      BY <2>9 DEF DupKeeps
    <3> QED
      BY <3>1, <3>2, <3>3, <2>12, <2>17 DEF DupKeeps, js
  <2> QED
    BY <2>11, <2>18 DEF r
<1> QED
  BY <1>4, <1>5

\* The recursion of zend_array_dup_ht_iterators.
DupRec(f, hp, src, dst) ==
    f = [n \in 0..Len(hp.iters) |->
           IF n = 0 THEN hp ELSE DupStep(f[n - 1], n, src, dst)]

\* It has a solution, whose last value is the result.
LEMMA DupUnfolds ==
    ASSUME NEW hp \in HeapT, NEW src \in Table, NEW dst \in Table
    PROVE  \E f : /\ DupRec(f, hp, src, dst)
                  /\ zend_array_dup_ht_iterators(hp, src, dst) = f[Len(hp.iters)]
<1>0. PICK n \in Nat : n = Len(hp.iters)
  BY LenProperties DEF HeapT
<1> DEFINE Step(h, i) == IF i \in 1..Len(h.iters) THEN DupStep(h, i, src, dst) ELSE h
           G == [i \in Int |-> [h \in HeapT |-> Step(h, i)]]
           F == CHOOSE f : DupRec(f, hp, src, dst)
<1>1. ASSUME NEW h \in HeapT, NEW i \in Int PROVE Step(h, i) \in HeapT
  <2>1. CASE i \in 1..Len(h.iters)
    <3>1. DupStep(h, i, src, dst) \in HeapT
      BY <2>1, DupStepFacts
    <3> QED
      BY <2>1, <3>1
  <2>2. CASE i \notin 1..Len(h.iters)
    BY <2>2
  <2> QED
    BY <2>1, <2>2
<1>2. Stepper(G, HeapT)
  <2> HIDE DEF Step
  <2> QED
    BY <1>1 DEF Stepper
<1>3. PICK f \in [0..n -> HeapT] : f[0] = hp /\ \A i \in 0..n : i # 0 => f[i] = Step(f[i - 1], i)
  <2>1. 0 \in Int /\ n \in Int /\ 0 <= n
    OBVIOUS
  <2> HIDE DEF G, Step, F
  <2>2. PICK f \in [0..n -> HeapT] : Solves(f, 0, n, hp, G)
    BY <1>2, <2>1, RecursionExists
  <2>3. \A i \in 0..n : i # 0 => f[i] = Step(f[i - 1], i)
    <3> SUFFICES ASSUME NEW i \in 0..n, i # 0 PROVE f[i] = Step(f[i - 1], i)
      OBVIOUS
    <3>1. f[i] = G[i][f[i - 1]] /\ i \in Int /\ i - 1 \in 0..n
      BY <2>2 DEF Solves
    <3>2. f[i - 1] \in HeapT
      BY <3>1, <2>2
    <3> QED
      BY <3>1, <3>2 DEF G
  <2>4. f[0] = hp
    BY <2>2 DEF Solves
  <2> QED
    BY <2>3, <2>4
<1>4. \A i \in 0..n : n <= Len(f[i].iters)
  <2> DEFINE P == { i \in 0..n : n <= Len(f[i].iters) }
  <2>1. 0 \in P
    BY <1>0, <1>3
  <2>2. ASSUME NEW i \in 0..n, i # 0, i - 1 \in P PROVE i \in P
    <3>1. i - 1 \in 0..n /\ i \in 1..n /\ n <= Len(f[i - 1].iters)
      BY <2>2
    <3>2. f[i - 1] \in HeapT /\ f[i] \in HeapT
      BY <3>1, <1>3
    <3>3. Len(f[i - 1].iters) \in Nat /\ Len(f[i].iters) \in Nat
      BY <3>2, LenProperties DEF HeapT
    <3>4. i \in 1..Len(f[i - 1].iters)
      BY <3>1, <3>3
    <3>5. f[i] = DupStep(f[i - 1], i, src, dst)
      BY <1>3, <2>2, <3>4
    <3>6. CASE f[i] = f[i - 1]
      BY <3>6, <3>1
    <3>7. CASE f[i] # f[i - 1]
      <4>1. \E idx, new : Copied(f[i - 1].iters, f[i].iters, i, idx, new)
        <5> DEFINE h == f[i - 1]
                   r == DupStep(h, i, src, dst)
                   add == zend_hash_iterator_add(h, dst, h.iters[i].pos)
                   new == [ht |-> dst, pos |-> h.iters[i].pos, next |-> add.idx]
        <5>1. h \in HeapT /\ i \in 1..Len(h.iters) /\ f[i] = r /\ r # h
          BY <3>2, <3>4, <3>5, <3>7
        <5>2. (h.iters[i].ht # src => r = h) /\ (h.iters[i].ht = src => Copied(h.iters, r.iters, i, add.idx, new))
          <6> HIDE DEF h
          <6> QED
            BY <5>1, DupStepFacts
        <5>3. Copied(h.iters, f[i].iters, i, add.idx, new)
          BY <5>1, <5>2
        <5> HIDE DEF add, new
        <5> QED
          BY <5>3
      <4>2. \A k \in 1..Len(f[i - 1].iters) : k \in 1..Len(f[i].iters)
        BY <4>1 DEF Copied
      <4>3. Len(f[i - 1].iters) <= Len(f[i].iters)
        BY <4>2, <3>3, <3>4
      <4>4. n <= Len(f[i].iters)
        BY <4>3, <3>1, <3>3
      <4> QED
        BY <4>4
    <3> QED
      BY <3>6, <3>7
  <2>3. \A i \in 0..n : i \in P
    <3> HIDE DEF P
    <3> QED
      BY <2>1, <2>2, IntervalInduction
  <2> QED
    BY <2>3
<1>5. ASSUME NEW i \in 0..n, i # 0 PROVE f[i] = DupStep(f[i - 1], i, src, dst)
  <2>1. i - 1 \in 0..n /\ i \in 1..n
    BY <1>5
  <2>2. f[i - 1] \in HeapT /\ n <= Len(f[i - 1].iters)
    BY <2>1, <1>3, <1>4
  <2>3. Len(f[i - 1].iters) \in Nat
    BY <2>2, LenProperties DEF HeapT
  <2>4. i \in 1..Len(f[i - 1].iters)
    BY <2>1, <2>2, <2>3
  <2> QED
    BY <1>3, <1>5, <2>4
<1>6. DupRec(f, hp, src, dst)
  <2> DEFINE g == [i \in 0..n |-> IF i = 0 THEN hp ELSE DupStep(f[i - 1], i, src, dst)]
  <2>1. \A i \in 0..n : f[i] = g[i]
    BY <1>3, <1>5
  <2>2. f = g
    <3> HIDE DEF Step
    <3> QED
      BY <1>3, <2>1
  <2> QED
    BY <2>2, <1>0 DEF DupRec
<1>7. DupRec(F, hp, src, dst)
  <2> HIDE DEF Step, G
  <2> QED
    BY <1>6
<1>8. zend_array_dup_ht_iterators(hp, src, dst) = F[Len(hp.iters)]
  BY DEF zend_array_dup_ht_iterators, DupRec, DupStep
<1> QED
  BY <1>7, <1>8

\* The whole loop.
LEMMA DupHeap ==
    ASSUME NEW hp, NEW L, NEW W, HeapOK(hp, L, W), Room(W),
           NEW src \in Table, NEW dst \in Table, src # dst, dst \in L, On(hp.iters, dst) = {}
    PROVE  LET r == zend_array_dup_ht_iterators(hp, src, dst)
           IN  HeapOK(r, L, W) /\ DupKeeps(hp, r, Len(hp.iters), src, dst, W)
<1>0. hp \in HeapT /\ Len(hp.iters) \in Nat /\ Linked(hp.iters) /\ Owned(hp.iters, W)
  BY DEF HeapOK, Linked
<1>1. PICK f : /\ DupRec(f, hp, src, dst)
               /\ zend_array_dup_ht_iterators(hp, src, dst) = f[Len(hp.iters)]
  BY <1>0, DupUnfolds
<1> DEFINE n == Len(hp.iters)
           P == { i \in 0..n : HeapOK(f[i], L, W) /\ DupKeeps(hp, f[i], i, src, dst, W) }
<1>2. \A i \in 0..n : f[i] = IF i = 0 THEN hp ELSE DupStep(f[i - 1], i, src, dst)
  BY <1>1 DEF DupRec
<1>3. 0 \in P
  <2>1. 0 \in 0..n /\ f[0] = hp
    BY <1>0, <1>2
  <2>2. SameTables(hp.tab, hp.tab)
    BY DEF SameTables
  <2>3. \A w \in W : \A k \in Mine(hp.iters, w) : hp.iters[k].ht # dst
    BY <1>0 DEF Owned, Parted, Single, InUse, On
  <2>4. DupKeeps(hp, hp, 0, src, dst, W)
    BY <2>2, <2>3, <1>0 DEF DupKeeps
  <2> QED
    BY <2>1, <2>4
<1>4. ASSUME NEW i \in 0..n, i # 0, i - 1 \in P PROVE i \in P
  <2>1. i \in 1..n /\ f[i] = DupStep(f[i - 1], i, src, dst)
    BY <1>0, <1>2, <1>4
  <2>2. HeapOK(f[i - 1], L, W) /\ DupKeeps(hp, f[i - 1], i - 1, src, dst, W)
    BY <1>4
  <2>3. /\ HeapOK(DupStep(f[i - 1], i, src, dst), L, W)
        /\ DupKeeps(hp, DupStep(f[i - 1], i, src, dst), i, src, dst, W)
    BY <2>1, <2>2, DupStepHeap
  <2> QED
    BY <2>1, <2>3
<1>5. \A i \in 0..n : i \in P
  <2>1. n \in Int /\ 0 \in Int
    BY <1>0
  <2> HIDE DEF P, n
  <2> QED
    BY <2>1, <1>3, <1>4, IntervalInduction
<1>6. n \in P
  BY <1>0, <1>5
<1> QED
  BY <1>1, <1>6

-----------------------------------------------------------------------------
(* Iterators are freed.                                                    *)

\* The greatest element of a set of numbers up to n, with zero.
LEMMA MaxIs ==
    ASSUME NEW n \in Nat, NEW S \in SUBSET (1..n)
    PROVE  /\ Max({0} \union S) \in 0..n
           /\ Max({0} \union S) \in {0} \union S
           /\ \A y \in S : y <= Max({0} \union S)
<1> DEFINE T == {0} \union S
<1>1. \E x \in T : \A y \in T : x >= y
  <2>1. CASE S = {}
    <3>1. 0 \in T /\ \A y \in T : 0 >= y
      BY <2>1
    <3> QED
      BY <3>1
  <2>2. CASE S # {}
    <3>1. PICK x \in S : \A y \in S : y <= x
      BY <2>2, GreatestElement
    <3>2. x \in T /\ \A y \in T : x >= y
      BY <3>1
    <3> QED
      BY <3>2
  <2> QED
    BY <2>1, <2>2
<1> DEFINE m == Max(T)
<1>2. m \in T /\ \A y \in T : m >= y
  BY <1>1 DEF Max
<1> HIDE DEF m
<1>3. m \in 0..n /\ m \in {0} \union S /\ \A y \in S : y <= m
  BY <1>2
<1> QED
  BY <1>3 DEF m

\* js is is without the iterators S, and without free ones at its end.
Freed(is, js, S) ==
    /\ js \in Seq(Iter) /\ Len(js) <= Len(is)
    /\ \A k \in 1..Len(js) :
          js[k] = IF k \in S THEN [ht |-> Null, pos |-> 1, next |-> k] ELSE is[k]
    /\ \A k \in 1..Len(is) : k \notin S /\ is[k].ht # Null => k \in 1..Len(js)

\* What Free does.
LEMMA FreeFacts ==
    ASSUME NEW hp \in HeapT, NEW S \in SUBSET (1..Len(hp.iters))
    PROVE  /\ Freed(hp.iters, Free(hp, S).iters, S)
           /\ Free(hp, S).tab =
                 [t \in Table |-> [hp.tab[t] EXCEPT !.count =
                    Count(@, -Cardinality({ k \in S : hp.iters[k].ht = t }))]]
           /\ Free(hp, S) = [tab |-> Free(hp, S).tab, iters |-> Free(hp, S).iters]
<1> DEFINE is == hp.iters
           ks == [k \in DOMAIN is |->
                    IF k \in S THEN [ht |-> Null, pos |-> 1, next |-> k] ELSE is[k]]
           U == { k \in DOMAIN ks : ks[k].ht # Null }
           m == Max({0} \union U)
           js == SubSeq(ks, 1, m)
<1>1. is \in Seq(Iter) /\ Len(is) \in Nat /\ DOMAIN is = 1..Len(is)
  BY DEF HeapT
<1>2. ks \in Seq(Iter) /\ Len(ks) = Len(is) /\ DOMAIN ks = 1..Len(is)
  <2>1. \A k \in 1..Len(is) : ks[k] \in Iter
    <3> SUFFICES ASSUME NEW k \in 1..Len(is) PROVE ks[k] \in Iter
      OBVIOUS
    <3>1. is[k] \in Iter
      BY <1>1, ElementOfSeq
    <3>2. [ht |-> Null, pos |-> 1, next |-> k] \in Iter
      BY <1>1 DEF Iter
    <3> QED
      BY <3>1, <3>2, <1>1
  <2>2. DOMAIN ks = 1..Len(is)
    BY <1>1
  <2>3. ks = [k \in 1..Len(is) |-> ks[k]]
    BY <1>1
  <2> HIDE DEF ks
  <2> QED
    BY <1>1, <2>1, <2>2, <2>3
<1>3. \A k \in 1..Len(is) : ks[k] = IF k \in S THEN [ht |-> Null, pos |-> 1, next |-> k] ELSE is[k]
  BY <1>1
<1> HIDE DEF ks
<1>4. m \in 0..Len(is) /\ \A y \in U : y <= m
  <2>1. U \in SUBSET (1..Len(is))
    BY <1>2
  <2> HIDE DEF U
  <2> QED
    BY <2>1, <1>1, MaxIs
<1> HIDE DEF m
<1>5. /\ js \in Seq(Iter) /\ Len(js) = m /\ \A k \in 1..m : js[k] = ks[k]
  <2>1. \A k \in 1..m : ks[k] \in Iter
    BY <1>1, <1>2, <1>4, ElementOfSeq
  <2>2. m \in Int /\ 1 \in Int /\ m >= 0
    BY <1>1, <1>4
  <2>3. /\ js \in Seq(Iter) /\ Len(js) = IF 1 <= m THEN m - 1 + 1 ELSE 0
        /\ \A i \in 1..(m - 1 + 1) : js[i] = ks[1 + i - 1]
    BY <2>1, <2>2, <1>2, SubSeqProperties
  <2> HIDE DEF js
  <2> QED
    BY <2>2, <2>3
<1>6. Freed(is, js, S)
  <2> HIDE DEF js
  <2>1. \A k \in 1..Len(js) : js[k] = IF k \in S THEN [ht |-> Null, pos |-> 1, next |-> k] ELSE is[k]
    <3> SUFFICES ASSUME NEW k \in 1..Len(js)
                 PROVE  js[k] = IF k \in S THEN [ht |-> Null, pos |-> 1, next |-> k] ELSE is[k]
      OBVIOUS
    <3>1. k \in 1..m /\ k \in 1..Len(is)
      BY <1>1, <1>4, <1>5
    <3>2. js[k] = ks[k]
      BY <3>1, <1>5
    <3> QED
      BY <3>1, <3>2, <1>3
  <2>2. ASSUME NEW k \in 1..Len(is), k \notin S, is[k].ht # Null PROVE k \in 1..Len(js)
    <3>1. k \in U
      BY <2>2, <1>2, <1>3
    <3> QED
      BY <3>1, <1>1, <1>4, <1>5
  <2> QED
    BY <2>1, <2>2, <1>1, <1>4, <1>5 DEF Freed
<1>7. Free(hp, S).iters = js
  BY DEF Free, Trim, ks, m
<1>8. Free(hp, S).tab = [t \in Table |-> [hp.tab[t] EXCEPT !.count =
                    Count(@, -Cardinality({ k \in S : hp.iters[k].ht = t }))]]
      /\ Free(hp, S) = [tab |-> Free(hp, S).tab, iters |-> Free(hp, S).iters]
  BY DEF Free
<1> QED
  BY <1>6, <1>7, <1>8

\* Iterators S of the ring of v are freed: all of them, or all but v, which is
\* then alone in its ring.
Unringed(is, js, v, S) ==
    /\ S = Mine(is, v) \/ S = Mine(is, v) \ {v}
    /\ Len(js) \in Nat /\ Len(js) <= Len(is)
    /\ \A k \in 1..Len(js) :
          IF k \in S THEN js[k].ht = Null /\ js[k].next = k
          ELSE js[k].ht = is[k].ht /\ js[k].next = IF k = v THEN v ELSE is[k].next
    /\ \A k \in 1..Len(is) : k \notin S /\ is[k].ht # Null => k \in 1..Len(js)
\* The other rings are as they were.
RingsLeft(is, js, W, v, S) ==
    /\ \A w \in W : w # v => w \notin S /\ Mine(js, w) = Mine(is, w)
                             /\ Mine(is, w) \intersect Mine(is, v) = {}
    /\ v \notin S => Mine(js, v) = {v}

\* So they are.
LEMMA FreeOwned ==
    ASSUME NEW is, NEW js, NEW W, NEW v \in W, NEW S,
           Linked(is), SelfNull(is), Parted(is, W), Unringed(is, js, v, S)
    PROVE  /\ Linked(js) /\ SelfNull(js) /\ Parted(js, W \ S)
           /\ RingsLeft(is, js, W, v, S)
           /\ \A w \in W \ S : w = v \/ Single(is, w) => Single(js, w)
<1> USE DEF Unringed
<1>1. Len(is) \in Nat /\ \A k \in 1..Len(js) : k \in 1..Len(is)
  BY DEF Linked
<1>2. \A w \in W : w \in 1..Len(is) /\ Mine(is, w) \subseteq InUse(is)
  BY DEF Owned, Parted, Single
<1>3. \A w \in W : /\ w \in Mine(is, w) /\ Closed(is, Mine(is, w))
  BY <1>2, MineFacts
<1>4. \A w \in W : w # v => Mine(is, w) \intersect Mine(is, v) = {}
  BY DEF Owned, Parted, Single
<1>5. \A w \in W : w # v => w \notin S /\ \A k \in Mine(is, w) : k \notin S /\ k # v /\ k \in 1..Len(js)
  <2> SUFFICES ASSUME NEW w \in W, w # v, NEW k \in Mine(is, w)
               PROVE  k \notin S /\ k # v /\ k \in 1..Len(js)
    BY <1>3
  <2>1. k \notin Mine(is, v) /\ v \in Mine(is, v)
    BY <1>3, <1>4
  <2>2. k \notin S /\ k # v
    BY <2>1
  <2>3. k \in 1..Len(is) /\ is[k].ht # Null
    BY <1>2 DEF InUse
  <2> QED
    BY <2>2, <2>3
<1>6. v \in Mine(is, v) /\ (v \notin S => v \in 1..Len(js)) /\ \A k \in Mine(is, v) : k \in S \/ k = v
  <2>1. v \in Mine(is, v) /\ v \in 1..Len(is) /\ is[v].ht # Null
    BY <1>2, <1>3 DEF InUse
  <2> QED
    BY <2>1
<1>7. Linked(js)
  <2> SUFFICES ASSUME NEW k \in 1..Len(js) PROVE js[k].next \in 1..Len(js)
    BY DEF Linked
  <2>1. CASE k \in S
    BY <2>1
  <2>2. CASE k \notin S /\ k = v
    BY <2>2
  <2>3. CASE k \notin S /\ k # v /\ is[k].ht = Null
    BY <2>3, <1>1 DEF SelfNull
  <2>4. CASE k \notin S /\ k # v /\ is[k].ht # Null
    <3>1. PICK w \in W : k \in Mine(is, w)
      BY <2>4, <1>1 DEF Owned, Parted, Single, InUse
    <3>2. w # v
      BY <3>1, <2>4, <1>6
    <3>3. is[k].next \in Mine(is, w)
      BY <3>1, <1>3 DEF Closed
    <3> QED
      BY <2>4, <3>2, <3>3, <1>5
  <2> QED
    BY <2>1, <2>2, <2>3, <2>4
<1>8. SelfNull(js)
  <2> SUFFICES ASSUME NEW k \in 1..Len(js), js[k].ht = Null PROVE js[k].next = k
    BY DEF SelfNull
  <2>1. CASE k \in S
    BY <2>1
  <2>2. CASE k \notin S
    BY <2>2, <1>1 DEF SelfNull
  <2> QED
    BY <2>1, <2>2
<1>9. ASSUME NEW w \in W, w # v PROVE Mine(js, w) = Mine(is, w)
  <2>1. \A k \in Mine(is, w) : js[k].next = is[k].next
    BY <1>5, <1>9
  <2>2. w \in 1..Len(js) /\ w \in 1..Len(is)
    BY <1>2, <1>3, <1>5, <1>9
  <2> QED
    BY <2>1, <2>2, <1>7, MineSame
<1>10. ASSUME v \notin S PROVE Mine(js, v) = {v}
  <2>1. v \in 1..Len(js) /\ Closed(js, {v})
    BY <1>6, <1>10 DEF Closed
  <2>2. Mine(js, v) \subseteq {v} /\ v \in Mine(js, v)
    BY <2>1, <1>7, MineFacts
  <2> QED
    BY <2>2
<1>11. Parted(js, W \ S) /\ \A w \in W \ S : w = v \/ Single(is, w) => Single(js, w)
  <2>0. \A w \in W \ S : w # v \/ v \notin S
    OBVIOUS
  <2>1. W \ S \in SUBSET (1..Len(js)) /\ IsFiniteSet(W \ S)
    <3>1. IsFiniteSet(W \ S)
      BY FS_Difference DEF Owned, Parted, Single
    <3> QED
      BY <3>1, <1>3, <1>5, <1>6
  <2>2. ASSUME NEW u \in W \ S, NEW w \in W \ S, u # w
        PROVE  Mine(js, u) \intersect Mine(js, w) = {}
    <3>1. CASE u # v /\ w # v
      BY <3>1, <2>2, <1>9 DEF Owned, Parted, Single
    <3>2. CASE u = v
      BY <3>2, <2>2, <1>5, <1>9, <1>10
    <3>3. CASE w = v
      BY <3>3, <2>2, <1>5, <1>9, <1>10
    <3> QED
      BY <3>1, <3>2, <3>3
  <2>3. ASSUME NEW k PROVE k \in InUse(js) <=> \E w \in W \ S : k \in Mine(js, w)
    <3>1. ASSUME k \in InUse(js) PROVE \E w \in W \ S : k \in Mine(js, w)
      <4>1. k \in 1..Len(js) /\ k \notin S /\ is[k].ht # Null /\ k \in 1..Len(is)
        BY <3>1, <1>1 DEF InUse
      <4>2. PICK w \in W : k \in Mine(is, w)
        BY <4>1 DEF Owned, Parted, Single, InUse
      <4>3. CASE w = v
        BY <4>1, <4>2, <4>3, <1>6, <1>10
      <4>4. CASE w # v
        BY <4>2, <4>4, <1>5, <1>9
      <4> QED
        BY <4>3, <4>4
    <3>2. ASSUME NEW w \in W \ S, k \in Mine(js, w) PROVE k \in InUse(js)
      <4>1. CASE w = v
        <5>1. k = v /\ v \notin S /\ v \in 1..Len(js) /\ is[v].ht # Null
          BY <3>2, <4>1, <1>2, <1>6, <1>10 DEF InUse
        <5> QED
          BY <5>1 DEF InUse
      <4>2. CASE w # v
        <5>1. k \in Mine(is, w) /\ k \notin S /\ k \in 1..Len(js) /\ is[k].ht # Null
          BY <3>2, <4>2, <1>2, <1>5, <1>9 DEF InUse
        <5> QED
          BY <5>1 DEF InUse
      <4> QED
        BY <4>1, <4>2
    <3> QED
      BY <3>1, <3>2
  <2>4. ASSUME NEW w \in W \ S, NEW k \in Mine(js, w), NEW l \in Mine(js, w),
               w = v \/ Single(is, w), js[k].ht \in Table, js[k].ht = js[l].ht
        PROVE  k = l
    <3>1. CASE w = v
      BY <3>1, <2>4, <1>10
    <3>2. CASE w # v
      <4>1. k \in Mine(is, w) /\ l \in Mine(is, w)
        BY <3>2, <2>4, <1>9
      <4>2. js[k].ht = is[k].ht /\ js[l].ht = is[l].ht
        BY <3>2, <4>1, <1>5
      <4> QED
        BY <3>2, <4>1, <4>2, <2>4 DEF Single
    <3> QED
      BY <3>1, <3>2
  <2> QED
    BY <2>1, <2>2, <2>3, <2>4 DEF Parted, Single
<1> QED
  BY <1>4, <1>5, <1>7, <1>8, <1>9, <1>10, <1>11 DEF RingsLeft

\* hq is hp with v linked to itself if it is not in S.
Unlinked(hp, hq, v, S) ==
    /\ S = Mine(hp.iters, v) \/ S = Mine(hp.iters, v) \ {v}
    /\ hq \in HeapT /\ hq.tab = hp.tab /\ Len(hq.iters) = Len(hp.iters)
    /\ \A k \in 1..Len(hp.iters) :
          hq.iters[k].ht = hp.iters[k].ht /\ hq.iters[k].pos = hp.iters[k].pos
    /\ \A k \in 1..Len(hp.iters) : k \notin S =>
          hq.iters[k].next = IF k = v THEN v ELSE hp.iters[k].next

\* A heap in which the ring of v may have two iterators on a table.
PreHeap(hp, L, W, v) ==
    /\ hp \in HeapT
    /\ \A t \in Table : TableOK(hp.tab[t]) /\ (t \in L <=> hp.tab[t].kind # "free")
    /\ Linked(hp.iters) /\ SelfNull(hp.iters) /\ Parted(hp.iters, W)
    /\ \A w \in W : w = v \/ Single(hp.iters, w)
    /\ \A k \in 1..Len(hp.iters) : hp.iters[k].ht \in Table => hp.iters[k].ht \in L
    /\ \A t \in Table : hp.tab[t].count = Cardinality(On(hp.iters, t)) /\ hp.tab[t].count < MaxCount

\* Any heap will do.
LEMMA PreHeapOK ==
    ASSUME NEW hp, NEW L, NEW W, HeapOK(hp, L, W), Room(W), NEW v
    PROVE  PreHeap(hp, L, W, v)
<1>1. \A t \in Table : hp.tab[t].count < MaxCount
  BY CountUp
<1> QED
  BY <1>1 DEF HeapOK, PreHeap, Owned

\* Freeing iterators of the ring of v: all, or all but v after its link was set
\* to itself.
LEMMA FreeHeap ==
    ASSUME NEW hp, NEW L, NEW W, NEW v \in W, PreHeap(hp, L, W, v), NEW S,
           NEW hq, Unlinked(hp, hq, v, S)
    PROVE  /\ HeapOK(Free(hq, S), L, W \ S) /\ SameTables(hp.tab, Free(hq, S).tab)
           /\ Freed(hq.iters, Free(hq, S).iters, S)
           /\ RingsLeft(hp.iters, Free(hq, S).iters, W, v, S)
<1> DEFINE is == hp.iters
           r == Free(hq, S)
           js == r.iters
           D(t) == { k \in S : hq.iters[k].ht = t }
<1> USE DEF Unlinked
<1>0. /\ hp \in HeapT /\ Linked(is) /\ SelfNull(is) /\ Parted(is, W) /\ Len(is) \in Nat
  BY DEF PreHeap, Linked
<1>1. S \in SUBSET (1..Len(is)) /\ S \in SUBSET (1..Len(hq.iters))
  <2>1. v \in 1..Len(is)
    BY <1>0 DEF Parted
  <2>2. Mine(is, v) \in SUBSET (1..Len(is))
    BY <2>1, <1>0, MineFacts
  <2> QED
    BY <2>2
<1>2. /\ Freed(hq.iters, js, S) /\ r = [tab |-> r.tab, iters |-> js]
      /\ r.tab = [t \in Table |-> [hp.tab[t] EXCEPT !.count = Count(@, -Cardinality(D(t)))]]
  <2>1. /\ Freed(hq.iters, js, S) /\ r = [tab |-> r.tab, iters |-> js]
        /\ r.tab = [t \in Table |-> [hq.tab[t] EXCEPT !.count =
                      Count(@, -Cardinality({ k \in S : hq.iters[k].ht = t }))]]
    BY <1>1, FreeFacts
  <2> HIDE DEF r, js
  <2> QED
    BY <2>1
<1> HIDE DEF r, js
<1>3. /\ js \in Seq(Iter) /\ Len(js) \in Nat /\ Len(js) <= Len(is)
      /\ \A k \in 1..Len(js) : k \in 1..Len(is)
      /\ \A k \in 1..Len(js) : k \in S => js[k].ht = Null /\ js[k].next = k
      /\ \A k \in 1..Len(js) : k \notin S => js[k] = hq.iters[k]
      /\ \A k \in 1..Len(is) : k \notin S /\ is[k].ht # Null => k \in 1..Len(js)
  <2>1. js \in Seq(Iter) /\ Len(js) <= Len(is)
    BY <1>2 DEF Freed
  <2>2. Len(js) \in Nat
    BY <2>1, LenProperties
  <2>3. \A k \in 1..Len(js) : k \in 1..Len(is)
    BY <2>1, <2>2, <1>0
  <2>4. \A k \in 1..Len(js) : k \in S => js[k].ht = Null /\ js[k].next = k
    <3> SUFFICES ASSUME NEW k \in 1..Len(js), k \in S PROVE js[k].ht = Null /\ js[k].next = k
      OBVIOUS
    <3>1. js[k] = [ht |-> Null, pos |-> 1, next |-> k]
      BY <1>2 DEF Freed
    <3> QED
      BY <3>1
  <2>5. \A k \in 1..Len(js) : k \notin S => js[k] = hq.iters[k]
    BY <1>2 DEF Freed
  <2>6. \A k \in 1..Len(is) : k \notin S /\ is[k].ht # Null => k \in 1..Len(js)
    BY <1>2 DEF Freed
  <2> QED
    BY <2>1, <2>2, <2>3, <2>4, <2>5, <2>6
<1>4. Linked(js) /\ SelfNull(js) /\ Owned(js, W \ S) /\ RingsLeft(is, js, W, v, S)
  <2>1. \A k \in 1..Len(js) :
           IF k \in S THEN js[k].ht = Null /\ js[k].next = k
           ELSE js[k].ht = is[k].ht /\ js[k].next = IF k = v THEN v ELSE is[k].next
    BY <1>3
  <2>2. Unringed(is, js, v, S)
    BY <2>1, <1>3 DEF Unringed
  <2>3. /\ Linked(js) /\ SelfNull(js) /\ Parted(js, W \ S) /\ RingsLeft(is, js, W, v, S)
        /\ \A w \in W \ S : w = v \/ Single(is, w) => Single(js, w)
    <3>1. Parted(js, W \ S) /\ RingsLeft(is, js, W, v, S)
      BY <2>2, <1>0, FreeOwned
    <3> QED
      BY <3>1, <2>2, <1>0, FreeOwned
  <2> QED
    BY <2>3 DEF Owned, PreHeap
<1>5. \A t \in Table : On(js, t) = On(is, t) \ S /\ D(t) = On(is, t) \intersect S
  <2> SUFFICES ASSUME NEW t \in Table
               PROVE  On(js, t) = On(is, t) \ S /\ D(t) = On(is, t) \intersect S
    OBVIOUS
  <2>1. D(t) = On(is, t) \intersect S
    BY <1>1 DEF On
  <2>2. t # Null
    BY SentinelAssumption
  <2>3. \A k : k \in On(js, t) => k \in On(is, t) \ S
    BY <2>2, <1>3 DEF On
  <2>4. \A k : k \in On(is, t) \ S => k \in On(js, t)
    BY <2>2, <1>3 DEF On
  <2> QED
    BY <2>1, <2>3, <2>4
<1>6. \A t \in Table : r.tab[t] = [hp.tab[t] EXCEPT !.count = Cardinality(On(js, t))]
                       /\ Cardinality(On(js, t)) \in Nat
  <2> SUFFICES ASSUME NEW t \in Table
               PROVE  r.tab[t] = [hp.tab[t] EXCEPT !.count = Cardinality(On(js, t))]
                      /\ Cardinality(On(js, t)) \in Nat
    OBVIOUS
  <2>1. IsFiniteSet(On(is, t)) /\ Cardinality(On(js, t)) \in Nat /\ Cardinality(On(is, t)) \in Nat
    BY <1>0, <1>3, OnFinite
  <2>2. Cardinality(On(js, t)) = Cardinality(On(is, t)) - Cardinality(D(t))
    <3>1. Cardinality(On(is, t) \ S) = Cardinality(On(is, t)) - Cardinality(On(is, t) \intersect S)
      BY <2>1, FS_Difference
    <3>2. On(js, t) = On(is, t) \ S /\ D(t) = On(is, t) \intersect S
      BY <1>5
    <3> HIDE DEF D
    <3> QED
      BY <3>1, <3>2
  <2>3. Cardinality(D(t)) \in Nat
    <3>1. D(t) \in SUBSET On(is, t)
      BY <1>5
    <3> HIDE DEF D
    <3> QED
      BY <2>1, <3>1, FS_Subset, FS_CardinalityType
  <2> HIDE DEF D
  <2>4. /\ hp.tab[t].count = Cardinality(On(is, t)) /\ -Cardinality(D(t)) \in Int
        /\ hp.tab[t].count < MaxCount
    BY <2>3 DEF PreHeap
  <2>5. Count(hp.tab[t].count, -Cardinality(D(t))) = hp.tab[t].count + (-Cardinality(D(t)))
    BY <2>1, <2>4, BoundAssumption DEF Count
  <2>6. Count(hp.tab[t].count, -Cardinality(D(t))) = Cardinality(On(js, t))
    BY <2>1, <2>2, <2>3, <2>4, <2>5
  <2>7. r.tab[t] = [hp.tab[t] EXCEPT !.count = Count(@, -Cardinality(D(t)))]
    BY <1>2
  <2> QED
    BY <2>1, <2>6, <2>7
<1>7. r \in HeapT /\ SameTables(hp.tab, r.tab) /\ \A t \in Table : r.tab[t].count = Cardinality(On(js, t))
  <2>1. ASSUME NEW t \in Table
        PROVE  /\ r.tab[t] \in TableT /\ r.tab[t].count = Cardinality(On(js, t))
               /\ r.tab[t].kind = hp.tab[t].kind /\ r.tab[t].slots = hp.tab[t].slots
               /\ r.tab[t].size = hp.tab[t].size /\ r.tab[t].next = hp.tab[t].next
    <3>1. hp.tab[t] \in TableT
      BY <1>0 DEF HeapT
    <3> QED
      BY <3>1, <1>6 DEF TableT
  <2>2. DOMAIN r.tab = Table /\ r.tab = [t \in Table |-> r.tab[t]]
    BY <1>2
  <2>3. r.tab \in [Table -> TableT]
    BY <2>1, <2>2
  <2>4. r \in HeapT
    <3>1. r = [tab |-> r.tab, iters |-> js] /\ js \in Seq(Iter)
      BY <1>2, <1>3
    <3> QED
      BY <3>1, <2>3 DEF HeapT
  <2> QED
    BY <2>1, <2>4 DEF SameTables
<1>8. HeapOK(r, L, W \ S)
  <2>1. \A t \in Table : TableOK(r.tab[t]) /\ (t \in L <=> r.tab[t].kind # "free")
    BY <1>7 DEF SameTables, TableOK, PreHeap
  <2>2. \A k \in 1..Len(js) : js[k].ht \in Table => js[k].ht \in L
    BY <1>3, SentinelAssumption DEF PreHeap
  <2> QED
    BY <2>1, <2>2, <1>4, <1>7 DEF HeapOK, js
<1> QED
  BY <1>2, <1>4, <1>7, <1>8 DEF js, r

\* The ring of an iterator leaves it out.
LEMMA RingIsMine ==
    ASSUME NEW is, Linked(is), NEW idx \in 1..Len(is)
    PROVE  Ring(is, idx) = Mine(is, idx) \ {idx}
<1>1. idx \notin Ring(is, idx)
  BY RingUnfolds
<1> QED
  BY <1>1 DEF Mine

\* zend_hash_iterator_del
LEMMA DelHeap ==
    ASSUME NEW hp, NEW L, NEW W, HeapOK(hp, L, W), Room(W), NEW v \in W
    PROVE  LET r == zend_hash_iterator_del(hp, v)
           IN  /\ HeapOK(r, L, W \ {v}) /\ SameTables(hp.tab, r.tab)
               /\ \A w \in W : w # v => /\ Mine(r.iters, w) = Mine(hp.iters, w)
                                        /\ \A k \in Mine(hp.iters, w) : r.iters[k] = hp.iters[k]
<1> DEFINE S == Mine(hp.iters, v)
           r == Free(hp, S)
<1>1. hp \in HeapT /\ Linked(hp.iters) /\ Owned(hp.iters, W) /\ v \in 1..Len(hp.iters)
  BY DEF HeapOK, Owned, Parted, Single
<1>2. zend_hash_iterator_del(hp, v) = r
  BY DEF zend_hash_iterator_del, Mine
<1>3. v \in S
  BY <1>1, MineFacts
<1>4. \A k \in 1..Len(hp.iters) : k \notin S =>
        hp.iters[k].next = IF k = v THEN v ELSE hp.iters[k].next
  BY <1>3
<1> HIDE DEF S
<1>5. Unlinked(hp, hp, v, S)
  BY <1>1, <1>4 DEF S, Unlinked
<1>6. /\ HeapOK(r, L, W \ S) /\ SameTables(hp.tab, r.tab)
      /\ Freed(hp.iters, r.iters, S)
      /\ \A w \in W : w # v => w \notin S /\ Mine(r.iters, w) = Mine(hp.iters, w)
                               /\ Mine(hp.iters, w) \intersect Mine(hp.iters, v) = {}
  <2>1. PreHeap(hp, L, W, v)
    BY PreHeapOK
  <2> QED
    BY <2>1, <1>5, FreeHeap DEF RingsLeft
<1> HIDE DEF r
<1>7. W \ S = W \ {v}
  BY <1>3, <1>6
<1>8. ASSUME NEW w \in W, w # v, NEW k \in Mine(hp.iters, w) PROVE r.iters[k] = hp.iters[k]
  <2>1. k \in InUse(hp.iters) /\ k \notin S
    BY <1>1, <1>6, <1>8 DEF Owned, Parted, Single, S
  <2>2. k \in 1..Len(r.iters)
    BY <2>1, <1>6 DEF Freed, InUse
  <2> QED
    BY <2>1, <2>2, <1>6 DEF Freed
<1> QED
  BY <1>2, <1>6, <1>7, <1>8

\* zend_hash_remove_iterator_copies
LEMMA RemoveCopiesHeap ==
    ASSUME NEW hp, NEW L, NEW W, NEW v \in W, PreHeap(hp, L, W, v)
    PROVE  LET r == RemoveCopies(hp, v)
           IN  /\ HeapOK(r, L, W) /\ SameTables(hp.tab, r.tab)
               /\ \A w \in W : w # v => /\ Mine(r.iters, w) = Mine(hp.iters, w)
                                        /\ \A k \in Mine(hp.iters, w) : r.iters[k] = hp.iters[k]
               /\ Mine(r.iters, v) = {v} /\ r.iters[v].ht = hp.iters[v].ht
               /\ r.iters[v].pos = hp.iters[v].pos
<1> DEFINE is == hp.iters
           S == Mine(is, v) \ {v}
           x == [is[v] EXCEPT !.next = v]
           ks == Put(is, v, x)
           hq == [hp EXCEPT !.iters[v].next = v]
           r == Free(hq, S)
<1>1. hp \in HeapT /\ Linked(is) /\ Parted(is, W) /\ v \in 1..Len(is)
      /\ Len(is) \in Nat /\ is \in Seq(Iter)
  BY DEF PreHeap, Parted, Linked, HeapT
<1>2. RemoveCopies(hp, v) = r
  BY <1>1, RingIsMine DEF RemoveCopies
<1>3. is[v] \in Iter
  BY <1>1, ElementOfSeq
<1>4. x \in Iter /\ x.ht = is[v].ht /\ x.pos = is[v].pos /\ x.next = v
  BY <1>1, <1>3 DEF Iter
<1> HIDE DEF x, is
<1>5. /\ ks \in Seq(Iter) /\ Len(ks) = Len(is)
      /\ \A j \in 1..Len(is) : ks[j] = IF j = v THEN x ELSE is[j]
  BY <1>1, <1>4, PutIter
<1>6. hq = [tab |-> hp.tab, iters |-> ks]
  <2>1. hp = [tab |-> hp.tab, iters |-> is]
    BY <1>1 DEF HeapT, is
  <2>2. hq = [hp EXCEPT !.iters = [hp.iters EXCEPT ![v] = [hp.iters[v] EXCEPT !.next = v]]]
    OBVIOUS
  <2>3. hq = [hp EXCEPT !.iters = ks]
    BY <2>2 DEF is, x, Put
  <2> HIDE DEF hq, ks
  <2> QED
    BY <2>1, <2>3
<1> HIDE DEF hq, ks, S
<1>7. hq \in HeapT /\ hq.tab = hp.tab /\ hq.iters = ks
  BY <1>1, <1>5, <1>6 DEF HeapT
<1>8. \A k \in 1..Len(is) : ks[k].ht = is[k].ht /\ ks[k].pos = is[k].pos
                            /\ ks[k].next = IF k = v THEN v ELSE is[k].next
  BY <1>4, <1>5
<1>9. Unlinked(hp, hq, v, S)
  BY <1>5, <1>7, <1>8 DEF S, is, Unlinked
<1>10. /\ HeapOK(r, L, W \ S) /\ SameTables(hp.tab, r.tab)
       /\ Freed(hq.iters, r.iters, S)
       /\ \A w \in W : w # v => w \notin S /\ Mine(r.iters, w) = Mine(hp.iters, w)
                                /\ Mine(hp.iters, w) \intersect Mine(hp.iters, v) = {}
       /\ v \notin S => Mine(r.iters, v) = {v}
  <2>1. /\ HeapOK(r, L, W \ S) /\ SameTables(hp.tab, r.tab)
        /\ Freed(hq.iters, r.iters, S) /\ RingsLeft(hp.iters, r.iters, W, v, S)
    BY <1>9, FreeHeap
  <2> HIDE DEF r
  <2> QED
    BY <2>1 DEF RingsLeft
<1> HIDE DEF r
<1>11. v \notin S /\ v \in Mine(is, v)
  BY <1>1, MineFacts DEF S
<1>12. W \ S = W
  BY <1>10, <1>11
<1>13. ASSUME NEW w \in W, NEW k \in Mine(is, w), k \notin S
       PROVE  r.iters[k] = ks[k] /\ k \in 1..Len(is)
  <2>1. k \in InUse(is)
    BY <1>1 DEF Parted
  <2>2. k \in 1..Len(is) /\ ks[k].ht # Null
    BY <2>1, <1>8 DEF InUse
  <2>3. k \in 1..Len(r.iters)
    BY <2>2, <1>5, <1>7, <1>10, <1>13 DEF Freed
  <2> QED
    BY <2>2, <2>3, <1>7, <1>10, <1>13 DEF Freed
<1>14. ASSUME NEW w \in W, w # v, NEW k \in Mine(is, w) PROVE r.iters[k] = is[k]
  <2>1. k \notin S /\ k # v
    BY <1>10, <1>11, <1>14 DEF S, is
  <2> QED
    BY <2>1, <1>5, <1>13
<1>15. r.iters[v] = ks[v] /\ r.iters[v].ht = is[v].ht /\ r.iters[v].pos = is[v].pos
  <2>1. r.iters[v] = ks[v]
    BY <1>11, <1>13
  <2> QED
    BY <2>1, <1>1, <1>8
<1> QED
  BY <1>2, <1>10, <1>11, <1>12, <1>14, <1>15 DEF is

-----------------------------------------------------------------------------
(* Operations that move iterators, but leave them on their tables.         *)

Reposed(is, js) ==
    /\ js \in Seq(Iter) /\ Len(js) = Len(is)
    /\ \A k \in 1..Len(is) : js[k].ht = is[k].ht /\ js[k].next = is[k].next

\* Rings and counts stay as they are.
LEMMA ReposedHeap ==
    ASSUME NEW hp, NEW L, NEW W, HeapOK(hp, L, W), NEW r \in HeapT, Reposed(hp.iters, r.iters),
           \A t \in Table : /\ TableOK(r.tab[t]) /\ r.tab[t].count = hp.tab[t].count
                            /\ (r.tab[t].kind = "free" <=> hp.tab[t].kind = "free")
    PROVE  HeapOK(r, L, W) /\ \A w \in W : Mine(r.iters, w) = Mine(hp.iters, w)
<1> DEFINE is == hp.iters
           js == r.iters
<1>1. Linked(is) /\ SelfNull(is) /\ Owned(is, W) /\ W \in SUBSET (1..Len(is))
  BY DEF HeapOK, Owned, Parted
<1>2. Len(js) = Len(is) /\ \A k \in 1..Len(is) : js[k].ht = is[k].ht /\ js[k].next = is[k].next
  BY DEF Reposed
<1>3. Linked(js) /\ SelfNull(js)
  BY <1>1, <1>2 DEF Linked, SelfNull
<1>4. \A w \in W : Mine(js, w) = Mine(is, w) /\ Mine(is, w) \in SUBSET (1..Len(is))
  <2> SUFFICES ASSUME NEW w \in W
               PROVE  Mine(js, w) = Mine(is, w) /\ Mine(is, w) \in SUBSET (1..Len(is))
    OBVIOUS
  <2>1. w \in 1..Len(is) /\ w \in 1..Len(js)
    BY <1>1, <1>2
  <2>2. Mine(is, w) \in SUBSET (1..Len(is))
    BY <2>1, <1>1, MineFacts
  <2>3. \A k \in Mine(is, w) : js[k].next = is[k].next
    BY <2>2, <1>2
  <2> HIDE DEF is, js
  <2> QED
    BY <2>1, <2>2, <2>3, <1>1, <1>3, MineSame
<1>5. InUse(js) = InUse(is) /\ \A u : On(js, u) = On(is, u)
  BY <1>2 DEF InUse, On
<1> HIDE DEF is, js
<1>6. Owned(js, W)
  <2>1. Parted(js, W)
    BY <1>1, <1>2, <1>4, <1>5 DEF Parted, Owned
  <2>2. ASSUME NEW w \in W PROVE Single(js, w)
    <3>1. Single(is, w) /\ Mine(js, w) = Mine(is, w) /\ Mine(is, w) \in SUBSET (1..Len(is))
      BY <1>1, <1>4 DEF Owned
    <3> QED
      BY <3>1, <1>2 DEF Single
  <2> QED
    BY <2>1, <2>2 DEF Owned
<1>7. HeapOK(r, L, W)
  <2>1. \A k \in 1..Len(js) : js[k].ht \in Table => js[k].ht \in L
    BY <1>2 DEF HeapOK, is
  <2>2. \A t \in Table : r.tab[t].count = Cardinality(On(js, t))
    BY <1>5 DEF HeapOK, is
  <2>3. \A t \in Table : TableOK(r.tab[t]) /\ (t \in L <=> r.tab[t].kind # "free")
    BY DEF HeapOK
  <2> QED
    BY <2>1, <2>2, <2>3, <1>3, <1>6 DEF HeapOK, js
<1> QED
  BY <1>4, <1>7 DEF is, js

\* Moved moves the iterators on a table.
LEMMA MovedFacts ==
    ASSUME NEW hp, NEW L, NEW W, HeapOK(hp, L, W), NEW t \in Table,
           NEW to, \A p \in Positions(hp, t) : to[p] \in Nat
    PROVE  LET r == Moved(hp, t, to)
           IN  /\ r \in HeapT /\ r.tab = hp.tab /\ Reposed(hp.iters, r.iters)
               /\ \A k \in 1..Len(hp.iters) : /\ hp.iters[k].ht # t => r.iters[k] = hp.iters[k]
                                              /\ hp.iters[k].ht = t =>
                                                    /\ hp.iters[k].pos \in Positions(hp, t)
                                                    /\ r.iters[k].pos = to[hp.iters[k].pos]
<1> DEFINE is == hp.iters
           js == [k \in DOMAIN is |-> IF is[k].ht = t THEN [is[k] EXCEPT !.pos = to[@]] ELSE is[k]]
           r == Moved(hp, t, to)
<1>1. /\ hp \in HeapT /\ is \in Seq(Iter) /\ Len(is) \in Nat /\ DOMAIN is = 1..Len(is)
      /\ hp = [tab |-> hp.tab, iters |-> is]
  BY DEF HeapOK, HeapT
<1>2. \A k \in 1..Len(is) : is[k] \in Iter
  BY <1>1, ElementOfSeq
<1>3. \A k \in 1..Len(is) : is[k].ht = t => is[k].pos \in Positions(hp, t)
  BY <1>1 DEF Positions
<1>4. CASE hp.tab[t].count = 0
  <2>1. r = hp
    BY <1>4 DEF Moved
  <2>2. On(is, t) = {}
    <3>1. IsFiniteSet(On(is, t)) /\ Cardinality(On(is, t)) = 0
      BY <1>1, <1>4, OnFinite DEF HeapOK
    <3> QED
      BY <3>1, FS_EmptySet
  <2>3. \A k \in 1..Len(is) : is[k].ht # t
    BY <2>2 DEF On
  <2>4. Reposed(is, is)
    BY <1>1 DEF Reposed
  <2> HIDE DEF r
  <2> QED
    BY <1>1, <2>1, <2>3, <2>4 DEF r
<1>5. CASE hp.tab[t].count # 0
  <2>1. r = [hp EXCEPT !.iters = js]
    <3>1. r = IF hp.tab[t].count = 0 THEN hp ELSE [hp EXCEPT !.iters = js]
      BY Zenon DEF Moved
    <3> QED
      BY <1>5, <3>1, Zenon
  <2>2. \A k \in 1..Len(is) : /\ js[k] \in Iter /\ js[k].ht = is[k].ht /\ js[k].next = is[k].next
                              /\ is[k].ht # t => js[k] = is[k]
                              /\ is[k].ht = t => js[k].pos = to[is[k].pos]
    <3> SUFFICES ASSUME NEW k \in 1..Len(is)
                 PROVE  /\ js[k] \in Iter /\ js[k].ht = is[k].ht /\ js[k].next = is[k].next
                        /\ is[k].ht # t => js[k] = is[k]
                        /\ is[k].ht = t => js[k].pos = to[is[k].pos]
      OBVIOUS
    <3>1. is[k] \in Iter /\ js[k] = IF is[k].ht = t THEN [is[k] EXCEPT !.pos = to[@]] ELSE is[k]
      BY <1>1, <1>2
    <3>2. is[k].ht = t => to[is[k].pos] \in Nat
      BY <1>3
    <3> HIDE DEF js, is
    <3> QED
      BY <3>1, <3>2 DEF Iter
  <2>3. js \in Seq(Iter) /\ Len(js) = Len(is)
    <3>1. js = [k \in 1..Len(is) |-> js[k]]
      BY <1>1
    <3> HIDE DEF js
    <3> QED
      BY <3>1, <2>2, <1>1
  <2> HIDE DEF js
  <2>4. r = [tab |-> hp.tab, iters |-> js]
    BY <2>1, <1>1
  <2>5. r \in HeapT
    BY <2>3, <2>4, <1>1 DEF HeapT
  <2>6. Reposed(is, js)
    BY <2>2, <2>3 DEF Reposed
  <2>7. r.tab = hp.tab /\ r.iters = js
    BY <2>4
  <2> HIDE DEF r
  <2> QED
    BY <2>2, <2>5, <2>6, <2>7, <1>3 DEF r
<1> QED
  BY <1>4, <1>5

-----------------------------------------------------------------------------
(* Elements.                                                               *)

\* The positions in use hold elements.
LEMMA UsedFacts ==
    ASSUME NEW s \in Seq(Slot)
    PROVE  /\ Len(s) \in Nat /\ DOMAIN s = 1..Len(s) /\ Used(s) \in SUBSET (1..Len(s))
           /\ \A p \in Used(s) : s[p] \in Elems
           /\ \A p \in 1..Len(s) : s[p] \in Slot /\ (p \notin Used(s) => s[p] = Undef)
           /\ IsFiniteSet(Used(s)) /\ Cardinality(Used(s)) \in Nat /\ Cardinality(Used(s)) <= Len(s)
<1>1. Len(s) \in Nat /\ DOMAIN s = 1..Len(s) /\ Used(s) \in SUBSET (1..Len(s))
  BY DEF Used
<1>2. \A p \in 1..Len(s) : s[p] \in Slot
  BY ElementOfSeq
<1>3. IsFiniteSet(1..Len(s)) /\ Cardinality(1..Len(s)) = Len(s)
  BY <1>1, IntervalSize
<1>4. IsFiniteSet(Used(s)) /\ Cardinality(Used(s)) \in Nat /\ Cardinality(Used(s)) <= Len(s)
  BY <1>1, <1>3, FS_Subset, FS_CardinalityType
<1> QED
  BY <1>1, <1>2, <1>4 DEF Used, Slot

\* The elements without the holes.
LEMMA DenseFacts ==
    ASSUME NEW s \in Seq(Slot)
    PROVE  /\ Dense(s) \in Seq(Slot) /\ Len(Dense(s)) = Cardinality(Used(s))
           /\ \A k \in 1..Cardinality(Used(s)) :
                 /\ Nth(Used(s), k) \in Used(s) /\ Rank(Used(s), Nth(Used(s), k)) = k
                 /\ Dense(s)[k] = s[Nth(Used(s), k)] /\ Dense(s)[k] \in Elems
           /\ Used(Dense(s)) = DOMAIN Dense(s)
<1> DEFINE U == Used(s)
           c == Cardinality(U)
<1>1. /\ Len(s) \in Nat /\ U \in SUBSET (1..Len(s)) /\ c \in Nat
      /\ \A p \in U : s[p] \in Elems
  BY UsedFacts
<1> HIDE DEF U, c
<1>2. ASSUME NEW k \in 1..c PROVE Nth(U, k) \in U /\ Rank(U, Nth(U, k)) = k
  <2>1. \E p \in U : Rank(U, p) = k
    BY <1>1, RankOrder DEF c
  <2> QED
    BY <2>1 DEF Nth, Rank
<1>3. Dense(s) = [k \in 1..c |-> s[Nth(U, k)]]
  BY DEF Dense, U, c
<1>4. \A k \in 1..c : Dense(s)[k] = s[Nth(U, k)] /\ Dense(s)[k] \in Elems
  BY <1>1, <1>2, <1>3
<1>5. Dense(s) \in Seq(Slot) /\ Len(Dense(s)) = c
  <2>1. \A k \in 1..c : Dense(s)[k] \in Slot
    BY <1>4 DEF Slot
  <2>2. Dense(s) = [k \in 1..c |-> Dense(s)[k]]
    BY <1>3
  <2> HIDE DEF U, c
  <2> QED
    BY <1>1, <2>1, <2>2
<1>6. Used(Dense(s)) = DOMAIN Dense(s)
  <2>1. DOMAIN Dense(s) = 1..c
    BY <1>3
  <2>2. \A e \in Elems : e # Undef
    BY SentinelAssumption, BoundAssumption DEF Elems
  <2> QED
    BY <2>1, <2>2, <1>4 DEF Used
<1> QED
  BY <1>2, <1>4, <1>5, <1>6 DEF U, c

\* The greatest element of a bounded set of natural numbers.
LEMMA MaxNat ==
    ASSUME NEW b \in Nat, NEW S \in SUBSET (0..b), S # {}
    PROVE  Max(S) \in S /\ \A y \in S : y <= Max(S)
<1>1. \E x \in S : \A y \in S : x >= y
  <2> DEFINE T == { x \in S : x # 0 }
  <2>1. CASE T = {}
    <3>1. \A y \in S : y = 0
      BY <2>1
    <3>2. PICK x \in S : TRUE
      OBVIOUS
    <3>3. x = 0 /\ 0 \in S /\ \A y \in S : 0 >= y
      BY <3>1, <3>2
    <3> QED
      BY <3>3
  <2>2. CASE T # {}
    <3>1. T \in SUBSET (1..b)
      <4>1. \A x \in 0..b : x # 0 => x \in 1..b
        OBVIOUS
      <4> QED
        BY <4>1
    <3>2. PICK x \in T : \A y \in T : y <= x
      <4> HIDE DEF T
      <4> QED
        BY <2>2, <3>1, GreatestElement
    <3>3. \A y \in S : x >= y
      BY <3>2
    <3> QED
      BY <3>2, <3>3
  <2> QED
    BY <2>1, <2>2
<1> DEFINE m == Max(S)
<1>2. m \in S /\ \A y \in S : m >= y
  BY <1>1 DEF Max
<1> HIDE DEF m
<1>3. m \in S /\ \A y \in S : y <= m
  BY <1>2
<1> QED
  BY <1>3 DEF m

\* The parts of Moves.
Hole(s) == Min(DOMAIN s \ Used(s))
Lower(s, P, p) == Min({ q \in P : q >= p } \union {Len(s) + 1})
Now(P, acc, i) ==
    IF i < acc.cur THEN {} ELSE {acc.cur} \union { q \in P : acc.cur < q /\ q < i }
MoveStep(s, P, acc, i) ==
    [to  |-> [q \in P |-> IF q \in Now(P, acc, i) THEN acc.j ELSE acc.to[q]],
     cur |-> IF Now(P, acc, i) = {} THEN acc.cur ELSE Lower(s, P, Max(Now(P, acc, i)) + 1),
     j   |-> acc.j + 1]
MoveRec(f, s, P) ==
    f = [i \in Hole(s)..Len(s) |->
           IF i = Hole(s)
           THEN [to |-> [q \in P |-> q], cur |-> Lower(s, P, Hole(s) + 1), j |-> Hole(s)]
           ELSE IF s[i] = Undef THEN f[i - 1] ELSE MoveStep(s, P, f[i - 1], i)]
MoveT(P) == [to: [P -> Nat], cur: Nat, j: Nat]

\* Where an iterator is next.
LEMMA LowerFacts ==
    ASSUME NEW s \in Seq(Slot), NEW P \in SUBSET Nat, NEW p \in Nat
    PROVE  /\ Lower(s, P, p) \in Nat
           /\ Lower(s, P, p) = Len(s) + 1 \/ (Lower(s, P, p) \in P /\ Lower(s, P, p) >= p)
           /\ Lower(s, P, p) <= Len(s) + 1
           /\ \A q \in P : q >= p => Lower(s, P, p) <= q
<1> DEFINE S == { q \in P : q >= p } \union {Len(s) + 1}
           m == Min(S)
<1>0. Len(s) \in Nat
  BY LenProperties
<1>1. S \in SUBSET Nat /\ S # {} /\ Len(s) \in Nat /\ Len(s) + 1 \in S
  <2>1. Len(s) + 1 \in Nat
    BY <1>0
  <2>2. Len(s) + 1 \in S
    OBVIOUS
  <2>3. \A q \in S : q \in Nat
    BY <2>1
  <2> HIDE DEF S
  <2> QED
    BY <1>0, <2>2, <2>3
<1>2. m \in S /\ \A y \in S : m <= y
  <2> HIDE DEF S
  <2> QED
    BY <1>1, MinIs
<1>3. Lower(s, P, p) = m
  BY DEF Lower
<1> HIDE DEF m
<1> QED
  BY <1>1, <1>2, <1>3

\* The first hole.
LEMMA HoleFacts ==
    ASSUME NEW s \in Seq(Slot), Used(s) # DOMAIN s
    PROVE  /\ Hole(s) \in 1..Len(s) /\ Hole(s) \notin Used(s)
           /\ \A p \in 1..Len(s) : p < Hole(s) => p \in Used(s)
<1> DEFINE S == DOMAIN s \ Used(s)
           m == Min(S)
<1>1. S \in SUBSET (1..Len(s)) /\ S # {} /\ Len(s) \in Nat /\ DOMAIN s = 1..Len(s)
  BY UsedFacts
<1>2. m \in S /\ \A y \in S : m <= y
  <2>1. S \in SUBSET Nat
    BY <1>1
  <2> HIDE DEF S
  <2> QED
    BY <1>1, <2>1, MinIs
<1>3. Hole(s) = m
  BY DEF Hole
<1> HIDE DEF m
<1> QED
  BY <1>1, <1>2, <1>3

\* A step takes a state of the loop to one.
LEMMA MoveStepType ==
    ASSUME NEW s \in Seq(Slot), NEW P \in SUBSET Nat, NEW acc \in MoveT(P), NEW i \in Int
    PROVE  /\ MoveStep(s, P, acc, i) \in MoveT(P)
           /\ Now(P, acc, i) # {} => /\ Max(Now(P, acc, i)) \in Now(P, acc, i)
                                     /\ Max(Now(P, acc, i)) \in Nat
                                     /\ \A y \in Now(P, acc, i) : y <= Max(Now(P, acc, i))
<1> DEFINE N == Now(P, acc, i)
           m == Max(N)
<1>1. acc.to \in [P -> Nat] /\ acc.cur \in Nat /\ acc.j \in Nat
  BY DEF MoveT
<1>2. N # {} => i \in Nat /\ N \in SUBSET (0..i) /\ acc.cur <= i
  <2> SUFFICES ASSUME N # {} PROVE i \in Nat /\ N \in SUBSET (0..i) /\ acc.cur <= i
    OBVIOUS
  <2>1. ~(i < acc.cur) /\ N = {acc.cur} \union { q \in P : acc.cur < q /\ q < i }
    BY DEF Now
  <2>2. i \in Nat /\ acc.cur <= i
    BY <2>1, <1>1
  <2>3. acc.cur \in 0..i /\ \A q \in P : acc.cur < q /\ q < i => q \in 0..i
    BY <2>2, <1>1
  <2> HIDE DEF N
  <2> QED
    BY <2>1, <2>2, <2>3
<1> HIDE DEF N
<1>3. N # {} => m \in N /\ m \in Nat /\ \A y \in N : y <= m
  <2> SUFFICES ASSUME N # {} PROVE m \in N /\ m \in Nat /\ \A y \in N : y <= m
    OBVIOUS
  <2>1. i \in Nat /\ N \in SUBSET (0..i)
    BY <1>2
  <2>2. m \in N /\ \A y \in N : y <= m
    BY <2>1, MaxNat
  <2> HIDE DEF m
  <2> QED
    BY <2>1, <2>2
<1> HIDE DEF m
<1>4. N # {} => Lower(s, P, m + 1) \in Nat
  <2>1. N # {} => m + 1 \in Nat
    BY <1>3
  <2> QED
    BY <2>1, LowerFacts
<1> DEFINE to == [q \in P |-> IF q \in N THEN acc.j ELSE acc.to[q]]
           cur == IF N = {} THEN acc.cur ELSE Lower(s, P, m + 1)
           j == acc.j + 1
<1>5. to \in [P -> Nat] /\ cur \in Nat /\ j \in Nat
  BY <1>1, <1>4
<1>6. MoveStep(s, P, acc, i) = [to |-> to, cur |-> cur, j |-> j]
  BY DEF MoveStep, N, m
<1> HIDE DEF to, cur, j
<1>7. MoveStep(s, P, acc, i) \in MoveT(P)
  BY <1>5, <1>6 DEF MoveT
<1> QED
  BY <1>3, <1>7 DEF N, m

\* The loop of Moves has a solution, whose last value is the result.
LEMMA MovesUnfolds ==
    ASSUME NEW s \in Seq(Slot), NEW P \in SUBSET Nat, Used(s) # DOMAIN s
    PROVE  \E f \in [Hole(s)..Len(s) -> MoveT(P)] : MoveRec(f, s, P) /\ Moves(s, P) = f[Len(s)].to
<1> DEFINE lo == Hole(s)
           hi == Len(s)
           b == [to |-> [q \in P |-> q], cur |-> Lower(s, P, lo + 1), j |-> lo]
           Step(acc, i) == IF s[i] = Undef THEN acc ELSE MoveStep(s, P, acc, i)
           G == [i \in Int |-> [acc \in MoveT(P) |-> Step(acc, i)]]
           F == CHOOSE f : MoveRec(f, s, P)
<1>1. lo \in 1..hi /\ hi \in Nat /\ lo \in Nat
  BY HoleFacts, UsedFacts
<1>2. b \in MoveT(P)
  <2>1. lo + 1 \in Nat
    BY <1>1
  <2>2. Lower(s, P, lo + 1) \in Nat
    BY <2>1, LowerFacts
  <2> HIDE DEF lo
  <2> QED
    BY <2>2, <1>1 DEF MoveT
<1>3. Stepper(G, MoveT(P))
  <2>1. \A i \in Int, acc \in MoveT(P) : Step(acc, i) \in MoveT(P)
    BY MoveStepType
  <2> HIDE DEF Step
  <2> QED
    BY <2>1 DEF Stepper
<1>4. PICK f \in [lo..hi -> MoveT(P)] : Solves(f, lo, hi, b, G)
  <2>1. lo \in Int /\ hi \in Int /\ lo <= hi
    BY <1>1
  <2> HIDE DEF lo, hi, b, G, F
  <2> QED
    BY <1>2, <1>3, <2>1, RecursionExists
<1>5. \A i \in lo..hi : f[i] = IF i = lo THEN b ELSE Step(f[i - 1], i)
  <2> SUFFICES ASSUME NEW i \in lo..hi PROVE f[i] = IF i = lo THEN b ELSE Step(f[i - 1], i)
    OBVIOUS
  <2> HIDE DEF lo, hi, b, F, Step
  <2>1. CASE i = lo
    BY <2>1, <1>4 DEF Solves
  <2>2. CASE i # lo
    <3>1. f[i] = G[i][f[i - 1]]
      BY <2>2, <1>4 DEF Solves
    <3>2. i \in Int /\ i - 1 \in lo..hi
      BY <2>2, <1>1
    <3>3. f[i - 1] \in MoveT(P)
      BY <3>2, <1>4
    <3> QED
      BY <2>2, <3>1, <3>2, <3>3
  <2> QED
    BY <2>1, <2>2
<1>6. MoveRec(f, s, P)
  <2> DEFINE g == [i \in lo..hi |-> IF i = lo THEN b ELSE Step(f[i - 1], i)]
  <2>1. f = g
    <3> HIDE DEF lo, hi, b, F, Step, G
    <3> QED
      BY <1>4, <1>5
  <2>2. g = [i \in Hole(s)..Len(s) |->
               IF i = Hole(s)
               THEN [to |-> [q \in P |-> q], cur |-> Lower(s, P, Hole(s) + 1), j |-> Hole(s)]
               ELSE IF s[i] = Undef THEN f[i - 1] ELSE MoveStep(s, P, f[i - 1], i)]
    OBVIOUS
  <2> HIDE DEF g
  <2> QED
    BY <2>1, <2>2 DEF MoveRec
<1>7. MoveRec(F, s, P)
  <2> HIDE DEF G, b, lo, hi, Step
  <2> QED
    BY <1>6
<1>8. Moves(s, P) = F[Len(s)].to
  BY DEF Moves, MoveRec, MoveStep, Hole, Lower, Now
<1> HIDE DEF F
<1>9. F \in [lo..hi -> MoveT(P)]
  <2> DEFINE Q == { i \in lo..hi : F[i] \in MoveT(P) }
  <2>0. F = [i \in lo..hi |-> IF i = lo THEN b ELSE Step(F[i - 1], i)]
    BY <1>7 DEF MoveRec
  <2> HIDE DEF b, G
  <2>1. \A i \in lo..hi : F[i] = IF i = lo THEN b ELSE Step(F[i - 1], i)
    <3> HIDE DEF Step, lo, hi
    <3> QED
      BY <2>0
  <2>2. lo \in Q
    <3> HIDE DEF Step
    <3>1. lo \in lo..hi
      BY <1>1
    <3> QED
      BY <3>1, <2>1, <1>2
  <2>3. ASSUME NEW i \in lo..hi, i # lo, i - 1 \in Q PROVE i \in Q
    <3>1. F[i] = Step(F[i - 1], i) /\ F[i - 1] \in MoveT(P) /\ i \in Int
      BY <2>1, <2>3, <1>1
    <3>2. MoveStep(s, P, F[i - 1], i) \in MoveT(P)
      BY <3>1, MoveStepType
    <3> QED
      BY <3>1, <3>2
  <2>4. \A i \in lo..hi : i \in Q
    <3>1. lo \in Int /\ hi \in Int
      BY <1>1
    <3> HIDE DEF Q, lo, hi, Step
    <3> QED
      BY <3>1, <2>2, <2>3, IntervalInduction
  <2>5. \A i \in lo..hi : F[i] \in MoveT(P)
    BY <2>4
  <2> HIDE DEF Step, lo, hi
  <2> QED
    BY <2>0, <2>5
<1> QED
  BY <1>7, <1>8, <1>9

\* Positions move to positions.
LEMMA MovesType ==
    ASSUME NEW s \in Seq(Slot), NEW P \in SUBSET Nat
    PROVE  Moves(s, P) \in [P -> Nat]
<1>1. CASE Used(s) = DOMAIN s
  BY <1>1 DEF Moves
<1>2. CASE Used(s) # DOMAIN s
  <2>1. PICK f \in [Hole(s)..Len(s) -> MoveT(P)] : Moves(s, P) = f[Len(s)].to
    BY <1>2, MovesUnfolds
  <2>2. Len(s) \in Hole(s)..Len(s)
    BY <1>2, HoleFacts, UsedFacts
  <2>3. f[Len(s)] \in MoveT(P)
    BY <2>1, <2>2
  <2> QED
    BY <2>1, <2>3 DEF MoveT
<1> QED
  BY <1>1, <1>2

\* r is hp with table t replaced by x and iterators on t moved.
Tabled(hp, r, t, x) ==
    /\ r \in HeapT /\ Reposed(hp.iters, r.iters) /\ r.tab = [hp.tab EXCEPT ![t] = x]

\* Tables and iterators still agree if x is a table with the same count.
LEMMA TabledHeap ==
    ASSUME NEW hp, NEW L, NEW W, HeapOK(hp, L, W), NEW t \in Table, t \in L, NEW x, NEW r,
           Tabled(hp, r, t, x), TableOK(x), x.count = hp.tab[t].count, x.kind # "free"
    PROVE  HeapOK(r, L, W) /\ \A w \in W : Mine(r.iters, w) = Mine(hp.iters, w)
<1>1. r \in HeapT /\ Reposed(hp.iters, r.iters) /\ hp \in HeapT
  BY DEF Tabled, HeapOK
<1>2. \A u \in Table : r.tab[u] = IF u = t THEN x ELSE hp.tab[u]
  BY <1>1 DEF Tabled, HeapT
<1>3. \A u \in Table : TableOK(hp.tab[u]) /\ (u \in L <=> hp.tab[u].kind # "free")
  BY DEF HeapOK
<1>4. \A u \in Table : /\ TableOK(r.tab[u]) /\ r.tab[u].count = hp.tab[u].count
                       /\ (r.tab[u].kind = "free" <=> hp.tab[u].kind = "free")
  BY <1>2, <1>3
<1> QED
  BY <1>1, <1>4, ReposedHeap

\* One change after another.
LEMMA TabledTwice ==
    ASSUME NEW hp \in HeapT, NEW q, NEW r, NEW t \in Table, NEW x, NEW y,
           Tabled(hp, q, t, x), Tabled(q, r, t, y)
    PROVE  Tabled(hp, r, t, y)
<1>1. Reposed(hp.iters, r.iters)
  BY DEF Tabled, Reposed
<1>2. q \in HeapT /\ r \in HeapT /\ hp.tab \in [Table -> TableT]
  BY DEF Tabled, HeapT
<1>3. r.tab = [hp.tab EXCEPT ![t] = y]
  BY <1>2 DEF Tabled
<1> QED
  BY <1>1, <1>2, <1>3 DEF Tabled

\* A change of the table only.
LEMMA TabledOnly ==
    ASSUME NEW hp \in HeapT, NEW t \in Table, NEW x \in TableT, NEW r,
           r = [tab |-> [hp.tab EXCEPT ![t] = x], iters |-> hp.iters]
    PROVE  Tabled(hp, r, t, x)
<1>1. hp.tab \in [Table -> TableT] /\ hp.iters \in Seq(Iter)
  BY DEF HeapT
<1>2. [hp.tab EXCEPT ![t] = x] \in [Table -> TableT]
  BY <1>1
<1>3. r \in HeapT /\ r.tab = [hp.tab EXCEPT ![t] = x] /\ r.iters = hp.iters
  BY <1>1, <1>2 DEF HeapT
<1> QED
  BY <1>1, <1>3 DEF Tabled, Reposed

\* Positions are numbers.
LEMMA PositionsType ==
    ASSUME NEW hp \in HeapT, NEW t
    PROVE  Positions(hp, t) \in SUBSET Nat
<1>1. hp.iters \in Seq(Iter) /\ DOMAIN hp.iters = 1..Len(hp.iters)
  BY DEF HeapT
<1>2. \A k \in 1..Len(hp.iters) : hp.iters[k] \in Iter
  BY <1>1, ElementOfSeq
<1> QED
  BY <1>1, <1>2 DEF Positions, Iter

\* zend_hash_rehash closes the holes.
LEMMA RehashFacts ==
    ASSUME NEW hp, NEW L, NEW W, HeapOK(hp, L, W), NEW t \in Table
    PROVE  Tabled(hp, zend_hash_rehash(hp, t), t, [hp.tab[t] EXCEPT !.slots = Dense(hp.tab[t].slots)])
<1> DEFINE s == hp.tab[t].slots
           P == Positions(hp, t)
           to == Moves(s, P)
           end == IF Used(s) = DOMAIN s THEN Len(s) + 1 ELSE Len(Dense(s)) + 1
           to2 == [p \in DOMAIN to |-> IF to[p] = Len(s) + 1 THEN end ELSE to[p]]
           m == Moved(hp, t, to2)
           x == [hp.tab[t] EXCEPT !.slots = Dense(s)]
           r == zend_hash_rehash(hp, t)
<1>1. hp \in HeapT /\ hp.tab[t] \in TableT
  BY DEF HeapOK, HeapT
<1>2. s \in Seq(Slot) /\ P \in SUBSET Nat
  BY <1>1, PositionsType DEF TableT
<1>3. r = [m EXCEPT !.tab[t].slots = Dense(s)]
  BY DEF zend_hash_rehash
<1> HIDE DEF s, P
<1>4. to \in [P -> Nat]
  BY <1>2, MovesType
<1>5. Dense(s) \in Seq(Slot) /\ Len(Dense(s)) \in Nat /\ Len(s) \in Nat
  BY <1>2, DenseFacts, LenProperties
<1>6. to2 \in [P -> Nat]
  <2> HIDE DEF to
  <2> QED
    BY <1>4, <1>5
<1> HIDE DEF to2
<1>7. m \in HeapT /\ m.tab = hp.tab /\ Reposed(hp.iters, m.iters)
  <2>1. \A p \in Positions(hp, t) : to2[p] \in Nat
    BY <1>6 DEF P
  <2> QED
    BY <2>1, MovedFacts
<1>8. x \in TableT
  BY <1>1, <1>5 DEF TableT
<1> HIDE DEF m
<1>9. r = [tab |-> [hp.tab EXCEPT ![t] = x], iters |-> m.iters]
  <2>1. m = [tab |-> hp.tab, iters |-> m.iters]
    BY <1>7 DEF HeapT
  <2>2. r = [m EXCEPT !.tab = [m.tab EXCEPT ![t] = [m.tab[t] EXCEPT !.slots = Dense(s)]]]
    BY <1>3
  <2>3. r = [m EXCEPT !.tab = [hp.tab EXCEPT ![t] = x]]
    BY <2>2, <1>7
  <2> HIDE DEF x, r
  <2> QED
    BY <2>1, <2>3
<1> HIDE DEF r, x
<1>10. [hp.tab EXCEPT ![t] = x] \in [Table -> TableT] /\ m.iters \in Seq(Iter)
  BY <1>1, <1>7, <1>8 DEF HeapT
<1>11. r \in HeapT /\ r.tab = [hp.tab EXCEPT ![t] = x] /\ r.iters = m.iters
  BY <1>9, <1>10 DEF HeapT
<1>12. Tabled(hp, r, t, x)
  BY <1>7, <1>11 DEF Tabled
<1> QED
  BY <1>12 DEF r, x, s

\* zend_hash_packed_grow, zend_hash_do_resize
LEMMA GrownFacts ==
    ASSUME NEW hp, NEW L, NEW W, HeapOK(hp, L, W), NEW t \in Table, t \in L
    PROVE  /\ Tabled(hp, Grown(hp, t), t, [hp.tab[t] EXCEPT !.size = 2 * @])
           /\ HeapOK(Grown(hp, t), L, W)
<1> DEFINE x == [hp.tab[t] EXCEPT !.size = 2 * @]
           r == Grown(hp, t)
<1>1. hp \in HeapT /\ hp.tab[t] \in TableT /\ TableOK(hp.tab[t]) /\ hp.tab[t].kind # "free"
  BY DEF HeapOK, HeapT
<1>2. hp = [tab |-> hp.tab, iters |-> hp.iters]
  BY <1>1 DEF HeapT
<1>3. x \in TableT /\ x.kind = hp.tab[t].kind /\ x.slots = hp.tab[t].slots /\ x.size = 2 * hp.tab[t].size
      /\ x.count = hp.tab[t].count
  BY <1>1 DEF TableT
<1>4. Len(hp.tab[t].slots) \in Nat /\ hp.tab[t].size \in Nat
  BY <1>1, LenProperties DEF TableT
<1>5. TableOK(x)
  <2> HIDE DEF x
  <2> QED
    BY <1>1, <1>3, <1>4 DEF TableOK
<1>6. r = [tab |-> [hp.tab EXCEPT ![t] = x], iters |-> hp.iters]
  <2>1. r = [hp EXCEPT !.tab = [hp.tab EXCEPT ![t] = x]]
    BY DEF Grown
  <2> HIDE DEF r, x
  <2> QED
    BY <2>1, <1>2
<1> HIDE DEF r, x
<1>7. Tabled(hp, r, t, x)
  BY <1>1, <1>3, <1>6, TabledOnly
<1>8. HeapOK(r, L, W)
  BY <1>1, <1>3, <1>5, <1>7, TabledHeap
<1> QED
  BY <1>7, <1>8 DEF r, x

\* The element is put at the end of a hash.
AddEnd(g, t, h, e) == [g EXCEPT !.tab[t].kind = "hash", !.tab[t].next = h + 1,
                                !.tab[t].slots = Append(@, e)]
\* Such an insertion keeps the heap sound.
LEMMA AddEndHeap ==
    ASSUME NEW hp, NEW L, NEW W, HeapOK(hp, L, W), NEW t \in Table, t \in L,
           NEW h \in Nat, NEW e \in Elems, Len(hp.tab[t].slots) < hp.tab[t].size
    PROVE  HeapOK(AddEnd(hp, t, h, e), L, W)
<1> DEFINE s == hp.tab[t].slots
           x == [hp.tab[t] EXCEPT !.kind = "hash", !.next = h + 1, !.slots = Append(s, e)]
           r == AddEnd(hp, t, h, e)
<1>1. hp \in HeapT /\ hp.tab[t] \in TableT /\ TableOK(hp.tab[t]) /\ hp.tab[t].kind # "free"
  BY DEF HeapOK, HeapT
<1>2. hp = [tab |-> hp.tab, iters |-> hp.iters]
  BY <1>1 DEF HeapT
<1>3. s \in Seq(Slot) /\ e \in Slot /\ hp.tab[t].size \in Nat
  BY <1>1 DEF TableT, Slot
<1>4. Append(s, e) \in Seq(Slot) /\ Len(Append(s, e)) = Len(s) + 1 /\ Len(s) \in Nat
  <2> HIDE DEF s
  <2> QED
    BY <1>3, AppendFacts, LenProperties
<1>5. x \in TableT /\ x.kind = "hash" /\ x.slots = Append(s, e) /\ x.size = hp.tab[t].size
      /\ x.count = hp.tab[t].count
  <2> DEFINE a == Append(s, e)
             b == h + 1
  <2>1. a \in Seq(Slot) /\ b \in Nat
    BY <1>4
  <2>2. x = [hp.tab[t] EXCEPT !.kind = "hash", !.next = b, !.slots = a]
    OBVIOUS
  <2> HIDE DEF a, b, x
  <2>3. x \in TableT /\ x.kind = "hash" /\ x.slots = a /\ x.size = hp.tab[t].size
        /\ x.count = hp.tab[t].count
    BY <1>1, <2>1, <2>2 DEF TableT
  <2> QED
    BY <2>3 DEF a
<1>6. TableOK(x)
  <2> HIDE DEF x
  <2> QED
    BY <1>1, <1>3, <1>4, <1>5 DEF TableOK
<1>7. r = [tab |-> [hp.tab EXCEPT ![t] = x], iters |-> hp.iters]
  <2> DEFINE a == [hp.tab[t] EXCEPT !.kind = "hash"]
             b == [a EXCEPT !.next = h + 1]
             c == [b EXCEPT !.slots = Append(@, e)]
             ha == [hp EXCEPT !.tab[t].kind = "hash"]
             hb == [ha EXCEPT !.tab[t].next = h + 1]
             hc == [hb EXCEPT !.tab[t].slots = Append(@, e)]
  <2>1. r = hc
    BY Zenon DEF AddEnd
  <2>2. ha = [tab |-> [hp.tab EXCEPT ![t] = a], iters |-> hp.iters]
    BY <1>2
  <2>3. a.slots = s /\ b.slots = s
    BY <1>1 DEF TableT
  <2>4. c = x
    BY <1>1, <2>3 DEF TableT
  <2> HIDE DEF a, ha, c
  <2>a. hp.tab \in [Table -> TableT]
    BY <1>1 DEF HeapT
  <2>5. hb = [tab |-> [hp.tab EXCEPT ![t] = b], iters |-> hp.iters]
    <3>1. ha.tab = [hp.tab EXCEPT ![t] = a] /\ ha.iters = hp.iters /\ ha.tab[t] = a
      BY <2>2, <2>a
    <3>2. hb = [ha EXCEPT !.tab = [ha.tab EXCEPT ![t] = [ha.tab[t] EXCEPT !.next = h + 1]]]
      OBVIOUS
    <3>3. hb = [ha EXCEPT !.tab = [ha.tab EXCEPT ![t] = b]]
      BY <3>1, <3>2
    <3>4. [ha.tab EXCEPT ![t] = b] = [hp.tab EXCEPT ![t] = b]
      BY <3>1, <2>a
    <3> HIDE DEF b, hb
    <3> QED
      BY <3>3, <3>4, <2>2
  <2> HIDE DEF b, hb
  <2>6. hc = [tab |-> [hp.tab EXCEPT ![t] = c], iters |-> hp.iters]
    <3>1. hb.tab = [hp.tab EXCEPT ![t] = b] /\ hb.iters = hp.iters /\ hb.tab[t] = b
      BY <2>5, <2>a
    <3>2. hc = [hb EXCEPT !.tab = [hb.tab EXCEPT ![t] = [hb.tab[t] EXCEPT !.slots = Append(@, e)]]]
      OBVIOUS
    <3>3. hc = [hb EXCEPT !.tab = [hb.tab EXCEPT ![t] = c]]
      BY <3>1, <3>2 DEF c
    <3>4. [hb.tab EXCEPT ![t] = c] = [hp.tab EXCEPT ![t] = c]
      BY <3>1, <2>a
    <3> HIDE DEF hc
    <3> QED
      BY <3>3, <3>4, <2>5
  <2> HIDE DEF hc, r, x
  <2> QED
    BY <2>1, <2>4, <2>6
<1> HIDE DEF r, x
<1>8. Tabled(hp, r, t, x)
  BY <1>1, <1>5, <1>7, TabledOnly
<1>9. x.kind # "free"
  BY <1>5
<1>10. HeapOK(r, L, W)
  BY <1>5, <1>6, <1>8, <1>9, TabledHeap
<1> QED
  BY <1>10 DEF r

\* A table replaced by another one with the same count.
LEMMA SetTable ==
    ASSUME NEW hp, NEW L, NEW W, HeapOK(hp, L, W), NEW t \in Table, t \in L, NEW x \in TableT,
           TableOK(x), x.count = hp.tab[t].count, x.kind # "free", NEW r,
           r = [tab |-> [hp.tab EXCEPT ![t] = x], iters |-> hp.iters]
    PROVE  HeapOK(r, L, W)
<1>1. hp \in HeapT
  BY DEF HeapOK
<1>2. Tabled(hp, r, t, x)
  BY <1>1, TabledOnly
<1> QED
  BY <1>2, TabledHeap

\* A compacted table has room for another element if not all positions were in use.
LEMMA RehashAdd ==
    ASSUME NEW hp, NEW L, NEW W, HeapOK(hp, L, W), NEW t \in Table, t \in L,
           NEW h \in Nat, NEW e \in Elems, Cardinality(Used(hp.tab[t].slots)) < hp.tab[t].size
    PROVE  HeapOK(AddEnd(zend_hash_rehash(hp, t), t, h, e), L, W)
<1> DEFINE s == hp.tab[t].slots
           d == Dense(s)
           x == [hp.tab[t] EXCEPT !.slots = d]
           r == zend_hash_rehash(hp, t)
<1>1. hp \in HeapT /\ hp.tab[t] \in TableT /\ TableOK(hp.tab[t]) /\ hp.tab[t].kind # "free"
  BY DEF HeapOK, HeapT
<1>2. s \in Seq(Slot) /\ hp.tab[t].size \in Nat
  BY <1>1 DEF TableT
<1>3. /\ d \in Seq(Slot) /\ Len(d) = Cardinality(Used(s)) /\ Cardinality(Used(s)) \in Nat
      /\ Cardinality(Used(s)) <= Len(s) /\ Len(s) \in Nat
  BY <1>2, DenseFacts, UsedFacts
<1>4. Tabled(hp, r, t, x)
  BY RehashFacts
<1> HIDE DEF d, r
<1>5. /\ x.kind = hp.tab[t].kind /\ x.slots = d /\ x.size = hp.tab[t].size
      /\ x.count = hp.tab[t].count
  BY <1>1 DEF TableT
<1> HIDE DEF x
<1>6. TableOK(x)
  BY <1>1, <1>2, <1>3, <1>5 DEF TableOK
<1>7. HeapOK(r, L, W)
  BY <1>1, <1>4, <1>5, <1>6, TabledHeap
<1>8. r.tab[t] = x
  BY <1>1, <1>4 DEF Tabled, HeapT
<1>9. Len(r.tab[t].slots) < r.tab[t].size
  BY <1>3, <1>5, <1>8
<1> QED
  BY <1>7, <1>9, AddEndHeap DEF r

\* A packed table with the new element, of size n.
Widened(hp, t, n, at, h) ==
    [tab |-> [hp.tab EXCEPT ![t] = [hp.tab[t] EXCEPT !.kind = "packed", !.slots = at,
                                                     !.next = h + 1, !.size = n]],
     iters |-> hp.iters]
\* Such a table keeps the heap sound.
LEMMA WidenedHeap ==
    ASSUME NEW hp, NEW L, NEW W, HeapOK(hp, L, W), NEW t \in Table, t \in L,
           NEW n \in Nat, NEW h \in Nat, NEW at \in Seq(Slot), Len(at) = h + 1, h < n
    PROVE  HeapOK(Widened(hp, t, n, at, h), L, W)
<1> DEFINE b == h + 1
           x == [hp.tab[t] EXCEPT !.kind = "packed", !.slots = at, !.next = b, !.size = n]
           r == Widened(hp, t, n, at, h)
<1>1. hp \in HeapT /\ hp.tab[t] \in TableT
  BY DEF HeapOK, HeapT
<1>2. b \in Nat /\ b <= n /\ Len(at) = b /\ n >= 1
  OBVIOUS
<1>3. r = [tab |-> [hp.tab EXCEPT ![t] = x], iters |-> hp.iters]
  BY DEF Widened
<1> HIDE DEF b, r
<1>4. x \in TableT /\ x.kind = "packed" /\ x.slots = at /\ x.size = n /\ x.count = hp.tab[t].count
  BY <1>1, <1>2 DEF TableT
<1> HIDE DEF x
<1>5. TableOK(x) /\ x.kind # "free"
  BY <1>2, <1>4 DEF TableOK
<1>6. HeapOK(r, L, W)
  BY <1>3, <1>4, <1>5, SetTable
<1> QED
  BY <1>6 DEF r

\* The record updates of zend_hash_next_index_insert.
Packed(hp, t, at, h) == [hp EXCEPT !.tab[t].kind = "packed", !.tab[t].slots = at,
                                   !.tab[t].next = h + 1]
\* Both ways to insert into a packed table widen it.
LEMMA WidenedIs ==
    ASSUME NEW hp \in HeapT, NEW t \in Table, NEW at, NEW h \in Nat
    PROVE  /\ Packed(hp, t, at, h) = Widened(hp, t, hp.tab[t].size, at, h)
           /\ Grown(Packed(hp, t, at, h), t) = Widened(hp, t, 2 * hp.tab[t].size, at, h)
<1> DEFINE b == h + 1
           x1 == [hp.tab[t] EXCEPT !.kind = "packed"]
           x2 == [x1 EXCEPT !.slots = at]
           x3 == [x2 EXCEPT !.next = b]
           h1 == [hp EXCEPT !.tab[t].kind = "packed"]
           h2 == [h1 EXCEPT !.tab[t].slots = at]
           h3 == [h2 EXCEPT !.tab[t].next = b]
           n == hp.tab[t].size
           m == 2 * n
           y == [x3 EXCEPT !.size = m]
           At(x) == [tab |-> [hp.tab EXCEPT ![t] = x], iters |-> hp.iters]
<1>1. /\ hp = [tab |-> hp.tab, iters |-> hp.iters] /\ hp.tab \in [Table -> TableT]
      /\ hp.tab[t] \in TableT
  BY DEF HeapT
<1>2. \A x : At(x).tab = [hp.tab EXCEPT ![t] = x] /\ At(x).iters = hp.iters /\ At(x).tab[t] = x
  BY <1>1
<1>3. \A x, z : [At(x).tab EXCEPT ![t] = z] = [hp.tab EXCEPT ![t] = z]
  BY <1>1
<1>4. \A x, z : [At(x) EXCEPT !.tab = [hp.tab EXCEPT ![t] = z]] = At(z)
  OBVIOUS
<1>5. h1 = At(x1)
  BY <1>1
<1>6. h2 = [h1 EXCEPT !.tab = [h1.tab EXCEPT ![t] = [h1.tab[t] EXCEPT !.slots = at]]]
  OBVIOUS
<1>7. h3 = [h2 EXCEPT !.tab = [h2.tab EXCEPT ![t] = [h2.tab[t] EXCEPT !.next = b]]]
  OBVIOUS
<1>8. Grown(h3, t) = [h3 EXCEPT !.tab = [h3.tab EXCEPT ![t] = [h3.tab[t] EXCEPT !.size = 2 * h3.tab[t].size]]]
  BY DEF Grown
<1> HIDE DEF At, x1, h1
<1>9. h2 = At(x2)
  BY <1>2, <1>3, <1>4, <1>5, <1>6
<1> HIDE DEF x2, h2
<1>10. h3 = At(x3)
  BY <1>2, <1>3, <1>4, <1>9, <1>7
<1>11. x3.size = n
  BY <1>1 DEF x1, x2, TableT
<1> HIDE DEF x3, h3
<1>12. Grown(h3, t) = At(y)
  BY <1>2, <1>3, <1>4, <1>10, <1>8, <1>11
<1>13. /\ x3 = [hp.tab[t] EXCEPT !.kind = "packed", !.slots = at, !.next = b, !.size = n]
       /\ y = [hp.tab[t] EXCEPT !.kind = "packed", !.slots = at, !.next = b, !.size = m]
  BY <1>1 DEF x1, x2, x3, TableT
<1>14. At(x3) = Widened(hp, t, n, at, h) /\ At(y) = Widened(hp, t, m, at, h)
  <2> HIDE DEF y
  <2> QED
    BY <1>13 DEF At, Widened
<1>15. h3 = Packed(hp, t, at, h)
  BY DEF h1, h2, h3, Packed
<1> HIDE DEF y
<1> QED
  BY <1>10, <1>12, <1>14, <1>15

\* zend_hash_next_index_insert, in every one of its cases.
LEMMA InsertHeap ==
    ASSUME NEW hp, NEW L, NEW W, HeapOK(hp, L, W), NEW t \in Table, t \in L, NEW e \in Elems
    PROVE  HeapOK(zend_hash_next_index_insert(hp, t, e), L, W)
<1> DEFINE ht == hp.tab[t]
           h == ht.next
           n == Cardinality(Used(ht.slots))
           full == Len(ht.slots) >= ht.size
           at == [p \in 1..(h + 1) |-> IF p <= Len(ht.slots) THEN ht.slots[p]
                                       ELSE IF p = h + 1 THEN e ELSE Undef]
           packed == [hp EXCEPT !.tab[t].kind = "packed", !.tab[t].slots = at,
                                !.tab[t].next = h + 1]
           r == zend_hash_next_index_insert(hp, t, e)
<1>1. hp \in HeapT /\ ht \in TableT /\ TableOK(ht) /\ ht.kind # "free"
  BY DEF HeapOK, HeapT
<1>2. ht.slots \in Seq(Slot) /\ ht.size \in Nat /\ h \in Nat /\ Len(ht.slots) \in Nat
  BY <1>1, LenProperties DEF TableT
<1>3. n \in Nat /\ n <= Len(ht.slots) /\ Len(ht.slots) <= ht.size /\ ht.size >= 1
  BY <1>1, <1>2, UsedFacts DEF TableOK
<1>4. at \in Seq(Slot) /\ Len(at) = h + 1
  <2>1. \A p \in 1..Len(ht.slots) : ht.slots[p] \in Slot
    BY <1>2, ElementOfSeq
  <2>2. at \in [1..(h + 1) -> Slot]
    BY <2>1, <1>2 DEF Slot
  <2>3. h + 1 \in Nat
    BY <1>2
  <2> HIDE DEF at
  <2> QED
    BY <2>2, <2>3, SeqDef
<1>5. packed = Widened(hp, t, ht.size, at, h) /\ Grown(packed, t) = Widened(hp, t, 2 * ht.size, at, h)
  <2> HIDE DEF at, h
  <2>1. /\ Packed(hp, t, at, h) = Widened(hp, t, hp.tab[t].size, at, h)
        /\ Grown(Packed(hp, t, at, h), t) = Widened(hp, t, 2 * hp.tab[t].size, at, h)
    BY <1>1, <1>2, WidenedIs
  <2>2. Packed(hp, t, at, h) = packed
    BY DEF Packed
  <2> QED
    BY <2>1, <2>2
<1> DEFINE fits == h \div 2 < ht.size /\ ht.size \div 2 < n
           c1 == ht.kind # "hash" /\ h < ht.size
           c2 == /\ ht.kind = "packed" /\ h >= ht.size
                 /\ h \div 2 < ht.size /\ ht.size \div 2 < n
           c3 == ht.kind = "packed" /\ h >= ht.size /\ ~fits
           c4 == ht.kind = "uninit" /\ h >= ht.size
           c5 == ht.kind = "hash" /\ ~full
           c6 == ht.kind = "hash" /\ full
           r2 == Grown(packed, t)
           r3 == AddEnd(zend_hash_rehash(IF full THEN Grown(hp, t) ELSE hp, t), t, h, e)
           r4 == AddEnd(hp, t, h, e)
           r6 == AddEnd(zend_hash_rehash(IF Len(ht.slots) > n + n \div 32 THEN hp
                                         ELSE Grown(hp, t), t), t, h, e)
<1>c. r = CASE c1 -> packed [] c2 -> r2 [] c3 -> r3 [] c4 -> r4 [] c5 -> r4 [] c6 -> r6
  BY Zenon DEF zend_hash_next_index_insert, AddEnd
<1>d. /\ c1 => ~c2 /\ ~c3 /\ ~c4 /\ ~c5 /\ ~c6
      /\ c2 => ~c1 /\ ~c3 /\ ~c4 /\ ~c5 /\ ~c6
      /\ c3 => ~c1 /\ ~c2 /\ ~c4 /\ ~c5 /\ ~c6
      /\ c4 => ~c1 /\ ~c2 /\ ~c3 /\ ~c5 /\ ~c6
      /\ c5 => ~c1 /\ ~c2 /\ ~c3 /\ ~c4 /\ ~c6
      /\ c6 => ~c1 /\ ~c2 /\ ~c3 /\ ~c4 /\ ~c5
  <2>1. h < ht.size => ~(h >= ht.size)
    BY <1>2
  <2> HIDE DEF ht, h, n
  <2> QED
    BY <2>1, Zenon
<1>s. /\ c1 => r = packed
      /\ c2 => r = r2
      /\ c3 => r = r3
      /\ c4 \/ c5 => r = r4
      /\ c6 => r = r6
  <2> HIDE DEF c1, c2, c3, c4, c5, c6, r, r2, r3, r4, r6, packed
  <2> QED
    BY <1>c, <1>d, Zenon
<1> HIDE DEF r, fits
<1>6. CASE ht.kind # "hash" /\ h < ht.size
  <2>1. r = packed
    BY <1>6, <1>s, Zenon
  <2> HIDE DEF packed, at, ht
  <2>2. HeapOK(Widened(hp, t, ht.size, at, h), L, W)
    BY <1>2, <1>4, <1>6, WidenedHeap
  <2>3. HeapOK(r, L, W)
    BY <2>1, <2>2, <1>5
  <2> QED
    BY <2>3 DEF r
<1>7. CASE /\ ht.kind = "packed" /\ h >= ht.size
           /\ h \div 2 < ht.size /\ ht.size \div 2 < n
  <2>1. r = Grown(packed, t)
    BY <1>7, <1>s, Zenon
  <2> HIDE DEF packed, at, ht, n
  <2>2. 2 * ht.size \in Nat /\ h < 2 * ht.size
    BY <1>2, <1>7
  <2>3. HeapOK(Widened(hp, t, 2 * ht.size, at, h), L, W)
    BY <2>2, <1>2, <1>4, WidenedHeap
  <2>4. HeapOK(r, L, W)
    BY <2>1, <2>3, <1>5
  <2> QED
    BY <2>4 DEF r
<1>8. CASE /\ ht.kind = "packed" /\ h >= ht.size
           /\ ~(h \div 2 < ht.size /\ ht.size \div 2 < n)
  <2> DEFINE g == IF full THEN Grown(hp, t) ELSE hp
  <2>1. r = AddEnd(zend_hash_rehash(g, t), t, h, e)
    BY <1>8, <1>s, Zenon DEF fits
  <2>2. HeapOK(g, L, W) /\ Cardinality(Used(g.tab[t].slots)) < g.tab[t].size
    <3>1. CASE full
      <4>1. HeapOK(g, L, W) /\ Tabled(hp, g, t, [ht EXCEPT !.size = 2 * @])
        BY <3>1, GrownFacts
      <4>2. g.tab[t] = [ht EXCEPT !.size = 2 * @]
        BY <1>1, <4>1 DEF Tabled, HeapT
      <4>3. g.tab[t].slots = ht.slots /\ g.tab[t].size = 2 * ht.size
        BY <4>2, <1>1 DEF TableT
      <4>4. n < 2 * ht.size
        <5> HIDE DEF n, ht
        <5> QED
          BY <1>2, <1>3
      <4> QED
        BY <4>1, <4>3, <4>4
    <3>2. CASE ~full
      <4>1. n < ht.size
        <5> HIDE DEF n, ht
        <5> QED
          BY <3>2, <1>2, <1>3
      <4> QED
        BY <3>2, <4>1
    <3> QED
      BY <3>1, <3>2
  <2> HIDE DEF g, r, ht
  <2>3. HeapOK(r, L, W)
    BY <1>2, <2>1, <2>2, RehashAdd
  <2> QED
    BY <2>3 DEF r
<1>9. CASE \/ ht.kind = "uninit" /\ h >= ht.size
           \/ ht.kind = "hash" /\ ~full
  <2>1. r = AddEnd(hp, t, h, e)
    BY <1>9, <1>s, Zenon
  <2>2. Len(ht.slots) < ht.size
    <3> HIDE DEF ht
    <3> QED
      BY <1>9, <1>1, <1>2, <1>3 DEF TableOK
  <2> HIDE DEF r
  <2>3. HeapOK(r, L, W)
    BY <1>2, <2>1, <2>2, AddEndHeap
  <2> QED
    BY <2>3 DEF r
<1>10. CASE ht.kind = "hash" /\ full
  <2> DEFINE more == Len(ht.slots) > n + n \div 32
             g == IF more THEN hp ELSE Grown(hp, t)
  <2>1. r = AddEnd(zend_hash_rehash(g, t), t, h, e)
    BY <1>10, <1>s, Zenon
  <2>2. HeapOK(g, L, W) /\ Cardinality(Used(g.tab[t].slots)) < g.tab[t].size
    <3>1. CASE ~more
      <4>1. HeapOK(g, L, W) /\ Tabled(hp, g, t, [ht EXCEPT !.size = 2 * @])
        BY <3>1, GrownFacts
      <4>2. g.tab[t] = [ht EXCEPT !.size = 2 * @]
        BY <1>1, <4>1 DEF Tabled, HeapT
      <4>3. g.tab[t].slots = ht.slots /\ g.tab[t].size = 2 * ht.size
        BY <4>2, <1>1 DEF TableT
      <4>4. n < 2 * ht.size
        <5> HIDE DEF n, ht
        <5> QED
          BY <1>2, <1>3
      <4> QED
        BY <4>1, <4>3, <4>4
    <3>2. CASE more
      <4>1. n < ht.size
        <5> HIDE DEF n, ht
        <5> QED
          BY <3>2, <1>2, <1>3
      <4> QED
        BY <3>2, <4>1
    <3> QED
      BY <3>1, <3>2
  <2> HIDE DEF g, r, ht
  <2>3. HeapOK(r, L, W)
    BY <1>2, <2>1, <2>2, RehashAdd
  <2> QED
    BY <2>3 DEF r
<1>11. ht.kind \in {"uninit", "packed", "hash"}
  BY <1>1 DEF TableT
<1> HIDE DEF r, n, at, packed, ht
<1> QED
  BY <1>2, <1>6, <1>7, <1>8, <1>9, <1>10, <1>11 DEF r

-----------------------------------------------------------------------------
(* Removing.                                                               *)

\* Iterators on t are moved and its slots replaced.
LEMMA MovedSlots ==
    ASSUME NEW hp, NEW L, NEW W, HeapOK(hp, L, W), NEW t \in Table,
           NEW to, \A p \in Positions(hp, t) : to[p] \in Nat, NEW d \in Seq(Slot)
    PROVE  Tabled(hp, [Moved(hp, t, to) EXCEPT !.tab[t].slots = d], t,
                  [hp.tab[t] EXCEPT !.slots = d])
<1> DEFINE m == Moved(hp, t, to)
           x == [hp.tab[t] EXCEPT !.slots = d]
           r == [m EXCEPT !.tab[t].slots = d]
<1>1. hp \in HeapT /\ hp.tab[t] \in TableT
  BY DEF HeapOK, HeapT
<1>2. m \in HeapT /\ m.tab = hp.tab /\ Reposed(hp.iters, m.iters)
  BY MovedFacts
<1>3. x \in TableT
  BY <1>1 DEF TableT
<1> HIDE DEF m
<1>4. r = [tab |-> [hp.tab EXCEPT ![t] = x], iters |-> m.iters]
  <2>1. m = [tab |-> hp.tab, iters |-> m.iters]
    BY <1>2 DEF HeapT
  <2>2. r = [m EXCEPT !.tab = [m.tab EXCEPT ![t] = [m.tab[t] EXCEPT !.slots = d]]]
    OBVIOUS
  <2>3. r = [m EXCEPT !.tab = [hp.tab EXCEPT ![t] = x]]
    BY <2>2, <1>2
  <2> HIDE DEF x, r
  <2> QED
    BY <2>1, <2>3
<1> HIDE DEF r, x
<1>5. [hp.tab EXCEPT ![t] = x] \in [Table -> TableT] /\ m.iters \in Seq(Iter)
  BY <1>1, <1>2, <1>3 DEF HeapT
<1>6. r \in HeapT /\ r.tab = [hp.tab EXCEPT ![t] = x] /\ r.iters = m.iters
  BY <1>4, <1>5 DEF HeapT
<1>7. Tabled(hp, r, t, x)
  BY <1>2, <1>6 DEF Tabled
<1> QED
  BY <1>7 DEF r, x, m

\* zend_hash_index_del
LEMMA IndexDelHeap ==
    ASSUME NEW hp, NEW L, NEW W, HeapOK(hp, L, W), NEW t \in Table, t \in L, NEW e
    PROVE  HeapOK(zend_hash_index_del(hp, t, e), L, W)
<1> DEFINE s0 == hp.tab[t].slots
           s == [p \in DOMAIN s0 |-> IF s0[p] = e THEN Undef ELSE s0[p]]
           end == Max({0} \union Used(s))
           d == SubSeq(s, 1, end)
           to == [p \in Positions(hp, t) |-> IF end < Len(s) THEN Min({p, end + 1}) ELSE p]
           r == zend_hash_index_del(hp, t, e)
           x == [hp.tab[t] EXCEPT !.slots = d]
<1>1. hp \in HeapT /\ hp.tab[t] \in TableT /\ TableOK(hp.tab[t]) /\ hp.tab[t].kind # "free"
  BY DEF HeapOK, HeapT
<1>2. s0 \in Seq(Slot) /\ hp.tab[t].size \in Nat /\ Positions(hp, t) \in SUBSET Nat
  BY <1>1, PositionsType DEF TableT
<1>3. s \in Seq(Slot) /\ Len(s) = Len(s0) /\ Len(s0) \in Nat
  <2> HIDE DEF s0
  <2>1. Len(s0) \in Nat /\ DOMAIN s0 = 1..Len(s0) /\ \A p \in 1..Len(s0) : s0[p] \in Slot
    BY <1>2, UsedFacts
  <2>2. s \in [1..Len(s0) -> Slot]
    BY <2>1 DEF Slot
  <2> HIDE DEF s
  <2> QED
    BY <2>1, <2>2, SeqDef
<1>4. r = [Moved(hp, t, to) EXCEPT !.tab[t].slots = d]
  BY DEF zend_hash_index_del
<1> HIDE DEF s
<1>5. end \in Nat /\ end <= Len(s)
  <2>1. Used(s) \in SUBSET (1..Len(s)) /\ Len(s) \in Nat
    BY <1>3, UsedFacts
  <2>2. {0} \union Used(s) \in SUBSET (0..Len(s))
    BY <2>1
  <2>3. end \in 0..Len(s)
    BY <2>1, <2>2, MaxNat
  <2> QED
    BY <2>1, <2>3
<1> HIDE DEF end
<1>6. d \in Seq(Slot) /\ Len(d) = end
  <2>1. /\ \A i \in 1..end : i \in 1..Len(s)
        /\ 1 \in Nat
    BY <1>3, <1>5
  <2>2. \A i \in 1..end : s[i] \in Slot
    BY <2>1, <1>3, ElementOfSeq
  <2> QED
    BY <1>3, <1>5, <2>1, <2>2, SubSeqProperties
<1>7. to \in [Positions(hp, t) -> Nat]
  <2> DEFINE P == Positions(hp, t)
  <2>1. ASSUME NEW p \in P PROVE Min({p, end + 1}) \in Nat
    <3>1. {p, end + 1} \in SUBSET Nat /\ {p, end + 1} # {}
      BY <1>2, <1>5
    <3> QED
      BY <3>1, MinIs
  <2> HIDE DEF P
  <2>2. to \in [P -> Nat]
    BY <2>1, <1>2 DEF P
  <2> QED
    BY <2>2 DEF P
<1> HIDE DEF d, to
<1>8. Tabled(hp, r, t, x)
  <2>1. \A p \in Positions(hp, t) : to[p] \in Nat
    BY <1>7
  <2> QED
    BY <2>1, <1>4, <1>6, MovedSlots
<1>9. /\ x.kind = hp.tab[t].kind /\ x.slots = d /\ x.size = hp.tab[t].size
      /\ x.count = hp.tab[t].count
  BY <1>1 DEF TableT
<1> HIDE DEF x
<1>10. TableOK(x)
  BY <1>1, <1>2, <1>3, <1>5, <1>6, <1>9 DEF TableOK
<1>11. HeapOK(r, L, W)
  BY <1>1, <1>8, <1>9, <1>10, TabledHeap
<1> QED
  BY <1>11

-----------------------------------------------------------------------------
(* Copying and destroying.                                                 *)

\* A table at an address that was free has no iterators.
WithTable(hp, t, x) == [hp EXCEPT !.tab[t] = x]
\* Such a table keeps the heap sound.
LEMMA NewTable ==
    ASSUME NEW hp, NEW L, NEW W, HeapOK(hp, L, W), NEW t \in Table, t \notin L,
           NEW x \in TableT, TableOK(x), x.count = 0, x.kind # "free",
           NEW r, r = WithTable(hp, t, x)
    PROVE  /\ HeapOK(r, L \union {t}, W) /\ r.iters = hp.iters /\ On(r.iters, t) = {}
           /\ r.tab = [hp.tab EXCEPT ![t] = x]
<1>1. hp \in HeapT /\ hp.tab \in [Table -> TableT] /\ hp.iters \in Seq(Iter)
  BY DEF HeapOK, HeapT
<1>2. r = [tab |-> [hp.tab EXCEPT ![t] = x], iters |-> hp.iters]
  BY <1>1 DEF HeapT, WithTable
<1>3. r.tab = [hp.tab EXCEPT ![t] = x] /\ r.iters = hp.iters
  BY <1>2
<1>4. r.tab \in [Table -> TableT] /\ \A u \in Table : r.tab[u] = IF u = t THEN x ELSE hp.tab[u]
  BY <1>1, <1>3
<1>5. r \in HeapT
  BY <1>1, <1>2, <1>3, <1>4 DEF HeapT
<1>6. On(r.iters, t) = {}
  BY <1>3 DEF HeapOK, On
<1>7. \A u \in Table : TableOK(r.tab[u]) /\ (u \in L \union {t} <=> r.tab[u].kind # "free")
  BY <1>4 DEF HeapOK
<1>8. \A u \in Table : r.tab[u].count = Cardinality(On(r.iters, u))
  <2> SUFFICES ASSUME NEW u \in Table PROVE r.tab[u].count = Cardinality(On(r.iters, u))
    OBVIOUS
  <2>1. CASE u = t
    BY <2>1, <1>4, <1>6, FS_EmptySet
  <2>2. CASE u # t
    BY <2>2, <1>3, <1>4 DEF HeapOK
  <2> QED
    BY <2>1, <2>2
<1>9. HeapOK(r, L \union {t}, W)
  BY <1>3, <1>5, <1>7, <1>8 DEF HeapOK
<1> QED
  BY <1>3, <1>6, <1>9

\* Rings without an iterator on src are left alone.
Others(hp, r, src, W) ==
    \A w \in W : (\A k \in Mine(hp.iters, w) : hp.iters[k].ht # src) =>
        /\ Mine(r.iters, w) = Mine(hp.iters, w)
        /\ \A k \in Mine(hp.iters, w) : r.iters[k].ht = hp.iters[k].ht

\* That is so after the iterators were duplicated.
LEMMA DupOthers ==
    ASSUME NEW hp, NEW r, NEW L, NEW W, NEW n, NEW src, NEW dst, HeapOK(hp, L, W), HeapOK(r, L, W),
           DupKeeps(hp, r, n, src, dst, W)
    PROVE  Others(hp, r, src, W)
<1> DEFINE is == hp.iters
           js == r.iters
<1>1. Parted(is, W) /\ Parted(js, W)
  BY DEF HeapOK, Owned
<1> SUFFICES ASSUME NEW w \in W, \A k \in Mine(is, w) : is[k].ht # src
             PROVE  Mine(js, w) = Mine(is, w) /\ \A k \in Mine(is, w) : js[k].ht = is[k].ht
  BY DEF Others
<1>2. Mine(is, w) \subseteq Mine(js, w)
  BY DEF DupKeeps
<1>3. ASSUME NEW k \in Mine(js, w) PROVE k \in Mine(is, w)
  <2>1. js[k].ht # dst
    BY DEF DupKeeps
  <2>2. k \in InUse(js)
    BY <1>1 DEF Parted
  <2>3. k \in InUse(is)
    BY <2>1, <2>2 DEF DupKeeps
  <2>4. PICK v \in W : k \in Mine(is, v)
    BY <1>1, <2>3 DEF Parted
  <2>5. k \in Mine(js, v)
    BY <2>4 DEF DupKeeps
  <2>6. v = w
    BY <1>1, <2>5 DEF Parted
  <2> QED
    BY <2>4, <2>6
<1>4. ASSUME NEW k \in Mine(is, w) PROVE js[k].ht = is[k].ht
  <2>1. k \in InUse(is)
    BY <1>1 DEF Parted
  <2> QED
    BY <2>1 DEF DupKeeps
<1> QED
  BY <1>2, <1>3, <1>4

\* The copies are at positions of iterators on src.
LEMMA DupPositions ==
    ASSUME NEW hp, NEW r, NEW L, NEW W, NEW n, NEW src, NEW dst \in Table, HeapOK(hp, L, W),
           HeapOK(r, L, W), DupKeeps(hp, r, n, src, dst, W)
    PROVE  Positions(r, dst) \subseteq Positions(hp, src)
<1> DEFINE is == hp.iters
           js == r.iters
<1>1. Parted(is, W) /\ Parted(js, W) /\ W \in SUBSET (1..Len(is)) /\ Linked(is)
      /\ DOMAIN is = 1..Len(is) /\ DOMAIN js = 1..Len(js)
  BY DEF HeapOK, Owned, Parted, HeapT
<1> SUFFICES ASSUME NEW k \in 1..Len(js), js[k].ht = dst
             PROVE  \E l \in 1..Len(is) : is[l].ht = src /\ is[l].pos = js[k].pos
  BY <1>1 DEF Positions
<1>2. k \in InUse(js)
  BY SentinelAssumption DEF InUse
<1>3. PICK w \in W : k \in Mine(js, w)
  BY <1>1, <1>2 DEF Parted
<1>4. PICK l \in Mine(is, w) : is[l].ht = src /\ is[l].pos = js[k].pos
  BY <1>3 DEF DupKeeps
<1>5. l \in 1..Len(is)
  BY <1>1, <1>4, MineFacts
<1> QED
  BY <1>4, <1>5

\* zend_array_dup
LEMMA DupArrayHeap ==
    ASSUME NEW hp, NEW L, NEW W, HeapOK(hp, L, W), Room(W), NEW src \in Table, src \in L,
           NEW dst \in Table, dst \notin L
    PROVE  LET r == zend_array_dup(hp, src, dst)
           IN  HeapOK(r, L \union {dst}, W) /\ Others(hp, r, src, W)
<1> DEFINE ht == hp.tab[src]
           s == ht.slots
           r == zend_array_dup(hp, src, dst)
           M == L \union {dst}
<1>1. /\ hp \in HeapT /\ ht \in TableT /\ TableOK(ht) /\ ht.kind # "free" /\ src # dst
      /\ s \in Seq(Slot) /\ ht.size \in Nat
  BY DEF HeapOK, HeapT, TableT
<1>2. CASE Used(s) = {}
  <2> DEFINE x == [ht EXCEPT !.kind = "uninit", !.slots = <<>>, !.size = MinSize, !.count = 0]
  <2>1. r = WithTable(hp, dst, x)
    BY <1>2 DEF zend_array_dup, WithTable
  <2>2. <<>> \in Seq(Slot) /\ Len(<<>>) = 0 /\ MinSize \in Nat /\ MinSize >= 1 /\ 0 \in Nat
    BY SizeAssumption, NoElements
  <2>3. x \in TableT /\ x.kind = "uninit" /\ x.slots = <<>> /\ x.size = MinSize /\ x.count = 0
    <3>1. <<>> \in Seq(Slot) /\ MinSize \in Nat /\ 0 \in Nat
      BY <2>2
    <3> HIDE DEF ht
    <3> QED
      BY <3>1, <1>1 DEF TableT
  <2> HIDE DEF x, r
  <2>4. TableOK(x) /\ x.kind # "free"
    BY <2>2, <2>3 DEF TableOK
  <2>5. /\ HeapOK(r, M, W) /\ r.iters = hp.iters /\ On(r.iters, dst) = {}
        /\ r.tab = [hp.tab EXCEPT ![dst] = x]
    <3>1. x \in TableT /\ x.count = 0 /\ TableOK(x) /\ x.kind # "free"
      BY <2>3, <2>4
    <3> QED
      BY <3>1, <2>1, NewTable
  <2>6. Others(hp, r, src, W)
    BY <2>5 DEF Others
  <2> QED
    BY <2>5, <2>6 DEF r
<1>3. CASE Used(s) # {}
  <2> DEFINE x == [ht EXCEPT !.count = 0]
             hq == WithTable(hp, dst, x)
             same == zend_array_dup_ht_iterators(hq, src, dst)
             P == Positions(hp, src)
             to == Moves(s, P)
  <2>1. /\ x \in TableT /\ x.kind = ht.kind /\ x.slots = s /\ x.size = ht.size /\ x.count = 0
    <3> HIDE DEF ht
    <3> QED
      BY <1>1 DEF TableT
  <2>2. ht.kind = "packed" => r = same
    BY <1>3 DEF zend_array_dup, WithTable
  <2>3. ht.kind = "hash" => r = [Moved(same, dst, to) EXCEPT !.tab[dst].slots = Dense(s)]
    BY <1>3 DEF zend_array_dup, WithTable
  <2>4. ht.kind \in {"packed", "hash"}
    <3>1. Len(s) # 0
      BY <1>1, <1>3, UsedFacts
    <3> HIDE DEF ht
    <3> QED
      BY <3>1, <1>1 DEF TableT, TableOK
  <2> HIDE DEF x, r, same, to
  <2>5. TableOK(x) /\ x.kind # "free"
    BY <1>1, <2>1 DEF TableOK
  <2>6. /\ HeapOK(hq, M, W) /\ hq.iters = hp.iters /\ On(hq.iters, dst) = {}
        /\ hq.tab = [hp.tab EXCEPT ![dst] = x]
    BY <2>1, <2>5, NewTable
  <2> HIDE DEF hq
  <2>7. HeapOK(same, M, W) /\ DupKeeps(hq, same, Len(hq.iters), src, dst, W)
    BY <1>1, <2>6, DupHeap DEF same
  <2>8. Others(hq, same, src, W) /\ Positions(same, dst) \subseteq Positions(hq, src)
    BY <2>6, <2>7, DupOthers, DupPositions
  <2>9. Others(hp, same, src, W) /\ Positions(hq, src) = P
    BY <2>6, <2>8 DEF Others, Positions
  <2>10. CASE ht.kind = "packed"
    BY <2>2, <2>7, <2>9, <2>10 DEF r
  <2>11. CASE ht.kind = "hash"
    <3> DEFINE d == Dense(s)
               y == [same.tab[dst] EXCEPT !.slots = d]
    <3>1. P \in SUBSET Nat
      BY <1>1, PositionsType
    <3>2. to \in [P -> Nat]
      BY <1>1, <3>1, MovesType DEF to
    <3>3. \A p \in Positions(same, dst) : to[p] \in Nat
      BY <2>8, <2>9, <3>2
    <3>4. d \in Seq(Slot) /\ Len(d) <= Len(s) /\ Len(d) \in Nat /\ Len(s) \in Nat
      BY <1>1, DenseFacts, UsedFacts
    <3> HIDE DEF d
    <3>5. r = [Moved(same, dst, to) EXCEPT !.tab[dst].slots = d]
      BY <2>3, <2>11 DEF d
    <3>6. Tabled(same, r, dst, y)
      BY <2>7, <3>3, <3>4, <3>5, MovedSlots
    <3>7. /\ same.tab[dst] \in TableT /\ same.tab[dst].kind = "hash" /\ same.tab[dst].size = ht.size
      <4>1. hq.tab[dst] = x
        BY <1>1, <2>6 DEF HeapT
      <4>2. SameTables(hq.tab, same.tab)
        BY <2>7 DEF DupKeeps
      <4>3. same.tab[dst] \in TableT
        BY <2>7 DEF HeapOK, HeapT
      <4> QED
        BY <4>1, <4>2, <4>3, <2>1, <2>11 DEF SameTables
    <3>8. /\ y.kind = "hash" /\ y.size = ht.size /\ y.slots = d
          /\ y.count = same.tab[dst].count
      BY <3>7 DEF TableT
    <3> HIDE DEF y
    <3>9. TableOK(y) /\ y.kind # "free"
      <4>1. Len(s) <= ht.size /\ ht.size >= 1
        BY <1>1 DEF TableOK
      <4> HIDE DEF s, ht
      <4> QED
        BY <4>1, <3>4, <3>8, <1>1 DEF TableOK
    <3>10. HeapOK(r, M, W) /\ \A w \in W : Mine(r.iters, w) = Mine(same.iters, w)
      <4>1. dst \in M
        OBVIOUS
      <4> HIDE DEF M
      <4> QED
        BY <4>1, <2>7, <3>6, <3>8, <3>9, TabledHeap
    <3>11. Others(hp, r, src, W)
      <4> SUFFICES ASSUME NEW w \in W, \A k \in Mine(hp.iters, w) : hp.iters[k].ht # src
                   PROVE  /\ Mine(r.iters, w) = Mine(hp.iters, w)
                          /\ \A k \in Mine(hp.iters, w) : r.iters[k].ht = hp.iters[k].ht
        BY DEF Others
      <4>1. /\ Mine(same.iters, w) = Mine(hp.iters, w)
            /\ \A k \in Mine(hp.iters, w) : same.iters[k].ht = hp.iters[k].ht
        BY <2>9 DEF Others
      <4>2. Mine(same.iters, w) \in SUBSET (1..Len(same.iters))
        <5>1. Linked(same.iters) /\ w \in 1..Len(same.iters)
          BY <2>7 DEF HeapOK, Owned, Parted
        <5> QED
          BY <5>1, MineFacts
      <4>3. \A k \in 1..Len(same.iters) : r.iters[k].ht = same.iters[k].ht
        BY <3>6 DEF Tabled, Reposed
      <4> QED
        BY <4>1, <4>2, <4>3, <3>10
    <3> QED
      BY <3>10, <3>11 DEF r
  <2> QED
    BY <2>4, <2>10, <2>11
<1> QED
  BY <1>2, <1>3

\* The iterators on t are poisoned.
PoisonedOn(is, js, t) ==
    /\ js \in Seq(Iter) /\ Len(js) = Len(is)
    /\ \A k \in 1..Len(is) : /\ js[k].next = is[k].next /\ js[k].pos = is[k].pos
                             /\ js[k].ht = IF is[k].ht = t THEN Poisoned ELSE is[k].ht

\* That is what zend_array_destroy does.
LEMMA DestroyFacts ==
    ASSUME NEW hp, NEW L, NEW W, HeapOK(hp, L, W), NEW t \in Table
    PROVE  LET r == zend_array_destroy(hp, t)
           IN  /\ r \in HeapT /\ r.tab = [hp.tab EXCEPT ![t] = NoTable]
               /\ PoisonedOn(hp.iters, r.iters, t)
<1> DEFINE is == hp.iters
           c == hp.tab[t].count > 0
           js == [k \in DOMAIN is |-> IF is[k].ht = t /\ c
                                      THEN [is[k] EXCEPT !.ht = Poisoned] ELSE is[k]]
           r == zend_array_destroy(hp, t)
<1>1. /\ hp \in HeapT /\ is \in Seq(Iter) /\ Len(is) \in Nat /\ DOMAIN is = 1..Len(is)
      /\ hp = [tab |-> hp.tab, iters |-> is] /\ hp.tab \in [Table -> TableT]
  BY DEF HeapOK, HeapT
<1>2. \A k \in 1..Len(is) : is[k] \in Iter
  BY <1>1, ElementOfSeq
<1>3. \A k \in 1..Len(is) : is[k].ht = t => c
  <2> SUFFICES ASSUME NEW k \in 1..Len(is), is[k].ht = t PROVE c
    OBVIOUS
  <2>1. k \in On(is, t) /\ IsFiniteSet(On(is, t)) /\ Cardinality(On(is, t)) \in Nat
    BY <1>1, OnFinite DEF On
  <2>2. Cardinality(On(is, t)) # 0
    BY <2>1, FS_EmptySet
  <2>3. hp.tab[t].count = Cardinality(On(is, t))
    BY DEF HeapOK
  <2> QED
    BY <2>1, <2>2, <2>3
<1>4. r = [tab |-> [hp.tab EXCEPT ![t] = NoTable], iters |-> js]
  <2>1. r = [[hp EXCEPT !.tab[t] = NoTable] EXCEPT !.iters = js]
    BY DEF zend_array_destroy
  <2>2. [hp EXCEPT !.tab[t] = NoTable] = [tab |-> [hp.tab EXCEPT ![t] = NoTable], iters |-> is]
    BY <1>1
  <2> HIDE DEF js, r
  <2> QED
    BY <2>1, <2>2
<1> HIDE DEF c
<1>5. \A k \in 1..Len(is) : /\ js[k] \in Iter /\ js[k].next = is[k].next /\ js[k].pos = is[k].pos
                            /\ js[k].ht = IF is[k].ht = t THEN Poisoned ELSE is[k].ht
  <2> SUFFICES ASSUME NEW k \in 1..Len(is)
               PROVE  /\ js[k] \in Iter /\ js[k].next = is[k].next /\ js[k].pos = is[k].pos
                      /\ js[k].ht = IF is[k].ht = t THEN Poisoned ELSE is[k].ht
    OBVIOUS
  <2>1. is[k] \in Iter /\ js[k] = IF is[k].ht = t THEN [is[k] EXCEPT !.ht = Poisoned] ELSE is[k]
    BY <1>1, <1>2, <1>3
  <2> HIDE DEF js, is
  <2> QED
    BY <2>1 DEF Iter
<1>6. js \in Seq(Iter) /\ Len(js) = Len(is)
  <2>1. js = [k \in 1..Len(is) |-> js[k]]
    BY <1>1
  <2> HIDE DEF js
  <2> QED
    BY <2>1, <1>5, <1>1
<1> HIDE DEF js, r
<1>7. NoTable \in TableT
  <2>1. <<>> \in Seq(Slot)
    BY NoElements
  <2> QED
    BY <2>1 DEF NoTable, TableT
<1>8. r.tab = [hp.tab EXCEPT ![t] = NoTable] /\ r.iters = js /\ r \in HeapT
  BY <1>1, <1>4, <1>6, <1>7 DEF HeapT
<1>9. PoisonedOn(is, js, t)
  BY <1>5, <1>6 DEF PoisonedOn
<1> QED
  BY <1>8, <1>9 DEF r

\* zend_array_destroy
LEMMA DestroyHeap ==
    ASSUME NEW hp, NEW L, NEW W, HeapOK(hp, L, W), NEW t \in Table
    PROVE  HeapOK(zend_array_destroy(hp, t), L \ {t}, W)
<1> DEFINE is == hp.iters
           r == zend_array_destroy(hp, t)
           js == r.iters
<1>1. Linked(is) /\ SelfNull(is) /\ Owned(is, W) /\ W \in SUBSET (1..Len(is)) /\ hp \in HeapT
  BY DEF HeapOK, Owned, Parted
<1>2. r \in HeapT /\ r.tab = [hp.tab EXCEPT ![t] = NoTable] /\ PoisonedOn(is, js, t)
  BY DestroyFacts
<1> HIDE DEF r
<1>3. Len(js) = Len(is) /\ \A k \in 1..Len(is) :
         js[k].next = is[k].next /\ js[k].ht = IF is[k].ht = t THEN Poisoned ELSE is[k].ht
  BY <1>2 DEF PoisonedOn
<1>4. Poisoned # Null /\ Poisoned \notin Table /\ Null \notin Table
  BY SentinelAssumption
<1>5. Linked(js) /\ SelfNull(js)
  BY <1>1, <1>3, <1>4 DEF Linked, SelfNull
<1>6. \A w \in W : Mine(js, w) = Mine(is, w) /\ Mine(is, w) \in SUBSET (1..Len(is))
  <2> SUFFICES ASSUME NEW w \in W
               PROVE  Mine(js, w) = Mine(is, w) /\ Mine(is, w) \in SUBSET (1..Len(is))
    OBVIOUS
  <2>1. w \in 1..Len(is) /\ w \in 1..Len(js)
    BY <1>1, <1>3
  <2>2. Mine(is, w) \in SUBSET (1..Len(is))
    BY <2>1, <1>1, MineFacts
  <2>3. \A k \in Mine(is, w) : js[k].next = is[k].next
    BY <2>2, <1>3
  <2> HIDE DEF is, js
  <2> QED
    BY <2>1, <2>2, <2>3, <1>1, <1>5, MineSame
<1>7. InUse(js) = InUse(is)
  BY <1>3, <1>4 DEF InUse
<1>8. On(js, t) = {} /\ \A u \in Table : u # t => On(js, u) = On(is, u)
  BY <1>3, <1>4 DEF On
<1> HIDE DEF is, js
<1>9. Owned(js, W)
  <2>1. Parted(js, W)
    BY <1>1, <1>3, <1>6, <1>7 DEF Parted, Owned
  <2>2. ASSUME NEW w \in W PROVE Single(js, w)
    <3>1. Single(is, w) /\ Mine(js, w) = Mine(is, w) /\ Mine(is, w) \in SUBSET (1..Len(is))
      BY <1>1, <1>6 DEF Owned
    <3> QED
      BY <3>1, <1>3, <1>4 DEF Single
  <2> QED
    BY <2>1, <2>2 DEF Owned
<1>10. \A u \in Table : r.tab[u] = IF u = t THEN NoTable ELSE hp.tab[u]
  BY <1>1, <1>2 DEF HeapT
<1>11. TableOK(NoTable) /\ NoTable.kind = "free" /\ NoTable.count = 0
  <2>1. Len(<<>>) = 0
    BY NoElements
  <2>2. /\ NoTable.slots = <<>> /\ NoTable.size = 0 /\ NoTable.kind = "free"
        /\ NoTable.count = 0
    BY DEF NoTable
  <2> QED
    BY <2>1, <2>2 DEF TableOK
<1>12. \A u \in Table : TableOK(r.tab[u]) /\ (u \in L \ {t} <=> r.tab[u].kind # "free")
  BY <1>10, <1>11 DEF HeapOK
<1>13. \A k \in 1..Len(js) : js[k].ht \in Table => js[k].ht \in L \ {t}
  BY <1>3, <1>4 DEF HeapOK, is
<1>14. \A u \in Table : r.tab[u].count = Cardinality(On(js, u))
  <2> SUFFICES ASSUME NEW u \in Table PROVE r.tab[u].count = Cardinality(On(js, u))
    OBVIOUS
  <2>1. CASE u = t
    BY <2>1, <1>8, <1>10, <1>11, FS_EmptySet
  <2>2. CASE u # t
    BY <2>2, <1>8, <1>10 DEF HeapOK, is
  <2> QED
    BY <2>1, <2>2
<1>15. HeapOK(r, L \ {t}, W)
  BY <1>2, <1>5, <1>9, <1>12, <1>13, <1>14 DEF HeapOK, js
<1> QED
  BY <1>15 DEF r

-----------------------------------------------------------------------------
(* An iterator that leaves its table for another.                          *)

\* What Counted does.
LEMMA CountedFacts ==
    ASSUME NEW hp \in HeapT, NEW u, NEW d, u \in Table => Count(hp.tab[u].count, d) \in Nat
    PROVE  LET r == Counted(hp, u, d)
           IN  /\ r \in HeapT /\ r.iters = hp.iters /\ SameTables(hp.tab, r.tab)
               /\ \A x \in Table : r.tab[x].count = IF x = u THEN Count(hp.tab[x].count, d)
                                                    ELSE hp.tab[x].count
<1> DEFINE r == Counted(hp, u, d)
<1>1. /\ hp = [tab |-> hp.tab, iters |-> hp.iters] /\ hp.tab \in [Table -> TableT]
      /\ hp.iters \in Seq(Iter)
  BY DEF HeapT
<1>2. CASE u \notin Table
  <2>1. r = hp
    BY <1>2 DEF Counted
  <2> HIDE DEF r
  <2> QED
    BY <2>1, <1>2 DEF SameTables, r
<1>3. CASE u \in Table
  <2> DEFINE c == Count(hp.tab[u].count, d)
             y == [hp.tab[u] EXCEPT !.count = c]
  <2>1. r = [hp EXCEPT !.tab = [hp.tab EXCEPT ![u] = y]]
    BY <1>3 DEF Counted
  <2>2. c \in Nat /\ hp.tab[u] \in TableT
    BY <1>1, <1>3
  <2> HIDE DEF c
  <2>3. /\ y \in TableT /\ y.kind = hp.tab[u].kind /\ y.slots = hp.tab[u].slots
        /\ y.size = hp.tab[u].size /\ y.next = hp.tab[u].next /\ y.count = c
    BY <2>2 DEF TableT
  <2> HIDE DEF y, r
  <2>4. r = [tab |-> [hp.tab EXCEPT ![u] = y], iters |-> hp.iters]
    BY <2>1, <1>1
  <2>5. r.tab = [hp.tab EXCEPT ![u] = y] /\ r.iters = hp.iters
    BY <2>4
  <2>6. r.tab \in [Table -> TableT] /\ \A x \in Table : r.tab[x] = IF x = u THEN y ELSE hp.tab[x]
    BY <2>3, <2>5, <1>1
  <2>7. r \in HeapT
    BY <2>4, <2>5, <2>6, <1>1 DEF HeapT
  <2>8. SameTables(hp.tab, r.tab)
    BY <2>3, <2>6 DEF SameTables
  <2>9. \A x \in Table : r.tab[x].count = IF x = u THEN c ELSE hp.tab[x].count
    BY <2>3, <2>6
  <2> QED
    BY <2>5, <2>7, <2>8, <2>9 DEF r, c
<1> QED
  BY <1>2, <1>3

\* Iterator v is counted off its table and put on t.
Seat(hp, v, t, pos) ==
    [Counted(Counted(hp, hp.iters[v].ht, -1), t, 1)
        EXCEPT !.iters[v].ht = t, !.iters[v].pos = pos]
Seated(hp, r, v, t) ==
    /\ r \in HeapT /\ SameTables(hp.tab, r.tab) /\ Len(r.iters) = Len(hp.iters)
    /\ \A k \in 1..Len(hp.iters) :
          /\ r.iters[k].next = hp.iters[k].next
          /\ r.iters[k].ht = IF k = v THEN t ELSE hp.iters[k].ht
    /\ \A u \in Table : r.tab[u].count = IF u = t THEN hp.tab[u].count + 1
                           ELSE IF u = hp.iters[v].ht THEN hp.tab[u].count - 1
                           ELSE hp.tab[u].count

\* An iterator is counted on its table.
LEMMA CountedOn ==
    ASSUME NEW hp, NEW L, NEW W, HeapOK(hp, L, W), Room(W), NEW v \in 1..Len(hp.iters),
           hp.iters[v].ht \in Table
    PROVE  hp.tab[hp.iters[v].ht].count \in Nat \ {0}
<1> DEFINE u == hp.iters[v].ht
<1>1. v \in On(hp.iters, u) /\ Len(hp.iters) \in Nat
  BY DEF On, HeapOK, Linked
<1>2. IsFiniteSet(On(hp.iters, u)) /\ Cardinality(On(hp.iters, u)) \in Nat
  BY <1>1, OnFinite
<1>3. Cardinality(On(hp.iters, u)) # 0
  BY <1>1, <1>2, FS_EmptySet
<1> QED
  BY <1>2, <1>3 DEF HeapOK

\* That is what the updates of the code amount to.
LEMMA SeatFacts ==
    ASSUME NEW hp, NEW L, NEW W, HeapOK(hp, L, W), Room(W), NEW v \in W, NEW t \in Table,
           hp.iters[v].ht # t, NEW pos \in Nat
    PROVE  Seated(hp, Seat(hp, v, t, pos), v, t)
<1> DEFINE is == hp.iters
           was == is[v].ht
           a == Counted(hp, was, -1)
           b == Counted(a, t, 1)
           x == [is[v] EXCEPT !.ht = t]
           y == [x EXCEPT !.pos = pos]
           r == Seat(hp, v, t, pos)
<1>1. hp \in HeapT /\ is \in Seq(Iter) /\ v \in 1..Len(is) /\ Len(is) \in Nat
  BY DEF HeapOK, HeapT, Owned, Parted, Linked
<1>2. is[v] \in Iter
  BY <1>1, ElementOfSeq
<1>3. y \in Iter /\ y.ht = t /\ y.next = is[v].next /\ x \in Iter
  <2> HIDE DEF is
  <2> QED
    BY <1>2 DEF Iter
<1>4. was \in Table => Count(hp.tab[was].count, -1) = hp.tab[was].count - 1
                       /\ hp.tab[was].count \in Nat \ {0}
  <2> SUFFICES ASSUME was \in Table
               PROVE  Count(hp.tab[was].count, -1) = hp.tab[was].count - 1
                      /\ hp.tab[was].count \in Nat \ {0}
    OBVIOUS
  <2>1. hp.tab[was].count \in Nat \ {0}
    BY <1>1, CountedOn
  <2> HIDE DEF was
  <2>2. \A d \in Int : Count(hp.tab[was].count, d) = hp.tab[was].count + d
    BY CountUp
  <2>3. Count(hp.tab[was].count, -1) = hp.tab[was].count + (-1)
    BY <2>2
  <2> QED
    BY <2>1, <2>3
<1>5. was \in Table => Count(hp.tab[was].count, -1) \in Nat
  BY <1>4
<1> HIDE DEF was
<1>6. /\ a \in HeapT /\ a.iters = is /\ SameTables(hp.tab, a.tab)
      /\ \A u \in Table : a.tab[u].count = IF u = was THEN Count(hp.tab[u].count, -1)
                                           ELSE hp.tab[u].count
  BY <1>1, <1>5, CountedFacts
<1> HIDE DEF a
<1>7. a.tab[t].count = hp.tab[t].count /\ Count(hp.tab[t].count, 1) = hp.tab[t].count + 1
      /\ hp.tab[t].count \in Nat
  BY <1>6, CountUp DEF was
<1>8. Count(a.tab[t].count, 1) \in Nat
  BY <1>7
<1>9. /\ b \in HeapT /\ b.iters = is /\ SameTables(a.tab, b.tab)
      /\ \A u \in Table : b.tab[u].count = IF u = t THEN Count(a.tab[u].count, 1)
                                           ELSE a.tab[u].count
  BY <1>6, <1>8, CountedFacts
<1>10. r = [[b EXCEPT !.iters[v].ht = t] EXCEPT !.iters[v].pos = pos]
  BY DEF Seat, a, was
<1> HIDE DEF b, r, x, y, is
<1>11. r = [tab |-> b.tab, iters |-> Put(is, v, y)]
  <2> DEFINE b2 == [b EXCEPT !.iters[v].ht = t]
             z == Put(is, v, x)
  <2>1. b = [tab |-> b.tab, iters |-> is]
    BY <1>9 DEF HeapT
  <2>2. b2 = [b EXCEPT !.iters = [b.iters EXCEPT ![v] = [b.iters[v] EXCEPT !.ht = t]]]
    OBVIOUS
  <2>3. b2 = [b EXCEPT !.iters = z]
    BY <2>2, <1>9 DEF Put, x
  <2>4. z \in Seq(Iter) /\ z[v] = x /\ Len(z) = Len(is)
    <3>1. /\ z \in Seq(Iter) /\ Len(z) = Len(is)
          /\ \A j \in 1..Len(is) : z[j] = IF j = v THEN x ELSE is[j]
      BY <1>1, <1>3, PutIter
    <3> QED
      BY <3>1, <1>1
  <2>5. Put(z, v, y) = Put(is, v, y)
    BY <1>1 DEF Put
  <2> HIDE DEF b2, z
  <2>6. b2 = [tab |-> b.tab, iters |-> z]
    BY <2>1, <2>3
  <2>7. r = [b2 EXCEPT !.iters = [b2.iters EXCEPT ![v] = [b2.iters[v] EXCEPT !.pos = pos]]]
    BY <1>10 DEF b2
  <2>8. r = [b2 EXCEPT !.iters = Put(z, v, y)]
    BY <2>4, <2>6, <2>7 DEF Put, y
  <2> QED
    BY <2>5, <2>6, <2>8
<1> DEFINE js == Put(is, v, y)
<1>12. /\ js \in Seq(Iter) /\ Len(js) = Len(is)
       /\ \A j \in 1..Len(is) : js[j] = IF j = v THEN y ELSE is[j]
  BY <1>1, <1>3, PutIter
<1> HIDE DEF js
<1>13. r \in HeapT /\ r.tab = b.tab /\ r.iters = js
  BY <1>9, <1>11, <1>12 DEF HeapT, js
<1>14. SameTables(hp.tab, r.tab)
  BY <1>6, <1>9, <1>13 DEF SameTables
<1>15. \A u \in Table : r.tab[u].count = IF u = t THEN hp.tab[u].count + 1
                           ELSE IF u = was THEN hp.tab[u].count - 1
                           ELSE hp.tab[u].count
  BY <1>4, <1>6, <1>7, <1>9, <1>13
<1>16. Seated(hp, r, v, t)
  BY <1>3, <1>12, <1>13, <1>14, <1>15 DEF Seated, is, was
<1> QED
  BY <1>16 DEF r

\* Its ring may then have another one on t.
LEMMA SeatPre ==
    ASSUME NEW hp, NEW L, NEW W, HeapOK(hp, L, W), Room(W), NEW v \in W, NEW t \in Table, t \in L,
           hp.iters[v].ht # t, NEW r, Seated(hp, r, v, t)
    PROVE  PreHeap(r, L, W, v) /\ \A w \in W : Mine(r.iters, w) = Mine(hp.iters, w)
<1> DEFINE is == hp.iters
           js == r.iters
<1>1. /\ Linked(is) /\ SelfNull(is) /\ Owned(is, W) /\ W \in SUBSET (1..Len(is)) /\ Len(is) \in Nat
      /\ v \in 1..Len(is)
  BY DEF HeapOK, Owned, Parted, Linked
<1>2. Len(js) = Len(is) /\ \A k \in 1..Len(is) :
         js[k].next = is[k].next /\ js[k].ht = IF k = v THEN t ELSE is[k].ht
  BY DEF Seated
<1>3. v \in Mine(is, v) /\ is[v].ht # Null /\ t # Null
  <2>1. v \in Mine(is, v)
    BY <1>1, MineFacts
  <2>2. v \in InUse(is)
    BY <2>1, <1>1 DEF Owned, Parted
  <2> QED
    BY <2>1, <2>2, SentinelAssumption DEF InUse
<1>4. Linked(js) /\ SelfNull(js)
  BY <1>1, <1>2, <1>3 DEF Linked, SelfNull
<1>5. \A w \in W : Mine(js, w) = Mine(is, w) /\ Mine(is, w) \in SUBSET (1..Len(is))
  <2> SUFFICES ASSUME NEW w \in W
               PROVE  Mine(js, w) = Mine(is, w) /\ Mine(is, w) \in SUBSET (1..Len(is))
    OBVIOUS
  <2>1. w \in 1..Len(is) /\ w \in 1..Len(js)
    BY <1>1, <1>2
  <2>2. Mine(is, w) \in SUBSET (1..Len(is))
    BY <2>1, <1>1, MineFacts
  <2>3. \A k \in Mine(is, w) : js[k].next = is[k].next
    BY <2>2, <1>2
  <2> HIDE DEF is, js
  <2> QED
    BY <2>1, <2>2, <2>3, <1>1, <1>4, MineSame
<1>6. InUse(js) = InUse(is)
  BY <1>1, <1>2, <1>3 DEF InUse
<1>7. \A u \in Table : On(js, u) = IF u = t THEN On(is, u) \union {v}
                                   ELSE IF u = is[v].ht THEN On(is, u) \ {v} ELSE On(is, u)
  <2> SUFFICES ASSUME NEW u \in Table
               PROVE  On(js, u) = IF u = t THEN On(is, u) \union {v}
                                  ELSE IF u = is[v].ht THEN On(is, u) \ {v} ELSE On(is, u)
    OBVIOUS
  <2>1. \A k \in 1..Len(is) : k # v => (js[k].ht = u <=> is[k].ht = u)
    BY <1>2
  <2>2. js[v].ht = t
    BY <1>1, <1>2
  <2> HIDE DEF is, js
  <2> QED
    BY <2>1, <2>2, <1>1, <1>2 DEF On
<1> HIDE DEF is, js
<1>8. Parted(js, W)
  BY <1>1, <1>2, <1>5, <1>6 DEF Parted, Owned
<1>9. ASSUME NEW w \in W, w # v PROVE Single(js, w)
  <2>1. Single(is, w) /\ Mine(js, w) = Mine(is, w) /\ Mine(is, w) \in SUBSET (1..Len(is))
    BY <1>1, <1>5 DEF Owned
  <2>2. v \notin Mine(is, w)
    BY <1>1, <1>3, <1>9 DEF Owned, Parted
  <2>3. \A k \in Mine(is, w) : js[k].ht = is[k].ht
    BY <2>1, <2>2, <1>2
  <2> QED
    BY <2>1, <2>3 DEF Single
<1>10. \A u \in Table : TableOK(r.tab[u]) /\ (u \in L <=> r.tab[u].kind # "free")
  BY DEF HeapOK, Seated, SameTables, TableOK
<1>11. \A k \in 1..Len(js) : js[k].ht \in Table => js[k].ht \in L
  BY <1>2 DEF HeapOK, is
<1>12. \A u \in Table : r.tab[u].count = Cardinality(On(js, u)) /\ r.tab[u].count < MaxCount
  <2> SUFFICES ASSUME NEW u \in Table
               PROVE  r.tab[u].count = Cardinality(On(js, u)) /\ r.tab[u].count < MaxCount
    OBVIOUS
  <2>1. /\ hp.tab[u].count = Cardinality(On(is, u)) /\ hp.tab[u].count \in Nat
        /\ hp.tab[u].count < MaxCount /\ hp.tab[u].count + 1 < MaxCount
    BY CountUp DEF is
  <2>2. IsFiniteSet(On(is, u)) /\ MaxCount \in Nat
    BY <1>1, OnFinite, BoundAssumption
  <2>3. CASE u = t
    <3>1. v \notin On(is, u) /\ On(js, u) = On(is, u) \union {v}
      BY <2>3, <1>7 DEF On, is
    <3>2. Cardinality(On(js, u)) = Cardinality(On(is, u)) + 1
      BY <3>1, <2>2, FS_AddElement
    <3>3. r.tab[u].count = hp.tab[u].count + 1
      BY <2>3 DEF Seated
    <3> QED
      BY <3>2, <3>3, <2>1
  <2>4. CASE u # t /\ u = is[v].ht
    <3>1. v \in On(is, u) /\ On(js, u) = On(is, u) \ {v}
      BY <2>4, <1>1, <1>7 DEF On
    <3>2. Cardinality(On(js, u)) = Cardinality(On(is, u)) - 1
      BY <3>1, <2>2, FS_RemoveElement
    <3>3. r.tab[u].count = hp.tab[u].count - 1
      BY <2>4 DEF Seated, is
    <3> QED
      BY <3>2, <3>3, <2>1, <2>2
  <2>5. CASE u # t /\ u # is[v].ht
    BY <2>5, <2>1, <1>7 DEF Seated, is
  <2> QED
    BY <2>3, <2>4, <2>5
<1>13. r \in HeapT
  BY DEF Seated
<1>14. PreHeap(r, L, W, v)
  BY <1>4, <1>8, <1>9, <1>10, <1>11, <1>12, <1>13 DEF PreHeap, js
<1> QED
  BY <1>5, <1>14 DEF is, js

\* It has not if v is alone.
LEMMA SeatHeap ==
    ASSUME NEW hp, NEW L, NEW W, HeapOK(hp, L, W), Room(W), NEW v \in W, NEW t \in Table, t \in L,
           hp.iters[v].ht # t, Mine(hp.iters, v) = {v}, NEW r, Seated(hp, r, v, t)
    PROVE  HeapOK(r, L, W)
<1>1. PreHeap(r, L, W, v) /\ \A w \in W : Mine(r.iters, w) = Mine(hp.iters, w)
  BY SeatPre
<1>2. Single(r.iters, v)
  BY <1>1 DEF Single
<1> QED
  BY <1>1, <1>2 DEF PreHeap, HeapOK, Owned

\* zend_hash_iterator_find_copy_pos: afterwards the iterator is alone, on ht if
\* there was a copy on it and where it was otherwise.
LEMMA FindCopyHeap ==
    ASSUME NEW hp, NEW L, NEW W, HeapOK(hp, L, W), Room(W), NEW v \in W, NEW t \in Table, t \in L,
           hp.iters[v].ht # t
    PROVE  LET r == zend_hash_iterator_find_copy_pos(hp, v, t)
           IN  /\ HeapOK(r, L, W) /\ Mine(r.iters, v) = {v}
               /\ (\A k \in Ring(hp.iters, v) : hp.iters[k].ht # t) =>
                     r.iters[v].ht = hp.iters[v].ht
<1> DEFINE found == { k \in Ring(hp.iters, v) : hp.iters[k].ht = t }
           l == CHOOSE k \in found : TRUE
           pos == hp.iters[l].pos
           r == zend_hash_iterator_find_copy_pos(hp, v, t)
<1>1. /\ hp \in HeapT /\ Linked(hp.iters) /\ v \in 1..Len(hp.iters) /\ hp.iters \in Seq(Iter)
  BY DEF HeapOK, HeapT, Owned, Parted
<1>2. CASE found = {}
  <2>1. r = RemoveCopies(hp, v)
    BY <1>2 DEF zend_hash_iterator_find_copy_pos
  <2>2. PreHeap(hp, L, W, v)
    BY PreHeapOK
  <2> HIDE DEF r
  <2>3. HeapOK(r, L, W) /\ Mine(r.iters, v) = {v} /\ r.iters[v].ht = hp.iters[v].ht
    BY <2>1, <2>2, RemoveCopiesHeap
  <2> QED
    BY <2>3 DEF r
<1>3. CASE found # {}
  <2> DEFINE g == Seat(hp, v, t, pos)
  <2>1. r = RemoveCopies(g, v)
    BY <1>3 DEF zend_hash_iterator_find_copy_pos, Seat
  <2>2. l \in found
    BY <1>3
  <2> HIDE DEF l
  <2>3. l \in Ring(hp.iters, v) /\ hp.iters[l].ht = t
    BY <2>2
  <2>4. l \in 1..Len(hp.iters)
    BY <2>3, <1>1, MineFacts DEF Mine
  <2>5. pos \in Nat
    <3>1. hp.iters[l] \in Iter
      BY <2>4, <1>1, ElementOfSeq
    <3> QED
      BY <3>1 DEF Iter
  <2> HIDE DEF pos, g, r, found
  <2>6. Seated(hp, g, v, t)
    BY <2>5, SeatFacts DEF g
  <2>7. PreHeap(g, L, W, v)
    BY <2>6, SeatPre
  <2>8. HeapOK(r, L, W) /\ Mine(r.iters, v) = {v} /\ r.iters[v].ht = g.iters[v].ht
    BY <2>1, <2>7, RemoveCopiesHeap
  <2> QED
    BY <2>3, <2>8 DEF r
<1> QED
  BY <1>2, <1>3

-----------------------------------------------------------------------------
(* Positions and walks.                                                    *)

\* A position that is not behind the end is one in use.
LEMMA ValidFacts ==
    ASSUME NEW s \in Seq(Slot), NEW pos \in Nat
    PROVE  /\ Valid(s, pos) \in Nat /\ Forward(s, pos) \in Nat
           /\ Valid(s, pos) <= Len(s) => Valid(s, pos) \in Used(s) /\ s[Valid(s, pos)] \in Elems
<1> DEFINE U == Used(s)
           n == Len(s) + 1
           m == Max({pos, n})
           A == { p \in U : p >= pos } \union {m}
           B == { p \in U : p > pos } \union {n}
<1>1. U \in SUBSET (1..Len(s)) /\ Len(s) \in Nat /\ \A p \in U : s[p] \in Elems
  BY UsedFacts
<1>2. m \in Nat /\ m >= n
  <2> DEFINE b == pos + n
  <2>1. b \in Nat /\ {pos, n} \in SUBSET (0..b) /\ {pos, n} # {}
    BY <1>1
  <2> HIDE DEF b
  <2>2. Max({pos, n}) \in {pos, n} /\ \A y \in {pos, n} : y <= Max({pos, n})
    BY <2>1, MaxNat
  <2> QED
    BY <2>2, <1>1
<1> HIDE DEF U, m
<1>3. A \in SUBSET Nat /\ A # {} /\ B \in SUBSET Nat /\ B # {}
  <2>1. \A p \in U : p \in Nat
    BY <1>1
  <2>2. n \in Nat /\ n \in B /\ m \in A
    BY <1>1
  <2>3. \A p \in A : p \in Nat
    BY <2>1, <1>2
  <2>4. \A p \in B : p \in Nat
    BY <2>1, <2>2
  <2> QED
    BY <2>2, <2>3, <2>4
<1>4. Valid(s, pos) = Min(A) /\ Forward(s, pos) = Min(B)
  BY DEF Valid, Forward, U, m
<1> HIDE DEF A, B
<1>5. Min(A) \in A /\ Min(B) \in B
  BY <1>3, MinIs
<1>6. Min(A) <= Len(s) => Min(A) \in U
  BY <1>1, <1>2, <1>5 DEF A
<1> QED
  BY <1>1, <1>3, <1>4, <1>5, <1>6 DEF U

\* The iterators of walks.
HeadsOf(ws) == { ws[i].iter : i \in 1..Len(ws) }
WalksOK(ws) ==
    /\ ws \in Seq(Walk) /\ Len(ws) <= MaxWalks
    /\ \A i, j \in 1..Len(ws) : ws[i].iter = ws[j].iter => i = j

\* There are as many as there may be walks.
LEMMA HeadsSize ==
    ASSUME NEW ws, WalksOK(ws)
    PROVE  IsFiniteSet(HeadsOf(ws)) /\ Cardinality(HeadsOf(ws)) \in Nat
           /\ Cardinality(HeadsOf(ws)) <= Len(ws) /\ Len(ws) \in Nat
<1> DEFINE n == Len(ws)
           f == [i \in 1..n |-> ws[i].iter]
<1>1. n \in Nat /\ IsFiniteSet(1..n) /\ Cardinality(1..n) = n
  BY IntervalSize, LenProperties DEF WalksOK
<1>2. f \in Surjection(1..n, HeadsOf(ws))
  BY DEF Surjection, HeadsOf
<1> HIDE DEF f
<1>3. IsFiniteSet(HeadsOf(ws)) /\ Cardinality(HeadsOf(ws)) <= n
  BY <1>1, <1>2, FS_Surjection
<1> QED
  BY <1>1, <1>3, FS_CardinalityType

\* The byte nIteratorsCount has room for the walks.
NoOverflow == MaxWalks + 1 < MaxCount
\* There is room for every walk at the head of a table.
LEMMA HeadsRoom ==
    ASSUME NEW ws, WalksOK(ws), NoOverflow
    PROVE  Room(HeadsOf(ws))
<1>1. Cardinality(HeadsOf(ws)) <= Len(ws) /\ Cardinality(HeadsOf(ws)) \in Nat /\ Len(ws) \in Nat
  BY HeadsSize
<1>2. MaxWalks \in Nat /\ MaxCount \in Nat /\ Len(ws) <= MaxWalks
  BY BoundAssumption DEF WalksOK
<1> QED
  BY <1>1, <1>2 DEF Room, NoOverflow

\* A walk starts or goes on.
LEMMA AppendWalk ==
    ASSUME NEW ws, WalksOK(ws), Len(ws) < MaxWalks, NEW w \in Walk, w.iter \notin HeadsOf(ws)
    PROVE  WalksOK(Append(ws, w)) /\ HeadsOf(Append(ws, w)) = HeadsOf(ws) \union {w.iter}
<1> DEFINE a == Append(ws, w)
<1>1. ws \in Seq(Walk) /\ Len(ws) \in Nat /\ MaxWalks \in Nat
  BY LenProperties, BoundAssumption DEF WalksOK
<1>2. /\ a \in Seq(Walk) /\ Len(a) = Len(ws) + 1 /\ a[Len(ws) + 1] = w
      /\ \A i \in 1..Len(ws) : a[i] = ws[i]
  BY <1>1, AppendFacts
<1> HIDE DEF a
<1>3. \A i \in 1..Len(a) : (i \in 1..Len(ws) /\ a[i] = ws[i]) \/ (i = Len(ws) + 1 /\ a[i] = w)
  BY <1>1, <1>2
<1>4. HeadsOf(a) = HeadsOf(ws) \union {w.iter}
  <2>1. Len(ws) + 1 \in 1..Len(a) /\ \A i \in 1..Len(ws) : i \in 1..Len(a)
    BY <1>1, <1>2
  <2> QED
    BY <2>1, <1>2, <1>3 DEF HeadsOf
<1>5. WalksOK(a)
  BY <1>1, <1>2, <1>3 DEF WalksOK, HeadsOf
<1> QED
  BY <1>4, <1>5 DEF a

\* The innermost walk ends.
LEMMA FrontWalk ==
    ASSUME NEW ws, WalksOK(ws), ws # <<>>
    PROVE  /\ WalksOK(Front(ws)) /\ Last(ws) \in Walk /\ Last(ws).iter \in HeadsOf(ws)
           /\ HeadsOf(Front(ws)) = HeadsOf(ws) \ {Last(ws).iter} /\ Len(Front(ws)) < MaxWalks
<1> DEFINE f == Front(ws)
           n == Len(ws)
<1>1. ws \in Seq(Walk) /\ MaxWalks \in Nat /\ n <= MaxWalks
  BY BoundAssumption DEF WalksOK
<1>2. /\ f \in Seq(Walk) /\ Len(f) = n - 1 /\ n \in Nat \ {0}
      /\ \A i \in 1..(n - 1) : f[i] = ws[i]
  BY <1>1, FrontFacts DEF Front
<1>3. Last(ws) = ws[n] /\ n \in 1..n /\ ws[n] \in Walk
  <2>1. n \in 1..n
    BY <1>2
  <2> QED
    BY <2>1, <1>1, ElementOfSeq DEF Last
<1> HIDE DEF f
<1>4. \A i : i \in 1..Len(f) <=> i \in 1..n /\ i # n
  BY <1>2
<1>5. \A i \in 1..Len(f) : f[i] = ws[i]
  BY <1>2
<1>6. \A i, j \in 1..n : ws[i].iter = ws[j].iter => i = j
  BY DEF WalksOK
<1>7. HeadsOf(f) = HeadsOf(ws) \ {ws[n].iter}
  <2> HIDE DEF n
  <2> QED
    BY <1>3, <1>4, <1>5, <1>6 DEF HeadsOf, n
<1>8. WalksOK(f)
  BY <1>1, <1>2, <1>4, <1>5, <1>6 DEF WalksOK
<1> QED
  <2>1. ws[n].iter \in HeadsOf(ws)
    BY <1>3 DEF HeadsOf
  <2>2. Len(f) < MaxWalks
    BY <1>1, <1>2
  <2> HIDE DEF n
  <2> QED
    BY <2>1, <2>2, <1>3, <1>7, <1>8 DEF f

-----------------------------------------------------------------------------
(* The invariant.                                                          *)

\* The tables the two variables have.
LiveOf(a, c) == {a, c} \ {Null}

HInv ==
    /\ HeapOK(Heap, LiveOf(arr, copy), HeadsOf(walks)) /\ WalksOK(walks)
    /\ arr \in Table /\ copy \in Table \union {Null}
    /\ born \in StartLen..MaxElems /\ shares \in 0..MaxShares

\* The heap after a step.
LEMMA EffectHeap ==
    ASSUME NEW hp \in HeapT, Effect(hp)
    PROVE  Heap' = hp
BY DEF Effect, Heap, HeapT

\* There is a table neither variable has when they share one.
LEMMA OwnFacts ==
    ASSUME arr \in Table, copy \in Table \union {Null}
    PROVE  /\ Own \in Table /\ Own # Null /\ arr # Null /\ Own \in LiveOf(Own, copy)
           /\ arr \in LiveOf(arr, copy)
           /\ arr = copy => /\ Own = Spare /\ Spare \notin LiveOf(arr, copy)
                            /\ LiveOf(arr, copy) \union {Own} = LiveOf(Own, copy)
           /\ arr # copy => Own = arr
<1>1. arr # Null /\ Null \notin Table
  BY SentinelAssumption
<1>2. CASE arr = copy
  <2>1. Table # {arr}
    BY TableAssumption
  <2>2. \E t \in Table : t \notin {arr, copy}
    BY <1>2, <2>1
  <2>3. Spare \in Table /\ Spare \notin {arr, copy}
    BY <2>2 DEF Spare
  <2>4. Own = Spare
    BY <1>2 DEF Own
  <2> QED
    BY <1>1, <1>2, <2>3, <2>4 DEF LiveOf
<1>3. CASE arr # copy
  BY <1>1, <1>3 DEF LiveOf, Own
<1> QED
  BY <1>2, <1>3

\* SEPARATE_ARRAY
LEMMA SeparatedHeap ==
    ASSUME arr \in Table, copy \in Table \union {Null}, NEW hp, NEW W,
           HeapOK(hp, LiveOf(arr, copy), W), Room(W)
    PROVE  HeapOK(Separated(hp), LiveOf(Own, copy), W)
           /\ (arr = copy => Others(hp, Separated(hp), arr, W))
<1>1. /\ Own \in Table /\ Own # Null /\ arr # Null /\ Own \in LiveOf(Own, copy)
      /\ arr \in LiveOf(arr, copy)
      /\ arr = copy => /\ Own = Spare /\ Spare \notin LiveOf(arr, copy)
                       /\ LiveOf(arr, copy) \union {Own} = LiveOf(Own, copy)
      /\ arr # copy => Own = arr
  BY OwnFacts
<1>2. CASE arr = copy
  <2>1. Separated(hp) = zend_array_dup(hp, arr, Own)
    BY <1>1, <1>2 DEF Separated
  <2>2. Own \notin LiveOf(arr, copy)
    BY <1>1, <1>2
  <2> DEFINE L == LiveOf(arr, copy)
             r == zend_array_dup(hp, arr, Own)
  <2>3. arr \in L /\ Own \notin L /\ HeapOK(hp, L, W)
    BY <1>1, <2>2
  <2> HIDE DEF L
  <2>4. HeapOK(r, L \union {Own}, W) /\ Others(hp, r, arr, W)
    BY <1>1, <2>3, DupArrayHeap
  <2> HIDE DEF r
  <2> QED
    BY <1>1, <1>2, <2>1, <2>4 DEF L, r
<1>3. CASE arr # copy
  BY <1>1, <1>3 DEF Separated
<1> QED
  BY <1>2, <1>3

\* A variable leaves a table.
LEMMA ReleasedHeap ==
    ASSUME NEW hp, NEW L, NEW W, HeapOK(hp, L, W), NEW t \in Table \union {Null}, NEW others
    PROVE  /\ t # Null /\ t \notin others => HeapOK(Released(hp, t, others), L \ {t}, W)
           /\ t = Null \/ t \in others => HeapOK(Released(hp, t, others), L, W)
<1>1. CASE t # Null /\ t \notin others
  <2>1. HeapOK(zend_array_destroy(hp, t), L \ {t}, W)
    BY <1>1, DestroyHeap
  <2> QED
    BY <1>1, <2>1 DEF Released
<1>2. CASE t = Null \/ t \in others
  BY <1>2 DEF Released
<1> QED
  BY <1>1, <1>2

\* Initially there are no iterators.
LEMMA HInit == Init => HInv
<1> SUFFICES ASSUME Init PROVE HInv
  OBVIOUS
<1> DEFINE ss == [p \in 1..StartLen |-> p]
           x(kind) == [kind |-> kind, slots |-> ss, size |-> StartSize, next |-> StartLen, count |-> 0]
<1>1. /\ copy = Null /\ iters = <<>> /\ walks = <<>> /\ born = StartLen /\ shares = 0
      /\ arr \in Table
  BY DEF Init
<1>2. PICK kind \in {"packed", "hash"} :
        tab = [u \in Table |-> IF u # arr THEN NoTable ELSE x(kind)]
  BY DEF Init
<1>3. /\ StartLen \in Nat /\ StartSize \in Nat /\ 1 <= StartLen /\ StartLen <= StartSize
      /\ MaxElems \in Nat /\ StartLen <= MaxElems /\ MaxShares \in Nat /\ MaxWalks \in Nat
  BY SizeAssumption, BoundAssumption
<1>4. ss \in Seq(Slot) /\ Len(ss) = StartLen
  <2>1. ss \in [1..StartLen -> Slot]
    BY <1>3 DEF Slot, Elems
  <2> HIDE DEF ss
  <2> QED
    BY <1>3, <2>1, SeqDef
<1> HIDE DEF ss
<1>5. x(kind) \in TableT /\ TableOK(x(kind)) /\ x(kind).kind # "free" /\ x(kind).count = 0
  BY <1>3, <1>4 DEF TableT, TableOK
<1> HIDE DEF x
<1>6. NoTable \in TableT /\ TableOK(NoTable) /\ NoTable.kind = "free" /\ NoTable.count = 0
  <2>1. <<>> \in Seq(Slot) /\ Len(<<>>) = 0
    BY NoElements
  <2>2. NoTable = [kind |-> "free", slots |-> <<>>, size |-> 0, next |-> 0, count |-> 0]
    BY DEF NoTable
  <2>3. /\ NoTable.kind = "free" /\ NoTable.slots = <<>> /\ NoTable.size = 0 /\ NoTable.count = 0
        /\ NoTable \in TableT
    BY <2>1, <2>2 DEF TableT
  <2> QED
    BY <2>1, <2>3 DEF TableOK
<1>7. tab \in [Table -> TableT] /\ \A u \in Table : tab[u] = IF u # arr THEN NoTable ELSE x(kind)
  BY <1>2, <1>5, <1>6
<1>8. iters \in Seq(Iter) /\ Len(iters) = 0 /\ walks \in Seq(Walk) /\ Len(walks) = 0
  BY <1>1, NoElements
<1>9. HeadsOf(walks) = {} /\ WalksOK(walks)
  BY <1>3, <1>8 DEF HeadsOf, WalksOK
<1>10. Linked(iters) /\ SelfNull(iters) /\ Owned(iters, {})
  BY <1>8, FS_EmptySet DEF Linked, SelfNull, Owned, Parted, InUse
<1>11. \A u \in Table : On(iters, u) = {} /\ Cardinality(On(iters, u)) = 0
  BY <1>8, FS_EmptySet DEF On
<1>12. Heap \in HeapT /\ Heap.tab = tab /\ Heap.iters = iters
  BY <1>7, <1>8 DEF Heap, HeapT
<1>13. \A u \in Table : TableOK(tab[u]) /\ (u \in LiveOf(arr, copy) <=> tab[u].kind # "free")
                        /\ tab[u].count = 0
  <2>1. LiveOf(arr, copy) = {arr}
    BY <1>1, SentinelAssumption DEF LiveOf
  <2> QED
    BY <2>1, <1>5, <1>6, <1>7
<1>14. HeapOK(Heap, LiveOf(arr, copy), {})
  BY <1>8, <1>10, <1>11, <1>12, <1>13 DEF HeapOK
<1> QED
  <2>1. born \in StartLen..MaxElems /\ shares \in 0..MaxShares
    BY <1>1, <1>3
  <2>2. copy \in Table \union {Null} /\ arr \in Table
    BY <1>1
  <2>3. HeapOK(Heap, LiveOf(arr, copy), HeadsOf(walks))
    BY <1>9, <1>14
  <2> QED
    BY <2>1, <2>2, <2>3, <1>9 DEF HInv

\* Actions leave the invariant as it is if the heap and the walks agree.
LEMMA HStep ==
    ASSUME NEW r, NEW a, NEW c, NEW ws, HeapOK(r, LiveOf(a, c), HeadsOf(ws)), WalksOK(ws), Effect(r),
           a \in Table, c \in Table \union {Null}, arr' = a, copy' = c, walks' = ws,
           born' \in StartLen..MaxElems, shares' \in 0..MaxShares
    PROVE  HInv'
<1>1. r \in HeapT
  BY DEF HeapOK
<1>2. Heap' = r
  BY <1>1, EffectHeap
<1> QED
  BY <1>2 DEF HInv

\* $array[] = e
LEMMA PushStep ==
    ASSUME HInv, NoOverflow, Push
    PROVE  HInv'
<1> DEFINE W == HeadsOf(walks)
           g == Separated(Heap)
           r == zend_hash_next_index_insert(g, Own, born + 1)
           M == LiveOf(Own, copy)
<1>1. /\ HeapOK(Heap, LiveOf(arr, copy), W) /\ WalksOK(walks) /\ arr \in Table
      /\ copy \in Table \union {Null} /\ born \in StartLen..MaxElems /\ shares \in 0..MaxShares
  BY DEF HInv
<1>2. Room(W)
  BY <1>1, HeadsRoom
<1>3. Own \in Table /\ Own \in M
  BY <1>1, OwnFacts
<1>4. HeapOK(g, M, W)
  BY <1>1, <1>2, SeparatedHeap
<1>5. StartLen \in Nat /\ MaxElems \in Nat
  BY SizeAssumption, BoundAssumption
<1>6. born + 1 \in Elems /\ born' \in StartLen..MaxElems
  BY <1>1, <1>5 DEF Push, Elems
<1>7. Effect(r) /\ arr' = Own /\ copy' = copy /\ walks' = walks /\ shares' \in 0..MaxShares
  BY <1>1 DEF Push
<1> HIDE DEF g, M, W
<1>8. HeapOK(r, M, W)
  BY <1>3, <1>4, <1>6, InsertHeap
<1> HIDE DEF r
<1> QED
  BY <1>1, <1>3, <1>6, <1>7, <1>8, HStep DEF M, W

\* unset($array[e])
LEMMA UnsetStep ==
    ASSUME HInv, NoOverflow, NEW e, Unset(e)
    PROVE  HInv'
<1> DEFINE W == HeadsOf(walks)
           g == Separated(Heap)
           r == zend_hash_index_del(g, Own, e)
           M == LiveOf(Own, copy)
<1>1. /\ HeapOK(Heap, LiveOf(arr, copy), W) /\ WalksOK(walks) /\ arr \in Table
      /\ copy \in Table \union {Null} /\ born \in StartLen..MaxElems /\ shares \in 0..MaxShares
  BY DEF HInv
<1>2. Room(W)
  BY <1>1, HeadsRoom
<1>3. Own \in Table /\ Own \in M
  BY <1>1, OwnFacts
<1>4. HeapOK(g, M, W)
  BY <1>1, <1>2, SeparatedHeap
<1>5. Effect(r) /\ arr' = Own /\ copy' = copy /\ walks' = walks /\ shares' \in 0..MaxShares
      /\ born' \in StartLen..MaxElems
  BY <1>1 DEF Unset
<1> HIDE DEF g, M, W
<1>6. HeapOK(r, M, W)
  BY <1>3, <1>4, IndexDelHeap
<1> HIDE DEF r
<1> QED
  BY <1>1, <1>3, <1>5, <1>6, HStep DEF M, W

\* $copy = $array, $array = $copy, unset($copy)
LEMMA ShareStep ==
    ASSUME HInv, Share \/ Restore \/ DropCopy
    PROVE  HInv'
<1> DEFINE W == HeadsOf(walks)
           L == LiveOf(arr, copy)
<1>1. /\ HeapOK(Heap, L, W) /\ WalksOK(walks) /\ arr \in Table
      /\ copy \in Table \union {Null} /\ born \in StartLen..MaxElems /\ shares \in 0..MaxShares
  BY DEF HInv
<1>2. arr # Null /\ MaxShares \in Nat
  BY <1>1, SentinelAssumption, BoundAssumption
<1>3. CASE Share
  <2> DEFINE r == Released(Heap, copy, {})
  <2>1. /\ copy # arr /\ Effect(r) /\ arr' = arr /\ copy' = arr /\ walks' = walks
        /\ shares' \in 0..MaxShares /\ born' \in StartLen..MaxElems
    BY <1>1, <1>2, <1>3 DEF Share
  <2>2. HeapOK(r, LiveOf(arr, arr), W)
    <3>1. CASE copy = Null
      <4>1. L = LiveOf(arr, arr)
        BY <3>1 DEF LiveOf
      <4>2. HeapOK(r, L, W)
        BY <3>1, <1>1, ReleasedHeap
      <4> QED
        BY <4>1, <4>2
    <3>2. CASE copy # Null
      <4>1. L \ {copy} = LiveOf(arr, arr)
        BY <3>2, <2>1, <1>2 DEF LiveOf
      <4>2. HeapOK(r, L \ {copy}, W)
        BY <3>2, <1>1, ReleasedHeap
      <4> QED
        BY <4>1, <4>2
    <3> QED
      BY <3>1, <3>2
  <2> HIDE DEF r
  <2> QED
    BY <1>1, <2>1, <2>2, HStep
<1>4. CASE Restore
  <2> DEFINE r == Released(Heap, arr, {copy})
  <2>1. /\ copy # arr /\ copy # Null /\ copy \in Table
        /\ Effect(r) /\ arr' = copy /\ copy' = copy /\ walks' = walks
        /\ shares' \in 0..MaxShares /\ born' \in StartLen..MaxElems
    BY <1>1, <1>2, <1>4 DEF Restore
  <2>2. HeapOK(r, LiveOf(copy, copy), W)
    <3>1. L \ {arr} = LiveOf(copy, copy)
      BY <2>1, <1>2 DEF LiveOf
    <3>2. HeapOK(r, L \ {arr}, W)
      BY <2>1, <1>1, <1>2, ReleasedHeap
    <3> QED
      BY <3>1, <3>2
  <2> HIDE DEF r
  <2> QED
    BY <1>1, <2>1, <2>2, HStep
<1>5. CASE DropCopy
  <2> DEFINE r == Released(Heap, copy, {arr})
  <2>1. /\ copy # Null /\ Effect(r) /\ arr' = arr /\ copy' = Null /\ walks' = walks
        /\ shares' \in 0..MaxShares /\ born' \in StartLen..MaxElems
    BY <1>1, <1>2, <1>5 DEF DropCopy
  <2>2. HeapOK(r, LiveOf(arr, Null), W)
    <3>1. CASE copy = arr
      <4>1. L = LiveOf(arr, Null)
        BY <3>1 DEF LiveOf
      <4>2. HeapOK(r, L, W)
        BY <3>1, <1>1, ReleasedHeap
      <4> QED
        BY <4>1, <4>2
    <3>2. CASE copy # arr
      <4>1. L \ {copy} = LiveOf(arr, Null)
        BY <3>2, <2>1, <1>2 DEF LiveOf
      <4>2. HeapOK(r, L \ {copy}, W)
        BY <3>2, <2>1, <1>1, ReleasedHeap
      <4> QED
        BY <4>1, <4>2
    <3> QED
      BY <3>1, <3>2
  <2> HIDE DEF r
  <2>3. Null \in Table \union {Null}
    OBVIOUS
  <2> QED
    BY <1>1, <2>1, <2>2, <2>3, HStep
<1> QED
  BY <1>3, <1>4, <1>5

\* zend_hash_iterator_pos_ex; the array is the one Reload sets.
LEMMA PosExHeap ==
    ASSUME HInv, NoOverflow, NEW v \in HeadsOf(walks)
    PROVE  HeapOK(zend_hash_iterator_pos_ex(v),
                  LiveOf(IF Found(v) THEN arr ELSE Own, copy), HeadsOf(walks))
<1> DEFINE W == HeadsOf(walks)
           L == LiveOf(arr, copy)
           M == LiveOf(Own, copy)
           r == zend_hash_iterator_pos_ex(v)
           lost == zend_hash_iterator_find_copy_pos(Heap, v, arr)
           was == lost.iters[v].ht
           left == IF was \in Table /\ tab[arr].count # MaxCount
                   THEN [lost EXCEPT !.tab[was].count = @ - 1] ELSE lost
           sep == Separated(left)
           pos == Valid(sep.tab[Own].slots, 1)
<1>1. /\ HeapOK(Heap, L, W) /\ WalksOK(walks) /\ arr \in Table /\ copy \in Table \union {Null}
  BY DEF HInv
<1>2. Room(W) /\ Heap.tab = tab /\ Heap.iters = iters
  BY <1>1, HeadsRoom DEF Heap
<1>3. /\ Own \in Table /\ arr \in L /\ Own \in M
      /\ arr # copy => Own = arr
  BY <1>1, OwnFacts
<1>4. CASE iters[v].ht = arr
  <2>1. r = Heap /\ Found(v)
    BY <1>4 DEF zend_hash_iterator_pos_ex, Found
  <2> HIDE DEF r
  <2> QED
    BY <1>1, <2>1 DEF r
<1>5. CASE iters[v].ht # arr
  <2>1. /\ HeapOK(lost, L, W) /\ Mine(lost.iters, v) = {v}
        /\ (\A k \in Ring(iters, v) : iters[k].ht # arr) => lost.iters[v].ht = iters[v].ht
    <3> HIDE DEF W, L
    <3>1. /\ HeapOK(lost, L, W) /\ Mine(lost.iters, v) = {v}
          /\ (\A k \in Ring(Heap.iters, v) : Heap.iters[k].ht # arr) =>
                lost.iters[v].ht = Heap.iters[v].ht
      <4>1. Room(W) /\ v \in W /\ Heap.iters[v].ht # arr
        BY <1>2, <1>5 DEF W
      <4> HIDE DEF lost
      <4> QED
        BY <4>1, <1>1, <1>3, FindCopyHeap DEF lost
    <3> QED
      BY <3>1, <1>2
  <2>2. CASE Found(v)
    <3>1. r = lost
      BY <1>5, <2>2 DEF zend_hash_iterator_pos_ex
    <3> HIDE DEF r, lost
    <3> QED
      BY <2>1, <2>2, <3>1 DEF r
  <2>3. CASE ~Found(v)
    <3>1. r = [Counted(sep, Own, 1) EXCEPT !.iters[v].ht = Own, !.iters[v].pos = pos]
      BY <1>5, <2>3 DEF zend_hash_iterator_pos_ex
    <3>2. was = iters[v].ht /\ was # arr
      BY <1>5, <2>1, <2>3 DEF Found
    <3> HIDE DEF lost, was
    <3>3. was \in Table => was \in L
      <4>1. v \in 1..Len(Heap.iters)
        BY <1>1 DEF HeapOK, Owned, Parted
      <4> QED
        BY <4>1, <1>1, <1>2, <3>2 DEF HeapOK
    <3>4. lost \in HeapT /\ v \in 1..Len(lost.iters)
      BY <2>1 DEF HeapOK, Owned, Parted
    <3>5. HeapOK(r, M, W)
      <4>1. CASE arr = copy
        <5>1. was \notin Table
          BY <4>1, <3>2, <3>3 DEF LiveOf
        <5>2. left = lost
          BY <5>1
        <5> HIDE DEF left
        <5>3. HeapOK(sep, M, W) /\ Others(lost, sep, arr, W)
          BY <4>1, <5>2, <1>1, <1>2, <2>1, SeparatedHeap
        <5> HIDE DEF sep
        <5>4. Mine(sep.iters, v) = {v} /\ sep.iters[v].ht = was
          BY <2>1, <3>2, <5>3 DEF Others, was
        <5>5. sep \in HeapT /\ sep.tab[Own].slots \in Seq(Slot)
          BY <5>3, <1>3 DEF HeapOK, HeapT, TableT
        <5>6. pos \in Nat
          BY <5>5, ValidFacts
        <5> HIDE DEF pos, r
        <5>7. Counted(sep, sep.iters[v].ht, -1) = sep
          BY <5>1, <5>4 DEF Counted
        <5>8. r = Seat(sep, v, Own, pos)
          BY <3>1, <5>7 DEF Seat
        <5>9. sep.iters[v].ht # Own
          BY <1>3, <5>1, <5>4
        <5> HIDE DEF M, W
        <5>10. Seated(sep, r, v, Own)
          BY <1>2, <1>3, <5>3, <5>6, <5>8, <5>9, SeatFacts DEF W
        <5> QED
          BY <1>2, <1>3, <5>3, <5>4, <5>9, <5>10, SeatHeap DEF W
      <4>2. CASE arr # copy
        <5>1. Own = arr /\ M = L
          BY <1>3, <4>2
        <5>2. sep = left
          BY <4>2 DEF Separated
        <5>3. left = Counted(lost, was, -1)
          <6>1. tab[arr].count # MaxCount
            <7>1. tab[arr].count < MaxCount /\ tab[arr].count \in Nat
              BY <1>1, <1>2, CountUp
            <7> QED
              BY <7>1, BoundAssumption
          <6>2. CASE was \in Table
            <7>1. \A d \in Int : Count(lost.tab[was].count, d) = lost.tab[was].count + d
              BY <6>2, <2>1, <1>2, CountUp
            <7>2. lost.tab[was].count \in Nat
              BY <6>2, <3>4 DEF HeapT, TableT
            <7>3. Count(lost.tab[was].count, -1) = lost.tab[was].count - 1
              BY <7>1, <7>2
            <7> QED
              BY <6>1, <6>2, <7>3 DEF Counted
          <6>3. CASE was \notin Table
            BY <6>3 DEF Counted
          <6> QED
            BY <6>2, <6>3
        <5>4. left \in HeapT
          <6>1. was \in Table => Count(lost.tab[was].count, -1) \in Nat
            <7> SUFFICES ASSUME was \in Table PROVE Count(lost.tab[was].count, -1) \in Nat
              OBVIOUS
            <7>1. \A d \in Int : Count(lost.tab[was].count, d) = lost.tab[was].count + d
              BY <2>1, <1>2, CountUp
            <7>2. lost.tab[was].count \in Nat \ {0}
              BY <2>1, <3>4, <1>2, CountedOn DEF was
            <7>3. Count(lost.tab[was].count, -1) = lost.tab[was].count + (-1)
              BY <7>1
            <7> QED
              BY <7>2, <7>3
          <6> HIDE DEF left
          <6> QED
            BY <5>3, <6>1, <3>4, CountedFacts
        <5> HIDE DEF left, sep
        <5>5. sep.tab[Own].slots \in Seq(Slot)
          BY <5>2, <5>4, <1>3 DEF HeapT, TableT
        <5>6. pos \in Nat
          BY <5>5, ValidFacts
        <5> HIDE DEF pos, r
        <5>7. r = Seat(lost, v, Own, pos)
          BY <3>1, <5>2, <5>3 DEF Seat, was
        <5> HIDE DEF M, L, W
        <5>8. Seated(lost, r, v, Own)
          BY <1>2, <1>3, <2>1, <3>2, <5>1, <5>6, <5>7, SeatFacts DEF W, was
        <5> QED
          BY <1>2, <1>3, <2>1, <3>2, <5>1, <5>8, SeatHeap DEF W, was
      <4> QED
        BY <4>1, <4>2
    <3> HIDE DEF r
    <3> QED
      BY <2>3, <3>5 DEF r
  <2> QED
    BY <2>2, <2>3
<1> QED
  BY <1>4, <1>5

\* A walk goes on or ends, on a heap in which its iterator is one of the heads.
LEMMA WalkOnStep ==
    ASSUME NEW hp, NEW L, NEW t \in Table, NEW others, NEW w \in Walk, WalksOK(others),
           Len(others) < MaxWalks, w.iter \notin HeadsOf(others),
           HeapOK(hp, L, HeadsOf(others) \union {w.iter}), NoOverflow, WalkOn(hp, t, others, w)
    PROVE  HeapOK(Heap', L, HeadsOf(walks')) /\ WalksOK(walks')
<1> DEFINE s == hp.tab[t].slots
           v == w.iter
           p == Valid(s, hp.iters[v].pos)
           W == HeadsOf(others) \union {v}
<1>1. hp \in HeapT /\ hp.iters \in Seq(Iter) /\ v \in 1..Len(hp.iters) /\ s \in Seq(Slot)
  BY DEF HeapOK, HeapT, TableT, Owned, Parted
<1>2. hp.iters[v] \in Iter /\ hp.iters[v].pos \in Nat
  <2>1. hp.iters[v] \in Iter
    BY <1>1, ElementOfSeq
  <2> QED
    BY <2>1 DEF Iter
<1>3. p \in Nat /\ (p <= Len(s) => p \in Used(s) /\ s[p] \in Elems) /\ Len(s) \in Nat
  BY <1>1, <1>2, ValidFacts, LenProperties
<1>4. WalksOK(Append(others, w)) /\ HeadsOf(Append(others, w)) = W
  BY AppendWalk
<1>5. Room(W)
  BY <1>4, HeadsRoom
<1> HIDE DEF p
<1>6. CASE p > Len(s)
  <2> DEFINE r == zend_hash_iterator_del(hp, v)
  <2>1. Effect(r) /\ walks' = others
    BY <1>6 DEF WalkOn, p
  <2>2. HeapOK(r, L, W \ {v})
    <3> HIDE DEF v, W
    <3>1. v \in W
      BY DEF W
    <3>2. HeapOK(hp, L, W)
      BY DEF W, v
    <3> QED
      BY <3>1, <3>2, <1>5, DelHeap
  <2>3. W \ {v} = HeadsOf(others)
    OBVIOUS
  <2> HIDE DEF r
  <2>4. Heap' = r
    <3>1. r \in HeapT
      BY <2>2 DEF HeapOK
    <3> QED
      BY <3>1, <2>1, EffectHeap
  <2> QED
    BY <2>1, <2>2, <2>3, <2>4
<1>7. CASE ~(p > Len(s))
  <2> DEFINE q == Forward(s, p)
             x == [hp.iters[v] EXCEPT !.pos = q]
             r == [hp EXCEPT !.iters[v].pos = q]
             w2 == [w EXCEPT !.seen = @ \union {s[p]}]
  <2>1. Effect(r) /\ walks' = Append(others, w2)
    BY <1>7 DEF WalkOn, p
  <2>2. w2 \in Walk /\ w2.iter = v
    <3>1. s[p] \in Elems
      BY <1>3, <1>7
    <3> HIDE DEF s
    <3> QED
      BY <3>1 DEF Walk
  <2> HIDE DEF w2
  <2>3. WalksOK(walks') /\ HeadsOf(walks') = W
    <3>1. w2.iter \notin HeadsOf(others)
      BY <2>2
    <3>2. WalksOK(Append(others, w2)) /\ HeadsOf(Append(others, w2)) = HeadsOf(others) \union {w2.iter}
      BY <2>2, <3>1, AppendWalk
    <3> QED
      BY <3>2, <2>1, <2>2
  <2>4. q \in Nat
    BY <1>1, <1>3, ValidFacts
  <2> HIDE DEF q
  <2>5. x \in Iter /\ x.ht = hp.iters[v].ht /\ x.next = hp.iters[v].next
    BY <1>2, <2>4 DEF Iter
  <2> HIDE DEF x
  <2> DEFINE js == Put(hp.iters, v, x)
  <2>6. /\ js \in Seq(Iter) /\ Len(js) = Len(hp.iters)
        /\ \A j \in 1..Len(hp.iters) : js[j] = IF j = v THEN x ELSE hp.iters[j]
    <3> DEFINE is == hp.iters
    <3>1. v \in 1..Len(is) /\ is \in Seq(Iter) /\ x \in Iter
      BY <1>1, <2>5
    <3> HIDE DEF v, is
    <3>2. /\ Put(is, v, x) \in Seq(Iter) /\ Len(Put(is, v, x)) = Len(is)
          /\ \A j \in 1..Len(is) : Put(is, v, x)[j] = IF j = v THEN x ELSE is[j]
      BY <3>1, PutIter
    <3> QED
      BY <3>2 DEF is
  <2>7. r = [tab |-> hp.tab, iters |-> js]
    <3>1. r = [hp EXCEPT !.iters = js]
      BY DEF x, Put
    <3>2. hp = [tab |-> hp.tab, iters |-> hp.iters]
      BY <1>1 DEF HeapT
    <3> HIDE DEF js, r
    <3> QED
      BY <3>1, <3>2
  <2> HIDE DEF js, r
  <2>8. r \in HeapT /\ r.tab = hp.tab /\ r.iters = js
    BY <1>1, <2>6, <2>7 DEF HeapT
  <2>9. Reposed(hp.iters, r.iters)
    BY <2>5, <2>6, <2>8 DEF Reposed
  <2>10. \A u \in Table : /\ TableOK(r.tab[u]) /\ r.tab[u].count = hp.tab[u].count
                          /\ (r.tab[u].kind = "free" <=> hp.tab[u].kind = "free")
    BY <2>8 DEF HeapOK
  <2>11. HeapOK(r, L, W)
    BY <2>8, <2>9, <2>10, ReposedHeap
  <2>12. Heap' = r
    BY <2>1, <2>8, EffectHeap
  <2> QED
    BY <2>3, <2>11, <2>12
<1> QED
  BY <1>6, <1>7

\* php_array_walk starts.
LEMMA StartWalkStep ==
    ASSUME HInv, NoOverflow, StartWalk
    PROVE  HInv'
<1> DEFINE W == HeadsOf(walks)
           sep == Separated(Heap)
           pos == Valid(sep.tab[Own].slots, 1)
           add == zend_hash_iterator_add(sep, Own, pos)
           M == LiveOf(Own, copy)
           w == [iter |-> add.idx, seen |-> {}]
<1>1. /\ HeapOK(Heap, LiveOf(arr, copy), W) /\ WalksOK(walks) /\ arr \in Table
      /\ copy \in Table \union {Null} /\ born \in StartLen..MaxElems /\ shares \in 0..MaxShares
  BY DEF HInv
<1>2. Room(W)
  BY <1>1, HeadsRoom
<1>3. Own \in Table /\ Own \in M
  BY <1>1, OwnFacts
<1>4. HeapOK(sep, M, W)
  BY <1>1, <1>2, SeparatedHeap
<1>5. arr' = Own /\ copy' = copy /\ born' = born /\ shares' = shares /\ Len(walks) < MaxWalks
  BY DEF StartWalk
<1>6. HeapOK(Heap', M, HeadsOf(walks')) /\ WalksOK(walks')
  <2>1. CASE Used(tab[arr].slots) = {}
    <3>1. Effect(sep) /\ walks' = walks
      BY <2>1 DEF StartWalk
    <3> HIDE DEF sep
    <3>2. sep \in HeapT
      BY <1>4 DEF HeapOK
    <3>3. Heap' = sep
      BY <3>1, <3>2, EffectHeap
    <3> QED
      BY <3>1, <3>3, <1>1, <1>4
  <2>2. CASE Used(tab[arr].slots) # {}
    <3>1. WalkOn(add.heap, Own, walks, w)
      BY <2>2 DEF StartWalk
    <3> HIDE DEF sep, M, W
    <3>2. sep.tab[Own].slots \in Seq(Slot)
      BY <1>3, <1>4 DEF HeapOK, HeapT, TableT
    <3>3. pos \in Nat
      BY <3>2, ValidFacts
    <3> HIDE DEF pos
    <3>4. /\ HeapOK(add.heap, M, W \union {add.idx}) /\ add.idx \notin W
          /\ Added(sep.iters, add.heap.iters, add.idx, [ht |-> Own, pos |-> pos, next |-> add.idx])
      BY <1>2, <1>3, <1>4, <3>3, AddHeap
    <3> HIDE DEF add
    <3>5. add.idx \in Nat
      <4>1. Parted(add.heap.iters, W \union {add.idx}) /\ Linked(add.heap.iters)
        BY <3>4 DEF HeapOK, Owned
      <4> QED
        BY <4>1 DEF Parted, Linked
    <3>6. w \in Walk /\ w.iter = add.idx
      BY <3>5 DEF Walk
    <3> HIDE DEF w
    <3>7. w.iter \notin HeadsOf(walks) /\ HeapOK(add.heap, M, HeadsOf(walks) \union {w.iter})
      BY <3>4, <3>6 DEF W
    <3> QED
      BY <1>1, <1>3, <1>5, <3>1, <3>6, <3>7, WalkOnStep
  <2> QED
    BY <2>1, <2>2
<1> HIDE DEF M
<1> QED
  BY <1>1, <1>3, <1>5, <1>6 DEF HInv, M

\* The callback of the innermost walk returns.
LEMMA ReturnStep ==
    ASSUME HInv, NoOverflow, CallbackReturns
    PROVE  HInv'
<1> DEFINE W == HeadsOf(walks)
           w == Last(walks)
           v == w.iter
           fs == Front(walks)
           a == IF Found(v) THEN arr ELSE Own
           M == LiveOf(a, copy)
           r == zend_hash_iterator_pos_ex(v)
           w2 == IF Found(v) THEN w ELSE [w EXCEPT !.seen = {}]
<1>1. /\ WalksOK(walks) /\ arr \in Table /\ copy \in Table \union {Null}
      /\ born \in StartLen..MaxElems /\ shares \in 0..MaxShares
  BY DEF HInv
<1>2. walks # <<>>
  BY DEF CallbackReturns
<1>3. /\ WalksOK(fs) /\ w \in Walk /\ v \in W /\ HeadsOf(fs) = W \ {v} /\ Len(fs) < MaxWalks
  BY <1>1, <1>2, FrontWalk
<1>4. arr' = a /\ copy' = copy /\ born' = born /\ shares' = shares /\ WalkOn(r, arr', fs, w2)
  BY DEF CallbackReturns, Reload
<1>5. a \in Table
  BY <1>1, OwnFacts
<1>6. HeapOK(r, M, W)
  BY <1>3, PosExHeap
<1>7. w2 \in Walk /\ w2.iter = v
  <2> HIDE DEF w
  <2> QED
    BY <1>3 DEF Walk
<1> HIDE DEF r, w2, M, a, fs, w
<1>8. HeapOK(r, M, HeadsOf(fs) \union {w2.iter}) /\ w2.iter \notin HeadsOf(fs)
  <2>1. HeadsOf(fs) \union {w2.iter} = W
    BY <1>3, <1>7
  <2> QED
    BY <2>1, <1>3, <1>6, <1>7
<1>9. HeapOK(Heap', M, HeadsOf(walks')) /\ WalksOK(walks')
  BY <1>3, <1>4, <1>5, <1>7, <1>8, WalkOnStep
<1> QED
  BY <1>1, <1>4, <1>5, <1>9 DEF HInv, M

\* The callback throws.
LEMMA ThrowStep ==
    ASSUME HInv, NoOverflow, CallbackThrows
    PROVE  HInv'
<1> DEFINE W == HeadsOf(walks)
           w == Last(walks)
           v == w.iter
           fs == Front(walks)
           a == IF Found(v) THEN arr ELSE Own
           M == LiveOf(a, copy)
           g == zend_hash_iterator_pos_ex(v)
           r == zend_hash_iterator_del(g, v)
<1>1. /\ WalksOK(walks) /\ arr \in Table /\ copy \in Table \union {Null}
      /\ born \in StartLen..MaxElems /\ shares \in 0..MaxShares
  BY DEF HInv
<1>2. walks # <<>>
  BY DEF CallbackThrows
<1>3. /\ WalksOK(fs) /\ v \in W /\ HeadsOf(fs) = W \ {v}
  BY <1>1, <1>2, FrontWalk
<1>4. /\ arr' = a /\ copy' = copy /\ born' = born /\ shares' = shares /\ Effect(r)
      /\ walks' = fs
  BY DEF CallbackThrows, Reload
<1>5. a \in Table
  BY <1>1, OwnFacts
<1>6. HeapOK(g, M, W) /\ Room(W)
  BY <1>1, <1>3, PosExHeap, HeadsRoom
<1> HIDE DEF g, M, W, a, fs, v
<1>7. HeapOK(r, M, W \ {v})
  BY <1>3, <1>6, DelHeap
<1> HIDE DEF r
<1>8. HeapOK(r, LiveOf(a, copy), HeadsOf(fs))
  BY <1>3, <1>7 DEF M
<1> QED
  BY <1>1, <1>3, <1>4, <1>5, <1>8, HStep

\* Every step.
LEMMA HNext ==
    ASSUME NoOverflow
    PROVE  HInv /\ [Next]_vars => HInv'
<1> SUFFICES ASSUME HInv, [Next]_vars PROVE HInv'
  OBVIOUS
<1>1. CASE Push
  BY <1>1, PushStep
<1>2. CASE \E e \in Elems : Unset(e)
  BY <1>2, UnsetStep
<1>3. CASE Share \/ Restore \/ DropCopy
  BY <1>3, ShareStep
<1>4. CASE StartWalk
  BY <1>4, StartWalkStep
<1>5. CASE CallbackReturns
  BY <1>5, ReturnStep
<1>6. CASE CallbackThrows
  BY <1>6, ThrowStep
<1>7. CASE UNCHANGED vars
  BY <1>7 DEF vars, HInv, Heap
<1> QED
  BY <1>1, <1>2, <1>3, <1>4, <1>5, <1>6, <1>7 DEF Next

\* The invariant holds in every run whose nested walks the byte can count.
LEMMA HInvariant ==
    ASSUME NoOverflow
    PROVE  Spec => []HInv
<1>1. HInv /\ [Next]_vars => HInv'
  BY HNext
<1> QED
  BY <1>1, HInit, PTL DEF Spec

\* Tables and iterators agree whatever walks, callbacks and copies do: the types
\* of both, no iterator on a destroyed table (zend_array_destroy poisons them),
\* and nIteratorsCount is the number of iterators on each table.
THEOREM TablesStaySound ==
    ASSUME NoOverflow
    PROVE  Spec => []TablesSound
<1>1. HInv => TablesSound
  <2> SUFFICES ASSUME HInv PROVE TablesSound
    OBVIOUS
  <2> DEFINE L == LiveOf(arr, copy)
             W == HeadsOf(walks)
  <2>1. /\ HeapOK(Heap, L, W) /\ WalksOK(walks) /\ arr \in Table /\ copy \in Table \union {Null}
        /\ born \in StartLen..MaxElems /\ shares \in 0..MaxShares
        /\ Heap.tab = tab /\ Heap.iters = iters
    BY DEF HInv, Heap
  <2>2. Room(W)
    BY <2>1, HeadsRoom
  <2> HIDE DEF L, W
  <2>3. /\ tab \in [Table -> TableT] /\ iters \in Seq(Iter) /\ DOMAIN iters = 1..Len(iters)
        /\ Linked(iters)
    BY <2>1 DEF HeapOK, HeapT
  <2>4. \A k \in 1..Len(iters) : iters[k] \in Iter /\ iters[k].next \in 1..Len(iters)
    BY <2>3, ElementOfSeq DEF Linked
  <2>5. \A t \in Table : /\ tab[t].count = Cardinality(On(iters, t)) /\ tab[t].count \in Nat
                         /\ tab[t].count < MaxCount
    BY <2>1, <2>2, CountUp
  <2>6. StartLen \in Nat /\ MaxElems \in Nat /\ MaxCount \in Nat
    BY SizeAssumption, BoundAssumption
  <2>7. TypeOK
    <3>1. \A t \in Table : tab[t] \in TableT /\ TableOK(tab[t])
      BY <2>1, <2>3 DEF HeapOK
    <3>2. \A t \in Table :
            /\ tab[t].kind \in {"free", "uninit", "packed", "hash"}
            /\ tab[t].slots \in Seq(Elems \union {Undef})
            /\ Len(tab[t].slots) <= tab[t].size
      BY <3>1 DEF TableT, TableOK, Slot
    <3>3. \A t \in Table : tab[t].count \in 0..MaxCount
      BY <2>5, <2>6
    <3>4. \A k \in DOMAIN iters : /\ iters[k].ht \in Table \union {Null, Poisoned}
                                  /\ iters[k].next \in DOMAIN iters
      BY <2>3, <2>4 DEF Iter
    <3>5. walks \in Seq(Walk) /\ born \in 0..MaxElems
      BY <2>1, <2>6 DEF WalksOK
    <3> QED
      BY <3>2, <3>3, <3>4, <3>5, <2>1 DEF TypeOK
  <2>8. \A k \in DOMAIN iters : iters[k].ht \in Table => tab[iters[k].ht].kind # "free"
    BY <2>1, <2>3 DEF HeapOK
  <2>9. \A t \in Table : On(iters, t) = { k \in DOMAIN iters : iters[k].ht = t }
    BY <2>3 DEF On
  <2> QED
    BY <2>5, <2>7, <2>8, <2>9 DEF TablesSound
<1> QED
  BY <1>1, HInvariant, PTL

\* No iterator leaks: the iterators in use are those of the rings of the walks
\* in progress, each of one walk only, so none is in use when walks have ended.
THEOREM IteratorsStayOwned ==
    ASSUME NoOverflow
    PROVE  Spec => []IteratorsOwned
<1>1. HInv => IteratorsOwned
  <2> SUFFICES ASSUME HInv PROVE IteratorsOwned
    OBVIOUS
  <2> DEFINE W == HeadsOf(walks)
             M(i) == Ring(iters, walks[i].iter) \union {walks[i].iter}
  <2>1. Parted(iters, W) /\ WalksOK(walks) /\ iters \in Seq(Iter)
    BY DEF HInv, HeapOK, Heap, Owned, HeapT
  <2>2. DOMAIN walks = 1..Len(walks) /\ DOMAIN iters = 1..Len(iters)
    BY <2>1 DEF WalksOK
  <2>3. \A i \in 1..Len(walks) : walks[i].iter \in W /\ M(i) = Mine(iters, walks[i].iter)
    BY DEF HeadsOf, Mine
  <2>4. \A i, j \in 1..Len(walks) : i # j => walks[i].iter # walks[j].iter
    BY <2>1 DEF WalksOK
  <2> HIDE DEF M
  <2>5. \A i, j \in 1..Len(walks) : i # j => M(i) \intersect M(j) = {}
    BY <2>1, <2>3, <2>4 DEF Parted
  <2>6. \A k : k \in InUse(iters) <=> \E i \in 1..Len(walks) : k \in M(i)
    <3>1. \A v : v \in W <=> \E i \in 1..Len(walks) : v = walks[i].iter
      BY DEF HeadsOf
    <3>2. \A k : k \in InUse(iters) <=> \E v \in W : k \in Mine(iters, v)
      BY <2>1 DEF Parted
    <3> HIDE DEF W
    <3> QED
      BY <3>1, <3>2, <2>3
  <2>7. InUse(iters) = UNION { M(i) : i \in 1..Len(walks) }
    BY <2>6
  <2>8. InUse(iters) = { k \in DOMAIN iters : iters[k].ht # Null }
    BY <2>2 DEF InUse
  <2> QED
    BY <2>2, <2>5, <2>7, <2>8 DEF IteratorsOwned, M
<1> QED
  BY <1>1, HInvariant, PTL
===============================================================================
