------------------------------- MODULE ZendHash -------------------------------
(***************************************************************************)
(* Arrays that change while they are walked: the order of the elements of  *)
(* a HashTable, its compaction and copies (Zend/zend_hash.c), the external *)
(* iterators EG(ht_iterators) whose positions follow them, and their user  *)
(* array_walk (ext/standard/array.c), whose callback is program code.      *)
(*                                                                         *)
(* The program has one array variable, which it walks and changes, and a   *)
(* second one that may share its table.  A shared table is duplicated      *)
(* before it is changed; the iterators are duplicated with it, and a ring  *)
(* of copies leads from the iterator of a walk to the one on the table     *)
(* that the variable has now.  Positions count from 1: position p of the   *)
(* code is slots[p + 1], and nNumUsed is Len(slots).                       *)
(***************************************************************************)
EXTENDS Integers, Sequences, FiniteSets, SequencesExt, FiniteSetsExt

CONSTANTS
    Table,       \* addresses of tables; freed ones are allocated again
    Null,        \* no table
    Poisoned,    \* HT_POISONED_PTR
    Undef,       \* IS_UNDEF, an empty position
    MinSize,     \* HT_MIN_SIZE (8 in the code)
    MaxCount,    \* at this nIteratorsCount overflows and stays (255 in the code)
    StartSize,   \* nTableSize of the array the program starts with
    StartLen,    \* and its number of elements
    MaxElems,    \* bound: elements ever inserted
    MaxWalks,    \* bound: nested walks
    MaxShares    \* bound: times the two variables come to share a table

ASSUME SentinelAssumption ==
    {Null, Poisoned} \intersect Table = {} /\ Null # Poisoned /\ Undef \notin Nat
ASSUME TableAssumption == \A t \in Table : Table # {t}
ASSUME SizeAssumption ==
    MinSize \in Nat \ {0, 1} /\ StartSize \in Nat /\ StartLen \in 1..StartSize
ASSUME BoundAssumption ==
    {MaxCount, MaxElems, MaxWalks, MaxShares} \subseteq Nat /\ StartLen <= MaxElems

VARIABLES
    tab,      \* the HashTable at each address
    arr,      \* the table of the array variable
    copy,     \* the table of the other variable, or Null
    iters,    \* EG(ht_iterators), the first ht_iterators_used of them
    walks,    \* walks in progress, each in its callback, innermost last
    born,     \* elements inserted so far, which are numbered
    shares,   \* times the two variables came to share a table
    skewed    \* history: a compaction skewed iterators, see Skews

vars == <<tab, arr, copy, iters, walks, born, shares, skewed>>

Elems == 1..MaxElems
NoTable == [kind |-> "free", slots |-> <<>>, size |-> 0, next |-> 0, count |-> 0]
Walk == [iter: Nat, seen: SUBSET Elems]

\* The state the functions of zend_hash.c work on.
Heap == [tab |-> tab, iters |-> iters]

-----------------------------------------------------------------------------
(* Iterators.                                                              *)

Positions(hp, t) == { hp.iters[k].pos : k \in { j \in DOMAIN hp.iters :
                                                   hp.iters[j].ht = t } }

\* nIteratorsCount is a byte that stays at its maximum.
Count(n, d) == IF n = MaxCount THEN n ELSE n + d
Counted(hp, t, d) ==
    IF t \in Table THEN [hp EXCEPT !.tab[t].count = Count(@, d)] ELSE hp

\* The free slots at the end are not in use.
Trim(is) ==
    SubSeq(is, 1, Max({0} \union { k \in DOMAIN is : is[k].ht # Null }))

zend_hash_iterator_add(hp, t, pos) ==
    LET free == { k \in DOMAIN hp.iters : hp.iters[k].ht = Null }
        idx == IF free = {} THEN Len(hp.iters) + 1 ELSE Min(free)
        new == [ht |-> t, pos |-> pos, next |-> idx]
    IN  [heap |-> Counted([hp EXCEPT !.iters = IF free = {} THEN Append(@, new)
                                               ELSE [@ EXCEPT ![idx] = new]], t, 1),
         idx |-> idx]

\* The ring of copies of an iterator, itself left out.
Ring(is, idx) ==
    LET f[n \in 0..Len(is)] ==
          IF n = 0 THEN {is[idx].next} ELSE f[n - 1] \union { is[k].next : k \in f[n - 1] }
    IN  f[Len(is)] \ {idx}

\* Iterators S are freed, each counted off the table it is on.
Free(hp, S) ==
    LET On(t) == { k \in S : hp.iters[k].ht = t }
    IN  [tab |-> [t \in Table |-> [hp.tab[t] EXCEPT !.count = Count(@, -Cardinality(On(t)))]],
         iters |-> Trim([k \in DOMAIN hp.iters |->
            IF k \in S THEN [ht |-> Null, pos |-> 1, next |-> k] ELSE hp.iters[k]])]

\* zend_hash_remove_iterator_copies
RemoveCopies(hp, idx) ==
    Free([hp EXCEPT !.iters[idx].next = idx], Ring(hp.iters, idx))

\* Variant: the copies of the iterator stay.
DelKeepsCopies(hp, idx) == Free(hp, {idx})

zend_hash_iterator_del(hp, idx) == Free(hp, Ring(hp.iters, idx) \union {idx})

\* Every iterator on t moves from its position to the one given by to.
Moved(hp, t, to) ==
    IF hp.tab[t].count = 0 THEN hp
    ELSE LET is == hp.iters
         IN  [hp EXCEPT !.iters = [k \in DOMAIN is |->
                 IF is[k].ht = t THEN [is[k] EXCEPT !.pos = to[is[k].pos]] ELSE is[k]]]

-----------------------------------------------------------------------------
(* Elements.                                                               *)

Used(s) == { p \in DOMAIN s : s[p] # Undef }
\* The elements of s without the holes: the k-th is the one at the k-th of the
\* positions in use.
Nth(U, k) == CHOOSE p \in U : Cardinality({ q \in U : q <= p }) = k
Dense(s) == [k \in 1..Cardinality(Used(s)) |-> s[Nth(Used(s), k)]]

\* _zend_hash_get_valid_pos, zend_hash_move_forward_ex
Valid(s, pos) == Min({ p \in Used(s) : p >= pos } \union {Max({pos, Len(s) + 1})})
Forward(s, pos) == Min({ p \in Used(s) : p > pos } \union {Len(s) + 1})

\* Where the loop that closes the holes of s moves iterators at positions P.
\* An element at position i moves to the j-th; the pending iterators before i
\* go with it, and one at i if it is the first that is pending.
Moves(s, P) ==
    LET hole == Min(DOMAIN s \ Used(s))
        Lower(p) == Min({ q \in P : q >= p } \union {Len(s) + 1})
        Step(acc, i) ==
            LET now == IF i < acc.cur THEN {}
                       ELSE {acc.cur} \union { q \in P : acc.cur < q /\ q < i }
            IN  [to  |-> [q \in P |-> IF q \in now THEN acc.j ELSE acc.to[q]],
                 cur |-> IF now = {} THEN acc.cur ELSE Lower(Max(now) + 1),
                 j   |-> acc.j + 1]
        loop[i \in hole..Len(s)] ==
            IF i = hole THEN [to |-> [q \in P |-> q], cur |-> Lower(hole + 1), j |-> hole]
            ELSE IF s[i] = Undef THEN loop[i - 1] ELSE Step(loop[i - 1], i)
    IN  IF Used(s) = DOMAIN s THEN [q \in P |-> q] ELSE loop[Len(s)].to

\* zend_hash_rehash; an iterator at the end stays at the end.
zend_hash_rehash(hp, t) ==
    LET s == hp.tab[t].slots
        to == Moves(s, Positions(hp, t))
        end == IF Used(s) = DOMAIN s THEN Len(s) + 1 ELSE Len(Dense(s)) + 1
    IN  [Moved(hp, t, [p \in DOMAIN to |-> IF to[p] = Len(s) + 1 THEN end ELSE to[p]])
            EXCEPT !.tab[t].slots = Dense(s)]

\* zend_hash_packed_grow, zend_hash_do_resize
Grown(hp, t) == [hp EXCEPT !.tab[t].size = 2 * @]

\* zend_hash_next_index_insert of e: a packed table has key h at position h.
\* A table that is full is compacted when it has holes and doubled otherwise.
zend_hash_next_index_insert(hp, t, e) ==
    LET ht == hp.tab[t]
        h == ht.next
        n == Cardinality(Used(ht.slots))
        full == Len(ht.slots) >= ht.size
        at == [p \in 1..(h + 1) |-> IF p <= Len(ht.slots) THEN ht.slots[p]
                                    ELSE IF p = h + 1 THEN e ELSE Undef]
        packed == [hp EXCEPT !.tab[t].kind = "packed", !.tab[t].slots = at,
                             !.tab[t].next = h + 1]
        Add(g) == [g EXCEPT !.tab[t].kind = "hash", !.tab[t].next = h + 1,
                            !.tab[t].slots = Append(@, e)]
    IN  CASE ht.kind # "hash" /\ h < ht.size -> packed
          [] /\ ht.kind = "packed" /\ h >= ht.size
             /\ h \div 2 < ht.size /\ ht.size \div 2 < n -> Grown(packed, t)
          [] /\ ht.kind = "packed" /\ h >= ht.size
             /\ ~(h \div 2 < ht.size /\ ht.size \div 2 < n) ->
                 Add(zend_hash_rehash(IF full THEN Grown(hp, t) ELSE hp, t))
          [] ht.kind = "uninit" /\ h >= ht.size -> Add(hp)
          [] ht.kind = "hash" /\ ~full -> Add(hp)
          [] ht.kind = "hash" /\ full ->
                 Add(zend_hash_rehash(IF Len(ht.slots) > n + n \div 32 THEN hp
                                      ELSE Grown(hp, t), t))

\* Variant: iterators behind the new end are not pulled back.
DelNoClamp(hp, t, e) ==
    LET s == [p \in DOMAIN hp.tab[t].slots |->
                 IF hp.tab[t].slots[p] = e THEN Undef ELSE hp.tab[t].slots[p]]
    IN  [hp EXCEPT !.tab[t].slots = SubSeq(s, 1, Max({0} \union Used(s)))]

\* zend_hash_index_del of e: behind the last element nNumUsed shrinks and takes
\* the iterators along.
zend_hash_index_del(hp, t, e) ==
    LET s == [p \in DOMAIN hp.tab[t].slots |->
                 IF hp.tab[t].slots[p] = e THEN Undef ELSE hp.tab[t].slots[p]]
        end == Max({0} \union Used(s))
        to == [p \in Positions(hp, t) |-> IF end < Len(s) THEN Min({p, end + 1}) ELSE p]
    IN  [Moved(hp, t, to) EXCEPT !.tab[t].slots = SubSeq(s, 1, end)]

-----------------------------------------------------------------------------
(* Copies.                                                                 *)

\* Variant: every copy takes the position that is furthest behind, instead of
\* that of its own iterator.
DupFromLowest(hp, src, dst) ==
    LET Dup(h, k) ==
            IF h.iters[k].ht # src THEN h
            ELSE LET add == zend_hash_iterator_add(h, dst, Min(Positions(h, src)))
                 IN  [add.heap EXCEPT !.iters[add.idx].next = h.iters[k].next,
                                      !.iters[k].next = add.idx]
        dup[n \in 0..Len(hp.iters)] == IF n = 0 THEN hp ELSE Dup(dup[n - 1], n)
    IN  dup[Len(hp.iters)]

zend_array_dup_ht_iterators(hp, src, dst) ==
    LET Dup(h, k) ==
            IF h.iters[k].ht # src THEN h
            ELSE LET add == zend_hash_iterator_add(h, dst, h.iters[k].pos)
                 IN  [add.heap EXCEPT !.iters[add.idx].next = h.iters[k].next,
                                      !.iters[k].next = add.idx]
        dup[n \in 0..Len(hp.iters)] == IF n = 0 THEN hp ELSE Dup(dup[n - 1], n)
    IN  dup[Len(hp.iters)]

\* zend_array_dup: a packed table keeps its holes, a hash closes them, an
\* empty one is new and has no iterators.
zend_array_dup(hp, src, dst) ==
    LET s == hp.tab[src].slots
        same == zend_array_dup_ht_iterators(
                  [hp EXCEPT !.tab[dst] = [hp.tab[src] EXCEPT !.count = 0]], src, dst)
        to == Moves(s, Positions(hp, src))
    IN  CASE Used(s) = {} -> [hp EXCEPT !.tab[dst] =
                 [hp.tab[src] EXCEPT !.kind = "uninit", !.slots = <<>>,
                                     !.size = MinSize, !.count = 0]]
          [] Used(s) # {} /\ hp.tab[src].kind = "packed" -> same
          [] Used(s) # {} /\ hp.tab[src].kind = "hash" ->
                 [Moved(same, dst, to) EXCEPT !.tab[dst].slots = Dense(s)]

Spare == CHOOSE t \in Table : t \notin {arr, copy}

\* Variant: iterators on the table are not poisoned.
DestroyLeavesIterators(hp, t) == [hp EXCEPT !.tab[t] = NoTable]

zend_array_destroy(hp, t) ==
    LET is == hp.iters
    IN  [hp EXCEPT !.tab[t] = NoTable, !.iters = [k \in DOMAIN is |->
            IF is[k].ht = t /\ hp.tab[t].count > 0 THEN [is[k] EXCEPT !.ht = Poisoned]
            ELSE is[k]]]

\* A variable leaves table t for another: the last one destroys it.
Released(hp, t, others) ==
    IF t = Null \/ t \in others THEN hp ELSE zend_array_destroy(hp, t)

\* SEPARATE_ARRAY
Separated(hp) == IF arr = copy THEN zend_array_dup(hp, arr, Spare) ELSE hp
Own == IF arr = copy THEN Spare ELSE arr

-----------------------------------------------------------------------------
(* What an iterator finds when its table is no longer the array's.         *)

\* zend_hash_iterator_find_copy_pos: what it does; it fails if nothing is found.
zend_hash_iterator_find_copy_pos(hp, idx, ht) ==
    LET found == { k \in Ring(hp.iters, idx) : hp.iters[k].ht = ht }
        it == hp.iters[CHOOSE k \in found : TRUE]
    IN  IF found = {} THEN RemoveCopies(hp, idx)
        ELSE RemoveCopies([Counted(Counted(hp, hp.iters[idx].ht, -1), ht, 1)
                EXCEPT !.iters[idx].ht = ht, !.iters[idx].pos = it.pos], idx)

Found(idx) == iters[idx].ht = arr
              \/ \E k \in Ring(iters, idx) : iters[k].ht = arr

\* zend_hash_iterator_pos_ex: an array the iterator does not know is separated
\* and walked from its start.  The overflow of the old count is looked up in
\* the new table.
zend_hash_iterator_pos_ex(idx) ==
    LET lost == zend_hash_iterator_find_copy_pos(Heap, idx, arr)
        was == lost.iters[idx].ht
        left == IF was \in Table /\ tab[arr].count # MaxCount
                THEN [lost EXCEPT !.tab[was].count = @ - 1] ELSE lost
        sep == Separated(left)
    IN  IF iters[idx].ht = arr THEN Heap
        ELSE IF Found(idx) THEN lost
        ELSE [Counted(sep, Own, 1) EXCEPT !.iters[idx].ht = Own,
                 !.iters[idx].pos = Valid(sep.tab[Own].slots, 1)]

-----------------------------------------------------------------------------
Init ==
    /\ \E t \in Table, kind \in {"packed", "hash"} :
         /\ arr = t
         /\ tab = [u \in Table |-> IF u # t THEN NoTable ELSE
                     [kind |-> kind, slots |-> [p \in 1..StartLen |-> p],
                      size |-> StartSize, next |-> StartLen, count |-> 0]]
    /\ copy = Null /\ iters = <<>> /\ walks = <<>> /\ born = StartLen
    /\ shares = 0 /\ skewed = FALSE

Effect(hp) == tab' = hp.tab /\ iters' = hp.iters

\* The holes of the array are closed, down to n positions, and an iterator is
\* not moved with the element it is at or waits for: in the loop, or at the end
\* of a table whose copy closes the holes.
Skews(n) ==
    LET s == tab[arr].slots
        to == Moves(s, Positions(Heap, arr))
        dup == arr = copy /\ tab[arr].kind = "hash"
        Lands(p) == IF to[p] = Len(s) + 1 /\ ~dup THEN n + 1 ELSE to[p]
    IN  n < Len(s) /\ \E p \in DOMAIN to :
            Lands(p) # Cardinality({ i \in Used(s) : i < p }) + 1
Separates == Skews(Len(Separated(Heap).tab[Own].slots))

\* $array[] = e
Push ==
    /\ born < MaxElems /\ born' = born + 1
    /\ Effect(zend_hash_next_index_insert(Separated(Heap), Own, born + 1))
    /\ arr' = Own /\ skewed' = (skewed \/ Skews(Len(tab'[Own].slots) - 1))
    /\ UNCHANGED <<copy, walks, shares>>

\* unset($array[e])
Unset(e) ==
    /\ e \in Range(tab[arr].slots)
    /\ Effect(zend_hash_index_del(Separated(Heap), Own, e))
    /\ arr' = Own /\ skewed' = (skewed \/ Separates)
    /\ UNCHANGED <<copy, walks, born, shares>>

\* $copy = $array
Share ==
    /\ copy # arr /\ shares < MaxShares /\ shares' = shares + 1
    /\ Effect(Released(Heap, copy, {})) /\ copy' = arr
    /\ UNCHANGED <<arr, walks, born, skewed>>

\* $array = $copy
Restore ==
    /\ copy \notin {Null, arr} /\ shares < MaxShares /\ shares' = shares + 1
    /\ Effect(Released(Heap, arr, {copy})) /\ arr' = copy
    /\ UNCHANGED <<copy, walks, born, skewed>>

\* unset($copy)
DropCopy ==
    /\ copy # Null
    /\ Effect(Released(Heap, copy, {arr})) /\ copy' = Null
    /\ UNCHANGED <<arr, walks, born, shares, skewed>>

\* The walk w, whose array is at t in hp, goes on at its iterator's position:
\* the next element is passed to the callback and the position moved on before
\* the call, or the walk ends.
WalkOn(hp, t, others, w) ==
    LET s == hp.tab[t].slots
        p == Valid(s, hp.iters[w.iter].pos)
    IN  IF p > Len(s)
        THEN Effect(zend_hash_iterator_del(hp, w.iter)) /\ walks' = others
        ELSE /\ Effect([hp EXCEPT !.iters[w.iter].pos = Forward(s, p)])
             /\ walks' = Append(others, [w EXCEPT !.seen = @ \union {s[p]}])

\* php_array_walk starts: the array is separated, an empty one is not walked.
StartWalk ==
    /\ Len(walks) < MaxWalks
    /\ LET sep == Separated(Heap)
           add == zend_hash_iterator_add(sep, Own, Valid(sep.tab[Own].slots, 1))
       IN  IF Used(tab[arr].slots) = {} THEN Effect(sep) /\ UNCHANGED walks
           ELSE WalkOn(add.heap, Own, walks, [iter |-> add.idx, seen |-> {}])
    /\ arr' = Own /\ skewed' = (skewed \/ Separates)
    /\ UNCHANGED <<copy, born, shares>>

\* "Reload array and position -- both may have changed", for walk w.
Reload(w) ==
    /\ arr' = IF Found(w.iter) THEN arr ELSE Own
    /\ skewed' = (skewed \/ (~Found(w.iter) /\ Separates))
    /\ UNCHANGED <<copy, born, shares>>

\* The callback of the innermost walk returns.
CallbackReturns ==
    /\ walks # <<>>
    /\ LET w == Last(walks)
       IN  /\ Reload(w)
           /\ WalkOn(zend_hash_iterator_pos_ex(w.iter), arr', Front(walks),
                     IF Found(w.iter) THEN w ELSE [w EXCEPT !.seen = {}])

\* The callback throws: the walk is left.
CallbackThrows ==
    /\ walks # <<>>
    /\ LET w == Last(walks)
       IN  /\ Reload(w)
           /\ Effect(zend_hash_iterator_del(zend_hash_iterator_pos_ex(w.iter), w.iter))
    /\ walks' = Front(walks)

Next ==
    \/ Push \/ (\E e \in Elems : Unset(e)) \/ Share \/ Restore \/ DropCopy
    \/ StartWalk \/ CallbackReturns \/ CallbackThrows

Spec == Init /\ [][Next]_vars

-----------------------------------------------------------------------------
(* Properties.                                                             *)

\* The types of tables and iterators; no table holds more than its size.
TypeOK ==
    /\ \A t \in Table :
         /\ tab[t].kind \in {"free", "uninit", "packed", "hash"}
         /\ tab[t].slots \in Seq(Elems \union {Undef})
         /\ Len(tab[t].slots) <= tab[t].size /\ tab[t].count \in 0..MaxCount
    /\ arr \in Table /\ copy \in Table \union {Null}
    /\ \A k \in DOMAIN iters : /\ iters[k].ht \in Table \union {Null, Poisoned}
                               /\ iters[k].next \in DOMAIN iters
    /\ walks \in Seq(Walk) /\ born \in 0..MaxElems /\ shares \in 0..MaxShares

\* Tables and iterators agree.  No iterator is on a table that was destroyed,
\* where the next table at that address would be taken for the one the walk is
\* about (HT_POISONED_PTR); and a table knows how many iterators are on it until
\* the byte overflows (nIteratorsCount), for at zero its operations leave all
\* iterators where they are.
TablesSound ==
    /\ TypeOK
    /\ \A k \in DOMAIN iters : iters[k].ht \in Table => tab[iters[k].ht].kind # "free"
    /\ \A t \in Table : tab[t].count = MaxCount \/
         tab[t].count = Cardinality({ k \in DOMAIN iters : iters[k].ht = t })

\* "Leaked hashtable iterators" (shutdown_executor): every iterator in use
\* belongs to the ring of exactly one walk, so none is left when walks end,
\* however they end and however often the array was copied.
IteratorsOwned ==
    LET Mine(w) == Ring(iters, w.iter) \union {w.iter}
    IN  /\ \A i, j \in DOMAIN walks : i # j => Mine(walks[i]) \intersect Mine(walks[j]) = {}
        /\ { k \in DOMAIN iters : iters[k].ht # Null } =
              UNION { Mine(walks[i]) : i \in DOMAIN walks }

\* The elements a walk that knows its array has still to come to.
Ahead(w) ==
    LET k == IF iters[w.iter].ht = arr THEN w.iter
             ELSE CHOOSE j \in Ring(iters, w.iter) : iters[j].ht = arr
        s == tab[arr].slots
    IN  { s[p] : p \in { q \in Used(s) : q >= iters[k].pos } }

\* No element is passed to the callback of a walk twice, whatever callbacks
\* remove, append and copy.
NoRevisit ==
    \A i \in DOMAIN walks : Found(walks[i].iter) =>
        Ahead(walks[i]) \intersect walks[i].seen = {}

\* php_array_walk: moving on before the call "ensures proper behavior with
\* regard to modifications": what a walk has not seen is ahead of it, elements
\* that callbacks appended included.
WalkComplete ==
    \A i \in DOMAIN walks : Found(walks[i].iter) =>
        Range(tab[arr].slots) \ {Undef} \subseteq Ahead(walks[i]) \union walks[i].seen

\* So it is unless a compaction met two iterators, or a copy one at the end.
WalkCompleteUnskewed == ~skewed => WalkComplete
===============================================================================
