---------------------------- MODULE RegistryProofs ----------------------------
(***************************************************************************)
(* The two registries that a request fills and its end sweeps: the         *)
(* resource list (ZendResources) and the INI directives (ZendIni).         *)
(*                                                                         *)
(* Resources, for any number of them, any table size and any number of     *)
(* bailouts:                                                               *)
(* the destructor of a resource runs exactly once and no structure is      *)
(* freed before it ran; this does not depend on where the table puts a     *)
(* resource (OnceInv).  The second part follows positions through          *)
(* insertion, conversion and rehash, and structures through the calls in   *)
(* progress (ResInv): no reference dangles and the end frees everything.   *)
(* The third follows the variables of the close loop (LoopInv): in a table *)
(* that is still packed no resource is left open.                          *)
(*                                                                         *)
(* Directives, for any modules, directives and values: the last part.      *)
(***************************************************************************)
EXTENDS ZendResources, ZendIni, SequenceFacts, TLAPS

(* The inductive invariant: every open resource was registered and is      *)
(* allocated, and a destructor call in progress is that of a resource      *)
(* which is not open and, since handles are never reused, never will be.   *)
FramesClosed ==
    /\ stack \in Seq(Frames)
    /\ \A k \in 1..Len(stack) : stack[k].res < nextfree
                                /\ stack[k].res \notin open

OnceInv ==
    /\ nextfree \in Nat
    /\ ran \in [Handles -> Nat]
    /\ open \subseteq Handles /\ open \subseteq alloc
    /\ \A h \in open : h < nextfree
    /\ FramesClosed
    /\ DestructedOnce

(* No structure is freed while its resource is open: an efree always comes *)
(* after the destructor.                                                   *)
OpenAllocated == open \subseteq alloc

(* Init establishes the invariant.                                         *)
LEMMA OnceInvInit == Init => OnceInv
<1> SUFFICES ASSUME Init PROVE OnceInv
    OBVIOUS
<1>1. stack \in Seq(Frames) /\ Len(stack) = 0
    BY EmptySeq DEF Init
<1>2. FramesClosed
    BY <1>1 DEF FramesClosed
<1>3. DestructedOnce
    BY MaxResAssumption DEF Init, DestructedOnce, Handles
<1> QED
    BY <1>2, <1>3 DEF Init, OnceInv

(* zend_resource_dtor keeps it when it is called on an open resource: the  *)
(* type is cleared first, so the new frame is that of a closed resource.   *)
LEMMA DtorKeepsOnceInv ==
    ASSUME OnceInv, NEW h \in open, NEW f \in BOOLEAN,
           zend_resource_dtor(h, f), UNCHANGED nextfree, open' \subseteq alloc'
    PROVE  OnceInv'
<1>1. h \in Handles /\ h < nextfree /\ ran[h] = 0
    BY DEF OnceInv, DestructedOnce
<1>2. [res |-> h, efree |-> f] \in Frames
    BY <1>1 DEF Frames
<1>3. /\ stack' \in Seq(Frames) /\ Len(stack') = Len(stack) + 1
      /\ stack'[Len(stack) + 1] = [res |-> h, efree |-> f]
      /\ \A k \in 1..Len(stack) : stack'[k] = stack[k]
      /\ Len(stack) \in Nat
    BY <1>2, AppendProperties, LenProperties
       DEF zend_resource_dtor, OnceInv, FramesClosed
<1>4. FramesClosed'
  <2> SUFFICES ASSUME NEW k \in 1..Len(stack')
               PROVE  stack'[k].res < nextfree' /\ stack'[k].res \notin open'
      BY <1>3 DEF FramesClosed
  <2>1. CASE k = Len(stack) + 1
      BY <2>1, <1>1, <1>3 DEF zend_resource_dtor
  <2>2. CASE k # Len(stack) + 1
    <3>1. k \in 1..Len(stack)
        BY <2>2, <1>3
    <3> QED
        BY <3>1, <1>3 DEF zend_resource_dtor, OnceInv, FramesClosed
  <2> QED
      BY <2>1, <2>2
<1>5. DestructedOnce'
    BY <1>1 DEF zend_resource_dtor, OnceInv, DestructedOnce
<1> QED
    BY <1>4, <1>5 DEF zend_resource_dtor, OnceInv

(* So does a step that removes structures of closed resources and frames   *)
(* and leaves the books alone.                                             *)
LEMMA PopKeepsOnceInv ==
    ASSUME OnceInv, UNCHANGED <<nextfree, open, ran>>, open' \subseteq alloc',
           stack' \in Seq(Frames), Len(stack') <= Len(stack),
           \A k \in 1..Len(stack') : stack'[k] = stack[k]
    PROVE  OnceInv'
<1>1. \A k \in 1..Len(stack') : k \in 1..Len(stack)
    BY LenProperties DEF OnceInv, FramesClosed
<1>2. FramesClosed'
    BY <1>1 DEF OnceInv, FramesClosed
<1>3. DestructedOnce'
    BY DEF OnceInv, DestructedOnce
<1> QED
    BY <1>2, <1>3 DEF OnceInv

(* list_entry_destructor keeps it for whatever the table hands it.         *)
LEMMA EntryKeepsOnceInv ==
    ASSUME OnceInv, NEW h, list_entry_destructor(h), UNCHANGED nextfree
    PROVE  OnceInv'
<1>1. CASE h \in open
  <2>1. zend_resource_dtor(h, TRUE) /\ alloc' = alloc
      BY <1>1 DEF list_entry_destructor
  <2>2. open' \subseteq alloc'
      BY <2>1 DEF zend_resource_dtor, OnceInv
  <2> QED
      BY <1>1, <2>1, <2>2, DtorKeepsOnceInv
<1>2. CASE h \notin open
  <2>1. alloc' = alloc \ {h} /\ UNCHANGED <<open, ran, stack>>
      BY <1>2 DEF list_entry_destructor
  <2>2. open' \subseteq alloc'
      BY <1>2, <2>1 DEF OnceInv
  <2>3. stack' \in Seq(Frames) /\ Len(stack') <= Len(stack)
      BY <2>1, LenProperties DEF OnceInv, FramesClosed
  <2> QED
      BY <2>1, <2>2, <2>3, PopKeepsOnceInv
<1> QED
    BY <1>1, <1>2

(* Every step keeps it.                                                    *)
LEMMA OnceInvStep == OnceInv /\ [Next]_vars => OnceInv'
<1> SUFFICES ASSUME OnceInv, [Next]_vars PROVE OnceInv'
    OBVIOUS
<1>q. ASSUME UNCHANGED <<nextfree, open, ran, alloc, stack>> PROVE OnceInv'
  <2>1. stack' \in Seq(Frames) /\ Len(stack') <= Len(stack)
      BY <1>q, LenProperties DEF OnceInv, FramesClosed
  <2> QED
      BY <1>q, <2>1, PopKeepsOnceInv DEF OnceInv
<1>1. CASE zend_list_insert
  <2> DEFINE h == IF nextfree = 0 THEN 1 ELSE nextfree
  <2>1. /\ h <= MaxRes /\ nextfree' = h + 1 /\ open' = open \union {h}
        /\ alloc' = alloc \union {h} /\ UNCHANGED <<ran, stack>>
      BY <1>1 DEF zend_list_insert
  <2>2. h \in Handles /\ h >= nextfree
      BY <2>1, MaxResAssumption DEF OnceInv, Handles
  <2>3. \A g \in Handles : g < nextfree' => g < nextfree \/ g = h
      BY <2>1, MaxResAssumption DEF OnceInv, Handles
  <2>4. nextfree' \in Nat /\ \A g \in Handles : g < nextfree => g < nextfree'
      BY <2>1, <2>2, MaxResAssumption DEF OnceInv, Handles
  <2>4a. \A g \in open' : g < nextfree'
      BY <2>1, <2>2, <2>4 DEF OnceInv, Handles
  <2>5. FramesClosed'
    <3> SUFFICES ASSUME NEW k \in 1..Len(stack)
                 PROVE  stack[k].res < nextfree' /\ stack[k].res \notin open'
        BY <2>1 DEF OnceInv, FramesClosed
    <3>1. stack[k] \in Frames
        BY ElementOfSeq DEF OnceInv, FramesClosed
    <3>2. /\ stack[k].res \in Handles /\ stack[k].res < nextfree
          /\ stack[k].res \notin open
        BY <3>1 DEF OnceInv, FramesClosed, Frames
    <3> QED
        BY <3>2, <2>1, <2>2, <2>4 DEF OnceInv, Handles
  <2>6. DestructedOnce'
    <3> SUFFICES ASSUME NEW g \in Handles
                 PROVE  ran[g] = IF g < nextfree' /\ g \notin open' THEN 1 ELSE 0
        BY <2>1 DEF DestructedOnce
    <3>1. ran[g] = IF g < nextfree /\ g \notin open THEN 1 ELSE 0
        BY DEF OnceInv, DestructedOnce
    <3>2. CASE g = h
        BY <3>1, <3>2, <2>1, <2>2 DEF OnceInv, Handles
    <3>3. CASE g # h
        BY <3>1, <3>3, <2>1, <2>3, <2>4
    <3> QED
        BY <3>2, <3>3
  <2> QED
      BY <2>1, <2>2, <2>4, <2>4a, <2>5, <2>6 DEF OnceInv
<1>2. ASSUME NEW h \in Handles, zend_list_free(h) PROVE OnceInv'
    BY <1>2, EntryKeepsOnceInv DEF zend_list_free
<1>3. ASSUME NEW h \in Handles, zend_list_close(h) PROVE OnceInv'
  <2>1. /\ h \in open /\ zend_resource_dtor(h, FALSE)
        /\ UNCHANGED <<nextfree, alloc>>
      BY <1>3 DEF zend_list_close, list
  <2>2. open' \subseteq alloc'
      BY <2>1 DEF zend_resource_dtor, OnceInv
  <2> QED
      BY <2>1, <2>2, DtorKeepsOnceInv
<1>4. CASE Bailout
  <2>1. stack' \in Seq(Frames) /\ Len(stack') = 0 /\ Len(stack) \in Nat
      BY <1>4, EmptySeq, LenProperties DEF Bailout, OnceInv, FramesClosed
  <2>2. UNCHANGED <<nextfree, open, ran, alloc>>
      BY <1>4 DEF Bailout, list
  <2> QED
      BY <2>1, <2>2, PopKeepsOnceInv DEF OnceInv
<1>5. CASE StartClosing
    BY <1>5, <1>q DEF StartClosing, list
<1>6. CASE CloseStep
  <2>1. CASE i <= nNumUsed /\ slots[i] \in open
    <3>1. /\ zend_resource_dtor(slots[i], FALSE)
          /\ UNCHANGED <<nextfree, alloc>>
        BY <1>6, <2>1 DEF CloseStep, list
    <3>2. open' \subseteq alloc'
        BY <3>1 DEF zend_resource_dtor, OnceInv
    <3> QED
        BY <2>1, <3>1, <3>2, DtorKeepsOnceInv
  <2>2. CASE ~(i <= nNumUsed /\ slots[i] \in open)
      BY <1>6, <2>2, <1>q DEF CloseStep, list
  <2> QED
      BY <2>1, <2>2
<1>7. CASE HandlerReturn
  <2> DEFINE n == Len(stack)
  <2>1. n \in Nat \ {0} /\ stack \in Seq(Frames)
      BY <1>7, LenProperties, EmptySeq DEF HandlerReturn, OnceInv, FramesClosed
  <2>2. stack' = SubSeq(stack, 1, n - 1) /\ UNCHANGED <<nextfree, open, ran>>
      BY <1>7 DEF HandlerReturn, list
  <2>3. /\ stack' \in Seq(Frames) /\ Len(stack') = n - 1
        /\ \A k \in 1..(n - 1) : stack'[k] = stack[k]
      BY <1>7, <2>1, <2>2, FrontFacts DEF HandlerReturn
  <2>4. stack[n].res \notin open
      BY <2>1 DEF OnceInv, FramesClosed
  <2>5. alloc' = alloc \/ alloc' = alloc \ {stack[n].res}
      BY <1>7 DEF HandlerReturn
  <2>6. open' \subseteq alloc'
      BY <2>2, <2>4, <2>5 DEF OnceInv
  <2> QED
      BY <2>1, <2>2, <2>3, <2>6, PopKeepsOnceInv
<1>8. CASE CloseDone
    BY <1>8, <1>q DEF CloseDone, list
<1>9. CASE StartDestroying
    BY <1>9, <1>q DEF StartDestroying, list
<1>10. CASE DestroyStep
    BY <1>10, EntryKeepsOnceInv DEF DestroyStep
<1>11. CASE DestroyDone
    BY <1>11, <1>q DEF DestroyDone, list
<1>12. CASE UNCHANGED vars
    BY <1>12, <1>q DEF vars, list
<1> QED
    BY <1>1, <1>2, <1>3, <1>4, <1>5, <1>6, <1>7, <1>8, <1>9, <1>10, <1>11,
       <1>12 DEF Next, Program, Runtime

(* zend_resource_dtor runs the destructor of every resource exactly once,  *)
(* however closing, release, bailouts and the shutdown loop interleave.    *)
THEOREM DestructorsRunOnce == Spec => []DestructedOnce
<1>1. OnceInv => DestructedOnce
    BY DEF OnceInv
<1> QED
    BY <1>1, OnceInvInit, OnceInvStep, PTL DEF Spec

(* list_entry_destructor never frees a structure whose resource is open.   *)
THEOREM OpenStaysAllocated == Spec => []OpenAllocated
<1>1. OnceInv => OpenAllocated
    BY DEF OnceInv, OpenAllocated
<1> QED
    BY <1>1, OnceInvInit, OnceInvStep, PTL DEF Spec

-----------------------------------------------------------------------------
(* The list as a table.  Whatever it does to positions, an operation is    *)
(* judged by the resources it leaves in the list, each at one position.    *)
Entries(s) == { s[p] : p \in Used(s) }
Distinct(s) == \A p, q \in Used(s) : s[p] = s[q] => p = q
Slots == Seq(Handles \union {Undef})

(* Every set of positions has, for each k up to its size, a k-th element,  *)
(* and every element is the k-th for some k.                               *)
LEMMA NthFacts ==
    ASSUME NEW n \in Nat, NEW U \in SUBSET (1..n)
    PROVE  /\ Cardinality(U) \in Nat
           /\ \A k \in 1..Cardinality(U) : /\ Nth(U, k) \in U
                                           /\ Cardinality(Below(U, Nth(U, k))) = k
           /\ \A p \in U : /\ Cardinality(Below(U, p)) \in 1..Cardinality(U)
                           /\ Nth(U, Cardinality(Below(U, p))) = p
<1>1. \A p : Cardinality(Below(U, p)) = Rank(U, p)
  BY DEF Below, Rank
<1>0. \A p \in U : p \in Int
  OBVIOUS
<1>2. /\ Cardinality(U) \in Nat
      /\ \A p \in U : Rank(U, p) \in 1..Cardinality(U)
      /\ \A k \in 1..Cardinality(U) : \E p \in U : Rank(U, p) = k
      /\ \A p, q \in U : p < q => Rank(U, p) < Rank(U, q)
  BY <1>0, RankFacts, RankOrder
<1>3. ASSUME NEW k \in 1..Cardinality(U) PROVE Nth(U, k) \in U /\ Rank(U, Nth(U, k)) = k
  BY <1>1, <1>2 DEF Nth
<1>4. ASSUME NEW p \in U PROVE Nth(U, Rank(U, p)) = p
  <2>1. /\ Nth(U, Rank(U, p)) \in U
        /\ Rank(U, Nth(U, Rank(U, p))) = Rank(U, p)
    BY <1>2, <1>3
  <2>2. Nth(U, Rank(U, p)) \in Int /\ p \in Int
    BY <1>0, <2>1
  <2> QED
    BY <1>2, <2>1, <2>2
<1> QED
  BY <1>1, <1>2, <1>3, <1>4

(* zend_hash_rehash loses no resource and duplicates none.                 *)
LEMMA RehashFacts ==
    ASSUME NEW s \in Slots, Distinct(s)
    PROVE  /\ zend_hash_rehash(s) \in Slots
           /\ Distinct(zend_hash_rehash(s))
           /\ Entries(zend_hash_rehash(s)) = Entries(s)
<1> DEFINE U == Used(s)
           n == Cardinality(U)
           r == zend_hash_rehash(s)
<1>1. Len(s) \in Nat /\ DOMAIN s = 1..Len(s) /\ U \in SUBSET (1..Len(s))
  BY DEF Slots, Used
<1>2. /\ n \in Nat
      /\ \A k \in 1..n : Nth(U, k) \in U /\ Cardinality(Below(U, Nth(U, k))) = k
      /\ \A p \in U : /\ Cardinality(Below(U, p)) \in 1..n
                      /\ Nth(U, Cardinality(Below(U, p))) = p
  <2> HIDE DEF U
  <2> QED
    BY <1>1, NthFacts
<1>3. /\ r = [k \in 1..n |-> s[Nth(U, k)]]
      /\ \A p \in U : s[p] \in Handles /\ s[p] # Undef
  BY <1>1 DEF zend_hash_rehash, Slots, Used
<1> HIDE DEF U, n, r
<1>4. r \in Slots /\ Len(r) = n
  BY <1>2, <1>3 DEF Slots
<1>5. Used(r) = 1..n
  BY <1>2, <1>3, <1>4 DEF Used
<1>6. Distinct(r)
  <2> SUFFICES ASSUME NEW j \in 1..n, NEW k \in 1..n, r[j] = r[k] PROVE j = k
    BY <1>5 DEF Distinct
  <2>1. Nth(U, j) = Nth(U, k)
    BY <1>2, <1>3 DEF Distinct, U
  <2> QED
    BY <2>1, <1>2
<1>7. Entries(r) = Entries(s)
  <2>1. Entries(r) = { s[Nth(U, k)] : k \in 1..n }
    BY <1>3, <1>5 DEF Entries
  <2>2. Entries(s) = { s[p] : p \in U }
    BY DEF Entries, U
  <2>3. \A p \in U : \E k \in 1..n : p = Nth(U, k)
    BY <1>2
  <2> QED
    BY <2>1, <2>2, <2>3, <1>2
<1> QED
  BY <1>4, <1>6, <1>7 DEF r

(* Appending a resource that is not in the list.                           *)
LEMMA AppendKeeps ==
    ASSUME NEW s \in Slots, Distinct(s), NEW h \in Handles, h \notin Entries(s)
    PROVE  /\ Append(s, h) \in Slots
           /\ Distinct(Append(s, h))
           /\ Entries(Append(s, h)) = Entries(s) \union {h}
<1> DEFINE n == Len(s)
           a == Append(s, h)
<1>1. /\ a \in Slots /\ Len(a) = n + 1 /\ a[n + 1] = h /\ n \in Nat
      /\ \A p \in 1..n : a[p] = s[p]
      /\ DOMAIN a = 1..(n + 1) /\ DOMAIN s = 1..n
  BY AppendFacts DEF Slots
<1> HIDE DEF a
<1>2. h # Undef
  BY UndefAssumption, MaxResAssumption DEF Handles
<1>3. /\ Used(a) = Used(s) \union {n + 1} /\ n + 1 \notin Used(s)
      /\ \A p \in Used(s) : a[p] = s[p]
  BY <1>1, <1>2 DEF Used
<1>4. Distinct(a)
  BY <1>1, <1>3 DEF Distinct, Entries
<1>5. Entries(a) = Entries(s) \union {h}
  BY <1>1, <1>3 DEF Entries
<1> QED
  BY <1>1, <1>4, <1>5 DEF a

(* zend_hash_index_del takes out the resource, if it is there, and only it. *)
LEMMA DelFacts ==
    ASSUME slots \in Slots, Distinct(slots), NEW h
    PROVE  LET d == zend_hash_index_del(h)
           IN  /\ d \in Slots /\ Distinct(d)
               /\ Entries(d) = Entries(slots) \ {h}
               /\ Len(d) <= Len(slots)
               /\ \A p \in Used(d) : p \in Used(slots) /\ d[p] = slots[p]
<1> DEFINE n == Len(slots)
           rest == Used(slots) \ Where(h)
           last == IF rest = {} THEN 0
                   ELSE CHOOSE p \in rest : \A q \in rest : q <= p
           e == [p \in DOMAIN slots |-> IF slots[p] = h THEN Undef ELSE slots[p]]
           d == zend_hash_index_del(h)
<1>1. n \in Nat /\ DOMAIN slots = 1..n /\ rest \in SUBSET (1..n)
  BY DEF Slots, Used
<1>2. last \in 0..n /\ \A q \in rest : q <= last
  <2>1. CASE rest = {}
    BY <1>1, <2>1
  <2>2. CASE rest # {}
    <3>1. \E p \in rest : \A q \in rest : q <= p
      <4> HIDE DEF rest
      <4> QED
        BY <1>1, <2>2, GreatestElement
    <3>2. last \in rest /\ \A q \in rest : q <= last
      BY <2>2, <3>1
    <3> HIDE DEF last, rest
    <3>3. last \in 1..n
      BY <3>2, <1>1
    <3> QED
      BY <3>2, <3>3
  <2> QED
    BY <2>1, <2>2
<1>3. e \in Slots /\ Len(e) = n /\ DOMAIN e = 1..n
  BY <1>1 DEF Slots
<1>4. Used(e) = rest /\ \A p \in rest : e[p] = slots[p]
  BY <1>1 DEF Used, Where
<1>5. d = IF nNumUsed \in Where(h) THEN SubSeq(e, 1, last) ELSE e
  BY DEF zend_hash_index_del
<1> HIDE DEF e, d, last
<1>6. /\ d \in Slots /\ Len(d) <= n /\ DOMAIN d = 1..Len(d)
      /\ \A p \in 1..Len(d) : d[p] = e[p]
      /\ \A p \in rest : p \in 1..Len(d)
  <2>1. CASE nNumUsed \in Where(h)
    <3>1. d = SubSeq(e, 1, last)
      BY <1>5, <2>1
    <3>2. /\ \A p \in 1..last : e[p] \in Handles \union {Undef}
          /\ last \in Int /\ 1 \in Int
      BY <1>2, <1>3 DEF Slots
    <3>3. /\ d \in Seq(Handles \union {Undef})
          /\ Len(d) = IF 1 <= last THEN last - 1 + 1 ELSE 0
          /\ \A p \in 1..(last - 1 + 1) : d[p] = e[1 + p - 1]
      BY <3>1, <3>2, SubSeqProperties
    <3>4. Len(d) = last /\ \A p \in 1..last : d[p] = e[p]
      BY <3>3, <1>2
    <3> QED
      BY <3>3, <3>4, <1>1, <1>2 DEF Slots
  <2>2. CASE nNumUsed \notin Where(h)
    BY <2>2, <1>1, <1>3, <1>5
  <2> QED
    BY <2>1, <2>2
<1>7. Used(d) = rest /\ \A p \in rest : d[p] = slots[p]
  BY <1>3, <1>4, <1>6 DEF Used
<1>8. Distinct(d)
  BY <1>7 DEF Distinct
<1>9. Entries(d) = Entries(slots) \ {h}
  BY <1>7 DEF Entries, Where, Used
<1> QED
  BY <1>6, <1>7, <1>8, <1>9 DEF d

(* Where a packed table keeps its resources: h at position h, all of them  *)
(* below the next free index.                                              *)
PackedInv ==
    packed => /\ Len(slots) <= nextfree
              /\ \A p \in Used(slots) : slots[p] = p - 1

(* zend_hash_index_add_new adds the new resource and keeps the others,     *)
(* whether it fills a packed table, grows it, compacts it or hashes it.    *)
LEMMA AddFacts ==
    ASSUME slots \in Slots, Distinct(slots), packed \in BOOLEAN, tsize \in Nat,
           nextfree \in Nat, PackedInv,
           NEW h \in Handles, h >= nextfree, h \notin Entries(slots),
           zend_hash_index_add_new(h), nextfree' = h + 1
    PROVE  /\ slots' \in Slots /\ Distinct(slots')
           /\ Entries(slots') = Entries(slots) \union {h}
           /\ packed' \in BOOLEAN /\ (packed' => packed) /\ tsize' \in Nat
           /\ PackedInv'
<1> DEFINE n == Len(slots)
           a == AddToPacked(h)
           r == zend_hash_rehash(slots)
<1>1. n \in Nat /\ DOMAIN slots = 1..n /\ h \in Nat /\ h # Undef
  BY UndefAssumption, MaxResAssumption DEF Slots, Handles
<1>2. \/ packed /\ slots' = a /\ packed' = packed /\ tsize' \in {tsize, 2 * tsize}
      \/ ~packed' /\ slots' = Append(r, h) /\ tsize' \in {tsize, 2 * tsize}
      \/ ~packed' /\ slots' = Append(slots, h) /\ tsize' = tsize
  BY DEF zend_hash_index_add_new
<1>3. packed' \in BOOLEAN /\ tsize' \in Nat /\ (packed' => packed)
  <2>1. tsize' \in Nat
    BY <1>2
  <2>2. packed' = packed \/ packed' = FALSE
    BY DEF zend_hash_index_add_new
  <2> QED
    BY <1>2, <2>1, <2>2
<1>4. CASE packed /\ slots' = a /\ packed' = packed
  <2>1. n <= h
    BY <1>1, <1>4 DEF PackedInv
  <2>2. /\ a \in Slots /\ Len(a) = h + 1 /\ DOMAIN a = 1..(h + 1)
        /\ a[h + 1] = h /\ \A p \in 1..n : a[p] = slots[p]
        /\ \A p \in 1..(h + 1) : p \notin 1..n /\ p # h + 1 => a[p] = Undef
    BY <1>1, <2>1 DEF AddToPacked, Slots
  <2> HIDE DEF a
  <2>3. Used(a) = Used(slots) \union {h + 1} /\ h + 1 \notin Used(slots)
    BY <1>1, <2>1, <2>2 DEF Used
  <2>4. \A p \in Used(slots) : a[p] = slots[p]
    BY <1>1, <2>2 DEF Used
  <2>5. Distinct(a) /\ Entries(a) = Entries(slots) \union {h}
    BY <2>2, <2>3, <2>4 DEF Distinct, Entries
  <2>6. \A p \in Used(a) : a[p] = p - 1
    BY <1>1, <1>4, <2>2, <2>3, <2>4 DEF PackedInv
  <2>7. PackedInv'
    BY <1>1, <1>4, <2>2, <2>6 DEF PackedInv, Used
  <2> QED
    BY <1>3, <1>4, <2>2, <2>5, <2>7
<1>5. CASE ~packed' /\ slots' = Append(r, h)
  <2>1. r \in Slots /\ Distinct(r) /\ Entries(r) = Entries(slots)
    BY RehashFacts
  <2> HIDE DEF r
  <2> QED
    BY <1>3, <1>5, <2>1, AppendKeeps DEF PackedInv
<1>6. CASE ~packed' /\ slots' = Append(slots, h)
  BY <1>3, <1>6, AppendKeeps DEF PackedInv
<1> QED
  BY <1>2, <1>4, <1>5, <1>6

-----------------------------------------------------------------------------
(* The structures whose destructor call will end in an efree, and that     *)
(* each has one such call at most.                                         *)
Removing(st) == { st[k].res : k \in { j \in 1..Len(st) : st[j].efree } }
OneEach(st) ==
    \A j, k \in 1..Len(st) :
        st[j].efree /\ st[k].efree /\ st[j].res = st[k].res => j = k

(* Entering a destructor.                                                  *)
LEMMA PushFacts ==
    ASSUME NEW st \in Seq(Frames), OneEach(st), NEW h \in Handles,
           NEW f \in BOOLEAN, f => h \notin Removing(st)
    PROVE  LET t == Append(st, [res |-> h, efree |-> f])
           IN  /\ t \in Seq(Frames) /\ OneEach(t) /\ t # <<>>
               /\ Removing(t) = Removing(st) \union (IF f THEN {h} ELSE {})
<1> DEFINE fr == [res |-> h, efree |-> f]
           t == Append(st, fr)
           n == Len(st)
<1>1. fr \in Frames /\ fr.res = h /\ fr.efree = f
  BY DEF Frames
<1> HIDE DEF fr
<1>2. /\ t \in Seq(Frames) /\ Len(t) = n + 1 /\ n \in Nat
      /\ t[n + 1] = fr /\ \A k \in 1..n : t[k] = st[k]
  BY <1>1, AppendFacts
<1> HIDE DEF t
<1>3. OneEach(t)
  <2> SUFFICES ASSUME NEW j \in 1..(n + 1), NEW k \in 1..(n + 1),
                      t[j].efree, t[k].efree, t[j].res = t[k].res
               PROVE  j = k
    BY <1>2 DEF OneEach
  <2>1. CASE j \in 1..n /\ k \in 1..n
    BY <2>1, <1>2 DEF OneEach
  <2>2. CASE j = n + 1 /\ k \in 1..n
    BY <2>2, <1>1, <1>2 DEF Removing
  <2>3. CASE k = n + 1 /\ j \in 1..n
    BY <2>3, <1>1, <1>2 DEF Removing
  <2> QED
    BY <2>1, <2>2, <2>3, <1>2
<1>4. Removing(t) = Removing(st) \union (IF f THEN {h} ELSE {})
  <2> DEFINE E == { j \in 1..n : st[j].efree }
  <2>1. { j \in 1..Len(t) : t[j].efree } = E \union (IF f THEN {n + 1} ELSE {})
    BY <1>1, <1>2
  <2>2. /\ Removing(st) = { st[k].res : k \in E }
        /\ \A k \in E : t[k] = st[k]
    BY <1>2 DEF Removing
  <2> HIDE DEF E
  <2> QED
    BY <1>1, <1>2, <2>1, <2>2 DEF Removing
<1> QED
  BY <1>2, <1>3, <1>4 DEF t, fr

(* Leaving one.                                                            *)
LEMMA PopFacts ==
    ASSUME NEW st \in Seq(Frames), st # <<>>, OneEach(st)
    PROVE  LET t == SubSeq(st, 1, Len(st) - 1)
               f == st[Len(st)]
           IN  /\ f \in Frames
               /\ t \in Seq(Frames) /\ OneEach(t) /\ (t = <<>> <=> Len(st) = 1)
               /\ Removing(t) = IF f.efree THEN Removing(st) \ {f.res}
                                ELSE Removing(st)
               /\ f.efree => f.res \in Removing(st)
<1> DEFINE n == Len(st)
           t == SubSeq(st, 1, n - 1)
<1>1. /\ t \in Seq(Frames) /\ Len(t) = n - 1 /\ n \in Nat \ {0}
      /\ st[n] \in Frames /\ \A k \in 1..(n - 1) : t[k] = st[k]
  BY FrontFacts
<1> HIDE DEF t
<1>2. OneEach(t)
  BY <1>1 DEF OneEach
<1>3. t = <<>> <=> n = 1
  BY <1>1
<1> DEFINE E == { j \in 1..(n - 1) : st[j].efree }
<1>4. /\ { j \in 1..(n - 1) : t[j].efree } = E
      /\ { j \in 1..n : st[j].efree } = E \union (IF st[n].efree THEN {n} ELSE {})
      /\ \A k \in E : t[k] = st[k]
  BY <1>1
<1>5. /\ Removing(t) = { st[k].res : k \in E }
      /\ Removing(st) = { st[k].res : k \in E }
                           \union (IF st[n].efree THEN {st[n].res} ELSE {})
  <2> HIDE DEF E
  <2> QED
    BY <1>1, <1>4, SMTT(20) DEF Removing
<1>6. st[n].efree => st[n].res \notin { st[k].res : k \in E }
  BY <1>1 DEF OneEach
<1> QED
  BY <1>1, <1>2, <1>3, <1>5, <1>6 DEF t

-----------------------------------------------------------------------------
(* The inductive invariant of the list.  Every allocated structure is in   *)
(* the list, or its removal is in progress, or a bailout cut that removal  *)
(* short, and never two of these: this is what makes one efree enough and  *)
(* a second one impossible.                                                *)
Referenced == phase \in {"running", "closing", "inactive"}

ListInv ==
    /\ slots \in Slots /\ Distinct(slots)
    /\ packed \in BOOLEAN /\ tsize \in Nat /\ PackedInv
    /\ nextfree \in 0..(MaxRes + 1)
    /\ open \subseteq Entries(slots)
    /\ held \subseteq Handles /\ (Referenced => held \subseteq Entries(slots))

FreeInv ==
    /\ stack \in Seq(Frames) /\ OneEach(stack)
    /\ alloc \subseteq Handles /\ \A h \in alloc : h < nextfree
    /\ alloc = Entries(slots) \union Removing(stack) \union leaked
    /\ Entries(slots) \intersect Removing(stack) = {}
    /\ Entries(slots) \intersect leaked = {}
    /\ Removing(stack) \intersect leaked = {}

LocalsInv ==
    /\ phase \in {"running", "closing", "inactive", "destroying", "done",
                  "exited"}
    /\ i \in Nat /\ num \in Nat /\ itry \in Nat /\ numtry \in Nat
    /\ bails \in 0..MaxBails
    /\ phase = "done" => slots = <<>> /\ stack = <<>>

ResInv == ListInv /\ FreeInv /\ LocalsInv

(* The list starts empty.                                                  *)
LEMMA ResInvInit == Init => ResInv
<1> SUFFICES ASSUME Init PROVE ResInv
  OBVIOUS
<1>1. slots = <<>> /\ stack = <<>> /\ packed = TRUE
  BY DEF Init
<1>2. /\ slots \in Slots /\ stack \in Seq(Frames) /\ Len(stack) = 0
      /\ Used(slots) = {} /\ Len(slots) = 0
  BY <1>1 DEF Slots, Used
<1>3. Entries(slots) = {} /\ Removing(stack) = {}
  BY <1>2 DEF Entries, Removing
<1>4. ListInv
  BY <1>1, <1>2, <1>3, MaxResAssumption, SizesAssumption
     DEF Init, ListInv, Distinct, PackedInv
<1>5. FreeInv
  BY <1>2, <1>3 DEF Init, FreeInv, OneEach
<1>6. LocalsInv
  BY MaxBailsAssumption DEF Init, LocalsInv
<1> QED
  BY <1>4, <1>5, <1>6 DEF ResInv

(* Steps that leave the list and the structures alone.                     *)
LEMMA QuietKeeps ==
    ASSUME ListInv, FreeInv, UNCHANGED <<list, open, held, alloc, leaked, stack>>,
           Referenced' => Referenced
    PROVE  ListInv' /\ FreeInv'
<1>1. UNCHANGED <<slots, packed, tsize, nextfree>>
  BY DEF list
<1>2. ListInv'
  BY <1>1, SMTT(20) DEF ListInv, PackedInv, Distinct, Entries, Used
<1>3. FreeInv'
  BY <1>1 DEF FreeInv, OneEach, Removing, Entries, Used
<1> QED
  BY <1>2, <1>3

(* A destructor that closes the resource only: the structure stays.        *)
LEMMA CloseKeeps ==
    ASSUME ListInv, FreeInv, NEW h \in open, zend_resource_dtor(h, FALSE),
           UNCHANGED <<list, held, alloc, phase, leaked>>
    PROVE  ListInv' /\ FreeInv' /\ stack' # <<>>
<1>1. UNCHANGED <<slots, packed, tsize, nextfree>>
  BY DEF list
<1>2. h \in Handles
  BY DEF ListInv, FreeInv
<1>3. ListInv'
  BY <1>1 DEF ListInv, PackedInv, Distinct, Entries, Used, zend_resource_dtor,
              Referenced
<1>4. /\ stack' \in Seq(Frames) /\ OneEach(stack') /\ stack' # <<>>
      /\ Removing(stack') = Removing(stack)
  BY <1>2, PushFacts DEF FreeInv, zend_resource_dtor
<1>5. FreeInv'
  BY <1>1, <1>4 DEF FreeInv, Entries, Used
<1> QED
  BY <1>3, <1>4, <1>5

(* A resource leaves the list by way of list_entry_destructor.             *)
LEMMA EntryKeeps ==
    ASSUME ListInv, FreeInv, NEW h, h \in Entries(slots) \/ h = Undef,
           slots' = zend_hash_index_del(h), list_entry_destructor(h),
           UNCHANGED <<packed, tsize, nextfree, leaked>>,
           held' \subseteq Handles,
           Referenced' => held' \subseteq Entries(slots) \ {h}
    PROVE  ListInv' /\ FreeInv'
<1>1. /\ slots' \in Slots /\ Distinct(slots')
      /\ Entries(slots') = Entries(slots) \ {h} /\ Len(slots') <= Len(slots)
      /\ \A p \in Used(slots') : p \in Used(slots) /\ slots'[p] = slots[p]
  BY DelFacts DEF ListInv
<1>2. PackedInv'
  <2>1. /\ packed' = packed /\ nextfree' = nextfree /\ nextfree \in Int
        /\ Len(slots) \in Nat /\ Len(slots') \in Nat
    BY <1>1 DEF ListInv, Slots
  <2> QED
    BY <1>1, <2>1 DEF ListInv, PackedInv, Used
<1>3. CASE h \in open
  <2>1. zend_resource_dtor(h, TRUE) /\ alloc' = alloc
    BY <1>3 DEF list_entry_destructor
  <2>2. h \in Handles /\ h \in Entries(slots) /\ h \notin Removing(stack)
    BY <1>3 DEF ListInv, FreeInv
  <2>3. /\ stack' \in Seq(Frames) /\ OneEach(stack')
        /\ Removing(stack') = Removing(stack) \union {h}
    BY <2>1, <2>2, PushFacts DEF FreeInv, zend_resource_dtor
  <2>4. ListInv'
    BY <1>1, <1>2, <2>1 DEF ListInv, zend_resource_dtor
  <2>5. FreeInv'
    BY <1>1, <2>1, <2>2, <2>3 DEF FreeInv
  <2> QED
    BY <2>4, <2>5
<1>4. CASE h \notin open
  <2>1. alloc' = alloc \ {h} /\ UNCHANGED <<open, ran, stack>>
    BY <1>4 DEF list_entry_destructor
  <2>2. ListInv'
    BY <1>1, <1>2, <1>4, <2>1 DEF ListInv
  <2>3. h \notin Removing(stack) /\ h \notin leaked
    <3>1. CASE h = Undef
      <4>1. Undef \notin Handles
        BY UndefAssumption, MaxResAssumption DEF Handles
      <4> QED
        BY <3>1, <4>1 DEF FreeInv
    <3>2. CASE h \in Entries(slots)
      BY <3>2 DEF FreeInv
    <3> QED
      BY <3>1, <3>2
  <2>4. FreeInv'
    BY <1>1, <2>1, <2>3 DEF FreeInv, OneEach, Removing
  <2> QED
    BY <2>2, <2>4
<1> QED
  BY <1>3, <1>4

(* Every step keeps it.                                                    *)
LEMMA ResInvStep == ResInv /\ [Next]_vars => ResInv'
<1> SUFFICES ASSUME ResInv, [Next]_vars PROVE ResInv'
  OBVIOUS
<1>t. ListInv /\ FreeInv /\ LocalsInv /\ Len(slots) \in Nat /\ nNumUsed \in Nat
  BY DEF ResInv, ListInv, Slots, nNumUsed
<1>1. CASE zend_list_insert
  <2> DEFINE h == IF nextfree = 0 THEN 1 ELSE nextfree
  <2>1. /\ h <= MaxRes /\ zend_hash_index_add_new(h) /\ nextfree' = h + 1
        /\ open' = open \union {h} /\ held' = held \union {h}
        /\ alloc' = alloc \union {h}
        /\ UNCHANGED <<stack, phase, locals, bails, leaked>>
        /\ ProgramRuns
    BY <1>1 DEF zend_list_insert
  <2>2. nextfree \in Nat /\ h \in Handles /\ h >= nextfree
    BY <2>1, MaxResAssumption, <1>t DEF ListInv, Handles
  <2>3. /\ h \notin alloc /\ h \notin Entries(slots)
        /\ h \notin Removing(stack) /\ h \notin leaked
    <3>1. h \notin alloc
      BY <2>2, <1>t DEF FreeInv
    <3> QED
      BY <3>1, <1>t DEF FreeInv
  <2> HIDE DEF h
  <2>4. /\ slots' \in Slots /\ Distinct(slots')
        /\ Entries(slots') = Entries(slots) \union {h}
        /\ packed' \in BOOLEAN /\ tsize' \in Nat /\ PackedInv'
    BY <2>1, <2>2, <2>3, <1>t, AddFacts DEF ListInv
  <2>5. nextfree' \in 0..(MaxRes + 1) /\ \A g \in alloc' : g < nextfree'
    <3>1. \A g \in alloc : g \in Int /\ g < nextfree
      BY <1>t, MaxResAssumption DEF FreeInv, Handles
    <3> QED
      BY <2>1, <2>2, <3>1, MaxResAssumption DEF Handles
  <2>6. ListInv'
    BY <1>t, <2>1, <2>2, <2>4, <2>5 DEF ListInv, Referenced
  <2>7. FreeInv'
    BY <1>t, <2>1, <2>2, <2>3, <2>4, <2>5 DEF FreeInv, OneEach, Removing
  <2>8. LocalsInv'
    BY <1>t, <2>1 DEF LocalsInv, locals, ProgramRuns
  <2> QED
    BY <2>6, <2>7, <2>8 DEF ResInv
<1>2. ASSUME NEW h \in Handles, zend_list_free(h) PROVE ResInv'
  <2>1. /\ h \in held /\ held' = held \ {h} /\ slots' = zend_hash_index_del(h)
        /\ list_entry_destructor(h) /\ Referenced
        /\ UNCHANGED <<packed, tsize, nextfree, phase, locals, bails, leaked>>
    BY <1>2 DEF zend_list_free, ProgramRuns, Referenced
  <2>2. h \in Entries(slots) /\ held \subseteq Entries(slots)
    BY <1>t, <2>1 DEF ListInv
  <2>3. held' \subseteq Handles /\ held' \subseteq Entries(slots) \ {h}
    BY <1>t, <2>1, <2>2 DEF ListInv
  <2>4. ListInv' /\ FreeInv'
    BY <1>t, <2>1, <2>2, <2>3, EntryKeeps
  <2>5. LocalsInv'
    BY <1>t, <2>1 DEF LocalsInv, locals, Referenced
  <2> QED
    BY <2>4, <2>5 DEF ResInv
<1>3. ASSUME NEW h \in Handles, zend_list_close(h) PROVE ResInv'
  <2>1. /\ h \in open /\ zend_resource_dtor(h, FALSE) /\ ProgramRuns
        /\ UNCHANGED <<list, held, alloc, phase, locals, bails, leaked>>
    BY <1>3 DEF zend_list_close
  <2>2. ListInv' /\ FreeInv'
    BY <1>t, <2>1, CloseKeeps
  <2>3. LocalsInv'
    BY <1>t, <2>1 DEF LocalsInv, locals, ProgramRuns
  <2> QED
    BY <2>2, <2>3 DEF ResInv
<1>4. CASE Bailout
  <2>1. /\ leaked' = leaked \union Removing(stack) /\ stack' = <<>>
        /\ UNCHANGED <<slots, packed, tsize, nextfree, open, held, alloc>>
        /\ phase' = phase \/ phase' = "exited"
        /\ phase \in {"running", "closing", "inactive"}
        /\ bails' = bails + 1 /\ bails < MaxBails
    BY <1>4, <1>t DEF Bailout, list, Removing, FreeInv
  <2>2. stack' \in Seq(Frames) /\ OneEach(stack') /\ Removing(stack') = {}
    BY <2>1, NoElements DEF OneEach, Removing
  <2>3. ListInv'
    BY <1>t, <2>1 DEF ListInv, PackedInv, Distinct, Entries, Used, Referenced
  <2>4. Entries(slots') = Entries(slots)
    BY <2>1
  <2>5. FreeInv'
    BY <1>t, <2>1, <2>2, <2>4 DEF FreeInv
  <2>6. i' \in Nat /\ num' \in Nat /\ itry' \in Nat /\ numtry' \in Nat
    <3>1. CASE phase = "closing"
      <4>1. PICK l \in {<<i, num>>, <<itry, numtry>>} :
               /\ i' = IF nNumUsed # l[2] THEN nNumUsed ELSE l[1]
               /\ num' = nNumUsed /\ itry' = i' /\ numtry' = num'
        BY <1>4, <3>1 DEF Bailout
      <4>2. l[1] \in Nat
        BY <1>t DEF LocalsInv
      <4> QED
        BY <1>t, <4>1, <4>2
    <3>2. CASE phase # "closing"
      BY <1>4, <1>t, <3>2 DEF Bailout, locals, LocalsInv
    <3> QED
      BY <3>1, <3>2
  <2>7. LocalsInv'
    BY <1>t, <2>1, <2>6, MaxBailsAssumption DEF LocalsInv
  <2> QED
    BY <2>3, <2>5, <2>7 DEF ResInv
<1>5. CASE StartClosing
  <2>1. ListInv' /\ FreeInv'
    BY <1>5, <1>t, QuietKeeps DEF StartClosing, Referenced
  <2>2. LocalsInv'
    BY <1>5, <1>t DEF StartClosing, LocalsInv
  <2> QED
    BY <2>1, <2>2 DEF ResInv
<1>6. CASE CloseStep
  <2>1. /\ phase = "closing" /\ i' = i - 1 /\ i' \in Nat
        /\ UNCHANGED <<list, held, alloc, phase, num, itry, numtry, bails, leaked>>
    BY <1>6, <1>t DEF CloseStep, LocalsInv
  <2>2. LocalsInv'
    BY <1>t, <2>1 DEF LocalsInv
  <2>3. CASE i <= nNumUsed /\ slots[i] \in open
    <3>1. zend_resource_dtor(slots[i], FALSE)
      BY <1>6, <2>3 DEF CloseStep
    <3>2. ListInv' /\ FreeInv'
      BY <1>t, <2>1, <2>3, <3>1, CloseKeeps
    <3> QED
      BY <2>2, <3>2 DEF ResInv
  <2>4. CASE ~(i <= nNumUsed /\ slots[i] \in open)
    <3>1. UNCHANGED <<list, open, held, alloc, leaked, stack>>
      BY <1>6, <2>1, <2>4 DEF CloseStep
    <3>2. ListInv' /\ FreeInv'
      BY <1>t, <2>1, <3>1, QuietKeeps DEF Referenced
    <3> QED
      BY <2>2, <3>2 DEF ResInv
  <2> QED
    BY <2>3, <2>4
<1>7. CASE HandlerReturn
  <2> DEFINE f == stack[Len(stack)]
  <2>1. /\ stack # <<>> /\ alloc' = (IF f.efree THEN alloc \ {f.res} ELSE alloc)
        /\ stack' = SubSeq(stack, 1, Len(stack) - 1)
        /\ UNCHANGED <<slots, packed, tsize, nextfree, open, held, phase, itry,
                       numtry, bails, leaked>>
    BY <1>7 DEF HandlerReturn, list
  <2>2. /\ stack' \in Seq(Frames) /\ OneEach(stack')
        /\ Removing(stack') = IF f.efree THEN Removing(stack) \ {f.res}
                              ELSE Removing(stack)
        /\ f.efree => f.res \in Removing(stack)
    BY <1>t, <2>1, PopFacts DEF FreeInv
  <2>3. Entries(slots') = Entries(slots)
    BY <2>1
  <2>4. FreeInv'
    BY <1>t, <2>1, <2>2, <2>3 DEF FreeInv
  <2>5. ListInv'
    BY <1>t, <2>1 DEF ListInv, PackedInv, Distinct, Entries, Used, Referenced
  <2>6. i' \in Nat /\ num' \in Nat
    BY <1>7, <1>t DEF HandlerReturn, Reloop, LocalsInv
  <2>7. LocalsInv'
    BY <1>t, <2>1, <2>6 DEF LocalsInv
  <2> QED
    BY <2>4, <2>5, <2>7 DEF ResInv
<1>8. CASE CloseDone \/ StartDestroying
  <2>1. ListInv' /\ FreeInv'
    BY <1>8, <1>t, QuietKeeps DEF CloseDone, StartDestroying, Referenced
  <2>2. LocalsInv'
    BY <1>8, <1>t DEF CloseDone, StartDestroying, LocalsInv, locals
  <2> QED
    BY <2>1, <2>2 DEF ResInv
<1>9. CASE DestroyStep
  <2> DEFINE h == slots[nNumUsed]
  <2>1. /\ phase = "destroying" /\ slots # <<>>
        /\ slots' = zend_hash_index_del(h) /\ list_entry_destructor(h)
        /\ UNCHANGED <<packed, tsize, nextfree, held, phase, locals, bails, leaked>>
    BY <1>9 DEF DestroyStep
  <2>2. h \in Entries(slots) \/ h = Undef
    BY <1>t, <2>1 DEF ListInv, Slots, Entries, Used, nNumUsed
  <2>3. held' \subseteq Handles /\ ~Referenced'
    BY <1>t, <2>1 DEF ListInv, Referenced
  <2> HIDE DEF h
  <2>4. ListInv' /\ FreeInv'
    BY <1>t, <2>1, <2>2, <2>3, EntryKeeps
  <2>5. LocalsInv'
    BY <1>t, <2>1 DEF LocalsInv, locals
  <2> QED
    BY <2>4, <2>5 DEF ResInv
<1>10. CASE DestroyDone
  <2>1. ListInv' /\ FreeInv'
    BY <1>10, <1>t, QuietKeeps DEF DestroyDone, Referenced
  <2>2. LocalsInv'
    BY <1>10, <1>t DEF DestroyDone, LocalsInv, locals, list
  <2> QED
    BY <2>1, <2>2 DEF ResInv
<1>11. CASE UNCHANGED vars
  <2>1. ListInv' /\ FreeInv'
    BY <1>11, <1>t, QuietKeeps DEF vars, Referenced
  <2>2. LocalsInv'
    BY <1>11, <1>t DEF vars, LocalsInv, locals, list
  <2> QED
    BY <2>1, <2>2 DEF ResInv
<1> QED
  BY <1>1, <1>2, <1>3, <1>4, <1>5, <1>6, <1>7, <1>8, <1>9, <1>10, <1>11
     DEF Next, Program, Runtime

(* The invariant holds throughout the life of the list.                    *)
LEMMA ResInvariant == Spec => [](OnceInv /\ ResInv)
BY OnceInvInit, OnceInvStep, ResInvInit, ResInvStep, PTL DEF Spec

(* A reference to a resource never dangles: its structure is allocated and *)
(* stands at exactly one position of the list, for any number of resources *)
(* and any table size, through growth, compaction and hashing of the       *)
(* table, whatever destructors open, close and release.                    *)
THEOREM ReferencesLeadToResources == Spec => []NoDangling
<1>1. OnceInv /\ ResInv => NoDangling
  <2> SUFFICES ASSUME OnceInv, ResInv PROVE NoDangling
    OBVIOUS
  <2>1. ListInv /\ FreeInv /\ LocalsInv
    BY DEF ResInv
  <2>2. TypeOK
    BY <2>1 DEF TypeOK, ListInv, FreeInv, LocalsInv, OnceInv, Slots
  <2>3. Entries(slots) \subseteq alloc /\ Used(slots) \subseteq DOMAIN slots
    BY <2>1 DEF FreeInv, Used
  <2>4. ASSUME NEW h \in Entries(slots) PROVE Cardinality(Where(h)) = 1
    <3>1. PICK p \in Used(slots) : slots[p] = h
      BY DEF Entries
    <3>2. h # Undef
      BY <3>1 DEF Used
    <3>3. Where(h) = {p}
      BY <2>1, <3>1, <3>2 DEF Where, Used, ListInv, Distinct
    <3> QED
      BY <3>3, FS_Singleton
  <2>5. \A p \in Used(slots) : slots[p] \in alloc
    BY <2>3 DEF Entries
  <2>6. \A p, q \in Used(slots) : slots[p] = slots[q] => p = q
    BY <2>1 DEF ListInv, Distinct
  <2>7. Referenced => held \subseteq alloc /\ \A h \in held : Cardinality(Where(h)) = 1
    BY <2>1, <2>3, <2>4 DEF ListInv
  <2> QED
    BY <2>2, <2>5, <2>6, <2>7 DEF NoDangling, Referenced
<1> QED
  BY <1>1, ResInvariant, PTL

(* zend_destroy_rsrc_list leaves nothing allocated but the structures      *)
(* whose removal a bailout cut short.                                      *)
THEOREM EveryStructureFreed == Spec => []AllFreed
<1>1. OnceInv /\ ResInv => AllFreed
  <2> SUFFICES ASSUME ResInv, phase = "done" PROVE alloc = leaked
    BY DEF AllFreed
  <2>1. slots = <<>> /\ stack = <<>>
    BY DEF ResInv, LocalsInv
  <2>2. Used(slots) = {} /\ Len(stack) = 0
    BY <2>1 DEF Used
  <2>3. Entries(slots) = {} /\ Removing(stack) = {}
    BY <2>2 DEF Entries, Removing
  <2> QED
    BY <2>3 DEF ResInv, FreeInv
<1> QED
  BY <1>1, ResInvariant, PTL

-----------------------------------------------------------------------------
(* The close loop over a packed table.  The loop has come down to i; a     *)
(* resource is at position h, so one that is open lies below i or was      *)
(* opened since the last look at nNumUsed and lies above num, and then     *)
(* nNumUsed differs from num when the loop looks again.  Both pairs of     *)
(* values a bailout may leave in i and num have to satisfy this.           *)
Pending(j, n) == \A h \in open : h < j \/ h >= n

LoopInv ==
    packed =>
        /\ phase = "closing" =>
             /\ num <= nextfree /\ numtry <= nextfree
             /\ Pending(i, num) /\ Pending(itry, numtry)
             /\ stack = <<>> => \A h \in open : h < i
        /\ phase \in {"inactive", "destroying", "done"} =>
             open = {} /\ stack = <<>>

(* In a packed table an open resource lies below nNumUsed.                 *)
LEMMA OpenPosition ==
    ASSUME ResInv, packed, NEW h \in open
    PROVE  /\ h \in Nat /\ h + 1 \in 1..Len(slots) /\ slots[h + 1] = h
           /\ Len(slots) \in Nat /\ Len(slots) <= nextfree /\ nextfree \in Nat
<1>1. PICK p \in Used(slots) : slots[p] = h
  BY DEF ResInv, ListInv, Entries
<1>2. slots[p] = p - 1 /\ p \in 1..Len(slots) /\ Len(slots) \in Nat
  BY DEF ResInv, ListInv, PackedInv, Slots, Used
<1>3. Len(slots) <= nextfree /\ nextfree \in Nat
  BY MaxResAssumption DEF ResInv, ListInv, PackedInv
<1> QED
  BY <1>1, <1>2, <1>3

(* Every step keeps the loop's invariant.                                  *)
LEMMA LoopInvStep == ResInv /\ LoopInv /\ [Next]_vars => LoopInv'
<1> SUFFICES ASSUME ResInv, LoopInv, [Next]_vars, packed' PROVE LoopInv'
  BY DEF LoopInv
<1>t. /\ i \in Nat /\ num \in Nat /\ itry \in Nat /\ numtry \in Nat
      /\ nextfree \in Nat /\ nNumUsed \in Nat /\ nNumUsed = Len(slots)
      /\ stack \in Seq(Frames) /\ OneEach(stack)
      /\ \A h \in open : h \in Nat
  BY MaxResAssumption DEF ResInv, LocalsInv, ListInv, FreeInv, Slots, nNumUsed, Handles
<1>1. CASE zend_list_insert
  <2> DEFINE h == IF nextfree = 0 THEN 1 ELSE nextfree
  <2>1. /\ zend_hash_index_add_new(h) /\ nextfree' = h + 1 /\ open' = open \union {h}
        /\ UNCHANGED <<stack, phase, i, num, itry, numtry>> /\ ProgramRuns
    BY <1>1 DEF zend_list_insert, locals
  <2>2. packed
    BY <2>1 DEF zend_hash_index_add_new
  <2>3. h \in Nat /\ h >= nextfree /\ nextfree' \in Nat /\ nextfree <= nextfree'
    BY <1>t, <2>1
  <2>4. phase \notin {"inactive", "destroying", "done"}
    BY <2>1, <2>2 DEF LoopInv, ProgramRuns
  <2>5. CASE phase = "closing"
    <3>1. /\ num <= nextfree /\ numtry <= nextfree /\ stack # <<>>
          /\ Pending(i, num) /\ Pending(itry, numtry)
      BY <2>1, <2>2, <2>5 DEF LoopInv, ProgramRuns
    <3>2. num <= nextfree' /\ numtry <= nextfree' /\ h >= num /\ h >= numtry
      BY <1>t, <2>3, <3>1
    <3>3. Pending(i, num)' /\ Pending(itry, numtry)'
      BY <2>1, <3>1, <3>2 DEF Pending
    <3> QED
      BY <2>1, <2>5, <3>1, <3>2, <3>3 DEF LoopInv
  <2>6. CASE phase # "closing"
    BY <2>1, <2>4, <2>6 DEF LoopInv
  <2> QED
    BY <2>5, <2>6
<1>2. ASSUME NEW h, list_entry_destructor(h), open # {},
             UNCHANGED <<packed, nextfree, phase, i, num, itry, numtry>>
      PROVE  LoopInv'
  <2>1. open' \subseteq open /\ (stack' = stack \/ stack' # <<>>)
    <3>1. CASE h \in open
      <4>1. h \in Handles /\ h \notin Removing(stack)
        BY <3>1 DEF ResInv, ListInv, FreeInv
      <4>2. zend_resource_dtor(h, TRUE)
        BY <1>2, <3>1 DEF list_entry_destructor
      <4> QED
        BY <1>t, <4>1, <4>2, PushFacts DEF zend_resource_dtor
    <3>2. CASE h \notin open
      BY <1>2, <3>2 DEF list_entry_destructor
    <3> QED
      BY <3>1, <3>2
  <2>2. phase \notin {"inactive", "destroying", "done"} /\ packed
    BY <1>2 DEF LoopInv
  <2>3. CASE phase = "closing"
    BY <1>2, <2>1, <2>2, <2>3 DEF LoopInv, Pending
  <2>4. CASE phase # "closing"
    BY <1>2, <2>2, <2>4 DEF LoopInv
  <2> QED
    BY <2>3, <2>4
<1>3. ASSUME NEW h, list_entry_destructor(h), open = {},
             UNCHANGED <<packed, nextfree, phase, i, num, itry, numtry>>
      PROVE  LoopInv'
  <2>1. UNCHANGED <<open, stack>>
    BY <1>3 DEF list_entry_destructor
  <2> QED
    BY <1>3, <2>1 DEF LoopInv, Pending
<1>4. ASSUME NEW h \in Handles, zend_list_free(h) PROVE LoopInv'
  BY <1>4, <1>2, <1>3 DEF zend_list_free, locals
<1>5. ASSUME NEW h \in Handles, zend_list_close(h) PROVE LoopInv'
  <2>1. /\ h \in open /\ zend_resource_dtor(h, FALSE)
        /\ UNCHANGED <<packed, nextfree, phase, i, num, itry, numtry>>
    BY <1>5 DEF zend_list_close, list, locals
  <2>2. open' \subseteq open /\ stack' # <<>>
    BY <1>t, <2>1, PushFacts DEF zend_resource_dtor
  <2>3. phase \notin {"inactive", "destroying", "done"} /\ packed
    BY <2>1 DEF LoopInv
  <2> QED
    BY <2>1, <2>2, <2>3 DEF LoopInv, Pending
<1>6. CASE Bailout
  <2>1. /\ UNCHANGED <<packed, nextfree, open, slots>> /\ stack # <<>>
        /\ phase \in {"running", "closing", "inactive"}
    BY <1>6 DEF Bailout, list
  <2>2. CASE phase = "closing"
    <3>1. PICK l \in {<<i, num>>, <<itry, numtry>>} :
             /\ i' = IF nNumUsed # l[2] THEN nNumUsed ELSE l[1]
             /\ num' = nNumUsed /\ itry' = i' /\ numtry' = num'
             /\ phase' = phase
      BY <1>6, <2>2 DEF Bailout
    <3>2. l[1] \in Nat /\ l[2] \in Nat /\ \A h \in open : h < l[1] \/ h >= l[2]
      BY <1>t, <2>1, <2>2 DEF LoopInv, Pending
    <3>3. \A h \in open : h < nNumUsed
      BY <1>t, <2>1, OpenPosition
    <3>4. \A h \in open : h < i'
      BY <1>t, <3>1, <3>2, <3>3
    <3>5. nNumUsed <= nextfree
      BY <1>t, <2>1 DEF ResInv, ListInv, PackedInv
    <3> QED
      BY <2>1, <2>2, <3>1, <3>4, <3>5 DEF LoopInv, Pending
  <2>3. CASE phase # "closing"
    BY <1>6, <2>1, <2>3 DEF Bailout, LoopInv
  <2> QED
    BY <2>2, <2>3
<1>7. CASE StartClosing
  <2>1. /\ UNCHANGED <<packed, nextfree, open, stack>> /\ phase' = "closing"
        /\ i' = nNumUsed /\ num' = nNumUsed /\ itry' = nNumUsed /\ numtry' = nNumUsed
    BY <1>7 DEF StartClosing, list
  <2>2. (\A h \in open : h < nNumUsed) /\ nNumUsed <= nextfree
    BY <1>t, <2>1, OpenPosition DEF ResInv, ListInv, PackedInv
  <2> QED
    BY <2>1, <2>2 DEF LoopInv, Pending
<1>8. CASE CloseStep
  <2>1. /\ phase = "closing" /\ stack = <<>> /\ i > 0 /\ i' = i - 1
        /\ UNCHANGED <<slots, packed, nextfree, phase, num, itry, numtry>>
    BY <1>8 DEF CloseStep, list
  <2>2. /\ num <= nextfree /\ numtry <= nextfree /\ Pending(itry, numtry)
        /\ \A h \in open : h < i
    BY <2>1 DEF LoopInv
  <2>3. open' \subseteq open /\ i - 1 \notin open'
    <3>1. CASE i <= nNumUsed /\ slots[i] \in open
      <4>1. open' = open \ {slots[i]}
        BY <1>8, <3>1 DEF CloseStep, zend_resource_dtor
      <4>2. i - 1 \in open => slots[i] = i - 1
        <5> SUFFICES ASSUME i - 1 \in open PROVE slots[i] = i - 1
          OBVIOUS
        <5>1. slots[(i - 1) + 1] = i - 1
          BY <2>1, OpenPosition
        <5> QED
          BY <5>1, <1>t
      <4> QED
        BY <4>1, <4>2
    <3>2. CASE ~(i <= nNumUsed /\ slots[i] \in open)
      <4>1. open' = open
        BY <1>8, <3>2 DEF CloseStep
      <4>2. ASSUME i - 1 \in open PROVE FALSE
        <5>1. slots[(i - 1) + 1] = i - 1 /\ (i - 1) + 1 \in 1..Len(slots)
          BY <2>1, <4>2, OpenPosition
        <5> QED
          BY <5>1, <1>t, <3>2, <4>2
      <4> QED
        BY <4>1, <4>2
    <3> QED
      BY <3>1, <3>2
  <2>4. \A h \in open' : h < i'
    BY <1>t, <2>1, <2>2, <2>3
  <2>5. Pending(itry, numtry)'
    BY <2>1, <2>2, <2>3 DEF Pending
  <2> QED
    BY <2>1, <2>2, <2>4, <2>5 DEF LoopInv, Pending
<1>9. CASE HandlerReturn
  <2>1. /\ UNCHANGED <<slots, packed, nextfree, open, phase, itry, numtry>>
        /\ stack # <<>> /\ stack' = SubSeq(stack, 1, Len(stack) - 1)
        /\ IF phase = "closing" /\ Len(stack) = 1 THEN Reloop
                                                   ELSE UNCHANGED <<i, num>>
    BY <1>9 DEF HandlerReturn, list
  <2>2. stack' = <<>> <=> Len(stack) = 1
    BY <1>t, <2>1, PopFacts
  <2>3. CASE phase = "closing" /\ Len(stack) = 1
    <3>1. /\ num <= nextfree /\ numtry <= nextfree /\ Pending(itry, numtry)
          /\ \A h \in open : h < i \/ h >= num
      BY <2>1, <2>3 DEF LoopInv, Pending
    <3>2. (\A h \in open : h < nNumUsed) /\ nNumUsed <= nextfree
      BY <1>t, <2>1, OpenPosition DEF ResInv, ListInv, PackedInv
    <3>3. (\A h \in open : h < i') /\ num' <= nextfree
      BY <1>t, <2>1, <2>3, <3>1, <3>2 DEF Reloop
    <3>4. Pending(itry, numtry)'
      BY <2>1, <3>1 DEF Pending
    <3> QED
      BY <2>1, <2>3, <3>1, <3>3, <3>4 DEF LoopInv, Pending
  <2>4. CASE ~(phase = "closing" /\ Len(stack) = 1)
    BY <2>1, <2>2, <2>4 DEF LoopInv, Pending
  <2> QED
    BY <2>3, <2>4
<1>10. CASE CloseDone
  <2>1. /\ phase = "closing" /\ stack = <<>> /\ i = 0 /\ phase' = "inactive"
        /\ UNCHANGED <<packed, open, stack>>
    BY <1>10 DEF CloseDone, list
  <2>2. \A h \in open : h < 0
    BY <2>1 DEF LoopInv
  <2>3. open = {}
    BY <1>t, <2>2
  <2> QED
    BY <2>1, <2>3 DEF LoopInv
<1>11. CASE StartDestroying \/ DestroyDone
  BY <1>11 DEF StartDestroying, DestroyDone, LoopInv, list
<1>12. CASE DestroyStep
  BY <1>12, <1>2, <1>3 DEF DestroyStep, locals
<1>13. CASE UNCHANGED vars
  BY <1>13 DEF vars, list, locals, LoopInv, Pending
<1> QED
  BY <1>1, <1>4, <1>5, <1>6, <1>7, <1>8, <1>9, <1>10, <1>11, <1>12, <1>13
     DEF Next, Program, Runtime

(* "Reloop from the start" is enough while the list is packed: for any     *)
(* number of resources, when zend_close_rsrc_list ends none is open, those *)
(* that destructors opened and those around a bailout included.            *)
THEOREM PackedListIsClosed == Spec => []PackedClosed
<1>1. Init => LoopInv
  BY DEF Init, LoopInv
<1>2. LoopInv => PackedClosed
  BY DEF LoopInv, PackedClosed, ClosedBeforeInactive
<1> QED
  BY <1>1, <1>2, LoopInvStep, ResInvariant, PTL DEF Spec

-----------------------------------------------------------------------------
(* The directives (ZendIni).                                               *)

\* The inductive invariant.
IInv ==
    /\ IniTypeOK /\ TableExact /\ OldValueKept /\ PinnedHolds /\ CacheAgrees
    /\ PhaseFacts

USE DEF Modes, Phases, Outcomes

\* Saved and Restored keep the type of an entry and its owner.
LEMMA EntryFacts ==
    ASSUME NEW e \in IniEntries, NEW stage, NEW mode
    PROVE  /\ Saved(e, stage, mode) \in IniEntries
           /\ Saved(e, stage, mode).owner = e.owner
           /\ Saved(e, stage, mode).value = e.value
           /\ Saved(e, stage, mode).modified
           /\ e.modified => /\ Saved(e, stage, mode).orig = e.orig
                            /\ Saved(e, stage, mode).origModifiable = e.origModifiable
           /\ ~e.modified => /\ Saved(e, stage, mode).orig = e.value
                             /\ Saved(e, stage, mode).origModifiable = e.modifiable
           /\ stage = "activate" /\ mode = "system"
                => Saved(e, stage, mode).modifiable = {"system"}
           /\ stage # "activate" => Saved(e, stage, mode).modifiable = e.modifiable
           /\ Restored(e) \in IniEntries
           /\ Restored(e).owner = e.owner /\ ~Restored(e).modified
           /\ e.modified => /\ Restored(e).value = e.orig
                            /\ Restored(e).modifiable = e.origModifiable
           /\ ~e.modified => Restored(e) = e
BY DEF IniEntries, Saved, Restored

\* A new entry, and the absence of one.
LEMMA NewFacts ==
    /\ NoEntry \in IniEntries /\ NoEntry.owner = None /\ ~NoEntry.modified
    /\ \A m \in Module, n \in Name :
         /\ NewEntry(m, n) \in IniEntries /\ NewEntry(m, n).owner = m
         /\ NewEntry(m, n).value = Default[n]
         /\ NewEntry(m, n).modifiable = Modifiable[n] /\ ~NewEntry(m, n).modified
BY ModuleAssumption, ValueAssumption, ModifiableAssumption DEF IniEntries, NoEntry, NewEntry

\* The initial state.
LEMMA InitIInv == IniInit => IInv
BY NewFacts DEF IniInit, IInv, IniTypeOK, TableExact, OldValueKept, PinnedHolds, CacheAgrees,
                PhaseFacts, Registered, NoEntry

\* Registration.
LEMMA RegisterIInv ==
    ASSUME NEW m \in Module \ {Core}, NEW T \in Tables[m], NEW failing \in SUBSET Handled,
           IInv, zend_register_ini_entries(m, T, failing)
    PROVE  IInv'
<1>0. T \subseteq Name
  BY TablesAssumption
<1>1. /\ ini_phase = "startup" /\ ini_phase' = "startup" /\ UNCHANGED <<table, pin>>
      /\ CallHandlers(T \ Registered, failing)
      /\ \/ /\ T \intersect Registered = {}
            /\ ini' = [n \in Name |-> IF n \in T THEN NewEntry(m, n) ELSE ini[n]]
         \/ ini' = Without(m)
  BY DEF zend_register_ini_entries
<1>2. \A n \in Name : \/ ini'[n] = ini[n]
                      \/ n \in T \ Registered /\ ini'[n] = NewEntry(m, n)
                      \/ ini'[n] = NoEntry /\ ini[n].owner = m
  BY <1>1, <1>0 DEF Without, IInv, IniTypeOK
<1>3. \A n \in table : ini[n].owner = Core
  BY <1>1 DEF IInv, PhaseFacts
<1>4. IniTypeOK'
  <2>1. ini' \in [Name -> IniEntries]
    BY <1>1, <1>2, NewFacts DEF IInv, IniTypeOK, Without
  <2>2. \A n \in Registered' : ini'[n].value # None
    BY <1>2, NewFacts, ValueAssumption DEF IInv, IniTypeOK, Registered
  <2>3. cached' \in [Name -> Value \union {None}] /\ skewed' \subseteq Handled
    BY <1>1, ValueAssumption DEF CallHandlers, IInv, IniTypeOK
  <2> QED BY <1>1, <2>1, <2>2, <2>3 DEF IInv, IniTypeOK
<1>5. TableExact'
  <2>1. table = { n \in Registered : ini[n].modified }
    BY <1>1 DEF IInv, TableExact
  <2>2. \A n \in Name : (n \in Registered /\ ini[n].modified)
                            <=> (n \in Registered' /\ ini'[n].modified)
    BY <1>2, <1>3, <2>1, NewFacts DEF Registered
  <2> QED BY <1>1, <2>1, <2>2 DEF TableExact, Registered
<1>6. OldValueKept'
  BY <1>2, NewFacts DEF IInv, OldValueKept, Registered
<1>7. PinnedHolds' /\ PhaseFacts'
  <2>1. \A n \in Name : pin[n] = None
    BY <1>1 DEF IInv, PhaseFacts
  <2>2. \A n \in table : ini'[n] = ini[n]
    <3> SUFFICES ASSUME NEW n \in table PROVE ini'[n] = ini[n]
      OBVIOUS
    <3>1. ini[n].owner = Core /\ n \in Name /\ Core # None
      BY <1>3, ModuleAssumption DEF IInv, IniTypeOK
    <3>2. n \in Registered
      BY <3>1 DEF Registered
    <3> QED BY <1>2, <3>1, <3>2
  <2>3. \A n \in table : ini'[n].owner = Core
    BY <2>2, <1>3
  <2> QED BY <1>1, <2>1, <2>3 DEF PinnedHolds, PhaseFacts
<1>8. CacheAgrees'
  <2> SUFFICES ASSUME NEW n \in (Registered' \intersect Handled) \ skewed'
               PROVE  cached'[n] = ini'[n].value
    BY DEF CacheAgrees
  <2>1. n \in Name
    BY HandledAssumption
  <2>2. CASE n \in T \ Registered /\ ini'[n] = NewEntry(m, n)
    BY <2>1, <2>2, <1>1, NewFacts DEF CallHandlers
  <2>3. CASE ini'[n] = ini[n]
    <3>1. n \in Registered
      BY <2>3, <2>1 DEF Registered
    <3> QED BY <2>1, <2>3, <3>1, <1>1 DEF CallHandlers, IInv, CacheAgrees
  <2>4. CASE ini'[n] = NoEntry
    BY <2>4, NewFacts DEF Registered
  <2> QED BY <1>2, <2>1, <2>2, <2>3, <2>4
<1> QED BY <1>4, <1>5, <1>6, <1>7, <1>8 DEF IInv

\* The startup of the registry.
LEMMA StartupIInv ==
    ASSUME NEW failing \in SUBSET Handled, IInv, zend_ini_startup(failing)
    PROVE  IInv'
<1> DEFINE C == UNION Tables[Core]
<1>0. C \subseteq Name /\ Core \in Module /\ Core # None
  BY TablesAssumption, ModuleAssumption
<1>1. /\ ini_phase = "down" /\ ini_phase' = "startup" /\ table' = {}
      /\ ini' = [n \in Name |-> IF n \in C THEN NewEntry(Core, n) ELSE NoEntry]
      /\ CallHandlers(C, failing) /\ UNCHANGED pin
  BY DEF zend_ini_startup
<1>2. \A n \in Name : pin[n] = None
  BY <1>1 DEF IInv, PhaseFacts
<1> HIDE DEF C
<1>3. IniTypeOK'
  <2>1. ini' \in [Name -> IniEntries] /\ \A n \in Registered' : ini'[n].value # None
    BY <1>0, <1>1, NewFacts, ValueAssumption DEF Registered
  <2>2. cached' \in [Name -> Value \union {None}] /\ skewed' \subseteq Handled
    BY <1>1, ValueAssumption DEF CallHandlers, IInv, IniTypeOK
  <2> QED BY <1>1, <2>1, <2>2 DEF IInv, IniTypeOK
<1>4. TableExact' /\ OldValueKept'
  BY <1>0, <1>1, NewFacts DEF TableExact, OldValueKept, Registered
<1>5. CacheAgrees'
  BY <1>0, <1>1, NewFacts, HandledAssumption DEF CacheAgrees, CallHandlers, Registered
<1>6. PinnedHolds' /\ PhaseFacts'
  BY <1>1, <1>2 DEF PinnedHolds, PhaseFacts
<1> QED BY <1>3, <1>4, <1>5, <1>6 DEF IInv

\* The part of a change that all callers share.
LEMMA AlterFacts ==
    ASSUME NEW n \in Name, NEW v \in Value, NEW mode \in Modes, NEW stage,
           NEW outcome \in Outcomes,
           IInv, zend_alter_ini_entry(n, v, mode, stage, outcome),
           ini_phase \in {"startup", "request"},
           pin' \in [Name -> Value \union {None}]
    PROVE  IniTypeOK' /\ TableExact' /\ OldValueKept' /\ CacheAgrees'
<1> DEFINE e == ini[n]
           s == Saved(e, stage, mode)
           accepted == n \notin Handled \/ outcome = "ok"
<1>0. e \in IniEntries /\ e.owner # None /\ n \in Registered
  BY DEF IInv, IniTypeOK, zend_alter_ini_entry, Registered
<1>1. /\ table' = (IF e.modified THEN table ELSE table \union {n}) /\ ini_phase' = ini_phase
      /\ ini' = [ini EXCEPT ![n] = [s EXCEPT !.value = IF accepted THEN v ELSE @]]
      /\ cached' = IF n \in Handled /\ accepted THEN [cached EXCEPT ![n] = v] ELSE cached
      /\ skewed' = IF n \in Handled /\ accepted THEN skewed \ {n} ELSE skewed
  BY DEF zend_alter_ini_entry
<1>2. /\ s \in IniEntries /\ s.owner = e.owner /\ s.modified /\ s.value = e.value
      /\ e.modified => s.orig = e.orig /\ s.origModifiable = e.origModifiable
      /\ ~e.modified => s.orig = e.value /\ s.origModifiable = e.modifiable
  BY <1>0, EntryFacts
<1> HIDE DEF s, accepted
<1>3. /\ ini' \in [Name -> IniEntries]
      /\ ini'[n].owner = e.owner /\ ini'[n].modified /\ ini'[n].orig = s.orig
      /\ ini'[n].origModifiable = s.origModifiable
      /\ ini'[n].value = IF accepted THEN v ELSE e.value
      /\ \A k \in Name : k # n => ini'[k] = ini[k]
  BY <1>1, <1>2 DEF IInv, IniTypeOK, IniEntries
<1>4. Registered' = Registered
  BY <1>3 DEF Registered
<1>5. IniTypeOK'
  BY <1>0, <1>1, <1>3, <1>4, ValueAssumption DEF IInv, IniTypeOK, Registered
<1>6. TableExact'
  BY <1>0, <1>1, <1>3, <1>4 DEF IInv, TableExact, Registered
<1>7. OldValueKept'
  <2> SUFFICES ASSUME NEW k \in Registered'
               PROVE  IF ini'[k].modified
                      THEN ini'[k].orig = Default[k] /\ ini'[k].origModifiable = Modifiable[k]
                      ELSE ini'[k].value = Default[k] /\ ini'[k].modifiable = Modifiable[k]
    BY DEF OldValueKept
  <2>1. CASE k = n
    BY <2>1, <1>0, <1>2, <1>3 DEF IInv, OldValueKept
  <2>2. CASE k # n
    BY <2>2, <1>3, <1>4 DEF IInv, OldValueKept, Registered
  <2> QED BY <2>1, <2>2
<1>8. CacheAgrees'
  <2> SUFFICES ASSUME NEW k \in (Registered' \intersect Handled) \ skewed'
               PROVE  cached'[k] = ini'[k].value
    BY DEF CacheAgrees
  <2>1. CASE k = n
    BY <2>1, <1>0, <1>1, <1>3 DEF IInv, IniTypeOK, CacheAgrees
  <2>2. CASE k # n
    BY <2>2, <1>1, <1>3, <1>4 DEF IInv, IniTypeOK, CacheAgrees, Registered
  <2> QED BY <2>1, <2>2
<1> QED BY <1>5, <1>6, <1>7, <1>8

\* A change leaves the owners, and every other directive, alone.
LEMMA AlterOthers ==
    ASSUME NEW n \in Name, NEW v \in Value, NEW mode \in Modes, NEW stage,
           NEW outcome \in Outcomes,
           IInv, zend_alter_ini_entry(n, v, mode, stage, outcome)
    PROVE  /\ \A k \in Name : ini'[k].owner = ini[k].owner /\ (k # n => ini'[k] = ini[k])
           /\ n \in Registered /\ ini'[n].value \in Value
           /\ stage # "activate" => mode \in ini[n].modifiable
           /\ stage = "activate" /\ mode = "system" => ini'[n].modifiable = {"system"}
<1> DEFINE e == ini[n]
           s == Saved(e, stage, mode)
           accepted == n \notin Handled \/ outcome = "ok"
<1>0. e \in IniEntries /\ e.owner # None /\ n \in Registered
  BY DEF IInv, IniTypeOK, zend_alter_ini_entry, Registered
<1>1. /\ ini' = [ini EXCEPT ![n] = [s EXCEPT !.value = IF accepted THEN v ELSE @]]
      /\ mode \in s.modifiable
  BY DEF zend_alter_ini_entry
<1>2. /\ s \in IniEntries /\ s.owner = e.owner /\ s.value = e.value
      /\ stage = "activate" /\ mode = "system" => s.modifiable = {"system"}
      /\ stage # "activate" => s.modifiable = e.modifiable
  BY <1>0, EntryFacts
<1>3. e.value \in Value
  BY <1>0 DEF IInv, IniTypeOK, IniEntries
<1> HIDE DEF s, accepted
<1> QED BY <1>0, <1>1, <1>2, <1>3 DEF IInv, IniTypeOK, IniEntries

\* The program changes a directive.
LEMMA SetIInv ==
    ASSUME NEW n \in Name, NEW v \in Value, NEW outcome \in Outcomes,
           IInv, ini_set(n, v, outcome)
    PROVE  IInv'
<1>1. /\ ini_phase = "request" /\ ini_phase' = ini_phase /\ pin' = pin
      /\ zend_alter_ini_entry(n, v, "user", "runtime", outcome)
  BY DEF ini_set, zend_alter_ini_entry
<1>2. IniTypeOK' /\ TableExact' /\ OldValueKept' /\ CacheAgrees'
  <2>1. pin' \in [Name -> Value \union {None}]
    BY <1>1 DEF IInv, IniTypeOK
  <2> QED BY <1>1, <2>1, AlterFacts
<1>3. /\ \A k \in Name : ini'[k].owner = ini[k].owner /\ (k # n => ini'[k] = ini[k])
      /\ "user" \in ini[n].modifiable
  BY <1>1, AlterOthers
<1>4. PinnedHolds' /\ PhaseFacts'
  BY <1>1, <1>3 DEF IInv, PinnedHolds, PhaseFacts, Registered
<1> QED BY <1>2, <1>4 DEF IInv

\* The program changes the level of error reporting.
LEMMA ReportIInv == ASSUME NEW v \in Value, IInv, error_reporting(v) PROVE IInv'
<1> DEFINE e == ini[Reporting]
           s == IF Reporting \in table THEN e ELSE Saved(e, "runtime", "user")
<1>0. Reporting \in Name /\ Reporting \in Handled
  BY ReportingAssumption, HandledAssumption
<1>1. /\ ini_phase = "request" /\ ini_phase' = ini_phase /\ pin' = pin /\ e.owner # None
      /\ table' = (IF e.modified THEN table ELSE table \union {Reporting})
      /\ ini' = [ini EXCEPT ![Reporting] = [s EXCEPT !.value = v]]
      /\ cached' = [cached EXCEPT ![Reporting] = v] /\ skewed' = skewed \ {Reporting}
  BY DEF error_reporting
<1>2. e \in IniEntries /\ Reporting \in Registered /\ (Reporting \in table <=> e.modified)
  BY <1>0, <1>1 DEF IInv, IniTypeOK, TableExact, Registered
<1>3. /\ s \in IniEntries /\ s.owner = e.owner /\ s.modified /\ s.modifiable = e.modifiable
      /\ e.modified => s.orig = e.orig /\ s.origModifiable = e.origModifiable
      /\ ~e.modified => s.orig = e.value /\ s.origModifiable = e.modifiable
  BY <1>2, EntryFacts
<1> HIDE DEF s
<1>4. /\ ini' \in [Name -> IniEntries]
      /\ ini'[Reporting].owner = e.owner /\ ini'[Reporting].modified /\ ini'[Reporting].value = v
      /\ ini'[Reporting].orig = s.orig /\ ini'[Reporting].origModifiable = s.origModifiable
      /\ ini'[Reporting].modifiable = e.modifiable
      /\ \A k \in Name : k # Reporting => ini'[k] = ini[k]
  BY <1>0, <1>1, <1>3 DEF IInv, IniTypeOK, IniEntries
<1>5. Registered' = Registered
  BY <1>4 DEF Registered
<1>6. IniTypeOK'
  BY <1>0, <1>1, <1>4, <1>5, ValueAssumption DEF IInv, IniTypeOK, Registered
<1>7. TableExact'
  BY <1>0, <1>1, <1>2, <1>4, <1>5 DEF IInv, TableExact, Registered
<1>8. OldValueKept'
  <2> SUFFICES ASSUME NEW k \in Registered'
               PROVE  IF ini'[k].modified
                      THEN ini'[k].orig = Default[k] /\ ini'[k].origModifiable = Modifiable[k]
                      ELSE ini'[k].value = Default[k] /\ ini'[k].modifiable = Modifiable[k]
    BY DEF OldValueKept
  <2>1. CASE k = Reporting
    BY <2>1, <1>2, <1>3, <1>4 DEF IInv, OldValueKept
  <2>2. CASE k # Reporting
    BY <2>2, <1>4, <1>5 DEF IInv, OldValueKept, Registered
  <2> QED BY <2>1, <2>2
<1>9. CacheAgrees'
  BY <1>0, <1>1, <1>4, <1>5 DEF IInv, IniTypeOK, CacheAgrees, Registered
<1>10. PinnedHolds' /\ PhaseFacts'
  BY <1>0, <1>1, <1>4, <1>5 DEF IInv, PinnedHolds, PhaseFacts, Registered
<1> QED BY <1>6, <1>7, <1>8, <1>9, <1>10 DEF IInv

\* The host fixes a directive.
LEMMA HostActivatesIInv ==
    ASSUME NEW n \in Name, NEW v \in Value, NEW outcome \in Outcomes,
           IInv, HostActivates(n, v, outcome)
    PROVE  IInv'
<1>1. /\ ini_phase = "request" /\ ini_phase' = ini_phase
      /\ pin' = [pin EXCEPT ![n] = ini'[n].value]
      /\ zend_alter_ini_entry(n, v, "system", "activate", outcome)
  BY DEF HostActivates, zend_alter_ini_entry
<1>3. /\ \A k \in Name : ini'[k].owner = ini[k].owner /\ (k # n => ini'[k] = ini[k])
      /\ ini'[n].modifiable = {"system"} /\ ini'[n].value \in Value /\ n \in Registered
  BY <1>1, AlterOthers
<1>2. IniTypeOK' /\ TableExact' /\ OldValueKept' /\ CacheAgrees'
  <2>1. pin' \in [Name -> Value \union {None}]
    BY <1>1, <1>3 DEF IInv, IniTypeOK
  <2> QED BY <1>1, <2>1, AlterFacts
<1>4. PinnedHolds' /\ PhaseFacts'
  BY <1>1, <1>3 DEF IInv, IniTypeOK, PinnedHolds, PhaseFacts, Registered
<1> QED BY <1>2, <1>4 DEF IInv

\* The host changes a directive of the core.
LEMMA HostConfiguresIInv ==
    ASSUME NEW n \in Name, NEW v \in Value, NEW outcome \in Outcomes,
           IInv, HostConfigures(n, v, outcome)
    PROVE  IInv'
<1>1. /\ ini_phase = "startup" /\ ini_phase' = ini_phase /\ UNCHANGED pin
      /\ ini[n].owner = Core /\ table' \subseteq table \union {n}
      /\ zend_alter_ini_entry(n, v, "system", "startup", outcome)
  BY DEF HostConfigures, zend_alter_ini_entry
<1>2. IniTypeOK' /\ TableExact' /\ OldValueKept' /\ CacheAgrees'
  <2>1. pin' \in [Name -> Value \union {None}]
    BY <1>1 DEF IInv, IniTypeOK
  <2> QED BY <1>1, <2>1, AlterFacts
<1>3. \A k \in Name : ini'[k].owner = ini[k].owner
  BY <1>1, AlterOthers
<1>4. PinnedHolds' /\ PhaseFacts'
  BY <1>1, <1>3 DEF IInv, IniTypeOK, PinnedHolds, PhaseFacts, Registered
<1> QED BY <1>2, <1>4 DEF IInv

\* ini_restore.
LEMMA RestoreIInv ==
    ASSUME NEW n \in Name, NEW outcome \in Outcomes,
           IInv, zend_restore_ini_entry(n, outcome)
    PROVE  IInv'
<1>1. /\ ini_phase = "request" /\ ini_phase' = ini_phase /\ pin' = pin
      /\ n \in Registered /\ "user" \in ini[n].modifiable /\ ini[n] \in IniEntries
     
  BY DEF IInv, IniTypeOK, zend_restore_ini_entry, Registered
<1>2. CASE UNCHANGED <<ini, table, cached, skewed>>
  BY <1>1, <1>2 DEF IInv, IniTypeOK, TableExact, OldValueKept, PinnedHolds, CacheAgrees,
                    PhaseFacts, Registered
<1>3. CASE /\ ini[n].modified /\ n \in Handled /\ skewed' = skewed \ {n}
           /\ ini' = [ini EXCEPT ![n] = Restored(@)] /\ table' = table \ {n}
           /\ cached' = [cached EXCEPT ![n] = ini[n].orig]
  <2>1. /\ Restored(ini[n]) \in IniEntries /\ Restored(ini[n]).owner = ini[n].owner
        /\ ~Restored(ini[n]).modified /\ Restored(ini[n]).value = ini[n].orig
        /\ Restored(ini[n]).modifiable = ini[n].origModifiable
    BY <1>1, <1>3, EntryFacts
  <2>2. ini[n].orig = Default[n] /\ ini[n].origModifiable = Modifiable[n] /\ Default[n] \in Value
    BY <1>1, <1>3, ValueAssumption DEF IInv, OldValueKept
  <2>3. /\ ini' \in [Name -> IniEntries] /\ Registered' = Registered
        /\ ini'[n].value = Default[n] /\ ini'[n].modifiable = Modifiable[n]
        /\ ~ini'[n].modified /\ cached'[n] = Default[n]
        /\ \A k \in Name : k # n => ini'[k] = ini[k] /\ cached'[k] = cached[k]
    BY <1>3, <2>1, <2>2 DEF IInv, IniTypeOK, Registered
  <2>4. IniTypeOK'
    BY <1>1, <1>3, <2>2, <2>3, ValueAssumption DEF IInv, IniTypeOK, Registered
  <2>5. TableExact'
    BY <1>1, <1>3, <2>3 DEF IInv, TableExact, Registered
  <2>6. OldValueKept' /\ CacheAgrees'
    BY <1>3, <2>3 DEF IInv, OldValueKept, CacheAgrees, Registered
  <2>7. PinnedHolds' /\ PhaseFacts'
    BY <1>1, <2>3 DEF IInv, PinnedHolds, PhaseFacts, Registered
  <2> QED BY <2>4, <2>5, <2>6, <2>7 DEF IInv
<1> QED BY <1>2, <1>3 DEF zend_restore_ini_entry

\* The end of a request.
LEMMA DeactivateIInv ==
    ASSUME NEW failing \in SUBSET Handled, IInv, zend_ini_deactivate(failing)
    PROVE  IInv'
<1>1. /\ ini_phase = "request" /\ ini_phase' = "idle" /\ table' = {}
      /\ ini' = [n \in Name |-> IF n \in table THEN Restored(ini[n]) ELSE ini[n]]
      /\ cached' = [n \in Name |-> IF n \in (table \intersect Handled) \ failing
                                   THEN ini[n].orig ELSE cached[n]]
      /\ skewed' = (skewed \ table) \union (table \intersect Handled \intersect failing)
      /\ pin' = [n \in Name |-> None]
  BY DEF zend_ini_deactivate
<1>2. table = { n \in Registered : ini[n].modified }
  BY <1>1 DEF IInv, TableExact
<1>3. \A n \in Name : /\ ini[n] \in IniEntries /\ ini'[n] \in IniEntries
                      /\ ini'[n].owner = ini[n].owner
                      /\ n \in Registered => ~ini'[n].modified
                      /\ n \in table => ini'[n].value = ini[n].orig
                                        /\ ini'[n].modifiable = ini[n].origModifiable
                      /\ n \notin table => ini'[n] = ini[n]
  BY <1>1, <1>2, EntryFacts DEF IInv, IniTypeOK
<1>4. Registered' = Registered
  BY <1>3 DEF Registered
<1>5. \A n \in Registered : ini'[n].value = Default[n] /\ ini'[n].modifiable = Modifiable[n]
  BY <1>2, <1>3 DEF IInv, OldValueKept, Registered
<1>6. IniTypeOK'
  <2>1. ini' \in [Name -> IniEntries] /\ \A n \in Registered' : ini'[n].value # None
    BY <1>1, <1>3, <1>4, <1>5, ValueAssumption DEF Registered
  <2>2. cached' \in [Name -> Value \union {None}]
    BY <1>1, <1>3 DEF IInv, IniTypeOK, IniEntries
  <2> QED BY <1>1, <2>1, <2>2 DEF IInv, IniTypeOK
<1>7. TableExact' /\ OldValueKept'
  BY <1>1, <1>3, <1>4, <1>5 DEF TableExact, OldValueKept, Registered
<1>8. CacheAgrees'
  <2> SUFFICES ASSUME NEW n \in (Registered' \intersect Handled) \ skewed'
               PROVE  cached'[n] = ini'[n].value
    BY DEF CacheAgrees
  <2>1. CASE n \in table
    BY <2>1, <1>1, <1>3, HandledAssumption
  <2>2. CASE n \notin table
    BY <2>2, <1>1, <1>3, <1>4, HandledAssumption DEF IInv, CacheAgrees
  <2> QED BY <2>1, <2>2
<1>9. PinnedHolds' /\ PhaseFacts'
  BY <1>1 DEF PinnedHolds, PhaseFacts
<1> QED BY <1>6, <1>7, <1>8, <1>9 DEF IInv

\* Modules and the registry go down.
LEMMA DownIInv ==
    ASSUME IInv, \/ \E m \in Module \ {Core} : zend_unregister_ini_entries(m)
                 \/ zend_ini_shutdown
    PROVE  IInv'
<1>1. /\ ini_phase # "request" /\ ini_phase' \in {"shutdown", "down"}
      /\ UNCHANGED <<table, cached, skewed, pin>>
      /\ ini' \in [Name -> IniEntries] /\ \A n \in Name : ini'[n] \in {ini[n], NoEntry}
  BY NewFacts DEF zend_unregister_ini_entries, zend_ini_shutdown, Without, IInv, IniTypeOK
<1>4. \A n \in table : n \in Name /\ (ini_phase # "down" => ini[n].owner = Core)
  BY <1>1 DEF IInv, IniTypeOK, PhaseFacts
<1>5. ini_phase' = "shutdown" => ini_phase # "down" /\ \A n \in table : ini'[n] = ini[n]
  BY <1>4 DEF zend_unregister_ini_entries, zend_ini_shutdown, Without
<1>2. \A n \in Registered' : n \in Registered /\ ini'[n] = ini[n]
  BY <1>1, NewFacts DEF Registered
<1>3. \A n \in Name : pin[n] = None
  BY <1>1 DEF IInv, PhaseFacts
<1>6. TableExact'
  <2> SUFFICES ASSUME ini_phase' = "shutdown" PROVE table' = { n \in Registered' : ini'[n].modified }
    BY <1>1 DEF TableExact
  <2>1. table = { n \in Registered : ini[n].modified }
    BY <1>5 DEF IInv, TableExact
  <2> QED
    BY <1>1, <1>2, <1>5, <2>1 DEF Registered
<1>7. IniTypeOK' /\ OldValueKept' /\ PinnedHolds' /\ CacheAgrees'
  BY <1>1, <1>2, <1>3 DEF IInv, IniTypeOK, OldValueKept, PinnedHolds, CacheAgrees
<1>8. PhaseFacts'
  BY <1>1, <1>3, <1>4, <1>5 DEF PhaseFacts
<1> QED BY <1>6, <1>7, <1>8 DEF IInv

\* Every step keeps the invariant.
LEMMA NextIInv == IInv /\ [IniNext]_iniVars => IInv'
<1> SUFFICES ASSUME IInv, [IniNext]_iniVars PROVE IInv'
  OBVIOUS
<1>1. CASE UNCHANGED iniVars
  BY <1>1 DEF iniVars, IInv, IniTypeOK, TableExact, OldValueKept, PinnedHolds, CacheAgrees,
              PhaseFacts, Registered
<1>2. CASE php_nano_activate_core
  BY <1>2 DEF php_nano_activate_core, IInv, IniTypeOK, TableExact, OldValueKept, PinnedHolds,
              CacheAgrees, PhaseFacts, Registered
<1> QED BY <1>1, <1>2, RegisterIInv, StartupIInv, SetIInv, ReportIInv, HostActivatesIInv,
           HostConfiguresIInv, RestoreIInv, DeactivateIInv, DownIInv DEF IniNext

\* The types of zend_ini_entry and of the executor's tables hold in every
\* state.
THEOREM TypeCorrect == IniSpec => []IniTypeOK
<1>1. IInv => IniTypeOK
  BY DEF IInv
<1> QED BY <1>1, InitIInv, NextIInv, PTL DEF IniSpec

\* zend_ini_deactivate and zend_restore_ini_entry walk live entries only, and
\* no modified entry escapes them.
THEOREM TableIsExact == IniSpec => []TableExact
<1>1. IInv => TableExact
  BY DEF IInv
<1> QED BY <1>1, InitIInv, NextIInv, PTL DEF IniSpec

\* No change of a directive outlives its request, whatever its handlers do.
THEOREM RequestsAreIsolated == IniSpec => []RequestIsolated
<1>1. IInv => RequestIsolated
  BY DEF IInv, TableExact, OldValueKept, PhaseFacts, RequestIsolated
<1> QED BY <1>1, InitIInv, NextIInv, PTL DEF IniSpec

\* The program cannot undo what the host fixed for the request, but for
\* error_reporting().
THEOREM PinsHold == IniSpec => []PinnedHolds
<1>1. IInv => PinnedHolds
  BY DEF IInv
<1> QED BY <1>1, InitIInv, NextIInv, PTL DEF IniSpec

\* The registry and the modules' copies agree as long as handlers do not
\* refuse a stored value.
THEOREM CachesAgree == IniSpec => []CacheAgrees
<1>1. IInv => CacheAgrees
  BY DEF IInv
<1> QED BY <1>1, InitIInv, NextIInv, PTL DEF IniSpec

\* Outside registration and shutdown no directive changes hands.
LEMMA OwnersKept ==
    ASSUME IInv, NEW n \in Name, NEW outcome \in Outcomes,
           \/ zend_restore_ini_entry(n, outcome)
           \/ \E v \in Value : \/ ini_set(n, v, outcome) \/ HostActivates(n, v, outcome)
                               \/ HostConfigures(n, v, outcome)
    PROVE  ini_phase' = ini_phase /\ \A k \in Name : ini'[k].owner = ini[k].owner
<1>1. CASE zend_restore_ini_entry(n, outcome)
  <2>1. Restored(ini[n]).owner = ini[n].owner
    BY EntryFacts DEF IInv, IniTypeOK
  <2> QED BY <1>1, <2>1 DEF zend_restore_ini_entry, IInv, IniTypeOK
<1>2. ASSUME NEW v \in Value, NEW mode \in Modes, NEW stage,
             zend_alter_ini_entry(n, v, mode, stage, outcome)
      PROVE  ini_phase' = ini_phase /\ \A k \in Name : ini'[k].owner = ini[k].owner
  <2>1. ini_phase' = ini_phase
    BY <1>2 DEF zend_alter_ini_entry
  <2>2. \A k \in Name : ini'[k].owner = ini[k].owner
    BY <1>2, AlterOthers
  <2> QED BY <2>1, <2>2
<1> QED BY <1>1, <1>2 DEF ini_set, HostActivates, HostConfigures, Modes

\* A registration adds a whole table or takes back all of its module's, and
\* never touches the entries of another module: a name that is taken makes it
\* fail before it is reached.
LEMMA RegisterAllOrNone ==
    ASSUME NEW m \in Module \ {Core}, NEW T \in Tables[m], NEW failing \in SUBSET Handled,
           IInv, AllOrNone, zend_register_ini_entries(m, T, failing)
    PROVE  AllOrNone'
<1>0. T \subseteq Name /\ m # None
  BY TablesAssumption, ModuleAssumption
<1>1. ini_phase = "startup" /\ ini \in [Name -> IniEntries]
  BY DEF zend_register_ini_entries, IInv, IniTypeOK
<1> SUFFICES ASSUME NEW w \in Module, NEW U \in Tables[w], NEW n \in Name, NEW k \in Name,
                    n \in U, k \in U, ini'[n].owner = w
             PROVE  ini'[k].owner = w
  BY DEF AllOrNone
<1>2. ini[n].owner = w => ini[k].owner = w
  BY <1>1 DEF AllOrNone
<1>3. w # None
  BY ModuleAssumption
<1>4. CASE /\ T \intersect Registered = {}
           /\ ini' = [x \in Name |-> IF x \in T THEN NewEntry(m, x) ELSE ini[x]]
  <2>1. \A x \in T : ini[x].owner = None /\ ini'[x].owner = m
    BY <1>0, <1>4, NewFacts DEF Registered
  <2>2. \A x \in Name \ T : ini'[x] = ini[x]
    BY <1>4
  <2>3. CASE n \in T
    <3>1. w = m
      BY <2>1, <2>3
    <3>2. U = T
      BY <2>3, <3>1, DisjointAssumption
    <3> QED BY <2>1, <3>1, <3>2
  <2>4. CASE n \notin T
    <3>1. ini[k].owner = w
      BY <1>2, <2>2, <2>4
    <3>2. k \notin T
      BY <1>3, <2>1, <3>1
    <3> QED BY <2>2, <3>1, <3>2
  <2> QED BY <2>3, <2>4
<1>5. CASE ini' = Without(m)
  <2>1. \A x \in Name : ini'[x] = IF ini[x].owner = m THEN NoEntry ELSE ini[x]
    BY <1>5 DEF Without
  <2>2. w # m /\ ini[n].owner = w
    BY <1>3, <2>1, NewFacts
  <2> QED BY <1>2, <2>1, <2>2
<1> QED BY <1>4, <1>5 DEF zend_register_ini_entries

\* A module's directives are all there or none is, as long as they are used.
THEOREM RegistrationIsAllOrNone == IniSpec => []AllOrNone
<1>1. IniInit => AllOrNone
  BY DEF IniInit, AllOrNone
<1>2. IInv /\ AllOrNone /\ [IniNext]_iniVars => AllOrNone'
  <2> SUFFICES ASSUME IInv, AllOrNone, [IniNext]_iniVars PROVE AllOrNone'
    OBVIOUS
  <2>1. ASSUME ini_phase' = ini_phase \/ ini_phase \in {"startup", "request", "idle"},
               \A k \in Name : ini'[k].owner = ini[k].owner
        PROVE  AllOrNone'
    BY <2>1 DEF AllOrNone
  <2>2. ASSUME NEW failing \in SUBSET Handled, zend_ini_startup(failing)
        PROVE  AllOrNone'
    <3> DEFINE C == UNION Tables[Core]
    <3>1. ini' = [n \in Name |-> IF n \in C THEN NewEntry(Core, n) ELSE NoEntry]
      BY <2>2 DEF zend_ini_startup
    <3>2. C \subseteq Name /\ Core \in Module
      BY TablesAssumption, ModuleAssumption
    <3>3. \A n \in Name : ini'[n].owner = IF n \in C THEN Core ELSE None
      <4> HIDE DEF C
      <4> QED BY <3>1, <3>2, NewFacts
    <3> SUFFICES ASSUME NEW m \in Module, NEW T \in Tables[m], NEW n \in Name,
                        NEW k \in Name, n \in T, k \in T, ini'[n].owner = m
                 PROVE  ini'[k].owner = m
      BY DEF AllOrNone
    <3>4. m = Core /\ k \in C
      BY <3>3, ModuleAssumption
    <3> QED BY <3>3, <3>4
  <2>3. ASSUME NEW failing \in SUBSET Handled, zend_ini_deactivate(failing)
        PROVE  AllOrNone'
    <3>1. \A n \in Name : ini'[n].owner = ini[n].owner
      BY <2>3, EntryFacts DEF zend_ini_deactivate, IInv, IniTypeOK
    <3> QED BY <2>1, <2>3, <3>1 DEF zend_ini_deactivate
  <2>4. ASSUME NEW m \in Module \ {Core}, zend_unregister_ini_entries(m) PROVE AllOrNone'
    BY <2>4 DEF zend_unregister_ini_entries, AllOrNone
  <2>5. CASE zend_ini_shutdown
    BY <2>5 DEF zend_ini_shutdown, AllOrNone
  <2>6. CASE php_nano_activate_core
    BY <2>6 DEF php_nano_activate_core, AllOrNone
  <2>7. CASE UNCHANGED iniVars
    BY <2>7 DEF iniVars, AllOrNone
  <2>8. ASSUME NEW n \in Name, NEW outcome \in Outcomes,
               \/ zend_restore_ini_entry(n, outcome)
               \/ \E v \in Value : \/ ini_set(n, v, outcome) \/ HostActivates(n, v, outcome)
                                   \/ HostConfigures(n, v, outcome)
        PROVE  AllOrNone'
    BY <2>1, <2>8, OwnersKept
  <2>9. ASSUME NEW v \in Value, error_reporting(v) PROVE AllOrNone'
    <3> DEFINE e == ini[Reporting]
               s == IF Reporting \in table THEN e ELSE Saved(e, "runtime", "user")
    <3>1. e \in IniEntries
      BY ReportingAssumption, HandledAssumption DEF IInv, IniTypeOK
    <3>2. s \in IniEntries /\ s.owner = e.owner
      BY <3>1, EntryFacts
    <3> HIDE DEF s
    <3>3. [s EXCEPT !.value = v].owner = e.owner
      BY <3>1, <3>2 DEF IniEntries
    <3>4. ini_phase' = ini_phase /\ ini' = [ini EXCEPT ![Reporting] = [s EXCEPT !.value = v]]
      BY <2>9 DEF error_reporting, s
    <3>5. \A k \in Name : ini'[k].owner = ini[k].owner
      BY <3>3, <3>4 DEF IInv, IniTypeOK
    <3> QED BY <2>1, <3>4, <3>5
  <2> QED
    BY <2>2, <2>3, <2>4, <2>5, <2>6, <2>7, <2>8, <2>9, RegisterAllOrNone DEF IniNext
<1>3. IInv /\ [IniNext]_iniVars => IInv'
  BY NextIInv
<1> QED BY <1>1, <1>2, <1>3, InitIInv, PTL DEF IniSpec
===============================================================================
