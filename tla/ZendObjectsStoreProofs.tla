------------------------ MODULE ZendObjectsStoreProofs ------------------------
(***************************************************************************)
(* Proofs about the object store.  The inductive invariant StoreInv /\     *)
(* ObjectsInv says where references may lead, what the calls in progress   *)
(* hold, and how far the shutdown loops have come.  Its middle parts take  *)
(* the counts, the calls, the variables and the properties as parameters:  *)
(* zend_object_release passes through a state in which a reference is gone *)
(* and the object is not yet deleted, and the same parts describe it.      *)
(***************************************************************************)
EXTENDS ZendObjectsStore, SequenceFacts

-----------------------------------------------------------------------------
(* The inductive invariant.                                                *)

(* The buckets: their types, the two directions of the handle relation.    *)
TableInv ==
    /\ bkind \in [Handles -> {"unused", "valid", "invalid", "free"}]
    /\ bobj \in [Handles -> Obj \union {Null}]
    /\ bnext \in [Handles -> Handles \union {-1}]
    /\ top \in 1..MaxTop /\ size \in Nat /\ top <= size
    /\ free_list_head \in Handles \union {-1}
    /\ live \subseteq Obj /\ IsFiniteSet(live)
    /\ handle \in [Obj -> Handles \union {0}]
    /\ \A o \in live : /\ handle[o] \in Handles /\ bobj[handle[o]] = o
                       /\ bkind[handle[o]] \in {"valid", "invalid"}
    /\ \A h \in Handles :
          /\ bkind[h] \in {"valid", "invalid"} => bobj[h] \in live /\ handle[bobj[h]] = h
          /\ bkind[h] = "unused" <=> h >= top

(* The free list: the rank of a bucket is its distance from the end.       *)
Ranks(rank) ==
    /\ rank \in [Free -> 1..Cardinality(Free)]
    /\ \A h, g \in Free : h # g => rank[h] # rank[g]
    /\ \A h \in Free : bnext[h] # -1 => rank[h] = rank[bnext[h]] + 1
    /\ \A h \in Free : bnext[h] = -1 => rank[h] = 1
    /\ free_list_head # -1 => rank[free_list_head] = Cardinality(Free)
ListInv ==
    /\ free_list_head \in Free \union {-1}
    /\ free_list_head = -1 => Free = {}
    /\ \A h \in Free : bnext[h] \in Free \union {-1}
    /\ \A h \in Free : h = free_list_head \/ \E g \in Free : bnext[g] = h
    /\ \E rank \in [Free -> 1..Cardinality(Free)] : Ranks(rank)

StoreInv == TableInv /\ ListInv

(* The other variables.                                                    *)
PhaseInv ==
    /\ no_reuse \in BOOLEAN /\ active \in BOOLEAN /\ fast \in BOOLEAN
    /\ bailed \in BOOLEAN /\ i \in Nat
    /\ freed \subseteq Obj
    /\ phase \in {"running", "symbols", "destructors", "resources", "values",
                  "storage", "done"}
    /\ active <=> phase \in {"running", "symbols", "destructors", "resources"}
    /\ fast => ~active
    /\ bailed => phase \notin {"running", "symbols", "destructors"}

(* Objects whose contents are gone.                                        *)
FreedInv ==
    /\ \A o \in live : bkind[handle[o]] = "invalid" => o \in freed
    /\ phase \notin {"storage", "done"} =>
          \A o \in live : o \in freed => bkind[handle[o]] = "invalid"

(* The destructor flag.                                                    *)
FlagInv(ds, rn) ==
    /\ ds \subseteq Obj /\ rn \in [Obj -> Nat]
    /\ active => live \intersect freed \subseteq ds
    /\ \A o \in Obj : rn[o] <= 1 /\ (o \notin ds => rn[o] = 0)

(* The calls in progress: each works on an object of its own.              *)
FrameInv(st, ds) ==
    /\ st \in Seq(Frames)
    /\ \A k \in DOMAIN st :
          /\ st[k].obj \in live
          /\ st[k].fn \in {"del", "loop"} =>
                active /\ st[k].obj \in ds /\ st[k].obj \notin freed
          /\ st[k].fn = "free" => bkind[handle[st[k].obj]] = "invalid"
          /\ st[k].fn = "storage" => phase = "storage" /\ Pinned(st[k].obj)
    /\ \A j, k \in DOMAIN st : j # k => st[j].obj # st[k].obj

(* The references, as Refs counts them.                                    *)
Running(st, o, fns) == { k \in DOMAIN st : st[k].obj = o /\ st[k].fn \in fns }
Pointing(pr, lv, o) == { x \in lv : pr[x] = o }
Owed(o, st, hl, pr, lv) ==
    hl[o] + Cardinality(Pointing(pr, lv, o))
    + 2 * Cardinality(Running(st, o, {"del", "loop"}))
    + Cardinality(Running(st, o, {"free"}))
Pin(o) == IF Pinned(o) THEN 1 ELSE 0
Exact == ~bailed /\ (fast => phase \notin {"storage", "done"})

CountInv(rc, st, hl, pr) ==
    \A o \in live : /\ rc[o] >= Owed(o, st, hl, pr, live) + Pin(o)
                    /\ Exact => rc[o] = Owed(o, st, hl, pr, live) + Pin(o)
RefInv(rc, st, hl, pr) ==
    /\ rc \in [Obj -> Nat] /\ hl \in [Obj -> 0..MaxHeld]
    /\ pr \in [Obj -> Obj \union {Null}]
    /\ \A o \in Obj : hl[o] > 0 => o \in live /\ bkind[handle[o]] = "valid"
    /\ \A x \in live : pr[x] # Null =>
          pr[x] \in live /\ bkind[handle[pr[x]]] = "valid"
    /\ CountInv(rc, st, hl, pr)

(* The loops of the shutdown: what lies behind the loop variable.          *)
ShutdownInv(st, ds) ==
    /\ phase = "destructors" =>
          /\ i \in 1..top /\ no_reuse
          /\ \A h \in Handles : h < i /\ bkind[h] = "valid" => bobj[h] \in ds
    /\ phase = "storage" =>
          /\ i \in 0..(top - 1)
          /\ \A h \in Handles : h > i /\ bkind[h] = "valid" => bobj[h] \in freed
    /\ phase = "done" =>
          /\ st = <<>>
          /\ \A h \in Handles : bkind[h] = "valid" => bobj[h] \in freed

(* All but the table, at counts rc, calls st, variables hl, properties pr, *)
(* destructor flags ds and history rn.                                     *)
At(rc, st, hl, pr, ds, rn) ==
    /\ PhaseInv /\ FreedInv /\ FlagInv(ds, rn) /\ FrameInv(st, ds)
    /\ RefInv(rc, st, hl, pr) /\ ShutdownInv(st, ds)
ObjectsInv == At(refcount, stack, held, prop, destructed, ran)
-----------------------------------------------------------------------------
(* Counting references.                                                    *)

(* A call that starts or returns changes the number of calls on its object *)
(* by one, and on no other object.                                         *)
LEMMA RunningFinite ==
    ASSUME NEW st \in Seq(Frames), NEW o, NEW fns
    PROVE  /\ IsFiniteSet(Running(st, o, fns))
           /\ Cardinality(Running(st, o, fns)) \in Nat
           /\ Cardinality(Running(st, o, fns)) = 0 <=> Running(st, o, fns) = {}
<1>1. IsFiniteSet(1..Len(st)) /\ DOMAIN st = 1..Len(st)
  BY IntervalSize
<1>2. Running(st, o, fns) \in SUBSET (1..Len(st))
  BY <1>1 DEF Running
<1>3. IsFiniteSet(Running(st, o, fns))
  BY <1>1, <1>2, FS_Subset
<1> QED BY <1>3, FS_CardinalityType, FS_EmptySet

(* A new call is one more call for its object and none for another.        *)
LEMMA RunningAppend ==
    ASSUME NEW st \in Seq(Frames), NEW f \in Frames, NEW o, NEW fns
    PROVE  Cardinality(Running(Append(st, f), o, fns)) =
             IF f.obj = o /\ f.fn \in fns
             THEN Cardinality(Running(st, o, fns)) + 1
             ELSE Cardinality(Running(st, o, fns))
<1> DEFINE n == Len(st) + 1
           R == Running(st, o, fns)
           A == Running(Append(st, f), o, fns)
<1>1. /\ DOMAIN st = 1..Len(st) /\ DOMAIN Append(st, f) = 1..n
      /\ Len(st) \in Nat
      /\ \A k \in 1..Len(st) : Append(st, f)[k] = st[k]
      /\ Append(st, f)[n] = f
  BY AppendFacts
<1>2. 1..n = (1..Len(st)) \union {n} /\ n \notin 1..Len(st)
  BY <1>1
<1>3. n \notin R
  BY <1>1, <1>2 DEF Running
<1>4. IsFiniteSet(R)
  BY RunningFinite
<1>5. CASE f.obj = o /\ f.fn \in fns
  <2>1. A = R \union {n}
    BY <1>1, <1>2, <1>5 DEF Running
  <2>2. Cardinality(R \union {n}) = Cardinality(R) + 1
    BY <1>3, <1>4, FS_AddElement
  <2> QED BY <2>1, <2>2, <1>5
<1>6. CASE ~ (f.obj = o /\ f.fn \in fns)
  <2>1. A = R
    BY <1>1, <1>2, <1>6 DEF Running
  <2> QED BY <2>1, <1>6
<1> QED BY <1>5, <1>6

(* The innermost call returns: one call less for its object.               *)
LEMMA RunningPop ==
    ASSUME NEW st \in Seq(Frames), st # <<>>, NEW o, NEW fns
    PROVE  Cardinality(Running(st, o, fns)) =
             IF st[Len(st)].obj = o /\ st[Len(st)].fn \in fns
             THEN Cardinality(Running(SubSeq(st, 1, Len(st) - 1), o, fns)) + 1
             ELSE Cardinality(Running(SubSeq(st, 1, Len(st) - 1), o, fns))
<1> DEFINE n == Len(st)
           p == SubSeq(st, 1, Len(st) - 1)
           R == Running(p, o, fns)
           A == Running(st, o, fns)
<1>1. /\ DOMAIN st = 1..n /\ DOMAIN p = 1..(n - 1) /\ n \in Nat \ {0}
      /\ p \in Seq(Frames)
      /\ \A k \in 1..(n - 1) : p[k] = st[k]
  BY FrontFacts
<1>2. 1..n = (1..(n - 1)) \union {n} /\ n \notin 1..(n - 1)
  BY <1>1
<1>3. n \notin R
  BY <1>1, <1>2 DEF Running
<1>4. IsFiniteSet(R)
  BY <1>1, RunningFinite
<1>5. CASE st[n].obj = o /\ st[n].fn \in fns
  <2>1. A = R \union {n}
    BY <1>1, <1>2, <1>5 DEF Running
  <2>2. Cardinality(R \union {n}) = Cardinality(R) + 1
    BY <1>3, <1>4, FS_AddElement
  <2> QED BY <2>1, <2>2, <1>5
<1>6. CASE ~ (st[n].obj = o /\ st[n].fn \in fns)
  <2>1. A = R
    BY <1>1, <1>2, <1>6 DEF Running
  <2> QED BY <2>1, <1>6
<1> QED BY <1>5, <1>6

(* A property that is set, or cleared, changes the number of properties    *)
(* that refer to its object by one.                                        *)
LEMMA PointingFinite ==
    ASSUME NEW pr, NEW lv, IsFiniteSet(lv), NEW o
    PROVE  /\ IsFiniteSet(Pointing(pr, lv, o))
           /\ Cardinality(Pointing(pr, lv, o)) \in Nat
           /\ Cardinality(Pointing(pr, lv, o)) = 0 <=> Pointing(pr, lv, o) = {}
<1>1. Pointing(pr, lv, o) \in SUBSET lv
  BY DEF Pointing
<1>2. IsFiniteSet(Pointing(pr, lv, o))
  BY <1>1, FS_Subset
<1> QED BY <1>2, FS_CardinalityType, FS_EmptySet

(* A change of one property changes the number of properties that refer    *)
(* to an object by at most one.                                            *)
LEMMA PointingChange ==
    ASSUME NEW pr, NEW q, NEW lv, IsFiniteSet(lv), NEW x \in lv, NEW o,
           \A y \in lv : y # x => q[y] = pr[y]
    PROVE  /\ q[x] = o /\ pr[x] # o =>
                Cardinality(Pointing(q, lv, o)) = Cardinality(Pointing(pr, lv, o)) + 1
           /\ q[x] # o /\ pr[x] = o =>
                Cardinality(Pointing(q, lv, o)) = Cardinality(Pointing(pr, lv, o)) - 1
           /\ (q[x] = o <=> pr[x] = o) =>
                Cardinality(Pointing(q, lv, o)) = Cardinality(Pointing(pr, lv, o))
<1> DEFINE R == Pointing(pr, lv, o)
           A == Pointing(q, lv, o)
<1>1. IsFiniteSet(R)
  BY PointingFinite
<1>2. CASE q[x] = o /\ pr[x] # o
  <2>1. A = R \union {x} /\ x \notin R
    BY <1>2 DEF Pointing
  <2> QED BY <2>1, <1>1, <1>2, FS_AddElement
<1>3. CASE q[x] # o /\ pr[x] = o
  <2>1. A = R \ {x} /\ x \in R
    BY <1>3 DEF Pointing
  <2>2. Cardinality(R \ {x}) = Cardinality(R) - 1
    BY <2>1, <1>1, FS_RemoveElement
  <2> QED BY <2>1, <2>2, <1>3
<1>4. CASE q[x] = o <=> pr[x] = o
  <2>1. A = R
    BY <1>4 DEF Pointing
  <2> QED BY <2>1, <1>4
<1> QED BY <1>2, <1>3, <1>4

(* The sum is a number.                                                    *)
LEMMA OwedType ==
    ASSUME NEW st \in Seq(Frames), NEW hl \in [Obj -> 0..MaxHeld], NEW pr, NEW lv,
           IsFiniteSet(lv), NEW o \in Obj
    PROVE  /\ Owed(o, st, hl, pr, lv) \in Nat
           /\ hl[o] \in Nat /\ Cardinality(Pointing(pr, lv, o)) \in Nat
           /\ Cardinality(Running(st, o, {"del", "loop"})) \in Nat
           /\ Cardinality(Running(st, o, {"free"})) \in Nat
<1>1. hl[o] \in Nat
  BY HeldAssumption
<1>2. /\ Cardinality(Pointing(pr, lv, o)) \in Nat
      /\ Cardinality(Running(st, o, {"del", "loop"})) \in Nat
      /\ Cardinality(Running(st, o, {"free"})) \in Nat
  BY PointingFinite, RunningFinite
<1> QED BY <1>1, <1>2 DEF Owed

-----------------------------------------------------------------------------
(* The table and its free list.                                            *)

(* There are finitely many free buckets.                                   *)
LEMMA FreeFinite ==
    ASSUME TableInv
    PROVE  IsFiniteSet(Free) /\ Cardinality(Free) \in Nat
           /\ (Cardinality(Free) = 0 <=> Free = {})
<1>1. MaxTop - 1 \in Int /\ IsFiniteSet(Handles)
  BY SizeAssumption, FS_Interval DEF Handles
<1>2. Free \in SUBSET Handles
  BY DEF Free
<1>3. IsFiniteSet(Free)
  BY <1>1, <1>2, FS_Subset
<1> QED BY <1>3, FS_CardinalityType, FS_EmptySet

(* A new object gets a bucket that was free or unused.                     *)
LEMMA PutTable ==
    ASSUME TableInv, ListInv, NEW o \in Obj, o \notin live, NEW h \in Handles,
           zend_objects_store_put(o, h), live' = live \union {o}
    PROVE  /\ TableInv'
           /\ bkind[h] \in {"free", "unused"}
           /\ bkind' = [bkind EXCEPT ![h] = "valid"] /\ bobj' = [bobj EXCEPT ![h] = o]
           /\ handle' = [handle EXCEPT ![o] = h]
           /\ \A x \in live : handle[x] # h
           /\ top' >= top /\ (no_reuse => h >= top)
<1>1. bkind[h] \in {"free", "unused"}
  BY DEF TableInv, ListInv, Free, zend_objects_store_put
<1>2. \A x \in live : handle[x] # h
  BY <1>1 DEF TableInv
<1>3. /\ bkind' = [bkind EXCEPT ![h] = "valid"] /\ bobj' = [bobj EXCEPT ![h] = o]
      /\ handle' = [handle EXCEPT ![o] = h] /\ bnext' = [bnext EXCEPT ![h] = -1]
  BY DEF zend_objects_store_put
<1>4. IsFiniteSet(live')
  BY FS_AddElement DEF TableInv
<1>5. /\ top' \in 1..MaxTop /\ size' \in Nat /\ top' <= size' /\ top' >= top
      /\ free_list_head' \in Handles \union {-1} /\ (no_reuse => h >= top)
      /\ (bkind[h] = "unused" => h = top /\ top' = top + 1)
      /\ (bkind[h] = "free" => top' = top)
  <2>1. CASE free_list_head # -1 /\ ~no_reuse
    <3>1. bkind[h] = "free" /\ top' = top /\ size' = size /\ free_list_head' = bnext[h]
      BY <2>1 DEF zend_objects_store_put, ListInv, Free
    <3> QED BY <3>1, <2>1 DEF TableInv
  <2>2. CASE ~ (free_list_head # -1 /\ ~no_reuse)
    <3>1. /\ h = top /\ top' = top + 1 /\ free_list_head' = free_list_head
          /\ size' = IF top = size THEN 2 * size ELSE size
      BY <2>2 DEF zend_objects_store_put
    <3>2. bkind[h] = "unused" /\ top \in Nat /\ top >= 1 /\ top \in Handles
      BY <3>1, SizeAssumption DEF TableInv, Handles
    <3>3. top' \in 1..MaxTop
      BY <3>1, <3>2, SizeAssumption DEF Handles
    <3> QED BY <3>1, <3>2, <3>3 DEF TableInv
  <2> QED BY <2>1, <2>2
<1>6. /\ bkind' \in [Handles -> {"unused", "valid", "invalid", "free"}]
      /\ bobj' \in [Handles -> Obj \union {Null}]
      /\ bnext' \in [Handles -> Handles \union {-1}]
      /\ handle' \in [Obj -> Handles \union {0}] /\ live' \subseteq Obj
  BY <1>3 DEF TableInv
<1>7. \A x \in live' : /\ handle'[x] \in Handles /\ bobj'[handle'[x]] = x
                       /\ bkind'[handle'[x]] \in {"valid", "invalid"}
  BY <1>2, <1>3 DEF TableInv
<1>8. ASSUME NEW g \in Handles
      PROVE  /\ bkind'[g] \in {"valid", "invalid"} => bobj'[g] \in live' /\ handle'[bobj'[g]] = g
             /\ bkind'[g] = "unused" <=> g >= top'
  <2>1. CASE g = h
    <3>1. bkind'[g] = "valid" /\ bobj'[g] = o /\ handle'[o] = h
      BY <2>1, <1>3 DEF TableInv
    <3>2. ~ (h >= top')
      <4>1. CASE bkind[h] = "unused"
        BY <4>1, <1>5, SizeAssumption DEF Handles
      <4>2. CASE bkind[h] = "free"
        <5>1. ~ (h >= top)
          BY <4>2 DEF TableInv
        <5> QED BY <4>2, <5>1, <1>5
      <4> QED BY <4>1, <4>2, <1>1
    <3> QED BY <3>1, <3>2, <2>1
  <2>2. CASE g # h
    <3>1. bkind'[g] = bkind[g] /\ bobj'[g] = bobj[g]
      BY <2>2, <1>3 DEF TableInv
    <3>2. bkind[g] \in {"valid", "invalid"} =>
             bobj[g] \in live /\ handle[bobj[g]] = g /\ handle'[bobj[g]] = g
      BY <1>3 DEF TableInv
    <3>3. bkind[g] = "unused" <=> g >= top'
      <4>1. g \in Int /\ top \in Int
        BY SizeAssumption DEF Handles, TableInv
      <4>2. bkind[g] = "unused" <=> g >= top
        BY DEF TableInv
      <4> QED BY <4>1, <4>2, <2>2, <1>1, <1>5
    <3> QED BY <3>1, <3>2, <3>3
  <2> QED BY <2>1, <2>2
<1>9. TableInv'
  BY <1>4, <1>5, <1>6, <1>7, <1>8 DEF TableInv
<1> QED BY <1>1, <1>2, <1>3, <1>5, <1>9

(* zend_objects_store_put takes the head of the free list or a new         *)
(* bucket.                                                                 *)
LEMMA PutList ==
    ASSUME TableInv, ListInv, NEW o \in Obj, NEW h \in Handles,
           zend_objects_store_put(o, h)
    PROVE  ListInv'
<1> DEFINE F == Free
<1>0. /\ bkind' = [bkind EXCEPT ![h] = "valid"] /\ bnext' = [bnext EXCEPT ![h] = -1]
  BY DEF zend_objects_store_put
<1>1. Free' = Free \ {h}
  BY <1>0 DEF TableInv, Free
<1>2. IsFiniteSet(Free) /\ Cardinality(Free) \in Nat
  BY FreeFinite
<1>3. \A g \in Free' : g \in Free /\ g \in Handles /\ g # h /\ bnext'[g] = bnext[g]
  BY <1>0, <1>1 DEF TableInv, Free
<1>4. CASE free_list_head # -1 /\ ~no_reuse
  <2>1. h = free_list_head /\ h \in Free /\ free_list_head' = bnext[h] /\ h # -1
    BY <1>4 DEF zend_objects_store_put, ListInv
  <2>2. Cardinality(Free') = Cardinality(Free) - 1 /\ Cardinality(Free) # 0
    BY <1>1, <1>2, <2>1, FS_RemoveElement, FreeFinite
  <2>3. PICK rank \in [Free -> 1..Cardinality(Free)] : Ranks(rank)
    BY DEF ListInv
  <2>4. rank[h] = Cardinality(Free)
    BY <2>1, <2>3 DEF Ranks
  <2>5. \A g \in Free : bnext[g] # h
    <3> SUFFICES ASSUME NEW g \in Free, bnext[g] = h PROVE FALSE
      OBVIOUS
    <3>1. rank[g] = rank[h] + 1 /\ rank[g] \in 1..Cardinality(Free)
      BY <2>1, <2>3 DEF Ranks
    <3> QED BY <3>1, <2>4, <1>2
  <2>6. free_list_head' \in Free' \union {-1}
        /\ \A g \in Free' : bnext'[g] \in Free' \union {-1}
    BY <1>1, <1>3, <2>1, <2>5 DEF ListInv
  <2>7. \A g \in Free' : g = free_list_head' \/ \E f \in Free' : bnext'[f] = g
    BY <1>1, <1>3, <2>1 DEF ListInv
  <2>8. \A g \in Free' : rank[g] \in 1..Cardinality(Free')
    <3> SUFFICES ASSUME NEW g \in Free' PROVE rank[g] \in 1..Cardinality(Free')
      OBVIOUS
    <3>1. rank[g] \in 1..Cardinality(Free) /\ rank[g] # rank[h]
      BY <1>3, <2>1, <2>3 DEF Ranks
    <3> QED BY <3>1, <2>2, <2>4, <1>2
  <2>9. free_list_head' = -1 => Free' = {}
    <3> SUFFICES ASSUME bnext[h] = -1 PROVE Free' = {}
      BY <2>1
    <3>1. rank[h] = 1
      BY <2>1, <2>3 DEF Ranks
    <3>2. Cardinality(Free') = 0
      BY <3>1, <2>4, <2>2
    <3> QED BY <3>2, <2>8
  <2>10. PICK rk \in [Free' -> 1..Cardinality(Free')] :
            \A g \in Free' : rk[g] = rank[g]
    <3>1. [g \in Free' |-> rank[g]] \in [Free' -> 1..Cardinality(Free')]
      BY <2>8
    <3> QED BY <3>1
  <2>11. Ranks(rk)'
    <3>1. \A g, f \in Free' : g # f => rk[g] # rk[f]
      BY <2>10, <1>3, <2>3 DEF Ranks
    <3>2. \A g \in Free' : bnext'[g] # -1 => rk[g] = rk[bnext'[g]] + 1
      <4> SUFFICES ASSUME NEW g \in Free', bnext'[g] # -1
                   PROVE  rk[g] = rk[bnext'[g]] + 1
        OBVIOUS
      <4>1. bnext'[g] \in Free' /\ bnext'[g] = bnext[g] /\ g \in Free
        BY <2>6, <1>3
      <4>2. rank[g] = rank[bnext[g]] + 1
        BY <4>1, <2>3 DEF Ranks
      <4> QED BY <4>1, <4>2, <2>10
    <3>3. \A g \in Free' : bnext'[g] = -1 => rk[g] = 1
      BY <2>10, <1>3, <2>3 DEF Ranks
    <3>4. free_list_head' # -1 => rk[free_list_head'] = Cardinality(Free')
      <4> SUFFICES ASSUME bnext[h] # -1 PROVE rk[bnext[h]] = Cardinality(Free')
        BY <2>1
      <4>1. bnext[h] \in Free'
        BY <2>1, <2>6
      <4>2. rank[h] = rank[bnext[h]] + 1 /\ rank[bnext[h]] \in 1..Cardinality(Free)
        BY <2>1, <2>3, <4>1, <1>3 DEF Ranks
      <4> QED BY <4>1, <4>2, <2>2, <2>4, <2>10, <1>2
    <3> QED BY <3>1, <3>2, <3>3, <3>4, <2>10 DEF Ranks
  <2>12. \E r \in [Free' -> 1..Cardinality(Free')] : Ranks(r)'
    BY <2>10, <2>11
  <2> QED BY <2>6, <2>7, <2>9, <2>12 DEF ListInv
<1>5. CASE ~ (free_list_head # -1 /\ ~no_reuse)
  <2>1. h = top /\ free_list_head' = free_list_head
    BY <1>5 DEF zend_objects_store_put
  <2>2. h \notin Free
    BY <2>1 DEF TableInv, Free
  <2>3. Free' = Free
    BY <1>1, <2>2
  <2> QED BY <1>3, <2>1, <2>3 DEF ListInv, Ranks
<1> QED BY <1>4, <1>5

(* The bucket of a deleted object becomes the head of the free list.       *)
LEMMA DropTable ==
    ASSUME TableInv, NEW o \in live, AddToFreeList(o), UNCHANGED handle
    PROVE  /\ TableInv'
           /\ handle[o] \in Handles /\ bkind' = [bkind EXCEPT ![handle[o]] = "free"]
           /\ live' = live \ {o} /\ UNCHANGED top
           /\ \A x \in live : x # o => handle[x] # handle[o]
           /\ \A g \in Handles : bkind'[g] = "valid" =>
                 g # handle[o] /\ bkind[g] = "valid" /\ bobj'[g] = bobj[g]
<1> DEFINE h == handle[o]
<1>1. h \in Handles /\ h \in Int
  BY SizeAssumption DEF TableInv, Handles
<1>2. /\ bkind' = [bkind EXCEPT ![h] = "free"] /\ bobj' = [bobj EXCEPT ![h] = Null]
      /\ bnext' = [bnext EXCEPT ![h] = free_list_head] /\ free_list_head' = h
      /\ live' = live \ {o} /\ top' = top /\ size' = size
  BY DEF AddToFreeList
<1>3. IsFiniteSet(live')
  BY <1>2, FS_RemoveElement DEF TableInv
<1>4. \A x \in live : x # o => handle[x] # h
  BY DEF TableInv
<1>5. /\ bkind' \in [Handles -> {"unused", "valid", "invalid", "free"}]
      /\ bobj' \in [Handles -> Obj \union {Null}]
      /\ bnext' \in [Handles -> Handles \union {-1}]
      /\ free_list_head' \in Handles \union {-1}
  BY <1>1, <1>2 DEF TableInv
<1>6. \A x \in live' : /\ handle'[x] \in Handles /\ bobj'[handle'[x]] = x
                       /\ bkind'[handle'[x]] \in {"valid", "invalid"}
  BY <1>1, <1>2, <1>4 DEF TableInv
<1>7. ASSUME NEW g \in Handles
      PROVE  /\ bkind'[g] \in {"valid", "invalid"} => bobj'[g] \in live' /\ handle'[bobj'[g]] = g
             /\ bkind'[g] = "unused" <=> g >= top'
  <2>1. CASE g = h
    <3>1. bkind'[g] = "free" /\ bkind[g] # "unused"
      BY <2>1, <1>2 DEF TableInv
    <3> QED BY <3>1, <1>2 DEF TableInv
  <2>2. CASE g # h
    <3>1. bkind'[g] = bkind[g] /\ bobj'[g] = bobj[g]
      BY <2>2, <1>2 DEF TableInv
    <3>2. bkind[g] \in {"valid", "invalid"} => bobj[g] \in live' /\ handle[bobj[g]] = g
      BY <1>2, <2>2 DEF TableInv
    <3>3. bkind[g] = "unused" <=> g >= top'
      BY <1>2 DEF TableInv
    <3> QED BY <3>1, <3>2, <3>3
  <2> QED BY <2>1, <2>2
<1>8. TableInv'
  BY <1>2, <1>3, <1>5, <1>6, <1>7 DEF TableInv
<1>9. \A g \in Handles : bkind'[g] = "valid" =>
                 g # h /\ bkind[g] = "valid" /\ bobj'[g] = bobj[g]
  BY <1>2 DEF TableInv
<1> QED BY <1>1, <1>2, <1>4, <1>8, <1>9

(* ZEND_OBJECTS_STORE_ADD_TO_FREE_LIST makes a bucket the head of the      *)
(* list.                                                                   *)
LEMMA DropList ==
    ASSUME TableInv, ListInv, NEW o \in live, AddToFreeList(o)
    PROVE  ListInv'
<1> DEFINE h == handle[o]
<1>1. h \in Handles /\ h # -1 /\ bkind[h] # "free"
  BY SizeAssumption DEF TableInv, Handles
<1>2. /\ bkind' = [bkind EXCEPT ![h] = "free"]
      /\ bnext' = [bnext EXCEPT ![h] = free_list_head] /\ free_list_head' = h
  BY DEF AddToFreeList
<1>3. Free' = Free \union {h} /\ h \notin Free
  BY <1>1, <1>2 DEF TableInv, Free
<1>4. bnext'[h] = free_list_head /\ \A g \in Free : bnext'[g] = bnext[g]
  BY <1>1, <1>2, <1>3 DEF TableInv, Free
<1>5. /\ IsFiniteSet(Free) /\ Cardinality(Free) \in Nat
      /\ (Cardinality(Free) = 0 <=> Free = {})
  BY FreeFinite
<1>6. Cardinality(Free') = Cardinality(Free) + 1
  BY <1>3, <1>5, FS_AddElement
<1>7. PICK rank \in [Free -> 1..Cardinality(Free)] : Ranks(rank)
  BY DEF ListInv
<1>8. PICK rk \in [Free' -> 1..Cardinality(Free')] :
         rk[h] = Cardinality(Free') /\ \A g \in Free : rk[g] = rank[g]
  <2> DEFINE f == [g \in Free' |-> IF g = h THEN Cardinality(Free') ELSE rank[g]]
  <2>1. \A g \in Free' : f[g] \in 1..Cardinality(Free')
    BY <1>3, <1>5, <1>6
  <2>2. f[h] = Cardinality(Free') /\ \A g \in Free : f[g] = rank[g]
    BY <1>3
  <2>3. f \in [Free' -> 1..Cardinality(Free')]
    BY <2>1
  <2> HIDE DEF f
  <2> QED BY <2>2, <2>3
<1>9. /\ free_list_head' \in Free'
      /\ \A g \in Free' : bnext'[g] \in Free' \union {-1}
  BY <1>2, <1>3, <1>4 DEF ListInv
<1>10. \A g \in Free' : g = free_list_head' \/ \E f \in Free' : bnext'[f] = g
  BY <1>2, <1>3, <1>4 DEF ListInv
<1>11. Ranks(rk)'
  <2>0. \A g \in Free : rank[g] \in 1..Cardinality(Free) /\ rk[g] = rank[g]
    BY <1>7, <1>8
  <2>1. \A g, f \in Free' : g # f => rk[g] # rk[f]
    <3>1. \A g \in Free : rk[g] # rk[h]
      BY <2>0, <1>5, <1>6, <1>8
    <3>2. \A g, f \in Free : g # f => rk[g] # rk[f]
      BY <2>0, <1>7 DEF Ranks
    <3> QED BY <3>1, <3>2, <1>3
  <2>2. \A g \in Free' : bnext'[g] # -1 => rk[g] = rk[bnext'[g]] + 1
    <3>1. ASSUME NEW g \in Free, bnext'[g] # -1
          PROVE  rk[g] = rk[bnext'[g]] + 1
      <4>1. bnext'[g] = bnext[g] /\ bnext[g] \in Free
        BY <1>4, <3>1 DEF ListInv
      <4>2. rank[g] = rank[bnext[g]] + 1
        BY <1>7, <4>1, <3>1 DEF Ranks
      <4> QED BY <4>1, <4>2, <2>0
    <3>2. bnext'[h] # -1 => rk[h] = rk[bnext'[h]] + 1
      <4> SUFFICES ASSUME free_list_head # -1 PROVE rk[h] = rk[free_list_head] + 1
        BY <1>4
      <4>1. free_list_head \in Free /\ rank[free_list_head] = Cardinality(Free)
        BY <1>7 DEF ListInv, Ranks
      <4> QED BY <4>1, <2>0, <1>6, <1>8
    <3> QED BY <3>1, <3>2, <1>3
  <2>3. \A g \in Free' : bnext'[g] = -1 => rk[g] = 1
    <3>1. ASSUME NEW g \in Free, bnext'[g] = -1 PROVE rk[g] = 1
      BY <3>1, <1>4, <1>7, <2>0 DEF Ranks
    <3>2. bnext'[h] = -1 => rk[h] = 1
      BY <1>4, <1>5, <1>6, <1>8 DEF ListInv
    <3> QED BY <3>1, <3>2, <1>3
  <2>4. rk[free_list_head'] = Cardinality(Free')
    BY <1>2, <1>8
  <2> QED BY <2>1, <2>2, <2>3, <2>4, <1>8 DEF Ranks
<1>12. free_list_head' # -1
  BY <1>1, <1>2
<1>13. \E r \in [Free' -> 1..Cardinality(Free')] : Ranks(r)'
  BY <1>8, <1>11
<1> QED BY <1>9, <1>10, <1>12, <1>13 DEF ListInv

(* SET_OBJ_INVALID.                                                        *)
LEMMA InvalidStore ==
    ASSUME TableInv, ListInv, NEW o \in live,
           bkind' = [bkind EXCEPT ![handle[o]] = "invalid"],
           UNCHANGED <<bobj, bnext, top, size, free_list_head, live, handle>>
    PROVE  /\ TableInv' /\ ListInv'
           /\ bkind'[handle[o]] = "invalid"
           /\ \A x \in live : x # o => bkind'[handle[x]] = bkind[handle[x]]
           /\ \A g \in Handles : bkind'[g] = "valid" => bkind[g] = "valid"
<1>1. handle[o] \in Handles /\ bkind[handle[o]] \in {"valid", "invalid"}
  BY DEF TableInv
<1>2. /\ bkind'[handle[o]] = "invalid"
      /\ \A g \in Handles : g # handle[o] => bkind'[g] = bkind[g]
      /\ bkind' \in [Handles -> {"unused", "valid", "invalid", "free"}]
  BY <1>1 DEF TableInv
<1>3. \A x \in live : x # o => handle[x] \in Handles /\ handle[x] # handle[o]
  BY DEF TableInv
<1>4. Free' = Free
  BY <1>1, <1>2 DEF Free
<1>5. ListInv'
  BY <1>4 DEF ListInv, Ranks
<1>6. TableInv'
  <2>1. \A x \in live : bkind'[handle[x]] \in {"valid", "invalid"}
    BY <1>2, <1>3 DEF TableInv
  <2>2. \A g \in Handles :
          /\ bkind'[g] \in {"valid", "invalid"} => bkind[g] \in {"valid", "invalid"}
          /\ bkind'[g] = "unused" <=> bkind[g] = "unused"
    BY <1>1, <1>2
  <2> QED BY <1>2, <2>1, <2>2 DEF TableInv
<1> QED BY <1>2, <1>3, <1>5, <1>6

(* Steps that leave the buckets alone keep what is said of them.           *)
LEMMA SameStore ==
    ASSUME TableInv, ListInv, UNCHANGED <<store, live, handle>>
    PROVE  TableInv' /\ ListInv'
<1>1. Free' = Free
  BY DEF Free, store
<1> QED BY <1>1 DEF TableInv, ListInv, Ranks, store

-----------------------------------------------------------------------------
(* References are given up.                                                *)

(* An object whose count is zero has no reference and no call in progress. *)
LEMMA NoReference ==
    ASSUME TableInv, NEW r, NEW st, NEW hl, NEW pr, NEW ds, NEW rn,
           At(r, st, hl, pr, ds, rn), NEW o \in live, r[o] = 0
    PROVE  /\ hl[o] = 0 /\ \A x \in live : pr[x] # o
           /\ \A k \in DOMAIN st : st[k].obj # o
           /\ ~Pinned(o)
           /\ Running(st, o, {"del", "loop"}) = {} /\ Running(st, o, {"free"}) = {}
           /\ Pointing(pr, live, o) = {}
<1>1. st \in Seq(Frames) /\ hl \in [Obj -> 0..MaxHeld] /\ IsFiniteSet(live) /\ o \in Obj
  BY DEF At, FrameInv, RefInv, TableInv
<1>2. r[o] >= Owed(o, st, hl, pr, live) + Pin(o)
  BY DEF At, RefInv, CountInv
<1>3. Pin(o) \in {0, 1}
  BY DEF Pin
<1>4. /\ hl[o] = 0 /\ Cardinality(Pointing(pr, live, o)) = 0
      /\ Cardinality(Running(st, o, {"del", "loop"})) = 0
      /\ Cardinality(Running(st, o, {"free"})) = 0 /\ Pin(o) = 0
  <2>1. /\ hl[o] \in Nat /\ Cardinality(Pointing(pr, live, o)) \in Nat
        /\ Cardinality(Running(st, o, {"del", "loop"})) \in Nat
        /\ Cardinality(Running(st, o, {"free"})) \in Nat
    BY <1>1, OwedType
  <2> QED BY <2>1, <1>2, <1>3 DEF Owed
<1>5. ~Pinned(o)
  BY <1>4 DEF Pin
<1>6. Pointing(pr, live, o) = {}
  BY <1>1, <1>4, PointingFinite
<1>7. Running(st, o, {"del", "loop"}) = {} /\ Running(st, o, {"free"}) = {}
  BY <1>1, <1>4, RunningFinite
<1>8. ASSUME NEW k \in DOMAIN st PROVE st[k].obj # o
  <2>1. st[k].fn \in {"del", "loop", "free", "storage"}
    <3>1. st[k] \in Frames
      BY <1>1
    <3> QED BY <3>1 DEF Frames
  <2>2. st[k].fn = "storage" => Pinned(st[k].obj)
    BY DEF At, FrameInv
  <2> QED BY <2>1, <2>2, <1>5, <1>7 DEF Running
<1>9. \A x \in live : pr[x] # o
  BY <1>6 DEF Pointing
<1> QED BY <1>4, <1>5, <1>6, <1>7, <1>8, <1>9

(* A variable lets go of an object.                                        *)
LEMMA ReleaseVariable ==
    ASSUME TableInv, ObjectsInv, NEW o \in Obj, held[o] > 0
    PROVE  /\ o \in live
           /\ At([refcount EXCEPT ![o] = @ - 1], stack, [held EXCEPT ![o] = @ - 1],
                 prop, destructed, ran)
<1> DEFINE r == [refcount EXCEPT ![o] = @ - 1]
           hl == [held EXCEPT ![o] = @ - 1]
<1>1. /\ stack \in Seq(Frames) /\ held \in [Obj -> 0..MaxHeld] /\ IsFiniteSet(live)
      /\ refcount \in [Obj -> Nat] /\ live \subseteq Obj
  BY DEF ObjectsInv, At, FrameInv, RefInv, TableInv
<1>2. o \in live
  BY DEF ObjectsInv, At, RefInv
<1>3. hl \in [Obj -> 0..MaxHeld] /\ \A x \in Obj : hl[x] = IF x = o THEN held[o] - 1 ELSE held[x]
  BY <1>1, HeldAssumption
<1>4. \A x \in Obj : r[x] = IF x = o THEN refcount[o] - 1 ELSE refcount[x]
  BY <1>1
<1>5. ASSUME NEW x \in live
      PROVE  /\ r[x] >= Owed(x, stack, hl, prop, live) + Pin(x)
             /\ Exact => r[x] = Owed(x, stack, hl, prop, live) + Pin(x)
             /\ r[x] \in Int
  <2>1. /\ refcount[x] >= Owed(x, stack, held, prop, live) + Pin(x)
        /\ Exact => refcount[x] = Owed(x, stack, held, prop, live) + Pin(x)
    BY DEF ObjectsInv, At, RefInv, CountInv
  <2>2. /\ held[x] \in Nat /\ Cardinality(Pointing(prop, live, x)) \in Nat
        /\ Cardinality(Running(stack, x, {"del", "loop"})) \in Nat
        /\ Cardinality(Running(stack, x, {"free"})) \in Nat
        /\ Pin(x) \in Nat /\ refcount[x] \in Nat
    BY <1>1, OwedType DEF Pin
  <2>3. x = o => hl[x] = held[x] - 1 /\ r[x] = refcount[x] - 1
    BY <1>3, <1>4
  <2>4. x # o => hl[x] = held[x] /\ r[x] = refcount[x]
    BY <1>1, <1>3, <1>4
  <2> HIDE DEF r, hl
  <2> QED BY <2>1, <2>2, <2>3, <2>4 DEF Owed
<1>6. r \in [Obj -> Nat]
  <2>1. r[o] \in Nat
    <3>1. /\ Owed(o, stack, hl, prop, live) \in Nat /\ Pin(o) \in Nat
      BY <1>1, <1>3, OwedType DEF Pin
    <3> HIDE DEF r, hl
    <3> QED BY <3>1, <1>2, <1>5
  <2> QED BY <2>1, <1>1, <1>4
<1>7. \A x \in Obj : hl[x] > 0 => x \in live /\ bkind[handle[x]] = "valid"
  <2>1. \A x \in Obj : hl[x] > 0 => held[x] > 0
    BY <1>1, <1>3
  <2> QED BY <2>1 DEF ObjectsInv, At, RefInv
<1>8. RefInv(r, stack, hl, prop)
  <2> HIDE DEF r, hl
  <2>1. CountInv(r, stack, hl, prop)
    BY <1>5 DEF CountInv
  <2> QED BY <1>3, <1>6, <1>7, <2>1 DEF ObjectsInv, At, RefInv
<1> QED BY <1>2, <1>8 DEF ObjectsInv, At

(* A property lets go of an object.                                        *)
LEMMA ReleaseProperty ==
    ASSUME TableInv, ObjectsInv, NEW x \in live, prop[x] # Null
    PROVE  /\ prop[x] \in live
           /\ At([refcount EXCEPT ![prop[x]] = @ - 1], stack, held,
                 [prop EXCEPT ![x] = Null], destructed, ran)
<1> DEFINE o == prop[x]
           r == [refcount EXCEPT ![o] = @ - 1]
           pr == [prop EXCEPT ![x] = Null]
<1>1. /\ stack \in Seq(Frames) /\ held \in [Obj -> 0..MaxHeld] /\ IsFiniteSet(live)
      /\ refcount \in [Obj -> Nat] /\ live \in SUBSET Obj /\ x \in Obj
      /\ prop \in [Obj -> Obj \union {Null}]
  BY DEF ObjectsInv, At, FrameInv, RefInv, TableInv
<1>2. o \in live /\ o \in Obj
  BY <1>1 DEF ObjectsInv, At, RefInv
<1>3. pr \in [Obj -> Obj \union {Null}] /\ \A y \in Obj : pr[y] = IF y = x THEN Null ELSE prop[y]
  BY <1>1
<1>4. \A y \in Obj : r[y] = IF y = o THEN refcount[o] - 1 ELSE refcount[y]
  BY <1>1
<1>5. ASSUME NEW y \in live
      PROVE  /\ r[y] >= Owed(y, stack, held, pr, live) + Pin(y)
             /\ Exact => r[y] = Owed(y, stack, held, pr, live) + Pin(y)
             /\ r[y] \in Int
  <2>1. /\ refcount[y] >= Owed(y, stack, held, prop, live) + Pin(y)
        /\ Exact => refcount[y] = Owed(y, stack, held, prop, live) + Pin(y)
    BY DEF ObjectsInv, At, RefInv, CountInv
  <2>2. /\ held[y] \in Nat /\ Cardinality(Pointing(prop, live, y)) \in Nat
        /\ Cardinality(Running(stack, y, {"del", "loop"})) \in Nat
        /\ Cardinality(Running(stack, y, {"free"})) \in Nat
        /\ Pin(y) \in Nat /\ refcount[y] \in Nat
    BY <1>1, OwedType DEF Pin
  <2>3. Cardinality(Pointing(pr, live, y)) =
          IF y = o THEN Cardinality(Pointing(prop, live, y)) - 1
          ELSE Cardinality(Pointing(prop, live, y))
    <3>1. y \in Obj /\ y # Null
      BY <1>1, NullAssumption
    <3>2. pr[x] = Null /\ \A z \in live : z # x => pr[z] = prop[z]
      BY <1>1, <1>3
    <3>3. IsFiniteSet(live)
      BY <1>1
    <3> HIDE DEF pr
    <3> QED BY <3>1, <3>2, <3>3, PointingChange
  <2>4. r[y] = IF y = o THEN refcount[y] - 1 ELSE refcount[y]
    BY <1>1, <1>4
  <2> HIDE DEF r, pr, o
  <2>5. CASE y = o
    BY <2>1, <2>2, <2>3, <2>4, <2>5 DEF Owed
  <2>6. CASE y # o
    BY <2>1, <2>2, <2>3, <2>4, <2>6 DEF Owed
  <2> QED BY <2>5, <2>6
<1>6. r \in [Obj -> Nat]
  <2>1. r[o] \in Nat
    <3>1. /\ Owed(o, stack, held, pr, live) \in Nat /\ Pin(o) \in Nat
      BY <1>1, <1>2, OwedType DEF Pin
    <3> HIDE DEF r, pr
    <3> QED BY <3>1, <1>2, <1>5
  <2> QED BY <2>1, <1>1, <1>4
<1>7. \A y \in live : pr[y] # Null => pr[y] \in live /\ bkind[handle[pr[y]]] = "valid"
  <2>1. \A y \in live : pr[y] # Null => pr[y] = prop[y]
    BY <1>1, <1>3
  <2> QED BY <2>1 DEF ObjectsInv, At, RefInv
<1>8. RefInv(r, stack, held, pr)
  <2> HIDE DEF r, pr
  <2>1. CountInv(r, stack, held, pr)
    BY <1>5 DEF CountInv
  <2> QED BY <1>3, <1>6, <1>7, <2>1 DEF ObjectsInv, At, RefInv
<1> QED BY <1>2, <1>8 DEF ObjectsInv, At

(* A destructor returns and its two references go.                         *)
LEMMA ReleaseCall ==
    ASSUME TableInv, ObjectsInv, stack # <<>>, Top.fn \in {"del", "loop"}
    PROVE  /\ Top.obj \in live /\ Top.obj \in destructed /\ Top.obj \notin freed
           /\ At([refcount EXCEPT ![Top.obj] = @ - 2], Pop, held, prop,
                 destructed, ran)
<1> DEFINE o == Top.obj
           r == [refcount EXCEPT ![o] = @ - 2]
<1>1. /\ stack \in Seq(Frames) /\ held \in [Obj -> 0..MaxHeld] /\ IsFiniteSet(live)
      /\ refcount \in [Obj -> Nat] /\ live \in SUBSET Obj
  BY DEF ObjectsInv, At, FrameInv, RefInv, TableInv
<1>2. /\ Pop \in Seq(Frames) /\ Len(Pop) = Len(stack) - 1 /\ Len(stack) \in Nat \ {0}
      /\ \A k \in 1..(Len(stack) - 1) : Pop[k] = stack[k]
      /\ Len(stack) \in DOMAIN stack /\ DOMAIN Pop = 1..(Len(stack) - 1)
      /\ DOMAIN Pop \subseteq DOMAIN stack
  BY <1>1, FrontFacts DEF Pop
<1>3. o \in live /\ o \in Obj /\ o \in destructed /\ o \notin freed
  BY <1>1, <1>2 DEF ObjectsInv, At, FrameInv, Top
<1>4. \A y \in Obj : r[y] = IF y = o THEN refcount[o] - 2 ELSE refcount[y]
  BY <1>1
<1>5. ASSUME NEW y \in live
      PROVE  /\ r[y] >= Owed(y, Pop, held, prop, live) + Pin(y)
             /\ Exact => r[y] = Owed(y, Pop, held, prop, live) + Pin(y)
             /\ r[y] \in Int
  <2>1. /\ refcount[y] >= Owed(y, stack, held, prop, live) + Pin(y)
        /\ Exact => refcount[y] = Owed(y, stack, held, prop, live) + Pin(y)
    BY DEF ObjectsInv, At, RefInv, CountInv
  <2>2. /\ held[y] \in Nat /\ Cardinality(Pointing(prop, live, y)) \in Nat
        /\ Cardinality(Running(Pop, y, {"del", "loop"})) \in Nat
        /\ Cardinality(Running(Pop, y, {"free"})) \in Nat
        /\ Pin(y) \in Nat /\ refcount[y] \in Nat
    BY <1>1, <1>2, OwedType DEF Pin
  <2>3. Cardinality(Running(stack, y, {"del", "loop"})) =
          IF y = o THEN Cardinality(Running(Pop, y, {"del", "loop"})) + 1
          ELSE Cardinality(Running(Pop, y, {"del", "loop"}))
    BY <1>1, RunningPop DEF Pop, Top
  <2>4. Cardinality(Running(stack, y, {"free"})) = Cardinality(Running(Pop, y, {"free"}))
    BY <1>1, RunningPop DEF Pop, Top
  <2>5. r[y] = IF y = o THEN refcount[y] - 2 ELSE refcount[y]
    BY <1>1, <1>4
  <2> HIDE DEF r, o
  <2>6. CASE y = o
    <3>1. Cardinality(Running(stack, y, {"del", "loop"})) =
             Cardinality(Running(Pop, y, {"del", "loop"})) + 1
      BY <2>3, <2>6
    <3>2. 2 * Cardinality(Running(stack, y, {"del", "loop"})) =
             2 * Cardinality(Running(Pop, y, {"del", "loop"})) + 2
      BY <3>1, <2>2
    <3>4. Owed(y, stack, held, prop, live) = Owed(y, Pop, held, prop, live) + 2
          /\ Owed(y, Pop, held, prop, live) \in Nat
      <4> DEFINE a == Cardinality(Running(stack, y, {"del", "loop"}))
                 b == Cardinality(Running(Pop, y, {"del", "loop"}))
      <4> HIDE DEF a, b
      <4> QED BY <3>2, <2>2, <2>4 DEF Owed, a, b
    <3>3. r[y] = refcount[y] - 2
      BY <2>5, <2>6
    <3> QED BY <3>3, <3>4, <2>1, <2>2
  <2>7. CASE y # o
    BY <2>1, <2>2, <2>3, <2>4, <2>5, <2>7 DEF Owed
  <2> QED BY <2>6, <2>7
<1>6. r \in [Obj -> Nat]
  <2>1. r[o] \in Nat
    <3>1. /\ Owed(o, Pop, held, prop, live) \in Nat /\ Pin(o) \in Nat
      BY <1>1, <1>2, <1>3, OwedType DEF Pin
    <3> HIDE DEF r, o
    <3> QED BY <3>1, <1>3, <1>5
  <2> QED BY <2>1, <1>1, <1>4
<1>7. RefInv(r, Pop, held, prop)
  <2> HIDE DEF r, o
  <2>1. CountInv(r, Pop, held, prop)
    BY <1>5 DEF CountInv
  <2> QED BY <1>6, <2>1 DEF ObjectsInv, At, RefInv
<1>8. FrameInv(Pop, destructed)
  BY <1>2 DEF ObjectsInv, At, FrameInv
<1>9. ShutdownInv(Pop, destructed)
  BY DEF ObjectsInv, At, ShutdownInv
<1> QED BY <1>3, <1>7, <1>8, <1>9 DEF ObjectsInv, At

-----------------------------------------------------------------------------
(* An object without references is deleted.                                *)

(* Its contents were freed before: only a fast shutdown comes here, and    *)
(* the bucket goes to the free list.                                       *)
LEMMA DelFreeAgain ==
    ASSUME TableInv, NEW r, NEW st, NEW hl, NEW pr, NEW ds, NEW rn,
           At(r, st, hl, pr, ds, rn), phase # "done",
           NEW o \in live, r[o] = 0, bkind[handle[o]] = "valid", o \in freed,
           AddToFreeList(o), refcount' = r, stack' = st, held' = hl, prop' = pr,
           destructed' = ds, ran' = rn, UNCHANGED <<flags, freed, handle, phase, i>>
    PROVE  ObjectsInv'
<1>1. /\ TableInv'
      /\ handle[o] \in Handles /\ bkind' = [bkind EXCEPT ![handle[o]] = "free"]
      /\ live' = live \ {o} /\ UNCHANGED top
      /\ \A x \in live : x # o => handle[x] # handle[o]
      /\ \A g \in Handles : bkind'[g] = "valid" =>
            g # handle[o] /\ bkind[g] = "valid" /\ bobj'[g] = bobj[g]
  BY DropTable
<1>2. /\ hl[o] = 0 /\ \A x \in live : pr[x] # o
      /\ \A k \in DOMAIN st : st[k].obj # o
      /\ ~Pinned(o)
  BY NoReference
<1>3. phase = "storage" /\ fast
  BY <1>2 DEF At, FreedInv, PhaseInv, Pinned
<1>4. \A x \in live' : /\ x \in live /\ x # o /\ handle[x] \in Handles
                       /\ bkind'[handle'[x]] = bkind[handle[x]]
  BY <1>1 DEF TableInv
<1>5. \A x \in live' : Pinned(x)' <=> Pinned(x)
  BY <1>4 DEF Pinned, flags
<1>6. PhaseInv'
  BY DEF At, PhaseInv, flags
<1>7. FreedInv'
  BY <1>3, <1>4 DEF At, FreedInv
<1>8. FlagInv(destructed, ran)'
  BY <1>1 DEF At, FlagInv, flags
<1>9. FrameInv(stack, destructed)'
  <2>1. \A k \in DOMAIN st : st[k].obj \in live'
    BY <1>1, <1>2 DEF At, FrameInv
  <2> QED BY <2>1, <1>4, <1>5 DEF At, FrameInv, flags
<1>10. ASSUME NEW x \in live'
       PROVE  r[x] >= Owed(x, st, hl, pr, live') + Pin(x)'
  <2>1. r[x] >= Owed(x, st, hl, pr, live) + Pin(x) /\ x \in Obj /\ r[x] \in Nat
    BY <1>4 DEF At, RefInv, CountInv, TableInv
  <2>2. Pin(x)' = Pin(x) /\ Pin(x) \in Nat
    BY <1>5 DEF Pin
  <2>3. /\ Cardinality(Pointing(pr, live', x)) \in Nat
        /\ Cardinality(Pointing(pr, live, x)) \in Nat
        /\ Cardinality(Pointing(pr, live', x)) <= Cardinality(Pointing(pr, live, x))
    <3>1. IsFiniteSet(Pointing(pr, live, x)) /\ IsFiniteSet(Pointing(pr, live', x))
      BY <1>1, PointingFinite DEF TableInv
    <3>2. Pointing(pr, live', x) \in SUBSET Pointing(pr, live, x)
      BY <1>1 DEF Pointing
    <3> QED BY <3>1, <3>2, FS_Subset, FS_CardinalityType
  <2>4. /\ hl[x] \in Nat
        /\ Cardinality(Running(st, x, {"del", "loop"})) \in Nat
        /\ Cardinality(Running(st, x, {"free"})) \in Nat
    BY <2>1, HeldAssumption, RunningFinite DEF At, RefInv, FrameInv
  <2> QED BY <2>1, <2>2, <2>3, <2>4 DEF Owed
<1>11. CountInv(refcount, stack, held, prop)'
  <2>1. ~Exact'
    BY <1>3 DEF Exact, flags
  <2> QED BY <1>10, <2>1 DEF CountInv
<1>12. \A x \in Obj : held'[x] > 0 => x \in live' /\ bkind'[handle'[x]] = "valid"
  <2>1. \A x \in Obj : held'[x] > 0 => x # o
    BY <1>2
  <2> QED BY <2>1, <1>1, <1>4 DEF At, RefInv
<1>13. \A x \in live' : prop'[x] # Null =>
          prop'[x] \in live' /\ bkind'[handle'[prop'[x]]] = "valid"
  BY <1>1, <1>2, <1>4 DEF At, RefInv
<1>14. RefInv(refcount, stack, held, prop)'
  BY <1>11, <1>12, <1>13 DEF At, RefInv
<1>15. ShutdownInv(stack, destructed)'
  BY <1>1, <1>3 DEF At, ShutdownInv
<1> QED BY <1>6, <1>7, <1>8, <1>9, <1>14, <1>15 DEF ObjectsInv, At

(* Its contents are freed now: free_obj is called.                         *)
LEMMA DelFreeFirst ==
    ASSUME TableInv, ListInv, NEW r, NEW st, NEW hl, NEW pr, NEW ds, NEW rn,
           At(r, st, hl, pr, ds, rn), phase # "done",
           NEW o \in live, r[o] = 0, o \in ds, o \notin freed,
           bkind' = [bkind EXCEPT ![handle[o]] = "invalid"],
           UNCHANGED <<bobj, bnext, top, size, free_list_head, live>>,
           refcount' = [r EXCEPT ![o] = 1], freed' = freed \union {o},
           stack' = Append(st, [fn |-> "free", obj |-> o]),
           held' = hl, prop' = pr, destructed' = ds, ran' = rn,
           UNCHANGED <<flags, handle, phase, i>>
    PROVE  ObjectsInv'
<1> DEFINE f == [fn |-> "free", obj |-> o]
<1>1. /\ bkind'[handle[o]] = "invalid"
      /\ \A x \in live : x # o => bkind'[handle[x]] = bkind[handle[x]]
      /\ \A g \in Handles : bkind'[g] = "valid" => bkind[g] = "valid"
  BY InvalidStore
<1>2. /\ hl[o] = 0 /\ \A x \in live : pr[x] # o
      /\ \A k \in DOMAIN st : st[k].obj # o
      /\ Running(st, o, {"del", "loop"}) = {} /\ Running(st, o, {"free"}) = {}
      /\ Pointing(pr, live, o) = {}
  BY NoReference
<1>3. \A x \in live : x # o => (Pinned(x)' <=> Pinned(x))
  BY <1>1 DEF Pinned, flags
<1>4. ~Pinned(o)'
  BY <1>1 DEF Pinned
<1>5. o \in Obj /\ f \in Frames /\ st \in Seq(Frames)
  BY DEF TableInv, At, FrameInv, Frames
<1>6. /\ stack' \in Seq(Frames) /\ Len(stack') = Len(st) + 1 /\ Len(st) \in Nat
      /\ DOMAIN stack' = 1..(Len(st) + 1) /\ DOMAIN st = 1..Len(st)
      /\ \A k \in 1..Len(st) : stack'[k] = st[k]
      /\ stack'[Len(st) + 1] = f
  BY <1>5, AppendFacts
<1>7. PhaseInv'
  BY <1>5 DEF At, PhaseInv, flags
<1>8. FreedInv'
  BY <1>1 DEF At, FreedInv
<1>9. FlagInv(destructed, ran)'
  BY DEF At, FlagInv, flags
<1>10. FrameInv(stack, destructed)'
  <2>1. ASSUME NEW k \in DOMAIN stack'
        PROVE  /\ stack'[k].obj \in live
               /\ stack'[k].fn \in {"del", "loop"} =>
                     active /\ stack'[k].obj \in ds /\ stack'[k].obj \notin freed'
               /\ stack'[k].fn = "free" => bkind'[handle[stack'[k].obj]] = "invalid"
               /\ (stack[k].fn = "storage" => phase = "storage" /\ Pinned(stack[k].obj))'
    <3>1. CASE k = Len(st) + 1
      BY <3>1, <1>1, <1>6
    <3>2. CASE k # Len(st) + 1
      <4>1. k \in DOMAIN st /\ stack'[k] = st[k]
        BY <3>2, <1>6
      <4>2. st[k].obj # o /\ st[k].obj \in live
        BY <4>1, <1>2 DEF At, FrameInv
      <4>3. Pinned(st[k].obj)' <=> Pinned(st[k].obj)
        BY <4>2, <1>3
      <4>4. (Pinned(stack[k].obj))' <=> Pinned(st[k].obj)'
        BY <4>1 DEF Pinned
      <4> QED BY <4>1, <4>2, <4>3, <4>4, <1>1 DEF At, FrameInv
    <3> QED BY <3>1, <3>2
  <2>2. ASSUME NEW j \in DOMAIN stack', NEW k \in DOMAIN stack', j # k
        PROVE  stack'[j].obj # stack'[k].obj
    <3>1. \A m \in DOMAIN stack' : m # Len(st) + 1 => m \in DOMAIN st /\ stack'[m] = st[m]
      BY <1>6
    <3>2. \A m, n \in DOMAIN st : m # n => st[m].obj # st[n].obj
      BY DEF At, FrameInv
    <3> QED BY <3>1, <3>2, <2>2, <1>2, <1>6
  <2> QED BY <1>6, <2>1, <2>2 DEF FrameInv, flags
<1>11. r \in [Obj -> Nat] /\ refcount' \in [Obj -> Nat]
       /\ refcount'[o] = 1 /\ \A x \in Obj : x # o => refcount'[x] = r[x]
  BY <1>5 DEF At, RefInv
<1>12. ASSUME NEW x \in live
       PROVE  /\ refcount'[x] >= Owed(x, stack', hl, pr, live) + Pin(x)'
              /\ Exact => refcount'[x] = Owed(x, stack', hl, pr, live) + Pin(x)'
  <2>0. x \in Obj
    BY DEF TableInv
  <2>1. Cardinality(Running(stack', x, {"del", "loop"})) =
           Cardinality(Running(st, x, {"del", "loop"}))
    BY <1>5, RunningAppend
  <2>2. Cardinality(Running(stack', x, {"free"})) =
           IF x = o THEN Cardinality(Running(st, x, {"free"})) + 1
           ELSE Cardinality(Running(st, x, {"free"}))
    BY <1>5, RunningAppend
  <2>3. CASE x = o
    <3>1. /\ Cardinality(Running(stack', x, {"del", "loop"})) = 0
          /\ Cardinality(Running(stack', x, {"free"})) = 1
          /\ Cardinality(Pointing(pr, live, x)) = 0 /\ hl[x] = 0
          /\ Pin(x)' = 0 /\ refcount'[x] = 1
      <4>1. /\ Cardinality(Running(st, x, {"del", "loop"})) = 0
            /\ Cardinality(Running(st, x, {"free"})) = 0
            /\ Cardinality(Pointing(pr, live, x)) = 0
        BY <2>3, <1>2, FS_EmptySet
      <4>2. Pin(x)' = 0 /\ refcount'[x] = 1 /\ hl[x] = 0
        BY <2>3, <1>2, <1>4, <1>11 DEF Pin
      <4> QED BY <4>1, <4>2, <2>1, <2>2, <2>3
    <3> QED BY <3>1 DEF Owed
  <2>4. CASE x # o
    <3>1. Pin(x)' = Pin(x) /\ refcount'[x] = r[x]
      BY <2>0, <2>4, <1>3, <1>11 DEF Pin
    <3>2. Owed(x, stack', hl, pr, live) = Owed(x, st, hl, pr, live)
      BY <2>1, <2>2, <2>4 DEF Owed
    <3> QED BY <3>1, <3>2 DEF At, RefInv, CountInv
  <2> QED BY <2>3, <2>4
<1>13. CountInv(refcount, stack, held, prop)'
  <2>1. Exact' <=> Exact
    BY DEF Exact, flags
  <2> QED BY <1>12, <2>1 DEF CountInv
<1>14. \A x \in Obj : held'[x] > 0 => x \in live' /\ bkind'[handle'[x]] = "valid"
  <2>1. \A x \in Obj : hl[x] > 0 => x # o
    BY <1>2
  <2> QED BY <2>1, <1>1 DEF At, RefInv
<1>15. \A x \in live' : prop'[x] # Null =>
          prop'[x] \in live' /\ bkind'[handle'[prop'[x]]] = "valid"
  BY <1>1, <1>2 DEF At, RefInv
<1>16. RefInv(refcount, stack, held, prop)'
  BY <1>11, <1>13, <1>14, <1>15 DEF At, RefInv
<1>17. ShutdownInv(stack, destructed)'
  BY <1>1 DEF At, ShutdownInv, flags
<1> QED BY <1>7, <1>8, <1>9, <1>10, <1>16, <1>17 DEF ObjectsInv, At

(* Its destructor is called first, with two references.                    *)
LEMMA DelDestructor ==
    ASSUME TableInv, NEW r, NEW st, NEW hl, NEW pr,
           At(r, st, hl, pr, destructed, ran),
           NEW o \in live, r[o] = 0, o \notin destructed, active,
           refcount' = [r EXCEPT ![o] = 2], ran' = [ran EXCEPT ![o] = @ + 1],
           stack' = Append(st, [fn |-> "del", obj |-> o]),
           destructed' = destructed \union {o}, held' = hl, prop' = pr,
           UNCHANGED <<store, live, freed, flags, handle, phase, i>>
    PROVE  ObjectsInv'
<1> DEFINE f == [fn |-> "del", obj |-> o]
<1>1. o \notin freed /\ o \in Obj /\ phase \notin {"storage", "done"}
  BY DEF At, FlagInv, PhaseInv, TableInv
<1>2. /\ hl[o] = 0 /\ \A x \in live : pr[x] # o
      /\ \A k \in DOMAIN st : st[k].obj # o
      /\ ~Pinned(o)
      /\ Running(st, o, {"del", "loop"}) = {} /\ Running(st, o, {"free"}) = {}
      /\ Pointing(pr, live, o) = {}
  BY NoReference
<1>3. \A x : Pinned(x)' <=> Pinned(x)
  BY DEF Pinned, flags, store
<1>5. f \in Frames /\ st \in Seq(Frames)
  BY <1>1 DEF At, FrameInv, Frames
<1>6. /\ stack' \in Seq(Frames) /\ Len(stack') = Len(st) + 1 /\ Len(st) \in Nat
      /\ DOMAIN stack' = 1..(Len(st) + 1) /\ DOMAIN st = 1..Len(st)
      /\ \A k \in 1..Len(st) : stack'[k] = st[k]
      /\ stack'[Len(st) + 1] = f
  BY <1>5, AppendFacts
<1>7. PhaseInv' /\ FreedInv'
  BY DEF At, PhaseInv, FreedInv, flags, store
<1>9. FlagInv(destructed, ran)'
  <2>1. /\ ran \in [Obj -> Nat] /\ ran[o] = 0 /\ destructed \subseteq Obj
        /\ live \intersect freed \subseteq destructed
        /\ \A x \in Obj : ran[x] <= 1 /\ (x \notin destructed => ran[x] = 0)
    BY <1>1 DEF At, FlagInv
  <2>2. /\ ran' \in [Obj -> Nat] /\ ran'[o] = 1
        /\ \A x \in Obj : x # o => ran'[x] = ran[x]
    BY <1>1, <2>1
  <2> QED BY <1>1, <2>1, <2>2 DEF FlagInv
<1>10. FrameInv(stack, destructed)'
  <2>1. ASSUME NEW k \in DOMAIN stack'
        PROVE  /\ stack'[k].obj \in live
               /\ stack'[k].fn \in {"del", "loop"} =>
                     active /\ stack'[k].obj \in destructed' /\ stack'[k].obj \notin freed
               /\ stack'[k].fn = "free" => bkind[handle[stack'[k].obj]] = "invalid"
               /\ (stack[k].fn = "storage" => phase = "storage" /\ Pinned(stack[k].obj))'
    <3>1. CASE k = Len(st) + 1
      BY <3>1, <1>1, <1>6
    <3>2. CASE k # Len(st) + 1
      <4>1. k \in DOMAIN st /\ stack'[k] = st[k]
        BY <3>2, <1>6
      <4>2. st[k].fn # "storage" /\ st[k].obj \in live
        BY <4>1, <1>1 DEF At, FrameInv
      <4> QED BY <4>1, <4>2 DEF At, FrameInv
    <3> QED BY <3>1, <3>2
  <2>2. ASSUME NEW j \in DOMAIN stack', NEW k \in DOMAIN stack', j # k
        PROVE  stack'[j].obj # stack'[k].obj
    <3>1. \A m \in DOMAIN stack' : m # Len(st) + 1 => m \in DOMAIN st /\ stack'[m] = st[m]
      BY <1>6
    <3>2. \A m, n \in DOMAIN st : m # n => st[m].obj # st[n].obj
      BY DEF At, FrameInv
    <3> QED BY <3>1, <3>2, <2>2, <1>2, <1>6
  <2> QED BY <1>6, <2>1, <2>2 DEF FrameInv, flags, store
<1>11. r \in [Obj -> Nat] /\ refcount' \in [Obj -> Nat]
       /\ refcount'[o] = 2 /\ \A x \in Obj : x # o => refcount'[x] = r[x]
  BY <1>1 DEF At, RefInv
<1>12. ASSUME NEW x \in live
       PROVE  /\ refcount'[x] >= Owed(x, stack', hl, pr, live) + Pin(x)'
              /\ Exact => refcount'[x] = Owed(x, stack', hl, pr, live) + Pin(x)'
  <2>0. x \in Obj /\ Pin(x)' = Pin(x)
    BY <1>3 DEF TableInv, Pin
  <2>1. Cardinality(Running(stack', x, {"del", "loop"})) =
           IF x = o THEN Cardinality(Running(st, x, {"del", "loop"})) + 1
           ELSE Cardinality(Running(st, x, {"del", "loop"}))
    BY <1>5, RunningAppend
  <2>2. Cardinality(Running(stack', x, {"free"})) = Cardinality(Running(st, x, {"free"}))
    BY <1>5, RunningAppend
  <2>3. CASE x = o
    <3>1. /\ Cardinality(Running(st, x, {"del", "loop"})) = 0
          /\ Cardinality(Running(st, x, {"free"})) = 0
          /\ Cardinality(Pointing(pr, live, x)) = 0
      BY <2>3, <1>2, FS_EmptySet
    <3>2. Pin(x)' = 0 /\ refcount'[x] = 2 /\ hl[x] = 0
      BY <2>0, <2>3, <1>2, <1>11 DEF Pin
    <3>3. Cardinality(Running(stack', x, {"del", "loop"})) = 1
      BY <2>1, <2>3, <3>1
    <3> QED BY <3>1, <3>2, <3>3, <2>2 DEF Owed
  <2>4. CASE x # o
    <3>1. refcount'[x] = r[x]
      BY <2>0, <2>4, <1>11
    <3>2. Owed(x, stack', hl, pr, live) = Owed(x, st, hl, pr, live)
      BY <2>1, <2>2, <2>4 DEF Owed
    <3> QED BY <2>0, <3>1, <3>2 DEF At, RefInv, CountInv
  <2> QED BY <2>3, <2>4
<1>13. CountInv(refcount, stack, held, prop)'
  <2>1. Exact' <=> Exact
    BY DEF Exact, flags
  <2> QED BY <1>12, <2>1 DEF CountInv
<1>16. RefInv(refcount, stack, held, prop)'
  BY <1>11, <1>13 DEF At, RefInv, store
<1>17. ShutdownInv(stack, destructed)'
  BY <1>1 DEF At, ShutdownInv, flags, store
<1> QED BY <1>7, <1>9, <1>10, <1>16, <1>17 DEF ObjectsInv, At

(* The flag is set.                                                        *)
LEMMA FlagSet ==
    ASSUME NEW r, NEW st, NEW hl, NEW pr, NEW ds, NEW rn,
           At(r, st, hl, pr, ds, rn), NEW o \in Obj
    PROVE  At(r, st, hl, pr, ds \union {o}, rn)
<1>1. FlagInv(ds \union {o}, rn)
  BY DEF At, FlagInv
<1>2. FrameInv(st, ds \union {o})
  BY DEF At, FrameInv
<1>3. ShutdownInv(st, ds \union {o})
  BY DEF At, ShutdownInv
<1> QED BY <1>1, <1>2, <1>3 DEF At

(* The second half of zend_objects_store_del.                              *)
LEMMA DelFreeStep ==
    ASSUME TableInv, ListInv, NEW r, NEW st, NEW hl, NEW pr, NEW ds, NEW rn,
           At(r, st, hl, pr, ds, rn), phase # "done",
           NEW o \in live, r[o] = 0, bkind[handle[o]] = "valid", o \in ds,
           DelFree(o, r, st), held' = hl, prop' = pr, destructed' = ds, ran' = rn,
           UNCHANGED <<flags, handle, phase, i>>
    PROVE  TableInv' /\ ListInv' /\ ObjectsInv'
<1>1. CASE o \in freed
  <2>1. AddToFreeList(o) /\ refcount' = r /\ stack' = st /\ UNCHANGED freed
    BY <1>1 DEF DelFree
  <2>2. TableInv'
    BY <2>1, DropTable
  <2>3. ListInv'
    BY <2>1, DropList
  <2>4. ObjectsInv'
    BY <1>1, <2>1, DelFreeAgain
  <2> QED BY <2>2, <2>3, <2>4
<1>2. CASE o \notin freed
  <2>1. /\ refcount' = [r EXCEPT ![o] = 1] /\ freed' = freed \union {o}
        /\ bkind' = [bkind EXCEPT ![handle[o]] = "invalid"]
        /\ stack' = Append(st, [fn |-> "free", obj |-> o])
        /\ UNCHANGED <<bobj, bnext, top, size, free_list_head, live>>
    BY <1>2 DEF DelFree
  <2>2. TableInv' /\ ListInv'
    BY <2>1, InvalidStore
  <2>3. ObjectsInv'
    BY <1>2, <2>1, DelFreeFirst
  <2> QED BY <2>2, <2>3
<1> QED BY <1>1, <1>2

(* A step that leaves the store alone arrives where At describes it.       *)
LEMMA Arrives ==
    ASSUME NEW r, NEW st, NEW hl, NEW pr, NEW ds, NEW rn,
           At(r, st, hl, pr, ds, rn), refcount' = r, stack' = st, held' = hl,
           prop' = pr, destructed' = ds, ran' = rn,
           UNCHANGED <<store, live, freed, flags, handle, phase, i>>
    PROVE  ObjectsInv'
<1>1. \A x : Pinned(x)' <=> Pinned(x)
  BY DEF Pinned, flags, store
<1>2. \A x : Pin(x)' = Pin(x)
  BY <1>1 DEF Pin
<1>3. Exact' <=> Exact
  BY DEF Exact, flags
<1>4. PhaseInv' /\ FreedInv'
  BY DEF At, PhaseInv, FreedInv, flags, store
<1>5. FlagInv(destructed, ran)'
  BY DEF At, FlagInv, flags, store
<1>6. FrameInv(stack, destructed)'
  BY <1>1 DEF At, FrameInv, Pinned, flags, store
<1>7. CountInv(refcount, stack, held, prop)'
  BY <1>2, <1>3 DEF At, RefInv, CountInv
<1>8. RefInv(refcount, stack, held, prop)'
  BY <1>7 DEF At, RefInv, store
<1>9. ShutdownInv(stack, destructed)'
  BY DEF At, ShutdownInv, flags, store
<1> QED BY <1>4, <1>5, <1>6, <1>8, <1>9 DEF ObjectsInv, At

(* zend_object_release, when the reference is gone.                        *)
LEMMA ReleaseStep ==
    ASSUME TableInv, ListInv, NEW hl, NEW pr, NEW o \in live,
           At([refcount EXCEPT ![o] = @ - 1], stack, hl, pr, destructed, ran),
           phase # "done", bkind[handle[o]] = "valid",
           zend_object_release(o), held' = hl, prop' = pr,
           UNCHANGED <<flags, handle, phase, i>>
    PROVE  TableInv' /\ ListInv' /\ ObjectsInv'
<1> DEFINE r == [refcount EXCEPT ![o] = @ - 1]
<1>1. CASE r[o] # 0
  <2>1. refcount' = r /\ UNCHANGED <<store, live, destructed, freed, stack, ran>>
    BY <1>1 DEF zend_object_release
  <2>2. TableInv' /\ ListInv'
    BY <2>1, SameStore
  <2>3. ObjectsInv'
    <3> HIDE DEF r
    <3>1. At(r, stack, hl, pr, destructed, ran)
      BY DEF r
    <3> QED BY <2>1, <3>1, Arrives
  <2> QED BY <2>2, <2>3
<1>2. CASE r[o] = 0
  <2>0. zend_objects_store_del(o, r, stack)
    BY <1>2 DEF zend_object_release
  <2> HIDE DEF r
  <2>1. At(r, stack, hl, pr, destructed, ran)
    BY DEF r
  <2>2. CASE o \notin destructed /\ o \in Dtor /\ active
    <3>1. /\ refcount' = [r EXCEPT ![o] = 2] /\ ran' = [ran EXCEPT ![o] = @ + 1]
          /\ stack' = Append(stack, [fn |-> "del", obj |-> o])
          /\ destructed' = destructed \union {o} /\ UNCHANGED <<store, live, freed>>
      BY <2>0, <2>2 DEF zend_objects_store_del
    <3>2. ObjectsInv'
      BY <2>1, <2>2, <3>1, <1>2, DelDestructor
    <3> QED BY <3>1, <3>2, SameStore
  <2>3. CASE ~ (o \notin destructed /\ o \in Dtor /\ active)
    <3>1. /\ DelFree(o, r, stack) /\ ran' = ran
          /\ destructed' = destructed \union {o}
      BY <2>0, <2>3 DEF zend_objects_store_del
    <3>2. o \in Obj
      BY DEF TableInv
    <3>3. At(r, stack, hl, pr, destructed \union {o}, ran)
      BY <2>1, <3>2, FlagSet
    <3> DEFINE ds == destructed \union {o}
    <3>4. o \in ds /\ destructed' = ds
      BY <3>1
    <3>5. At(r, stack, hl, pr, ds, ran)
      BY <3>3
    <3> HIDE DEF ds
    <3> QED BY <3>1, <3>4, <3>5, <1>2, DelFreeStep
  <2> QED BY <2>2, <2>3
<1> QED BY <1>1, <1>2

-----------------------------------------------------------------------------
(* Every step of the program and of the calls in progress.                 *)
Inv == StoreInv /\ ObjectsInv

(* What the program reaches is alive, and its contents are there.          *)
LEMMA ReachValid ==
    ASSUME Inv, NEW o \in Reach
    PROVE  o \in live /\ bkind[handle[o]] = "valid"
<1>1. ASSUME NEW x \in Named PROVE x \in live /\ bkind[handle[x]] = "valid"
  <2>1. CASE x \in Obj /\ held[x] > 0
    BY <2>1 DEF Inv, ObjectsInv, At, RefInv
  <2>2. CASE InDestructor /\ x = Top.obj
    <3>1. stack # <<>> /\ Top.fn \in {"del", "loop"} /\ TableInv /\ ObjectsInv
      BY <2>2 DEF InDestructor, Inv, StoreInv
    <3>2. x \in live /\ x \notin freed
      BY <2>2, <3>1, ReleaseCall
    <3> QED BY <3>1, <3>2 DEF ObjectsInv, At, FreedInv, TableInv
  <2> QED BY <1>1, <2>1, <2>2 DEF Named
<1>2. CASE o \in Named
  BY <1>1, <1>2
<1>3. CASE o \notin Named
  <2>1. PICK x \in Named : o = prop[x] /\ o # Null
    BY <1>3 DEF Reach
  <2>2. x \in live
    BY <1>1
  <2> QED BY <2>1, <2>2 DEF Inv, ObjectsInv, At, RefInv
<1> QED BY <1>2, <1>3

(* No program code runs after the end of the request.                      *)
LEMMA ProgramNotDone ==
    ASSUME Inv, ProgramRuns
    PROVE  phase # "done"
BY DEF Inv, ObjectsInv, At, ShutdownInv, ProgramRuns, InDestructor

(* zend_object_store_ctor_failed keeps the invariant.                      *)
LEMMA CtorFailedStep ==
    ASSUME Inv, NEW o \in Obj, zend_object_store_ctor_failed(o)
    PROVE  Inv'
<1>1. /\ destructed' = destructed \union {o}
      /\ UNCHANGED <<store, flags, live, handle, refcount, freed, prop, held,
                     stack, phase, i, ran>>
  BY DEF zend_object_store_ctor_failed
<1>2. At(refcount, stack, held, prop, destructed \union {o}, ran)
  BY FlagSet DEF Inv, ObjectsInv
<1> DEFINE ds == destructed \union {o}
<1>3. At(refcount, stack, held, prop, ds, ran) /\ destructed' = ds
  BY <1>1, <1>2
<1> HIDE DEF ds
<1>4. ObjectsInv'
  BY <1>1, <1>3, Arrives
<1> QED BY <1>1, <1>4, SameStore DEF Inv, StoreInv

(* A copy of a reference keeps the invariant.                              *)
LEMMA CopyRefStep ==
    ASSUME Inv, NEW o \in Obj, CopyRef(o)
    PROVE  Inv'
<1> DEFINE r == [refcount EXCEPT ![o] = @ + 1]
           hl == [held EXCEPT ![o] = @ + 1]
<1>0. /\ refcount' = r /\ held' = hl /\ o \in Reach /\ held[o] < MaxHeld
      /\ UNCHANGED <<store, flags, live, handle, destructed, freed, prop, stack,
                     phase, i, ran>>
  BY DEF CopyRef
<1>1. /\ stack \in Seq(Frames) /\ held \in [Obj -> 0..MaxHeld] /\ IsFiniteSet(live)
      /\ refcount \in [Obj -> Nat] /\ live \subseteq Obj
  BY DEF Inv, StoreInv, ObjectsInv, At, FrameInv, RefInv, TableInv
<1>2. o \in live /\ bkind[handle[o]] = "valid"
  BY <1>0, ReachValid
<1>3. /\ hl \in [Obj -> 0..MaxHeld] /\ r \in [Obj -> Nat]
      /\ \A x \in Obj : hl[x] = IF x = o THEN held[o] + 1 ELSE held[x]
      /\ \A x \in Obj : r[x] = IF x = o THEN refcount[o] + 1 ELSE refcount[x]
  BY <1>0, <1>1, HeldAssumption
<1> HIDE DEF r, hl
<1>4. ASSUME NEW x \in live
      PROVE  /\ r[x] >= Owed(x, stack, hl, prop, live) + Pin(x)
             /\ Exact => r[x] = Owed(x, stack, hl, prop, live) + Pin(x)
  <2>1. /\ refcount[x] >= Owed(x, stack, held, prop, live) + Pin(x)
        /\ Exact => refcount[x] = Owed(x, stack, held, prop, live) + Pin(x)
    BY DEF Inv, ObjectsInv, At, RefInv, CountInv
  <2>2. /\ held[x] \in Nat /\ Cardinality(Pointing(prop, live, x)) \in Nat
        /\ Cardinality(Running(stack, x, {"del", "loop"})) \in Nat
        /\ Cardinality(Running(stack, x, {"free"})) \in Nat
        /\ Pin(x) \in Nat /\ refcount[x] \in Nat
    BY <1>1, OwedType DEF Pin
  <2>3. CASE x = o
    <3>1. hl[x] = held[x] + 1 /\ r[x] = refcount[x] + 1
      BY <2>3, <1>3
    <3> QED BY <2>1, <2>2, <3>1 DEF Owed
  <2>4. CASE x # o
    <3>1. hl[x] = held[x] /\ r[x] = refcount[x]
      BY <2>4, <1>1, <1>3
    <3> QED BY <2>1, <2>2, <3>1 DEF Owed
  <2> QED BY <2>3, <2>4
<1>5. \A x \in Obj : hl[x] > 0 => x \in live /\ bkind[handle[x]] = "valid"
  BY <1>2, <1>3 DEF Inv, ObjectsInv, At, RefInv
<1>6. RefInv(r, stack, hl, prop)
  <2>1. CountInv(r, stack, hl, prop)
    BY <1>4 DEF CountInv
  <2> QED BY <1>3, <1>5, <2>1 DEF Inv, ObjectsInv, At, RefInv
<1>7. At(r, stack, hl, prop, destructed, ran)
  BY <1>6 DEF Inv, ObjectsInv, At
<1>8. ObjectsInv'
  BY <1>0, <1>7, Arrives
<1> QED BY <1>0, <1>8, SameStore DEF Inv, StoreInv

(* Storing a reference in a property keeps the invariant.                  *)
LEMMA SetPropStep ==
    ASSUME Inv, NEW x \in Obj, NEW o \in Obj, SetProp(x, o)
    PROVE  Inv'
<1> DEFINE r == [refcount EXCEPT ![o] = @ + 1]
           pr == [prop EXCEPT ![x] = o]
<1>0. /\ refcount' = r /\ prop' = pr /\ x \in Reach /\ o \in Reach /\ prop[x] = Null
      /\ UNCHANGED <<store, flags, live, handle, destructed, freed, held, stack,
                     phase, i, ran>>
  BY DEF SetProp
<1>1. /\ stack \in Seq(Frames) /\ held \in [Obj -> 0..MaxHeld] /\ IsFiniteSet(live)
      /\ refcount \in [Obj -> Nat] /\ live \subseteq Obj
      /\ prop \in [Obj -> Obj \union {Null}]
  BY DEF Inv, StoreInv, ObjectsInv, At, FrameInv, RefInv, TableInv
<1>2. o \in live /\ bkind[handle[o]] = "valid" /\ x \in live
  BY <1>0, ReachValid
<1>3. /\ pr \in [Obj -> Obj \union {Null}] /\ r \in [Obj -> Nat]
      /\ \A y \in live : pr[y] = IF y = x THEN o ELSE prop[y]
      /\ \A y \in Obj : r[y] = IF y = o THEN refcount[o] + 1 ELSE refcount[y]
  BY <1>1
<1> HIDE DEF r, pr
<1>4. ASSUME NEW y \in live
      PROVE  /\ r[y] >= Owed(y, stack, held, pr, live) + Pin(y)
             /\ Exact => r[y] = Owed(y, stack, held, pr, live) + Pin(y)
  <2>1. /\ refcount[y] >= Owed(y, stack, held, prop, live) + Pin(y)
        /\ Exact => refcount[y] = Owed(y, stack, held, prop, live) + Pin(y)
    BY DEF Inv, ObjectsInv, At, RefInv, CountInv
  <2>2. /\ held[y] \in Nat /\ Cardinality(Pointing(prop, live, y)) \in Nat
        /\ Cardinality(Running(stack, y, {"del", "loop"})) \in Nat
        /\ Cardinality(Running(stack, y, {"free"})) \in Nat
        /\ Pin(y) \in Nat /\ refcount[y] \in Nat
    BY <1>1, OwedType DEF Pin
  <2>4. prop[x] # y /\ y \in Obj /\ IsFiniteSet(live) /\ x \in live
        /\ pr[x] = o /\ \A z \in live : z # x => pr[z] = prop[z]
    BY <1>0, <1>1, <1>2, <1>3, NullAssumption
  <2>5. CASE y = o
    <3>1. /\ Cardinality(Pointing(pr, live, y)) = Cardinality(Pointing(prop, live, y)) + 1
          /\ r[y] = refcount[y] + 1
      BY <2>4, <2>5, <1>3, PointingChange
    <3> QED BY <2>1, <2>2, <3>1 DEF Owed
  <2>6. CASE y # o
    <3>1. /\ Cardinality(Pointing(pr, live, y)) = Cardinality(Pointing(prop, live, y))
          /\ r[y] = refcount[y]
      BY <2>4, <2>6, <1>3, PointingChange
    <3> QED BY <2>1, <2>2, <3>1 DEF Owed
  <2> QED BY <2>5, <2>6
<1>5. \A y \in live : pr[y] # Null => pr[y] \in live /\ bkind[handle[pr[y]]] = "valid"
  BY <1>2, <1>3 DEF Inv, ObjectsInv, At, RefInv
<1>6. RefInv(r, stack, held, pr)
  <2>1. CountInv(r, stack, held, pr)
    BY <1>4 DEF CountInv
  <2> QED BY <1>3, <1>5, <2>1 DEF Inv, ObjectsInv, At, RefInv
<1>7. At(r, stack, held, pr, destructed, ran)
  BY <1>6 DEF Inv, ObjectsInv, At
<1>8. ObjectsInv'
  BY <1>0, <1>7, Arrives
<1> QED BY <1>0, <1>8, SameStore DEF Inv, StoreInv

(* Dropping a variable, with the deletion it may cause, keeps the          *)
(* invariant.                                                              *)
LEMMA DropRefStep ==
    ASSUME Inv, NEW o \in Obj, DropRef(o)
    PROVE  Inv'
<1> DEFINE hl == [held EXCEPT ![o] = @ - 1]
<1>1. /\ held[o] > 0 /\ held' = hl /\ zend_object_release(o)
      /\ UNCHANGED <<flags, handle, prop, phase, i>>
  BY DEF DropRef
<1>2. phase # "done"
  BY ProgramNotDone DEF DropRef
<1>3. /\ o \in live /\ bkind[handle[o]] = "valid"
      /\ At([refcount EXCEPT ![o] = @ - 1], stack, hl, prop, destructed, ran)
  BY <1>1, ReleaseVariable DEF Inv, StoreInv, ObjectsInv, At, RefInv
<1> HIDE DEF hl
<1> QED BY <1>1, <1>2, <1>3, ReleaseStep DEF Inv, StoreInv

(* Clearing a property and releasing what it referred to keeps the         *)
(* invariant.                                                              *)
LEMMA PropertyStep ==
    ASSUME Inv, NEW x \in live, prop[x] # Null, phase # "done",
           prop' = [prop EXCEPT ![x] = Null], zend_object_release(prop[x]),
           UNCHANGED <<flags, handle, held, phase, i>>
    PROVE  Inv'
<1> DEFINE pr == [prop EXCEPT ![x] = Null]
           o == prop[x]
<1>1. /\ o \in live /\ bkind[handle[o]] = "valid"
      /\ At([refcount EXCEPT ![o] = @ - 1], stack, held, pr, destructed, ran)
  BY ReleaseProperty DEF Inv, StoreInv, ObjectsInv, At, RefInv
<1>2. prop' = pr /\ zend_object_release(o)
  OBVIOUS
<1> HIDE DEF pr, o
<1> QED BY <1>1, <1>2, ReleaseStep DEF Inv, StoreInv

(* The program unsets a property.                                          *)
LEMMA UnsetPropStep ==
    ASSUME Inv, NEW o \in Obj, UnsetProp(o)
    PROVE  Inv'
<1>1. o \in live /\ phase # "done"
  BY ReachValid, ProgramNotDone DEF UnsetProp
<1> QED BY <1>1, PropertyStep DEF UnsetProp

(* zend_object_std_dtor releases the property of the object it frees.      *)
LEMMA StdDtorStep ==
    ASSUME Inv, zend_object_std_dtor
    PROVE  Inv'
<1>1. Top.obj \in live /\ phase # "done"
  <2>1. stack \in Seq(Frames) /\ stack # <<>>
    BY DEF Inv, ObjectsInv, At, FrameInv, zend_object_std_dtor
  <2>2. Len(stack) \in DOMAIN stack
    BY <2>1, FrontFacts
  <2> QED BY <2>1, <2>2 DEF Inv, ObjectsInv, At, FrameInv, ShutdownInv, Top
<1> DEFINE x == Top.obj
<1>2. /\ x \in live /\ prop[x] # Null /\ prop' = [prop EXCEPT ![x] = Null]
      /\ zend_object_release(prop[x]) /\ UNCHANGED <<flags, handle, held, phase, i>>
  BY <1>1 DEF zend_object_std_dtor
<1> HIDE DEF x
<1> QED BY <1>1, <1>2, PropertyStep

(* A destructor returns to zend_objects_store_del: the object was          *)
(* revived, or it is freed.                                                *)
LEMMA DelDtorReturnStep ==
    ASSUME Inv, DelDtorReturn
    PROVE  Inv'
<1> DEFINE o == Top.obj
           r == [refcount EXCEPT ![o] = @ - 2]
           st == Pop
<1>1. /\ stack # <<>> /\ Top.fn = "del"
      /\ UNCHANGED <<flags, handle, destructed, prop, held, phase, i, ran>>
      /\ IF r[o] = 0 THEN DelFree(o, r, st)
         ELSE refcount' = r /\ stack' = st /\ UNCHANGED <<store, live, freed>>
  BY DEF DelDtorReturn
<1>2. TableInv /\ ListInv /\ ObjectsInv
  BY DEF Inv, StoreInv
<1>3. /\ o \in live /\ o \in destructed /\ o \notin freed
      /\ At(r, st, held, prop, destructed, ran)
  BY <1>1, <1>2, ReleaseCall
<1>4. bkind[handle[o]] = "valid" /\ phase # "done"
  BY <1>1, <1>3 DEF Inv, StoreInv, ObjectsInv, At, FreedInv, TableInv, ShutdownInv
<1> HIDE DEF o, r, st
<1>5. CASE r[o] = 0
  BY <1>1, <1>2, <1>3, <1>4, <1>5, DelFreeStep DEF Inv, StoreInv
<1>6. CASE r[o] # 0
  <2>1. refcount' = r /\ stack' = st /\ UNCHANGED <<store, live, freed>>
    BY <1>1, <1>6
  <2>2. ObjectsInv'
    BY <1>1, <1>3, <2>1, Arrives
  <2> QED BY <1>1, <1>2, <2>1, <2>2, SameStore DEF Inv, StoreInv
<1> QED BY <1>5, <1>6

(* A destructor returns to the loop of                                     *)
(* zend_objects_store_call_destructors.                                    *)
LEMMA LoopDtorReturnStep ==
    ASSUME Inv, LoopDtorReturn
    PROVE  Inv'
<1> DEFINE r == [refcount EXCEPT ![Top.obj] = @ - 2]
           st == Pop
<1>1. /\ stack # <<>> /\ Top.fn = "loop" /\ refcount' = r /\ stack' = st
      /\ UNCHANGED <<store, flags, live, handle, destructed, freed, prop, held,
                     phase, i, ran>>
  BY DEF LoopDtorReturn
<1>2. TableInv /\ ListInv /\ ObjectsInv
  BY DEF Inv, StoreInv
<1>3. At(r, st, held, prop, destructed, ran)
  BY <1>1, <1>2, ReleaseCall
<1> HIDE DEF r, st
<1>4. ObjectsInv'
  BY <1>1, <1>3, Arrives
<1> QED BY <1>1, <1>2, <1>4, SameStore DEF Inv, StoreInv

(* A new object gets a bucket, a count of one and no flags.                *)
LEMMA NewStep ==
    ASSUME Inv, NEW o \in Obj, zend_objects_new(o)
    PROVE  Inv'
<1>1. PICK h \in Handles : zend_objects_store_put(o, h)
  BY DEF zend_objects_new
<1>2. /\ o \notin live /\ live' = live \union {o}
      /\ refcount' = [refcount EXCEPT ![o] = 1] /\ held' = [held EXCEPT ![o] = 1]
      /\ prop' = [prop EXCEPT ![o] = Null] /\ ran' = [ran EXCEPT ![o] = 0]
      /\ destructed' = destructed \ {o} /\ freed' = freed \ {o}
      /\ UNCHANGED <<flags, stack, phase, i>>
  BY DEF zend_objects_new
<1>3. TableInv /\ ListInv /\ ObjectsInv
  BY DEF Inv, StoreInv
<1>4. /\ TableInv'
      /\ bkind[h] \in {"free", "unused"}
      /\ bkind' = [bkind EXCEPT ![h] = "valid"] /\ bobj' = [bobj EXCEPT ![h] = o]
      /\ handle' = [handle EXCEPT ![o] = h]
      /\ \A x \in live : handle[x] # h
      /\ top' >= top /\ (no_reuse => h >= top)
  BY <1>1, <1>2, <1>3, PutTable
<1>5. ListInv'
  BY <1>1, <1>3, PutList
<1>6. active /\ phase \notin {"values", "storage", "done"}
  <2>1. CASE stack = <<>> /\ phase \in {"running", "resources"}
    BY <2>1, <1>3 DEF ObjectsInv, At, PhaseInv
  <2>2. CASE InDestructor
    <3>1. stack \in Seq(Frames) /\ stack # <<>> /\ Top.fn \in {"del", "loop"}
      BY <2>2, <1>3 DEF InDestructor, ObjectsInv, At, FrameInv
    <3>2. Len(stack) \in DOMAIN stack
      BY <3>1, FrontFacts
    <3>3. active
      BY <1>3, <3>1, <3>2 DEF ObjectsInv, At, FrameInv, Top
    <3> QED BY <1>3, <3>3 DEF ObjectsInv, At, PhaseInv
  <2> QED BY <2>1, <2>2 DEF zend_objects_new, ProgramRuns
<1>7. /\ bkind'[handle'[o]] = "valid" /\ handle'[o] = h
      /\ \A x \in live : x # o /\ bkind'[handle'[x]] = bkind[handle[x]]
      /\ \A x \in live : handle'[x] = handle[x]
  BY <1>2, <1>3, <1>4 DEF TableInv
<1>8. /\ refcount \in [Obj -> Nat] /\ held \in [Obj -> 0..MaxHeld]
      /\ prop \in [Obj -> Obj \union {Null}] /\ stack \in Seq(Frames)
      /\ \A x \in Obj : held[x] > 0 => x \in live /\ bkind[handle[x]] = "valid"
      /\ \A x \in live : prop[x] # Null =>
            prop[x] \in live /\ bkind[handle[prop[x]]] = "valid"
      /\ \A k \in DOMAIN stack : stack[k].obj \in live
      /\ live \subseteq Obj /\ IsFiniteSet(live)
  BY <1>3 DEF ObjectsInv, At, RefInv, FrameInv, TableInv
<1>9. /\ refcount' \in [Obj -> Nat] /\ held' \in [Obj -> 0..MaxHeld]
      /\ prop' \in [Obj -> Obj \union {Null}]
      /\ refcount'[o] = 1 /\ held'[o] = 1 /\ prop'[o] = Null
      /\ \A x \in Obj : x # o => /\ refcount'[x] = refcount[x] /\ held'[x] = held[x]
                                 /\ prop'[x] = prop[x]
  BY <1>2, <1>8, HeldAssumption
<1>10. \A x \in live : Pinned(x)' <=> Pinned(x)
  BY <1>2, <1>7 DEF Pinned, flags
<1>11. ~Pinned(o)'
  BY <1>2 DEF Pinned
<1>12. PhaseInv'
  BY <1>2, <1>3 DEF ObjectsInv, At, PhaseInv, flags
<1>13. FreedInv'
  BY <1>2, <1>3, <1>7 DEF ObjectsInv, At, FreedInv
<1>14. FlagInv(destructed, ran)'
  <2>1. /\ ran \in [Obj -> Nat] /\ destructed \subseteq Obj
        /\ live \intersect freed \subseteq destructed
        /\ \A x \in Obj : ran[x] <= 1 /\ (x \notin destructed => ran[x] = 0)
    BY <1>3, <1>6 DEF ObjectsInv, At, FlagInv
  <2>2. ran' \in [Obj -> Nat] /\ ran'[o] = 0 /\ \A x \in Obj : x # o => ran'[x] = ran[x]
    BY <1>2, <2>1
  <2> QED BY <1>2, <2>1, <2>2 DEF FlagInv
<1>15. FrameInv(stack, destructed)'
  <2>1. ASSUME NEW k \in DOMAIN stack
        PROVE  /\ stack[k].obj \in live'
               /\ stack[k].fn \in {"del", "loop"} =>
                     active /\ stack[k].obj \in destructed' /\ stack[k].obj \notin freed'
               /\ stack[k].fn = "free" => bkind'[handle'[stack[k].obj]] = "invalid"
               /\ stack[k].fn # "storage"
    BY <1>2, <1>3, <1>6, <1>7, <1>8 DEF ObjectsInv, At, FrameInv
  <2> QED BY <1>2, <1>3, <2>1 DEF ObjectsInv, At, FrameInv, flags
<1>16. ASSUME NEW x \in live'
       PROVE  /\ refcount'[x] >= Owed(x, stack, held', prop', live') + Pin(x)'
              /\ Exact => refcount'[x] = Owed(x, stack, held', prop', live') + Pin(x)'
  <2>1. CASE x = o
    <3>1. Running(stack, x, {"del", "loop"}) = {} /\ Running(stack, x, {"free"}) = {}
      BY <2>1, <1>2, <1>8 DEF Running
    <3>2. Pointing(prop', live', x) = {}
      BY <2>1, <1>2, <1>8, <1>9, NullAssumption DEF Pointing
    <3>3. Pin(x)' = 0 /\ held'[x] = 1 /\ refcount'[x] = 1
      BY <2>1, <1>9, <1>11 DEF Pin
    <3>4. /\ Cardinality(Running(stack, x, {"del", "loop"})) = 0
          /\ Cardinality(Running(stack, x, {"free"})) = 0
          /\ Cardinality(Pointing(prop', live', x)) = 0
      BY <3>1, <3>2, FS_EmptySet
    <3> QED BY <3>3, <3>4 DEF Owed
  <2>2. CASE x # o
    <3>1. x \in live /\ x \in Obj /\ x # Null
      BY <2>2, <1>2, <1>8, NullAssumption
    <3>2. Pointing(prop', live', x) = Pointing(prop, live, x)
      BY <3>1, <1>2, <1>8, <1>9 DEF Pointing
    <3>3. Pin(x)' = Pin(x) /\ held'[x] = held[x] /\ refcount'[x] = refcount[x]
      BY <2>2, <3>1, <1>9, <1>10 DEF Pin
    <3>4. Owed(x, stack, held', prop', live') = Owed(x, stack, held, prop, live)
      BY <3>2, <3>3 DEF Owed
    <3> QED BY <3>1, <3>3, <3>4, <1>3 DEF ObjectsInv, At, RefInv, CountInv
  <2> QED BY <2>1, <2>2
<1>17. CountInv(refcount, stack, held, prop)'
  <2>1. Exact' <=> Exact
    BY <1>2 DEF Exact, flags
  <2>2. stack' = stack
    BY <1>2
  <2> QED BY <1>16, <2>1, <2>2 DEF CountInv
<1>18. \A x \in Obj : held'[x] > 0 => x \in live' /\ bkind'[handle'[x]] = "valid"
  BY <1>2, <1>7, <1>8, <1>9
<1>19. \A x \in live' : prop'[x] # Null =>
          prop'[x] \in live' /\ bkind'[handle'[prop'[x]]] = "valid"
  <2> SUFFICES ASSUME NEW x \in live', prop'[x] # Null
               PROVE  prop'[x] \in live' /\ bkind'[handle'[prop'[x]]] = "valid"
    OBVIOUS
  <2>1. x \in live /\ prop'[x] = prop[x]
    BY <1>2, <1>8, <1>9
  <2>2. prop[x] \in live /\ bkind[handle[prop[x]]] = "valid"
    BY <2>1, <1>8
  <2> QED BY <2>1, <2>2, <1>2, <1>7
<1>20. RefInv(refcount, stack, held, prop)'
  BY <1>9, <1>17, <1>18, <1>19 DEF RefInv
<1>21. ShutdownInv(stack, destructed)'
  <2> SUFFICES ASSUME phase = "destructors"
               PROVE  /\ i \in 1..top' /\ no_reuse
                      /\ \A g \in Handles : g < i /\ bkind'[g] = "valid" =>
                            bobj'[g] \in destructed'
    BY <1>2, <1>6 DEF ShutdownInv, flags
  <2>1. /\ i \in 1..top /\ no_reuse
        /\ \A g \in Handles : g < i /\ bkind[g] = "valid" => bobj[g] \in destructed
    BY <1>3 DEF ObjectsInv, At, ShutdownInv
  <2>2. h >= top /\ top \in Nat /\ top' \in Nat /\ h \in Int
    BY <2>1, <1>3, <1>4, SizeAssumption DEF TableInv, Handles
  <2>3. i \in 1..top'
    BY <2>1, <2>2, <1>4
  <2>4. ASSUME NEW g \in Handles, g < i, bkind'[g] = "valid"
        PROVE  bobj'[g] \in destructed'
    <3>1. g # h /\ g \in Int
      BY <2>1, <2>2, <2>4
    <3>2. bkind[g] = "valid" /\ bobj'[g] = bobj[g]
      BY <3>1, <2>4, <1>3, <1>4 DEF TableInv
    <3>3. bobj[g] \in live
      BY <3>2, <1>3 DEF TableInv
    <3> QED BY <3>2, <3>3, <2>1, <2>4, <1>2
  <2> QED BY <2>1, <2>3, <2>4
<1>22. ObjectsInv'
  BY <1>12, <1>13, <1>14, <1>15, <1>20, <1>21 DEF ObjectsInv, At
<1> QED BY <1>4, <1>5, <1>22 DEF Inv, StoreInv

(* free_obj returns, to zend_objects_store_del or to the storage loop.     *)
LEMMA FreeReturnStep ==
    ASSUME Inv, FreeReturn
    PROVE  Inv'
<1> DEFINE o == Top.obj
<1>1. /\ stack # <<>> /\ Top.fn \in {"free", "storage"} /\ prop[o] = Null
      /\ stack' = Pop
      /\ IF Top.fn = "free" THEN AddToFreeList(o) ELSE UNCHANGED <<store, live>>
      /\ UNCHANGED <<flags, handle, refcount, destructed, freed, prop, held, phase,
                     i, ran>>
  BY DEF FreeReturn
<1>2. TableInv /\ ListInv /\ ObjectsInv
  BY DEF Inv, StoreInv
<1>3. stack \in Seq(Frames) /\ held \in [Obj -> 0..MaxHeld] /\ IsFiniteSet(live)
      /\ live \subseteq Obj /\ refcount \in [Obj -> Nat]
  BY <1>2 DEF ObjectsInv, At, FrameInv, RefInv, TableInv
<1>4. /\ Pop \in Seq(Frames) /\ Len(Pop) = Len(stack) - 1 /\ Len(stack) \in Nat \ {0}
      /\ \A k \in 1..(Len(stack) - 1) : Pop[k] = stack[k]
      /\ Len(stack) \in DOMAIN stack /\ DOMAIN Pop = 1..(Len(stack) - 1)
      /\ DOMAIN Pop \subseteq DOMAIN stack
  BY <1>1, <1>3, FrontFacts DEF Pop
<1>5. o \in live /\ \A k \in DOMAIN Pop : Pop[k].obj # o /\ Pop[k].obj \in live
  BY <1>2, <1>4 DEF ObjectsInv, At, FrameInv, Top
<1>6. phase # "done"
  BY <1>1, <1>2 DEF ObjectsInv, At, ShutdownInv
<1>7. \A x \in live :
         /\ Cardinality(Running(stack, x, {"del", "loop"})) =
               Cardinality(Running(Pop, x, {"del", "loop"}))
         /\ x # o \/ Top.fn = "storage" =>
               Cardinality(Running(stack, x, {"free"})) = Cardinality(Running(Pop, x, {"free"}))
  <2> SUFFICES ASSUME NEW x \in live
               PROVE  /\ Cardinality(Running(stack, x, {"del", "loop"})) =
                           Cardinality(Running(Pop, x, {"del", "loop"}))
                      /\ x # o \/ Top.fn = "storage" =>
                           Cardinality(Running(stack, x, {"free"})) =
                           Cardinality(Running(Pop, x, {"free"}))
    OBVIOUS
  <2>1. Cardinality(Running(stack, x, {"del", "loop"})) =
           Cardinality(Running(Pop, x, {"del", "loop"}))
    <3>1. Cardinality(Running(stack, x, {"del", "loop"})) =
             IF Top.obj = x /\ Top.fn \in {"del", "loop"}
             THEN Cardinality(Running(Pop, x, {"del", "loop"})) + 1
             ELSE Cardinality(Running(Pop, x, {"del", "loop"}))
      BY <1>1, <1>3, RunningPop DEF Pop, Top
    <3>2. ~ (Top.fn \in {"del", "loop"})
      BY <1>1
    <3> QED BY <3>1, <3>2
  <2>2. Cardinality(Running(stack, x, {"free"})) =
           IF Top.obj = x /\ Top.fn \in {"free"}
           THEN Cardinality(Running(Pop, x, {"free"})) + 1
           ELSE Cardinality(Running(Pop, x, {"free"}))
    BY <1>1, <1>3, RunningPop DEF Pop, Top
  <2> QED BY <2>1, <2>2
<1>8. CASE Top.fn = "storage"
  <2> DEFINE st == Pop
  <2>1. \A x \in live : Owed(x, stack, held, prop, live) = Owed(x, st, held, prop, live)
    BY <1>7, <1>8 DEF Owed
  <2>2. RefInv(refcount, st, held, prop)
    BY <1>2, <2>1 DEF ObjectsInv, At, RefInv, CountInv
  <2>3. FrameInv(st, destructed)
    BY <1>2, <1>4 DEF ObjectsInv, At, FrameInv
  <2>4. ShutdownInv(st, destructed)
    BY <1>2, <1>6 DEF ObjectsInv, At, ShutdownInv
  <2>5. At(refcount, st, held, prop, destructed, ran)
    BY <1>2, <2>2, <2>3, <2>4 DEF ObjectsInv, At
  <2>6. stack' = st /\ UNCHANGED <<store, live>>
    BY <1>1, <1>8
  <2> HIDE DEF st
  <2>7. ObjectsInv'
    BY <1>1, <2>5, <2>6, Arrives
  <2> QED BY <1>1, <1>2, <2>6, <2>7, SameStore DEF Inv, StoreInv
<1>9. CASE Top.fn = "free"
  <2>1. AddToFreeList(o) /\ handle' = handle
    BY <1>1, <1>9
  <2>2. /\ TableInv'
        /\ handle[o] \in Handles /\ bkind' = [bkind EXCEPT ![handle[o]] = "free"]
        /\ live' = live \ {o} /\ UNCHANGED top
        /\ \A x \in live : x # o => handle[x] # handle[o]
        /\ \A g \in Handles : bkind'[g] = "valid" =>
              g # handle[o] /\ bkind[g] = "valid" /\ bobj'[g] = bobj[g]
    BY <1>2, <1>5, <2>1, DropTable
  <2>3. ListInv'
    BY <1>2, <1>5, <2>1, DropList
  <2>4. bkind[handle[o]] = "invalid"
    BY <1>2, <1>4, <1>9 DEF ObjectsInv, At, FrameInv, Top
  <2>5. \A x \in live' : /\ x \in live /\ x # o
                         /\ bkind'[handle'[x]] = bkind[handle[x]]
    BY <1>2, <2>1, <2>2 DEF TableInv
  <2>6. \A x \in live' : Pinned(x)' <=> Pinned(x)
    BY <1>1, <2>5 DEF Pinned, flags
  <2>7. PhaseInv'
    BY <1>1, <1>2 DEF ObjectsInv, At, PhaseInv, flags
  <2>8. FreedInv'
    BY <1>1, <1>2, <2>5 DEF ObjectsInv, At, FreedInv
  <2>9. FlagInv(destructed, ran)'
    BY <1>1, <1>2, <2>5 DEF ObjectsInv, At, FlagInv, flags
  <2>10. FrameInv(stack, destructed)'
    <3>1. ASSUME NEW k \in DOMAIN stack'
          PROVE  /\ stack'[k].obj \in live'
                 /\ stack'[k].fn \in {"del", "loop"} =>
                       active /\ stack'[k].obj \in destructed /\ stack'[k].obj \notin freed
                 /\ stack'[k].fn = "free" => bkind'[handle[stack'[k].obj]] = "invalid"
                 /\ (stack[k].fn = "storage" => phase = "storage" /\ Pinned(stack[k].obj))'
      <4>1. k \in DOMAIN Pop /\ k \in DOMAIN stack /\ stack'[k] = stack[k] /\ stack[k] = Pop[k]
        BY <1>1, <1>4
      <4>2. stack[k].obj \in live'
        BY <4>1, <1>5, <2>2
      <4>3. (Pinned(stack[k].obj))' <=> Pinned(stack[k].obj)
        BY <4>1, <4>2, <2>5, <1>1 DEF Pinned, flags
      <4> QED BY <4>1, <4>2, <4>3, <2>1, <2>5, <1>1, <1>2 DEF ObjectsInv, At, FrameInv
    <3>2. \A j, k \in DOMAIN stack' : j # k => stack'[j].obj # stack'[k].obj
      BY <1>1, <1>2, <1>4 DEF ObjectsInv, At, FrameInv
    <3> QED BY <1>1, <1>4, <3>1, <3>2 DEF FrameInv, flags
  <2>11. ASSUME NEW x \in live'
         PROVE  /\ refcount[x] >= Owed(x, stack', held, prop, live') + Pin(x)'
                /\ Exact => refcount[x] = Owed(x, stack', held, prop, live') + Pin(x)'
    <3>1. Pin(x)' = Pin(x) /\ x \in live /\ x # o /\ x \in Obj /\ x # Null
      BY <2>5, <2>6, <1>3, NullAssumption DEF Pin
    <3>2. Pointing(prop, live', x) = Pointing(prop, live, x)
      BY <3>1, <2>2, <1>1 DEF Pointing
    <3>3. Owed(x, stack', held, prop, live') = Owed(x, stack, held, prop, live)
      BY <3>1, <3>2, <1>1, <1>7 DEF Owed
    <3> QED BY <3>1, <3>3, <1>2 DEF ObjectsInv, At, RefInv, CountInv
  <2>12. CountInv(refcount, stack, held, prop)'
    <3>1. Exact' <=> Exact
      BY <1>1 DEF Exact, flags
    <3> QED BY <2>11, <3>1, <1>1 DEF CountInv
  <2>13. \A x \in Obj : held'[x] > 0 => x \in live' /\ bkind'[handle'[x]] = "valid"
    BY <1>1, <1>2, <2>2, <2>4, <2>5 DEF ObjectsInv, At, RefInv
  <2>14. \A x \in live' : prop'[x] # Null =>
            prop'[x] \in live' /\ bkind'[handle'[prop'[x]]] = "valid"
    BY <1>1, <1>2, <2>2, <2>4, <2>5 DEF ObjectsInv, At, RefInv
  <2>15. RefInv(refcount, stack, held, prop)'
    BY <1>1, <1>2, <2>12, <2>13, <2>14 DEF ObjectsInv, At, RefInv
  <2>16. ShutdownInv(stack, destructed)'
    BY <1>1, <1>2, <1>6, <2>2 DEF ObjectsInv, At, ShutdownInv, flags
  <2>17. ObjectsInv'
    BY <2>7, <2>8, <2>9, <2>10, <2>15, <2>16 DEF ObjectsInv, At
  <2> QED BY <2>2, <2>3, <2>17 DEF Inv, StoreInv
<1> QED BY <1>1, <1>8, <1>9

-----------------------------------------------------------------------------
(* The end of the request.                                                 *)

(* The request moves on, with no call in progress.                         *)
LEMMA PhaseStep ==
    ASSUME Inv, stack = <<>>,
           UNCHANGED <<store, bailed, live, handle, refcount, destructed, freed,
                       prop, held, stack, ran>>,
           fast' = fast \/ phase \notin {"storage", "done"},
           active' => active, Exact' => Exact,
           phase \in {"storage", "done"} => phase' \in {"storage", "done"},
           PhaseInv', ShutdownInv(stack, destructed)'
    PROVE  Inv'
<1>1. TableInv /\ ListInv /\ ObjectsInv
  BY DEF Inv, StoreInv
<1>2. \A x \in live : Pinned(x)' <=> Pinned(x)
  BY <1>1 DEF ObjectsInv, At, FreedInv, Pinned, store
<1>3. FreedInv'
  BY <1>1 DEF ObjectsInv, At, FreedInv, store
<1>4. FlagInv(destructed, ran)'
  BY <1>1 DEF ObjectsInv, At, FlagInv
<1>5. FrameInv(stack, destructed)'
  <2>1. stack' = <<>> /\ DOMAIN stack' = {}
    OBVIOUS
  <2> QED BY <2>1, NoElements DEF FrameInv
<1>6. \A x \in live : Pin(x)' = Pin(x)
  BY <1>2 DEF Pin
<1>7. CountInv(refcount, stack, held, prop)'
  BY <1>1, <1>6 DEF ObjectsInv, At, RefInv, CountInv
<1>8. RefInv(refcount, stack, held, prop)'
  BY <1>1, <1>7 DEF ObjectsInv, At, RefInv, store
<1>9. ObjectsInv'
  BY <1>3, <1>4, <1>5, <1>8 DEF ObjectsInv, At
<1> QED BY <1>1, <1>9, SameStore DEF Inv, StoreInv

(* The steps from one phase of the shutdown to the next keep the           *)
(* invariant.                                                              *)
LEMMA PhaseSteps ==
    ASSUME Inv, StartShutdown \/ StartDestructors \/ DestructorsDone \/ Deactivate
                \/ StartStorage \/ StorageDone
    PROVE  Inv'
<1>1. /\ PhaseInv /\ ShutdownInv(stack, destructed)
      /\ top \in 1..MaxTop /\ top \in Nat
      /\ \A h \in Handles : h \in Int /\ h >= 1 /\ (bkind[h] = "unused" <=> h >= top)
  BY SizeAssumption DEF Inv, StoreInv, TableInv, ObjectsInv, At, Handles
<1>2. CASE StartShutdown
  <2>1. PhaseInv' /\ (Exact' => Exact) /\ ShutdownInv(stack, destructed)'
    BY <1>1, <1>2 DEF StartShutdown, PhaseInv, Exact, ShutdownInv, flags
  <2> QED BY <2>1, <1>2, PhaseStep DEF StartShutdown, flags
<1>3. CASE StartDestructors
  <2>1. PhaseInv' /\ (Exact' => Exact)
    BY <1>1, <1>3 DEF StartDestructors, PhaseInv, Exact
  <2>2. ShutdownInv(stack, destructed)'
    BY <1>1, <1>3 DEF StartDestructors, ShutdownInv, store
  <2> QED BY <2>1, <2>2, <1>3, PhaseStep DEF StartDestructors
<1>4. CASE DestructorsDone
  <2>1. PhaseInv' /\ (Exact' => Exact) /\ ShutdownInv(stack, destructed)'
    BY <1>1, <1>4 DEF DestructorsDone, PhaseInv, Exact, ShutdownInv, flags
  <2> QED BY <2>1, <1>4, PhaseStep DEF DestructorsDone, flags
<1>5. CASE Deactivate
  <2>1. PhaseInv' /\ (Exact' => Exact) /\ ShutdownInv(stack, destructed)'
    BY <1>1, <1>5 DEF Deactivate, PhaseInv, Exact, ShutdownInv
  <2>2. active
    BY <1>1, <1>5 DEF Deactivate, PhaseInv
  <2> QED BY <2>1, <2>2, <1>5, PhaseStep DEF Deactivate
<1>6. CASE StartStorage
  <2>1. PhaseInv' /\ (Exact' => Exact)
    BY <1>1, <1>6 DEF StartStorage, PhaseInv, Exact, flags
  <2>2. ShutdownInv(stack, destructed)'
    <3>1. \A h \in Handles : h > top - 1 => bkind[h] # "valid"
      BY <1>1
    <3> QED BY <1>1, <1>6, <3>1 DEF StartStorage, ShutdownInv, store
  <2> QED BY <2>1, <2>2, <1>6, PhaseStep DEF StartStorage, flags
<1>7. CASE StorageDone
  <2>1. PhaseInv' /\ (Exact' => Exact)
    BY <1>1, <1>7 DEF StorageDone, PhaseInv, Exact, flags
  <2>2. ShutdownInv(stack, destructed)'
    <3>1. \A h \in Handles : h > i
      BY <1>1, <1>7 DEF StorageDone, ShutdownInv
    <3> QED BY <1>1, <1>7, <3>1 DEF StorageDone, ShutdownInv, store
  <2> QED BY <2>1, <2>2, <1>7, PhaseStep DEF StorageDone, flags
<1> QED BY <1>2, <1>3, <1>4, <1>5, <1>6, <1>7

(* A destructor is called by the loop.                                     *)
LEMMA LoopDestructor ==
    ASSUME Inv, stack = <<>>, active, NEW o \in live, o \notin destructed
    PROVE  /\ RefInv([refcount EXCEPT ![o] = @ + 2], <<[fn |-> "loop", obj |-> o]>>, held, prop)
           /\ FrameInv(<<[fn |-> "loop", obj |-> o]>>, destructed \union {o})
           /\ FlagInv(destructed \union {o}, [ran EXCEPT ![o] = @ + 1])
<1> DEFINE f == [fn |-> "loop", obj |-> o]
           st == <<f>>
           r == [refcount EXCEPT ![o] = @ + 2]
           rn == [ran EXCEPT ![o] = @ + 1]
<1>1. TableInv /\ ListInv /\ ObjectsInv
  BY DEF Inv, StoreInv
<1>2. /\ held \in [Obj -> 0..MaxHeld] /\ IsFiniteSet(live) /\ live \subseteq Obj
      /\ refcount \in [Obj -> Nat] /\ o \in Obj /\ o \notin freed
      /\ ran \in [Obj -> Nat] /\ ran[o] = 0
  BY <1>1 DEF ObjectsInv, At, RefInv, TableInv, FlagInv
<1>3. /\ f \in Frames /\ st \in Seq(Frames) /\ DOMAIN st = {1} /\ st[1] = f
      /\ st = Append(stack, f) /\ stack \in Seq(Frames)
  BY <1>2 DEF Frames
<1>4. FrameInv(st, destructed \union {o})
  BY <1>2, <1>3 DEF FrameInv
<1>5. rn \in [Obj -> Nat] /\ rn[o] = 1 /\ \A x \in Obj : x # o => rn[x] = ran[x]
  BY <1>2
<1>6. FlagInv(destructed \union {o}, rn)
  <2> HIDE DEF rn
  <2> QED BY <1>1, <1>2, <1>5 DEF ObjectsInv, At, FlagInv
<1>7. r \in [Obj -> Nat] /\ \A x \in Obj : r[x] = IF x = o THEN refcount[o] + 2 ELSE refcount[x]
  BY <1>2
<1>8. ASSUME NEW x \in live
      PROVE  /\ r[x] >= Owed(x, st, held, prop, live) + Pin(x)
             /\ Exact => r[x] = Owed(x, st, held, prop, live) + Pin(x)
  <2>1. /\ refcount[x] >= Owed(x, stack, held, prop, live) + Pin(x)
        /\ Exact => refcount[x] = Owed(x, stack, held, prop, live) + Pin(x)
    BY <1>1 DEF ObjectsInv, At, RefInv, CountInv
  <2>2. /\ held[x] \in Nat /\ Cardinality(Pointing(prop, live, x)) \in Nat
        /\ Cardinality(Running(stack, x, {"del", "loop"})) \in Nat
        /\ Cardinality(Running(stack, x, {"free"})) \in Nat
        /\ Pin(x) \in Nat /\ refcount[x] \in Nat
    BY <1>2, <1>3, OwedType DEF Pin
  <2>3. Cardinality(Running(st, x, {"del", "loop"})) =
           IF x = o THEN Cardinality(Running(stack, x, {"del", "loop"})) + 1
           ELSE Cardinality(Running(stack, x, {"del", "loop"}))
    <3>1. Cardinality(Running(Append(stack, f), x, {"del", "loop"})) =
             IF f.obj = x /\ f.fn \in {"del", "loop"}
             THEN Cardinality(Running(stack, x, {"del", "loop"})) + 1
             ELSE Cardinality(Running(stack, x, {"del", "loop"}))
      <4>1. f \in Frames /\ stack \in Seq(Frames)
        BY <1>3
      <4> HIDE DEF f
      <4> QED BY ONLY <4>1, RunningAppend
    <3>2. f.obj = o /\ f.fn = "loop"
      OBVIOUS
    <3> HIDE DEF f, st
    <3> QED BY <3>1, <3>2, <1>3
  <2>4. Cardinality(Running(st, x, {"free"})) = Cardinality(Running(stack, x, {"free"}))
    <3>1. Cardinality(Running(Append(stack, f), x, {"free"})) =
             IF f.obj = x /\ f.fn \in {"free"}
             THEN Cardinality(Running(stack, x, {"free"})) + 1
             ELSE Cardinality(Running(stack, x, {"free"}))
      <4>1. f \in Frames /\ stack \in Seq(Frames)
        BY <1>3
      <4> HIDE DEF f
      <4> QED BY ONLY <4>1, RunningAppend
    <3>2. f.fn = "loop"
      OBVIOUS
    <3> HIDE DEF f, st
    <3> QED BY <3>1, <3>2, <1>3
  <2>5. r[x] = IF x = o THEN refcount[x] + 2 ELSE refcount[x]
    BY <1>2, <1>7
  <2> HIDE DEF r, st
  <2>6. CASE x = o
    <3>1. 2 * Cardinality(Running(st, x, {"del", "loop"})) =
             2 * Cardinality(Running(stack, x, {"del", "loop"})) + 2
      BY <2>2, <2>3, <2>6
    <3>2. Owed(x, st, held, prop, live) = Owed(x, stack, held, prop, live) + 2
          /\ Owed(x, stack, held, prop, live) \in Nat
      BY <3>1, <2>2, <2>4 DEF Owed
    <3> QED BY <3>2, <2>1, <2>2, <2>5, <2>6
  <2>7. CASE x # o
    BY <2>1, <2>2, <2>3, <2>4, <2>5, <2>7 DEF Owed
  <2> QED BY <2>6, <2>7
<1>9. CountInv(r, st, held, prop)
  <2> HIDE DEF r, st
  <2> QED BY <1>8 DEF CountInv
<1>10. RefInv(r, st, held, prop)
  <2> HIDE DEF r, st
  <2> QED BY <1>1, <1>7, <1>9 DEF ObjectsInv, At, RefInv
<1> QED BY <1>4, <1>6, <1>10

(* One iteration of zend_objects_store_call_destructors keeps the          *)
(* invariant.                                                              *)
LEMMA CallDestructorsStepInv ==
    ASSUME Inv, CallDestructorsStep
    PROVE  Inv'
<1>0. TableInv /\ ListInv /\ ObjectsInv
  BY DEF Inv, StoreInv
<1>1. /\ phase = "destructors" /\ stack = <<>> /\ i < top /\ i' = i + 1
      /\ UNCHANGED <<store, flags, live, handle, freed, prop, held, phase>>
  BY DEF CallDestructorsStep
<1>2. /\ i \in 1..top /\ no_reuse /\ top \in Nat /\ top \in 1..MaxTop
      /\ \A h \in Handles : h < i /\ bkind[h] = "valid" => bobj[h] \in destructed
      /\ i \in Handles /\ active
  BY <1>0, <1>1, SizeAssumption DEF ObjectsInv, At, ShutdownInv, TableInv, Handles, PhaseInv
<1>3. /\ \A x : Pinned(x)' <=> Pinned(x)
      /\ \A x : Pin(x)' = Pin(x)
      /\ Exact' <=> Exact
  BY <1>1 DEF Pinned, Pin, Exact, flags, store
<1>4. PhaseInv' /\ FreedInv'
  BY <1>0, <1>1, <1>2 DEF ObjectsInv, At, PhaseInv, FreedInv, flags, store
<1>5. /\ FlagInv(destructed, ran)' /\ FrameInv(stack, destructed)'
      /\ RefInv(refcount, stack, held, prop)'
      /\ destructed \subseteq destructed'
      /\ bkind[i] = "valid" => bobj[i] \in destructed'
  <2>1. ASSUME NEW r, NEW st, NEW ds, NEW rn, refcount' = r, stack' = st, destructed' = ds,
               ran' = rn, FlagInv(ds, rn), FrameInv(st, ds), RefInv(r, st, held, prop)
        PROVE  /\ FlagInv(destructed, ran)' /\ FrameInv(stack, destructed)'
               /\ RefInv(refcount, stack, held, prop)'
    <3>1. FlagInv(destructed, ran)'
      BY <1>1, <2>1 DEF FlagInv, flags
    <3>2. FrameInv(stack, destructed)'
      BY <1>1, <2>1 DEF FrameInv, Pinned, flags, store
    <3>3. CountInv(refcount, stack, held, prop)'
      BY <1>1, <1>3, <2>1 DEF RefInv, CountInv
    <3>4. RefInv(refcount, stack, held, prop)'
      BY <1>1, <2>1, <3>3 DEF RefInv, store
    <3> QED BY <3>1, <3>2, <3>4
  <2>2. /\ FlagInv(destructed, ran) /\ FrameInv(stack, destructed)
        /\ RefInv(refcount, stack, held, prop)
    BY <1>0 DEF ObjectsInv, At
  <2>3. CASE ~ (bkind[i] = "valid" /\ bobj[i] \notin destructed)
    <3>1. refcount' = refcount /\ stack' = stack /\ destructed' = destructed /\ ran' = ran
      BY <2>3 DEF CallDestructorsStep
    <3> QED BY <2>1, <2>2, <2>3, <3>1
  <2>4. CASE bkind[i] = "valid" /\ bobj[i] \notin destructed
    <3> DEFINE o == bobj[i]
               ds == destructed \union {o}
    <3>0. o \in live /\ o \in Obj /\ o \notin destructed
      BY <2>4, <1>0, <1>2 DEF TableInv
    <3>1. destructed' = ds /\ ds \subseteq Obj
      BY <2>2, <2>4, <3>0 DEF CallDestructorsStep, FlagInv
    <3>2. CASE o \in Dtor
      <4> DEFINE r == [refcount EXCEPT ![o] = @ + 2]
                 rn == [ran EXCEPT ![o] = @ + 1]
                 st == <<[fn |-> "loop", obj |-> o]>>
      <4>1. refcount' = r /\ ran' = rn /\ stack' = Append(stack, [fn |-> "loop", obj |-> o])
        BY <2>4, <3>2 DEF CallDestructorsStep
      <4>2. stack' = st
        BY <4>1, <1>1
      <4>3. RefInv(r, st, held, prop) /\ FrameInv(st, ds) /\ FlagInv(ds, rn)
        <5> HIDE DEF o
        <5> QED BY <3>0, <1>1, <1>2, LoopDestructor
      <4>4. o \in ds /\ destructed \subseteq ds
        OBVIOUS
      <4> HIDE DEF r, rn, st, ds
      <4> QED BY <2>1, <3>1, <4>1, <4>2, <4>3, <4>4
    <3>3. CASE o \notin Dtor
      <4>1. refcount' = refcount /\ ran' = ran /\ stack' = stack
        BY <2>4, <3>3 DEF CallDestructorsStep
      <4>2. At(refcount, stack, held, prop, ds, ran)
        <5> HIDE DEF o
        <5> QED BY <1>0, <3>0, FlagSet DEF ObjectsInv
      <4>3. RefInv(refcount, stack, held, prop) /\ FrameInv(stack, ds) /\ FlagInv(ds, ran)
        BY <4>2 DEF At
      <4>4. o \in ds /\ destructed \subseteq ds
        OBVIOUS
      <4> HIDE DEF ds
      <4> QED BY <2>1, <3>1, <4>1, <4>3, <4>4
    <3> QED BY <3>2, <3>3
  <2> QED BY <2>3, <2>4
<1>6. ShutdownInv(stack, destructed)'
  <2>1. i' \in 1..top'
    BY <1>1, <1>2 DEF store
  <2>2. ASSUME NEW h \in Handles, h < i + 1, bkind[h] = "valid"
        PROVE  bobj[h] \in destructed'
    <3>1. h \in Int /\ (h < i \/ h = i)
      BY <1>2, <2>2, SizeAssumption DEF Handles
    <3> QED BY <3>1, <2>2, <1>2, <1>5
  <2> QED BY <1>1, <1>2, <2>1, <2>2 DEF ShutdownInv, flags, store
<1>7. ObjectsInv'
  BY <1>4, <1>5, <1>6 DEF ObjectsInv, At
<1> QED BY <1>0, <1>1, <1>7, SameStore DEF Inv, StoreInv

(* The contents of an object are freed by the storage loop: it is pinned,  *)
(* or a fast shutdown leaves it as it is.                                  *)
LEMMA StorageStepInv ==
    ASSUME Inv, StorageStep
    PROVE  Inv'
<1>0. TableInv /\ ListInv /\ ObjectsInv
  BY DEF Inv, StoreInv
<1>1. /\ phase = "storage" /\ stack = <<>> /\ i >= 1 /\ i' = i - 1
      /\ UNCHANGED <<store, flags, live, handle, destructed, prop, held, phase, ran>>
  BY DEF StorageStep
<1>2. /\ i \in 0..(top - 1) /\ top \in 1..MaxTop /\ i \in Handles /\ i \in Nat /\ ~active
      /\ \A h \in Handles : h > i /\ bkind[h] = "valid" => bobj[h] \in freed
  BY <1>0, <1>1, SizeAssumption DEF ObjectsInv, At, ShutdownInv, TableInv, Handles, PhaseInv
<1>3. /\ refcount \in [Obj -> Nat] /\ held \in [Obj -> 0..MaxHeld]
      /\ live \subseteq Obj /\ IsFiniteSet(live) /\ stack \in Seq(Frames)
  BY <1>0 DEF ObjectsInv, At, RefInv, FrameInv, TableInv
<1>4. Exact' <=> Exact
  BY <1>1 DEF Exact, flags
<1>5. CASE ~ (bkind[i] = "valid" /\ bobj[i] \notin freed)
  <2>1. UNCHANGED <<freed, refcount, stack>>
    BY <1>5 DEF StorageStep
  <2>2. \A x : (Pinned(x)' <=> Pinned(x)) /\ Pin(x)' = Pin(x)
    BY <1>1, <2>1 DEF Pinned, Pin, flags, store
  <2>3. PhaseInv' /\ FreedInv' /\ FlagInv(destructed, ran)'
    BY <1>0, <1>1, <1>2, <2>1 DEF ObjectsInv, At, PhaseInv, FreedInv, FlagInv, flags, store
  <2>4. FrameInv(stack, destructed)'
    BY <1>1, <2>1, NoElements DEF FrameInv
  <2>5. CountInv(refcount, stack, held, prop)'
    BY <1>0, <1>1, <1>4, <2>1, <2>2 DEF ObjectsInv, At, RefInv, CountInv
  <2>6. RefInv(refcount, stack, held, prop)'
    BY <1>0, <1>1, <2>1, <2>5 DEF ObjectsInv, At, RefInv, store
  <2>7. ASSUME NEW h \in Handles, h > i - 1, bkind[h] = "valid"
        PROVE  bobj[h] \in freed
    <3>1. h \in Int /\ (h > i \/ h = i)
      BY <1>2, <2>7, SizeAssumption DEF Handles
    <3> QED BY <3>1, <2>7, <1>2, <1>5
  <2>8. ShutdownInv(stack, destructed)'
    <3>1. i - 1 \in 0..(top - 1)
      BY <1>1, <1>2
    <3> QED BY <1>1, <2>1, <2>7, <3>1 DEF ShutdownInv, store
  <2>9. ObjectsInv'
    BY <2>3, <2>4, <2>6, <2>8 DEF ObjectsInv, At
  <2> QED BY <1>0, <1>1, <2>9, SameStore DEF Inv, StoreInv
<1>6. CASE bkind[i] = "valid" /\ bobj[i] \notin freed
  <2>0. PICK o : o = bobj[i]
    OBVIOUS
  <2> DEFINE f == [fn |-> "storage", obj |-> o]
             plain == fast /\ o \in StdFree
  <2>1. /\ o \in live /\ o \in Obj /\ handle[o] = i /\ bkind[handle[o]] = "valid"
        /\ o \notin freed
    BY <1>0, <1>2, <1>6, <2>0 DEF TableInv
  <2>2. freed' = freed \union {o}
    BY <1>6, <2>0 DEF StorageStep
  <2>3. plain => UNCHANGED <<refcount, stack>>
    BY <1>6, <2>0 DEF StorageStep
  <2>4. ~plain => /\ refcount' = [refcount EXCEPT ![o] = @ + 1]
                  /\ stack' = Append(stack, f)
    BY <1>6, <2>0 DEF StorageStep
  <2>5. /\ \A x \in live : x # o => (Pinned(x)' <=> Pinned(x))
        /\ ~Pinned(o)
        /\ Pinned(o)' <=> ~plain
    BY <1>1, <2>1, <2>2 DEF Pinned, flags, store
  <2>6. stack' = <<>> \/ (stack' = <<f>> /\ ~plain)
    BY <1>1, <2>3, <2>4
  <2>7. f \in Frames
    BY <2>1 DEF Frames
  <2> HIDE DEF plain
  <2>8. PhaseInv'
    BY <1>0, <1>1, <1>2, <2>1, <2>2 DEF ObjectsInv, At, PhaseInv, flags
  <2>9. FreedInv'
    BY <1>0, <1>1, <2>2 DEF ObjectsInv, At, FreedInv, store
  <2>10. FlagInv(destructed, ran)'
    BY <1>0, <1>1, <1>2 DEF ObjectsInv, At, FlagInv, flags
  <2>11. FrameInv(stack, destructed)'
    <3>1. CASE stack' = <<>>
      BY <3>1, NoElements DEF FrameInv
    <3>2. CASE stack' = <<f>> /\ ~plain
      <4>1. stack' \in Seq(Frames) /\ DOMAIN stack' = {1} /\ stack'[1] = f
        BY <3>2, <2>7
      <4>2. f.obj = o /\ f.fn = "storage"
        OBVIOUS
      <4>3. (Pinned(stack[1].obj))' <=> Pinned(o)'
        BY <4>1, <4>2 DEF Pinned
      <4>4. \A k \in DOMAIN stack' : k = 1
        BY <4>1
      <4> HIDE DEF f
      <4>5. /\ stack'[1].obj \in live' /\ stack'[1].fn = "storage" /\ phase' = "storage"
            /\ (Pinned(stack[1].obj))'
        BY <1>1, <2>1, <2>5, <3>2, <4>1, <4>2, <4>3
      <4> QED BY <4>1, <4>4, <4>5 DEF FrameInv
    <3> QED BY <3>1, <3>2, <2>6
  <2>12. refcount' \in [Obj -> Nat]
    BY <1>3, <2>1, <2>3, <2>4
  <2>13. ASSUME NEW x \in live
         PROVE  /\ refcount'[x] >= Owed(x, stack', held, prop, live) + Pin(x)'
                /\ Exact => refcount'[x] = Owed(x, stack', held, prop, live) + Pin(x)'
    <3>1. /\ refcount[x] >= Owed(x, stack, held, prop, live) + Pin(x)
          /\ Exact => refcount[x] = Owed(x, stack, held, prop, live) + Pin(x)
      BY <1>0 DEF ObjectsInv, At, RefInv, CountInv
    <3>2. Owed(x, stack, held, prop, live) \in Nat /\ refcount[x] \in Nat /\ x \in Obj
      BY <1>3, OwedType
    <3>3. Owed(x, stack', held, prop, live) = Owed(x, stack, held, prop, live)
      <4>1. CASE plain
        BY <4>1, <2>3
      <4>2. CASE ~plain
        <5>1. stack' = Append(stack, f) /\ f.fn = "storage"
          BY <4>2, <2>4
        <5>2. f \in Frames /\ stack \in Seq(Frames)
          BY <1>3, <2>7
        <5> HIDE DEF f
        <5>3. Cardinality(Running(Append(stack, f), x, {"del", "loop"})) =
                IF f.obj = x /\ f.fn \in {"del", "loop"}
                THEN Cardinality(Running(stack, x, {"del", "loop"})) + 1
                ELSE Cardinality(Running(stack, x, {"del", "loop"}))
          BY ONLY <5>2, RunningAppend
        <5>4. Cardinality(Running(Append(stack, f), x, {"free"})) =
                IF f.obj = x /\ f.fn \in {"free"}
                THEN Cardinality(Running(stack, x, {"free"})) + 1
                ELSE Cardinality(Running(stack, x, {"free"}))
          BY ONLY <5>2, RunningAppend
        <5> QED BY <5>1, <5>3, <5>4 DEF Owed
      <4> QED BY <4>1, <4>2
    <3>4. CASE x = o
      <4>1. CASE plain
        <5>1. refcount' = refcount /\ Pin(x)' = 0 /\ Pin(x) = 0
          BY <3>4, <4>1, <2>3, <2>5 DEF Pin
        <5> QED BY <5>1, <3>1, <3>3
      <4>2. CASE ~plain
        <5>1. refcount'[x] = refcount[x] + 1 /\ Pin(x)' = 1 /\ Pin(x) = 0
          BY <3>4, <4>2, <2>1, <2>4, <2>5, <1>3 DEF Pin
        <5> QED BY <5>1, <3>1, <3>2, <3>3
      <4> QED BY <4>1, <4>2
    <3>5. CASE x # o
      <4>1. refcount'[x] = refcount[x] /\ Pin(x)' = Pin(x)
        BY <3>2, <3>5, <2>3, <2>4, <2>5, <1>3 DEF Pin
      <4> QED BY <4>1, <3>1, <3>3
    <3> QED BY <3>4, <3>5
  <2>14. CountInv(refcount, stack, held, prop)'
    BY <1>1, <1>4, <2>13 DEF CountInv
  <2>15. RefInv(refcount, stack, held, prop)'
    BY <1>0, <1>1, <2>12, <2>14 DEF ObjectsInv, At, RefInv, store
  <2>16. ASSUME NEW h \in Handles, h > i - 1, bkind[h] = "valid"
         PROVE  bobj[h] \in freed'
    <3>1. h \in Int /\ (h > i \/ h = i)
      BY <1>2, <2>16, SizeAssumption DEF Handles
    <3>2. bobj[i] \in freed'
      BY <2>0, <2>2
    <3> QED BY <3>1, <3>2, <2>16, <1>2, <2>2
  <2>17. ShutdownInv(stack, destructed)'
    <3>1. i - 1 \in 0..(top - 1)
      BY <1>1, <1>2
    <3> QED BY <1>1, <2>16, <3>1 DEF ShutdownInv, store
  <2>18. ObjectsInv'
    BY <2>8, <2>9, <2>10, <2>11, <2>15, <2>17 DEF ObjectsInv, At
  <2> QED BY <1>0, <1>1, <2>18, SameStore DEF Inv, StoreInv
<1> QED BY <1>5, <1>6

(* The calls that a bailout abandons leave their references behind.        *)
LEMMA BailoutInv ==
    ASSUME Inv, Bailout
    PROVE  Inv'
<1> DEFINE marked == { bobj[h] : h \in { g \in Handles : g < top /\ bkind[g] = "valid" } }
<1>0. TableInv /\ ListInv /\ ObjectsInv
  BY DEF Inv, StoreInv
<1>1. /\ phase \in {"symbols", "destructors"}
      /\ stack' = <<>> /\ bailed' = TRUE /\ phase' = "resources"
      /\ destructed' = destructed \union marked
      /\ UNCHANGED <<store, no_reuse, active, fast, live, handle, refcount, freed,
                     prop, held, i, ran>>
  BY DEF Bailout
<1>2. marked \subseteq Obj
  BY <1>0 DEF TableInv
<1> HIDE DEF marked
<1>3. \A x : (Pinned(x)' <=> Pinned(x)) /\ Pin(x)' = Pin(x)
  BY <1>1 DEF Pinned, Pin, store
<1>4. PhaseInv' /\ FreedInv' /\ ShutdownInv(stack, destructed)'
  BY <1>0, <1>1 DEF ObjectsInv, At, PhaseInv, FreedInv, ShutdownInv, store
<1>5. FlagInv(destructed, ran)'
  BY <1>0, <1>1, <1>2 DEF ObjectsInv, At, FlagInv
<1>6. FrameInv(stack, destructed)'
  BY <1>1, NoElements DEF FrameInv
<1>7. ASSUME NEW x \in live
      PROVE  refcount[x] >= Owed(x, <<>>, held, prop, live) + Pin(x)
  <2>1. refcount[x] >= Owed(x, stack, held, prop, live) + Pin(x)
    BY <1>0 DEF ObjectsInv, At, RefInv, CountInv
  <2>2. /\ held[x] \in Nat /\ Cardinality(Pointing(prop, live, x)) \in Nat
        /\ Cardinality(Running(stack, x, {"del", "loop"})) \in Nat
        /\ Cardinality(Running(stack, x, {"free"})) \in Nat
        /\ Pin(x) \in Nat /\ refcount[x] \in Nat
    <3>1. /\ stack \in Seq(Frames) /\ held \in [Obj -> 0..MaxHeld] /\ IsFiniteSet(live)
          /\ refcount \in [Obj -> Nat] /\ x \in Obj
      BY <1>0 DEF ObjectsInv, At, FrameInv, RefInv, TableInv
    <3> QED BY <3>1, OwedType DEF Pin
  <2>3. /\ Cardinality(Running(<<>>, x, {"del", "loop"})) = 0
        /\ Cardinality(Running(<<>>, x, {"free"})) = 0
    <3>1. Running(<<>>, x, {"del", "loop"}) = {} /\ Running(<<>>, x, {"free"}) = {}
      BY DEF Running
    <3> QED BY <3>1, FS_EmptySet
  <2> QED BY <2>1, <2>2, <2>3 DEF Owed
<1>8. CountInv(refcount, stack, held, prop)'
  <2>1. ~Exact'
    BY <1>1 DEF Exact
  <2> QED BY <1>1, <1>3, <1>7, <2>1 DEF CountInv
<1>9. RefInv(refcount, stack, held, prop)'
  BY <1>0, <1>1, <1>8 DEF ObjectsInv, At, RefInv, store
<1>10. ObjectsInv'
  BY <1>4, <1>5, <1>6, <1>9 DEF ObjectsInv, At
<1> QED BY <1>0, <1>1, <1>10, SameStore DEF Inv, StoreInv

-----------------------------------------------------------------------------
(* The theorems.                                                           *)

(* The empty store satisfies the invariant.                                *)
LEMMA InitInv == Init => Inv
<1> SUFFICES ASSUME Init PROVE Inv
  OBVIOUS
<1>1. TableInv
  <2>1. IsFiniteSet(live)
    BY FS_EmptySet DEF Init
  <2>2. top \in 1..MaxTop /\ size \in Nat /\ top <= size
    BY SizeAssumption DEF Init
  <2>3. \A h \in Handles : bkind[h] = "unused" /\ h >= top
    BY SizeAssumption DEF Init, Handles
  <2> QED BY <2>1, <2>2, <2>3 DEF Init, TableInv
<1>2. ListInv
  <2>1. Free = {} /\ Cardinality(Free) = 0 /\ free_list_head = -1
    BY FS_EmptySet DEF Init, Free
  <2>2. PICK rank \in [Free -> 1..Cardinality(Free)] : TRUE
    <3>1. [h \in Free |-> 1] \in [Free -> 1..Cardinality(Free)]
      BY <2>1
    <3> QED BY <3>1
  <2>3. Ranks(rank)
    BY <2>1, <2>2 DEF Ranks
  <2> QED BY <2>1, <2>2, <2>3 DEF ListInv
<1>3. PhaseInv
  BY DEF Init, PhaseInv
<1>4. FreedInv /\ FlagInv(destructed, ran)
  BY DEF Init, FreedInv, FlagInv
<1>5. FrameInv(stack, destructed)
  BY NoElements DEF Init, FrameInv
<1>6. RefInv(refcount, stack, held, prop)
  BY HeldAssumption DEF Init, RefInv, CountInv
<1>7. ShutdownInv(stack, destructed)
  BY DEF Init, ShutdownInv
<1> QED BY <1>1, <1>2, <1>3, <1>4, <1>5, <1>6, <1>7 DEF Inv, StoreInv, ObjectsInv, At

(* Every step keeps the invariant.                                         *)
LEMMA NextInv ==
    ASSUME Inv, [Next]_vars
    PROVE  Inv'
<1>1. CASE Program
  <2>1. PICK o \in Obj :
          \/ zend_objects_new(o) \/ zend_object_store_ctor_failed(o)
          \/ CopyRef(o) \/ DropRef(o) \/ UnsetProp(o)
          \/ \E c \in Obj : SetProp(o, c)
    BY <1>1 DEF Program
  <2> QED BY <2>1, NewStep, CtorFailedStep, CopyRefStep, DropRefStep, UnsetPropStep,
             SetPropStep
<1>2. CASE Returns
  BY <1>2, DelDtorReturnStep, LoopDtorReturnStep, StdDtorStep, FreeReturnStep DEF Returns
<1>3. CASE StartShutdown
  BY <1>3, PhaseSteps
<1>4. CASE Shutdown
  BY <1>4, PhaseSteps, CallDestructorsStepInv, StorageStepInv DEF Shutdown
<1>5. CASE Bailout
  BY <1>5, BailoutInv
<1>6. CASE UNCHANGED vars
  <2>1. /\ UNCHANGED <<store, live, freed, flags, handle, phase, i>>
        /\ UNCHANGED <<refcount, stack, held, prop, destructed, ran>>
    BY <1>6 DEF vars
  <2>2. ObjectsInv'
    BY <2>1, Arrives DEF Inv, ObjectsInv
  <2> QED BY <2>1, <2>2, SameStore DEF Inv, StoreInv
<1> QED BY <1>1, <1>2, <1>3, <1>4, <1>5, <1>6 DEF Next

(* The inductive invariant holds in every state of the object store.       *)
THEOREM StoreInvariant == Spec => []Inv
<1> QED BY InitInv, NextInv, PTL DEF Spec

(* The count of an object is the number of references to it, through every *)
(* nesting of zend_object_release, destructors and free_obj, for any       *)
(* number of objects and any depth of calls; what a bailout abandons and a *)
(* fast shutdown drops can only leave it too high.                         *)
THEOREM CountsAreReferences == Spec => []RefcountSound
<1>1. Inv => RefcountSound
  <2> SUFFICES ASSUME Inv, NEW o \in live
               PROVE  /\ refcount[o] >= Refs(o)
                      /\ Exact => refcount[o] = Refs(o)
    BY DEF RefcountSound, Exact
  <2>1. Refs(o) = Owed(o, stack, held, prop, live) + Pin(o)
    BY DEF Refs, Calls, Owed, Pointing, Running, Pin
  <2> QED BY <2>1 DEF Inv, ObjectsInv, At, RefInv, CountInv
<1> QED BY <1>1, StoreInvariant, PTL

(* No variable, no property of a live object and no call in progress leads *)
(* to an object zend_objects_store_del has given back or, while the        *)
(* program runs, to one whose contents free_obj has released.              *)
THEOREM ReferencesStayValid == Spec => []NoDangling
<1>1. Inv => NoDangling
  <2> SUFFICES ASSUME Inv, NEW o \in Obj,
                      held[o] > 0 \/ (\E x \in live : prop[x] = o)
                      \/ Calls(o, {"del", "loop"}) > 0
               PROVE  o \in live /\ (o \in freed => phase \in {"storage", "done"})
    BY DEF NoDangling
  <2>1. CASE held[o] > 0 \/ (\E x \in live : prop[x] = o)
    <3>1. o \in live /\ bkind[handle[o]] = "valid"
      BY <2>1, NullAssumption DEF Inv, ObjectsInv, At, RefInv
    <3> QED BY <3>1 DEF Inv, ObjectsInv, At, FreedInv
  <2>2. CASE Calls(o, {"del", "loop"}) > 0
    <3>1. stack \in Seq(Frames)
      BY DEF Inv, ObjectsInv, At, FrameInv
    <3>2. Cardinality(Running(stack, o, {"del", "loop"})) > 0
      BY <2>2 DEF Calls, Running
    <3>3. Running(stack, o, {"del", "loop"}) # {}
      BY <3>1, <3>2, RunningFinite
    <3>4. PICK k \in DOMAIN stack : stack[k].obj = o /\ stack[k].fn \in {"del", "loop"}
      BY <3>3 DEF Running
    <3> QED BY <3>4 DEF Inv, ObjectsInv, At, FrameInv
  <2> QED BY <2>1, <2>2
<1> QED BY <1>1, StoreInvariant, PTL

(* Handles identify objects, and the free list passes every free bucket    *)
(* once and no other: zend_objects_store_put never hands out a bucket in   *)
(* use and loses none.                                                     *)
THEOREM HandlesIdentifyObjects == Spec => []StoreSound
<1>1. Inv => StoreSound
  <2> SUFFICES ASSUME Inv PROVE StoreSound
    OBVIOUS
  <2>1. TypeOK
    BY DEF Inv, StoreInv, TableInv, ObjectsInv, At, PhaseInv, FlagInv, FrameInv, RefInv,
           TypeOK
  <2>2. FreeListSound
    <3>1. PICK rank \in [Free -> 1..Cardinality(Free)] : Ranks(rank)
      BY DEF Inv, StoreInv, ListInv
    <3>2. \A h, g \in Free : bnext[h] = g => rank[g] < rank[h]
      <4> SUFFICES ASSUME NEW h \in Free, NEW g \in Free, bnext[h] = g
                   PROVE  rank[g] < rank[h]
        OBVIOUS
      <4>1. g # -1 /\ rank[g] \in 1..Cardinality(Free)
        BY <3>1, SizeAssumption DEF Free, Handles
      <4>2. Cardinality(Free) \in Nat
        BY FreeFinite DEF Inv, StoreInv
      <4>3. rank[h] = rank[g] + 1
        BY <3>1, <4>1 DEF Ranks
      <4> QED BY <4>1, <4>2, <4>3
    <3>3. \A h, g \in Free : h # g => rank[h] # rank[g]
      BY <3>1 DEF Ranks
    <3> QED BY <3>1, <3>2, <3>3 DEF Inv, StoreInv, ListInv, FreeListSound
  <2>3. /\ \A o \in live : bobj[handle[o]] = o
                           /\ bkind[handle[o]] \in {"valid", "invalid"}
        /\ \A h \in Handles :
             /\ bkind[h] \in {"valid", "invalid"} => bobj[h] \in live /\ handle[bobj[h]] = h
             /\ bkind[h] = "unused" <=> h >= top
    BY DEF Inv, StoreInv, TableInv
  <2> QED BY <2>1, <2>2, <2>3 DEF StoreSound
<1> QED BY <1>1, StoreInvariant, PTL

(* zend_objects_store_del and zend_objects_store_call_destructors between  *)
(* them call a destructor at most once in the life of an object, never on  *)
(* one whose contents were freed, and never when EG(active) is not set.    *)
THEOREM DestructorsRunOnce == Spec => []DestructorSafe
<1>1. Inv => DestructorSafe
  <2> SUFFICES ASSUME Inv PROVE DestructorSafe
    OBVIOUS
  <2>1. \A o \in Obj : ran[o] <= 1
    BY DEF Inv, ObjectsInv, At, FlagInv
  <2>2. ASSUME NEW k \in DOMAIN stack, stack[k].fn \in {"del", "loop"}
        PROVE  active /\ stack[k].obj \notin freed /\ bkind[handle[stack[k].obj]] = "valid"
    <3>1. active /\ stack[k].obj \in live /\ stack[k].obj \notin freed
      BY <2>2 DEF Inv, ObjectsInv, At, FrameInv
    <3> QED BY <3>1 DEF Inv, StoreInv, TableInv, ObjectsInv, At, FreedInv
  <2>3. InDestructor => active
    <3> SUFFICES ASSUME stack # <<>>, Top.fn \in {"del", "loop"} PROVE active
      BY DEF InDestructor
    <3>1. stack \in Seq(Frames)
      BY DEF Inv, ObjectsInv, At, FrameInv
    <3>2. Len(stack) \in DOMAIN stack
      BY <3>1, FrontFacts
    <3> QED BY <3>2, <2>2 DEF Top
  <2> QED BY <2>1, <2>2, <2>3 DEF DestructorSafe
<1> QED BY <1>1, StoreInvariant, PTL

(* The loops of the shutdown skip no object, those that destructors create *)
(* during the loop included.                                               *)
THEOREM ShutdownSkipsNothing == Spec => []NothingSkipped
<1>1. Inv => NothingSkipped
  BY DEF Inv, ObjectsInv, At, ShutdownInv, NothingSkipped
<1> QED BY <1>1, StoreInvariant, PTL
===============================================================================
