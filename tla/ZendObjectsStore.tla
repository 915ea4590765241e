--------------------------- MODULE ZendObjectsStore ---------------------------
(***************************************************************************)
(* The object store of the executor (Zend/zend_objects_API.c), the parts   *)
(* of Zend/zend_objects.c it calls back, and the end of a request as       *)
(* shutdown_destructors and zend_shutdown_executor_values drive it.        *)
(*                                                                         *)
(* An object is reference counted.  When its count drops to zero           *)
(* zend_objects_store_del runs its destructor, which is program code, and  *)
(* then free_obj, which releases what its properties refer to; either may  *)
(* delete further objects, create new ones or bring the object back to     *)
(* life.  The calls in progress form a stack.  An object has one property  *)
(* slot here, enough for chains and cycles.                                *)
(***************************************************************************)
EXTENDS Integers, Sequences, FiniteSets

CONSTANTS
    Obj,        \* addresses of objects; freed ones may be allocated again
    Dtor,       \* objects whose class has a destructor
    StdFree,    \* objects whose free_obj is zend_object_std_dtor
    Null,       \* no object
    InitSize,   \* initial number of buckets (1024 in init_executor)
    MaxTop,     \* bound: bucket numbers in use
    MaxHeld     \* bound: references to one object from program variables

ASSUME ClassAssumption == Dtor \subseteq Obj /\ StdFree \subseteq Obj
ASSUME NullAssumption == Null \notin Obj
ASSUME SizeAssumption == InitSize \in Nat \ {0} /\ MaxTop \in Nat \ {0}
ASSUME HeldAssumption == MaxHeld \in Nat \ {0}

Handles == 1..(MaxTop - 1)

VARIABLES
    bkind,       \* bucket: "unused", "valid", "invalid" (SET_OBJ_INVALID), "free"
    bobj,        \* the object pointer of a bucket
    bnext,       \* GET_OBJ_BUCKET_NUMBER of a free bucket
    top, size, free_list_head,
    no_reuse,    \* EG_FLAGS_OBJECT_STORE_NO_REUSE
    live,        \* objects that are allocated
    handle, refcount,
    destructed,  \* IS_OBJ_DESTRUCTOR_CALLED
    freed,       \* IS_OBJ_FREE_CALLED
    prop,        \* the object the property slot refers to
    held,        \* references from program variables
    stack,       \* destructor and free_obj calls in progress, innermost last
    phase,       \* what the request is doing
    i,           \* loop variable of the shutdown loops
    active,      \* EG(active)
    fast,        \* fast_shutdown: the memory manager drops the heap at once
    bailed,      \* a bailout interrupted the destructors
    ran          \* history: destructor calls of an object

store == <<bkind, bobj, bnext, top, size, free_list_head>>
flags == <<no_reuse, active, fast, bailed>>
vars == <<store, flags, live, handle, refcount, destructed, freed, prop, held,
          stack, phase, i, ran>>

\* A call in progress.  "del": the destructor, from zend_objects_store_del;
\* "loop": the destructor, from zend_objects_store_call_destructors; "free"
\* and "storage": free_obj, from zend_objects_store_del and
\* zend_objects_store_free_object_storage.
Frames == [fn: {"del", "loop", "free", "storage"}, obj: Obj]

Top == stack[Len(stack)]
Pop == SubSeq(stack, 1, Len(stack) - 1)
InDestructor == stack # <<>> /\ Top.fn \in {"del", "loop"}

-----------------------------------------------------------------------------
(* zend_objects_store_init                                                 *)
Init ==
    /\ bkind = [h \in Handles |-> "unused"]
    /\ bobj = [h \in Handles |-> Null] /\ bnext = [h \in Handles |-> -1]
    /\ top = 1 /\ size = InitSize /\ free_list_head = -1
    /\ no_reuse = FALSE /\ active = TRUE /\ fast = FALSE /\ bailed = FALSE
    /\ live = {} /\ handle = [o \in Obj |-> 0] /\ refcount = [o \in Obj |-> 0]
    /\ destructed = {} /\ freed = {} /\ prop = [o \in Obj |-> Null]
    /\ held = [o \in Obj |-> 0] /\ stack = <<>> /\ phase = "running" /\ i = 0
    /\ ran = [o \in Obj |-> 0]

(* The program runs during the request, in the destructors, and in the     *)
(* resource handlers zend_close_rsrc_list calls.                           *)
ProgramRuns ==
    \/ stack = <<>> /\ phase \in {"running", "resources"}
    \/ InDestructor

\* What it can reach in one step: its variables, $this and their properties.
Named == { o \in Obj : held[o] > 0 }
         \union (IF InDestructor THEN {Top.obj} ELSE {})
Reach == Named \union ({ prop[o] : o \in Named } \ {Null})

\* Variant: freed handles are taken again during shutdown.
PutReuses(o, h) ==
    /\ IF free_list_head # -1
       THEN /\ h = free_list_head
            /\ free_list_head' = bnext[h] /\ UNCHANGED <<top, size>>
       ELSE /\ h = top
            /\ size' = IF top = size THEN 2 * size ELSE size
            /\ top' = top + 1 /\ UNCHANGED free_list_head
    /\ handle' = [handle EXCEPT ![o] = h]
    /\ bkind' = [bkind EXCEPT ![h] = "valid"]
    /\ bobj' = [bobj EXCEPT ![h] = o]
    /\ bnext' = [bnext EXCEPT ![h] = -1]

\* Variant: the free list keeps the bucket that is handed out.
PutKeepsHead(o, h) ==
    /\ IF free_list_head # -1 /\ ~no_reuse
       THEN h = free_list_head /\ UNCHANGED <<free_list_head, top, size>>
       ELSE /\ h = top
            /\ size' = IF top = size THEN 2 * size ELSE size
            /\ top' = top + 1 /\ UNCHANGED free_list_head
    /\ handle' = [handle EXCEPT ![o] = h]
    /\ bkind' = [bkind EXCEPT ![h] = "valid"]
    /\ bobj' = [bobj EXCEPT ![h] = o]
    /\ bnext' = [bnext EXCEPT ![h] = -1]

(* zend_objects_store_put and _put_cold: h is the bucket o gets.           *)
zend_objects_store_put(o, h) ==
    /\ IF free_list_head # -1 /\ ~no_reuse
       THEN /\ h = free_list_head
            /\ free_list_head' = bnext[h] /\ UNCHANGED <<top, size>>
       ELSE /\ h = top
            /\ size' = IF top = size THEN 2 * size ELSE size
            /\ top' = top + 1 /\ UNCHANGED free_list_head
    /\ handle' = [handle EXCEPT ![o] = h]
    /\ bkind' = [bkind EXCEPT ![h] = "valid"]
    /\ bobj' = [bobj EXCEPT ![h] = o]
    /\ bnext' = [bnext EXCEPT ![h] = -1]

(* zend_objects_new, _zend_object_std_init: a new object in a variable.    *)
zend_objects_new(o) ==
    /\ ProgramRuns /\ o \notin live
    /\ \E h \in Handles : zend_objects_store_put(o, h)
    /\ live' = live \union {o}
    /\ refcount' = [refcount EXCEPT ![o] = 1]
    /\ held' = [held EXCEPT ![o] = 1]
    /\ prop' = [prop EXCEPT ![o] = Null]
    /\ destructed' = destructed \ {o} /\ freed' = freed \ {o}
    /\ ran' = [ran EXCEPT ![o] = 0]
    /\ UNCHANGED <<flags, stack, phase, i>>

(* zend_object_store_ctor_failed: a constructor ended by an exception.     *)
zend_object_store_ctor_failed(o) ==
    /\ ProgramRuns /\ held[o] > 0 /\ o \notin destructed
    /\ destructed' = destructed \union {o}
    /\ UNCHANGED <<store, flags, live, handle, refcount, freed, prop, held,
                   stack, phase, i, ran>>

\* A variable takes another reference.
CopyRef(o) ==
    /\ ProgramRuns /\ o \in Reach /\ held[o] < MaxHeld
    /\ held' = [held EXCEPT ![o] = @ + 1]
    /\ refcount' = [refcount EXCEPT ![o] = @ + 1]
    /\ UNCHANGED <<store, flags, live, handle, destructed, freed, prop, stack,
                   phase, i, ran>>

\* A property takes one.
SetProp(o, c) ==
    /\ ProgramRuns /\ o \in Reach /\ c \in Reach /\ prop[o] = Null
    /\ prop' = [prop EXCEPT ![o] = c]
    /\ refcount' = [refcount EXCEPT ![c] = @ + 1]
    /\ UNCHANGED <<store, flags, live, handle, destructed, freed, held, stack,
                   phase, i, ran>>

-----------------------------------------------------------------------------
(* efree and ZEND_OBJECTS_STORE_ADD_TO_FREE_LIST, the end of               *)
(* zend_objects_store_del.                                                 *)
AddToFreeList(o) ==
    LET h == handle[o] IN
    /\ live' = live \ {o}
    /\ bkind' = [bkind EXCEPT ![h] = "free"]
    /\ bnext' = [bnext EXCEPT ![h] = free_list_head]
    /\ bobj' = [bobj EXCEPT ![h] = Null]
    /\ free_list_head' = h
    /\ UNCHANGED <<top, size>>

(* zend_objects_store_del from the second test of the count on: r are the  *)
(* counts and st the calls in progress when it is reached.                 *)
DelFree(o, r, st) ==
    IF o \in freed
    THEN /\ AddToFreeList(o)
         /\ refcount' = r /\ stack' = st /\ UNCHANGED freed
    ELSE /\ refcount' = [r EXCEPT ![o] = 1]
         /\ freed' = freed \union {o}
         /\ bkind' = [bkind EXCEPT ![handle[o]] = "invalid"]
         /\ stack' = Append(st, [fn |-> "free", obj |-> o])
         /\ UNCHANGED <<bobj, bnext, top, size, free_list_head, live>>

\* Variant: the destructor flag is not tested.
DelAgain(o, r, st) ==
    /\ destructed' = destructed \union {o}
    /\ IF o \in Dtor /\ active
       THEN /\ refcount' = [r EXCEPT ![o] = 2]
            /\ ran' = [ran EXCEPT ![o] = @ + 1]
            /\ stack' = Append(st, [fn |-> "del", obj |-> o])
            /\ UNCHANGED <<store, live, freed>>
       ELSE DelFree(o, r, st) /\ UNCHANGED ran

(* zend_objects_store_del(o): the destructor runs once, with a reference   *)
(* of this function and one of zend_objects_destroy_object.  An executor   *)
(* that is not active calls no function.                                   *)
zend_objects_store_del(o, r, st) ==
    /\ destructed' = destructed \union {o}
    /\ IF o \notin destructed /\ o \in Dtor /\ active
       THEN /\ refcount' = [r EXCEPT ![o] = 2]
            /\ ran' = [ran EXCEPT ![o] = @ + 1]
            /\ stack' = Append(st, [fn |-> "del", obj |-> o])
            /\ UNCHANGED <<store, live, freed>>
       ELSE DelFree(o, r, st) /\ UNCHANGED ran

(* zend_object_release                                                     *)
zend_object_release(o) ==
    LET r == [refcount EXCEPT ![o] = @ - 1] IN
    IF r[o] = 0
    THEN zend_objects_store_del(o, r, stack)
    ELSE refcount' = r /\ UNCHANGED <<store, live, destructed, freed, stack, ran>>

(* A variable drops its reference: in the program, in shutdown_destructors *)
(* (a symbol that holds the only reference) and when the symbol table is   *)
(* destroyed.                                                              *)
DropRef(o) ==
    /\ \/ ProgramRuns
       \/ stack = <<>> /\ phase = "symbols" /\ refcount[o] = 1
       \/ stack = <<>> /\ phase = "values" /\ ~fast
    /\ held[o] > 0 /\ held' = [held EXCEPT ![o] = @ - 1]
    /\ zend_object_release(o)
    /\ UNCHANGED <<flags, handle, prop, phase, i>>

\* The program unsets a property.
UnsetProp(o) ==
    /\ ProgramRuns /\ o \in Reach /\ prop[o] # Null
    /\ prop' = [prop EXCEPT ![o] = Null]
    /\ zend_object_release(prop[o])
    /\ UNCHANGED <<flags, handle, held, phase, i>>

\* Variant: the count is not tested again after the destructor.
DelDtorReturnFrees ==
    /\ stack # <<>> /\ Top.fn = "del"
    /\ DelFree(Top.obj, [refcount EXCEPT ![Top.obj] = @ - 2], Pop)
    /\ UNCHANGED <<flags, handle, destructed, prop, held, phase, i, ran>>

(* A destructor returns: zend_objects_destroy_object gives its reference   *)
(* back and zend_objects_store_del its own; an object the destructor       *)
(* stored somewhere lives on.                                              *)
DelDtorReturn ==
    /\ stack # <<>> /\ Top.fn = "del"
    /\ LET o == Top.obj
           r == [refcount EXCEPT ![o] = @ - 2]
       IN  IF r[o] = 0 THEN DelFree(o, r, Pop)
           ELSE refcount' = r /\ stack' = Pop /\ UNCHANGED <<store, live, freed>>
    /\ UNCHANGED <<flags, handle, destructed, prop, held, phase, i, ran>>

(* ... in zend_objects_store_call_destructors, which deletes nothing.      *)
LoopDtorReturn ==
    /\ stack # <<>> /\ Top.fn = "loop"
    /\ refcount' = [refcount EXCEPT ![Top.obj] = @ - 2]
    /\ stack' = Pop
    /\ UNCHANGED <<store, flags, live, handle, destructed, freed, prop, held,
                   phase, i, ran>>

(* free_obj, zend_object_std_dtor: the property is released.               *)
zend_object_std_dtor ==
    /\ stack # <<>> /\ Top.fn \in {"free", "storage"} /\ prop[Top.obj] # Null
    /\ prop' = [prop EXCEPT ![Top.obj] = Null]
    /\ zend_object_release(prop[Top.obj])
    /\ UNCHANGED <<flags, handle, held, phase, i>>

(* free_obj returns, to zend_objects_store_del or to the storage loop.     *)
FreeReturn ==
    /\ stack # <<>> /\ Top.fn \in {"free", "storage"} /\ prop[Top.obj] = Null
    /\ stack' = Pop
    /\ IF Top.fn = "free" THEN AddToFreeList(Top.obj) ELSE UNCHANGED <<store, live>>
    /\ UNCHANGED <<flags, handle, refcount, destructed, freed, prop, held, phase,
                   i, ran>>

-----------------------------------------------------------------------------
(* The end of the request: shutdown_destructors releases symbols ...       *)
StartShutdown ==
    /\ phase = "running" /\ stack = <<>>
    /\ phase' = "symbols"
    /\ UNCHANGED <<store, flags, live, handle, refcount, destructed, freed, prop,
                   held, stack, i, ran>>

(* ... and calls zend_objects_store_call_destructors.                      *)
StartDestructors ==
    /\ phase = "symbols" /\ stack = <<>>
    /\ phase' = "destructors" /\ i' = 1 /\ no_reuse' = TRUE
    /\ UNCHANGED <<store, active, fast, bailed, live, handle, refcount,
                   destructed, freed, prop, held, stack, ran>>

(* One iteration; the flag is set first, the references are those of the   *)
(* loop and of zend_objects_destroy_object.                                *)
CallDestructorsStep ==
    /\ phase = "destructors" /\ stack = <<>> /\ i < top
    /\ i' = i + 1
    /\ IF bkind[i] = "valid" /\ bobj[i] \notin destructed
       THEN LET o == bobj[i] IN
            /\ destructed' = destructed \union {o}
            /\ IF o \in Dtor
               THEN /\ refcount' = [refcount EXCEPT ![o] = @ + 2]
                    /\ ran' = [ran EXCEPT ![o] = @ + 1]
                    /\ stack' = Append(stack, [fn |-> "loop", obj |-> o])
               ELSE UNCHANGED <<refcount, ran, stack>>
       ELSE UNCHANGED <<destructed, refcount, ran, stack>>
    /\ UNCHANGED <<store, flags, live, handle, freed, prop, held, phase>>

\* zend_close_rsrc_list follows, whose handlers are program code.
DestructorsDone ==
    /\ phase = "destructors" /\ stack = <<>> /\ i >= top
    /\ phase' = "resources"
    /\ UNCHANGED <<store, flags, live, handle, refcount, destructed, freed, prop,
                   held, stack, i, ran>>

(* A bailout in a destructor: zend_catch in shutdown_destructors calls     *)
(* zend_objects_store_mark_destructed.  Calls in progress are abandoned    *)
(* with the references they hold.                                          *)
Bailout ==
    /\ phase \in {"symbols", "destructors"} /\ InDestructor
    /\ stack' = <<>> /\ bailed' = TRUE /\ phase' = "resources"
    /\ destructed' = destructed \union
            { bobj[h] : h \in { g \in Handles : g < top /\ bkind[g] = "valid" } }
    /\ UNCHANGED <<store, no_reuse, active, fast, live, handle, refcount, freed,
                   prop, held, i, ran>>

\* EG(active) = 0; unless shutdown is fast the symbol table is destroyed next.
\* shutdown_executor asks the environment and the memory manager whether it is.
Deactivate ==
    /\ phase = "resources" /\ stack = <<>>
    /\ active' = FALSE /\ fast' \in BOOLEAN /\ phase' = "values"
    /\ UNCHANGED <<store, no_reuse, bailed, live, handle, refcount, destructed,
                   freed, prop, held, stack, i, ran>>

(* zend_objects_store_free_object_storage: from the last bucket down.      *)
StartStorage ==
    /\ phase = "values" /\ stack = <<>>
    /\ phase' = "storage" /\ i' = top - 1
    /\ UNCHANGED <<store, flags, live, handle, refcount, destructed, freed, prop,
                   held, stack, ran>>

\* Variant: no reference is added for the object whose contents go.
StorageStepNoRef ==
    /\ phase = "storage" /\ stack = <<>> /\ i >= 1
    /\ i' = i - 1
    /\ IF bkind[i] = "valid" /\ bobj[i] \notin freed
       THEN /\ freed' = freed \union {bobj[i]}
            /\ stack' = IF fast /\ bobj[i] \in StdFree THEN stack
                        ELSE Append(stack, [fn |-> "storage", obj |-> bobj[i]])
       ELSE UNCHANGED <<freed, stack>>
    /\ UNCHANGED <<store, flags, live, handle, refcount, destructed, prop, held,
                   phase, ran>>

(* One iteration: "add a ref to all objects, so the object can't be freed  *)
(* by something else later".  A fast shutdown only flags plain objects.    *)
StorageStep ==
    /\ phase = "storage" /\ stack = <<>> /\ i >= 1
    /\ i' = i - 1
    /\ IF bkind[i] = "valid" /\ bobj[i] \notin freed
       THEN LET o == bobj[i] IN
            /\ freed' = freed \union {o}
            /\ IF fast /\ o \in StdFree
               THEN UNCHANGED <<refcount, stack>>
               ELSE /\ refcount' = [refcount EXCEPT ![o] = @ + 1]
                    /\ stack' = Append(stack, [fn |-> "storage", obj |-> o])
       ELSE UNCHANGED <<freed, refcount, stack>>
    /\ UNCHANGED <<store, flags, live, handle, destructed, prop, held, phase, ran>>

(* The store itself is released: zend_objects_store_destroy.               *)
StorageDone ==
    /\ phase = "storage" /\ stack = <<>> /\ i < 1
    /\ phase' = "done"
    /\ UNCHANGED <<store, flags, live, handle, refcount, destructed, freed, prop,
                   held, stack, i, ran>>

-----------------------------------------------------------------------------
Program ==
    \E o \in Obj :
        \/ zend_objects_new(o) \/ zend_object_store_ctor_failed(o)
        \/ CopyRef(o) \/ DropRef(o) \/ UnsetProp(o)
        \/ \E c \in Obj : SetProp(o, c)

Returns == DelDtorReturn \/ LoopDtorReturn \/ zend_object_std_dtor \/ FreeReturn

Shutdown ==
    \/ StartDestructors \/ CallDestructorsStep \/ DestructorsDone
    \/ Deactivate \/ StartStorage \/ StorageStep \/ StorageDone

Next == Program \/ Returns \/ StartShutdown \/ Shutdown \/ Bailout

Spec == Init /\ [][Next]_vars

-----------------------------------------------------------------------------
TypeOK ==
    /\ bkind \in [Handles -> {"unused", "valid", "invalid", "free"}]
    /\ bobj \in [Handles -> Obj \union {Null}]
    /\ bnext \in [Handles -> Handles \union {-1}]
    /\ top \in 1..MaxTop /\ size \in Nat /\ top <= size
    /\ free_list_head \in Handles \union {-1}
    /\ no_reuse \in BOOLEAN /\ active \in BOOLEAN /\ fast \in BOOLEAN
    /\ bailed \in BOOLEAN
    /\ live \subseteq Obj /\ destructed \subseteq Obj /\ freed \subseteq Obj
    /\ handle \in [Obj -> Handles \union {0}] /\ refcount \in [Obj -> Nat]
    /\ prop \in [Obj -> Obj \union {Null}] /\ held \in [Obj -> 0..MaxHeld]
    /\ stack \in Seq(Frames) /\ ran \in [Obj -> Nat] /\ i \in Nat
    /\ phase \in {"running", "symbols", "destructors", "resources", "values",
                  "storage", "done"}

\* The references to o that exist: variables, properties, calls in progress
\* and the one zend_objects_store_free_object_storage adds.
Calls(o, fns) == Cardinality({ k \in DOMAIN stack : stack[k].obj = o
                                                    /\ stack[k].fn \in fns })
Pinned(o) == o \in freed /\ bkind[handle[o]] = "valid"
                         /\ ~(fast /\ o \in StdFree)
Refs(o) == held[o] + Cardinality({ x \in live : prop[x] = o })
           + 2 * Calls(o, {"del", "loop"}) + Calls(o, {"free"})
           + (IF Pinned(o) THEN 1 ELSE 0)

(* The count of an object is the number of references to it, through every *)
(* nesting of destructors, resurrection and shutdown.  Calls a bailout     *)
(* abandons, and plain objects a fast shutdown drops with their contents,  *)
(* can only leave it too high.                                             *)
RefcountSound ==
    \A o \in live :
        /\ refcount[o] >= Refs(o)
        /\ ~bailed /\ (fast => phase \notin {"storage", "done"})
                => refcount[o] = Refs(o)

(* No reference leads to memory that was given back, nor, as long as the   *)
(* program may follow it, to an object whose contents were freed.          *)
NoDangling ==
    \A o \in Obj :
        held[o] > 0 \/ (\E x \in live : prop[x] = o) \/ Calls(o, {"del", "loop"}) > 0
            => o \in live /\ (o \in freed => phase \in {"storage", "done"})

(* Handles identify objects, and the free list, followed from its head,    *)
(* passes every free bucket once and no other: put never hands out a       *)
(* bucket in use and loses none.                                           *)
Free == { h \in Handles : bkind[h] = "free" }

FreeListSound ==
    /\ free_list_head \in Free \union {-1}
    /\ \A h \in Free : bnext[h] \in Free \union {-1}
    /\ \A h \in Free : h = free_list_head \/ \E g \in Free : bnext[g] = h
    /\ \E rank \in [Free -> 1..Cardinality(Free)] :
          \A h, g \in Free : /\ h # g => rank[h] # rank[g]
                             /\ bnext[h] = g => rank[g] < rank[h]

StoreSound ==
    /\ TypeOK /\ FreeListSound
    /\ \A o \in live : bobj[handle[o]] = o
                       /\ bkind[handle[o]] \in {"valid", "invalid"}
    /\ \A h \in Handles :
          /\ bkind[h] \in {"valid", "invalid"} => bobj[h] \in live /\ handle[bobj[h]] = h
          /\ bkind[h] = "unused" <=> h >= top

(* A destructor is called at most once in the life of an object, never on  *)
(* one whose contents were freed, and never by an inactive executor.       *)
DestructorSafe ==
    /\ \A o \in Obj : ran[o] <= 1
    /\ \A k \in DOMAIN stack : stack[k].fn \in {"del", "loop"} =>
          stack[k].obj \notin freed /\ bkind[handle[stack[k].obj]] = "valid"
    /\ ~active => ~InDestructor

(* The loops of the shutdown skip no object.  zend_objects_store_put:      *)
(* "make sure the dtors for newly created objects are called in            *)
(* zend_objects_store_call_destructors() loop": behind the loop variable   *)
(* every object has been destructed, those that other destructors created  *)
(* included; at the end of the request the contents of all were freed.     *)
NothingSkipped ==
    /\ phase = "destructors" =>
         \A h \in Handles : h < i /\ bkind[h] = "valid" => bobj[h] \in destructed
    /\ phase = "done" => \A h \in Handles : bkind[h] = "valid" => bobj[h] \in freed
=============================================================================
