---------------------------- MODULE ZendResources ----------------------------
(***************************************************************************)
(* The list of the resources of a request, EG(regular_list): Zend/         *)
(* zend_list.c on top of the parts of Zend/zend_hash.c that decide at      *)
(* which position of the table a resource lives, and its shutdown:         *)
(* zend_close_rsrc_list (from zend_shutdown_executor_values) and           *)
(* zend_destroy_rsrc_list (from php_nano_deactivate_core).                 *)
(*                                                                         *)
(* A resource is its handle: handles come from nNextFreeElement and are    *)
(* never used twice.  Closing a resource calls the destructor its type     *)
(* registered, which may run the program again (a stream implemented by    *)
(* the program): inside a destructor the program may open, close and       *)
(* release resources, or bail out.  Destructors nest, so the calls in      *)
(* progress form a stack.                                                  *)
(***************************************************************************)
EXTENDS Integers, Sequences, FiniteSets

CONSTANTS
    MaxRes,      \* bound: resources registered in the request
    Sizes,       \* the nTableSize the list may start with (8 in the code)
    MaxBails,    \* bound: bailouts
    Undef        \* IS_UNDEF, an empty position of the table

ASSUME MaxResAssumption == MaxRes \in Nat
ASSUME SizesAssumption == Sizes \subseteq Nat \ {0, 1}
ASSUME MaxBailsAssumption == MaxBails \in Nat
ASSUME UndefAssumption == Undef \notin Nat

VARIABLES
    slots,     \* arPacked or arData: position p of the code is slots[p + 1]
    packed,    \* HASH_FLAG_PACKED
    tsize,     \* nTableSize
    nextfree,  \* nNextFreeElement
    open,      \* resources whose type is not -1
    held,      \* resources the program holds a reference to
    alloc,     \* zend_resource structures that are allocated
    stack,     \* destructor calls in progress, innermost last
    phase,     \* what the request is doing
    i, num,    \* locals of zend_close_rsrc_list
    itry, numtry,  \* their values when its zend_try was entered
    bails,
    ran,       \* history: how often the destructor of a resource was called
    leaked     \* history: structures a bailout kept from being freed

list == <<slots, packed, tsize, nextfree>>
locals == <<i, num, itry, numtry>>
vars == <<list, open, held, alloc, stack, phase, locals, bails, ran, leaked>>

Handles == 1..MaxRes

\* A destructor call: whose, and whether list_entry_destructor made it and
\* has still to free the structure.
Frames == [res: Handles, efree: BOOLEAN]

-----------------------------------------------------------------------------
(* The table.                                                              *)

Used(s) == { p \in DOMAIN s : s[p] # Undef }
nNumOfElements == Cardinality(Used(slots))
nNumUsed == Len(slots)
Where(h) == { p \in DOMAIN slots : slots[p] = h }

\* The elements of U up to p, and its k-th element.
Below(U, p) == { q \in U : q <= p }
Nth(U, k) == CHOOSE p \in U : Cardinality(Below(U, p)) = k

(* zend_hash_rehash closes the holes.                                      *)
zend_hash_rehash(s) == [k \in 1..Cardinality(Used(s)) |-> s[Nth(Used(s), k)]]

(* Filling a packed table up to position h, where the element goes.        *)
AddToPacked(h) ==
    [p \in 1..(h + 1) |-> IF p <= Len(slots) THEN slots[p]
                          ELSE IF p = h + 1 THEN h ELSE Undef]

(* zend_hash_index_add_new for the next free index h: a packed table keeps *)
(* h at position h while it is dense enough, a hash appends.               *)
zend_hash_index_add_new(h) ==
    LET grow == h \div 2 < tsize /\ tsize \div 2 < nNumOfElements
        full == nNumUsed >= tsize
        sparse == nNumUsed > nNumOfElements + nNumOfElements \div 32
    IN  \/ /\ packed /\ h < tsize
           /\ slots' = AddToPacked(h) /\ UNCHANGED <<packed, tsize>>
        \/ /\ packed /\ h >= tsize /\ grow
           /\ slots' = AddToPacked(h) /\ tsize' = 2 * tsize /\ UNCHANGED packed
        \/ /\ packed /\ h >= tsize /\ ~grow
           /\ packed' = FALSE
           /\ tsize' = IF full THEN 2 * tsize ELSE tsize
           /\ slots' = Append(zend_hash_rehash(slots), h)
        \/ /\ ~packed /\ ~full
           /\ slots' = Append(slots, h) /\ UNCHANGED <<packed, tsize>>
        \/ /\ ~packed /\ full
           /\ tsize' = IF sparse THEN tsize ELSE 2 * tsize
           /\ slots' = Append(zend_hash_rehash(slots), h)
           /\ UNCHANGED packed

(* zend_hash_index_del: the position becomes empty; behind the last        *)
(* element nNumUsed shrinks to the last position in use.                   *)
zend_hash_index_del(h) ==
    LET rest == Used(slots) \ Where(h)
        last == IF rest = {} THEN 0
                ELSE CHOOSE p \in rest : \A q \in rest : q <= p
        emptied == [p \in DOMAIN slots |-> IF slots[p] = h THEN Undef
                                           ELSE slots[p]]
    IN  IF nNumUsed \in Where(h) THEN SubSeq(emptied, 1, last) ELSE emptied

-----------------------------------------------------------------------------
Init ==
    /\ slots = <<>> /\ packed = TRUE /\ tsize \in Sizes /\ nextfree = 0
    /\ open = {} /\ held = {} /\ alloc = {} /\ stack = <<>>
    /\ phase = "running" /\ i = 0 /\ num = 0 /\ itry = 0 /\ numtry = 0
    /\ bails = 0 /\ ran = [h \in Handles |-> 0] /\ leaked = {}

(* The program runs during the request, and inside destructors.            *)
ProgramRuns ==
    phase = "running" \/ (phase \in {"closing", "inactive"} /\ stack # <<>>)

\* Variant: the type is cleared only after the destructor.
DestructLateFlag(h, f) ==
    /\ open' = open
    /\ ran' = [ran EXCEPT ![h] = @ + 1]
    /\ stack' = Append(stack, [res |-> h, efree |-> f])

(* zend_resource_dtor: the type becomes -1 before the destructor runs.     *)
zend_resource_dtor(h, f) ==
    /\ open' = open \ {h}
    /\ ran' = [ran EXCEPT ![h] = @ + 1]
    /\ stack' = Append(stack, [res |-> h, efree |-> f])

(* zend_register_resource, zend_list_insert                                *)
zend_list_insert ==
    /\ ProgramRuns
    /\ LET h == IF nextfree = 0 THEN 1 ELSE nextfree IN
       /\ h <= MaxRes
       /\ zend_hash_index_add_new(h)
       /\ nextfree' = h + 1
       /\ open' = open \union {h}
       /\ held' = held \union {h}
       /\ alloc' = alloc \union {h}
    /\ UNCHANGED <<stack, phase, locals, bails, ran, leaked>>

(* list_entry_destructor, called by the table for the element it removed.  *)
list_entry_destructor(h) ==
    IF h \in open
    THEN zend_resource_dtor(h, TRUE) /\ UNCHANGED alloc
    ELSE alloc' = alloc \ {h} /\ UNCHANGED <<open, ran, stack>>

(* The last reference goes: zend_list_free, zend_list_delete.  After the   *)
(* close loop the values the executor still holds are released too.        *)
zend_list_free(h) ==
    /\ ProgramRuns \/ phase = "inactive"
    /\ h \in held /\ held' = held \ {h}
    /\ slots' = zend_hash_index_del(h)
    /\ list_entry_destructor(h)
    /\ UNCHANGED <<packed, tsize, nextfree, phase, locals, bails, leaked>>

\* Variant: closing also takes the resource out of the list.
CloseRemoves(h) ==
    /\ ProgramRuns
    /\ h \in held \intersect open
    /\ zend_resource_dtor(h, TRUE)
    /\ slots' = zend_hash_index_del(h)
    /\ UNCHANGED <<packed, tsize, nextfree, held, alloc, phase, locals, bails,
                   leaked>>

(* zend_list_close on a resource that is referenced.                       *)
zend_list_close(h) ==
    /\ ProgramRuns
    /\ h \in held \intersect open
    /\ zend_resource_dtor(h, FALSE)
    /\ UNCHANGED <<list, held, alloc, phase, locals, bails, leaked>>

-----------------------------------------------------------------------------
(* zend_shutdown_executor_values calls zend_close_rsrc_list.               *)
StartClosing ==
    /\ phase = "running" /\ stack = <<>>
    /\ phase' = "closing"
    /\ i' = nNumUsed /\ num' = nNumUsed
    /\ itry' = nNumUsed /\ numtry' = nNumUsed
    /\ UNCHANGED <<list, open, held, alloc, stack, bails, ran, leaked>>

(* One iteration: i-- and, on an open resource, its destructor.            *)
CloseStep ==
    /\ phase = "closing" /\ stack = <<>> /\ i > 0
    /\ i' = i - 1
    /\ IF i <= nNumUsed /\ slots[i] \in open
       THEN zend_resource_dtor(slots[i], FALSE)
       ELSE UNCHANGED <<open, ran, stack>>
    /\ UNCHANGED <<list, held, alloc, phase, num, itry, numtry, bails, leaked>>

(* "New resources were added, reloop from the start."                      *)
Reloop == IF nNumUsed # num THEN i' = nNumUsed /\ num' = nNumUsed
                            ELSE UNCHANGED <<i, num>>

\* Variant: the loop goes on below the position it had reached.
HandlerReturnNoReloop ==
    /\ stack # <<>>
    /\ LET f == stack[Len(stack)] IN
       alloc' = IF f.efree THEN alloc \ {f.res} ELSE alloc
    /\ stack' = SubSeq(stack, 1, Len(stack) - 1)
    /\ UNCHANGED <<list, open, held, phase, locals, bails, ran, leaked>>

\* Variant: the structure of a resource closed by its removal is kept.
HandlerReturnKeeps ==
    /\ stack # <<>>
    /\ stack' = SubSeq(stack, 1, Len(stack) - 1)
    /\ IF phase = "closing" /\ Len(stack) = 1 THEN Reloop
                                              ELSE UNCHANGED <<i, num>>
    /\ UNCHANGED <<list, open, held, alloc, phase, itry, numtry, bails, ran,
                   leaked>>

(* A destructor returns: to list_entry_destructor, which frees the         *)
(* structure, to the close loop, or to zend_list_close.                    *)
HandlerReturn ==
    /\ stack # <<>>
    /\ LET f == stack[Len(stack)] IN
       alloc' = IF f.efree THEN alloc \ {f.res} ELSE alloc
    /\ stack' = SubSeq(stack, 1, Len(stack) - 1)
    /\ IF phase = "closing" /\ Len(stack) = 1 THEN Reloop
                                              ELSE UNCHANGED <<i, num>>
    /\ UNCHANGED <<list, open, held, phase, itry, numtry, bails, ran, leaked>>

(* _zend_bailout inside a destructor (the memory limit, for one).  The     *)
(* close loop catches it and enters its zend_try again.  i and num are     *)
(* automatic variables changed since setjmp and not volatile: a compiler   *)
(* that kept them in memory leaves them as they are, one that treats them  *)
(* as values puts back those of the setjmp.  Elsewhere no zend_try is      *)
(* active: exit(-1).                                                       *)
Bailout ==
    /\ stack # <<>> /\ phase \in {"running", "closing", "inactive"}
    /\ bails < MaxBails /\ bails' = bails + 1
    /\ leaked' = leaked \union { stack[k].res : k \in { j \in DOMAIN stack :
                                                         stack[j].efree } }
    /\ stack' = <<>>
    /\ IF phase = "closing"
       THEN \E l \in {<<i, num>>, <<itry, numtry>>} :
               /\ i' = IF nNumUsed # l[2] THEN nNumUsed ELSE l[1]
               /\ num' = nNumUsed
               /\ itry' = i' /\ numtry' = num'
               /\ UNCHANGED phase
       ELSE phase' = "exited" /\ UNCHANGED locals
    /\ UNCHANGED <<list, open, held, alloc, ran>>

\* Variant: the loop is left only when no resource is open.
CloseDoneWaits ==
    /\ phase = "closing" /\ stack = <<>> /\ i = 0 /\ open = {}
    /\ phase' = "inactive"
    /\ UNCHANGED <<list, open, held, alloc, stack, locals, bails, ran, leaked>>

(* EG(active) = 0: "No PHP callback functions should be called after this  *)
(* point."                                                                 *)
CloseDone ==
    /\ phase = "closing" /\ stack = <<>> /\ i = 0
    /\ phase' = "inactive"
    /\ UNCHANGED <<list, open, held, alloc, stack, locals, bails, ran, leaked>>

(* zend_destroy_rsrc_list: zend_hash_graceful_reverse_destroy.             *)
StartDestroying ==
    /\ phase = "inactive" /\ stack = <<>>
    /\ phase' = "destroying"
    /\ UNCHANGED <<list, open, held, alloc, stack, locals, bails, ran, leaked>>

DestroyStep ==
    /\ phase = "destroying" /\ stack = <<>> /\ slots # <<>>
    /\ slots' = zend_hash_index_del(slots[nNumUsed])
    /\ list_entry_destructor(slots[nNumUsed])
    /\ UNCHANGED <<packed, tsize, nextfree, held, phase, locals, bails, leaked>>

DestroyDone ==
    /\ phase = "destroying" /\ stack = <<>> /\ slots = <<>>
    /\ phase' = "done"
    /\ UNCHANGED <<list, open, held, alloc, stack, locals, bails, ran, leaked>>

-----------------------------------------------------------------------------
Program ==
    \/ zend_list_insert
    \/ \E h \in Handles : zend_list_free(h) \/ zend_list_close(h)
    \/ Bailout

Runtime ==
    \/ CloseStep \/ HandlerReturn \/ CloseDone
    \/ StartDestroying \/ DestroyStep \/ DestroyDone

Next == Program \/ StartClosing \/ Runtime

(* Destructors return or bail out, and the shutdown functions run on.      *)
Spec == Init /\ [][Next]_vars /\ WF_vars(Runtime)

-----------------------------------------------------------------------------
TypeOK ==
    /\ slots \in Seq(Handles \union {Undef}) /\ packed \in BOOLEAN
    /\ tsize \in Nat /\ nextfree \in 0..(MaxRes + 1)
    /\ open \subseteq alloc /\ held \subseteq Handles /\ alloc \subseteq Handles
    /\ stack \in Seq(Frames)
    /\ phase \in {"running", "closing", "inactive", "destroying", "done",
                  "exited"}
    /\ i \in Nat /\ num \in Nat /\ itry \in Nat /\ numtry \in Nat
    /\ bails \in 0..MaxBails
    /\ ran \in [Handles -> Nat] /\ leaked \subseteq Handles

(* The destructor of a resource runs exactly once, however its closing,    *)
(* its release and the shutdown loop follow or nest in one another:        *)
(* never again once it ran, never skipped for one that is gone.            *)
DestructedOnce ==
    \A h \in Handles : ran[h] = IF h < nextfree /\ h \notin open THEN 1 ELSE 0

(* A reference leads to a structure that is allocated and in the list, and *)
(* the list holds each resource at one position and no freed one.          *)
NoDangling ==
    /\ TypeOK
    /\ phase \in {"running", "closing", "inactive"} =>
        /\ held \subseteq alloc
        /\ \A h \in held : Cardinality(Where(h)) = 1
        /\ \A p \in Used(slots) : slots[p] \in alloc
        /\ \A p, q \in Used(slots) : slots[p] = slots[q] => p = q

(* zend_close_rsrc_list: "User handlers must be called now so they aren't  *)
(* called in zend_deactivate() on zend_destroy_rsrc_list": when the loop   *)
(* ends every resource is closed, those that destructors opened included.  *)
ClosedBeforeInactive == phase \in {"inactive", "destroying", "done"} => open = {}

(* As long as no insertion turned the table into a hash the loop does find *)
(* every resource, at any bailout and with any destructor opening more.    *)
PackedClosed == packed => ClosedBeforeInactive

(* When the list is destroyed every structure was freed, but for those     *)
(* whose destructor bailed out.                                            *)
AllFreed == phase = "done" => alloc = leaked

(* The shutdown comes to its end, however many resources the destructors   *)
(* open (at most MaxRes in all) and close on the way.                      *)
ShutdownEnds == phase = "closing" ~> phase \in {"done", "exited"}
=============================================================================
