-------------------------------- MODULE ZendGC --------------------------------
(***************************************************************************)
(* The cycle collector (Zend/zend_gc.c), with the reference counting that  *)
(* feeds it: a count that drops to a value other than zero makes its node  *)
(* a possible root, and a full root buffer starts a collection from inside *)
(* that decrement.  A collection removes the counts internal to the graph  *)
(* below the roots, puts back those of whatever is still referenced from   *)
(* outside, runs the destructors of the rest, which are program code, and  *)
(* frees it.                                                               *)
(*                                                                         *)
(* Nodes are objects and arrays.  The order in which a traversal takes its *)
(* pending nodes is left open: they are a set, not a stack.                *)
(***************************************************************************)
EXTENDS Integers, Sequences, FiniteSets, FiniteSetsExt

CONSTANTS
    Node,           \* addresses of objects and arrays
    Dtor,           \* objects whose class has a destructor
    Arr,            \* arrays
    Null,           \* no node
    Installed,      \* gc_collect_cycles points at zend_gc_collect_cycles
    DefaultBufSize, BufGrowStep, MaxBufSize, MaxUncompressed,
    ThresholdDefault, ThresholdStep, ThresholdMax, ThresholdTrigger,
    MaxRefs,        \* bound: references between nodes
    Controls        \* which of "enable", "collect" and "bailout" a program uses

ASSUME KindAssumption ==
    IsFiniteSet(Node) /\ Dtor \subseteq Node /\ Arr \subseteq Node \ Dtor
ASSUME NullAssumption == Null \notin Node /\ Installed \in BOOLEAN
ASSUME BufferAssumption ==
    /\ {MaxBufSize, BufGrowStep, MaxUncompressed, ThresholdStep} \subseteq Nat \ {0}
    /\ ThresholdTrigger \in Nat /\ DefaultBufSize \in 2..MaxBufSize
    /\ ThresholdDefault \in 2..DefaultBufSize
    /\ ThresholdMax \in ThresholdDefault..MaxBufSize
ASSUME ProgramAssumption ==
    MaxRefs \in Nat /\ Controls \subseteq {"enable", "collect", "bailout"}

VARIABLES
    alloc,      \* nodes whose memory is allocated
    out,        \* the nodes a node refers to
    held,       \* nodes a program variable refers to
    hdr,        \* the zend_refcounted header of every node
    gc,         \* zend_gc_globals
    col,        \* the locals of zend_gc_collect_cycles
    stack,      \* calls in progress, innermost last
    bailed,     \* a bailout has dropped calls in progress
    nullcall,   \* gc_collect_cycles was called while it was not set
    ran         \* history: nodes whose destructor has been entered

heap == <<alloc, out, held>>
vars == <<heap, hdr, gc, col, stack, bailed, nullcall, ran>>

Colors == {"black", "white", "grey", "purple"}
FreshHdr == [rc |-> 0, color |-> "black", addr |-> 0, null |-> FALSE,
             dtored |-> FALSE, freed |-> FALSE]
Idle == [pc |-> "idle", idx |-> 0, end |-> 0, todo |-> {}, btodo |-> {},
         count |-> 0, total |-> 0, hasd |-> FALSE, rerun |-> FALSE, did |-> FALSE]
Raw == [tag |-> "raw", ref |-> Null, next |-> 0]

\* Calls in progress.  "dtor": a destructor; "del" and "gcdtor": what
\* zend_objects_store_del and gc_call_destructors do after it; "free": free_obj
\* or the destruction of an array; "efree" and "gcfree": what
\* zend_objects_store_del and the collector do after it; "full":
\* gc_possible_root_when_full; "gc": zend_gc_collect_cycles.
Call(fn, n) == [fn |-> fn, obj |-> n]
Running(fn) == stack # <<>> /\ stack[Len(stack)].fn = fn
This == stack[Len(stack)].obj
Pop == SubSeq(stack, 1, Len(stack) - 1)
Calls(fns) == { stack[k].obj : k \in { j \in 1..Len(stack) : stack[j].fn \in fns } }
ProgramRuns == (stack = <<>> \/ Running("dtor")) /\ ~nullcall
At(pc) == Running("gc") /\ col.pc = pc

Info(h) == h.addr # 0 \/ h.color # "black"
\* What the traversals of the collector see of a node.
Children(n) == IF hdr[n].freed \/ hdr[n].null THEN {} ELSE out[n]

\* gc_enable at startup, from the default of zend.enable_gc.
Init ==
    /\ alloc = {} /\ out = [n \in Node |-> {}] /\ held = {}
    /\ hdr = [n \in Node |-> FreshHdr]
    /\ gc = [buf |-> [i \in 1..(MaxBufSize - 1) |-> Raw],
             unused |-> 0, first_unused |-> 1, num_roots |-> 0,
             buf_size |-> DefaultBufSize, threshold |-> ThresholdDefault,
             enabled |-> TRUE, active |-> FALSE, protected |-> FALSE,
             full |-> FALSE]
    /\ col = Idle /\ stack = <<>> /\ bailed = FALSE /\ nullcall = FALSE
    /\ ran = {}

-----------------------------------------------------------------------------
(* The root buffer.                                                        *)

gc_compress(i) ==
    IF i < MaxUncompressed THEN i ELSE (i % MaxUncompressed) + MaxUncompressed

\* The entry of n: its address, or the first match in strides from there.
gc_decompress(g, n) ==
    LET a == hdr[n].addr
    IN  IF g.first_unused < MaxUncompressed THEN a
        ELSE Min({ i \in DOMAIN g.buf : /\ i >= a /\ (i - a) % MaxUncompressed = 0
                                        /\ g.buf[i].ref = n })

gc_grow_root_buffer(g) ==
    IF g.buf_size >= MaxBufSize /\ ~g.full
    THEN [g EXCEPT !.active = TRUE, !.protected = TRUE, !.full = TRUE]
    ELSE LET new == IF g.buf_size < BufGrowStep THEN 2 * g.buf_size
                                                ELSE g.buf_size + BufGrowStep
         IN  [g EXCEPT !.buf_size = Min({new, MaxBufSize})]

\* Variant: the threshold is raised whether or not the buffer has grown.
AdjustAlways(g, count) ==
    IF count < ThresholdTrigger \/ g.num_roots >= g.threshold
    THEN [g EXCEPT !.threshold = @ + ThresholdStep]
    ELSE [g EXCEPT !.threshold = Max({@ - ThresholdStep, ThresholdDefault})]

gc_adjust_threshold(g, count) ==
    LET new == Min({g.threshold + ThresholdStep, ThresholdMax})
        grown == IF new > g.buf_size THEN gc_grow_root_buffer(g) ELSE g
    IN  CASE count < ThresholdTrigger \/ g.num_roots >= g.threshold ->
               IF g.threshold >= ThresholdMax THEN g
               ELSE IF new <= grown.buf_size
                    THEN [grown EXCEPT !.threshold = new] ELSE grown
          [] OTHER -> IF g.threshold <= ThresholdDefault THEN g
                      ELSE [g EXCEPT !.threshold =
                              Max({@ - ThresholdStep, ThresholdDefault})]

\* A free entry: from the unused list, from the end, or after growing.
Slot(g) ==
    LET next(b) == [idx |-> b.first_unused,
                    gc |-> [b EXCEPT !.first_unused = @ + 1]]
        grown == gc_grow_root_buffer(g)
    IN  CASE g.unused # 0 -> [idx |-> g.unused,
                              gc |-> [g EXCEPT !.unused = g.buf[g.unused].next]]
          [] g.unused = 0 /\ g.first_unused # g.buf_size -> next(g)
          [] OTHER -> IF grown.first_unused # grown.buf_size THEN next(grown)
                      ELSE [idx |-> 0, gc |-> grown]

\* Headers h and buffer g once n is entered, unless the buffer is at its limit.
Enter(h, g, n, tag, color) ==
    LET s == Slot(g)
    IN  IF s.idx = 0 THEN [hdr |-> h, gc |-> s.gc]
        ELSE [hdr |-> [h EXCEPT ![n].addr = gc_compress(s.idx),
                                ![n].color = color],
              gc |-> [s.gc EXCEPT !.num_roots = @ + 1,
                      !.buf[s.idx] = [tag |-> tag, ref |-> n, next |-> 0]]]

\* Entry i joins the unused list.
gc_remove_from_roots(g, i) ==
    [g EXCEPT !.buf[i] = [tag |-> "unused", ref |-> Null, next |-> g.unused],
              !.unused = i, !.num_roots = @ - 1]

NoInfo(h, n) == [h EXCEPT ![n].addr = 0, ![n].color = "black"]

gc_remove_from_buffer(g, n) == gc_remove_from_roots(g, gc_decompress(g, n))

Used(g) == { i \in 1..(g.first_unused - 1) : g.buf[i].tag # "unused" }

\* The k-th smallest and the k-th largest number of S.
Kth(S, k) == CHOOSE i \in S : Cardinality({ j \in S : j < i }) = k - 1
KthLast(S, k) == CHOOSE i \in S : Cardinality({ j \in S : j > i }) = k - 1

\* gc_compact: two fingers, the k-th hole takes the k-th entry from the end.
gc_compact(h, g) ==
    LET holes == (1..g.num_roots) \ Used(g)
        above == Used(g) \ (1..g.num_roots)
        from(i) == KthLast(above, CHOOSE k \in 1..Cardinality(holes) : Kth(holes, k) = i)
        to(n) == CHOOSE i \in holes : g.buf[from(i)].ref = n
        moved == { g.buf[i].ref : i \in above }
    IN  IF g.num_roots + 1 = g.first_unused THEN [hdr |-> h, gc |-> g]
        ELSE [hdr |-> [n \in Node |-> IF n \in moved
                         THEN [h[n] EXCEPT !.addr = gc_compress(to(n))] ELSE h[n]],
              gc |-> [g EXCEPT !.unused = 0, !.first_unused = g.num_roots + 1,
                      !.buf = [i \in DOMAIN g.buf |->
                                 IF i > g.num_roots THEN Raw
                                 ELSE IF i \in holes THEN g.buf[from(i)]
                                      ELSE g.buf[i]]]]

-----------------------------------------------------------------------------
(* Giving up references.                                                   *)

\* rc_dtor_func for a node whose count is zero, the headers being h and the
\* globals g: a destructor that is due first, then the references it holds.
rc_dtor_func(h, g, n, st) ==
    LET end(h2, frames) == hdr' = h2 /\ stack' = st \o frames
        free == <<Call("efree", n), Call("free", n)>>
    IN  /\ CASE h[n].null -> end(h, <<>>) /\ gc' = g /\ UNCHANGED ran
             [] ~h[n].null /\ n \in Arr ->
                  /\ gc' = IF Info(h[n]) THEN gc_remove_from_buffer(g, n) ELSE g
                  /\ end([NoInfo(h, n) EXCEPT ![n].null = TRUE], free)
                  /\ UNCHANGED ran
             [] ~h[n].null /\ n \in Dtor /\ ~h[n].dtored ->
                  /\ end([h EXCEPT ![n].dtored = TRUE, ![n].rc = 2],
                         <<Call("del", n), Call("dtor", n)>>)
                  /\ gc' = g /\ ran' = ran \union {n}
             [] OTHER ->
                  /\ IF h[n].freed THEN end(h, <<Call("efree", n)>>)
                     ELSE end([h EXCEPT ![n].dtored = TRUE, ![n].freed = TRUE,
                                        ![n].rc = 1], free)
                  /\ gc' = g /\ UNCHANGED ran
        /\ UNCHANGED nullcall

\* zend_gc_collect_cycles is entered with stack st: it does nothing without
\* roots but reset gc_active, and nothing at all while a collection is active.
gc_collect_cycles(h, st) ==
    LET pushed == /\ stack' = Append(st, Call("gc", Null))
                  /\ col' = [Idle EXCEPT !.pc = "start"] /\ hdr' = h /\ UNCHANGED gc
        compacted == gc_compact(h, gc)
    IN  CASE ~Installed -> /\ nullcall' = TRUE /\ hdr' = h /\ stack' = st
                           /\ UNCHANGED <<gc, col>>
          [] Installed /\ gc.num_roots = 0 ->
               /\ hdr' = compacted.hdr
               /\ gc' = [compacted.gc EXCEPT !.active = FALSE]
               /\ stack' = st /\ UNCHANGED <<col, nullcall>>
          [] Installed /\ gc.num_roots # 0 /\ gc.active ->
               hdr' = h /\ stack' = st /\ UNCHANGED <<gc, col, nullcall>>
          [] OTHER -> pushed /\ UNCHANGED nullcall

\* The end of gc_possible_root and of gc_possible_root_when_full.
AddRoot(h, g, n, st) ==
    LET e == Enter(h, g, n, "root", "purple")
    IN  hdr' = e.hdr /\ gc' = e.gc /\ stack' = st /\ UNCHANGED <<nullcall, ran>>

\* Variant: the node is not kept alive while the buffer is collected.
PossibleRootNoRef(h, n, st) ==
    CASE gc.protected ->
           hdr' = h /\ stack' = st /\ UNCHANGED <<gc, col, nullcall, ran>>
      [] /\ ~gc.protected /\ gc.unused = 0 /\ gc.first_unused >= gc.threshold
         /\ gc.enabled /\ ~gc.active ->
           gc_collect_cycles(h, Append(st, Call("full", n))) /\ UNCHANGED ran
      [] OTHER -> AddRoot(h, gc, n, st) /\ UNCHANGED col

gc_possible_root(h, n, st) ==
    CASE gc.protected ->
           hdr' = h /\ stack' = st /\ UNCHANGED <<gc, col, nullcall, ran>>
      [] /\ ~gc.protected /\ gc.unused = 0 /\ gc.first_unused >= gc.threshold
         /\ gc.enabled /\ ~gc.active ->
           /\ gc_collect_cycles([h EXCEPT ![n].rc = @ + 1],
                                Append(st, Call("full", n)))
           /\ UNCHANGED ran
      [] OTHER -> AddRoot(h, gc, n, st) /\ UNCHANGED col

\* Variant: a count that stays above zero is not looked at again.
ReleaseNoRoot(n, st) ==
    LET h == [hdr EXCEPT ![n].rc = @ - 1]
    IN  IF h[n].rc = 0 THEN rc_dtor_func(h, gc, n, st) /\ UNCHANGED col
        ELSE hdr' = h /\ stack' = st /\ UNCHANGED <<gc, col, nullcall, ran>>

\* i_zval_ptr_dtor, OBJ_RELEASE: the caller continues with stack st.
Release(n, st) ==
    LET h == [hdr EXCEPT ![n].rc = @ - 1]
    IN  CASE h[n].rc = 0 -> rc_dtor_func(h, gc, n, st) /\ UNCHANGED col
          [] h[n].rc # 0 /\ ~Info(h[n]) -> gc_possible_root(h, n, st)
          [] OTHER -> hdr' = h /\ stack' = st /\ UNCHANGED <<gc, col, nullcall, ran>>

\* gc_possible_root_when_full, once the collection it asked for has returned.
WhenFullResumes ==
    /\ Running("full")
    /\ LET n == This
           h == [hdr EXCEPT ![n].rc = @ - 1]
           g == gc_adjust_threshold(gc, col.total)
       IN  \/ h[n].rc = 0 /\ rc_dtor_func(h, g, n, Pop)
           \/ /\ h[n].rc # 0 /\ Info(h[n])
              /\ hdr' = h /\ gc' = g /\ stack' = Pop /\ UNCHANGED <<nullcall, ran>>
           \/ h[n].rc # 0 /\ ~Info(h[n]) /\ AddRoot(h, g, n, Pop)
    /\ col' = Idle /\ UNCHANGED <<heap, bailed>>

-----------------------------------------------------------------------------
(* The program: at the top level and in destructors.                       *)

Named == held \union (IF Running("dtor") THEN {This} ELSE {})
\* An array is changed in place only by its one owner.
Writable(n) == n \in Named /\ (n \in Arr => hdr[n].rc = 1)

New(n) ==
    /\ ProgramRuns /\ n \notin alloc
    /\ alloc' = alloc \union {n} /\ held' = held \union {n}
    /\ out' = [out EXCEPT ![n] = {}]
    /\ hdr' = [hdr EXCEPT ![n] = [FreshHdr EXCEPT !.rc = 1]]
    /\ ran' = ran \ {n}
    /\ UNCHANGED <<gc, col, stack, bailed, nullcall>>

\* A variable takes $this or what a node the program knows refers to.
Take(n) ==
    /\ ProgramRuns /\ n \notin held
    /\ n \in Named \/ \E m \in Named : n \in out[m]
    /\ held' = held \union {n}
    /\ hdr' = [hdr EXCEPT ![n].rc = @ + 1]
    /\ UNCHANGED <<alloc, out, gc, col, stack, bailed, nullcall, ran>>

DropVariable(n) ==
    /\ ProgramRuns /\ n \in held /\ held' = held \ {n}
    /\ Release(n, stack) /\ UNCHANGED <<alloc, out, bailed>>

SetElement(m, n) ==
    /\ ProgramRuns /\ Writable(m) /\ n \in Named \ out[m]
    /\ m \in Arr => m # n
    /\ MapThenSumSet(LAMBDA k : Cardinality(out[k]), Node) < MaxRefs
    /\ out' = [out EXCEPT ![m] = @ \union {n}]
    /\ hdr' = [hdr EXCEPT ![n].rc = @ + 1]
    /\ UNCHANGED <<alloc, held, gc, col, stack, bailed, nullcall, ran>>

UnsetElement(m, n) ==
    /\ ProgramRuns /\ Writable(m) /\ n \in out[m]
    /\ out' = [out EXCEPT ![m] = @ \ {n}]
    /\ Release(n, stack) /\ UNCHANGED <<alloc, held, bailed>>

\* The PHP functions gc_enable, gc_disable and gc_collect_cycles.
gc_enable(on) ==
    /\ ProgramRuns /\ "enable" \in Controls /\ gc' = [gc EXCEPT !.enabled = on]
    /\ UNCHANGED <<heap, hdr, col, stack, bailed, nullcall, ran>>

ZEND_FUNCTION_gc_collect_cycles ==
    /\ ProgramRuns /\ "collect" \in Controls /\ gc_collect_cycles(hdr, stack)
    /\ UNCHANGED <<heap, bailed, ran>>

\* _zend_bailout leaves every call in progress and protects the collector.
_zend_bailout ==
    /\ ProgramRuns /\ "bailout" \in Controls /\ stack # <<>>
    /\ stack' = <<>> /\ col' = Idle /\ bailed' = TRUE
    /\ gc' = [gc EXCEPT !.protected = TRUE]
    /\ UNCHANGED <<heap, hdr, nullcall, ran>>

-----------------------------------------------------------------------------
(* The ends of destructors and of free_obj.                                *)

\* zend_objects_destroy_object returns, with OBJ_RELEASE.
DestructorReturns ==
    /\ Running("dtor") /\ ~nullcall /\ Release(This, Pop)
    /\ UNCHANGED <<heap, bailed>>

\* zend_objects_store_del, after dtor_obj.
DelResumes ==
    /\ Running("del")
    /\ LET h == [hdr EXCEPT ![This].rc = @ - 1]
       IN  IF h[This].rc = 0
           THEN rc_dtor_func(h, gc, This, Pop) /\ UNCHANGED col
           ELSE hdr' = h /\ stack' = Pop /\ UNCHANGED <<gc, col, nullcall, ran>>
    /\ UNCHANGED <<heap, bailed>>

\* free_obj, zend_array_destroy, zend_hash_destroy: the next reference goes.
FreeChild(n) ==
    /\ Running("free") /\ n \in out[This]
    /\ out' = [out EXCEPT ![This] = @ \ {n}]
    /\ Release(n, stack) /\ UNCHANGED <<alloc, held, bailed>>

FreeDone ==
    /\ Running("free") /\ out[This] = {} /\ stack' = Pop
    /\ UNCHANGED <<heap, hdr, gc, col, bailed, nullcall, ran>>

\* The end of zend_objects_store_del and of zend_array_destroy.
Efree ==
    /\ Running("efree") /\ stack' = Pop
    /\ gc' = IF Info(hdr[This]) THEN gc_remove_from_buffer(gc, This) ELSE gc
    /\ hdr' = [hdr EXCEPT ![This] = FreshHdr] /\ alloc' = alloc \ {This}
    /\ UNCHANGED <<out, held, col, bailed, nullcall, ran>>

\* gc_call_destructors after dtor_obj, the collector after free_obj: the
\* reference it held for the call goes, whatever is left.
CollectorResumes ==
    /\ Running("gcdtor") \/ Running("gcfree")
    /\ hdr' = [hdr EXCEPT ![This].rc = @ - 1] /\ stack' = Pop
    /\ UNCHANGED <<heap, gc, col, bailed, nullcall, ran>>

-----------------------------------------------------------------------------
(* zend_gc_collect_cycles.                                                 *)

\* A step of the collector that neither calls nor frees anything.
Quiet == UNCHANGED <<heap, stack, bailed, nullcall, ran>>
GoTo(pc, i) == [col EXCEPT !.pc = pc, !.idx = i]
Entry == gc.buf[col.idx]

Start ==
    /\ At("start")
    /\ LET c == gc_compact(hdr, gc)
       IN  hdr' = c.hdr /\ gc' = [c.gc EXCEPT !.active = TRUE]
    /\ col' = [GoTo("mark", 1) EXCEPT !.count = 0, !.hasd = FALSE]
    /\ Quiet

\* gc_mark_roots: the next purple root turns grey and is traversed.
MarkRoot ==
    /\ At("mark") /\ col.todo = {} /\ col.idx < gc.first_unused
    /\ LET n == Entry.ref
           go == Entry.tag = "root" /\ hdr[n].color = "purple"
       IN  /\ hdr' = IF go THEN [hdr EXCEPT ![n].color = "grey"] ELSE hdr
           /\ col' = [col EXCEPT !.idx = @ + 1, !.todo = IF go THEN {n} ELSE {}]
    /\ UNCHANGED gc /\ Quiet

\* The headers after the counts of the children of n changed by d, and
\* those of the children in S took color c.
Visit(n, d, S, c) ==
    [m \in Node |-> IF m \notin Children(n) THEN hdr[m]
                    ELSE [hdr[m] EXCEPT !.rc = @ + d,
                                        !.color = IF m \in S THEN c ELSE @]]

gc_mark_grey(n) ==
    /\ At("mark") /\ n \in col.todo
    /\ LET fresh == { m \in Children(n) : hdr[m].color # "grey" }
       IN  /\ hdr' = Visit(n, -1, fresh, "grey")
           /\ col' = [col EXCEPT !.todo = (@ \ {n}) \union fresh]
    /\ UNCHANGED gc /\ Quiet

MarkDone ==
    /\ At("mark") /\ col.todo = {} /\ col.idx = gc.first_unused
    /\ col' = GoTo("scan", 1) /\ UNCHANGED <<hdr, gc>> /\ Quiet

\* gc_scan_roots.
ScanRoot ==
    /\ At("scan") /\ col.todo = {} /\ col.btodo = {} /\ col.idx < gc.first_unused
    /\ LET n == Entry.ref
           go == Entry.tag = "root" /\ hdr[n].color = "grey"
       IN  /\ hdr' = IF go THEN [hdr EXCEPT ![n].color = "white"] ELSE hdr
           /\ col' = [col EXCEPT !.idx = @ + 1, !.todo = IF go THEN {n} ELSE {}]
    /\ UNCHANGED gc /\ Quiet

gc_scan(n) ==
    /\ At("scan") /\ col.btodo = {} /\ n \in col.todo
    /\ LET fresh == { m \in Children(n) : hdr[m].color = "grey" }
       IN  \/ /\ hdr[n].color # "white"
              /\ col' = [col EXCEPT !.todo = @ \ {n}] /\ UNCHANGED hdr
           \/ /\ hdr[n].color = "white" /\ hdr[n].rc > 0
              /\ hdr' = [hdr EXCEPT ![n].color = "black"]
              /\ col' = [col EXCEPT !.todo = @ \ {n}, !.btodo = {n}]
           \/ /\ hdr[n].color = "white" /\ hdr[n].rc <= 0
              /\ hdr' = Visit(n, 0, fresh, "white")
              /\ col' = [col EXCEPT !.todo = (@ \ {n}) \union fresh]
    /\ UNCHANGED gc /\ Quiet

\* Variant: the counts of children that are black already are not put back.
BlackFreshOnly(n) ==
    /\ At("scan") /\ n \in col.btodo
    /\ LET fresh == { m \in Children(n) : hdr[m].color # "black" }
       IN  /\ hdr' = [m \in Node |-> IF m \in fresh THEN Visit(n, 1, fresh, "black")[m]
                                     ELSE hdr[m]]
           /\ col' = [col EXCEPT !.btodo = (@ \ {n}) \union fresh]
    /\ UNCHANGED gc /\ Quiet

gc_scan_black(n) ==
    /\ At("scan") /\ n \in col.btodo
    /\ LET fresh == { m \in Children(n) : hdr[m].color # "black" }
       IN  /\ hdr' = Visit(n, 1, fresh, "black")
           /\ col' = [col EXCEPT !.btodo = (@ \ {n}) \union fresh]
    /\ UNCHANGED gc /\ Quiet

\* gc_collect_roots drops the black roots and compacts what is left.
ScanDone ==
    /\ At("scan") /\ col.todo = {} /\ col.btodo = {} /\ col.idx = gc.first_unused
    /\ LET live == { i \in Used(gc) : /\ gc.buf[i].tag = "root"
                                      /\ hdr[gc.buf[i].ref].color = "black" }
           refs == { gc.buf[i].ref : i \in live }
           h == [n \in Node |-> IF n \in refs THEN [hdr[n] EXCEPT !.addr = 0] ELSE hdr[n]]
           g == [gc EXCEPT !.num_roots = @ - Cardinality(live),
                    !.buf = [i \in DOMAIN @ |-> IF i \in live
                               THEN [Raw EXCEPT !.tag = "unused"] ELSE @[i]]]
           c == gc_compact(h, g)
       IN  hdr' = c.hdr /\ gc' = c.gc
           /\ col' = [GoTo("collect", 1) EXCEPT !.end = c.gc.first_unused]
    /\ Quiet

\* gc_collect_roots: the next root is garbage.
CollectRoot ==
    /\ At("collect") /\ col.todo = {} /\ col.idx < col.end
    /\ LET n == Entry.ref
           go == hdr[n].color = "white"
       IN  /\ gc' = [gc EXCEPT !.buf[col.idx].tag = "garbage"]
           /\ hdr' = IF go THEN [hdr EXCEPT ![n].color = "black"] ELSE hdr
           /\ col' = [col EXCEPT !.idx = @ + 1, !.todo = IF go THEN {n} ELSE {}]
    /\ Quiet

\* Variant: only the roots themselves are garbage.
CollectRootsOnly(n) ==
    /\ At("collect") /\ n \in col.todo
    /\ LET fresh == { m \in Children(n) : hdr[m].color = "white" }
       IN  /\ hdr' = Visit(n, 1, fresh, "black")
           /\ col' = [col EXCEPT !.todo = (@ \ {n}) \union fresh, !.count = @ + 1,
                  !.hasd = @ \/ (~hdr[n].freed /\ n \in Dtor /\ ~hdr[n].dtored)]
    /\ UNCHANGED gc /\ Quiet

gc_collect_white(n) ==
    /\ At("collect") /\ n \in col.todo
    /\ LET fresh == { m \in Children(n) : hdr[m].color = "white" }
           v == Visit(n, 1, fresh, "black")
           e == IF ~hdr[n].freed /\ ~Info(hdr[n])
                THEN Enter(v, gc, n, "garbage", "black") ELSE [hdr |-> v, gc |-> gc]
       IN  /\ hdr' = e.hdr /\ gc' = e.gc
           /\ col' = [col EXCEPT !.todo = (@ \ {n}) \union fresh, !.count = @ + 1,
                  !.hasd = @ \/ (~hdr[n].freed /\ n \in Dtor /\ ~hdr[n].dtored)]
    /\ Quiet

CollectDone ==
    /\ At("collect") /\ col.todo = {} /\ col.idx = col.end
    /\ col' = IF gc.num_roots = 0 THEN GoTo("finish", 0)
              ELSE [GoTo(IF col.hasd THEN "prepare" ELSE "destroy", 1)
                        EXCEPT !.end = gc.first_unused]
    /\ UNCHANGED <<hdr, gc>> /\ Quiet

\* Variant: every object of the garbage counts as destructed.
PrepareFlagsAll ==
    /\ At("prepare")
    /\ hdr' = [n \in Node |-> IF \E i \in Used(gc) : /\ gc.buf[i].ref = n
                                                     /\ gc.buf[i].tag = "garbage"
                              THEN [hdr[n] EXCEPT !.dtored = TRUE] ELSE hdr[n]]
    /\ col' = [GoTo("nested", 1) EXCEPT !.rerun = TRUE] /\ UNCHANGED gc /\ Quiet

\* Objects whose destructor is due are set apart, purple; it is not due any
\* more for the others.
DtorPrepare ==
    /\ At("prepare")
    /\ LET objs == { i \in Used(gc) : /\ gc.buf[i].tag = "garbage"
                                      /\ gc.buf[i].ref \notin Arr
                                      /\ ~hdr[gc.buf[i].ref].dtored }
           due == { i \in objs : gc.buf[i].ref \in Dtor }
           refs(S) == { gc.buf[i].ref : i \in S }
       IN  /\ gc' = [gc EXCEPT !.buf = [i \in DOMAIN @ |->
                        IF i \in due THEN [@[i] EXCEPT !.tag = "dtor"] ELSE @[i]]]
           /\ hdr' = [n \in Node |->
                CASE n \in refs(due) -> [hdr[n] EXCEPT !.color = "purple"]
                  [] n \in refs(objs \ due) -> [hdr[n] EXCEPT !.dtored = TRUE]
                  [] OTHER -> hdr[n]]
    /\ col' = [GoTo("nested", 1) EXCEPT !.rerun = TRUE] /\ Quiet

\* Variant: what a destructor can reach stays in the garbage.
NestedKeeps ==
    /\ At("nested") /\ col.todo = {} /\ col.idx < col.end
    /\ col' = [col EXCEPT !.idx = @ + 1, !.count = @ - 1]
    /\ UNCHANGED <<hdr, gc>> /\ Quiet

\* What the object can reach is taken out of the garbage.
NestedRoot ==
    /\ At("nested") /\ col.todo = {} /\ col.idx < col.end
    /\ col' = IF Entry.tag = "dtor"
              THEN [col EXCEPT !.idx = @ + 1, !.count = @ - 1,
                               !.todo = Children(Entry.ref)]
              ELSE [col EXCEPT !.idx = @ + 1]
    /\ UNCHANGED <<hdr, gc>> /\ Quiet

gc_remove_nested_data_from_buffer(n) ==
    /\ At("nested") /\ n \in col.todo
    /\ IF hdr[n].addr # 0 /\ hdr[n].color = "black"
       THEN /\ gc' = gc_remove_from_buffer(gc, n) /\ hdr' = NoInfo(hdr, n)
            /\ col' = [col EXCEPT !.count = @ - 1,
                                  !.todo = (@ \ {n}) \union Children(n)]
       ELSE col' = [col EXCEPT !.todo = @ \ {n}] /\ UNCHANGED <<hdr, gc>>
    /\ Quiet

NestedDone ==
    /\ At("nested") /\ col.todo = {} /\ col.idx = col.end
    /\ col' = GoTo("dtors", 1) /\ UNCHANGED <<hdr, gc>> /\ Quiet

\* gc_call_destructors: the object is an ordinary root for the next run, and
\* its destructor is called unless another destructor made that happen.
DtorStep ==
    /\ At("dtors") /\ col.idx < col.end
    /\ LET n == Entry.ref
       IN  /\ gc' = IF Entry.tag = "dtor" THEN [gc EXCEPT !.buf[col.idx].tag = "root"]
                    ELSE gc
           /\ IF Entry.tag = "dtor" /\ ~hdr[n].dtored
              THEN /\ hdr' = [hdr EXCEPT ![n].dtored = TRUE, ![n].rc = @ + 2]
                   /\ stack' = stack \o <<Call("gcdtor", n), Call("dtor", n)>>
                   /\ ran' = ran \union {n}
              ELSE UNCHANGED <<hdr, stack, ran>>
    /\ col' = [col EXCEPT !.idx = @ + 1]
    /\ UNCHANGED <<heap, bailed, nullcall>>

\* A buffer that overflowed meanwhile ends the collection, still active.
DtorsDone ==
    /\ At("dtors") /\ col.idx = col.end
    /\ IF gc.protected THEN stack' = Pop /\ col' = Idle
       ELSE col' = GoTo("destroy", 1) /\ UNCHANGED stack
    /\ UNCHANGED <<heap, hdr, gc, bailed, nullcall, ran>>

\* The next entry of the garbage is destroyed, its memory kept.
DestroyStep ==
    /\ At("destroy") /\ col.idx < col.end
    /\ LET n == Entry.ref
       IN  CASE Entry.tag = "garbage" /\ n \in Arr ->
                  /\ hdr' = [hdr EXCEPT ![n].null = TRUE]
                  /\ stack' = Append(stack, Call("free", n))
             [] Entry.tag = "garbage" /\ n \notin Arr /\ ~hdr[n].freed ->
                  /\ hdr' = [hdr EXCEPT ![n].null = TRUE, ![n].freed = TRUE,
                                        ![n].rc = @ + 1]
                  /\ stack' = stack \o <<Call("gcfree", n), Call("free", n)>>
             [] Entry.tag = "garbage" /\ n \notin Arr /\ hdr[n].freed ->
                  hdr' = [hdr EXCEPT ![n].null = TRUE] /\ UNCHANGED stack
             [] OTHER -> UNCHANGED <<hdr, stack>>
    /\ col' = [col EXCEPT !.idx = @ + 1]
    /\ UNCHANGED <<heap, gc, bailed, nullcall, ran>>

\* Variant: the collection runs again for as long as there are roots.
FreeReruns ==
    /\ At("destroy") /\ col.idx = col.end
    /\ LET dead == { i \in Used(gc) \intersect 1..(col.end - 1) :
                        gc.buf[i].tag = "garbage" }
           refs == { gc.buf[i].ref : i \in dead }
           h == [n \in Node |-> IF n \in refs THEN FreshHdr ELSE hdr[n]]
           g == [gc EXCEPT !.num_roots = @ - Cardinality(dead), !.active = FALSE,
                    !.buf = [i \in DOMAIN @ |-> IF i \in dead
                               THEN [Raw EXCEPT !.tag = "unused"] ELSE @[i]]]
           c == gc_compact(h, g)
       IN  /\ hdr' = c.hdr /\ gc' = c.gc /\ alloc' = alloc \ refs
           /\ col' = [GoTo(IF col.rerun /\ c.gc.num_roots # 0 THEN "start" ELSE "finish", 0)
                         EXCEPT !.total = Min({@ + col.count, ThresholdTrigger})]
    /\ UNCHANGED <<out, held, stack, bailed, nullcall, ran>>

\* The memory of the garbage goes; one more run follows if there were
\* destructors.
FreeGarbage ==
    /\ At("destroy") /\ col.idx = col.end
    /\ LET dead == { i \in Used(gc) \intersect 1..(col.end - 1) :
                        gc.buf[i].tag = "garbage" }
           refs == { gc.buf[i].ref : i \in dead }
           h == [n \in Node |-> IF n \in refs THEN FreshHdr ELSE hdr[n]]
           g == [gc EXCEPT !.num_roots = @ - Cardinality(dead), !.active = FALSE,
                    !.buf = [i \in DOMAIN @ |-> IF i \in dead
                               THEN [Raw EXCEPT !.tag = "unused"] ELSE @[i]]]
           c == gc_compact(h, g)
           again == col.rerun /\ ~col.did
       IN  /\ hdr' = c.hdr /\ gc' = c.gc /\ alloc' = alloc \ refs
           /\ col' = [GoTo(IF again /\ c.gc.num_roots # 0 THEN "start" ELSE "finish", 0)
                         EXCEPT !.total = @ + col.count, !.did = @ \/ again]
    /\ UNCHANGED <<out, held, stack, bailed, nullcall, ran>>

\* The result stays for gc_possible_root_when_full; other callers ignore it.
Finish ==
    /\ At("finish") /\ stack' = Pop
    /\ gc' = [gc EXCEPT !.active = FALSE]
    /\ col' = IF \E k \in 1..Len(Pop) : k = Len(Pop) /\ Pop[k].fn = "full"
              THEN [Idle EXCEPT !.total = col.total] ELSE Idle
    /\ UNCHANGED <<heap, hdr, bailed, nullcall, ran>>

-----------------------------------------------------------------------------
Program ==
    \/ \E n \in Node : New(n) \/ Take(n) \/ DropVariable(n)
    \/ \E m, n \in Node : SetElement(m, n) \/ UnsetElement(m, n)
    \/ \E on \in BOOLEAN : gc_enable(on)
    \/ ZEND_FUNCTION_gc_collect_cycles \/ _zend_bailout

Freeing ==
    \/ DelResumes \/ FreeDone \/ Efree \/ CollectorResumes \/ WhenFullResumes
    \/ \E n \in Node : FreeChild(n)

Collecting ==
    \/ Start \/ MarkRoot \/ MarkDone \/ ScanRoot \/ ScanDone \/ CollectRoot
    \/ CollectDone \/ DtorPrepare \/ NestedRoot \/ NestedDone \/ DtorStep
    \/ DtorsDone \/ DestroyStep \/ FreeGarbage \/ Finish
    \/ \E n \in Node : \/ gc_mark_grey(n) \/ gc_scan(n) \/ gc_scan_black(n)
                       \/ gc_collect_white(n) \/ gc_remove_nested_data_from_buffer(n)

Next == Program \/ DestructorReturns \/ Freeing \/ Collecting

Spec == Init /\ [][Next]_vars

\* C code that has started goes on, and a destructor that is again and again
\* about to return, at any depth of nested destructors, does return.
FairSpec ==
    /\ Spec /\ WF_vars(Freeing) /\ WF_vars(Collecting)
    /\ \A d \in 1..Cardinality(Dtor) :
           SF_vars(Cardinality(Calls({"dtor"})) = d /\ DestructorReturns)

-----------------------------------------------------------------------------
(* Properties.                                                             *)

\* The values the variables range over.
TypeOK ==
    /\ alloc \subseteq Node /\ held \subseteq Node /\ ran \subseteq Node
    /\ out \in [Node -> SUBSET Node]
    /\ hdr \in [Node -> [rc: Int, color: Colors, addr: Nat, null: BOOLEAN,
                         dtored: BOOLEAN, freed: BOOLEAN]]
    /\ \A n \in alloc : hdr[n].rc >= 0
    /\ {gc.unused, gc.first_unused, gc.num_roots, gc.buf_size, gc.threshold} \subseteq Nat
    /\ {gc.enabled, gc.active, gc.protected, gc.full} \subseteq BOOLEAN
    /\ Cardinality({ k \in 1..Len(stack) : stack[k].fn = "gc" }) <= 1

\* Nodes that can be reached from S in the heap.
ReachableFrom(S) ==
    LET step[k \in 0..Cardinality(Node)] ==
            IF k = 0 THEN S ELSE step[k - 1] \union UNION { out[n] : n \in step[k - 1] }
    IN  step[Cardinality(Node)]

Live == ReachableFrom(held \union Calls({"dtor"}))

\* References to n: from nodes, from a variable, and from calls in progress.
References(n) ==
    Cardinality({ m \in alloc : n \in out[m] })
    + (IF n \in held THEN 1 ELSE 0)
    + Cardinality({ k \in 1..Len(stack) :
          /\ stack[k].obj = n
          /\ \/ stack[k].fn \in {"dtor", "del", "gcdtor", "gcfree", "full"}
             \/ stack[k].fn = "efree" /\ n \notin Arr })

Tracing == Running("gc") /\ col.pc \in {"mark", "scan", "collect"}

\* Trial deletion is undone to the last count: outside the traversals the
\* count of a node is the number of references to it, and after a bailout
\* it is never less (gc_mark_grey against gc_scan_black, gc_collect_white).
RefcountSound ==
    ~Tracing => \A n \in alloc :
        IF bailed THEN hdr[n].rc >= References(n) ELSE hdr[n].rc = References(n)

\* No node the program can reach, at the top level or from a running
\* destructor, is destroyed or freed, whatever destructors did to the graph
\* while a collection was under way.
OnlyGarbageFreed == \A n \in Live : n \in alloc /\ ~hdr[n].freed /\ ~hdr[n].null

Unused(g) ==
    LET step[k \in 0..MaxBufSize] ==
            IF k = 0 THEN {g.unused}
            ELSE step[k - 1] \union { g.buf[i].next : i \in step[k - 1] \ {0} }
    IN  step[MaxBufSize] \ {0}

\* The root buffer and the addresses in the headers agree, through growth,
\* compaction and compressed indexes: every entry below first_unused is on
\* the unused list or is the entry of one allocated node, no node outside
\* has an address, num_roots counts the entries, and the sizes are in order.
BufferSound ==
    /\ TypeOK
    /\ Unused(gc) = { i \in 1..(gc.first_unused - 1) : gc.buf[i].tag = "unused" }
    /\ gc.num_roots = Cardinality(Used(gc))
    /\ \A i \in Used(gc) : /\ gc.buf[i].ref \in alloc
                            /\ gc_decompress(gc, gc.buf[i].ref) = i
    /\ { n \in Node : hdr[n].addr # 0 } = { gc.buf[i].ref : i \in Used(gc) }
    /\ gc.first_unused <= gc.buf_size /\ gc.buf_size <= MaxBufSize
    /\ gc.threshold <= gc.buf_size

\* Nothing is lost while the collector takes roots: between the calls of the
\* program, what it can no longer reach can be reached from the root buffer,
\* so that a later collection finds it (gc_possible_root, and the roots that
\* gc_collect_roots and gc_remove_nested_data_from_buffer drop).
NothingLost ==
    stack = <<>> /\ ~gc.protected =>
        alloc \subseteq Live \union ReachableFrom({ gc.buf[i].ref : i \in Used(gc) })

\* All of it holds too when the buffer is full or grows, and after a bailout
\* out of a collection.
SafeAtLimits == RefcountSound /\ OnlyGarbageFreed /\ NothingLost

\* A collection that met no destructor leaves nothing behind that neither
\* the program nor a call in progress refers to.
CollectsAll ==
    At("finish") /\ ~col.rerun /\ ~gc.protected =>
        alloc \subseteq ReachableFrom(held \union
            { stack[k].obj : k \in 1..(Len(stack) - 1) })

\* An object whose class has a destructor is never destroyed before its
\* destructor has been entered, by either way of dying.
DestructorFirst ==
    \A n \in Dtor \intersect alloc : hdr[n].freed \/ hdr[n].null => n \in ran

\* Every collection ends, although the destructors it runs may make new
\* garbage with destructors: it runs again once and no more.
CollectionEnds == (Null \in Calls({"gc"})) ~> (Null \notin Calls({"gc"}))

\* The collector is installed whenever it is called.
CollectorInstalled == ~nullcall
===============================================================================
