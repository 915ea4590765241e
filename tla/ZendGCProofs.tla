----------------------------- MODULE ZendGCProofs -----------------------------
(***************************************************************************)
(* The rest of a collection preserves the invariant of the cycle           *)
(* collector; a second invariant, about what garbage the collector knows   *)
(* of; and what follows from them, for any number of nodes and references, *)
(* any sizes of the root buffer and any nesting of destructors, as long as *)
(* the buffer has not overflowed.                                          *)
(***************************************************************************)
EXTENDS ZendGCInvariant

-----------------------------------------------------------------------------
(* From the garbage that was gathered to its destruction.                  *)

\* gc_collect_roots is done: all entries are garbage, and it is isolated.
LEMMA GatheredFacts ==
    ASSUME Gathers, col.todo = {}, col.idx = col.end
    PROVE  /\ RcOK(alloc, out, held, hdr, stack, bailed, Null, {}) /\ ColorOK(hdr, gc)
           /\ Isolated(alloc, out, held, hdr, stack, Gar(gc))
           /\ \A i \in Used(gc) : gc.buf[i].tag = "garbage"
           /\ \A n \in Gar(gc) : n \in Dtor /\ ~hdr[n].dtored => col.hasd
<1> DEFINE white == Colored(hdr, "white")
<1>0. Gathers
  OBVIOUS
<1>1. /\ RcOK(alloc, out, held, hdr, stack, bailed, Null, white \union col.todo)
      /\ \A y \in Node : hdr[y].color \in {"black", "white"}
      /\ \A i \in Used(gc) :
            /\ gc.buf[i].tag = IF i < col.idx \/ i >= col.end THEN "garbage" ELSE "root"
            /\ gc.buf[i].tag = "garbage" => hdr[gc.buf[i].ref].color = "black"
            /\ gc.buf[i].ref \in Node
      /\ col.idx \in Nat /\ 1..(gc.first_unused - 1) = Used(gc) /\ gc.first_unused \in Nat
  BY ONLY <1>0, GatherFacts
<1>2. /\ Isolated(alloc, out, held, hdr, stack, Whites(hdr, gc, col))
      /\ From(hdr, out, Roots(hdr, gc, white) \union col.todo, white \union col.todo, white)
      /\ \A n \in Tagged(gc, Tags) \ (white \union col.todo) : n \in Dtor /\ ~hdr[n].dtored => col.hasd
  BY <1>0 DEF Gathers, Gathering
<1>3. \A i \in Used(gc) : gc.buf[i].tag = "garbage" /\ hdr[gc.buf[i].ref].color = "black"
  <2>1. \A i \in Used(gc) : i < col.idx \/ i >= col.end
    BY <1>1
  <2> QED
    BY <2>1, <1>1
<1>4. Roots(hdr, gc, white) \union col.todo = {}
  BY <1>3 DEF Roots, Colored
<1>5. white = {}
  <2> DEFINE B == Roots(hdr, gc, white) \union col.todo
             D == white \union col.todo
             C == {}
  <2>1. From(hdr, out, B, D, white) /\ B \subseteq C
    BY <1>2, <1>4
  <2>2. \A m : m \notin C
    OBVIOUS
  <2> HIDE DEF B, D, C, white
  <2>3. white \subseteq C
    BY ONLY <2>1, <2>2 DEF From
  <2> QED
    BY <2>3 DEF C
<1>6. white \union col.todo = {}
  BY <1>5
<1>7. \A y \in Node : hdr[y].color = "black"
  BY <1>1, <1>5 DEF Colored
<1>8. Tagged(gc, Tags) = Gar(gc)
  BY <1>3 DEF Gar, Tagged, Tags
<1>9. Whites(hdr, gc, col) = Gar(gc)
  BY <1>5, <1>8 DEF Whites
<1>10. ColorOK(hdr, gc)
  BY <1>3, <1>7 DEF ColorOK
<1> QED
  BY <1>1, <1>2, <1>3, <1>6, <1>8, <1>9, <1>10

\* The garbage is gathered: it is destroyed, or destructors run first.
LEMMA CollectDoneOK == ASSUME Gathers, CollectDone PROVE Calm' \/ Prepares'
<1>0. Gathers
  OBVIOUS
<1>1. /\ col.todo = {} /\ col.idx = col.end
      /\ col' = IF gc.num_roots = 0 THEN GoTo("finish", 0)
                ELSE [GoTo(IF col.hasd THEN "prepare" ELSE "destroy", 1) EXCEPT !.end = gc.first_unused]
      /\ gc' = gc /\ hdr' = hdr /\ alloc' = alloc /\ out' = out /\ held' = held /\ stack' = stack
      /\ bailed' = bailed /\ ran' = ran
  BY DEF CollectDone, Quiet, heap
<1>2. /\ Base(alloc, out, held, hdr, gc, col, stack, bailed, ran)
      /\ BufOK(alloc, hdr, gc) /\ col.btodo = {} /\ gc.first_unused \in Nat
      /\ alloc \in SUBSET Node /\ hdr \in [Node -> Hdr] /\ gc \in Globals /\ col \in Locals
      /\ col.pc = "collect"
  BY ONLY <1>0, GatherFacts
<1>3. /\ RcOK(alloc, out, held, hdr, stack, bailed, Null, {}) /\ ColorOK(hdr, gc)
      /\ Isolated(alloc, out, held, hdr, stack, Gar(gc))
      /\ \A i \in Used(gc) : gc.buf[i].tag = "garbage"
      /\ \A n \in Gar(gc) : n \in Dtor /\ ~hdr[n].dtored => col.hasd
  BY <1>1, GatheredFacts
<1>4. Sealed(alloc, out, held, stack, Gar(gc)) /\ DtorOK(alloc, hdr, {}, ran) /\ col.pc \in Traversing
  BY <1>2, <1>3 DEF Sealed, Isolated, Base, Traversing
<1>5. gc.first_unused >= 1 /\ gc.num_roots = Cardinality(Used(gc)) /\ IsFiniteSet(Used(gc))
  BY <1>2, UsedFacts DEF BufOK, Entries
<1>6. CASE gc.num_roots = 0
  <2>1. /\ col' \in Locals /\ col'.pc = "finish" /\ col'.todo = {} /\ col'.btodo = {}
    BY <1>1, <1>2, <1>6, GoToFacts DEF Pcs
  <2>2. Used(gc) = {}
    BY <1>5, <1>6, FS_EmptySet
  <2>3. Gar(gc) = {}
    BY <2>2 DEF Gar, Tagged
  <2>4. TagOK(gc, col')
    BY <2>1, <2>2 DEF TagOK
  <2>5. DtorOK(alloc, hdr, Gar(gc), ran)
    BY <2>3, <1>4
  <2>6. col'.pc \in {"finish", "destroy", "dtors"} /\ (col'.pc # "finish" => col'.idx = 1)
    BY <2>1
  <2>7. Steady(alloc, out, held, hdr, gc, col', stack, bailed, ran, Null)
    BY ONLY <2>1, <2>4, <2>5, <2>6, <1>2, <1>3, <1>4, LeaveBase
  <2> QED
    BY <2>1, <2>7, <1>1 DEF Calm, SteadyPcs
<1>7. CASE gc.num_roots # 0
  <2> DEFINE pc == IF col.hasd THEN "prepare" ELSE "destroy"
             c == GoTo(pc, 1)
             f == gc.first_unused
  <2>0. pc \in Pcs
    BY DEF Pcs
  <2>1. c \in Locals /\ c.pc = pc /\ c.idx = 1 /\ c.todo = {} /\ c.btodo = {}
    <3> HIDE DEF pc
    <3> QED
      BY <2>0, <1>1, <1>2, GoToFacts
  <2>2. col' = [c EXCEPT !.end = f] /\ f \in Nat
    BY <1>1, <1>2, <1>7
  <2> HIDE DEF c, f, pc
  <2>3. col' \in Locals /\ col'.pc = pc /\ col'.idx = 1 /\ col'.todo = {} /\ col'.btodo = {} /\ col'.end = f
    <3>1. col' \in Locals /\ col'.pc = c.pc /\ col'.idx = c.idx /\ col'.todo = c.todo /\ col'.btodo = c.btodo /\ col'.end = f
      BY ONLY <2>1, <2>2 DEF Locals
    <3> QED
      BY ONLY <2>1, <3>1
  <2>4. CASE col.hasd
    <3>1. col'.pc = "prepare"
      BY <2>3, <2>4 DEF pc
    <3>2. Base(alloc, out, held, hdr, gc, col', stack, bailed, ran)
      <4>1. col.pc \in Traversing /\ col'.pc \in Traversing /\ col'.idx # 0 /\ col' \in Locals
        BY <3>1, <2>3, <1>2 DEF Traversing
      <4>2. /\ \A y \in Node : /\ hdr[y].null = hdr[y].null /\ hdr[y].freed = hdr[y].freed
                               /\ hdr[y].dtored = hdr[y].dtored /\ hdr[y].addr = hdr[y].addr
            /\ \A y \in alloc : hdr[y].rc = hdr[y].rc \/ \E m \in alloc : y \in out[m]
        OBVIOUS
      <4> QED
        BY ONLY <4>1, <4>2, <1>2, BaseHdr
    <3>3. col'.end = gc.first_unused /\ col'.todo = {} /\ col'.btodo = {}
      BY <2>3 DEF f
    <3>4. Preparing(alloc, out, held, hdr, gc, col', stack, bailed, ran)
      BY ONLY <3>2, <3>3, <1>3 DEF Preparing
    <3> QED
      BY <3>1, <3>4, <1>1 DEF Prepares
  <2>5. CASE ~col.hasd
    <3>1. col'.pc = "destroy"
      BY <2>3, <2>5 DEF pc
    <3>2. col'.end = gc.first_unused /\ col'.todo = {} /\ col'.btodo = {} /\ col'.idx = 1
      BY <2>3 DEF f
    <3>3. TagOK(gc, col')
      <4>1. \A i \in Used(gc) : i < gc.first_unused /\ gc.buf[i].tag = "garbage"
        BY <1>2, <1>3 DEF Used
      <4>2. 1 <= gc.first_unused /\ gc.first_unused <= gc.first_unused /\ gc.active
        BY <1>2, <1>5 DEF Base, StackOK
      <4> QED
        BY <4>1, <4>2, <3>1, <3>2 DEF TagOK
    <3>4. DtorOK(alloc, hdr, Gar(gc), ran)
      BY <2>5, <1>3, <1>4 DEF DtorOK
    <3>5. col'.pc \in {"finish", "destroy", "dtors"} /\ (col'.pc # "finish" => col'.idx = 1) /\ col' \in Locals
      BY <3>1, <3>2, <2>3
    <3>6. Steady(alloc, out, held, hdr, gc, col', stack, bailed, ran, Null)
      BY ONLY <3>3, <3>4, <3>5, <1>2, <1>3, <1>4, LeaveBase
    <3> QED
      BY <3>1, <3>6, <1>1 DEF Calm, SteadyPcs
  <2> QED
    BY <2>4, <2>5
<1> QED
  BY <1>6, <1>7

\* gc_call_destructors, first pass: the objects whose destructor is due.
LEMMA DtorPrepareNests == ASSUME Prepares, DtorPrepare PROVE Nests'
<1> DEFINE objs == { i \in Used(gc) : /\ gc.buf[i].tag = "garbage" /\ gc.buf[i].ref \notin Arr
                                      /\ ~hdr[gc.buf[i].ref].dtored }
           due == { i \in objs : gc.buf[i].ref \in Dtor }
           D == { gc.buf[i].ref : i \in due }
           E == { gc.buf[i].ref : i \in objs \ due }
           bf == [i \in DOMAIN gc.buf |-> IF i \in due THEN [gc.buf[i] EXCEPT !.tag = "dtor"] ELSE gc.buf[i]]
<1>1. /\ gc' = [gc EXCEPT !.buf = bf]
      /\ hdr' = [n \in Node |-> CASE n \in D -> [hdr[n] EXCEPT !.color = "purple"]
                                  [] n \in E -> [hdr[n] EXCEPT !.dtored = TRUE]
                                  [] OTHER -> hdr[n]]
      /\ col' = [GoTo("nested", 1) EXCEPT !.rerun = TRUE]
      /\ alloc' = alloc /\ out' = out /\ held' = held /\ stack' = stack
      /\ bailed' = bailed /\ ran' = ran
  BY DEF DtorPrepare, Quiet, heap
<1>2. /\ Base(alloc, out, held, hdr, gc, col, stack, bailed, ran)
      /\ RcOK(alloc, out, held, hdr, stack, bailed, Null, {})
      /\ ColorOK(hdr, gc) /\ col.todo = {} /\ col.btodo = {} /\ col.end = gc.first_unused
      /\ Isolated(alloc, out, held, hdr, stack, Gar(gc))
      /\ \A i \in Used(gc) : gc.buf[i].tag = "garbage"
      /\ col.pc = "prepare"
  BY DEF Prepares, Preparing
<1>3. /\ BufOK(alloc, hdr, gc) /\ gc.active /\ alloc \in SUBSET Node /\ hdr \in [Node -> Hdr]
      /\ gc \in Globals /\ col \in Locals /\ gc.buf \in [1..(MaxBufSize - 1) -> Slots]
  BY <1>2 DEF Base, Types, StackOK, Globals
<1>4. /\ \A i, j \in Used(gc) : gc.buf[i].ref = gc.buf[j].ref => i = j
      /\ \A i \in Used(gc) : /\ i \in 1..(MaxBufSize - 1) /\ gc.buf[i].ref \in Node /\ gc.buf[i].ref \in alloc
                             /\ hdr[gc.buf[i].ref].addr # 0 /\ i >= 1
      /\ gc.first_unused \in Nat /\ gc.first_unused >= 1
      /\ gc.buf_size <= MaxBufSize /\ gc.threshold <= gc.buf_size /\ gc.buf_size \in Nat
  <2>1. Entries(alloc, hdr, gc)
    BY <1>3 DEF BufOK
  <2>2. /\ Used(gc) \in SUBSET (1..(gc.first_unused - 1))
        /\ \A i \in 1..(gc.first_unused - 1) : i \in 1..(MaxBufSize - 1)
        /\ \A i \in Used(gc) : gc.buf[i].ref \in Node /\ hdr[gc.buf[i].ref].addr # 0
        /\ gc.first_unused \in Nat /\ gc.first_unused >= 1
        /\ gc.buf_size <= MaxBufSize /\ gc.buf_size \in Nat
    BY ONLY <1>3, <2>1, UsedFacts
  <2>3. gc.threshold <= gc.buf_size /\ \A i \in Used(gc) : gc.buf[i].ref \in alloc
    BY <2>1 DEF Entries
  <2>4. \A i \in 1..(gc.first_unused - 1) : i >= 1
    BY <2>2
  <2> QED
    BY <2>1, <2>2, <2>3, <2>4 DEF Entries
<1>5. /\ \A i \in Used(gc) : gc.buf[i].ref \in D <=> i \in due
      /\ \A i \in Used(gc) : gc.buf[i].ref \in E <=> i \in objs \ due
      /\ due \subseteq Used(gc) /\ \A y \in D : y \in Dtor /\ hdr[y].addr # 0
      /\ \A y \in E : y \notin D /\ y \notin Dtor
      /\ \A i \in Used(gc) : gc.buf[i].ref \in Dtor /\ i \notin due => hdr[gc.buf[i].ref].dtored
  BY <1>2, <1>4, KindAssumption
<1> HIDE DEF objs, due, D, E
<1>6. /\ hdr' \in [Node -> Hdr]
      /\ \A y \in Node :
           /\ hdr'[y].rc = hdr[y].rc /\ hdr'[y].addr = hdr[y].addr /\ hdr'[y].null = hdr[y].null
           /\ hdr'[y].freed = hdr[y].freed /\ (hdr[y].dtored => hdr'[y].dtored)
           /\ y \notin E => hdr'[y].dtored = hdr[y].dtored
           /\ hdr'[y].color = IF y \in D THEN "purple" ELSE hdr[y].color
  <2>1. ASSUME NEW y \in Node
        PROVE  /\ hdr'[y] \in Hdr
               /\ hdr'[y].rc = hdr[y].rc /\ hdr'[y].addr = hdr[y].addr /\ hdr'[y].null = hdr[y].null
               /\ hdr'[y].freed = hdr[y].freed /\ (hdr[y].dtored => hdr'[y].dtored)
               /\ y \notin E => hdr'[y].dtored = hdr[y].dtored
               /\ hdr'[y].color = IF y \in D THEN "purple" ELSE hdr[y].color
    <3> DEFINE v == hdr[y]
               w == hdr'[y]
               p == "purple"
               t == TRUE
    <3>0. v \in Hdr /\ p \in Colors /\ t \in BOOLEAN /\ t
      BY <1>3 DEF Colors
    <3>1. CASE y \in D
      <4>1. w = [v EXCEPT !.color = p]
        BY <1>1, <1>5, <3>1
      <4> HIDE DEF v, w, p
      <4>2. /\ w \in Hdr /\ w.rc = v.rc /\ w.addr = v.addr /\ w.null = v.null /\ w.freed = v.freed
            /\ w.dtored = v.dtored /\ w.color = p
        BY ONLY <3>0, <4>1 DEF Hdr
      <4> QED
        BY <4>2, <3>1 DEF v, w, p
    <3>2. CASE y \in E
      <4>1. w = [v EXCEPT !.dtored = t] /\ y \notin D
        BY <1>1, <1>5, <3>2
      <4> HIDE DEF v, w, t
      <4>2. /\ w \in Hdr /\ w.rc = v.rc /\ w.addr = v.addr /\ w.null = v.null /\ w.freed = v.freed
            /\ w.dtored = t /\ w.color = v.color
        BY ONLY <3>0, <4>1 DEF Hdr
      <4> QED
        BY <4>1, <4>2, <3>0, <3>2 DEF v, w
    <3>3. CASE y \notin D /\ y \notin E
      <4>1. w = v
        BY <1>1, <3>3
      <4> QED
        BY <4>1, <3>0, <3>3
    <3> QED
      BY <3>1, <3>2, <3>3
  <2>2. hdr' = [y \in Node |-> hdr'[y]]
    BY <1>1
  <2> QED
    BY <2>1, <2>2
<1>7. /\ bf \in [1..(MaxBufSize - 1) -> Slots]
      /\ \A i \in 1..(MaxBufSize - 1) : /\ bf[i].ref = gc.buf[i].ref /\ bf[i].next = gc.buf[i].next
                                        /\ bf[i].tag = IF i \in due THEN "dtor" ELSE gc.buf[i].tag
  <2>1. ASSUME NEW i \in 1..(MaxBufSize - 1)
        PROVE  /\ bf[i] \in Slots /\ bf[i].ref = gc.buf[i].ref /\ bf[i].next = gc.buf[i].next
               /\ bf[i].tag = IF i \in due THEN "dtor" ELSE gc.buf[i].tag
    <3> DEFINE v == gc.buf[i]
               w == bf[i]
               p == "dtor"
    <3>0. v \in Slots /\ p \in Tags /\ w = IF i \in due THEN [v EXCEPT !.tag = p] ELSE v
      BY <1>3 DEF Tags
    <3> HIDE DEF v, w, p, bf
    <3>1. /\ w \in Slots /\ w.ref = v.ref /\ w.next = v.next /\ w.tag = IF i \in due THEN p ELSE v.tag
      BY ONLY <3>0 DEF Slots
    <3> QED
      BY <3>1 DEF v, w, p
  <2>2. bf = [i \in 1..(MaxBufSize - 1) |-> bf[i]]
    BY <1>3
  <2> HIDE DEF bf
  <2> QED
    BY <2>1, <2>2
<1>8. gc' = [gc EXCEPT !.buf = bf]
  BY <1>1
<1> HIDE DEF bf
<1>9. /\ gc' \in Globals /\ gc'.buf = bf /\ gc'.unused = gc.unused /\ gc'.first_unused = gc.first_unused
      /\ gc'.num_roots = gc.num_roots /\ gc'.buf_size = gc.buf_size /\ gc'.threshold = gc.threshold
      /\ gc'.active = gc.active
  BY ONLY <1>8, <1>7, <1>3 DEF Globals
<1>10. Retagged(gc, gc')
  BY <1>7, <1>9, <1>5, <1>2 DEF Retagged
<1>11. BufOK(alloc, hdr', gc') /\ Used(gc') = Used(gc)
  <2>1. /\ \A y \in Node : hdr'[y].addr = hdr[y].addr
        /\ hdr' \in [Node -> Hdr] /\ gc' \in Globals
        /\ gc'.buf_size = gc.buf_size /\ gc'.threshold = gc.threshold
    BY <1>6, <1>9
  <2>2. /\ BufOK(alloc, hdr, gc) /\ alloc \in SUBSET Node /\ hdr \in [Node -> Hdr] /\ gc \in Globals
    BY <1>3
  <2>3. BufOK(alloc, hdr', gc')
    BY ONLY <2>1, <2>2, <1>10, BufRetag
  <2>4. Used(gc') = Used(gc)
    BY ONLY <2>2, <1>10, RetagUsed
  <2> QED
    BY <2>3, <2>4
<1>12. /\ col' \in Locals /\ col'.pc = "nested" /\ col'.idx = 1 /\ col'.todo = {} /\ col'.btodo = {}
       /\ col'.end = gc.first_unused
  <2> DEFINE c == GoTo("nested", 1)
             t == TRUE
  <2>1. c \in Locals /\ c.pc = "nested" /\ c.idx = 1 /\ c.todo = {} /\ c.btodo = {} /\ c.end = gc.first_unused
    BY <1>2, <1>3, GoToFacts DEF Pcs
  <2>2. col' = [c EXCEPT !.rerun = t] /\ t \in BOOLEAN
    BY <1>1
  <2> HIDE DEF c, t
  <2>3. col' \in Locals /\ col'.pc = c.pc /\ col'.idx = c.idx /\ col'.todo = c.todo /\ col'.btodo = c.btodo
        /\ col'.end = c.end
    BY ONLY <2>1, <2>2 DEF Locals
  <2> QED
    BY ONLY <2>1, <2>3
<1>13. Base(alloc, out, held, hdr', gc', col', stack, bailed, ran)
  <2>1. Repainted(alloc, out, hdr, hdr')
    <3>1. \A y \in Dtor : y \in Node /\ y \notin E
      BY <1>5, KindAssumption
    <3>2. \A y \in alloc : y \in Node
      BY <1>3
    <3> QED
      BY <3>1, <3>2, <1>6 DEF Repainted
  <2>2. col.pc \in Traversing \union {"start"} /\ col'.pc \in Traversing /\ col'.idx # 0 /\ gc'.active
    BY <1>2, <1>12, <1>9, <1>3 DEF Traversing
  <2> QED
    BY ONLY <2>1, <2>2, <1>2, <1>6, <1>9, <1>11, <1>12, BaseMove
<1>14. RcOK(alloc, out, held, hdr', stack, bailed, Null, {})
  <2>1. \A m \in Node : hdr'[m].null = hdr[m].null /\ hdr'[m].freed = hdr[m].freed /\ hdr'[m].rc = hdr[m].rc
    BY <1>6
  <2>2. \A m \in alloc : m \in {} <=> m \in {}
    OBVIOUS
  <2> QED
    BY ONLY <2>1, <2>2, <1>2, <1>3, RcKeep
<1>15. ColorOK(hdr', gc')
  <2>1. \A i \in Used(gc) : /\ gc'.buf[i].ref = gc.buf[i].ref
                            /\ gc'.buf[i].tag = IF i \in due THEN "dtor" ELSE "garbage"
    BY <1>2, <1>4, <1>7, <1>9
  <2>2. \A i \in Used(gc) : hdr[gc.buf[i].ref].color = "black"
    BY <1>2 DEF ColorOK
  <2>3. \A i \in Used(gc) : hdr'[gc.buf[i].ref].color = IF i \in due THEN "purple" ELSE "black"
    BY <1>4, <1>5, <1>6, <2>2
  <2>4. \A n \in Node : hdr'[n].color \in {"black", "purple"} /\ (hdr'[n].addr = 0 => hdr'[n].color = "black")
    BY <1>2, <1>5, <1>6 DEF ColorOK
  <2> QED
    BY <2>1, <2>3, <2>4, <1>11 DEF ColorOK
<1>16. \A i \in Used(gc') : /\ gc'.buf[i].tag \in {"garbage", "dtor"}
                            /\ gc'.buf[i].tag = "dtor" => gc'.buf[i].ref \in Dtor
  <2>1. \A i \in due : gc.buf[i].ref \in Dtor
    BY DEF due
  <2> QED
    BY <2>1, <1>2, <1>4, <1>7, <1>9, <1>11
<1>17. ASSUME NEW n \in Gar(gc')
       PROVE  /\ n \in alloc /\ n \notin held /\ (n \in Dtor => hdr'[n].dtored)
              /\ \A k \in 1..Len(stack) : stack[k].obj # n
              /\ \A m \in alloc : n \in out[m] =>
                   /\ n \in Kids(hdr', out, m)
                   /\ \/ m \in Gar(gc')
                      \/ \E i \in Used(gc') : i >= col'.idx /\ gc'.buf[i].tag = "dtor" /\ gc'.buf[i].ref = m
  <2>1. PICK i \in Used(gc) : n = gc.buf[i].ref /\ i \notin due
    BY <1>4, <1>7, <1>9, <1>11 DEF Gar, Tagged
  <2>2. n \in Gar(gc)
    BY <2>1, <1>2 DEF Gar, Tagged
  <2>3. /\ n \in alloc /\ n \notin held /\ \A k \in 1..Len(stack) : stack[k].obj # n
        /\ \A m \in alloc : n \in out[m] => m \in Gar(gc) /\ n \in Kids(hdr, out, m)
    BY <2>2, <1>2 DEF Isolated
  <2>4. n \in Dtor => hdr'[n].dtored
    BY <2>1, <1>4, <1>5, <1>6
  <2>5. ASSUME NEW m \in alloc, n \in out[m]
        PROVE  /\ n \in Kids(hdr', out, m)
               /\ \/ m \in Gar(gc')
                  \/ \E j \in Used(gc') : j >= col'.idx /\ gc'.buf[j].tag = "dtor" /\ gc'.buf[j].ref = m
    <3>1. m \in Gar(gc) /\ n \in Kids(hdr, out, m)
      BY <2>3, <2>5
    <3>2. n \in Kids(hdr', out, m)
      BY <3>1, <1>3, <1>6 DEF Kids
    <3>3. PICK j \in Used(gc) : m = gc.buf[j].ref /\ gc.buf[j].tag = "garbage"
      BY <3>1 DEF Gar, Tagged
    <3>4. gc'.buf[j].ref = m /\ (gc'.buf[j].tag = IF j \in due THEN "dtor" ELSE "garbage") /\ j \in Used(gc') /\ j >= 1
      BY <3>3, <1>4, <1>7, <1>9, <1>11
    <3> QED
      BY <3>2, <3>4, <1>12 DEF Gar, Tagged
  <2> QED
    BY <2>3, <2>4, <2>5
<1>18. col'.idx <= col'.end /\ col'.end = gc'.first_unused
  BY <1>4, <1>9, <1>12
<1>19. Nesting(alloc, out, held, hdr', gc', col', stack, bailed, ran)
  BY ONLY <1>12, <1>13, <1>14, <1>15, <1>16, <1>17, <1>18 DEF Nesting
<1> QED
  BY <1>1, <1>12, <1>19 DEF Nests

\* gc_remove_nested_data_from_buffer: what holds all along.
NestedIn(h, g, c, n) ==
    /\ n \in alloc /\ n \notin held /\ (n \in Dtor => h[n].dtored)
    /\ \A k \in 1..Len(stack) : stack[k].obj # n
    /\ \A m \in alloc : n \in out[m] =>
         /\ n \in Kids(h, out, m)
         /\ \/ m \in Gar(g) \/ n \in c.todo
            \/ \E i \in Used(g) : i >= c.idx /\ g.buf[i].tag = "dtor" /\ g.buf[i].ref = m
\* What this part of the invariant says.
LEMMA NestFacts ==
    ASSUME Nests
    PROVE  /\ Base(alloc, out, held, hdr, gc, col, stack, bailed, ran)
           /\ RcOK(alloc, out, held, hdr, stack, bailed, Null, {}) /\ ColorOK(hdr, gc)
           /\ col.btodo = {} /\ col.idx <= col.end /\ col.end = gc.first_unused
           /\ \A i \in Used(gc) : /\ gc.buf[i].tag \in {"garbage", "dtor"}
                                  /\ (gc.buf[i].tag = "dtor" => gc.buf[i].ref \in Dtor)
           /\ \A n \in Gar(gc) : NestedIn(hdr, gc, col, n)
           /\ BufOK(alloc, hdr, gc) /\ gc.active /\ alloc \in SUBSET Node /\ hdr \in [Node -> Hdr]
           /\ gc \in Globals /\ col \in Locals /\ out \in [Node -> SUBSET Node]
           /\ \A i \in Used(gc) : /\ i \in 1..(gc.first_unused - 1) /\ i \in 1..(MaxBufSize - 1)
                                  /\ gc.buf[i].ref \in Node /\ gc.buf[i].ref \in alloc
           /\ col.idx \in Nat /\ col.idx # 0 /\ col.end \in Nat /\ col.todo \in SUBSET Node
           /\ col.pc = "nested" /\ col.count \in Int
           /\ \A m \in alloc : out[m] \subseteq alloc
<1>1. /\ Base(alloc, out, held, hdr, gc, col, stack, bailed, ran)
      /\ RcOK(alloc, out, held, hdr, stack, bailed, Null, {}) /\ ColorOK(hdr, gc)
      /\ col.btodo = {} /\ col.idx <= col.end /\ col.end = gc.first_unused
      /\ \A i \in Used(gc) : /\ gc.buf[i].tag \in {"garbage", "dtor"}
                             /\ (gc.buf[i].tag = "dtor" => gc.buf[i].ref \in Dtor)
      /\ col.pc = "nested"
  BY DEF Nests, Nesting
<1>2. \A n \in Gar(gc) : NestedIn(hdr, gc, col, n)
  BY DEF Nests, Nesting, NestedIn
<1>3. /\ BufOK(alloc, hdr, gc) /\ gc.active /\ alloc \in SUBSET Node /\ hdr \in [Node -> Hdr]
      /\ gc \in Globals /\ col \in Locals /\ out \in [Node -> SUBSET Node] /\ col.idx # 0
      /\ \A m \in alloc : out[m] \subseteq alloc
  BY <1>1 DEF Base, Types, StackOK, Closed
<1>4. \A i \in Used(gc) : i \in 1..(gc.first_unused - 1) /\ i \in 1..(MaxBufSize - 1) /\ gc.buf[i].ref \in Node
  BY ONLY <1>3, TaggedAll
<1>5. \A i \in Used(gc) : gc.buf[i].ref \in alloc
  BY <1>3 DEF BufOK, Entries
<1>6. col.idx \in Nat /\ col.end \in Nat /\ col.todo \in SUBSET Node /\ col.count \in Int
  BY <1>3 DEF Locals
<1> QED
  BY <1>1, <1>2, <1>3, <1>4, <1>5, <1>6

\* A step of it keeps this part of the invariant.
LEMMA NestMove ==
    ASSUME Nests, NEW h2 \in [Node -> Hdr], NEW g2 \in Globals, NEW c2 \in Locals,
           c2.pc = "nested", c2.idx # 0, c2.btodo = {}, c2.idx <= c2.end, c2.end = g2.first_unused,
           BufOK(alloc, h2, g2), ColorOK(h2, g2), g2.active,
           \A y \in Node : /\ h2[y].null = hdr[y].null /\ h2[y].freed = hdr[y].freed
                           /\ h2[y].dtored = hdr[y].dtored /\ h2[y].rc = hdr[y].rc
                           /\ hdr[y].addr = 0 => h2[y].addr = 0,
           \A i \in Used(g2) : /\ g2.buf[i].tag \in {"garbage", "dtor"}
                               /\ g2.buf[i].tag = "dtor" => g2.buf[i].ref \in Dtor,
           \A n \in Gar(g2) : NestedIn(h2, g2, c2, n)
    PROVE  Nesting(alloc, out, held, h2, g2, c2, stack, bailed, ran)
<1>0. Nests
  OBVIOUS
<1>1. /\ Base(alloc, out, held, hdr, gc, col, stack, bailed, ran)
      /\ RcOK(alloc, out, held, hdr, stack, bailed, Null, {}) /\ col.pc = "nested"
      /\ alloc \in SUBSET Node
  BY ONLY <1>0, NestFacts
<1>2. Repainted(alloc, out, hdr, h2)
  <2>1. \A y \in Dtor : y \in Node
    BY KindAssumption
  <2> QED
    BY <2>1, <1>1 DEF Repainted
<1>3. Base(alloc, out, held, h2, g2, c2, stack, bailed, ran)
  <2>1. col.pc \in Traversing \union {"start"} /\ c2.pc \in Traversing /\ c2.idx # 0 /\ g2.active /\ BufOK(alloc, h2, g2)
    BY <1>1 DEF Traversing
  <2> QED
    BY ONLY <2>1, <1>1, <1>2, BaseMove
<1>4. RcOK(alloc, out, held, h2, stack, bailed, Null, {})
  <2>1. \A m \in Node : h2[m].null = hdr[m].null /\ h2[m].freed = hdr[m].freed /\ h2[m].rc = hdr[m].rc
    OBVIOUS
  <2>2. \A m \in alloc : m \in {} <=> m \in {}
    OBVIOUS
  <2> QED
    BY ONLY <2>1, <2>2, <1>1, RcKeep
<1> QED
  BY <1>3, <1>4 DEF Nesting, NestedIn

\* An object whose destructor is due: what it refers to comes next.
LEMMA NestedRootNests == ASSUME Nests, NestedRoot PROVE Nests'
<1>0. Nests
  OBVIOUS
<1>1. /\ col.todo = {} /\ col.idx < col.end /\ hdr' = hdr /\ gc' = gc
      /\ col' = IF gc.buf[col.idx].tag = "dtor"
                THEN [col EXCEPT !.idx = @ + 1, !.count = @ - 1, !.todo = Children(gc.buf[col.idx].ref)]
                ELSE [col EXCEPT !.idx = @ + 1]
      /\ alloc' = alloc /\ out' = out /\ held' = held /\ stack' = stack
      /\ bailed' = bailed /\ ran' = ran
  BY DEF NestedRoot, Entry, Quiet, heap
<1>2. /\ BufOK(alloc, hdr, gc) /\ ColorOK(hdr, gc) /\ gc.active /\ hdr \in [Node -> Hdr]
      /\ gc \in Globals /\ col \in Locals /\ out \in [Node -> SUBSET Node] /\ alloc \in SUBSET Node
      /\ col.idx \in Nat /\ col.idx # 0 /\ col.end \in Nat /\ col.todo \in SUBSET Node
      /\ col.btodo = {} /\ col.end = gc.first_unused /\ col.pc = "nested" /\ col.count \in Int
      /\ \A i \in Used(gc) : gc.buf[i].tag \in {"garbage", "dtor"} /\ gc.buf[i].ref \in Node
                             /\ (gc.buf[i].tag = "dtor" => gc.buf[i].ref \in Dtor)
  BY ONLY <1>0, NestFacts
<1>3. \A n \in Gar(gc) : NestedIn(hdr, gc, col, n)
  BY ONLY <1>0, NestFacts
<1> DEFINE e == gc.buf[col.idx]
           T == IF e.tag = "dtor" THEN Kids(hdr, out, e.ref) ELSE {}
           j == col.idx + 1
           k == col.count - 1
<1>4. e.tag = "dtor" => e.ref \in Node
  <2>1. col.idx \in 1..(gc.first_unused - 1)
    BY <1>1, <1>2
  <2>2. e.tag = "dtor" => col.idx \in Used(gc)
    BY <2>1 DEF Used
  <2> QED
    BY <2>2, <1>2
<1>5. T \in SUBSET Node /\ Children(e.ref) = Kids(hdr, out, e.ref)
  BY <1>4, <1>2 DEF Kids, Children
<1>6. /\ col' \in Locals /\ col'.pc = "nested" /\ col'.idx = col.idx + 1 /\ col'.end = col.end
      /\ col'.btodo = {} /\ col'.todo = T
  <2>1. col' = IF e.tag = "dtor" THEN [col EXCEPT !.idx = j, !.count = k, !.todo = T]
               ELSE [col EXCEPT !.idx = j]
    BY <1>1, <1>5
  <2>2. /\ T \in SUBSET Node /\ j \in Nat /\ k \in Int /\ col \in Locals
        /\ e.tag # "dtor" => T = col.todo
    BY <1>1, <1>2, <1>5
  <2> HIDE DEF e, T, j, k
  <2>3. /\ col' \in Locals /\ col'.pc = col.pc /\ col'.idx = j /\ col'.end = col.end
        /\ col'.btodo = col.btodo /\ col'.todo = T
    BY ONLY <2>1, <2>2 DEF Locals
  <2> QED
    BY <2>3, <1>2 DEF j
<1>7. ASSUME NEW n \in Gar(gc) PROVE NestedIn(hdr, gc, col', n)
  <2>1. NestedIn(hdr, gc, col, n)
    BY <1>3
  <2>2. ASSUME NEW m \in alloc, n \in out[m]
        PROVE  /\ n \in Kids(hdr, out, m)
               /\ \/ m \in Gar(gc) \/ n \in col'.todo
                  \/ \E i \in Used(gc) : i >= col'.idx /\ gc.buf[i].tag = "dtor" /\ gc.buf[i].ref = m
    <3>1. /\ n \in Kids(hdr, out, m)
          /\ \/ m \in Gar(gc)
             \/ \E i \in Used(gc) : i >= col.idx /\ gc.buf[i].tag = "dtor" /\ gc.buf[i].ref = m
      BY <2>1, <2>2, <1>1 DEF NestedIn
    <3>2. ASSUME NEW i \in Used(gc), i >= col.idx, gc.buf[i].tag = "dtor", gc.buf[i].ref = m
          PROVE  n \in col'.todo \/ (i >= col'.idx /\ gc.buf[i].tag = "dtor" /\ gc.buf[i].ref = m)
      <4>1. CASE i = col.idx
        BY <4>1, <3>1, <3>2, <1>6
      <4>2. CASE i # col.idx
        <5>1. i \in 1..(gc.first_unused - 1)
          BY DEF Used
        <5>2. i \in Int
          BY <5>1, <1>2
        <5>3. i >= col'.idx
          BY <4>2, <3>2, <5>2, <1>2, <1>6
        <5> QED
          BY <3>2, <5>3
      <4> QED
        BY <4>1, <4>2
    <3> QED
      BY <3>1, <3>2
  <2> QED
    BY <2>1, <2>2 DEF NestedIn
<1>8. /\ col'.idx # 0 /\ col'.idx <= col'.end /\ col'.end = gc.first_unused
  BY <1>1, <1>2, <1>6
<1>9. Nesting(alloc, out, held, hdr, gc, col', stack, bailed, ran)
  <2>1. \A y \in Node : /\ hdr[y].null = hdr[y].null /\ hdr[y].freed = hdr[y].freed
                        /\ hdr[y].dtored = hdr[y].dtored /\ hdr[y].rc = hdr[y].rc
                        /\ hdr[y].addr = 0 => hdr[y].addr = 0
    OBVIOUS
  <2> QED
    BY ONLY <2>1, <1>0, <1>2, <1>6, <1>7, <1>8, NestMove
<1> QED
  BY <1>1, <1>6, <1>9 DEF Nests

\* gc_remove_nested_data_from_buffer: one node that a destructor can reach.
LEMMA NestedDataNests ==
    ASSUME NEW n \in Node, Nests, gc_remove_nested_data_from_buffer(n) PROVE Nests'
<1>0. Nests
  OBVIOUS
<1>1. /\ n \in col.todo
      /\ IF hdr[n].addr # 0 /\ hdr[n].color = "black"
         THEN /\ gc' = gc_remove_from_buffer(gc, n) /\ hdr' = NoInfo(hdr, n)
              /\ col' = [col EXCEPT !.count = @ - 1, !.todo = (@ \ {n}) \union Children(n)]
         ELSE col' = [col EXCEPT !.todo = @ \ {n}] /\ hdr' = hdr /\ gc' = gc
      /\ alloc' = alloc /\ out' = out /\ held' = held /\ stack' = stack
      /\ bailed' = bailed /\ ran' = ran
  BY DEF gc_remove_nested_data_from_buffer, Quiet, heap
<1>2. /\ BufOK(alloc, hdr, gc) /\ ColorOK(hdr, gc) /\ gc.active /\ hdr \in [Node -> Hdr]
      /\ gc \in Globals /\ col \in Locals /\ out \in [Node -> SUBSET Node] /\ alloc \in SUBSET Node
      /\ col.idx \in Nat /\ col.idx # 0 /\ col.end \in Nat /\ col.todo \in SUBSET Node
      /\ col.btodo = {} /\ col.end = gc.first_unused /\ col.pc = "nested" /\ col.count \in Int
      /\ col.idx <= col.end
      /\ \A i \in Used(gc) : gc.buf[i].tag \in {"garbage", "dtor"} /\ gc.buf[i].ref \in Node
                             /\ (gc.buf[i].tag = "dtor" => gc.buf[i].ref \in Dtor)
                             /\ gc.buf[i].ref \in alloc
  BY ONLY <1>0, NestFacts
<1>3. \A y \in Gar(gc) : NestedIn(hdr, gc, col, y)
  BY ONLY <1>0, NestFacts
<1>4. \A y \in Gar(gc) : y \in Node /\ hdr[y].addr # 0 /\ hdr[y].color = "black"
  <2>1. Entries(alloc, hdr, gc)
    BY <1>2 DEF BufOK
  <2>2. \A i \in Used(gc) : hdr[gc.buf[i].ref].addr # 0
    BY ONLY <2>1, <1>2, UsedFacts
  <2> QED
    BY <2>2, <1>2 DEF Gar, Tagged, ColorOK
<1>5. CASE ~(hdr[n].addr # 0 /\ hdr[n].color = "black")
  <2> DEFINE T == col.todo \ {n}
  <2>1. /\ col' \in Locals /\ col'.pc = "nested" /\ col'.idx = col.idx /\ col'.end = col.end
        /\ col'.btodo = {} /\ col'.todo = T
    <3>1. col' = [col EXCEPT !.todo = T] /\ T \in SUBSET Node /\ col \in Locals
      BY <1>1, <1>2, <1>5
    <3> HIDE DEF T
    <3>2. /\ col' \in Locals /\ col'.pc = col.pc /\ col'.idx = col.idx /\ col'.end = col.end
          /\ col'.btodo = col.btodo /\ col'.todo = T
      BY ONLY <3>1 DEF Locals
    <3> QED
      BY <3>2, <1>2
  <2>2. ASSUME NEW y \in Gar(gc) PROVE NestedIn(hdr, gc, col', y)
    <3>1. y # n /\ NestedIn(hdr, gc, col, y)
      BY <1>3, <1>4, <1>5
    <3> QED
      BY <3>1, <2>1 DEF NestedIn
  <2>3. /\ col'.idx # 0 /\ col'.idx <= col'.end /\ col'.end = gc.first_unused
    BY <1>2, <2>1
  <2>4. Nesting(alloc, out, held, hdr, gc, col', stack, bailed, ran)
    <3>1. \A y \in Node : /\ hdr[y].null = hdr[y].null /\ hdr[y].freed = hdr[y].freed
                          /\ hdr[y].dtored = hdr[y].dtored /\ hdr[y].rc = hdr[y].rc
                          /\ hdr[y].addr = 0 => hdr[y].addr = 0
      OBVIOUS
    <3> QED
      BY ONLY <3>1, <1>0, <1>2, <2>1, <2>2, <2>3, NestMove
  <2>5. hdr' = hdr /\ gc' = gc
    BY <1>1, <1>5
  <2> QED
    BY <1>1, <2>1, <2>4, <2>5 DEF Nests
<1>6. CASE hdr[n].addr # 0 /\ hdr[n].color = "black"
  <2> DEFINE T == (col.todo \ {n}) \union Kids(hdr, out, n)
             c == col.count - 1
  <2>1. /\ col' \in Locals /\ col'.pc = "nested" /\ col'.idx = col.idx /\ col'.end = col.end
        /\ col'.btodo = {} /\ col'.todo = T
    <3>0. Children(n) = Kids(hdr, out, n) /\ T \in SUBSET Node
      BY <1>2 DEF Kids, Children
    <3>1. col' = [col EXCEPT !.count = c, !.todo = T] /\ T \in SUBSET Node /\ col \in Locals /\ c \in Int
      BY <1>1, <1>2, <1>6, <3>0
    <3> HIDE DEF T, c
    <3>2. /\ col' \in Locals /\ col'.pc = col.pc /\ col'.idx = col.idx /\ col'.end = col.end
          /\ col'.btodo = col.btodo /\ col'.todo = T
      BY ONLY <3>1 DEF Locals
    <3> QED
      BY <3>2, <1>2
  <2>2. /\ hdr' \in [Node -> Hdr] /\ \A y \in Node : y # n => hdr'[y] = hdr[y]
        /\ hdr'[n].addr = 0 /\ hdr'[n].color = "black" /\ hdr'[n].rc = hdr[n].rc
        /\ hdr'[n].null = hdr[n].null /\ hdr'[n].freed = hdr[n].freed /\ hdr'[n].dtored = hdr[n].dtored
    <3> DEFINE v == hdr[n]
               w == hdr'[n]
               p == "black"
               z == 0
    <3>1. /\ v \in Hdr /\ p \in Colors /\ z \in Nat /\ w = [v EXCEPT !.addr = z, !.color = p]
      BY <1>1, <1>2, <1>6 DEF Colors, NoInfo
    <3>2. /\ \A y \in Node : y # n => hdr'[y] = hdr[y]
          /\ hdr' = [y \in Node |-> hdr'[y]]
      BY <1>1, <1>2, <1>6 DEF NoInfo
    <3> HIDE DEF v, w, p, z
    <3>3. /\ w \in Hdr /\ w.addr = z /\ w.color = p /\ w.rc = v.rc /\ w.null = v.null /\ w.freed = v.freed
          /\ w.dtored = v.dtored
      BY ONLY <3>1 DEF Hdr
    <3>4. \A y \in Node : hdr'[y] \in Hdr
      BY <3>2, <3>3, <1>2 DEF w
    <3> QED
      BY <3>2, <3>3, <3>4 DEF v, w, p, z
  <2>3. n \in alloc
    <3>1. \E i \in Used(gc) : gc.buf[i].ref = n
      BY <1>2, <1>6 DEF BufOK, Entries
    <3> QED
      BY <3>1, <1>2
  <2>4. gc' = IF Info(hdr[n]) THEN gc_remove_from_roots(gc, Decompress(hdr, gc, n)) ELSE gc
    <3>1. gc_decompress(gc, n) = Decompress(hdr, gc, n)
      BY DEF gc_decompress, Decompress
    <3>2. Info(hdr[n]) /\ gc' = gc_remove_from_buffer(gc, n)
      BY <1>1, <1>6 DEF Info
    <3> QED
      BY ONLY <3>1, <3>2 DEF gc_remove_from_buffer
  <2>5. Unbuffered(alloc, hdr', gc, n, gc')
    <3>1. \A y \in alloc : y # n => y \in alloc
      OBVIOUS
    <3> QED
      BY ONLY <3>1, <1>2, <2>2, <2>3, <2>4, UnbufferIn
  <2>6. /\ gc' \in Globals /\ gc'.active /\ gc'.first_unused = gc.first_unused
        /\ BufOK(alloc, hdr', gc') /\ ColorOK(hdr', gc')
        /\ \A i \in Used(gc') : i \in Used(gc) /\ gc'.buf[i] = gc.buf[i] /\ gc.buf[i].ref # n
        /\ \A i \in Used(gc) : gc.buf[i].ref # n => i \in Used(gc')
    BY <2>5, <1>2 DEF Unbuffered
  <2>7. \A y : y \in Gar(gc') <=> y \in Gar(gc) /\ y # n
    BY <2>6 DEF Gar, Tagged
  <2>8. \A i \in Used(gc) : gc.buf[i].tag = "dtor" => gc.buf[i].ref # n
    BY <1>2, <1>6 DEF ColorOK
  <2>9. ASSUME NEW y \in Gar(gc') PROVE NestedIn(hdr', gc', col', y)
    <3>1. y # n /\ NestedIn(hdr, gc, col, y) /\ y \in Node
      BY <1>3, <1>4, <2>7
    <3>2. hdr'[y] = hdr[y]
      BY <3>1, <2>2
    <3>3. ASSUME NEW m \in alloc, y \in out[m]
          PROVE  /\ y \in Kids(hdr', out, m)
                 /\ \/ m \in Gar(gc') \/ y \in col'.todo
                    \/ \E i \in Used(gc') : i >= col'.idx /\ gc'.buf[i].tag = "dtor" /\ gc'.buf[i].ref = m
      <4>1. /\ y \in Kids(hdr, out, m)
            /\ \/ m \in Gar(gc) \/ y \in col.todo
               \/ \E i \in Used(gc) : i >= col.idx /\ gc.buf[i].tag = "dtor" /\ gc.buf[i].ref = m
        BY <3>1, <3>3 DEF NestedIn
      <4>2. y \in Kids(hdr', out, m)
        <5>1. m \in Node
          BY <1>2
        <5>2. hdr'[m].null = hdr[m].null /\ hdr'[m].freed = hdr[m].freed
          BY <5>1, <2>2
        <5> QED
          BY <4>1, <5>2 DEF Kids
      <4>3. CASE m \in Gar(gc)
        <5>1. CASE m = n
          BY <5>1, <4>1, <4>2, <2>1
        <5>2. CASE m # n
          BY <5>2, <4>2, <4>3, <2>7
        <5> QED
          BY <5>1, <5>2
      <4>4. CASE y \in col.todo
        BY <4>2, <4>4, <3>1, <2>1
      <4>5. CASE \E i \in Used(gc) : i >= col.idx /\ gc.buf[i].tag = "dtor" /\ gc.buf[i].ref = m
        <5>1. PICK i \in Used(gc) : i >= col.idx /\ gc.buf[i].tag = "dtor" /\ gc.buf[i].ref = m
          BY <4>5
        <5>2. i \in Used(gc') /\ gc'.buf[i] = gc.buf[i]
          BY <5>1, <2>6, <2>8
        <5> QED
          BY <5>1, <5>2, <4>2, <2>1
      <4> QED
        BY <4>1, <4>3, <4>4, <4>5
    <3> QED
      BY <3>1, <3>2, <3>3 DEF NestedIn
  <2>10. /\ col'.idx # 0 /\ col'.idx <= col'.end /\ col'.end = gc'.first_unused
         /\ \A i \in Used(gc') : /\ gc'.buf[i].tag \in {"garbage", "dtor"}
                                 /\ gc'.buf[i].tag = "dtor" => gc'.buf[i].ref \in Dtor
    BY <1>2, <2>1, <2>6
  <2>11. Nesting(alloc, out, held, hdr', gc', col', stack, bailed, ran)
    <3>1. \A y \in Node : /\ hdr'[y].null = hdr[y].null /\ hdr'[y].freed = hdr[y].freed
                          /\ hdr'[y].dtored = hdr[y].dtored /\ hdr'[y].rc = hdr[y].rc
                          /\ hdr[y].addr = 0 => hdr'[y].addr = 0
      BY <2>2
    <3>2. /\ hdr' \in [Node -> Hdr] /\ gc' \in Globals /\ gc'.active /\ BufOK(alloc, hdr', gc') /\ ColorOK(hdr', gc')
      BY <2>2, <2>6
    <3> QED
      BY ONLY <3>1, <3>2, <1>0, <2>1, <2>9, <2>10, NestMove
  <2> QED
    BY <1>1, <2>1, <2>11 DEF Nests
<1> QED
  BY <1>5, <1>6

\* What is left is garbage that nothing else leads to.
LEMMA NestedDoneCalm == ASSUME Nests, NestedDone PROVE Calm'
<1>0. Nests
  OBVIOUS
<1>1. /\ col.todo = {} /\ col.idx = col.end /\ col' = GoTo("dtors", 1) /\ hdr' = hdr /\ gc' = gc
      /\ alloc' = alloc /\ out' = out /\ held' = held /\ stack' = stack
      /\ bailed' = bailed /\ ran' = ran
  BY DEF NestedDone, Quiet, heap
<1>2. /\ Base(alloc, out, held, hdr, gc, col, stack, bailed, ran)
      /\ RcOK(alloc, out, held, hdr, stack, bailed, Null, {}) /\ ColorOK(hdr, gc)
      /\ gc.active /\ gc \in Globals /\ col \in Locals
      /\ col.idx \in Nat /\ col.idx # 0 /\ col.end \in Nat
      /\ col.btodo = {} /\ col.end = gc.first_unused /\ col.pc = "nested"
      /\ \A i \in Used(gc) : gc.buf[i].tag \in {"garbage", "dtor"} /\ i \in 1..(gc.first_unused - 1)
                             /\ (gc.buf[i].tag = "dtor" => gc.buf[i].ref \in Dtor)
  BY ONLY <1>0, NestFacts
<1>3. \A y \in Gar(gc) : NestedIn(hdr, gc, col, y)
  BY ONLY <1>0, NestFacts
<1>4. /\ col' \in Locals /\ col'.pc = "dtors" /\ col'.idx = 1 /\ col'.end = gc.first_unused
      /\ col'.todo = {} /\ col'.btodo = {}
  BY <1>1, <1>2, GoToFacts DEF Pcs
<1>5. \A i \in Used(gc) : ~(i >= col.idx) /\ i \in 1..(gc.first_unused - 1) /\ i < gc.first_unused
  BY <1>1, <1>2
<1>6. Sealed(alloc, out, held, stack, Gar(gc))
  BY <1>1, <1>3, <1>5 DEF Sealed, NestedIn
<1>7. DtorOK(alloc, hdr, Gar(gc), ran)
  <2>1. DtorOK(alloc, hdr, {}, ran)
    BY <1>2 DEF Base
  <2> QED
    BY <2>1, <1>3 DEF DtorOK, NestedIn
<1>8. TagOK(gc, col')
  <2>1. gc.first_unused \in Nat /\ 1 <= gc.first_unused
    BY <1>1, <1>2
  <2>2. \A i \in Used(gc) : /\ i \in 1..(gc.first_unused - 1) /\ i < gc.first_unused
                            /\ (gc.buf[i].tag = "dtor" => gc.buf[i].ref \in Dtor)
    BY <1>2, <1>5
  <2> DEFINE c == col'
  <2>3. /\ c.pc = "dtors" /\ c.idx = 1 /\ c.end = gc.first_unused /\ c.todo = {} /\ c.btodo = {} /\ gc.active
    BY <1>2, <1>4
  <2> HIDE DEF c
  <2>4. TagOK(gc, c)
    BY ONLY <2>1, <2>2, <2>3 DEF TagOK
  <2> QED
    BY <2>4 DEF c
<1>9. col.pc \in Traversing /\ col'.pc \in {"finish", "destroy", "dtors"} /\ (col'.pc # "finish" => col'.idx = 1)
      /\ col' \in Locals
  BY <1>2, <1>4 DEF Traversing
<1>10. Steady(alloc, out, held, hdr, gc, col', stack, bailed, ran, Null)
  BY ONLY <1>2, <1>6, <1>7, <1>8, <1>9, LeaveBase
<1> QED
  BY <1>1, <1>4, <1>10 DEF Calm, SteadyPcs

\* The collector goes on to the next entry.
LEMMA Advance ==
    ASSUME NEW al, NEW o, NEW hd, NEW h, NEW g, NEW c, NEW st, NEW b, NEW rn,
           Steady(al, o, hd, h, g, c, st, b, rn, Null), c.pc \in {"dtors", "destroy"},
           NEW c2 \in Locals, c2.pc = c.pc, c2.idx # 0, TagOK(g, c2), EmptyOK(al, o, h, g, c2, st, b)
    PROVE  Steady(al, o, hd, h, g, c2, st, b, rn, Null)
<1>1. Types(al, o, hd, h, g, c2, st, rn)
  BY DEF Steady, Types
<1>2. StackOK(al, h, g, c2, st)
  BY DEF Steady, StackOK
<1>3. ApartOK(al, o, c2, st, Gar(g))
  BY DEF Steady, ApartOK
<1> QED
  BY <1>1, <1>2, <1>3 DEF Steady

\* An entry that waited for its destructor is a root again.
LEMMA RetagDtor ==
    ASSUME NEW al, NEW o, NEW hd, NEW h, NEW g, NEW c, NEW st, NEW b, NEW rn,
           Steady(al, o, hd, h, g, c, st, b, rn, Null), c.pc = "dtors",
           NEW i \in Used(g), g.buf[i].tag = "dtor", NEW g2, Tagging(g, i, "root", g2)
    PROVE  /\ Steady(al, o, hd, h, g2, c, st, b, rn, Null) /\ Used(g2) = Used(g)
           /\ \A j \in Used(g2) : g2.buf[j].ref = g.buf[j].ref
                                  /\ g2.buf[j].tag = IF j = i THEN "root" ELSE g.buf[j].tag
<1>0. /\ Types(al, o, hd, h, g, c, st, rn) /\ BufOK(al, h, g) /\ StackOK(al, h, g, c, st)
      /\ GarOK(al, o, hd, h, st, Gar(g)) /\ ApartOK(al, o, c, st, Gar(g))
      /\ EmptyOK(al, o, h, g, c, st, b) /\ DtorOK(al, h, Gar(g), rn)
      /\ ColorOK(h, g) /\ TagOK(g, c)
  BY DEF Steady
<1>1. al \in SUBSET Node /\ h \in [Node -> Hdr] /\ g \in Globals /\ g.active
  BY <1>0 DEF Types, StackOK
<1>2. /\ g2 \in Globals /\ Retagged(g, g2) /\ g2.buf_size = g.buf_size /\ g2.threshold = g.threshold
      /\ g2.active = g.active /\ g2.buf[i].tag = "root"
      /\ \A j \in 1..(MaxBufSize - 1) : j # i => g2.buf[j].tag = g.buf[j].tag
  BY ONLY Tagging(g, i, "root", g2) DEF Tagging
<1>3. Used(g2) = Used(g)
  BY ONLY <1>0, <1>1, <1>2, RetagUsed
<1>4. \A y \in Node : h[y].addr = h[y].addr
  OBVIOUS
<1>5. BufOK(al, h, g2)
  BY ONLY <1>0, <1>1, <1>2, <1>4, BufRetag
<1>6. \A j \in Used(g) : j \in 1..(MaxBufSize - 1)
  BY ONLY <1>0, <1>1, TaggedAll
<1>7. \A j \in Used(g) : g2.buf[j].ref = g.buf[j].ref /\ g2.buf[j].tag = IF j = i THEN "root" ELSE g.buf[j].tag
  BY <1>2, <1>6 DEF Retagged
<1>8. Gar(g2) = Gar(g)
  <2>1. \A j \in Used(g) : /\ g2.buf[j].ref = g.buf[j].ref
                           /\ g2.buf[j].tag = "garbage" <=> g.buf[j].tag = "garbage"
    BY <1>7
  <2> QED
    BY <2>1, <1>3 DEF Gar, Tagged
<1>9. ColorOK(h, g2)
  BY <1>0, <1>3, <1>7 DEF ColorOK
<1>10. TagOK(g2, c)
  <2>1. g2.first_unused = g.first_unused
    BY <1>2 DEF Retagged
  <2> QED
    BY <2>1, <1>0, <1>1, <1>2, <1>3, <1>7 DEF TagOK
<1>11. EmptyOK(al, o, h, g2, c, st, b)
  BY <1>0 DEF EmptyOK
<1>12. StackOK(al, h, g2, c, st)
  BY <1>0, <1>2 DEF StackOK
<1>13. Types(al, o, hd, h, g2, c, st, rn)
  BY <1>0, <1>2 DEF Types
<1>14. Steady(al, o, hd, h, g2, c, st, b, rn, Null)
  BY <1>5, <1>8, <1>9, <1>10, <1>11, <1>12, <1>13 DEF Steady
<1> QED
  BY <1>3, <1>7, <1>14

\* A call takes a reference to a node that is alive.
LEMMA HoldNode ==
    ASSUME NEW al, NEW o, NEW hd, NEW h, NEW g, NEW c, NEW st, NEW b, NEW rn, NEW n \in al,
           Steady(al, o, hd, h, g, c, st, b, rn, Null), ~Dead(h, n), n \notin Gar(g),
           NEW h2, Counted(h, n, 1, h2), NEW f, f.fn \in {"gcdtor", "dtor"}, f.obj = n,
           NEW st2 \in Seq(Frame), Pushed(st, f, st2),
           Len(st) > 0 /\ st[Len(st)].fn = "gc" =>
              c.pc = "dtors" /\ f.fn = "gcdtor" /\ h[n].addr # 0
    PROVE  Steady(al, o, hd, h2, g, c, st2, b, rn, Null) /\ ~Dead(h2, n)
<1>1. /\ h2 \in [Node -> Hdr] /\ SameFlags(h, h2) /\ h2[n].rc = h[n].rc + 1
      /\ \A y \in Node : y # n => h2[y].rc = h[y].rc
  BY ONLY Counted(h, n, 1, h2) DEF Counted
<1>2. /\ al \in SUBSET Node /\ st \in Seq(Frame) /\ n \in Node
      /\ \A k \in 1..Len(st) : st[k].fn = "efree" => st[k].obj # n
  BY DEF Steady, Types, EfreeOK
<1>3. Steady(al, o, hd, h2, g, c, st, b, rn, n)
  <2>1. /\ Steady(al, o, hd, h, g, c, st, b, rn, Null) /\ (Dead(h, n) => n \in Gar(g)) /\ (h[n].freed => h[n].null)
        /\ n \in al
    BY DEF Dead
  <2> QED
    BY ONLY <2>1, <1>1, <1>2, Increment
<1>4. StackOK(al, h2, g, c, st2)
  <2>1. StackOK(al, h2, g, c, st)
    BY <1>3 DEF Steady
  <2>2. h2[n].addr = h[n].addr
    BY <1>1, <1>2 DEF SameFlags, SameMarks
  <2>3. f.fn # "gc" /\ f.obj \in al /\ f.fn # "free" /\ f.fn # "full" /\ Pushed(st, f, st2)
    OBVIOUS
  <2>4. Len(st) > 0 /\ st[Len(st)].fn = "gc" =>
              /\ \/ c.pc = "dtors" /\ f.fn = "gcdtor"
                 \/ c.pc = "destroy" /\ f.fn \in {"gcfree", "free"}
              /\ h2[f.obj].addr # 0
    BY <2>2
  <2> QED
    BY ONLY <2>1, <2>3, <2>4, <1>2, PushStack
<1>5. Steady(al, o, hd, h2, g, c, st2, b, rn, Null)
  <2>1. f.fn \in Keepers /\ (n \in Gar(g) => f.fn = "gcfree") /\ f.obj = n /\ Pushed(st, f, st2) /\ n \in al
        /\ st2 \in Seq(Frame)
    BY DEF Keepers
  <2> QED
    BY ONLY <2>1, <1>3, <1>4, PushKeeper
<1> QED
  BY <1>1, <1>2, <1>5 DEF SameFlags, SameMarks, Dead

\* gc_call_destructors, second pass.
LEMMA DtorStepCalm == ASSUME Calm, DtorStep PROVE Calm'
<1> DEFINE i == col.idx
           n == gc.buf[i].ref
           st2 == stack \o <<Call("gcdtor", n), Call("dtor", n)>>
<1>0. Steady(alloc, out, held, hdr, gc, col, stack, bailed, ran, Null)
  BY DEF Calm
<1>1. /\ stack # <<>> /\ stack[Len(stack)].fn = "gc" /\ col.pc = "dtors" /\ i < col.end
      /\ gc' = IF gc.buf[i].tag = "dtor" THEN [gc EXCEPT !.buf[i].tag = "root"] ELSE gc
      /\ IF gc.buf[i].tag = "dtor" /\ ~hdr[n].dtored
         THEN /\ hdr' = [hdr EXCEPT ![n].dtored = TRUE, ![n].rc = @ + 2]
              /\ stack' = st2 /\ ran' = ran \union {n}
         ELSE hdr' = hdr /\ stack' = stack /\ ran' = ran
      /\ col' = [col EXCEPT !.idx = @ + 1]
      /\ alloc' = alloc /\ out' = out /\ held' = held /\ bailed' = bailed
  BY AtFacts DEF DtorStep, Entry, heap
<1>2. /\ alloc \in SUBSET Node /\ hdr \in [Node -> Hdr] /\ gc \in Globals /\ col \in Locals
      /\ stack \in Seq(Frame) /\ ran \in SUBSET Node /\ BufOK(alloc, hdr, gc) /\ TagOK(gc, col)
      /\ DtorOK(alloc, hdr, Gar(gc), ran) /\ col.idx # 0 /\ gc.active
      /\ EmptyOK(alloc, out, hdr, gc, col, stack, bailed) /\ ColorOK(hdr, gc)
  BY <1>0, <1>1 DEF Steady, Types, StackOK
<1>3. /\ col.idx \in Nat /\ col.end \in Nat /\ col.end <= gc.first_unused /\ col.idx <= col.end
      /\ gc.first_unused \in Nat /\ col.todo = {} /\ col.btodo = {}
      /\ \A j \in Used(gc) : /\ gc.buf[j].tag = "dtor" => j \in i..(col.end - 1) /\ gc.buf[j].ref \in Dtor
                             /\ gc.buf[j].tag = "garbage" => j < col.end
  BY <1>1, <1>2 DEF TagOK, Locals, Globals
<1>4. /\ col' \in Locals /\ col'.pc = "dtors" /\ col'.idx = i + 1 /\ col'.end = col.end
      /\ col'.todo = {} /\ col'.btodo = {} /\ col'.idx # 0
  <2> DEFINE j == i + 1
  <2>0. col.idx \in Nat /\ col \in Locals /\ col' = [col EXCEPT !.idx = @ + 1]
    BY ONLY <1>1, <1>2, <1>3
  <2>1. col' = [col EXCEPT !.idx = j] /\ j \in Nat /\ j # 0 /\ col \in Locals
    BY ONLY <2>0
  <2> HIDE DEF j
  <2>2. /\ col' \in Locals /\ col'.pc = col.pc /\ col'.idx = j /\ col'.end = col.end
        /\ col'.todo = col.todo /\ col'.btodo = col.btodo
    BY ONLY <2>1 DEF Locals
  <2> QED
    BY <2>1, <2>2, <1>1, <1>3 DEF j
<1>5. /\ \A j \in Used(gc) : j \in 1..(gc.first_unused - 1) /\ j \in 1..(MaxBufSize - 1) /\ gc.buf[j].ref \in Node
  BY ONLY <1>2, TaggedAll
<1>6. ASSUME NEW g2, Steady(alloc, out, held, hdr, g2, col, stack, bailed, ran, Null), Used(g2) = Used(gc),
             g2.first_unused = gc.first_unused,
             \A j \in Used(gc) : /\ g2.buf[j].ref = gc.buf[j].ref
                                 /\ j # i => g2.buf[j].tag = gc.buf[j].tag
                                 /\ j = i => g2.buf[j].tag # "dtor"
      PROVE  Steady(alloc, out, held, hdr, g2, col', stack, bailed, ran, Null)
  <2>1. TagOK(g2, col) /\ StackOK(alloc, hdr, g2, col, stack) /\ EmptyOK(alloc, out, hdr, g2, col, stack, bailed)
    BY <1>6 DEF Steady
  <2>2. g2.active
    BY <2>1, <1>1 DEF StackOK
  <2>3. \A j \in Used(gc) : /\ g2.buf[j].tag = "dtor" => j \in (i + 1)..(col.end - 1) /\ g2.buf[j].ref \in Dtor
                            /\ g2.buf[j].tag = "garbage" => j < col.end
    <3>1. \A j \in Used(gc) : g2.buf[j].tag = "dtor" => j \in i..(col.end - 1) /\ g2.buf[j].ref \in Dtor /\ j # i
      BY <1>3, <1>6
    <3>2. \A j \in i..(col.end - 1) : j # i => j \in (i + 1)..(col.end - 1)
      BY <1>3
    <3>3. \A j \in Used(gc) : g2.buf[j].tag = "garbage" => j < col.end
      BY <2>1, <1>1, <1>6 DEF TagOK
    <3> QED
      BY <3>1, <3>2, <3>3
  <2>4. TagOK(g2, col')
    <3> DEFINE d == col'
    <3>1. /\ d.pc = "dtors" /\ d.idx = i + 1 /\ d.end = col.end /\ d.todo = {} /\ d.btodo = {}
          /\ i + 1 <= col.end /\ col.end <= g2.first_unused /\ g2.active /\ Used(g2) = Used(gc)
      <4>1. i < col.end /\ i \in Nat /\ col.end \in Nat /\ col.end <= gc.first_unused
        BY ONLY <1>1, <1>3
      <4>2. i + 1 <= col.end
        BY ONLY <4>1
      <4> QED
        BY <4>1, <4>2, <1>4, <1>6, <2>2
    <3> HIDE DEF d, i
    <3>2. TagOK(g2, d)
      BY ONLY <3>1, <2>3 DEF TagOK
    <3> QED
      BY <3>2 DEF d
  <2>5. EmptyOK(alloc, out, hdr, g2, col', stack, bailed)
    BY <2>1, <1>1, <1>4 DEF EmptyOK
  <2>6. Steady(alloc, out, held, hdr, g2, col, stack, bailed, ran, Null) /\ col.pc \in {"dtors", "destroy"}
        /\ col'.pc = col.pc /\ col'.idx # 0 /\ col' \in Locals
    BY <1>1, <1>4, <1>6
  <2> QED
    BY ONLY <2>4, <2>5, <2>6, Advance
<1>7. CASE gc.buf[i].tag # "dtor"
  <2>1. gc' = gc /\ hdr' = hdr /\ stack' = stack /\ ran' = ran
    BY <1>1, <1>7
  <2>2. \A j \in Used(gc) : /\ gc.buf[j].ref = gc.buf[j].ref
                            /\ j # i => gc.buf[j].tag = gc.buf[j].tag
                            /\ j = i => gc.buf[j].tag # "dtor"
    BY <1>7
  <2>3. Used(gc) = Used(gc) /\ gc.first_unused = gc.first_unused
    OBVIOUS
  <2> HIDE DEF i
  <2>4. Steady(alloc, out, held, hdr, gc, col', stack, bailed, ran, Null)
    BY ONLY <2>2, <2>3, <1>0, <1>6
  <2> QED
    BY <2>1, <2>4, <1>1, <1>4, Zenon DEF Calm, SteadyPcs
<1>8. CASE gc.buf[i].tag = "dtor"
  <2>1. i \in Used(gc) /\ n \in Node /\ n \in alloc /\ n \in Dtor
    <3>1. i \in Used(gc)
      <4>1. /\ i \in Nat /\ i # 0 /\ i < col.end /\ col.end \in Nat /\ col.end <= gc.first_unused
            /\ gc.first_unused \in Nat
        BY ONLY <1>1, <1>2, <1>3
      <4>2. i \in 1..(gc.first_unused - 1)
        BY ONLY <4>1
      <4> QED
        BY ONLY <4>2, <1>8 DEF Used
    <3> QED
      BY <3>1, <1>2, <1>3, <1>5, <1>8 DEF BufOK, Entries
  <2>2. gc' = [gc EXCEPT !.buf[i].tag = "root"]
    BY <1>1, <1>8
  <2>3. Tagging(gc, i, "root", gc')
    <3> DEFINE t == "root"
               j == i
    <3>1. t \in {"root", "garbage", "dtor"} /\ gc' = [gc EXCEPT !.buf[j].tag = t] /\ j \in Used(gc)
      BY <2>1, <2>2
    <3> HIDE DEF t, j, i
    <3>2. Tagging(gc, j, t, gc')
      BY ONLY <3>1, <1>2, TagFacts
    <3> QED
      BY <3>2 DEF t, j
  <2>4. gc.buf[i].tag = "dtor" /\ col.pc = "dtors"
    BY <1>1, <1>8
  <2>5. /\ Steady(alloc, out, held, hdr, gc', col, stack, bailed, ran, Null) /\ Used(gc') = Used(gc)
        /\ \A j \in Used(gc') : gc'.buf[j].ref = gc.buf[j].ref
                                /\ gc'.buf[j].tag = IF j = i THEN "root" ELSE gc.buf[j].tag
    <3> HIDE DEF i
    <3> QED
      BY ONLY <2>1, <2>3, <2>4, <1>0, RetagDtor
  <2>6. Steady(alloc, out, held, hdr, gc', col', stack, bailed, ran, Null)
    <3>1. gc'.first_unused = gc.first_unused
      BY <2>3 DEF Tagging, Retagged
    <3>2. \A j \in Used(gc) : /\ gc'.buf[j].ref = gc.buf[j].ref
                              /\ j # i => gc'.buf[j].tag = gc.buf[j].tag
                              /\ j = i => gc'.buf[j].tag # "dtor"
      BY <2>5
    <3>3. Steady(alloc, out, held, hdr, gc', col, stack, bailed, ran, Null) /\ Used(gc') = Used(gc)
      BY <2>5
    <3> HIDE DEF i
    <3> QED
      BY ONLY <3>1, <3>2, <3>3, <1>6
  <2>7. CASE hdr[n].dtored
    BY <2>6, <2>7, <1>1, <1>4 DEF Calm, SteadyPcs
  <2>8. CASE ~hdr[n].dtored
    <3> DEFINE f == Call("gcdtor", n)
               f2 == Call("dtor", n)
               h1 == [hdr EXCEPT ![n].rc = @ + 1]
               h2 == [h1 EXCEPT ![n].rc = @ + 1]
    <3>1. /\ hdr' = [hdr EXCEPT ![n].dtored = TRUE, ![n].rc = @ + 2]
          /\ stack' = stack \o <<f, f2>> /\ ran' = ran \union {n}
      BY <1>1, <1>8, <2>8
    <3>2. ~Dead(hdr, n) /\ n \notin Gar(gc') /\ hdr[n].addr # 0
      <4>1. ~Dead(hdr, n)
        BY <1>2, <2>1, <2>8 DEF DtorOK
      <4>2. \A j \in Used(gc) : gc.buf[j].ref = n => j = i
        BY <1>2, <2>1 DEF BufOK, Entries
      <4>3. n \notin Gar(gc')
        BY <4>2, <2>5 DEF Gar, Tagged
      <4>4. hdr[n].color = "purple"
        BY <1>2, <1>8, <2>1 DEF ColorOK
      <4> QED
        BY <4>1, <4>3, <4>4, <1>2, <2>1 DEF ColorOK
    <3>3. f \in Frame /\ f2 \in Frame /\ f.fn = "gcdtor" /\ f.obj = n /\ f2.fn = "dtor" /\ f2.obj = n
      BY <2>1 DEF Frame, Fns, Call
    <3>4. Counted(hdr, n, 1, h1) /\ Counted(h1, n, 1, h2) /\ h1 \in [Node -> Hdr]
      <4>1. n \in Node /\ hdr \in [Node -> Hdr] /\ 1 \in Int
        BY <1>2, <2>1
      <4> HIDE DEF n
      <4>2. h1 = [hdr EXCEPT ![n].rc = @ + 1] /\ h2 = [h1 EXCEPT ![n].rc = @ + 1]
        OBVIOUS
      <4> HIDE DEF h1, h2
      <4>3. Counted(hdr, n, 1, h1)
        BY ONLY <4>1, <4>2, CountFacts
      <4>4. h1 \in [Node -> Hdr]
        BY ONLY <4>3 DEF Counted
      <4>5. Counted(h1, n, 1, h2)
        BY ONLY <4>1, <4>2, <4>4, CountFacts
      <4> QED
        BY <4>3, <4>4, <4>5
    <3>5. /\ hdr' \in [Node -> Hdr] /\ SameMarks(h2, hdr') /\ hdr'[n].dtored
          /\ \A y \in Node : hdr'[y].rc = h2[y].rc /\ (y # n => hdr'[y].dtored = h2[y].dtored)
      <4> DEFINE v == hdr[n]
                 w == hdr'[n]
                 t == TRUE
                 r == hdr[n].rc + 2
      <4>1. hdr[n] \in Hdr /\ hdr[n].rc \in Int
        BY <1>2, <2>1 DEF Hdr
      <4>2. /\ v \in Hdr /\ t \in BOOLEAN /\ t /\ r \in Int /\ w = [v EXCEPT !.dtored = t, !.rc = r]
            /\ \A y \in Node : y # n => hdr'[y] = hdr[y]
            /\ hdr' = [y \in Node |-> hdr'[y]]
        <5>1. hdr' = [hdr EXCEPT ![n].dtored = TRUE, ![n].rc = @ + 2] /\ n \in Node /\ hdr \in [Node -> Hdr]
          BY <3>1, <1>2, <2>1
        <5> HIDE DEF n
        <5>2. /\ \A y \in Node : y # n => hdr'[y] = hdr[y]
              /\ hdr' = [y \in Node |-> hdr'[y]]
          BY ONLY <5>1
        <5>3. hdr'[n] = [hdr[n] EXCEPT !.dtored = TRUE, !.rc = hdr[n].rc + 2]
          BY ONLY <5>1
        <5> QED
          BY <5>2, <5>3, <4>1
      <4> HIDE DEF v, w, t, r
      <4>3. /\ w \in Hdr /\ w.dtored = t /\ w.rc = r /\ w.color = v.color /\ w.addr = v.addr
            /\ w.null = v.null /\ w.freed = v.freed
        BY ONLY <4>2 DEF Hdr
      <4> HIDE DEF h1, h2
      <4>4. /\ \A y \in Node : y # n => h2[y] = hdr[y]
            /\ h2[n].rc = hdr[n].rc + 1 + 1 /\ SameMarks(hdr, h2)
        BY <3>4 DEF Counted, SameFlags, SameMarks
      <4>5. \A y \in Node : hdr'[y] \in Hdr
        BY <4>2, <4>3, <1>2 DEF w
      <4>6. hdr'[n].dtored /\ hdr'[n].rc = h2[n].rc
        BY <4>1, <4>2, <4>3, <4>4 DEF w, r
      <4>7. SameMarks(h2, hdr')
        <5>1. ASSUME NEW y \in Node
              PROVE  /\ hdr'[y].color = h2[y].color /\ hdr'[y].addr = h2[y].addr
                     /\ hdr'[y].null = h2[y].null /\ hdr'[y].freed = h2[y].freed
          <6>1. /\ h2[y].color = hdr[y].color /\ h2[y].addr = hdr[y].addr
                /\ h2[y].null = hdr[y].null /\ h2[y].freed = hdr[y].freed
            BY <4>4 DEF SameMarks
          <6>2. CASE y = n
            BY <6>1, <6>2, <4>3 DEF v, w
          <6>3. CASE y # n
            BY <6>1, <6>3, <4>2
          <6> QED
            BY <6>2, <6>3
        <5> QED
          BY <5>1 DEF SameMarks
      <4> QED
        BY <4>2, <4>4, <4>5, <4>6, <4>7
    <3>6. PICK s \in Seq(Frame) : Pushed(stack, f, s) /\ Pushed(s, f2, stack')
      <4> HIDE DEF f, f2
      <4>1. \E s \in Seq(Frame) : Pushed(stack, f, s) /\ Pushed(s, f2, stack \o <<f, f2>>)
        BY ONLY <3>3, <1>2, PushTwo
      <4> QED
        BY <4>1, <3>1
    <3> HIDE DEF f, f2, h1, h2
    <3>7. Steady(alloc, out, held, h1, gc', col', s, bailed, ran, Null) /\ ~Dead(h1, n)
      <4>1. f.fn \in {"gcdtor", "dtor"} /\ f.obj = n /\ n \in alloc
            /\ (Len(stack) > 0 /\ stack[Len(stack)].fn = "gc" =>
                   col'.pc = "dtors" /\ f.fn = "gcdtor" /\ hdr[n].addr # 0)
        BY <1>4, <2>1, <3>2, <3>3
      <4>2. Pushed(stack, f, s) /\ s \in Seq(Frame) /\ Counted(hdr, n, 1, h1)
        BY <3>4, <3>6
      <4> HIDE DEF n
      <4> QED
        BY ONLY <4>1, <4>2, <2>6, <3>2, HoldNode
    <3>8. Steady(alloc, out, held, h2, gc', col', stack', bailed, ran, Null)
      <4>1. f2.fn \in {"gcdtor", "dtor"} /\ f2.obj = n /\ n \in alloc
            /\ (Len(s) > 0 /\ s[Len(s)].fn = "gc" =>
                   col'.pc = "dtors" /\ f2.fn = "gcdtor" /\ h1[n].addr # 0)
        <5>1. s[Len(s)] = f
          BY <3>6 DEF Pushed
        <5> QED
          BY <5>1, <2>1, <3>3
      <4>2. Pushed(s, f2, stack') /\ Counted(h1, n, 1, h2) /\ n \notin Gar(gc')
        BY <3>2, <3>4, <3>6
      <4>3. stack' \in Seq(Frame)
        BY <3>6 DEF Pushed
      <4> HIDE DEF n
      <4> QED
        BY ONLY <4>1, <4>2, <4>3, <3>7, HoldNode
    <3>9. Steady(alloc, out, held, hdr', gc', col', stack', bailed, ran', Null)
      <4>1. ran' \in SUBSET Node /\ \A y \in Node : y \in ran' <=> y \in ran \/ y = n
        BY <3>1, <1>2, <2>1
      <4>2. DtoredAt(h2, ran, n, hdr', ran') /\ hdr' \in [Node -> Hdr] /\ n \in Node
        BY <3>5, <4>1, <2>1 DEF DtoredAt
      <4> HIDE DEF n
      <4> QED
        BY ONLY <4>1, <4>2, <3>8, SetDtored
    <3> QED
      BY <3>9, <1>1, <1>4 DEF Calm, SteadyPcs
  <2> QED
    BY <2>7, <2>8
<1> QED
  BY <1>7, <1>8

\* zend_gc_collect_cycles returns.
LEMMA PopGC ==
    ASSUME NEW al, NEW o, NEW hd, NEW h, NEW g, NEW c, NEW st, NEW b, NEW rn,
           Steady(al, o, hd, h, g, c, st, b, rn, Null), c.pc \in {"dtors", "finish"},
           NEW st2 \in Seq(Frame), NEW f, Pushed(st2, f, st), f.fn = "gc",
           NEW c2 \in Locals, c2.pc = "idle", NEW g2 \in Globals, g2.buf = g.buf,
           g2.first_unused = g.first_unused, BufOK(al, h, g2), TagOK(g2, c2)
    PROVE  Steady(al, o, hd, h, g2, c2, st2, b, rn, Null)
<1> DEFINE k == Len(st)
<1>0. /\ Types(al, o, hd, h, g, c, st, rn) /\ RcOK(al, o, hd, h, st, b, Null, {})
      /\ Closed(al, o, hd, Null) /\ EfreeOK(al, o, hd, h, st, Null)
      /\ DeadOK(al, o, hd, h, st, Gar(g), Null) /\ GarOK(al, o, hd, h, st, Gar(g))
      /\ EmptyOK(al, o, h, g, c, st, b) /\ DtorOK(al, h, Gar(g), rn)
      /\ StackOK(al, h, g, c, st) /\ ColorOK(h, g)
  BY DEF Steady
<1>1. /\ al \in SUBSET Node /\ h \in [Node -> Hdr] /\ st \in Seq(Frame) /\ Null \notin al
  BY <1>0, NullAssumption DEF Types
<1>2. /\ Len(st) = Len(st2) + 1 /\ Len(st2) \in Nat /\ k \in 1..Len(st) /\ st[k] = f
      /\ \A i \in 1..Len(st2) : st2[i] = st[i] /\ i \in 1..Len(st) /\ i # k
      /\ \A i \in 1..Len(st) : i # k => i \in 1..Len(st2)
  BY DEF Pushed
<1> HIDE DEF k
<1>3. Used(g2) = Used(g) /\ Gar(g2) = Gar(g)
  BY DEF Used, Gar, Tagged
<1>4. \A y \in al : Lone(al, o, hd, st, Null, y) => Lone(al, o, hd, st2, Null, y)
  BY <1>1, <1>2 DEF Lone
<1>5. Types(al, o, hd, h, g2, c2, st2, rn)
  BY <1>0 DEF Types
<1>6. RcOK(al, o, hd, h, st2, b, Null, {})
  <2>1. ASSUME NEW y \in al
        PROVE  Gap(al, o, hd, h, st2, Null, y) = Gap(al, o, hd, h, st, Null, y)
    <3>1. Cardinality(Holders(st2, y)) \in Nat
      BY <1>1, RefsFacts
    <3>2. Cardinality(Holders(st, y)) = Cardinality(Holders(st2, y)) + One(Holds(f, y))
      BY HoldersPush
    <3>3. One(Holds(f, y)) = 0
      BY DEF One, Holds
    <3>4. Cardinality(Holders(st, y)) = Cardinality(Holders(st2, y))
      BY ONLY <3>1, <3>2, <3>3
    <3> QED
      BY <3>4 DEF Refs, Gap
  <2> QED
    BY <2>1, <1>0, <1>1, RcMove
<1>7. \A i \in 1..Len(st2) : st2[i].fn # "gc"
  BY <1>0, <1>2 DEF StackOK
<1>8. StackOK(al, h, g2, c2, st2)
  <2>1. \A i \in 1..Len(st2) : i > 1 => i - 1 \in 1..Len(st2) /\ st2[i - 1] = st[i - 1]
    BY <1>2
  <2>2. /\ \A i \in 1..Len(st2) :
             /\ st2[i].fn # "gc" => st2[i].obj \in al
             /\ st2[i].fn = "free" => /\ Dead(h, st2[i].obj) /\ i > 1
                                      /\ \/ /\ st2[i - 1].fn \in {"efree", "gcfree"}
                                            /\ st2[i - 1].obj = st2[i].obj
                                         \/ st2[i - 1].fn = "gc" /\ st2[i].obj \in Arr
    BY <2>1, <1>0, <1>2 DEF StackOK
  <2> QED
    BY <2>2, <1>7 DEF StackOK
<1>9. EfreeOK(al, o, hd, h, st2, Null)
  <2> SUFFICES ASSUME NEW i \in 1..Len(st2), st2[i].fn = "efree"
               PROVE  LET y == st2[i].obj
                      IN  /\ Dead(h, y) /\ Lone(al, o, hd, st2, Null, y)
                          /\ \A j \in 1..Len(st2) : st2[j].obj = y =>
                                j = i \/ (j = i + 1 /\ st2[j].fn = "free")
                          /\ o[y] = {} \/ (i + 1 \in 1..Len(st2) /\ st2[i + 1].fn = "free")
                          /\ y \in Arr => h[y].addr = 0
    BY DEF EfreeOK
  <2> DEFINE y == st2[i].obj
  <2>1. i \in 1..Len(st) /\ st[i].fn = "efree" /\ y = st[i].obj /\ y \in al
    BY <1>0, <1>2 DEF StackOK
  <2>2. /\ Dead(h, y) /\ Lone(al, o, hd, st, Null, y)
        /\ \A j \in 1..Len(st) : st[j].obj = y => j = i \/ (j = i + 1 /\ st[j].fn = "free")
        /\ o[y] = {} \/ (i + 1 \in 1..Len(st) /\ st[i + 1].fn = "free")
        /\ y \in Arr => h[y].addr = 0
    BY <2>1, <1>0 DEF EfreeOK
  <2>3. Lone(al, o, hd, st2, Null, y)
    BY <2>1, <2>2, <1>4
  <2>4. i + 1 \in 1..Len(st) /\ st[i + 1].fn = "free" => i + 1 \in 1..Len(st2) /\ st2[i + 1].fn = "free"
    BY <1>2
  <2> QED
    BY <2>2, <2>3, <2>4, <1>2
<1>10. DeadOK(al, o, hd, h, st2, Gar(g2), Null)
  BY <1>0, <1>3, <1>4 DEF DeadOK
<1>11. GarOK(al, o, hd, h, st2, Gar(g2))
  BY <1>0, <1>2, <1>3 DEF GarOK
<1>12. ApartOK(al, o, c2, st2, Gar(g2))
  BY <1>7 DEF ApartOK, InGC
<1>13. EmptyOK(al, o, h, g2, c2, st2, b)
  <2>1. \A y : (\E i \in 1..Len(st) : st[i].fn = "efree" /\ st[i].obj = y)
               => (\E i \in 1..Len(st2) : st2[i].fn = "efree" /\ st2[i].obj = y)
    BY <1>2
  <2> QED
    BY <2>1, <1>0 DEF EmptyOK
<1>14. ColorOK(h, g2) /\ DtorOK(al, h, Gar(g2), rn)
  BY <1>0, <1>3 DEF ColorOK
<1> QED
  BY <1>0, <1>5, <1>6, <1>8, <1>9, <1>10, <1>11, <1>12, <1>13, <1>14 DEF Steady

\* The destructors are done: what is garbage can be destroyed.
LEMMA ToDestroy ==
    ASSUME NEW al, NEW o, NEW hd, NEW h, NEW g, NEW c, NEW st, NEW b, NEW rn,
           Steady(al, o, hd, h, g, c, st, b, rn, Null), c.pc = "dtors", c.idx = c.end,
           st # <<>>, st[Len(st)].fn = "gc",
           NEW c2 \in Locals, c2.pc = "destroy", c2.idx = 1, c2.end = c.end,
           c2.todo = {}, c2.btodo = {}
    PROVE  Steady(al, o, hd, h, g, c2, st, b, rn, Null)
<1>0. /\ Types(al, o, hd, h, g, c, st, rn) /\ StackOK(al, h, g, c, st) /\ TagOK(g, c)
      /\ EmptyOK(al, o, h, g, c, st, b) /\ ApartOK(al, o, c, st, Gar(g))
  BY DEF Steady
<1>1. /\ st \in Seq(Frame) /\ Len(st) \in Nat /\ Len(st) # 0 /\ c.end \in Nat /\ c.idx # 0 /\ g \in Globals
      /\ g.first_unused \in Nat
  BY <1>0 DEF Types, Locals, Globals
<1>2. Types(al, o, hd, h, g, c2, st, rn)
  BY <1>0 DEF Types
<1>3. StackOK(al, h, g, c2, st)
  <2>1. Len(st) \in 1..Len(st) /\ \A k \in 1..Len(st) : st[k].fn = "gc" => k = Len(st)
    BY <1>0, <1>1 DEF StackOK
  <2>2. \A k \in 1..Len(st) : ~(st[k].fn = "gc" /\ k < Len(st))
    BY <2>1, <1>1
  <2> QED
    BY <2>1, <2>2, <1>0 DEF StackOK
<1>4. ApartOK(al, o, c2, st, Gar(g))
  BY <1>0 DEF ApartOK
<1>5. \A i \in Used(g) : ~(i < c2.idx)
  BY <1>1 DEF Used
<1>6. EmptyOK(al, o, h, g, c2, st, b)
  BY <1>0, <1>5 DEF EmptyOK
<1>7. TagOK(g, c2)
  <2>1. g.active /\ c.end <= g.first_unused /\ 1 <= c.end
    BY <1>0, <1>1 DEF TagOK, StackOK
  <2>2. \A i \in Used(g) : g.buf[i].tag # "dtor" /\ (g.buf[i].tag = "garbage" => i < c.end)
    <3>1. \A i \in Used(g) : (g.buf[i].tag = "dtor" => i \in c.idx..(c.end - 1)) /\ (g.buf[i].tag = "garbage" => i < c.end)
      BY <1>0 DEF TagOK
    <3>2. c.idx..(c.end - 1) = {}
      BY <1>1
    <3> QED
      BY <3>1, <3>2
  <2> QED
    BY <2>1, <2>2 DEF TagOK
<1> QED
  BY <1>2, <1>3, <1>4, <1>6, <1>7 DEF Steady

\* The destructors have run: what is left is destroyed.
LEMMA DtorsDoneCalm == ASSUME Calm, DtorsDone PROVE Calm'
<1>0. Steady(alloc, out, held, hdr, gc, col, stack, bailed, ran, Null)
  BY DEF Calm
<1>1. /\ stack # <<>> /\ stack[Len(stack)].fn = "gc" /\ col.pc = "dtors" /\ col.idx = col.end
      /\ IF gc.protected THEN stack' = Pop /\ col' = Idle
         ELSE col' = GoTo("destroy", 1) /\ stack' = stack
      /\ alloc' = alloc /\ out' = out /\ held' = held /\ hdr' = hdr /\ gc' = gc
      /\ bailed' = bailed /\ ran' = ran
  BY AtFacts DEF DtorsDone, heap
<1>2. /\ gc \in Globals /\ col \in Locals /\ BufOK(alloc, hdr, gc) /\ TagOK(gc, col) /\ gc.active
  BY <1>0, <1>1 DEF Steady, Types, StackOK
<1>3. CASE gc.protected
  <2>1. stack' = Pop /\ col' = Idle
    BY <1>1, <1>3
  <2>2. TagOK(gc, Idle) /\ Idle \in Locals /\ Idle.pc = "idle"
    BY <1>2, IdleFacts DEF TagOK
  <2>3. Pop \in Seq(Frame) /\ Pushed(Pop, stack[Len(stack)], stack)
    BY ONLY <1>0, <1>1, TopFacts
  <2>4. gc.buf = gc.buf /\ gc.first_unused = gc.first_unused /\ col.pc \in {"dtors", "finish"}
        /\ stack[Len(stack)].fn = "gc"
    BY <1>1
  <2>5. Steady(alloc, out, held, hdr, gc, Idle, Pop, bailed, ran, Null)
    <3> DEFINE p == Pop
               d == Idle
               f == stack[Len(stack)]
    <3>1. /\ p \in Seq(Frame) /\ Pushed(p, f, stack) /\ f.fn = "gc" /\ TagOK(gc, d) /\ d \in Locals
          /\ d.pc = "idle"
      BY <2>2, <2>3, <2>4
    <3> HIDE DEF p, d, f
    <3>2. Steady(alloc, out, held, hdr, gc, d, p, bailed, ran, Null)
      BY ONLY <3>1, <2>4, <1>0, <1>2, PopGC
    <3> QED
      BY <3>2 DEF p, d
  <2> QED
    BY <1>1, <2>1, <2>2, <2>5 DEF Calm, SteadyPcs
<1>4. CASE ~gc.protected
  <2>1. stack' = stack /\ col' = GoTo("destroy", 1)
    BY <1>1, <1>4
  <2>2. /\ col' \in Locals /\ col'.pc = "destroy" /\ col'.idx = 1 /\ col'.end = col.end
        /\ col'.todo = {} /\ col'.btodo = {}
    BY <2>1, <1>2, GoToFacts DEF Pcs, TagOK
  <2>3. Steady(alloc, out, held, hdr, gc, col', stack, bailed, ran, Null)
    <3>1. stack # <<>> /\ stack[Len(stack)].fn = "gc" /\ col.pc = "dtors" /\ col.idx = col.end
      BY <1>1
    <3> QED
      BY ONLY <3>1, <2>2, <1>0, ToDestroy
  <2> QED
    BY <1>1, <2>1, <2>2, <2>3 DEF Calm, SteadyPcs
<1> QED
  BY <1>3, <1>4

\* The collection ends.
LEMMA FinishCalm == ASSUME Calm, Finish PROVE Calm'
<1>0. Steady(alloc, out, held, hdr, gc, col, stack, bailed, ran, Null)
  BY DEF Calm
<1>1. /\ stack # <<>> /\ stack[Len(stack)].fn = "gc" /\ col.pc = "finish"
      /\ gc' = [gc EXCEPT !.active = FALSE] /\ stack' = Pop
      /\ \/ col' = [Idle EXCEPT !.total = col.total] \/ col' = Idle
      /\ alloc' = alloc /\ out' = out /\ held' = held /\ hdr' = hdr
      /\ bailed' = bailed /\ ran' = ran
  BY AtFacts DEF Finish, heap
<1>2. /\ gc \in Globals /\ col \in Locals /\ BufOK(alloc, hdr, gc) /\ TagOK(gc, col)
      /\ alloc \in SUBSET Node /\ hdr \in [Node -> Hdr]
  BY <1>0, <1>1 DEF Steady, Types, StackOK
<1>3. /\ gc' \in Globals /\ gc'.buf = gc.buf /\ gc'.first_unused = gc.first_unused
      /\ gc'.unused = gc.unused /\ gc'.num_roots = gc.num_roots
      /\ gc'.buf_size = gc.buf_size /\ gc'.threshold = gc.threshold
  <2> DEFINE t == FALSE
  <2>1. gc' = [gc EXCEPT !.active = t] /\ gc \in Globals /\ t \in BOOLEAN
    BY <1>1, <1>2
  <2> HIDE DEF t
  <2> QED
    BY ONLY <2>1 DEF Globals
<1>4. /\ col' \in Locals /\ col'.pc = "idle" /\ col'.todo = {} /\ col'.btodo = {}
  <2>1. CASE col' = Idle
    BY <2>1, IdleFacts
  <2>2. CASE col' = [Idle EXCEPT !.total = col.total]
    <3> DEFINE d == Idle
               t == col.total
    <3>1. d \in Locals /\ d.pc = "idle" /\ d.todo = {} /\ d.btodo = {} /\ t \in Int /\ col' = [d EXCEPT !.total = t]
      BY <2>2, <1>2, IdleFacts DEF Locals
    <3> HIDE DEF d, t
    <3> QED
      BY ONLY <3>1 DEF Locals
  <2> QED
    BY <1>1, <2>1, <2>2
<1>5. BufOK(alloc, hdr, gc')
  <2>1. Retagged(gc, gc')
    <3>1. \A i \in Used(gc) : gc.buf[i].tag \in {"root", "garbage", "dtor"}
      BY <1>2 DEF BufOK, Entries
    <3> QED
      BY ONLY <3>1, <1>3 DEF Retagged
  <2>2. \A y \in Node : hdr[y].addr = hdr[y].addr
    OBVIOUS
  <2> QED
    BY ONLY <2>1, <2>2, <1>2, <1>3, BufRetag
<1>6. TagOK(gc', col')
  <2>1. \A i \in Used(gc) : gc.buf[i].tag = "root"
    BY <1>1, <1>2 DEF TagOK
  <2>2. Used(gc') = Used(gc)
    BY <1>3 DEF Used
  <2> QED
    BY <2>1, <2>2, <1>3, <1>4 DEF TagOK
<1>7. stack' \in Seq(Frame) /\ Pushed(stack', stack[Len(stack)], stack) /\ stack[Len(stack)].fn = "gc"
      /\ col.pc \in {"dtors", "finish"}
  BY <1>0, <1>1, TopFacts
<1>8. Steady(alloc, out, held, hdr, gc', col', stack', bailed, ran, Null)
  <2> DEFINE f == stack[Len(stack)]
  <2>1. Pushed(stack', f, stack) /\ f.fn = "gc" /\ stack' \in Seq(Frame) /\ col.pc \in {"dtors", "finish"}
    BY <1>7
  <2> HIDE DEF f
  <2> QED
    BY ONLY <2>1, <1>0, <1>3, <1>4, <1>5, <1>6, PopGC
<1> QED
  BY <1>1, <1>4, <1>8 DEF Calm, SteadyPcs

\* A garbage node is destroyed by calls that know nothing but it.
Nulled(h, n, h2) ==
    /\ h2 \in [Node -> Hdr] /\ \A y \in Node : y # n => h2[y] = h[y]
    /\ h2[n].null /\ h2[n].addr = h[n].addr /\ h2[n].color = h[n].color
    /\ h2[n].dtored = h[n].dtored /\ (h[n].freed => h2[n].freed) /\ (n \in Arr => ~h2[n].freed)
Grown(st, n, st2) ==
    /\ st2 \in Seq(Frame) /\ Len(st2) >= Len(st) /\ \A k \in 1..Len(st) : st2[k] = st[k]
    /\ \A k \in 1..Len(st2) : k > Len(st) => st2[k].obj = n /\ st2[k].fn \in {"gcfree", "free"}
Stepped(c, c2) ==
    /\ c2 \in Locals /\ c2.pc = c.pc /\ c2.idx = c.idx + 1 /\ c2.end = c.end
    /\ c2.todo = {} /\ c2.btodo = {}

\* A node of the garbage is destroyed.
LEMMA Destroyed ==
    ASSUME NEW al, NEW o, NEW hd, NEW h, NEW g, NEW c, NEW st, NEW b, NEW rn,
           Steady(al, o, hd, h, g, c, st, b, rn, Null), c.pc = "destroy", c.idx < c.end,
           st # <<>>, st[Len(st)].fn = "gc",
           c.idx \in Used(g), g.buf[c.idx].tag = "garbage", NEW n, n = g.buf[c.idx].ref,
           NEW h2, Nulled(h, n, h2), NEW st2, Grown(st, n, st2), NEW c2, Stepped(c, c2),
           RcOK(al, o, hd, h2, st2, b, Null, {}), StackOK(al, h2, g, c2, st2),
           ~h[n].freed => \E k \in 1..Len(st2) : st2[k].fn = "free" /\ st2[k].obj = n
    PROVE  Steady(al, o, hd, h2, g, c2, st2, b, rn, Null)
<1>0. /\ Types(al, o, hd, h, g, c, st, rn) /\ BufOK(al, h, g)
      /\ Closed(al, o, hd, Null) /\ EfreeOK(al, o, hd, h, st, Null)
      /\ DeadOK(al, o, hd, h, st, Gar(g), Null) /\ GarOK(al, o, hd, h, st, Gar(g))
      /\ EmptyOK(al, o, h, g, c, st, b) /\ DtorOK(al, h, Gar(g), rn) /\ ApartOK(al, o, c, st, Gar(g))
      /\ StackOK(al, h, g, c, st) /\ ColorOK(h, g) /\ TagOK(g, c)
  BY DEF Steady
<1>1. /\ al \in SUBSET Node /\ h \in [Node -> Hdr] /\ st \in Seq(Frame) /\ Null \notin Node
      /\ g \in Globals /\ c \in Locals /\ c.idx \in Nat /\ c.end \in Nat /\ Len(st) \in Nat /\ Len(st) # 0
      /\ g.first_unused \in Nat
  BY <1>0, NullAssumption DEF Types, Locals, Globals
<1>2. /\ h2 \in [Node -> Hdr] /\ \A y \in Node : y # n => h2[y] = h[y]
      /\ h2[n].null /\ h2[n].addr = h[n].addr /\ h2[n].color = h[n].color
      /\ h2[n].dtored = h[n].dtored /\ (h[n].freed => h2[n].freed) /\ (n \in Arr => ~h2[n].freed)
  BY ONLY Nulled(h, n, h2) DEF Nulled
<1>3. /\ st2 \in Seq(Frame) /\ Len(st2) >= Len(st) /\ \A k \in 1..Len(st) : st2[k] = st[k]
      /\ \A k \in 1..Len(st2) : k > Len(st) => st2[k].obj = n /\ st2[k].fn \in {"gcfree", "free"}
  BY ONLY Grown(st, n, st2) DEF Grown
<1>4. /\ c2 \in Locals /\ c2.pc = "destroy" /\ c2.idx = c.idx + 1 /\ c2.end = c.end
      /\ c2.todo = {} /\ c2.btodo = {}
  BY DEF Stepped
<1>5. n \in Gar(g) /\ n \in al /\ n \in Node /\ \A i \in Used(g) : g.buf[i].ref = n => i = c.idx
  BY <1>0, <1>1 DEF Gar, Tagged, BufOK, Entries
<1>6. /\ Len(st2) \in Nat /\ \A k \in 1..Len(st) : k \in 1..Len(st2)
      /\ \A k \in 1..Len(st2) : k \notin 1..Len(st) => k > Len(st)
  BY <1>1, <1>3
<1>7. InGC(st, Len(st)) /\ \A k : InGC(st, k) => k = Len(st)
  BY <1>0, <1>1 DEF StackOK, InGC
<1>8. \A k \in 1..Len(st) : st[k].obj # n
  <2>1. \A j \in 1..(Len(st) - 1) : st[j].obj \notin Gar(g)
    BY <1>0, <1>7 DEF ApartOK
  <2>2. st[Len(st)].obj = Null
    BY <1>0, <1>1 DEF StackOK
  <2>3. \A k \in 1..Len(st) : k = Len(st) \/ k \in 1..(Len(st) - 1)
    BY <1>1
  <2> QED
    BY <2>1, <2>2, <2>3, <1>1, <1>5
<1>9. \A y \in Node : (Dead(h, y) => Dead(h2, y)) /\ (y # n => (Dead(h2, y) <=> Dead(h, y)))
  BY <1>2 DEF Dead
<1>10. Types(al, o, hd, h2, g, c2, st2, rn)
  <2>1. c2.idx # 0
    BY <1>1, <1>4
  <2>2. \A y \in Arr : ~h2[y].freed /\ y \in Node
    BY <1>0, <1>2, KindAssumption DEF Types
  <2> QED
    BY <2>1, <2>2, <1>0, <1>2, <1>3, <1>4 DEF Types
<1>11. BufOK(al, h2, g)
  <2>1. \A y \in Node : h2[y].addr = h[y].addr
    BY <1>2
  <2> QED
    BY ONLY <2>1, <1>0, <1>1, <1>2, BufHdr
<1>12. \A y \in al : y # n /\ Lone(al, o, hd, st, Null, y) => Lone(al, o, hd, st2, Null, y)
  BY <1>3, <1>6 DEF Lone
<1>13. EfreeOK(al, o, hd, h2, st2, Null)
  <2> SUFFICES ASSUME NEW k \in 1..Len(st2), st2[k].fn = "efree"
               PROVE  LET y == st2[k].obj
                      IN  /\ Dead(h2, y) /\ Lone(al, o, hd, st2, Null, y)
                          /\ \A j \in 1..Len(st2) : st2[j].obj = y =>
                                j = k \/ (j = k + 1 /\ st2[j].fn = "free")
                          /\ o[y] = {} \/ (k + 1 \in 1..Len(st2) /\ st2[k + 1].fn = "free")
                          /\ y \in Arr => h2[y].addr = 0
    BY DEF EfreeOK
  <2> DEFINE y == st2[k].obj
  <2>1. k \in 1..Len(st) /\ st[k].fn = "efree" /\ y = st[k].obj /\ y \in al
    BY <1>0, <1>3, <1>6 DEF StackOK
  <2>2. /\ Dead(h, y) /\ Lone(al, o, hd, st, Null, y)
        /\ \A j \in 1..Len(st) : st[j].obj = y => j = k \/ (j = k + 1 /\ st[j].fn = "free")
        /\ o[y] = {} \/ (k + 1 \in 1..Len(st) /\ st[k + 1].fn = "free")
        /\ y \in Arr => h[y].addr = 0
    BY <2>1, <1>0 DEF EfreeOK
  <2>3. y # n
    BY <2>1, <1>8
  <2> HIDE DEF y
  <2>4. Lone(al, o, hd, st2, Null, y) /\ Dead(h2, y) /\ (y \in Arr => h2[y].addr = 0)
    BY <2>1, <2>2, <2>3, <1>1, <1>2, <1>9, <1>12
  <2>5. \A j \in 1..Len(st2) : st2[j].obj = y => j = k \/ (j = k + 1 /\ st2[j].fn = "free")
    BY <2>2, <2>3, <1>3, <1>6
  <2>6. o[y] = {} \/ (k + 1 \in 1..Len(st2) /\ st2[k + 1].fn = "free")
    BY <2>2, <1>3, <1>6
  <2> QED
    BY <2>4, <2>5, <2>6 DEF y
<1>14. DeadOK(al, o, hd, h2, st2, Gar(g), Null)
  <2>1. ASSUME NEW y \in al
        PROVE  /\ Dead(h2, y) => y \in Gar(g) \/ Lone(al, o, hd, st2, Null, y)
               /\ h2[y].freed /\ ~h2[y].null => h2[y].rc >= 1 /\ Lone(al, o, hd, st2, Null, y)
    <3>1. CASE y = n
      BY <3>1, <1>2, <1>5
    <3>2. CASE y # n
      BY <3>2, <1>0, <1>1, <1>2, <1>9, <1>12 DEF DeadOK
    <3> QED
      BY <3>1, <3>2
  <2> QED
    BY <2>1 DEF DeadOK
<1>15. GarOK(al, o, hd, h2, st2, Gar(g))
  <2>1. ASSUME NEW y \in Gar(g)
        PROVE  /\ y \in al /\ y \notin hd
               /\ \A k \in 1..Len(st2) : st2[k].obj = y => st2[k].fn \in {"gcfree", "free", "efree"}
               /\ \A m \in al : y \in o[m] => m \in Gar(g) \/ Dead(h2, m)
    <3>1. /\ y \in al /\ y \notin hd
          /\ \A k \in 1..Len(st) : st[k].obj = y => st[k].fn \in {"gcfree", "free", "efree"}
          /\ \A m \in al : y \in o[m] => m \in Gar(g) \/ Dead(h, m)
      BY <1>0 DEF GarOK
    <3>2. \A k \in 1..Len(st2) : st2[k].obj = y => st2[k].fn \in {"gcfree", "free", "efree"}
      <4> SUFFICES ASSUME NEW k \in 1..Len(st2), st2[k].obj = y
                   PROVE  st2[k].fn \in {"gcfree", "free", "efree"}
        OBVIOUS
      <4>1. CASE k \in 1..Len(st)
        BY <4>1, <3>1, <1>3
      <4>2. CASE k \notin 1..Len(st)
        BY <4>2, <1>3, <1>6
      <4> QED
        BY <4>1, <4>2
    <3>3. \A m \in al : m \in Node
      BY <1>1
    <3> QED
      BY <3>1, <3>2, <3>3, <1>9
  <2> QED
    BY <2>1 DEF GarOK
<1>16. ApartOK(al, o, c2, st2, Gar(g))
  <2> SUFFICES ASSUME NEW j, InGC(st2, j)
               PROVE  /\ \A i \in 1..(j - 1) : st2[i].obj \notin Gar(g)
                      /\ \A y \in Gar(g), m \in al : y \in o[m] =>
                           m \in Gar(g) \/ \E i \in 1..Len(st2) : i > j /\ st2[i].fn = "free" /\ st2[i].obj = m
    BY DEF ApartOK
  <2>1. InGC(st, j) /\ j \in 1..Len(st)
    BY <1>3, <1>6 DEF InGC
  <2>2. /\ \A i \in 1..(j - 1) : st[i].obj \notin Gar(g)
        /\ \A y \in Gar(g), m \in al : y \in o[m] =>
             m \in Gar(g) \/ \E i \in 1..Len(st) : i > j /\ st[i].fn = "free" /\ st[i].obj = m
    BY <2>1, <1>0 DEF ApartOK
  <2>3. \A i \in 1..(j - 1) : st2[i] = st[i]
    BY <2>1, <1>1, <1>3
  <2> QED
    BY <2>2, <2>3, <1>3, <1>6
<1>17. EmptyOK(al, o, h2, g, c2, st2, b)
  <2> SUFFICES ASSUME ~b
               PROVE  /\ \A i \in Used(g) : i < c2.idx /\ g.buf[i].tag = "garbage" =>
                           o[g.buf[i].ref] = {}
                           \/ \E k \in 1..Len(st2) : st2[k].fn = "free" /\ st2[k].obj = g.buf[i].ref
                      /\ \A y \in al : Dead(h2, y) =>
                           \/ \E k \in 1..Len(st2) : st2[k].fn = "efree" /\ st2[k].obj = y
                           \/ \E i \in Used(g) :
                                i < c2.idx /\ g.buf[i].tag = "garbage" /\ g.buf[i].ref = y
    BY <1>4 DEF EmptyOK
  <2>1. /\ \A i \in Used(g) : i < c.idx /\ g.buf[i].tag = "garbage" =>
             o[g.buf[i].ref] = {}
             \/ \E k \in 1..Len(st) : st[k].fn = "free" /\ st[k].obj = g.buf[i].ref
        /\ \A y \in al : Dead(h, y) =>
             \/ \E k \in 1..Len(st) : st[k].fn = "efree" /\ st[k].obj = y
             \/ \E i \in Used(g) :
                   i < c.idx /\ g.buf[i].tag = "garbage" /\ g.buf[i].ref = y
    BY <1>0 DEF EmptyOK
  <2>2. \A i \in Used(g) : i \in Nat /\ (i < c2.idx <=> i < c.idx \/ i = c.idx) /\ ~(c.idx < c.idx)
    BY <1>1, <1>4 DEF Used
  <2>3. ~h[n].freed
    BY <2>1, <2>2, <1>5, <1>8 DEF Dead
  <2>4. \E k \in 1..Len(st2) : st2[k].fn = "free" /\ st2[k].obj = n
    BY <2>3
  <2>5. ASSUME NEW i \in Used(g), i < c2.idx, g.buf[i].tag = "garbage"
        PROVE  o[g.buf[i].ref] = {}
               \/ \E k \in 1..Len(st2) : st2[k].fn = "free" /\ st2[k].obj = g.buf[i].ref
    <3>1. CASE i = c.idx
      BY <3>1, <2>4
    <3>2. CASE i < c.idx
      BY <3>2, <2>1, <2>5, <1>3, <1>6
    <3> QED
      BY <3>1, <3>2, <2>2, <2>5
  <2>6. ASSUME NEW y \in al, Dead(h2, y)
        PROVE  \/ \E k \in 1..Len(st2) : st2[k].fn = "efree" /\ st2[k].obj = y
               \/ \E i \in Used(g) : i < c2.idx /\ g.buf[i].tag = "garbage" /\ g.buf[i].ref = y
    <3>1. CASE y = n
      BY <3>1, <2>2
    <3>2. CASE y # n
      <4>1. Dead(h, y)
        BY <3>2, <2>6, <1>1, <1>9
      <4>2. \/ \E k \in 1..Len(st) : st[k].fn = "efree" /\ st[k].obj = y
            \/ \E i \in Used(g) : i < c.idx /\ g.buf[i].tag = "garbage" /\ g.buf[i].ref = y
        BY <4>1, <2>1
      <4> QED
        BY <4>2, <2>2, <1>3, <1>6
    <3> QED
      BY <3>1, <3>2
  <2> QED
    BY <2>5, <2>6
<1>18. DtorOK(al, h2, Gar(g), rn)
  <2>1. \A y \in Node : h2[y].dtored = h[y].dtored
    BY <1>2
  <2>2. ASSUME NEW y \in Dtor \intersect al
        PROVE  /\ h2[y].dtored => y \in rn
               /\ Dead(h2, y) \/ y \in Gar(g) => h2[y].dtored
    BY <2>1, <1>0, <1>1, <1>5, <1>9 DEF DtorOK
  <2> QED
    BY <2>2 DEF DtorOK
<1>19. ColorOK(h2, g)
  <2>1. \A y \in Node : h2[y].color = h[y].color /\ h2[y].addr = h[y].addr
    BY <1>2
  <2>2. \A i \in Used(g) : g.buf[i].ref \in Node
    BY ONLY <1>0, <1>1, TaggedAll
  <2> QED
    BY <2>1, <2>2, <1>0 DEF ColorOK
<1>20. TagOK(g, c2)
  <2>1. g.active /\ c.end <= g.first_unused /\ c2.idx <= c2.end
    BY <1>0, <1>1, <1>4 DEF TagOK, StackOK
  <2> QED
    BY <2>1, <1>0, <1>4 DEF TagOK
<1> QED
  BY <1>0, <1>10, <1>11, <1>13, <1>14, <1>15, <1>16, <1>17, <1>18, <1>19, <1>20 DEF Steady

\* The collector destroys the next entry.
LEMMA DestroyStepCalm == ASSUME Calm, DestroyStep PROVE Calm'
<1> DEFINE i == col.idx
           n == gc.buf[i].ref
           tag == gc.buf[i].tag
<1>0. Steady(alloc, out, held, hdr, gc, col, stack, bailed, ran, Null)
  BY DEF Calm
<1>1. /\ stack # <<>> /\ stack[Len(stack)].fn = "gc" /\ col.pc = "destroy" /\ i < col.end
      /\ CASE tag = "garbage" /\ n \in Arr ->
                  /\ hdr' = [hdr EXCEPT ![n].null = TRUE]
                  /\ stack' = Append(stack, Call("free", n))
           [] tag = "garbage" /\ n \notin Arr /\ ~hdr[n].freed ->
                  /\ hdr' = [hdr EXCEPT ![n].null = TRUE, ![n].freed = TRUE, ![n].rc = @ + 1]
                  /\ stack' = stack \o <<Call("gcfree", n), Call("free", n)>>
           [] tag = "garbage" /\ n \notin Arr /\ hdr[n].freed ->
                  hdr' = [hdr EXCEPT ![n].null = TRUE] /\ stack' = stack
           [] OTHER -> hdr' = hdr /\ stack' = stack
      /\ col' = [col EXCEPT !.idx = @ + 1]
      /\ alloc' = alloc /\ out' = out /\ held' = held /\ gc' = gc /\ bailed' = bailed /\ ran' = ran
  BY AtFacts, Zenon DEF DestroyStep, Entry, heap
<1>a. /\ stack # <<>> /\ stack[Len(stack)].fn = "gc" /\ col.pc = "destroy" /\ i < col.end
      /\ col' = [col EXCEPT !.idx = @ + 1]
  BY <1>1, Zenon
<1>b. /\ alloc' = alloc /\ out' = out /\ held' = held /\ gc' = gc /\ bailed' = bailed /\ ran' = ran
  BY <1>1, Zenon
<1>c. stack # <<>> /\ stack[Len(stack)].fn = "gc" /\ col.pc = "destroy" /\ i < col.end
  BY <1>a
<1>2. /\ alloc \in SUBSET Node /\ hdr \in [Node -> Hdr] /\ gc \in Globals /\ col \in Locals
      /\ stack \in Seq(Frame) /\ BufOK(alloc, hdr, gc) /\ TagOK(gc, col) /\ col.idx # 0 /\ gc.active
      /\ EmptyOK(alloc, out, hdr, gc, col, stack, bailed) /\ RcOK(alloc, out, held, hdr, stack, bailed, Null, {})
      /\ StackOK(alloc, hdr, gc, col, stack) /\ \A y \in Arr : ~hdr[y].freed
  BY <1>0, <1>1, Zenon DEF Steady, Types, StackOK
<1>3. /\ col.idx \in Nat /\ col.end \in Nat /\ col.end <= gc.first_unused
      /\ gc.first_unused \in Nat /\ col.todo = {} /\ col.btodo = {}
  BY <1>c, <1>2 DEF TagOK, Locals, Globals
<1>4. Stepped(col, col') /\ col'.pc = "destroy" /\ col'.idx # 0
  <2> DEFINE j == i + 1
  <2>1. col' = [col EXCEPT !.idx = j] /\ j \in Nat /\ j # 0 /\ col \in Locals
    BY <1>a, <1>2, <1>3
  <2> HIDE DEF j
  <2>2. /\ col' \in Locals /\ col'.pc = col.pc /\ col'.idx = j /\ col'.end = col.end
        /\ col'.todo = col.todo /\ col'.btodo = col.btodo
    BY ONLY <2>1 DEF Locals
  <2> QED
    BY <2>1, <2>2, <1>c, <1>3 DEF j, Stepped
<1>5. CASE tag # "garbage"
  <2>1. hdr' = hdr /\ stack' = stack
    BY <1>1, <1>5
  <2>2. TagOK(gc, col')
    <3>1. /\ col'.pc = "destroy" /\ col'.idx <= col'.end /\ col'.end = col.end /\ col'.todo = {} /\ col'.btodo = {}
      BY <1>c, <1>3, <1>4 DEF Stepped
    <3> QED
      BY <3>1, <1>c, <1>2, <1>3 DEF TagOK
  <2>3. EmptyOK(alloc, out, hdr, gc, col', stack, bailed)
    <3>1. \A j \in Used(gc) : gc.buf[j].tag = "garbage" => (j < col'.idx <=> j < col.idx)
      <4>1. \A j \in Used(gc) : j \in Nat
        BY <1>3 DEF Used
      <4>2. col'.idx = col.idx + 1
        BY <1>4 DEF Stepped
      <4> QED
        BY <4>1, <4>2, <1>3, <1>5
    <3> QED
      BY <3>1, <1>c, <1>2, <1>4 DEF EmptyOK
  <2>4. Steady(alloc, out, held, hdr, gc, col', stack, bailed, ran, Null)
    <3>1. col.pc \in {"dtors", "destroy"} /\ col'.pc = col.pc /\ col'.idx # 0 /\ col' \in Locals
      BY <1>c, <1>4 DEF Stepped
    <3> QED
      BY ONLY <3>1, <2>2, <2>3, <1>0, Advance
  <2> QED
    BY <2>1, <2>4, <1>b, <1>c, <1>4 DEF Calm, SteadyPcs
<1>6. CASE tag = "garbage"
  <2>1. i \in Used(gc) /\ n \in Node /\ n \in alloc /\ hdr[n].addr # 0
    <3>1. i \in Used(gc)
      BY <1>c, <1>2, <1>3, <1>6 DEF Used
    <3>2. Entries(alloc, hdr, gc)
      BY <1>2 DEF BufOK
    <3>3. gc.buf[i].ref \in Node /\ hdr[gc.buf[i].ref].addr # 0
      BY <3>1, <3>2, <1>2, UsedFacts
    <3> QED
      BY <3>1, <3>2, <3>3 DEF Entries
  <2>2. SUFFICES Steady(alloc, out, held, hdr', gc, col', stack', bailed, ran, Null)
    BY <1>b, <1>c, <1>4 DEF Calm, SteadyPcs
  <2>3. SUFFICES /\ Nulled(hdr, n, hdr') /\ Grown(stack, n, stack')
                 /\ RcOK(alloc, out, held, hdr', stack', bailed, Null, {})
                 /\ StackOK(alloc, hdr', gc, col', stack')
                 /\ ~hdr[n].freed => \E k \in 1..Len(stack') : stack'[k].fn = "free" /\ stack'[k].obj = n
    <3>1. /\ Nulled(hdr, n, hdr') /\ Grown(stack, n, stack')
          /\ RcOK(alloc, out, held, hdr', stack', bailed, Null, {})
          /\ StackOK(alloc, hdr', gc, col', stack')
      BY <2>3
    <3>2. ~hdr[n].freed => \E k \in 1..Len(stack') : stack'[k].fn = "free" /\ stack'[k].obj = n
      BY <2>3
    <3>3. /\ col.pc = "destroy" /\ col.idx < col.end /\ stack # <<>> /\ stack[Len(stack)].fn = "gc"
          /\ col.idx \in Used(gc) /\ gc.buf[col.idx].tag = "garbage" /\ n = gc.buf[col.idx].ref
          /\ Stepped(col, col')
      BY <1>c, <1>4, <1>6, <2>1
    <3> HIDE DEF n, i, tag
    <3> QED
      BY ONLY <3>1, <3>2, <3>3, <1>0, Destroyed
  <2>4. StackOK(alloc, hdr, gc, col', stack)
    BY <1>c, <1>2, <1>4 DEF StackOK
  <2>5. Len(stack) \in Nat /\ Len(stack) > 0
    BY <1>c, <1>2
  <2>6. ASSUME Nulled(hdr, n, hdr') PROVE StackOK(alloc, hdr', gc, col', stack)
    <3>1. \A y \in Node : (Dead(hdr, y) => Dead(hdr', y)) /\ hdr'[y].addr = hdr[y].addr
      BY <2>6 DEF Nulled, Dead
    <3>2. \A k \in 1..Len(stack) : stack[k].fn # "gc" => stack[k].obj \in alloc /\ stack[k].obj \in Node
      BY <1>2 DEF StackOK
    <3>3. \A k \in 1..Len(stack) : stack[k].fn # "gc" =>
              /\ stack[k].obj \in alloc /\ (Dead(hdr, stack[k].obj) => Dead(hdr', stack[k].obj))
              /\ hdr[stack[k].obj].addr # 0 => hdr'[stack[k].obj].addr # 0
      BY <3>1, <3>2
    <3>4. gc.active = gc.active
      OBVIOUS
    <3> QED
      BY ONLY <3>3, <3>4, <2>4, <1>2, StackKeep
  <2>7. CASE n \in Arr
    <3> DEFINE f == Call("free", n)
    <3>1. hdr' = [hdr EXCEPT ![n].null = TRUE] /\ stack' = Append(stack, f) /\ ~hdr[n].freed
      BY <1>1, <1>2, <1>6, <2>7, Zenon
    <3>2. f \in Frame /\ f.fn = "free" /\ f.obj = n
      BY <2>1 DEF Call, Frame, Fns
    <3> HIDE DEF f
    <3>3. Pushed(stack, f, stack') /\ stack' \in Seq(Frame)
      BY <3>1, <3>2, <1>2, PushAppend
    <3>4. Nulled(hdr, n, hdr') /\ \A y \in Node : hdr'[y].rc = hdr[y].rc
      <4> DEFINE v == hdr[n]
                 w == hdr'[n]
                 t == TRUE
      <4>1. /\ v \in Hdr /\ t \in BOOLEAN /\ t /\ w = [v EXCEPT !.null = t]
            /\ \A y \in Node : y # n => hdr'[y] = hdr[y]
            /\ hdr' = [y \in Node |-> hdr'[y]]
        BY <3>1, <1>2, <2>1, Zenon
      <4> HIDE DEF v, w, t
      <4>2. /\ w \in Hdr /\ w.null = t /\ w.rc = v.rc /\ w.color = v.color /\ w.addr = v.addr
            /\ w.dtored = v.dtored /\ w.freed = v.freed
        BY ONLY <4>1 DEF Hdr
      <4>3. \A y \in Node : hdr'[y] \in Hdr
        BY <4>1, <4>2, <1>2 DEF w
      <4> QED
        BY <4>1, <4>2, <4>3, <3>1, Zenon DEF Nulled, v, w
    <3>5. Grown(stack, n, stack') /\ \E k \in 1..Len(stack') : stack'[k].fn = "free" /\ stack'[k].obj = n
      <4>1. /\ Len(stack') = Len(stack) + 1 /\ stack'[Len(stack')] = f
            /\ \A k \in 1..Len(stack) : stack'[k] = stack[k]
        BY <3>3 DEF Pushed
      <4>2. \A k \in 1..Len(stack') : k > Len(stack) => k = Len(stack')
        BY <4>1, <2>5
      <4>3. Len(stack') \in 1..Len(stack') /\ Len(stack') >= Len(stack)
        BY <4>1, <2>5
      <4> QED
        BY <4>1, <4>2, <4>3, <3>2, <3>3 DEF Grown
    <3>6. RcOK(alloc, out, held, hdr', stack', bailed, Null, {})
      <4>1. ASSUME NEW y \in alloc
            PROVE  Gap(alloc, out, held, hdr', stack', Null, y) = Gap(alloc, out, held, hdr, stack, Null, y)
        <5>1. Cardinality(Holders(stack, y)) \in Nat
          BY <1>2, RefsFacts
        <5>2. Cardinality(Holders(stack', y)) = Cardinality(Holders(stack, y)) + One(Holds(f, y))
          BY ONLY <3>3, <1>2, HoldersPush
        <5>3. One(Holds(f, y)) = 0
          BY <3>2 DEF One, Holds
        <5>4. Cardinality(Holders(stack', y)) = Cardinality(Holders(stack, y))
          BY ONLY <5>1, <5>2, <5>3
        <5>5. hdr'[y].rc = hdr[y].rc
          BY <3>4, <1>2
        <5> QED
          BY <5>4, <5>5 DEF Refs, Gap
      <4>2. hdr' \in [Node -> Hdr]
        BY <3>4 DEF Nulled
      <4>3. \A y \in alloc : /\ y \in alloc
                             /\ Gap(alloc, out, held, hdr', stack', Null, y) = Gap(alloc, out, held, hdr, stack, Null, y)
        BY <4>1
      <4> QED
        BY ONLY <4>2, <4>3, <3>3, <1>2, RcMove
    <3>7. StackOK(alloc, hdr', gc, col', stack')
      <4>1. StackOK(alloc, hdr', gc, col', stack)
        BY <2>6, <3>4
      <4>2. /\ f.fn # "gc" /\ f.obj \in alloc /\ f.fn # "full"
            /\ f.fn = "free" =>
                 /\ Dead(hdr', f.obj) /\ Len(stack) > 0
                 /\ \/ stack[Len(stack)].fn \in {"efree", "gcfree"} /\ stack[Len(stack)].obj = f.obj
                    \/ stack[Len(stack)].fn = "gc" /\ f.obj \in Arr
            /\ Len(stack) > 0 /\ stack[Len(stack)].fn = "gc" =>
                 /\ \/ col'.pc = "dtors" /\ f.fn = "gcdtor"
                    \/ col'.pc = "destroy" /\ f.fn \in {"gcfree", "free"}
                 /\ hdr'[f.obj].addr # 0
        BY <1>c, <1>4, <2>1, <2>5, <2>7, <3>2, <3>4 DEF Nulled, Dead
      <4> QED
        BY ONLY <4>1, <4>2, <3>3, <1>2, PushStack
    <3> QED
      BY <3>4, <3>5, <3>6, <3>7
  <2>8. CASE n \notin Arr /\ ~hdr[n].freed
    <3> DEFINE f == Call("gcfree", n)
               f2 == Call("free", n)
    <3>1. hdr' = [hdr EXCEPT ![n].null = TRUE, ![n].freed = TRUE, ![n].rc = @ + 1] /\ stack' = stack \o <<f, f2>>
      BY <1>1, <1>6, <2>8, Zenon
    <3>2. f \in Frame /\ f.fn = "gcfree" /\ f.obj = n /\ f2 \in Frame /\ f2.fn = "free" /\ f2.obj = n
      BY <2>1 DEF Call, Frame, Fns
    <3> HIDE DEF f, f2
    <3>3. PICK s \in Seq(Frame) : Pushed(stack, f, s) /\ Pushed(s, f2, stack')
      <4>1. \E s \in Seq(Frame) : Pushed(stack, f, s) /\ Pushed(s, f2, stack \o <<f, f2>>)
        BY ONLY <3>2, <1>2, PushTwo
      <4> QED
        BY <4>1, <3>1, Zenon
    <3>4. /\ Nulled(hdr, n, hdr') /\ hdr'[n].rc = hdr[n].rc + 1
          /\ \A y \in Node : y # n => hdr'[y].rc = hdr[y].rc
      <4> DEFINE v == hdr[n]
                 w == hdr'[n]
                 t == TRUE
                 r == hdr[n].rc + 1
      <4>0. hdr[n].rc \in Int /\ hdr[n] \in Hdr
        BY <1>2, <2>1 DEF Hdr
      <4>1. /\ v \in Hdr /\ t \in BOOLEAN /\ t /\ r \in Int /\ w = [v EXCEPT !.null = t, !.freed = t, !.rc = r]
            /\ \A y \in Node : y # n => hdr'[y] = hdr[y]
            /\ hdr' = [y \in Node |-> hdr'[y]]
        <5>1. hdr' = [hdr EXCEPT ![n].null = TRUE, ![n].freed = TRUE, ![n].rc = @ + 1] /\ n \in Node
            /\ hdr \in [Node -> Hdr]
          BY <3>1, <1>2, <2>1, Zenon
        <5> HIDE DEF n
        <5>2. /\ \A y \in Node : y # n => hdr'[y] = hdr[y]
              /\ hdr' = [y \in Node |-> hdr'[y]]
          BY ONLY <5>1
        <5>3. hdr'[n] = [hdr[n] EXCEPT !.null = TRUE, !.freed = TRUE, !.rc = hdr[n].rc + 1]
          BY ONLY <5>1
        <5> QED
          BY <5>2, <5>3, <4>0
      <4> HIDE DEF v, w, t, r
      <4>2. /\ w \in Hdr /\ w.null = t /\ w.rc = r /\ w.color = v.color /\ w.addr = v.addr
            /\ w.dtored = v.dtored /\ w.freed = t
        BY ONLY <4>1 DEF Hdr
      <4>3. \A y \in Node : hdr'[y] \in Hdr
        BY <4>1, <4>2, <1>2 DEF w
      <4>4. Nulled(hdr, n, hdr')
        BY <4>1, <4>2, <4>3, <2>8 DEF Nulled, v, w
      <4>5. \A y \in Node : y # n => hdr'[y].rc = hdr[y].rc
        BY <4>1
      <4>6. hdr'[n].rc = hdr[n].rc + 1
        BY <4>2 DEF w, r
      <4> QED
        BY <4>4, <4>5, <4>6
    <3>5. /\ Len(s) = Len(stack) + 1 /\ s[Len(s)] = f /\ Len(stack') = Len(s) + 1 /\ stack'[Len(stack')] = f2
          /\ \A k \in 1..Len(stack) : s[k] = stack[k]
          /\ \A k \in 1..Len(s) : stack'[k] = s[k]
          /\ stack' \in Seq(Frame) /\ Pushed(stack, f, s) /\ Pushed(s, f2, stack')
      BY <3>3 DEF Pushed
    <3>6. Grown(stack, n, stack') /\ \E k \in 1..Len(stack') : stack'[k].fn = "free" /\ stack'[k].obj = n
      <4>1. \A k \in 1..Len(stack') : k > Len(stack) => k = Len(stack') \/ k = Len(s)
        BY <3>5, <2>5
      <4>2. Len(stack') \in 1..Len(stack') /\ Len(stack') >= Len(stack) /\ Len(s) \in 1..Len(s)
            /\ \A k \in 1..Len(stack) : k \in 1..Len(s)
        BY <3>5, <2>5
      <4> QED
        BY <4>1, <4>2, <3>2, <3>5 DEF Grown
    <3>7. RcOK(alloc, out, held, hdr', stack', bailed, Null, {})
      <4>1. ASSUME NEW y \in alloc
            PROVE  Gap(alloc, out, held, hdr', stack', Null, y) = Gap(alloc, out, held, hdr, stack, Null, y)
        <5> DEFINE a == Cardinality(Holders(stack, y))
                   a1 == Cardinality(Holders(s, y))
                   a2 == Cardinality(Holders(stack', y))
                   e == Cardinality(Edges(alloc, out, y))
                   q == One(y \in held)
                   z == One(y = Null)
                   r == hdr[y].rc
                   r2 == hdr'[y].rc
                   u == One(Holds(f, y))
        <5>1. a \in Nat /\ e \in Nat /\ q \in Nat /\ z \in Nat /\ r \in Int
          <6>1. a \in Nat /\ e \in Nat
            BY <1>2, RefsFacts
          <6>2. hdr[y] \in Hdr
            BY <1>2
          <6> QED
            BY <6>1, <6>2 DEF One, Hdr
        <5>2. a1 = a + u
          BY ONLY <3>5, <1>2, HoldersPush
        <5>3. a2 = a1 + One(Holds(f2, y))
          <6>1. s \in Seq(Frame) /\ Pushed(s, f2, stack')
            BY <3>5
          <6> QED
            BY ONLY <6>1, HoldersPush
        <5>4. One(Holds(f2, y)) = 0 /\ u \in Nat
          BY <3>2 DEF One, Holds
        <5>5. r2 = r + u
          <6>1. CASE y = n
            BY <6>1, <3>2, <3>4 DEF One, Holds
          <6>2. CASE y # n
            BY <6>2, <3>2, <3>4, <5>1, <1>2 DEF One, Holds
          <6> QED
            BY <6>1, <6>2
        <5>6. Gap(alloc, out, held, hdr', stack', Null, y) = r2 - (e + q + a2) - z
          BY DEF Gap, Refs
        <5>7. Gap(alloc, out, held, hdr, stack, Null, y) = r - (e + q + a) - z
          BY DEF Gap, Refs
        <5> HIDE DEF a, a1, a2, e, q, z, r, r2, u
        <5> QED
          BY ONLY <5>1, <5>2, <5>3, <5>4, <5>5, <5>6, <5>7
      <4>2. hdr' \in [Node -> Hdr] /\ stack' \in Seq(Frame)
        BY <3>4, <3>5 DEF Nulled
      <4>3. \A y \in alloc : /\ y \in alloc
                             /\ Gap(alloc, out, held, hdr', stack', Null, y) = Gap(alloc, out, held, hdr, stack, Null, y)
        BY <4>1
      <4> QED
        BY ONLY <4>2, <4>3, <1>2, RcMove
    <3>8. StackOK(alloc, hdr', gc, col', stack')
      <4>1. StackOK(alloc, hdr', gc, col', stack)
        BY <2>6, <3>4
      <4>2. /\ f.fn # "gc" /\ f.obj \in alloc /\ f.fn # "full" /\ f.fn # "free"
            /\ Len(stack) > 0 /\ stack[Len(stack)].fn = "gc" =>
                 /\ \/ col'.pc = "dtors" /\ f.fn = "gcdtor"
                    \/ col'.pc = "destroy" /\ f.fn \in {"gcfree", "free"}
                 /\ hdr'[f.obj].addr # 0
        BY <1>c, <1>4, <2>1, <2>5, <3>2, <3>4 DEF Nulled
      <4>3. StackOK(alloc, hdr', gc, col', s)
        <5>1. Pushed(stack, f, s)
          BY <3>5
        <5> QED
          BY ONLY <4>1, <4>2, <5>1, <1>2, PushStack
      <4>4. /\ f2.fn # "gc" /\ f2.obj \in alloc /\ f2.fn # "full"
            /\ f2.fn = "free" =>
                 /\ Dead(hdr', f2.obj) /\ Len(s) > 0
                 /\ \/ s[Len(s)].fn \in {"efree", "gcfree"} /\ s[Len(s)].obj = f2.obj
                    \/ s[Len(s)].fn = "gc" /\ f2.obj \in Arr
            /\ ~(Len(s) > 0 /\ s[Len(s)].fn = "gc")
        <5>1. f.fn = "gcfree" /\ f.obj = n /\ f2.fn = "free" /\ f2.obj = n
          BY ONLY <3>2
        <5>2. Len(s) > 0 /\ s[Len(s)] = f
          BY <3>5, <2>5
        <5>3. Dead(hdr', n)
          BY <3>4 DEF Nulled, Dead
        <5>4. n \in alloc
          BY <2>1
        <5> HIDE DEF f, f2, n
        <5> QED
          BY ONLY <5>1, <5>2, <5>3, <5>4
      <4>5. s \in Seq(Frame) /\ Pushed(s, f2, stack')
        BY <3>5
      <4> QED
        BY ONLY <4>3, <4>4, <4>5, PushStack
    <3> QED
      BY <3>4, <3>6, <3>7, <3>8
  <2>9. CASE n \notin Arr /\ hdr[n].freed
    <3>1. hdr' = [hdr EXCEPT ![n].null = TRUE] /\ stack' = stack
      BY <1>1, <1>6, <2>9
    <3>2. Nulled(hdr, n, hdr') /\ \A y \in Node : hdr'[y].rc = hdr[y].rc
      <4> DEFINE v == hdr[n]
                 w == hdr'[n]
                 t == TRUE
      <4>1. /\ v \in Hdr /\ t \in BOOLEAN /\ t /\ w = [v EXCEPT !.null = t]
            /\ \A y \in Node : y # n => hdr'[y] = hdr[y]
            /\ hdr' = [y \in Node |-> hdr'[y]]
        BY <3>1, <1>2, <2>1, Zenon
      <4> HIDE DEF v, w, t
      <4>2. /\ w \in Hdr /\ w.null = t /\ w.rc = v.rc /\ w.color = v.color /\ w.addr = v.addr
            /\ w.dtored = v.dtored /\ w.freed = v.freed
        BY ONLY <4>1 DEF Hdr
      <4>3. \A y \in Node : hdr'[y] \in Hdr
        BY <4>1, <4>2, <1>2 DEF w
      <4> QED
        BY <4>1, <4>2, <4>3, <2>9, Zenon DEF Nulled, v, w
    <3>3. Grown(stack, n, stack')
      <4>1. \A k \in 1..Len(stack) : ~(k > Len(stack))
        BY <2>5
      <4> QED
        BY <4>1, <3>1, <1>2, <2>5 DEF Grown
    <3>4. RcOK(alloc, out, held, hdr', stack', bailed, Null, {})
      <4>1. hdr' \in [Node -> Hdr]
        BY <3>2 DEF Nulled
      <4>2. \A y \in alloc : /\ y \in alloc
                             /\ Gap(alloc, out, held, hdr', stack, Null, y) = Gap(alloc, out, held, hdr, stack, Null, y)
        BY <3>2, <1>2 DEF Gap
      <4>3. RcOK(alloc, out, held, hdr', stack, bailed, Null, {})
        BY ONLY <4>1, <4>2, <1>2, RcMove
      <4> QED
        BY <4>3, <3>1
    <3>5. StackOK(alloc, hdr', gc, col', stack')
      BY <2>6, <3>1, <3>2
    <3> QED
      BY <3>2, <3>3, <3>4, <3>5, <2>9
  <2> QED
    BY <2>7, <2>8, <2>9
<1> QED
  BY <1>5, <1>6


\* What the memory of the garbage was, and the rest as it is.
Swept(al, h, G, al2, h2) ==
    /\ \A y \in Node : y \in al2 <=> y \in al /\ y \notin G
    /\ \A y \in Node : /\ y \in G => h2[y].color = "black" /\ h2[y].addr = 0 /\ ~h2[y].freed
                       /\ y \notin G => /\ h2[y].rc = h[y].rc /\ h2[y].color = h[y].color
                                        /\ h2[y].null = h[y].null /\ h2[y].dtored = h[y].dtored
                                        /\ h2[y].freed = h[y].freed
                                        /\ (h2[y].addr = 0 <=> h[y].addr = 0)
\* The garbage goes all at once: nothing that stays refers to it, and what it
\* referred to has been released.
LEMMA Sweep ==
    ASSUME NEW al, NEW o, NEW hd, NEW h, NEW g, NEW c, NEW st, NEW b, NEW rn,
           Steady(al, o, hd, h, g, c, st, b, rn, Null), c.pc = "destroy", c.idx = c.end,
           st # <<>>, st[Len(st)].fn = "gc",
           NEW al2 \in SUBSET Node, NEW h2 \in [Node -> Hdr], Swept(al, h, Gar(g), al2, h2),
           NEW g2 \in Globals, BufOK(al2, h2, g2),
           \A i \in Used(g2) : g2.buf[i].tag = "root" /\ h2[g2.buf[i].ref].color = "purple",
           NEW c2 \in Locals, c2.pc \in {"start", "finish"}, c2.todo = {}, c2.btodo = {}
    PROVE  Steady(al2, o, hd, h2, g2, c2, st, b, rn, Null)
<1> DEFINE k == Len(st)
           G == Gar(g)
<1>0. /\ Types(al, o, hd, h, g, c, st, rn) /\ RcOK(al, o, hd, h, st, b, Null, {})
      /\ Closed(al, o, hd, Null) /\ EfreeOK(al, o, hd, h, st, Null)
      /\ DeadOK(al, o, hd, h, st, G, Null) /\ GarOK(al, o, hd, h, st, G)
      /\ ApartOK(al, o, c, st, G) /\ EmptyOK(al, o, h, g, c, st, b)
      /\ StackOK(al, h, g, c, st) /\ DtorOK(al, h, G, rn) /\ ColorOK(h, g) /\ TagOK(g, c)
  BY DEF Steady
<1>1. /\ al \in SUBSET Node /\ h \in [Node -> Hdr] /\ st \in Seq(Frame) /\ Null \notin Node
      /\ o \in [Node -> SUBSET Node] /\ hd \in SUBSET Node /\ rn \in SUBSET Node
      /\ \A y \in Arr : ~h[y].freed
  BY <1>0, NullAssumption DEF Types
<1>2. k \in 1..Len(st) /\ st[k].fn = "gc" /\ \A i \in 1..Len(st) : i # k => i \in 1..(k - 1)
  BY <1>1
<1>3. /\ \A i \in 1..(k - 1) : st[i].obj \notin G
      /\ \A y \in G, m \in al : y \in o[m] => m \in G
  <2>1. InGC(st, k)
    BY <1>2 DEF InGC
  <2>2. \A i \in 1..Len(st) : ~(i > k)
    BY <1>1
  <2> QED
    BY <2>1, <2>2, <1>0 DEF ApartOK
<1> HIDE DEF k, G
<1>4. \A i \in 1..Len(st) : /\ st[i].fn = "gc" <=> i = k
                            /\ st[i].fn # "gc" => st[i].obj \in al /\ st[i].obj \notin G /\ st[i].obj \in Node
  BY <1>0, <1>1, <1>2, <1>3 DEF StackOK
<1>5. \A y \in al2 : /\ y \in al /\ y \in Node /\ y \notin G /\ h2[y].rc = h[y].rc /\ h2[y].color = h[y].color
                     /\ h2[y].null = h[y].null /\ h2[y].dtored = h[y].dtored
                     /\ h2[y].freed = h[y].freed /\ (h2[y].addr = 0 <=> h[y].addr = 0)
                     /\ (Dead(h2, y) <=> Dead(h, y))
  BY DEF Swept, Dead, G
<1>6. \A y \in al : y \notin G => y \in al2
  BY <1>1 DEF Swept, G
<1>7. Gar(g2) = {}
  BY DEF Gar, Tagged
<1>8. \A y \in al2 : Lone(al, o, hd, st, Null, y) => Lone(al2, o, hd, st, Null, y)
  BY <1>5 DEF Lone
<1>9. Types(al2, o, hd, h2, g2, c2, st, rn)
  <2>1. \A y \in Arr : ~h2[y].freed
    BY <1>1, KindAssumption DEF Swept, G
  <2> QED
    BY <2>1, <1>1 DEF Types
<1>10. StackOK(al2, h2, g2, c2, st)
  <2>1. \A i \in 1..Len(st) :
         /\ st[i].fn # "gc" => st[i].obj \in al2
         /\ st[i].fn = "gc" => st[i].obj = Null
         /\ st[i].fn = "free" => /\ Dead(h2, st[i].obj) /\ i > 1
                                 /\ \/ /\ st[i - 1].fn \in {"efree", "gcfree"}
                                       /\ st[i - 1].obj = st[i].obj
                                    \/ st[i - 1].fn = "gc" /\ st[i].obj \in Arr
    <3> SUFFICES ASSUME NEW i \in 1..Len(st)
                 PROVE /\ st[i].fn # "gc" => st[i].obj \in al2
                       /\ st[i].fn = "gc" => st[i].obj = Null
                       /\ st[i].fn = "free" => /\ Dead(h2, st[i].obj) /\ i > 1
                                               /\ \/ /\ st[i - 1].fn \in {"efree", "gcfree"}
                                                     /\ st[i - 1].obj = st[i].obj
                                                  \/ st[i - 1].fn = "gc" /\ st[i].obj \in Arr
      OBVIOUS
    <3>1. /\ st[i].fn = "gc" => st[i].obj = Null
          /\ st[i].fn = "free" => /\ Dead(h, st[i].obj) /\ i > 1
                                  /\ \/ /\ st[i - 1].fn \in {"efree", "gcfree"}
                                        /\ st[i - 1].obj = st[i].obj
                                     \/ st[i - 1].fn = "gc" /\ st[i].obj \in Arr
      BY <1>0 DEF StackOK
    <3>2. st[i].fn # "gc" => st[i].obj \in al2
      BY <1>4, <1>6
    <3>3. st[i].fn = "free" => Dead(h2, st[i].obj)
      BY <3>1, <3>2, <1>5
    <3> QED
      BY <3>1, <3>2, <3>3
  <2>2. /\ \A i, j \in 1..Len(st) : st[i].fn = "gc" /\ st[j].fn = "gc" => i = j
        /\ \A i, j \in 1..Len(st) : st[i].fn = "gc" /\ st[j].fn = "full" => j < i
    BY <1>0 DEF StackOK
  <2>3. (\E i \in 1..Len(st) : st[i].fn = "gc") <=> c2.pc # "idle"
    BY <1>2
  <2>4. \A i \in 1..Len(st) : ~(st[i].fn = "gc" /\ i < Len(st))
    BY <1>2, <1>4 DEF k
  <2> QED
    BY <2>1, <2>2, <2>3, <2>4 DEF StackOK
<1>11. RcOK(al2, o, hd, h2, st, b, Null, {})
  <2>1. /\ \A y \in al : /\ h[y].rc >= Refs(al, o, hd, st, y) + One(y = Null)
                         /\ ~b => h[y].rc = Refs(al, o, hd, st, y) + One(y = Null)
    BY <1>0, <1>1, RcPlain
  <2>2. ~b => \A m \in G : o[m] = {}
    <3> SUFFICES ASSUME ~b, NEW m \in G PROVE o[m] = {}
      OBVIOUS
    <3>1. PICK i \in Used(g) : g.buf[i].tag = "garbage" /\ g.buf[i].ref = m
      BY DEF G, Gar, Tagged
    <3>2. i < c.idx
      BY <3>1, <1>0 DEF TagOK
    <3>3. o[m] = {} \/ \E j \in 1..Len(st) : st[j].fn = "free" /\ st[j].obj = m
      BY <3>1, <3>2, <1>0 DEF EmptyOK
    <3> QED
      BY <3>3, <1>4
  <2>3. ASSUME NEW y \in al2
        PROVE  /\ h2[y].rc >= Refs(al2, o, hd, st, y) + One(y = Null)
               /\ ~b => h2[y].rc = Refs(al2, o, hd, st, y) + One(y = Null)
    <3> DEFINE E == Edges(al, o, y)
               E2 == Edges(al2, o, y)
               s == One(y \in hd)
               t == Cardinality(Holders(st, y))
               z == One(y = Null)
               e == Cardinality(E)
               e2 == Cardinality(E2)
               q == h[y].rc
    <3>1. IsFiniteSet(E) /\ e \in Nat /\ e2 \in Nat /\ t \in Nat
      BY <1>1, RefsFacts
    <3>2. E2 \subseteq E /\ (~b => E2 = E)
      BY <2>2, <1>1, <1>5, <1>6 DEF Edges
    <3>3. e2 <= e /\ (~b => e2 = e)
      BY <3>1, <3>2, FS_Subset
    <3>4. q >= e + s + t + z /\ (~b => q = e + s + t + z)
      BY <2>1, <1>5 DEF Refs
    <3>5. s \in Nat /\ z \in Nat /\ q \in Int
      BY <1>1, <1>5 DEF One, Hdr
    <3> HIDE DEF E, E2, s, t, z, e, e2, q
    <3>6. q >= e2 + s + t + z /\ (~b => q = e2 + s + t + z)
      BY ONLY <3>1, <3>3, <3>4, <3>5
    <3> QED
      BY <3>6, <1>5 DEF Refs, s, t, z, e2, E2, q
  <2> QED
    BY ONLY <2>3, <1>1, RcPlain, h2 \in [Node -> Hdr], al2 \in SUBSET Node
<1>12. Closed(al2, o, hd, Null)
  <2>1. hd \subseteq al2
    BY <1>0, <1>6 DEF Closed, GarOK
  <2>2. \A m \in al2 : o[m] \subseteq al2
    BY <1>0, <1>3, <1>5, <1>6 DEF Closed
  <2> QED
    BY <2>1, <2>2 DEF Closed
<1>13. EfreeOK(al2, o, hd, h2, st, Null)
  <2> SUFFICES ASSUME NEW i \in 1..Len(st), st[i].fn = "efree"
               PROVE  LET y == st[i].obj
                      IN  /\ Dead(h2, y) /\ Lone(al2, o, hd, st, Null, y)
                          /\ \A j \in 1..Len(st) : st[j].obj = y =>
                                j = i \/ (j = i + 1 /\ st[j].fn = "free")
                          /\ o[y] = {} \/ (i + 1 \in 1..Len(st) /\ st[i + 1].fn = "free")
                          /\ y \in Arr => h2[y].addr = 0
    BY DEF EfreeOK
  <2> DEFINE y == st[i].obj
  <2>1. y \in al2
    BY <1>4, <1>6
  <2>2. /\ Dead(h, y) /\ Lone(al, o, hd, st, Null, y)
        /\ \A j \in 1..Len(st) : st[j].obj = y => j = i \/ (j = i + 1 /\ st[j].fn = "free")
        /\ o[y] = {} \/ (i + 1 \in 1..Len(st) /\ st[i + 1].fn = "free")
        /\ y \in Arr => h[y].addr = 0
    BY <1>0 DEF EfreeOK
  <2> HIDE DEF y
  <2>3. Dead(h2, y) /\ Lone(al2, o, hd, st, Null, y) /\ (y \in Arr => h2[y].addr = 0)
    BY <2>1, <2>2, <1>5, <1>8
  <2> QED
    BY <2>2, <2>3 DEF y
<1>14. DeadOK(al2, o, hd, h2, st, Gar(g2), Null)
  BY <1>0, <1>5, <1>8 DEF DeadOK
<1>15. GarOK(al2, o, hd, h2, st, Gar(g2)) /\ ApartOK(al2, o, c2, st, Gar(g2))
  BY <1>7 DEF GarOK, ApartOK
<1>16. EmptyOK(al2, o, h2, g2, c2, st, b)
  <2> SUFFICES ASSUME ~b, NEW y \in al2, Dead(h2, y)
               PROVE  \E j \in 1..Len(st) : st[j].fn = "efree" /\ st[j].obj = y
    BY DEF EmptyOK
  <2>1. y \in al /\ Dead(h, y) /\ y \notin G
    BY <1>5
  <2>2. \A i \in Used(g) : g.buf[i].tag = "garbage" => g.buf[i].ref \in G
    BY DEF G, Gar, Tagged
  <2> QED
    BY <2>1, <2>2, <1>0 DEF EmptyOK
<1>17. DtorOK(al2, h2, Gar(g2), rn)
  BY <1>0, <1>5, <1>7 DEF DtorOK
<1>18. ColorOK(h2, g2)
  <2>1. \A y \in Node : h2[y].color \in {"black", "purple"} /\ (h2[y].addr = 0 => h2[y].color = "black")
    BY <1>0 DEF ColorOK, Swept, G
  <2> QED
    BY <2>1 DEF ColorOK
<1>19. TagOK(g2, c2)
  BY DEF TagOK
<1> QED
  BY ONLY <1>9, <1>10, <1>11, <1>12, <1>13, <1>14, <1>15, <1>16, <1>17, <1>18, <1>19, BufOK(al2, h2, g2) DEF Steady


\* The end of a run of the collector.
LEMMA FreeGarbageCalm ==
    ASSUME Calm, FreeGarbage PROVE Calm' /\ Swept(alloc, hdr, Gar(gc), alloc', hdr')
<1> DEFINE dead == { i \in Used(gc) \intersect 1..(col.end - 1) : gc.buf[i].tag = "garbage" }
           refs == { gc.buf[i].ref : i \in dead }
           h == [n \in Node |-> IF n \in refs THEN FreshHdr ELSE hdr[n]]
           g == [gc EXCEPT !.num_roots = @ - Cardinality(dead), !.active = FALSE,
                    !.buf = [i \in DOMAIN @ |-> IF i \in dead
                               THEN [Raw EXCEPT !.tag = "unused"] ELSE @[i]]]
           r == gc_compact(h, g)
           again == col.rerun /\ ~col.did
           p == IF again /\ r.gc.num_roots # 0 THEN "start" ELSE "finish"
<1>0. Steady(alloc, out, held, hdr, gc, col, stack, bailed, ran, Null)
  BY DEF Calm
<1>1. /\ hdr' = r.hdr /\ gc' = r.gc /\ alloc' = alloc \ refs
      /\ col' = [GoTo(p, 0) EXCEPT !.total = @ + col.count, !.did = @ \/ again]
      /\ out' = out /\ held' = held /\ stack' = stack /\ bailed' = bailed /\ ran' = ran
  BY Zenon DEF FreeGarbage
<1>2. stack # <<>> /\ stack[Len(stack)].fn = "gc" /\ col.pc = "destroy" /\ col.idx = col.end
  BY AtFacts, Zenon DEF FreeGarbage
<1>3. /\ alloc \in SUBSET Node /\ hdr \in [Node -> Hdr] /\ gc \in Globals /\ col \in Locals
      /\ BufOK(alloc, hdr, gc) /\ Entries(alloc, hdr, gc) /\ ColorOK(hdr, gc) /\ TagOK(gc, col)
  BY <1>0 DEF Steady, Types, BufOK
<1>4. /\ \A i \in Used(gc) : i \in Nat /\ i >= 1 /\ gc.buf[i].ref \in Node /\ gc.buf[i].ref \in alloc
                               /\ gc.buf[i].tag \in {"root", "garbage"}
                               /\ (gc.buf[i].tag = "garbage" => i < col.end)
      /\ \A i, j \in Used(gc) : gc.buf[i].ref = gc.buf[j].ref => i = j
      /\ IsFiniteSet(Used(gc)) /\ col.end \in Nat
  <2>1. \A i \in Used(gc) : gc.buf[i].tag # "dtor" /\ (gc.buf[i].tag = "garbage" => i < col.end)
    BY <1>2, <1>3 DEF TagOK
  <2>2. \A i \in Used(gc) : gc.buf[i].ref \in alloc /\ gc.buf[i].tag \in {"root", "garbage", "dtor"}
    BY <1>3 DEF Entries
  <2>3. \A i, j \in Used(gc) : gc.buf[i].ref = gc.buf[j].ref => i = j
    BY <1>3 DEF Entries
  <2>4. /\ gc.first_unused \in Nat /\ Used(gc) \in SUBSET (1..(gc.first_unused - 1)) /\ IsFiniteSet(Used(gc))
    BY <1>3, UsedFacts
  <2>5. \A i \in Used(gc) : i \in Nat /\ i >= 1
    BY <2>4
  <2>6. col.end \in Nat
    BY <1>3 DEF Locals
  <2> QED
    BY <2>1, <2>2, <2>3, <2>4, <2>5, <2>6, <1>3
<1>5. \A i : i \in dead <=> i \in Used(gc) /\ gc.buf[i].tag = "garbage"
  BY <1>4
<1>6. \A y : y \in refs <=> \E i \in dead : gc.buf[i].ref = y
  OBVIOUS
<1>7. refs = Gar(gc) /\ refs \subseteq Node
  BY <1>4, <1>5, <1>6 DEF Gar, Tagged
<1>8. dead \subseteq Used(gc) /\ IsFiniteSet(dead) /\ Cardinality(dead) \in Nat
  BY <1>4, <1>5, FS_Subset, FS_CardinalityType
<1>9. Holed(gc, dead, FALSE, gc.num_roots - Cardinality(dead), g)
  <2> DEFINE q == gc.num_roots - Cardinality(dead)
             a == FALSE
  <2>1. a \in BOOLEAN /\ q \in Int
    BY <1>3, <1>8 DEF Globals
  <2>2. g = WithHoles(gc, dead, a, q)
    BY DEF WithHoles, Hole
  <2> HIDE DEF g, dead, q, a
  <2>3. Holed(gc, dead, a, q, g)
    BY ONLY <2>1, <2>2, <1>3, HolesFacts
  <2> QED
    BY <2>3 DEF a, q
<1>10. /\ h \in [Node -> Hdr] /\ \A y \in Node : (y \in refs => h[y] = FreshHdr) /\ (y \notin refs => h[y] = hdr[y])
  <2>1. \A y \in Node : (y \in refs => h[y] = FreshHdr) /\ (y \notin refs => h[y] = hdr[y])
    OBVIOUS
  <2>2. h = [y \in Node |-> h[y]] /\ FreshHdr \in Hdr
    BY FreshFacts
  <2> HIDE DEF h, refs
  <2>3. \A y \in Node : h[y] \in Hdr
    BY ONLY <2>1, <2>2, <1>3
  <2> QED
    BY ONLY <2>1, <2>2, <2>3
<1>11. p \in {"start", "finish"}
  OBVIOUS
<1>12. /\ col' \in Locals /\ col'.pc = p /\ col'.todo = {} /\ col'.btodo = {}
  <2> DEFINE c == GoTo(p, 0)
             t == c.total + col.count
             d == c.did \/ again
             z == 0
  <2>1. c \in Locals /\ c.pc = p /\ c.todo = {} /\ c.btodo = {}
    <3>1. p \in Pcs /\ z \in Nat /\ col.todo = {} /\ col.btodo = {}
      BY <1>3, <1>11 DEF Pcs, TagOK
    <3>2. col \in Locals /\ c = GoTo(p, z)
      BY <1>3
    <3> HIDE DEF p, c, z
    <3> QED
      BY <3>1, <3>2, GoToFacts
  <2>2. col' = [c EXCEPT !.total = t, !.did = d]
    BY <1>1, Zenon
  <2>a. again \in BOOLEAN /\ col.count \in Int
    BY <1>3 DEF Locals
  <2> HIDE DEF c, p, again
  <2>b. c.total \in Int /\ c.did \in BOOLEAN
    BY ONLY <2>1 DEF Locals
  <2>3. t \in Int /\ d \in BOOLEAN
    BY ONLY <2>a, <2>b
  <2> HIDE DEF t, d
  <2>4. col' \in Locals /\ col'.pc = c.pc /\ col'.todo = c.todo /\ col'.btodo = c.btodo
    BY ONLY <2>1, <2>2, <2>3 DEF Locals
  <2> QED
    BY ONLY <2>1, <2>4
<1>13. alloc' \in SUBSET Node /\ \A y \in Node : y \in alloc' <=> y \in alloc /\ y \notin refs
  BY <1>1, <1>3, Zenon
<1> HIDE DEF dead, refs, h, g, r, p, again
<1>14. /\ g \in Globals /\ g.num_roots = gc.num_roots - Cardinality(dead) /\ ~g.active
       /\ g.first_unused = gc.first_unused /\ g.unused = gc.unused /\ g.buf_size = gc.buf_size
       /\ g.threshold = gc.threshold
       /\ \A i \in 1..(MaxBufSize - 1) : /\ i \in dead => g.buf[i] = Hole
                                         /\ i \notin dead => g.buf[i] = gc.buf[i]
  BY <1>9 DEF Holed
<1>15. Dropped(hdr, gc, dead, alloc', h, g)
  <2>1. \A y \in Node : hdr[y].addr # 0 => y \in alloc
    BY <1>3 DEF Entries
  <2>2. Hole.tag = "unused" /\ Hole.ref = Null /\ FreshHdr.addr = 0
    BY HoleFacts, FreshFacts
  <2>3. \A i \in dead : gc.buf[i].ref \in Node
    BY <1>4, <1>8
  <2>4. \A i \in dead : h[gc.buf[i].ref].addr = 0
    BY <2>2, <2>3, <1>6, <1>10
  <2>5. \A y \in Node : (\A i \in dead : gc.buf[i].ref # y) =>
             h[y].addr = hdr[y].addr /\ (hdr[y].addr # 0 => y \in alloc')
    BY <2>1, <1>6, <1>10, <1>13
  <2> QED
    BY ONLY <2>2, <2>4, <2>5, <1>8, <1>14 DEF Dropped
<1>16. Entries(alloc', h, g) /\ (UnusedAt(g) = {} => g.unused = 0) /\ Used(g) = Used(gc) \ dead
  <2>1. h \in [Node -> Hdr] /\ g \in Globals /\ alloc' \in SUBSET Node
    BY <1>10, <1>13, <1>14
  <2> QED
    BY ONLY <2>1, <1>3, <1>15, DropEntries
<1>17. Compacted(alloc', h, g, r)
  <2>1. h \in [Node -> Hdr] /\ g \in Globals /\ r = gc_compact(h, g) /\ alloc' \in SUBSET Node
    BY <1>10, <1>13, <1>14 DEF r
  <2> QED
    BY ONLY <2>1, <1>16, CompactFacts
<1>18. /\ gc' \in Globals /\ hdr' \in [Node -> Hdr] /\ BufOK(alloc', hdr', gc')
       /\ SameBut(h, hdr') /\ Moved(g, gc')
  BY <1>1, <1>17 DEF Compacted
<1>19. Swept(alloc, hdr, Gar(gc), alloc', hdr')
  <2>1. \A y \in Node : /\ y \in refs => hdr'[y].color = "black" /\ hdr'[y].addr = 0 /\ ~hdr'[y].freed
                        /\ y \notin refs => /\ hdr'[y].rc = hdr[y].rc /\ hdr'[y].color = hdr[y].color
                                            /\ hdr'[y].null = hdr[y].null /\ hdr'[y].dtored = hdr[y].dtored
                                            /\ hdr'[y].freed = hdr[y].freed
                                            /\ (hdr'[y].addr = 0 <=> hdr[y].addr = 0)
    <3> SUFFICES ASSUME NEW y \in Node
                 PROVE  /\ y \in refs => hdr'[y].color = "black" /\ hdr'[y].addr = 0 /\ ~hdr'[y].freed
                        /\ y \notin refs => /\ hdr'[y].rc = hdr[y].rc /\ hdr'[y].color = hdr[y].color
                                            /\ hdr'[y].null = hdr[y].null /\ hdr'[y].dtored = hdr[y].dtored
                                            /\ hdr'[y].freed = hdr[y].freed
                                            /\ (hdr'[y].addr = 0 <=> hdr[y].addr = 0)
      OBVIOUS
    <3>1. /\ hdr'[y].rc = h[y].rc /\ hdr'[y].color = h[y].color
          /\ hdr'[y].null = h[y].null /\ hdr'[y].dtored = h[y].dtored
          /\ hdr'[y].freed = h[y].freed /\ (hdr'[y].addr = 0 <=> h[y].addr = 0)
      BY <1>18 DEF SameBut
    <3> QED
      BY ONLY <3>1, <1>10, FreshFacts
  <2> QED
    BY ONLY <2>1, <1>7, <1>13 DEF Swept
<1>20. \A i \in Used(gc') : gc'.buf[i].tag = "root" /\ hdr'[gc'.buf[i].ref].color = "purple"
  <2> SUFFICES ASSUME NEW i \in Used(gc') PROVE gc'.buf[i].tag = "root" /\ hdr'[gc'.buf[i].ref].color = "purple"
    OBVIOUS
  <2>1. PICK j \in Used(g) : gc'.buf[i] = g.buf[j]
    BY <1>18 DEF Moved
  <2>2. j \in Used(gc) /\ j \notin dead /\ j \in 1..(MaxBufSize - 1)
    <3>1. j \in Used(gc) /\ j \notin dead
      BY <1>16
    <3>2. Used(gc) \in SUBSET (1..(gc.first_unused - 1)) /\ \A q \in 1..(gc.first_unused - 1) : q \in 1..(MaxBufSize - 1)
      BY <1>3, UsedFacts
    <3> QED
      BY <3>1, <3>2
  <2>3. g.buf[j] = gc.buf[j]
    BY <2>2, <1>14
  <2>4. gc.buf[j].tag = "root" /\ gc.buf[j].ref \in Node
    BY <2>2, <1>4, <1>5
  <2>5. gc.buf[j].ref \notin refs
    BY <2>2, <1>4, <1>6, <1>8
  <2>6. hdr[gc.buf[j].ref].color = "purple"
    BY <2>2, <2>4, <1>3 DEF ColorOK
  <2>7. hdr'[gc.buf[j].ref].color = "purple"
    BY <2>4, <2>5, <2>6, <1>7, <1>19 DEF Swept
  <2> QED
    BY <2>1, <2>3, <2>4, <2>7
<1>21. col'.pc \in {"start", "finish"} /\ alloc' \in SUBSET Node
  BY <1>11, <1>12, <1>13
<1>22. Steady(alloc', out, held, hdr', gc', col', stack, bailed, ran, Null)
  BY ONLY <1>0, <1>2, <1>12, <1>18, <1>19, <1>20, <1>21, Sweep
<1> QED
  BY <1>1, <1>19, <1>21, <1>22 DEF Calm, SteadyPcs


-----------------------------------------------------------------------------
(* The invariant holds.                                                    *)

\* Until the buffer overflows, the collector is between its traversals or in
\* one of them, and the matching part of the invariant holds.
GInv == \/ Over(gc) \/ Calm \/ Marks \/ Scans \/ Gathers \/ Prepares \/ Nests

\* The initial state is between traversals.
LEMMA InitCalm == ASSUME Init PROVE Calm
<1>1. /\ alloc = {} /\ out = [n \in Node |-> {}] /\ held = {}
      /\ hdr = [n \in Node |-> FreshHdr] /\ col = Idle /\ stack = <<>> /\ ran = {}
  BY DEF Init
<1>2. /\ alloc \in SUBSET Node /\ held \in SUBSET Node /\ ran \in SUBSET Node
      /\ out \in [Node -> SUBSET Node] /\ stack \in Seq(Frame) /\ Len(stack) = 0
  BY <1>1
<1>3. /\ hdr \in [Node -> Hdr]
      /\ \A n \in Node : hdr[n].addr = 0 /\ hdr[n].color = "black" /\ ~hdr[n].freed /\ ~Dead(hdr, n)
  <2> DEFINE f == FreshHdr
  <2>1. hdr = [n \in Node |-> f]
    BY <1>1
  <2>2. f \in Hdr /\ f.addr = 0 /\ f.color = "black" /\ ~f.freed /\ ~f.null
    BY FreshFacts
  <2> HIDE DEF f
  <2> QED
    BY ONLY <2>1, <2>2 DEF Dead
<1>4. /\ gc \in Globals /\ gc.unused = 0 /\ gc.first_unused = 1 /\ gc.num_roots = 0
      /\ gc.buf_size = DefaultBufSize /\ gc.threshold = ThresholdDefault
      /\ ~gc.active /\ \A i \in 1..(MaxBufSize - 1) : gc.buf[i].ref = Null
  <2> DEFINE bf == [i \in 1..(MaxBufSize - 1) |-> Raw]
             d == DefaultBufSize
             t == ThresholdDefault
             T == TRUE
             F == FALSE
  <2>1. gc = [buf |-> bf, unused |-> 0, first_unused |-> 1, num_roots |-> 0,
              buf_size |-> d, threshold |-> t,
              enabled |-> T, active |-> F, protected |-> F, full |-> F]
    BY DEF Init
  <2>2. bf \in [1..(MaxBufSize - 1) -> Slots] /\ \A i \in 1..(MaxBufSize - 1) : bf[i].ref = Null
    <3>1. Raw \in Slots /\ Raw.ref = Null
      BY DEF Raw, Slots, Tags
    <3> QED
      BY <3>1
  <2>3. d \in Nat /\ t \in Nat /\ T \in BOOLEAN /\ F \in BOOLEAN /\ ~F
    BY BufferAssumption
  <2> HIDE DEF bf, d, t, T, F
  <2>4. /\ gc \in Globals /\ gc.buf = bf /\ gc.unused = 0 /\ gc.first_unused = 1 /\ gc.num_roots = 0
        /\ gc.buf_size = d /\ gc.threshold = t /\ gc.active = F
    BY ONLY <2>1, <2>2, <2>3 DEF Globals
  <2> QED
    BY <2>2, <2>3, <2>4 DEF d, t
<1>5. Used(gc) = {} /\ UnusedAt(gc) = {} /\ Gar(gc) = {}
  <2>1. 1..(gc.first_unused - 1) = {}
    BY <1>4
  <2> QED
    BY <2>1 DEF Used, UnusedAt, Gar, Tagged
<1>6. col \in Locals /\ col.pc = "idle" /\ col.todo = {} /\ col.btodo = {}
  BY <1>1, IdleFacts
<1>7. Types(alloc, out, held, hdr, gc, col, stack, ran)
  BY <1>2, <1>3, <1>4, <1>6, KindAssumption DEF Types
<1>8. BufOK(alloc, hdr, gc)
  <2>1. Entries(alloc, hdr, gc)
    <3>1. gc.first_unused \in 1..gc.buf_size /\ gc.buf_size \in 2..MaxBufSize /\ gc.threshold <= gc.buf_size
      BY <1>4, BufferAssumption
    <3>2. gc.num_roots = Cardinality(Used(gc))
      BY <1>4, <1>5, FS_EmptySet
    <3> QED
      BY <3>1, <3>2, <1>3, <1>4, <1>5 DEF Entries
  <2>2. Listed(gc)
    BY <1>4, <1>5 DEF Listed
  <2> QED
    BY <2>1, <2>2 DEF BufOK
<1>9. StackOK(alloc, hdr, gc, col, stack) /\ EfreeOK(alloc, out, held, hdr, stack, Null)
  BY <1>2, <1>6 DEF StackOK, EfreeOK
<1>10. /\ RcOK(alloc, out, held, hdr, stack, bailed, Null, {}) /\ Closed(alloc, out, held, Null)
       /\ DeadOK(alloc, out, held, hdr, stack, Gar(gc), Null) /\ DtorOK(alloc, hdr, Gar(gc), ran)
  BY <1>1 DEF RcOK, Closed, DeadOK, DtorOK
<1>11. /\ GarOK(alloc, out, held, hdr, stack, Gar(gc)) /\ ApartOK(alloc, out, col, stack, Gar(gc))
  BY <1>5 DEF GarOK, ApartOK
<1>12. EmptyOK(alloc, out, hdr, gc, col, stack, bailed)
  BY <1>1, <1>5 DEF EmptyOK
<1>13. ColorOK(hdr, gc) /\ TagOK(gc, col)
  BY <1>3, <1>5, <1>6 DEF ColorOK, TagOK
<1> QED
  BY <1>6, <1>7, <1>8, <1>9, <1>10, <1>11, <1>12, <1>13 DEF Calm, Steady, SteadyPcs

\* The actions of the collector, by the point it is at.
LEMMA CollectingAt ==
    ASSUME Collecting
    PROVE  \/ col.pc = "start" /\ Start
           \/ col.pc = "mark" /\ (MarkRoot \/ MarkDone \/ \E n \in Node : gc_mark_grey(n))
           \/ col.pc = "scan" /\ (ScanRoot \/ ScanDone \/ \E n \in Node : gc_scan(n) \/ gc_scan_black(n))
           \/ col.pc = "collect" /\ (CollectRoot \/ CollectDone \/ \E n \in Node : gc_collect_white(n))
           \/ col.pc = "prepare" /\ DtorPrepare
           \/ col.pc = "nested" /\ (\/ NestedRoot \/ NestedDone
                                    \/ \E n \in Node : gc_remove_nested_data_from_buffer(n))
           \/ col.pc = "dtors" /\ (DtorStep \/ DtorsDone)
           \/ col.pc = "destroy" /\ (DestroyStep \/ FreeGarbage)
           \/ col.pc = "finish" /\ Finish
<1>0. ASSUME NEW p, At(p) PROVE col.pc = p
  BY <1>0 DEF At
<1>1. /\ (Start => col.pc = "start") /\ (MarkRoot \/ MarkDone => col.pc = "mark")
      /\ \A n \in Node : gc_mark_grey(n) => col.pc = "mark"
  BY <1>0 DEF Start, MarkRoot, MarkDone, gc_mark_grey
<1>2. /\ ScanRoot \/ ScanDone => col.pc = "scan"
      /\ \A n \in Node : gc_scan(n) \/ gc_scan_black(n) => col.pc = "scan"
  BY <1>0, Zenon DEF ScanRoot, ScanDone, gc_scan, gc_scan_black
<1>3. /\ CollectRoot \/ CollectDone => col.pc = "collect"
      /\ \A n \in Node : gc_collect_white(n) => col.pc = "collect"
  BY <1>0, Zenon DEF CollectRoot, CollectDone, gc_collect_white
<1>4. /\ (DtorPrepare => col.pc = "prepare") /\ (NestedRoot \/ NestedDone => col.pc = "nested")
      /\ \A n \in Node : gc_remove_nested_data_from_buffer(n) => col.pc = "nested"
  BY <1>0, Zenon DEF DtorPrepare, NestedRoot, NestedDone, gc_remove_nested_data_from_buffer
<1>5. /\ (DtorStep \/ DtorsDone => col.pc = "dtors") /\ (DestroyStep \/ FreeGarbage => col.pc = "destroy")
      /\ Finish => col.pc = "finish"
  BY <1>0, Zenon DEF DtorStep, DtorsDone, DestroyStep, FreeGarbage, Finish
<1> QED
  BY <1>1, <1>2, <1>3, <1>4, <1>5 DEF Collecting

\* While the collector itself runs, nothing else does.
LEMMA TopCollects ==
    ASSUME stack # <<>>, stack[Len(stack)].fn = "gc", Next
    PROVE  Collecting
<1>1. ~Running("dtor") /\ ~Running("del") /\ ~Running("free") /\ ~Running("efree")
      /\ ~Running("gcdtor") /\ ~Running("gcfree") /\ ~Running("full") /\ ~ProgramRuns
  BY DEF Running, ProgramRuns
<1>2. ~Program
  BY <1>1 DEF Program, New, Take, DropVariable, SetElement, UnsetElement, gc_enable,
              ZEND_FUNCTION_gc_collect_cycles, _zend_bailout
<1>3. ~DestructorReturns
  BY <1>1 DEF DestructorReturns
<1>4. ~Freeing
  BY <1>1 DEF Freeing, DelResumes, FreeDone, Efree, CollectorResumes, WhenFullResumes, FreeChild
<1> QED
  BY <1>2, <1>3, <1>4 DEF Next

\* The steps out of each of the parts of the invariant.
LEMMA CalmStep == ASSUME Calm, Next, ~gc.full, ~gc'.full PROVE Calm' \/ Marks'
<1>0. col.pc \in SteadyPcs
  BY DEF Calm
<1>1. CASE Program
  <2>1. ASSUME NEW n \in Node, New(n) \/ Take(n) \/ DropVariable(n) PROVE Calm'
    BY <2>1, NewCalm, TakeCalm, DropVariableCalm
  <2>2. ASSUME NEW m \in Node, NEW n \in Node, SetElement(m, n) \/ UnsetElement(m, n) PROVE Calm'
    BY <2>2, SetElementCalm, UnsetElementCalm
  <2>3. ASSUME NEW on \in BOOLEAN, gc_enable(on) PROVE Calm'
    BY <2>3, EnableCalm
  <2>4. ASSUME ZEND_FUNCTION_gc_collect_cycles \/ _zend_bailout PROVE Calm'
    BY <2>4, CollectCalm, BailoutCalm
  <2> QED
    BY <1>1, <2>1, <2>2, <2>3, <2>4 DEF Program
<1>2. CASE DestructorReturns
  BY <1>2, DestructorReturnsCalm
<1>3. CASE Freeing
  <2>1. ASSUME NEW n \in Node, FreeChild(n) PROVE Calm'
    BY <2>1, FreeChildCalm
  <2> QED
    BY <1>3, <2>1, DelResumesCalm, FreeDoneCalm, EfreeCalm, CollectorResumesCalm,
       WhenFullResumesCalm DEF Freeing
<1>4. CASE Collecting
  <2>1. \/ Start \/ DtorStep \/ DtorsDone \/ DestroyStep \/ FreeGarbage \/ Finish
    BY <1>0, <1>4, CollectingAt DEF SteadyPcs
  <2> QED
    BY <2>1, StartMarks, DtorStepCalm, DtorsDoneCalm, DestroyStepCalm, FreeGarbageCalm, FinishCalm
<1> QED
  BY <1>1, <1>2, <1>3, <1>4 DEF Next

\* While marking, the collector marks or begins to scan.
LEMMA MarksStep == ASSUME Marks, Next PROVE Marks' \/ Scans'
<1>1. stack # <<>> /\ stack[Len(stack)].fn = "gc" /\ col.pc = "mark"
  BY DEF Marks, Marking, Base
<1>2. MarkRoot \/ MarkDone \/ \E n \in Node : gc_mark_grey(n)
  BY <1>1, TopCollects, CollectingAt
<1> QED
  BY <1>2, MarkRootMarks, MarkDoneScans, MarkGreyMarks

\* While scanning, the collector scans or begins to gather.
LEMMA ScansStep == ASSUME Scans, Next PROVE Scans' \/ Gathers'
<1>1. stack # <<>> /\ stack[Len(stack)].fn = "gc" /\ col.pc = "scan"
  BY DEF Scans, Scanning, Base
<1>2. ScanRoot \/ ScanDone \/ \E n \in Node : gc_scan(n) \/ gc_scan_black(n)
  BY <1>1, TopCollects, CollectingAt
<1> QED
  BY <1>2, ScanRootScans, ScanDoneGathers, ScanScans, ScanBlackScans

\* While gathering, the collector gathers, or it has what it destroys.
LEMMA GathersStep ==
    ASSUME Gathers, Next, ~gc.full, ~gc'.full PROVE Gathers' \/ Prepares' \/ Calm'
<1>1. stack # <<>> /\ stack[Len(stack)].fn = "gc" /\ col.pc = "collect"
  BY DEF Gathers, Gathering, Base
<1>2. CollectRoot \/ CollectDone \/ \E n \in Node : gc_collect_white(n)
  BY <1>1, TopCollects, CollectingAt
<1> QED
  BY <1>2, CollectRootGathers, CollectDoneOK, CollectWhiteGathers

\* The objects with a destructor are tagged in one step.
LEMMA PreparesStep == ASSUME Prepares, Next PROVE Nests'
<1>1. stack # <<>> /\ stack[Len(stack)].fn = "gc" /\ col.pc = "prepare"
  BY DEF Prepares, Preparing, Base
<1>2. DtorPrepare
  BY <1>1, TopCollects, CollectingAt
<1> QED
  BY <1>2, DtorPrepareNests

\* What they reach is taken out of the buffer; then they are called.
LEMMA NestsStep == ASSUME Nests, Next PROVE Nests' \/ Calm'
<1>1. stack # <<>> /\ stack[Len(stack)].fn = "gc" /\ col.pc = "nested"
  BY DEF Nests, Nesting, Base
<1>2. NestedRoot \/ NestedDone \/ \E n \in Node : gc_remove_nested_data_from_buffer(n)
  BY <1>1, TopCollects, CollectingAt
<1> QED
  BY <1>2, NestedRootNests, NestedDoneCalm, NestedDataNests

\* The invariant gives the types, in whichever part it is.
LEMMA InvTypes ==
    ASSUME GInv, ~Over(gc)
    PROVE  Types(alloc, out, held, hdr, gc, col, stack, ran)
BY DEF GInv, Calm, Marks, Scans, Gathers, Prepares, Nests, Steady, Marking, Scanning,
       Gathering, Preparing, Nesting, Base

\* Every step keeps the invariant.
LEMMA InvStep == ASSUME GInv, [Next]_vars PROVE GInv'
<1>1. CASE UNCHANGED vars
  BY <1>1 DEF GInv, Calm, Marks, Scans, Gathers, Prepares, Nests, vars, heap
<1>2. CASE Over(gc)
  <2> DEFINE B == {"full"}
  <2>1. Flag(gc, B)
    BY <1>2 DEF Over
  <2> HIDE DEF B
  <2>2. Flag(gc', B)
    BY <2>1, FullStays
  <2> QED
    BY <2>2 DEF GInv, Over, B
<1>3. CASE ~Over(gc) /\ Over(gc')
  BY <1>3 DEF GInv
<1>4. CASE ~Over(gc) /\ ~Over(gc') /\ Next
  <2> DEFINE B == {}
  <2>1. Flag(gc, B)
    BY <1>4, InvTypes DEF Types, Globals, Flag
  <2> HIDE DEF B
  <2>2. Flag(gc', B)
    BY <2>1, FullStays
  <2>3. ~gc.full /\ ~gc'.full
    BY <2>1, <2>2, <1>4 DEF Flag, Over
  <2>4. Calm \/ Marks \/ Scans \/ Gathers \/ Prepares \/ Nests
    BY <1>4 DEF GInv
  <2>5. Calm' \/ Marks' \/ Scans' \/ Gathers' \/ Prepares' \/ Nests'
    BY <2>3, <2>4, <1>4, CalmStep, MarksStep, ScansStep, GathersStep, PreparesStep, NestsStep
  <2> QED
    BY <2>5 DEF GInv
<1> QED
  BY <1>1, <1>2, <1>3, <1>4

\* The invariant holds in every state.
LEMMA Invariant == Spec => []GInv
<1>1. Init => GInv
  BY InitCalm DEF GInv
<1>2. GInv /\ [Next]_vars => GInv'
  BY InvStep
<1> QED
  BY <1>1, <1>2, PTL DEF Spec


-----------------------------------------------------------------------------
(* Closures: what ReachableFrom and Unused compute.                        *)

\* The sets that a relation R on U, given as a function, leads to in n steps.
Grows(f, n, U, R) ==
    /\ f \in [0..n -> SUBSET U] /\ R \in [U -> SUBSET U]
    /\ \A i \in 0..n : i # 0 => f[i] = f[i - 1] \union UNION { R[x] : x \in f[i - 1] }
Shut(R, X) == \A x \in X : R[x] \subseteq X

\* The last one is closed if U has no more than n elements, and it is the
\* least closed set that contains the first one.
LEMMA GrowsFacts ==
    ASSUME NEW U, IsFiniteSet(U), NEW n \in Nat, Cardinality(U) <= n, NEW f, NEW R, Grows(f, n, U, R)
    PROVE  /\ f[0] \subseteq f[n] /\ f[n] \subseteq U /\ Shut(R, f[n])
           /\ \A C : f[0] \subseteq C /\ Shut(R, C \intersect U) => f[n] \subseteq C
<1>1. /\ 0 \in 0..n /\ n \in 0..n /\ n \in Int /\ 0 \in Int
  OBVIOUS
<1>2. /\ \A i \in 0..n : f[i] \in SUBSET U
      /\ \A i \in 0..n : i # 0 => f[i] = f[i - 1] \union UNION { R[x] : x \in f[i - 1] }
      /\ \A x \in U : R[x] \in SUBSET U
  BY DEF Grows
<1>3. f[0] \subseteq f[n]
  <2> DEFINE P == { i \in 0..n : f[0] \subseteq f[i] }
  <2>1. 0 \in P
    BY <1>1
  <2>2. ASSUME NEW i \in 0..n, i # 0, i - 1 \in P PROVE i \in P
    BY <1>2, <2>2
  <2>3. \A i \in 0..n : i \in P
    <3> HIDE DEF P
    <3> QED
      BY ONLY <1>1, <2>1, <2>2, IntervalInduction
  <2> QED
    BY <2>3, <1>1
<1>4. \A i \in 0..n : IsFiniteSet(f[i]) /\ Cardinality(f[i]) \in Nat
  BY <1>2, FS_Subset, FS_CardinalityType
<1>5. Shut(R, f[n])
  <2> DEFINE P == { i \in 0..n : Shut(R, f[i]) \/ Cardinality(f[i]) >= i }
  <2>1. 0 \in P
    BY <1>1, <1>4
  <2>2. ASSUME NEW i \in 0..n, i # 0, i - 1 \in P PROVE i \in P
    <3>0. i - 1 \in 0..n /\ i \in Nat
      BY <2>2
    <3>1. f[i] = f[i - 1] \union UNION { R[x] : x \in f[i - 1] }
      BY <1>2, <2>2
    <3>2. CASE Shut(R, f[i - 1])
      <4>1. f[i] = f[i - 1]
        BY <3>1, <3>2 DEF Shut
      <4> QED
        BY <3>2, <4>1
    <3>3. CASE ~Shut(R, f[i - 1])
      <4>1. Cardinality(f[i - 1]) >= i - 1
        BY <2>2, <3>3
      <4>2. PICK x \in f[i - 1] : ~(R[x] \subseteq f[i - 1])
        BY <3>3 DEF Shut
      <4>3. f[i - 1] \in SUBSET f[i] /\ f[i] # f[i - 1]
        BY <3>1, <4>2
      <4>4. /\ Cardinality(f[i - 1]) <= Cardinality(f[i])
            /\ Cardinality(f[i]) # Cardinality(f[i - 1])
        BY <4>3, <1>4, FS_Subset
      <4>5. Cardinality(f[i]) \in Nat /\ Cardinality(f[i - 1]) \in Nat
        BY <1>4, <3>0
      <4>6. Cardinality(f[i]) >= i
        BY <4>1, <4>4, <4>5, <3>0
      <4> QED
        BY <4>6
    <3> QED
      BY <3>2, <3>3
  <2>3. \A i \in 0..n : i \in P
    <3> HIDE DEF P
    <3> QED
      BY ONLY <1>1, <2>1, <2>2, IntervalInduction
  <2>4. Shut(R, f[n]) \/ Cardinality(f[n]) >= n
    BY <2>3, <1>1
  <2>5. ASSUME Cardinality(f[n]) >= n PROVE Shut(R, f[n])
    <3>1. f[n] \in SUBSET U /\ Cardinality(f[n]) \in Nat /\ Cardinality(U) \in Nat
      BY <1>1, <1>2, <1>4, FS_CardinalityType
    <3>2. Cardinality(f[n]) <= Cardinality(U)
      BY <3>1, FS_Subset
    <3>3. Cardinality(f[n]) = Cardinality(U)
      BY <3>1, <3>2, <2>5
    <3>4. f[n] = U
      BY <3>1, <3>3, FS_Subset
    <3> QED
      BY <3>4, <1>2 DEF Shut
  <2> QED
    BY <2>4, <2>5
<1>6. ASSUME NEW C, f[0] \subseteq C, Shut(R, C \intersect U) PROVE f[n] \subseteq C
  <2> DEFINE P == { i \in 0..n : f[i] \subseteq C }
  <2>1. 0 \in P
    BY <1>1, <1>6
  <2>2. ASSUME NEW i \in 0..n, i # 0, i - 1 \in P PROVE i \in P
    <3>1. f[i - 1] \subseteq C /\ f[i] = f[i - 1] \union UNION { R[x] : x \in f[i - 1] }
      BY <1>2, <2>2
    <3>2. i - 1 \in 0..n
      BY <2>2
    <3>3. \A x \in f[i - 1] : x \in C \intersect U
      BY <3>1, <3>2, <1>2
    <3> QED
      BY <3>1, <3>3, <1>6 DEF Shut
  <2>3. \A i \in 0..n : i \in P
    <3> HIDE DEF P
    <3> QED
      BY ONLY <1>1, <2>1, <2>2, IntervalInduction
  <2> QED
    BY <2>3, <1>1
<1> QED
  BY <1>1, <1>2, <1>3, <1>5, <1>6

Unfolds(f, n, b, R) ==
    \A i \in 0..n : f[i] = IF i = 0 THEN b ELSE f[i - 1] \union UNION { R[x] : x \in f[i - 1] }
\* The recursion has a solution, and every solution grows.
LEMMA GrowsExists ==
    ASSUME NEW U, NEW n \in Nat, NEW R \in [U -> SUBSET U], NEW b \in SUBSET U
    PROVE  /\ \E f : Grows(f, n, U, R) /\ f[0] = b
           /\ \A f : Unfolds(f, n, b, R) => \A i \in 0..n : f[i] \in SUBSET U
<1> DEFINE S == SUBSET U
           G == [i \in Int |-> [X \in S |-> X \union UNION { R[x] : x \in X }]]
<1>1. n \in Int /\ 0 \in Int /\ 0 <= n /\ 0 \in 0..n /\ b \in S
  OBVIOUS
<1>2. \A X \in S : X \union UNION { R[x] : x \in X } \in S
  OBVIOUS
<1>3. Stepper(G, S) /\ \A i \in Int, X \in S : G[i][X] = X \union UNION { R[x] : x \in X }
  BY <1>2 DEF Stepper
<1>4. PICK f \in [0..n -> S] : Solves(f, 0, n, b, G)
  <2> HIDE DEF S, G
  <2> QED
    BY ONLY <1>1, <1>3, RecursionExists
<1>5. Grows(f, n, U, R) /\ f[0] = b
  <2>1. ASSUME NEW i \in 0..n, i # 0 PROVE f[i] = f[i - 1] \union UNION { R[x] : x \in f[i - 1] }
    <3>1. i - 1 \in 0..n /\ i \in Int
      BY <2>1
    <3>2. f[i] = G[i][f[i - 1]] /\ f[i - 1] \in S
      BY <2>1, <3>1, <1>4 DEF Solves
    <3> HIDE DEF G, S
    <3> QED
      BY ONLY <3>1, <3>2, <1>3
  <2>2. f[0] = b
    BY <1>4 DEF Solves
  <2> HIDE DEF G
  <2> QED
    BY <2>1, <2>2 DEF Grows
<1>6. ASSUME NEW e, Unfolds(e, n, b, R)
      PROVE  \A i \in 0..n : e[i] \in S
  <2> DEFINE P == { i \in 0..n : e[i] \in S }
  <2>1. 0 \in P
    BY <1>1, <1>6 DEF Unfolds
  <2>2. ASSUME NEW i \in 0..n, i # 0, i - 1 \in P PROVE i \in P
    BY <2>2, <1>2, <1>6 DEF Unfolds
  <2>3. \A i \in 0..n : i \in P
    <3> HIDE DEF P, S
    <3> QED
      BY ONLY <1>1, <2>1, <2>2, IntervalInduction
  <2> QED
    BY <2>3
<1> HIDE DEF G
<1> QED
  BY <1>5, <1>6

\* Reachability: the least set around S that no reference leaves.
LEMMA ReachFacts ==
    ASSUME out \in [Node -> SUBSET Node], NEW S \in SUBSET Node
    PROVE  /\ S \subseteq ReachableFrom(S) /\ ReachableFrom(S) \subseteq Node
           /\ Shut(out, ReachableFrom(S))
           /\ \A C : S \subseteq C /\ Shut(out, C \intersect Node) => ReachableFrom(S) \subseteq C
<1> DEFINE n == Cardinality(Node)
           Eq(f) == f = [k \in 0..n |-> IF k = 0 THEN S ELSE f[k - 1] \union UNION { out[m] : m \in f[k - 1] }]
           F == CHOOSE f : Eq(f)
<1>1. IsFiniteSet(Node) /\ n \in Nat /\ n <= n
  BY KindAssumption, FS_CardinalityType
<1>2. ReachableFrom(S) = F[n]
  BY DEF ReachableFrom
<1>a. out \in [Node -> SUBSET Node] /\ S \in SUBSET Node
  OBVIOUS
<1>b. /\ \E f : Grows(f, n, Node, out) /\ f[0] = S
      /\ \A f : Unfolds(f, n, S, out) => \A i \in 0..n : f[i] \in SUBSET Node
  <2> HIDE DEF n
  <2> QED
    BY ONLY <1>1, <1>a, GrowsExists
<1>3. PICK f : Grows(f, n, Node, out) /\ f[0] = S
  BY <1>b
<1>4. Eq(f)
  <2>1. f = [k \in 0..n |-> f[k]]
    BY <1>3 DEF Grows
  <2>2. \A k \in 0..n : f[k] = IF k = 0 THEN S ELSE f[k - 1] \union UNION { out[m] : m \in f[k - 1] }
    BY <1>3 DEF Grows
  <2> HIDE DEF n
  <2> QED
    BY ONLY <2>1, <2>2
<1>5. Eq(F)
  BY <1>4
<1> HIDE DEF F
<1>6. \A k \in 0..n : F[k] = IF k = 0 THEN S ELSE F[k - 1] \union UNION { out[m] : m \in F[k - 1] }
  BY <1>5
<1>7. Grows(F, n, Node, out) /\ F[0] = S
  <2>1. \A k \in 0..n : F[k] \in SUBSET Node
    <3>1. Unfolds(F, n, S, out)
      BY <1>6 DEF Unfolds
    <3> QED
      BY <3>1, <1>b
  <2>2. F = [k \in 0..n |-> F[k]]
    BY <1>5
  <2>3. F \in [0..n -> SUBSET Node]
    BY ONLY <2>1, <2>2
  <2>4. 0 \in 0..n
    BY <1>1
  <2> HIDE DEF n
  <2> QED
    BY <2>3, <2>4, <1>6 DEF Grows
<1>8. /\ F[0] \subseteq F[n] /\ F[n] \subseteq Node /\ Shut(out, F[n])
      /\ \A C : F[0] \subseteq C /\ Shut(out, C \intersect Node) => F[n] \subseteq C
  <2> HIDE DEF n, Eq
  <2> QED
    BY ONLY <1>1, <1>7, GrowsFacts DEF n
<1> QED
  BY <1>2, <1>7, <1>8


-----------------------------------------------------------------------------
(* What follows from the invariant.                                        *)

\* In every part of the invariant.
LEMMA InvCommon ==
    ASSUME GInv, ~Over(gc)
    PROVE  /\ Types(alloc, out, held, hdr, gc, col, stack, ran) /\ BufOK(alloc, hdr, gc)
           /\ StackOK(alloc, hdr, gc, col, stack) /\ Closed(alloc, out, held, Null)
           /\ \E G : DtorOK(alloc, hdr, G, ran)
<1>1. ASSUME Base(alloc, out, held, hdr, gc, col, stack, bailed, ran)
      PROVE  /\ Types(alloc, out, held, hdr, gc, col, stack, ran) /\ BufOK(alloc, hdr, gc)
             /\ StackOK(alloc, hdr, gc, col, stack) /\ Closed(alloc, out, held, Null)
             /\ \E G : DtorOK(alloc, hdr, G, ran)
  BY <1>1 DEF Base
<1>2. CASE Calm
  BY <1>2 DEF Calm, Steady
<1>3. CASE Marks
  BY <1>1, <1>3 DEF Marks, Marking
<1>4. CASE Scans
  BY <1>1, <1>4 DEF Scans, Scanning
<1>5. CASE Gathers
  BY <1>1, <1>5 DEF Gathers, Gathering
<1>6. CASE Prepares
  BY <1>1, <1>6 DEF Prepares, Preparing
<1>7. CASE Nests
  BY <1>1, <1>7 DEF Nests, Nesting
<1> QED
  BY <1>2, <1>3, <1>4, <1>5, <1>6, <1>7 DEF GInv

\* The counts that RefcountSound is about are those of the invariant.
LEMMA InvRefcount == ASSUME GInv, ~Over(gc) PROVE RefcountSound
<1> SUFFICES ASSUME ~Tracing, NEW n \in alloc
             PROVE  IF bailed THEN hdr[n].rc >= References(n) ELSE hdr[n].rc = References(n)
  BY DEF RefcountSound
<1>1. RcOK(alloc, out, held, hdr, stack, bailed, Null, {})
  <2>1. Base(alloc, out, held, hdr, gc, col, stack, bailed, ran) => Running("gc")
    BY DEF Base, Running
  <2>2. ~Marks /\ ~Scans /\ ~Gathers
    BY <2>1 DEF Marks, Marking, Scans, Scanning, Gathers, Gathering, Tracing
  <2> QED
    BY <2>2 DEF GInv, Calm, Steady, Prepares, Preparing, Nests, Nesting
<1>2. alloc \in SUBSET Node /\ hdr \in [Node -> Hdr] /\ stack \in Seq(Frame)
  BY InvCommon DEF Types
<1>3. n # Null
  BY <1>2, NullAssumption
<1>4. /\ hdr[n].rc >= Refs(alloc, out, held, stack, n) + One(n = Null)
      /\ ~bailed => hdr[n].rc = Refs(alloc, out, held, stack, n) + One(n = Null)
  BY <1>1, <1>2, RcPlain
<1>5. Refs(alloc, out, held, stack, n) \in Nat
  BY <1>2, RefsFacts
<1>6. One(n = Null) = 0
  BY <1>3 DEF One
<1>7. /\ hdr[n].rc >= Refs(alloc, out, held, stack, n)
      /\ ~bailed => hdr[n].rc = Refs(alloc, out, held, stack, n)
  BY ONLY <1>4, <1>5, <1>6
<1>8. References(n) = Refs(alloc, out, held, stack, n)
  <2>1. Holders(stack, n) = { k \in 1..Len(stack) :
          /\ stack[k].obj = n
          /\ \/ stack[k].fn \in {"dtor", "del", "gcdtor", "gcfree", "full"}
             \/ stack[k].fn = "efree" /\ n \notin Arr }
    BY DEF Holders, Holds
  <2> QED
    BY <2>1 DEF References, Refs, Edges, One
<1> QED
  BY <1>7, <1>8

\* The part DtorOK of the invariant says more than DestructorFirst.
LEMMA InvDestructor == ASSUME GInv, ~Over(gc) PROVE DestructorFirst
BY InvCommon DEF DestructorFirst, DtorOK, Dead

\* A set around the variables and the running destructors that no reference
\* leaves, without anything that is dead.
LEMMA InvLive == ASSUME GInv, ~Over(gc) PROVE OnlyGarbageFreed
<1>1. /\ Types(alloc, out, held, hdr, gc, col, stack, ran) /\ StackOK(alloc, hdr, gc, col, stack)
      /\ Closed(alloc, out, held, Null)
  BY InvCommon
<1>2. /\ alloc \in SUBSET Node /\ out \in [Node -> SUBSET Node] /\ held \in SUBSET Node
  BY <1>1 DEF Types
<1>3. PICK G : /\ DeadOK(alloc, out, held, hdr, stack, G, Null)
               /\ GarOK(alloc, out, held, hdr, stack, G)
  <2>1. Base(alloc, out, held, hdr, gc, col, stack, bailed, ran) =>
          DeadOK(alloc, out, held, hdr, stack, {}, Null) /\ GarOK(alloc, out, held, hdr, stack, {})
    BY DEF Base, GarOK
  <2>2. CASE Calm
    BY <2>2 DEF Calm, Steady
  <2>3. CASE ~Calm
    BY <2>1, <2>3 DEF GInv, Marks, Marking, Scans, Scanning, Gathers, Gathering, Prepares,
                      Preparing, Nests, Nesting
  <2> QED
    BY <2>2, <2>3
<1> DEFINE S == held \union Calls({"dtor"})
           C == { n \in alloc : ~Dead(hdr, n) /\ n \notin G }
<1>4. S \subseteq C
  <2>1. ASSUME NEW n \in held PROVE n \in C
    <3>1. n \in alloc /\ n \notin G
      BY <1>1, <1>3 DEF Closed, GarOK
    <3> QED
      BY <3>1, <1>3 DEF DeadOK, Lone
  <2>2. ASSUME NEW n \in Calls({"dtor"}) PROVE n \in C
    <3>1. PICK k \in 1..Len(stack) : stack[k].fn = "dtor" /\ stack[k].obj = n
      BY DEF Calls
    <3>2. n \in alloc
      BY <3>1, <1>1 DEF StackOK
    <3>3. n \notin G
      BY <3>1, <1>3 DEF GarOK
    <3>4. ~Lone(alloc, out, held, stack, Null, n)
      BY <3>1 DEF Lone
    <3> QED
      BY <3>2, <3>3, <3>4, <1>3 DEF DeadOK
  <2> QED
    BY <2>1, <2>2
<1>5. Shut(out, C)
  <2> SUFFICES ASSUME NEW m \in C, NEW n \in out[m] PROVE n \in C
    BY DEF Shut
  <2>1. n \in alloc
    BY <1>1 DEF Closed
  <2>2. ~Lone(alloc, out, held, stack, Null, n)
    BY DEF Lone
  <2>3. n \notin G
    BY <1>3 DEF GarOK
  <2> QED
    BY <2>1, <2>2, <2>3, <1>3 DEF DeadOK
<1>6. ReachableFrom(S) \subseteq C
  <2>1. C \intersect Node = C /\ S \in SUBSET Node
    BY <1>2, <1>4
  <2> HIDE DEF S, C
  <2>2. \A D : S \subseteq D /\ Shut(out, D \intersect Node) => ReachableFrom(S) \subseteq D
    BY ONLY <2>1, <1>2, ReachFacts
  <2> QED
    BY <2>1, <2>2, <1>4, <1>5
<1> QED
  BY <1>6 DEF OnlyGarbageFreed, Live, Dead

\* The counts are never negative, not even in a traversal.
LEMMA RcNat ==
    ASSUME GInv, ~Over(gc), NEW n \in alloc PROVE hdr[n].rc >= 0
<1>1. /\ alloc \in SUBSET Node /\ hdr \in [Node -> Hdr] /\ stack \in Seq(Frame)
  BY InvCommon DEF Types
<1>2. PICK P : RcOK(alloc, out, held, hdr, stack, bailed, Null, P)
  <2>1. \E P : RcOK(alloc, out, held, hdr, stack, bailed, Null, P)
    BY DEF GInv, Calm, Steady, Marks, Marking, Scans, Scanning, Gathers, Gathering, Prepares,
           Preparing, Nests, Nesting
  <2> QED
    BY <2>1
<1> DEFINE T == Taken(alloc, out, hdr, P, n)
           E == Edges(alloc, out, n)
           t == Cardinality(T)
           e == Cardinality(E)
           s == One(n \in held)
           k == Cardinality(Holders(stack, n))
           z == One(n = Null)
           r == hdr[n].rc
<1>3. r + t >= e + s + k + z
  BY <1>2 DEF RcOK, Refs
<1>4. IsFiniteSet(E) /\ e \in Nat /\ k \in Nat
  BY <1>1, RefsFacts
<1>5. T \in SUBSET E
  BY DEF Taken, Edges, Kids
<1>6. t <= e /\ t \in Nat
  BY <1>4, <1>5, FS_Subset, FS_CardinalityType
<1>7. s \in Nat /\ z \in Nat /\ r \in Int
  BY <1>1 DEF One, Hdr
<1> HIDE DEF T, E, t, e, s, k, z, r
<1>8. r >= 0
  BY ONLY <1>3, <1>4, <1>6, <1>7
<1> QED
  BY <1>8 DEF r


\* The unused list has all of the unused entries.
LEMMA UnusedList ==
    ASSUME NEW al \in SUBSET Node, NEW h, NEW g \in Globals, BufOK(al, h, g)
    PROVE  Unused(g) = UnusedAt(g)
<1> DEFINE n == MaxBufSize
           U == UnusedAt(g) \union {0}
           R == [x \in U |-> IF x = 0 THEN {} ELSE {g.buf[x].next}]
           b == {g.unused}
           Eq(f) == f = [k \in 0..n |-> IF k = 0 THEN b ELSE f[k - 1] \union { g.buf[i].next : i \in f[k - 1] \ {0} }]
           F == CHOOSE f : Eq(f)
<1>1. /\ g.unused \in U
      /\ \A i \in UnusedAt(g) : g.buf[i].next \in U
      /\ g.first_unused \in 1..g.buf_size /\ g.buf_size \in 2..MaxBufSize
  BY DEF BufOK, Listed, Entries
<1>2. g.first_unused \in Nat /\ g.buf_size \in Nat /\ n \in Nat /\ g.first_unused <= n /\ g.first_unused >= 1
  BY <1>1, BufferAssumption DEF Globals
<1>3. IsFiniteSet(U) /\ Cardinality(U) <= n
  <2>1. U \in SUBSET (0..(g.first_unused - 1))
    BY <1>2 DEF UnusedAt
  <2>2. IsFiniteSet(0..(g.first_unused - 1)) /\ Cardinality(0..(g.first_unused - 1)) = g.first_unused
    <3> DEFINE q == g.first_unused - 1
    <3>1. 0 \in Int /\ q \in Int /\ q >= 0 /\ q - 0 + 1 = g.first_unused
      BY <1>2
    <3> HIDE DEF q
    <3>2. IsFiniteSet(0..q) /\ Cardinality(0..q) = IF 0 > q THEN 0 ELSE q - 0 + 1
      BY ONLY <3>1, FS_Interval
    <3>3. Cardinality(0..q) = g.first_unused
      BY ONLY <3>1, <3>2
    <3> QED
      BY <3>2, <3>3 DEF q
  <2>3. Cardinality(U) <= g.first_unused /\ IsFiniteSet(U) /\ Cardinality(U) \in Nat
    <3> HIDE DEF U
    <3> QED
      BY <2>1, <2>2, FS_Subset, FS_CardinalityType
  <2> QED
    BY <2>3, <1>2
<1>4. 0 \notin UnusedAt(g)
  BY <1>2 DEF UnusedAt
<1>5. /\ R \in [U -> SUBSET U] /\ b \in SUBSET U
      /\ \A x \in U : R[x] = IF x = 0 THEN {} ELSE {g.buf[x].next}
  <2>1. \A x \in U : (IF x = 0 THEN {} ELSE {g.buf[x].next}) \in SUBSET U
    BY <1>1
  <2>2. b \in SUBSET U
    BY <1>1
  <2> HIDE DEF U, b
  <2> QED
    BY <2>1, <2>2
<1>6. \A X \in SUBSET U : UNION { R[x] : x \in X } = { g.buf[i].next : i \in X \ {0} }
  <2> HIDE DEF R, U
  <2> QED
    BY ONLY <1>5
<1>7. Unused(g) = F[n] \ {0}
  BY DEF Unused
<1> HIDE DEF U, R, b
<1>8. PICK f : Grows(f, n, U, R) /\ f[0] = b
  <2>1. n \in Nat /\ R \in [U -> SUBSET U] /\ b \in SUBSET U
    BY <1>2, <1>5
  <2>2. /\ \E f : Grows(f, n, U, R) /\ f[0] = b
        /\ \A f : Unfolds(f, n, b, R) => \A i \in 0..n : f[i] \in SUBSET U
    <3> HIDE DEF n
    <3> QED
      BY ONLY <2>1, GrowsExists
  <2> QED
    BY <2>2
<1>9. Eq(f)
  <2>1. f = [k \in 0..n |-> f[k]]
    BY <1>8 DEF Grows
  <2>2. \A k \in 0..n : f[k] = IF k = 0 THEN b ELSE f[k - 1] \union { g.buf[i].next : i \in f[k - 1] \ {0} }
    <3> SUFFICES ASSUME NEW k \in 0..n, k # 0
                 PROVE  f[k] = f[k - 1] \union { g.buf[i].next : i \in f[k - 1] \ {0} }
      BY <1>8
    <3>1. k - 1 \in 0..n
      BY <1>2
    <3>2. f[k - 1] \in SUBSET U /\ f[k] = f[k - 1] \union UNION { R[x] : x \in f[k - 1] }
      BY <3>1, <1>8 DEF Grows
    <3> QED
      BY <3>2, <1>6
  <2> QED
    BY ONLY <2>1, <2>2
<1>10. Eq(F)
  BY <1>9
<1> HIDE DEF F
<1>11. \A k \in 0..n : F[k] = IF k = 0 THEN b ELSE F[k - 1] \union { g.buf[i].next : i \in F[k - 1] \ {0} }
  BY <1>10
<1>12. \A k \in 0..n : F[k] \in SUBSET U
  <2> DEFINE P == { i \in 0..n : F[i] \in SUBSET U }
  <2>0. 0 \in Int /\ n \in Int /\ 0 \in 0..n
    BY <1>2
  <2>1. 0 \in P
    BY <2>0, <1>5, <1>11
  <2>2. ASSUME NEW i \in 0..n, i # 0, i - 1 \in P PROVE i \in P
    <3>1. F[i - 1] \in SUBSET U
      BY <2>2
    <3>2. F[i] = F[i - 1] \union { g.buf[j].next : j \in F[i - 1] \ {0} }
      BY <2>2, <1>11
    <3>3. \A j \in F[i - 1] \ {0} : g.buf[j].next \in U
      BY <3>1, <1>1 DEF U
    <3>4. F[i] \in SUBSET U
      BY <3>1, <3>2, <3>3
    <3> QED
      BY <3>4
  <2>3. \A i \in 0..n : i \in P
    <3> HIDE DEF P
    <3> QED
      BY ONLY <2>0, <2>1, <2>2, IntervalInduction
  <2> QED
    BY <2>3
<1>13. Grows(F, n, U, R) /\ F[0] = b
  <2>1. F \in [0..n -> SUBSET U]
    <3>1. F = [k \in 0..n |-> F[k]]
      BY <1>10
    <3> QED
      BY ONLY <3>1, <1>12
  <2>2. \A i \in 0..n : i # 0 => F[i] = F[i - 1] \union UNION { R[x] : x \in F[i - 1] }
    <3> SUFFICES ASSUME NEW i \in 0..n, i # 0 PROVE F[i] = F[i - 1] \union UNION { R[x] : x \in F[i - 1] }
      OBVIOUS
    <3>1. F[i - 1] \in SUBSET U
      BY <1>2, <1>12
    <3> QED
      BY <3>1, <1>6, <1>11
  <2>3. F[0] = b
    <3>1. 0 \in 0..n
      BY <1>2
    <3> QED
      BY <3>1, <1>11
  <2> QED
    BY <2>1, <2>2, <2>3, <1>5 DEF Grows
<1>14. F[0] \subseteq F[n] /\ F[n] \subseteq U /\ Shut(R, F[n])
  <2>1. n \in Nat
    BY <1>2
  <2> HIDE DEF Eq
  <2> QED
    BY ONLY <2>1, <1>3, <1>13, GrowsFacts
<1>15. UnusedAt(g) \subseteq F[n]
  <2>1. g.unused \in F[n]
    BY <1>13, <1>14 DEF b
  <2>2. \A i \in UnusedAt(g) \intersect F[n] : g.buf[i].next \in F[n]
    <3> SUFFICES ASSUME NEW i \in UnusedAt(g), i \in F[n] PROVE g.buf[i].next \in F[n]
      OBVIOUS
    <3>1. i \in U /\ i # 0
      BY <1>4 DEF U
    <3>2. R[i] = {g.buf[i].next}
      BY <3>1, <1>5
    <3> QED
      BY <3>2, <1>14 DEF Shut
  <2>3. \A S : (g.unused \in S /\ \A i \in UnusedAt(g) \intersect S : g.buf[i].next \in S)
                 => UnusedAt(g) \subseteq S
    BY DEF BufOK, Listed
  <2> QED
    BY ONLY <2>1, <2>2, <2>3
<1> QED
  BY <1>4, <1>7, <1>14, <1>15 DEF U

\* The part BufOK of the invariant says what BufferSound says of the lists.
LEMMA InvBuffer == ASSUME GInv, ~Over(gc) PROVE BufferSound
<1>1. /\ Types(alloc, out, held, hdr, gc, col, stack, ran) /\ BufOK(alloc, hdr, gc)
      /\ StackOK(alloc, hdr, gc, col, stack)
  BY InvCommon
<1>2. /\ alloc \in SUBSET Node /\ held \in SUBSET Node /\ ran \in SUBSET Node
      /\ out \in [Node -> SUBSET Node] /\ hdr \in [Node -> Hdr] /\ gc \in Globals /\ stack \in Seq(Frame)
      /\ Entries(alloc, hdr, gc)
  BY <1>1 DEF Types, BufOK
<1>3. /\ gc.first_unused \in 1..gc.buf_size /\ gc.buf_size \in 2..MaxBufSize
      /\ gc.threshold <= gc.buf_size /\ gc.num_roots = Cardinality(Used(gc))
      /\ \A i \in Used(gc) : gc.buf[i].ref \in alloc
      /\ \A n \in Node : hdr[n].addr # 0 => \E i \in Used(gc) : gc.buf[i].ref = n
  BY <1>2 DEF Entries
<1>4. IsFiniteSet(Used(gc)) /\ \A i \in Used(gc) : hdr[gc.buf[i].ref].addr # 0 /\ gc.buf[i].ref \in Node
  BY <1>2, UsedFacts
<1>5. TypeOK
  <2>1. \A n \in alloc : hdr[n].rc >= 0
    BY RcNat
  <2>2. {gc.unused, gc.first_unused, gc.num_roots, gc.buf_size, gc.threshold} \subseteq Nat
    <3>1. gc.num_roots \in Nat
      BY <1>3, <1>4, FS_CardinalityType
    <3> QED
      BY <3>1, <1>2 DEF Globals
  <2>3. {gc.enabled, gc.active, gc.protected, gc.full} \subseteq BOOLEAN
    BY <1>2, GlobalsFields
  <2>4. Cardinality({ k \in 1..Len(stack) : stack[k].fn = "gc" }) <= 1
    <3> DEFINE K == { k \in 1..Len(stack) : stack[k].fn = "gc" }
    <3>1. \A j, k \in K : j = k
      BY <1>1 DEF StackOK
    <3>2. Cardinality(K) <= 1
      <4> HIDE DEF K
      <4>1. CASE K = {}
        BY ONLY <4>1, FS_EmptySet
      <4>2. CASE K # {}
        <5>1. PICK k : K = {k}
          BY ONLY <3>1, <4>2
        <5>2. Cardinality({k}) = 1
          BY ONLY FS_Singleton
        <5> QED
          BY ONLY <5>1, <5>2
      <4> QED
        BY ONLY <4>1, <4>2
    <3> QED
      BY <3>2
  <2>5. hdr \in [Node -> [rc: Int, color: Colors, addr: Nat, null: BOOLEAN,
                          dtored: BOOLEAN, freed: BOOLEAN]]
    BY <1>2 DEF Hdr
  <2> QED
    BY <2>1, <2>2, <2>3, <2>4, <2>5, <1>2 DEF TypeOK
<1>6. Unused(gc) = { i \in 1..(gc.first_unused - 1) : gc.buf[i].tag = "unused" }
  BY <1>1, <1>2, UnusedList DEF UnusedAt
<1>7. \A i \in Used(gc) : gc_decompress(gc, gc.buf[i].ref) = i
  <2> SUFFICES ASSUME NEW i \in Used(gc) PROVE gc_decompress(gc, gc.buf[i].ref) = i
    OBVIOUS
  <2>1. Decompress(hdr, gc, gc.buf[i].ref) = i
    BY <1>2, DecompressFacts
  <2>2. gc_decompress(gc, gc.buf[i].ref) = Decompress(hdr, gc, gc.buf[i].ref)
    BY DEF gc_decompress, Decompress
  <2> QED
    BY <2>1, <2>2
<1>8. { n \in Node : hdr[n].addr # 0 } = { gc.buf[i].ref : i \in Used(gc) }
  BY <1>3, <1>4
<1>9. gc.first_unused <= gc.buf_size /\ gc.buf_size <= MaxBufSize
  BY <1>3, BufferAssumption
<1> QED
  BY <1>3, <1>5, <1>6, <1>7, <1>8, <1>9 DEF BufferSound


-----------------------------------------------------------------------------
(* Nothing is lost: a second invariant, on top of the first one, for as    *)
(* long as the collector is neither protected nor its buffer overflowed.   *)

\* Everything in S can be reached from B along the references of the nodes of al.
Led(al, o, B, S) ==
    \A C : B \subseteq C /\ (\A m \in C \intersect al : o[m] \subseteq C) => S \subseteq C

Objs(st) == { st[k].obj : k \in 1..Len(st) }
Rooted(h) == { n \in Node : h[n].addr # 0 }
Anchors(hd, h, st) == hd \union Objs(st) \union Rooted(h)
\* The nodes of the calls that a collection interrupted.
Below(st) == { st[j].obj : j \in { i \in 1..Len(st) : \E k \in 1..Len(st) : st[k].fn = "gc" /\ i < k } }
\* What a collection leaves alone.
Saved(al, h, g) == { n \in al : n \notin Gar(g) /\ ~Dead(h, n) }

\* zend_objects_store_del waits for a destructor, or for what its end called;
\* the calls of the collector are made by it.
FollowOK(st) ==
    \A k \in 1..Len(st) :
        /\ st[k].fn = "del" /\ k < Len(st) =>
              st[k + 1].fn \in {"dtor", "full"} /\ st[k + 1].obj = st[k].obj
        /\ st[k].fn \in {"gcdtor", "gcfree"} => k > 1 /\ st[k - 1].fn = "gc"
\* The node of zend_objects_store_del has an address once its destructor is over.
DelOK(h, st) == st # <<>> /\ st[Len(st)].fn = "del" => h[st[Len(st)].obj].addr # 0

\* The references of the marked nodes have been followed.
Greyed(h, o, c) ==
    \A m \in Colored(h, "grey") \ c.todo : Kids(h, o, m) \subseteq Colored(h, "grey")
\* A collection without destructors: what it saves is known to the program or
\* to the calls it interrupted, and it makes no calls but to free nodes.
Spares(al, o, hd, h, g, st) ==
    /\ Led(Saved(al, h, g) \union Below(st), o, hd \union Below(st), Saved(al, h, g))
    /\ \A j, k \in 1..Len(st) : st[k].fn = "gc" /\ k < j => st[j].fn \in {"gcfree", "free", "efree"}

Keeps(al, o, hd, h, g, c, st) ==
    /\ c.pc \notin {"scan", "collect"} => Led(al, o, Anchors(hd, h, st), al)
    /\ c.pc = "mark" => Greyed(h, o, c)
    /\ c.pc = "scan" => Led(al, o, hd \union Objs(st), al \intersect Colored(h, "black"))
    /\ c.pc = "collect" => Led(al, o, hd \union Objs(st), al \ Whites(h, g, c))
    /\ c.pc = "nested" => Led(al, o, hd \union Objs(st) \union Tagged(g, {"dtor"}), c.todo)
    /\ c.pc \in {"nested", "dtors"} => c.rerun
    /\ c.pc \in {"destroy", "finish"} /\ ~c.rerun => Spares(al, o, hd, h, g, st)

Kept ==
    /\ ~bailed /\ FollowOK(stack) /\ DelOK(hdr, stack)
    /\ Keeps(alloc, out, held, hdr, gc, col, stack)

\* The nodes of X go, their references having gone first; a reference that goes
\* leads to a node that is known otherwise.
LedOn(al, o, B, S, al2, o2, B2, S2, X) ==
    /\ \A y \in B : y \in B2 \/ y \in X
    /\ \A m \in al : m \in al2 \/ m \in X
    /\ \A m \in al : m \notin X => \A y \in o[m] : y \in o2[m] \/ y \in B2 \/ y \in X
    /\ \A m \in al : m \in X => \A y \in o[m] : y \in B2 \/ y \in X
    /\ \A y \in S2 : (y \in S /\ y \notin X) \/ y \in B2
\* What is reachable stays so.
LEMMA LedMove ==
    ASSUME NEW al, NEW o, NEW B, NEW S, Led(al, o, B, S), NEW al2, NEW o2, NEW B2, NEW S2, NEW X,
           LedOn(al, o, B, S, al2, o2, B2, S2, X)
    PROVE  Led(al2, o2, B2, S2)
<1> SUFFICES ASSUME NEW C, B2 \subseteq C, \A m \in C \intersect al2 : o2[m] \subseteq C PROVE S2 \subseteq C
  BY DEF Led
<1> DEFINE D == C \union X
<1>1. B \subseteq D
  BY DEF LedOn
<1>2. \A m \in D \intersect al : o[m] \subseteq D
  <2> SUFFICES ASSUME NEW m \in D, m \in al, NEW y \in o[m] PROVE y \in D
    OBVIOUS
  <2>1. CASE m \in X
    BY <2>1 DEF LedOn
  <2>2. CASE m \notin X
    BY <2>2 DEF LedOn
  <2> QED
    BY <2>1, <2>2
<1>3. S \subseteq D
  BY <1>1, <1>2 DEF Led
<1> QED
  BY <1>3 DEF LedOn

\* The same heap, and at least as many nodes that are known.
LEMMA LedMore ==
    ASSUME NEW al, NEW o, NEW B, NEW S, Led(al, o, B, S), NEW B2, B \subseteq B2, NEW S2, S2 \subseteq S
    PROVE  Led(al, o, B2, S2)
BY DEF Led

\* Reachability is transitive.
LEMMA LedBy ==
    ASSUME NEW al, NEW o, NEW B, NEW S, Led(al, o, B, S), NEW B2, Led(al, o, B2, B)
    PROVE  Led(al, o, B2, S)
BY DEF Led

\* The nodes of the calls, with one call more.
LEMMA ObjsPush ==
    ASSUME NEW st \in Seq(Frame), NEW f, NEW st2, Pushed(st, f, st2)
    PROVE  Objs(st2) = Objs(st) \union {f.obj}
<1>1. Len(st) \in Nat /\ Len(st2) = Len(st) + 1 /\ st2[Len(st2)] = f
      /\ \A i \in 1..Len(st) : st2[i] = st[i]
  BY DEF Pushed
<1>2. ASSUME NEW x \in Objs(st2) PROVE x \in Objs(st) \union {f.obj}
  <2>1. PICK k \in 1..Len(st2) : x = st2[k].obj
    BY <1>2 DEF Objs
  <2>2. k = Len(st2) \/ k \in 1..Len(st)
    BY <1>1
  <2> QED
    BY <2>1, <2>2, <1>1 DEF Objs
<1>3. ASSUME NEW x \in Objs(st) PROVE x \in Objs(st2)
  <2>1. PICK k \in 1..Len(st) : x = st[k].obj
    BY <1>3 DEF Objs
  <2>2. k \in 1..Len(st2) /\ st2[k] = st[k]
    BY <1>1
  <2> QED
    BY <2>1, <2>2 DEF Objs
<1>4. f.obj \in Objs(st2)
  <2>1. Len(st2) \in 1..Len(st2)
    BY <1>1
  <2> QED
    BY <2>1, <1>1 DEF Objs
<1> QED
  BY <1>2, <1>3, <1>4

\* The calls that a collection interrupted, with one call more.
LEMMA BelowPush ==
    ASSUME NEW st \in Seq(Frame), NEW f, NEW st2, Pushed(st, f, st2)
    PROVE  /\ f.fn # "gc" => Below(st2) = Below(st)
           /\ f.fn = "gc" => Below(st2) = Objs(st)
<1>1. Len(st) \in Nat /\ Len(st2) = Len(st) + 1 /\ st2[Len(st2)] = f
      /\ \A i \in 1..Len(st) : st2[i] = st[i]
  BY DEF Pushed
<1>2. \A i \in 1..Len(st2) : i = Len(st2) \/ i \in 1..Len(st)
  BY <1>1
<1>3. (\A i \in 1..Len(st) : i \in 1..Len(st2) /\ i < Len(st2)) /\ Len(st2) \in 1..Len(st2)
  BY <1>1
<1>4. \A i, k \in 1..Len(st2) : i < k => i \in 1..Len(st)
  BY <1>1
<1>5. CASE f.fn # "gc"
  <2>1. \A i \in 1..Len(st2) : (\E k \in 1..Len(st2) : st2[k].fn = "gc" /\ i < k)
           <=> (i \in 1..Len(st) /\ \E k \in 1..Len(st) : st[k].fn = "gc" /\ i < k)
    BY <1>1, <1>2, <1>3, <1>4, <1>5
  <2>2. \A y : y \in Below(st2) <=> y \in Below(st)
    BY <2>1, <1>1, <1>3 DEF Below
  <2> QED
    BY <2>2, <1>5
<1>6. CASE f.fn = "gc"
  <2>1. \A i \in 1..Len(st2) : (\E k \in 1..Len(st2) : st2[k].fn = "gc" /\ i < k)
           <=> i \in 1..Len(st)
    BY <1>1, <1>2, <1>3, <1>4, <1>6
  <2>2. \A y : y \in Below(st2) <=> y \in Objs(st)
    BY <2>1, <1>1, <1>3 DEF Below, Objs
  <2> QED
    BY <2>2, <1>6
<1> QED
  BY <1>5, <1>6

\* A call more.
LEMMA FollowPush ==
    ASSUME NEW st \in Seq(Frame), NEW f, NEW st2, Pushed(st, f, st2), FollowOK(st),
           st # <<>> /\ st[Len(st)].fn = "del" => f.fn \in {"dtor", "full"} /\ f.obj = st[Len(st)].obj,
           f.fn \in {"gcdtor", "gcfree"} => st # <<>> /\ st[Len(st)].fn = "gc"
    PROVE  FollowOK(st2) /\ Objs(st2) = Objs(st) \union {f.obj}
<1>1. Len(st) \in Nat /\ Len(st2) = Len(st) + 1 /\ st2[Len(st2)] = f
      /\ \A i \in 1..Len(st) : st2[i] = st[i]
  BY DEF Pushed
<1>2. st = <<>> <=> Len(st) = 0
  OBVIOUS
<1>3. FollowOK(st2)
  <2> SUFFICES ASSUME NEW k \in 1..Len(st2)
               PROVE  /\ st2[k].fn = "del" /\ k < Len(st2) =>
                            st2[k + 1].fn \in {"dtor", "full"} /\ st2[k + 1].obj = st2[k].obj
                      /\ st2[k].fn \in {"gcdtor", "gcfree"} => k > 1 /\ st2[k - 1].fn = "gc"
    BY DEF FollowOK
  <2>1. CASE k = Len(st2)
    <3>1. k - 1 = Len(st)
      BY <1>1, <2>1
    <3>2. st2[k] = f /\ (st # <<>> => st2[k - 1] = st[Len(st)] /\ k > 1)
      BY <1>1, <1>2, <2>1, <3>1
    <3> QED
      BY <2>1, <3>2
  <2>2. CASE k = Len(st) /\ k # Len(st2)
    <3>1. k \in 1..Len(st) /\ k + 1 = Len(st2) /\ st2[k] = st[k] /\ st2[k + 1] = f /\ st # <<>>
      BY <1>1, <1>2, <2>2
    <3>2. st[k].fn \in {"gcdtor", "gcfree"} => k > 1 /\ st[k - 1].fn = "gc" /\ st2[k - 1] = st[k - 1]
      BY <3>1, <1>1 DEF FollowOK
    <3> QED
      BY <3>1, <3>2, <2>2
  <2>3. CASE k # Len(st) /\ k # Len(st2)
    <3>1. k \in 1..Len(st) /\ k + 1 \in 1..Len(st) /\ k < Len(st)
      BY <1>1, <2>3
    <3>2. st2[k] = st[k] /\ st2[k + 1] = st[k + 1]
      BY <1>1, <3>1
    <3>3. /\ st[k].fn = "del" => st[k + 1].fn \in {"dtor", "full"} /\ st[k + 1].obj = st[k].obj
          /\ st[k].fn \in {"gcdtor", "gcfree"} => k > 1 /\ st[k - 1].fn = "gc"
      BY <3>1 DEF FollowOK
    <3>4. k > 1 => st2[k - 1] = st[k - 1]
      BY <1>1, <3>1
    <3> QED
      BY <3>2, <3>3, <3>4
  <2> QED
    BY <2>1, <2>2, <2>3
<1>4. Objs(st2) = Objs(st) \union {f.obj}
  BY ObjsPush
<1> QED
  BY <1>3, <1>4

\* A call less.
LEMMA FollowPop ==
    ASSUME NEW st \in Seq(Frame), NEW f, NEW st2, Pushed(st, f, st2), FollowOK(st2)
    PROVE  /\ FollowOK(st) /\ Objs(st2) = Objs(st) \union {f.obj}
           /\ st # <<>> /\ st[Len(st)].fn = "del" => f.fn \in {"dtor", "full"} /\ f.obj = st[Len(st)].obj
           /\ f.fn \in {"gcdtor", "gcfree"} => st # <<>> /\ st[Len(st)].fn = "gc"
<1>1. Len(st) \in Nat /\ Len(st2) = Len(st) + 1 /\ st2[Len(st2)] = f
      /\ \A i \in 1..Len(st) : st2[i] = st[i]
  BY DEF Pushed
<1>2. st = <<>> <=> Len(st) = 0
  OBVIOUS
<1>3. ASSUME NEW k \in 1..Len(st)
      PROVE  /\ k \in 1..Len(st2) /\ k < Len(st2) /\ st2[k] = st[k]
             /\ st[k].fn = "del" => st2[k + 1].fn \in {"dtor", "full"} /\ st2[k + 1].obj = st[k].obj
             /\ st[k].fn \in {"gcdtor", "gcfree"} => k > 1 /\ st[k - 1].fn = "gc"
             /\ k < Len(st) => st2[k + 1] = st[k + 1]
  <2>1. k \in 1..Len(st2) /\ k < Len(st2) /\ st2[k] = st[k] /\ (k < Len(st) => st2[k + 1] = st[k + 1])
        /\ (k > 1 => st2[k - 1] = st[k - 1])
    BY <1>1
  <2> QED
    BY <2>1 DEF FollowOK
<1>4. FollowOK(st)
  BY <1>3 DEF FollowOK
<1>5. st # <<>> => Len(st) \in 1..Len(st) /\ st2[Len(st) + 1] = f
  BY <1>1, <1>2
<1>6. f.fn \in {"gcdtor", "gcfree"} => st # <<>> /\ st[Len(st)].fn = "gc"
  <2>1. Len(st2) \in 1..Len(st2) /\ Len(st2) - 1 = Len(st)
    BY <1>1
  <2>2. f.fn \in {"gcdtor", "gcfree"} => Len(st2) > 1 /\ st2[Len(st2) - 1].fn = "gc"
    BY <2>1, <1>1 DEF FollowOK
  <2> QED
    BY <2>1, <2>2, <1>1, <1>2
<1>7. Objs(st2) = Objs(st) \union {f.obj}
  BY ObjsPush
<1> QED
  BY <1>3, <1>4, <1>5, <1>6, <1>7


\* The nodes a call or an entry kept, and n, still are, and the calls are in order.
Anchored(h, st, n, h2, st2) ==
    /\ \A y : y \in Objs(st) \/ y \in Rooted(h) \/ y = n => y \in Objs(st2) \/ y \in Rooted(h2)
    /\ FollowOK(st2) /\ DelOK(h2, st2)

\* Two calls about n.
LEMMA PushAnchors ==
    ASSUME NEW st \in Seq(Frame), FollowOK(st), NEW n, NEW f \in Frame, NEW f2 \in Frame,
           f.obj = n, f2.obj = n, st # <<>> => st[Len(st)].fn # "del",
           f.fn \notin {"gcdtor", "gcfree"}, f2.fn \notin {"gcdtor", "gcfree", "del"},
           f.fn = "del" => f2.fn = "dtor",
           NEW h, NEW h2, \A y \in Node : y # n /\ h[y].addr # 0 => h2[y].addr # 0,
           NEW st2, st2 = st \o <<f, f2>>
    PROVE  Anchored(h, st, n, h2, st2)
<1>1. PICK s \in Seq(Frame) : Pushed(st, f, s) /\ Pushed(s, f2, st2)
  BY PushTwo
<1>2. FollowOK(s) /\ Objs(s) = Objs(st) \union {n}
  <2>1. st # <<>> => st[Len(st)].fn # "del"
    OBVIOUS
  <2>2. Pushed(st, f, s) /\ f.obj = n /\ f.fn \notin {"gcdtor", "gcfree"} /\ FollowOK(st)
    BY <1>1
  <2> QED
    BY ONLY <2>1, <2>2, FollowPush, st \in Seq(Frame)
<1>3. s # <<>> /\ s[Len(s)] = f
  BY <1>1 DEF Pushed
<1>4. FollowOK(st2) /\ Objs(st2) = Objs(s) \union {n}
  <2>1. Pushed(s, f2, st2) /\ f2.obj = n /\ f2.fn \notin {"gcdtor", "gcfree"} /\ s \in Seq(Frame)
        /\ (s[Len(s)].fn = "del" => f2.fn \in {"dtor", "full"} /\ f2.obj = s[Len(s)].obj)
    BY <1>1, <1>3
  <2> QED
    BY ONLY <2>1, <1>2, FollowPush
<1>5. DelOK(h2, st2)
  BY <1>1 DEF DelOK, Pushed
<1> QED
  BY <1>2, <1>4, <1>5 DEF Anchored, Rooted

\* A dead node has a call that frees it, or an entry.
LEMMA DeadKnown ==
    ASSUME NEW al, NEW o, NEW h, NEW g, NEW c, NEW st, EmptyOK(al, o, h, g, c, st, FALSE),
           al \in SUBSET Node, h \in [Node -> Hdr], g \in Globals, BufOK(al, h, g), NEW n \in al, Dead(h, n)
    PROVE  n \in Objs(st) \/ n \in Rooted(h)
<1>1. CASE \E k \in 1..Len(st) : st[k].fn = "efree" /\ st[k].obj = n
  BY <1>1 DEF Objs
<1>2. CASE \E i \in Used(g) : g.buf[i].ref = n
  <2>1. Entries(al, h, g)
    BY DEF BufOK
  <2>2. h[n].addr # 0
    BY <2>1, <1>2, UsedFacts
  <2> QED
    BY <2>2 DEF Rooted
<1> QED
  BY <1>1, <1>2 DEF EmptyOK

\* rc_dtor_func keeps what is known.
LEMMA RcDtorKeeps ==
    ASSUME NEW al, NEW o, NEW hd, NEW g, NEW c, NEW st, NEW n \in al,
           Steady(al, o, hd, hdr, g, c, st, FALSE, ran, n),
           NEW h1, h1 = [hdr EXCEPT ![n].rc = @ - 1], FollowOK(st),
           st # <<>> => st[Len(st)].fn # "del", rc_dtor_func(h1, g, n, st)
    PROVE  Anchored(hdr, st, n, hdr', stack')
<1>0. /\ Types(al, o, hd, hdr, g, c, st, ran) /\ BufOK(al, hdr, g)
      /\ EmptyOK(al, o, hdr, g, c, st, FALSE) /\ DeadOK(al, o, hd, hdr, st, Gar(g), n)
  BY DEF Steady
<1>1. /\ al \in SUBSET Node /\ hdr \in [Node -> Hdr] /\ st \in Seq(Frame) /\ n \in Node
      /\ g \in Globals
  BY <1>0 DEF Types
<1>2. Lessened(hdr, n, h1)
  BY ONLY <1>1, h1 = [hdr EXCEPT ![n].rc = @ - 1], LessOne
<1>3. h1 \in [Node -> Hdr] /\ SameFlags(hdr, h1)
  BY <1>2 DEF Lessened
<1>4. /\ h1[n].null = hdr[n].null /\ h1[n].freed = hdr[n].freed
      /\ \A y \in Node : h1[y].addr = hdr[y].addr
  BY <1>1, <1>3 DEF SameFlags, SameMarks
<1>5. CASE hdr[n].null
  <2>1. hdr' = h1 /\ stack' = st \o <<>>
    BY <1>4, <1>5 DEF rc_dtor_func
  <2>2. st \o <<>> = st
    BY <1>1
  <2>3. n \in Objs(st) \/ n \in Rooted(hdr)
    <3>1. Dead(hdr, n) /\ n \in al
      BY <1>5 DEF Dead
    <3> QED
      BY ONLY <3>1, <1>0, <1>1, DeadKnown
  <2> QED
    BY <2>1, <2>2, <2>3, <1>4 DEF Anchored, Rooted, DelOK
<1>6. CASE ~hdr[n].null
  <2>0. ~hdr[n].freed
    BY <1>0, <1>6 DEF DeadOK, Lone
  <2>1. PICK f, f2 : /\ f \in Frame /\ f2 \in Frame /\ f.obj = n /\ f2.obj = n
                     /\ f.fn \notin {"gcdtor", "gcfree"} /\ f2.fn \notin {"gcdtor", "gcfree", "del"}
                     /\ (f.fn = "del" => f2.fn = "dtor") /\ stack' = st \o <<f, f2>>
    <3>1. \/ stack' = st \o <<Call("efree", n), Call("free", n)>>
          \/ stack' = st \o <<Call("del", n), Call("dtor", n)>>
      <4>1. ~h1[n].null /\ ~h1[n].freed /\ rc_dtor_func(h1, g, n, st)
        BY <2>0, <1>4, <1>6
      <4> QED
        BY ONLY <4>1 DEF rc_dtor_func
    <3>2. /\ Call("efree", n) \in Frame /\ Call("free", n) \in Frame /\ Call("del", n) \in Frame
          /\ Call("dtor", n) \in Frame
      BY <1>1 DEF Call, Frame, Fns
    <3>3. CASE stack' = st \o <<Call("efree", n), Call("free", n)>>
      BY <3>2, <3>3 DEF Call
    <3>4. CASE stack' = st \o <<Call("del", n), Call("dtor", n)>>
      BY <3>2, <3>4 DEF Call
    <3> QED
      BY <3>1, <3>3, <3>4
  <2>2. \A y \in Node : y # n => hdr'[y] = h1[y]
    <3>1. ~h1[n].null /\ ~h1[n].freed /\ rc_dtor_func(h1, g, n, st)
      BY <2>0, <1>4, <1>6
    <3>2. \/ hdr' = [NoInfo(h1, n) EXCEPT ![n].null = TRUE]
          \/ hdr' = [h1 EXCEPT ![n].dtored = TRUE, ![n].rc = 2]
          \/ hdr' = [h1 EXCEPT ![n].dtored = TRUE, ![n].freed = TRUE, ![n].rc = 1]
      BY ONLY <3>1 DEF rc_dtor_func
    <3> QED
      BY <3>2, <1>3 DEF NoInfo
  <2>3. \A y \in Node : y # n /\ hdr[y].addr # 0 => hdr'[y].addr # 0
    BY <2>2, <1>4
  <2>4. FollowOK(st) /\ (st # <<>> => st[Len(st)].fn # "del")
    OBVIOUS
  <2> QED
    BY ONLY <2>1, <2>3, <2>4, <1>1, PushAnchors
<1> QED
  BY <1>5, <1>6

\* gc_possible_root keeps its node as an entry.
LEMMA AddRootKeeps ==
    ASSUME NEW al \in SUBSET Node, NEW h \in [Node -> Hdr], NEW g \in Globals, NEW st, NEW n \in al,
           BufOK(al, h, g), ~g.full, h[n].addr = 0, AddRoot(h, g, n, st), ~gc'.full, FollowOK(st),
           st # <<>> /\ st[Len(st)].fn = "del" => st[Len(st)].obj = n
    PROVE  Anchored(h, st, n, hdr', stack') /\ NewRoot(al, h, g, n, hdr', gc') /\ stack' = st
<1>1. /\ hdr' = Enter(h, g, n, "root", "purple").hdr /\ gc' = Enter(h, g, n, "root", "purple").gc
      /\ stack' = st
  BY DEF AddRoot
<1>2. NewRoot(al, h, g, n, hdr', gc')
  BY <1>1, EnterIsNew
<1> DEFINE tag == "root"
           color == "purple"
<1>3. tag \in {"root", "garbage", "dtor"} /\ color \in Colors /\ n \in Node
  BY DEF Colors
<1>4. PICK i \in 1..(MaxBufSize - 1) : Entered(al, h, g, n, tag, color, hdr', gc', i)
  BY <1>2 DEF NewRoot
<1> HIDE DEF tag, color
<1>5. HdrEntered(h, n, color, hdr')
  <2>1. al \in SUBSET Node /\ h \in [Node -> Hdr] /\ Entered(al, h, g, n, tag, color, hdr', gc', i)
    BY <1>4
  <2> QED
    BY ONLY <2>1, <1>3, EnteredHdr
<1>6. hdr'[n].addr # 0 /\ \A y \in Node : h[y].addr # 0 => hdr'[y].addr # 0
  BY <1>5 DEF HdrEntered
<1> QED
  BY <1>1, <1>2, <1>3, <1>6 DEF Anchored, Rooted, DelOK

\* zend_gc_collect_cycles, entered or not, keeps all entries.
LEMMA CollectKeeps ==
    ASSUME NEW al \in SUBSET Node, NEW h \in [Node -> Hdr], gc \in Globals, BufOK(al, h, gc),
           NEW st \in Seq(Frame), FollowOK(st), st # <<>> => st[Len(st)].fn # "del",
           gc_collect_cycles(h, st)
    PROVE  /\ \A y : y \in Objs(st) \/ y \in Rooted(h) => y \in Objs(stack') \/ y \in Rooted(hdr')
           /\ FollowOK(stack') /\ DelOK(hdr', stack') /\ (col' = col \/ col'.pc = "start")
<1>1. CASE ~Installed \/ (Installed /\ gc.num_roots # 0 /\ gc.active)
  <2>1. hdr' = h /\ stack' = st /\ col' = col
    BY ONLY <1>1, gc_collect_cycles(h, st) DEF gc_collect_cycles
  <2> QED
    BY <2>1 DEF DelOK
<1>2. CASE Installed /\ gc.num_roots = 0
  <2> DEFINE r == gc_compact(h, gc)
  <2>1. hdr' = r.hdr /\ stack' = st /\ col' = col
    BY ONLY <1>2, gc_collect_cycles(h, st) DEF gc_collect_cycles
  <2>2. /\ Entries(al, h, gc) /\ (UnusedAt(gc) = {} => gc.unused = 0) /\ r = gc_compact(h, gc)
        /\ al \in SUBSET Node /\ h \in [Node -> Hdr] /\ gc \in Globals
    BY DEF BufOK, Listed
  <2> HIDE DEF r
  <2>3. Compacted(al, h, gc, r)
    BY ONLY <2>2, CompactFacts
  <2>4. \A y \in Node : h[y].addr # 0 => hdr'[y].addr # 0
    BY ONLY <2>1, <2>3 DEF Compacted, SameBut
  <2> QED
    BY <2>1, <2>4 DEF DelOK, Rooted
<1>3. CASE Installed /\ gc.num_roots # 0 /\ ~gc.active
  <2> DEFINE f == Call("gc", Null)
  <2>1. hdr' = h /\ stack' = Append(st, f) /\ col' = [Idle EXCEPT !.pc = "start"]
    BY ONLY <1>3, gc_collect_cycles(h, st) DEF gc_collect_cycles
  <2>2. f \in Frame /\ f.fn = "gc"
    BY DEF Call, Frame, Fns
  <2> HIDE DEF f
  <2>3. Pushed(st, f, stack')
    BY <2>1, <2>2, PushAppend
  <2>4. FollowOK(stack') /\ Objs(stack') = Objs(st) \union {f.obj}
    <3>1. st \in Seq(Frame) /\ FollowOK(st) /\ (st # <<>> => st[Len(st)].fn # "del")
      OBVIOUS
    <3>2. f.fn \notin {"gcdtor", "gcfree"}
      BY <2>2
    <3> QED
      BY ONLY <3>1, <3>2, <2>3, FollowPush
  <2>5. col'.pc = "start"
    BY <2>1 DEF Idle
  <2>6. DelOK(hdr', stack')
    BY <2>2, <2>3 DEF DelOK, Pushed
  <2> QED
    BY <2>1, <2>4, <2>5, <2>6
<1> QED
  BY <1>1, <1>2, <1>3

\* A reference to n goes, and n is kept by a call or as an entry.
LEMMA ReleaseKeeps ==
    ASSUME NEW al, NEW o, NEW hd, NEW st, NEW n \in al,
           Steady(al, o, hd, hdr, gc, col, st, FALSE, ran, n), Release(n, st),
           ~gc.full, ~gc'.full, ~gc'.protected, FollowOK(st),
           st # <<>> /\ st[Len(st)].fn = "del" => st[Len(st)].obj = n /\ hdr[n].rc # 1
    PROVE  Anchored(hdr, st, n, hdr', stack') /\ (col' = col \/ col'.pc = "start")
<1> DEFINE h1 == [hdr EXCEPT ![n].rc = @ - 1]
<1>0. Types(al, o, hd, hdr, gc, col, st, ran) /\ BufOK(al, hdr, gc) /\ ColorOK(hdr, gc)
  BY DEF Steady
<1>1. /\ al \in SUBSET Node /\ hdr \in [Node -> Hdr] /\ st \in Seq(Frame) /\ n \in Node
      /\ gc \in Globals
  BY <1>0 DEF Types
<1>2. h1 = [hdr EXCEPT ![n].rc = @ - 1]
  OBVIOUS
<1>3. /\ h1[n].rc = 0 => rc_dtor_func(h1, gc, n, st) /\ col' = col
      /\ h1[n].rc # 0 /\ ~Info(h1[n]) => gc_possible_root(h1, n, st)
      /\ h1[n].rc # 0 /\ Info(h1[n]) => hdr' = h1 /\ stack' = st /\ col' = col
  BY DEF Release
<1>4. /\ Steady(al, o, hd, hdr, gc, col, st, FALSE, ran, n) /\ n \in al
      /\ ~gc.full /\ ~gc'.full /\ ~gc'.protected /\ FollowOK(st)
      /\ (st # <<>> /\ st[Len(st)].fn = "del" => st[Len(st)].obj = n /\ hdr[n].rc # 1)
  OBVIOUS
<1> HIDE DEF h1
<1>5. Lessened(hdr, n, h1)
  BY ONLY <1>1, <1>2, LessOne
<1>6. h1 \in [Node -> Hdr] /\ SameFlags(hdr, h1) /\ h1[n].rc = hdr[n].rc - 1
  BY ONLY <1>5 DEF Lessened
<1>7. \A y \in Node : h1[y].addr = hdr[y].addr /\ h1[y].color = hdr[y].color
  BY ONLY <1>6 DEF SameFlags, SameMarks
<1>8. hdr[n].addr = 0 => hdr[n].color = "black"
  BY <1>0, <1>1 DEF ColorOK
<1>9. CASE h1[n].rc = 0
  <2>1. hdr[n].rc = 1
    BY <1>1, <1>6, <1>9 DEF Hdr
  <2>2. st # <<>> => st[Len(st)].fn # "del"
    BY <2>1, <1>4
  <2>3. rc_dtor_func(h1, gc, n, st) /\ col' = col
    BY <1>3, <1>9
  <2>4. Anchored(hdr, st, n, hdr', stack')
    BY ONLY <2>2, <2>3, <1>2, <1>4, RcDtorKeeps
  <2> QED
    BY <2>3, <2>4
<1>10. CASE h1[n].rc # 0 /\ Info(h1[n])
  <2>1. hdr' = h1 /\ stack' = st /\ col' = col
    BY <1>3, <1>10
  <2>2. hdr[n].addr # 0
    BY <1>1, <1>7, <1>8, <1>10 DEF Info
  <2> QED
    BY <2>1, <2>2, <1>1, <1>4, <1>7 DEF Anchored, Rooted, DelOK
<1>11. CASE h1[n].rc # 0 /\ ~Info(h1[n])
  <2>0. h1[n].addr = 0 /\ gc_possible_root(h1, n, st)
    BY <1>3, <1>11 DEF Info
  <2>1. ~gc.protected
    BY ONLY <2>0, <1>4 DEF gc_possible_root
  <2>2. CASE gc.unused = 0 /\ gc.first_unused >= gc.threshold /\ gc.enabled /\ ~gc.active
    <3> DEFINE f == Call("full", n)
               s == Append(st, f)
               h3 == [h1 EXCEPT ![n].rc = @ + 1]
    <3>1. gc_collect_cycles(h3, s)
      BY ONLY <2>0, <2>1, <2>2 DEF gc_possible_root
    <3>2. h3 \in [Node -> Hdr] /\ \A y \in Node : h3[y].addr = hdr[y].addr
      <4> DEFINE d == 1
      <4>1. h3 = [h1 EXCEPT ![n].rc = @ + d] /\ d \in Int /\ n \in Node /\ h1 \in [Node -> Hdr]
        BY <1>1, <1>6
      <4> HIDE DEF d, h3
      <4>2. Counted(h1, n, d, h3)
        BY ONLY <4>1, CountFacts
      <4> QED
        BY ONLY <4>2, <1>7 DEF Counted, SameFlags, SameMarks
    <3>3. f = Call("full", n) /\ f \in Frame /\ f.fn = "full" /\ f.obj = n
      BY <1>1 DEF Call, Frame, Fns
    <3> HIDE DEF f, h3
    <3>4. Pushed(st, f, s) /\ s \in Seq(Frame)
      BY ONLY <3>3, <1>1, PushAppend
    <3> HIDE DEF s
    <3>5. s # <<>> => s[Len(s)].fn # "del"
      BY <3>3, <3>4 DEF Pushed
    <3>6. FollowOK(s) /\ Objs(s) = Objs(st) \union {n}
      <4>1. f.fn \in {"dtor", "full"} /\ f.fn \notin {"gcdtor", "gcfree"} /\ f.obj = n
        BY <3>3
      <4> QED
        BY ONLY <4>1, <3>4, <1>1, <1>4, FollowPush
    <3>7. BufOK(al, h3, gc)
      BY ONLY <3>2, <1>0, <1>1, BufHdr
    <3>8. /\ \A y : y \in Objs(s) \/ y \in Rooted(h3) => y \in Objs(stack') \/ y \in Rooted(hdr')
          /\ FollowOK(stack') /\ DelOK(hdr', stack') /\ (col' = col \/ col'.pc = "start")
      BY ONLY <3>1, <3>2, <3>4, <3>5, <3>6, <3>7, <1>1, CollectKeeps
    <3> QED
      BY <3>2, <3>6, <3>8 DEF Anchored, Rooted
  <2>3. CASE ~(gc.unused = 0 /\ gc.first_unused >= gc.threshold /\ gc.enabled /\ ~gc.active)
    <3>1. AddRoot(h1, gc, n, st) /\ col' = col
      BY ONLY <2>0, <2>1, <2>3 DEF gc_possible_root
    <3>2. BufOK(al, h1, gc)
      BY ONLY <1>0, <1>1, <1>6, <1>7, BufHdr
    <3>3. Anchored(h1, st, n, hdr', stack')
      BY ONLY <3>1, <3>2, <2>0, <1>1, <1>4, <1>6, AddRootKeeps
    <3> QED
      BY <3>1, <3>3, <1>7 DEF Anchored, Rooted
  <2> QED
    BY <2>2, <2>3
<1> QED
  BY <1>9, <1>10, <1>11

\* The state between the traversals, as the next lemmas use it.
LEMMA CalmKept ==
    ASSUME Calm, Kept
    PROVE  /\ Steady(alloc, out, held, hdr, gc, col, stack, FALSE, ran, Null) /\ ~bailed
           /\ Led(alloc, out, Anchors(held, hdr, stack), alloc)
           /\ FollowOK(stack) /\ DelOK(hdr, stack)
           /\ Types(alloc, out, held, hdr, gc, col, stack, ran) /\ BufOK(alloc, hdr, gc)
           /\ StackOK(alloc, hdr, gc, col, stack)
           /\ alloc \in SUBSET Node /\ held \in SUBSET Node /\ hdr \in [Node -> Hdr] /\ gc \in Globals
           /\ stack \in Seq(Frame) /\ col \in Locals /\ out \in [Node -> SUBSET Node]
           /\ (stack = <<>> \/ stack[Len(stack)].fn # "gc") => col.pc \in {"idle", "dtors", "destroy"}
           /\ stack = <<>> => col.pc = "idle"
           /\ col.pc = "dtors" => col.rerun
           /\ col.pc \in {"destroy", "finish"} /\ ~col.rerun =>
                 Spares(alloc, out, held, hdr, gc, stack)
<1>1. Steady(alloc, out, held, hdr, gc, col, stack, bailed, ran, Null) /\ col.pc \in SteadyPcs
  BY DEF Calm
<1>2. /\ Types(alloc, out, held, hdr, gc, col, stack, ran) /\ BufOK(alloc, hdr, gc)
      /\ StackOK(alloc, hdr, gc, col, stack)
  BY <1>1 DEF Steady
<1>3. /\ alloc \in SUBSET Node /\ held \in SUBSET Node /\ hdr \in [Node -> Hdr] /\ gc \in Globals
      /\ stack \in Seq(Frame) /\ col \in Locals /\ out \in [Node -> SUBSET Node]
  BY <1>2 DEF Types
<1>4. Len(stack) \in Nat /\ (stack = <<>> <=> Len(stack) = 0)
  BY <1>3
<1>5. stack = <<>> => col.pc = "idle"
  <2>1. stack = <<>> => ~ \E k \in 1..Len(stack) : stack[k].fn = "gc"
    BY <1>4
  <2> QED
    BY <2>1, <1>2 DEF StackOK
<1>6. (stack = <<>> \/ stack[Len(stack)].fn # "gc") => col.pc \in {"idle", "dtors", "destroy"}
  <2> SUFFICES ASSUME stack # <<>>, stack[Len(stack)].fn # "gc", col.pc # "idle"
               PROVE  col.pc \in {"dtors", "destroy"}
    BY <1>5
  <2>1. PICK k \in 1..Len(stack) : stack[k].fn = "gc"
    BY <1>2 DEF StackOK
  <2>2. k < Len(stack)
    BY <2>1, <1>4
  <2> QED
    BY <2>1, <2>2, <1>2 DEF StackOK
<1>7. /\ ~bailed /\ FollowOK(stack) /\ DelOK(hdr, stack)
      /\ Keeps(alloc, out, held, hdr, gc, col, stack)
  BY DEF Kept
<1>8. Steady(alloc, out, held, hdr, gc, col, stack, FALSE, ran, Null)
  <2>1. RcOK(alloc, out, held, hdr, stack, FALSE, Null, {})
    BY <1>1, <1>7 DEF Steady, RcOK
  <2>2. EmptyOK(alloc, out, hdr, gc, col, stack, FALSE)
    BY <1>1, <1>7 DEF Steady, EmptyOK
  <2> QED
    BY <2>1, <2>2, <1>1 DEF Steady
<1>9. col.pc \notin {"scan", "collect"}
  BY <1>1 DEF SteadyPcs
<1>10. /\ Led(alloc, out, Anchors(held, hdr, stack), alloc)
       /\ col.pc = "dtors" => col.rerun
       /\ col.pc \in {"destroy", "finish"} /\ ~col.rerun => Spares(alloc, out, held, hdr, gc, stack)
  BY ONLY <1>7, <1>9 DEF Keeps
<1> QED
  BY ONLY <1>2, <1>3, <1>5, <1>6, <1>7, <1>8, <1>10

\* The calls of a collection without destructors only free nodes.
LEMMA SparesTop ==
    ASSUME Calm, Kept, stack # <<>> => stack[Len(stack)].fn \notin {"gc", "gcfree", "free", "efree"}
    PROVE  ~(col.pc \in {"destroy", "finish"} /\ ~col.rerun)
<1> SUFFICES ASSUME col.pc \in {"destroy", "finish"}, ~col.rerun PROVE FALSE
  OBVIOUS
<1>1. /\ Spares(alloc, out, held, hdr, gc, stack) /\ stack # <<>> /\ stack \in Seq(Frame)
      /\ StackOK(alloc, hdr, gc, col, stack)
  BY CalmKept
<1>2. PICK k \in 1..Len(stack) : stack[k].fn = "gc"
  BY <1>1 DEF StackOK
<1>3. Len(stack) \in 1..Len(stack)
  BY <1>1
<1>4. k # Len(stack)
  BY <1>1, <1>2
<1>5. k < Len(stack)
  BY <1>1, <1>3, <1>4
<1> QED
  BY <1>1, <1>2, <1>3, <1>5 DEF Spares

\* What a step between the traversals must show.
LEMMA KeptCalm ==
    ASSUME Calm, Kept, stack = <<>> \/ stack[Len(stack)].fn # "gc",
           bailed' = bailed, col' = col \/ col'.pc \in {"start", "idle"},
           FollowOK(stack'), DelOK(hdr', stack'),
           Led(alloc', out', Anchors(held', hdr', stack'), alloc'),
           col.pc \in {"destroy", "finish"} /\ ~col.rerun /\ col' = col =>
              Spares(alloc', out', held', hdr', gc', stack')
    PROVE  Kept'
<1>1. ~bailed /\ col.pc \in {"idle", "dtors", "destroy"} /\ (col.pc = "dtors" => col.rerun)
  BY CalmKept
<1>2. Keeps(alloc', out', held', hdr', gc', col', stack')
  <2>1. CASE col' = col
    BY <2>1, <1>1 DEF Keeps
  <2>2. CASE col'.pc \in {"start", "idle"}
    BY <2>2 DEF Keeps
  <2> QED
    BY <2>1, <2>2
<1> QED
  BY <1>1, <1>2 DEF Kept

\* A reference to n goes, or what kept n.
Less(o, hd, st, n, o2, hd2, st2) ==
    /\ \A y \in hd : y \in hd2 \/ y = n
    /\ \A y \in Objs(st) : y \in Objs(st2) \/ y = n
    /\ \A m \in Node : \A y \in o[m] : y \in o2[m] \/ y = n
\* All is still known as long as n is.
LEMMA LedLess ==
    ASSUME NEW al \in SUBSET Node, NEW o, NEW hd, NEW h, NEW st, Led(al, o, Anchors(hd, h, st), al),
           NEW n, NEW o2, NEW hd2, NEW s, Less(o, hd, st, n, o2, hd2, s),
           NEW h2, NEW st2, Anchored(h, s, n, h2, st2)
    PROVE  Led(al, o2, Anchors(hd2, h2, st2), al)
<1> DEFINE B == Anchors(hd, h, st)
           B2 == Anchors(hd2, h2, st2)
           X == {}
<1>1. n \in B2
  BY DEF Anchored, Anchors
<1>2. \A y \in B : y \in B2
  BY <1>1 DEF Anchored, Anchors, Less
<1>3. \A m \in al : \A y \in o[m] : y \in o2[m] \/ y \in B2
  BY <1>1 DEF Less
<1> HIDE DEF B, B2
<1>4. LedOn(al, o, B, al, al, o2, B2, al, X)
  BY <1>2, <1>3 DEF LedOn
<1>5. Led(al, o, B, al)
  BY DEF B
<1> HIDE DEF X
<1>6. Led(al, o2, B2, al)
  BY ONLY <1>4, <1>5, LedMove
<1> QED
  BY <1>6 DEF B2

\* The program runs at the top level or in a destructor.
LEMMA ProgramKept ==
    ASSUME Calm, Kept, ProgramRuns
    PROVE  /\ stack # <<>> => stack[Len(stack)].fn = "dtor"
           /\ stack = <<>> \/ stack[Len(stack)].fn # "gc"
           /\ ~(col.pc \in {"destroy", "finish"} /\ ~col.rerun)
<1>1. stack # <<>> => stack[Len(stack)].fn = "dtor"
  BY DEF ProgramRuns, Running
<1>2. ~(col.pc \in {"destroy", "finish"} /\ ~col.rerun)
  BY <1>1, SparesTop
<1> QED
  BY <1>1, <1>2

\* The program adds references.
LEMMA ProgramGrows ==
    ASSUME Calm, Kept, ProgramRuns, stack' = stack, col' = col, bailed' = bailed,
           \A y \in Node : hdr[y].addr # 0 => hdr'[y].addr # 0 \/ y \in held',
           \A y \in held : y \in held', \A m \in alloc : m \in alloc' /\ out[m] \subseteq out'[m],
           \A y \in alloc' : y \in alloc \/ y \in held'
    PROVE  Kept'
<1>1. /\ Led(alloc, out, Anchors(held, hdr, stack), alloc) /\ FollowOK(stack)
      /\ alloc \in SUBSET Node
  BY CalmKept
<1>2. /\ stack # <<>> => stack[Len(stack)].fn = "dtor"
      /\ stack = <<>> \/ stack[Len(stack)].fn # "gc"
      /\ ~(col.pc \in {"destroy", "finish"} /\ ~col.rerun)
  BY ProgramKept
<1>3. FollowOK(stack') /\ DelOK(hdr', stack')
  BY <1>1, <1>2 DEF DelOK
<1>4. Led(alloc', out', Anchors(held', hdr', stack'), alloc')
  <2> DEFINE B == Anchors(held, hdr, stack)
             B2 == Anchors(held', hdr', stack')
             X == {}
  <2>1. \A y \in B : y \in B2
    BY DEF Anchors, Rooted
  <2>2. \A y \in alloc' : y \in alloc \/ y \in B2
    BY DEF Anchors
  <2>3. Led(alloc, out, B, alloc)
    BY <1>1
  <2> HIDE DEF B, B2
  <2>4. LedOn(alloc, out, B, alloc, alloc', out', B2, alloc', X)
    BY <2>1, <2>2 DEF LedOn
  <2> HIDE DEF X
  <2>5. Led(alloc', out', B2, alloc')
    BY ONLY <2>3, <2>4, LedMove
  <2> QED
    BY <2>5 DEF B2
<1> QED
  BY <1>2, <1>3, <1>4, KeptCalm

\* A new node has a variable.
LEMMA NewKept == ASSUME NEW n \in Node, Calm, Kept, New(n) PROVE Kept'
<1>1. /\ ProgramRuns /\ n \notin alloc /\ alloc' = alloc \union {n} /\ held' = held \union {n}
      /\ out' = [out EXCEPT ![n] = {}] /\ hdr' = [hdr EXCEPT ![n] = [FreshHdr EXCEPT !.rc = 1]]
      /\ col' = col /\ stack' = stack /\ bailed' = bailed
  BY DEF New
<1>2. hdr \in [Node -> Hdr] /\ out \in [Node -> SUBSET Node] /\ alloc \in SUBSET Node
  BY CalmKept
<1>3. \A y \in Node : hdr[y].addr # 0 => hdr'[y].addr # 0 \/ y \in held'
  BY <1>1, <1>2
<1>4. \A m \in alloc : m \in alloc' /\ out[m] \subseteq out'[m]
  BY <1>1, <1>2
<1>5. (\A y \in held : y \in held') /\ \A y \in alloc' : y \in alloc \/ y \in held'
  BY <1>1
<1> QED
  BY <1>1, <1>3, <1>4, <1>5, ProgramGrows

\* A count that changes leaves the addresses alone.
LEMMA CountAddr ==
    ASSUME NEW h \in [Node -> Hdr], NEW n \in Node, NEW d \in Int, NEW h2, h2 = [h EXCEPT ![n].rc = @ + d]
    PROVE  \A y \in Node : h2[y].addr = h[y].addr
<1>1. Counted(h, n, d, h2)
  BY CountFacts
<1> QED
  BY <1>1 DEF Counted, SameFlags, SameMarks

\* A variable more.
LEMMA TakeKept == ASSUME NEW n \in Node, Calm, Kept, Take(n) PROVE Kept'
<1>1. /\ ProgramRuns /\ held' = held \union {n} /\ hdr' = [hdr EXCEPT ![n].rc = @ + 1]
      /\ alloc' = alloc /\ out' = out /\ col' = col /\ stack' = stack /\ bailed' = bailed
  BY DEF Take
<1>2. hdr \in [Node -> Hdr]
  BY CalmKept
<1>3. \A y \in Node : hdr'[y].addr = hdr[y].addr
  <2> DEFINE d == 1
  <2>1. hdr' = [hdr EXCEPT ![n].rc = @ + d] /\ d \in Int
    BY <1>1
  <2> HIDE DEF d
  <2> QED
    BY ONLY <2>1, <1>2, n \in Node, CountAddr
<1> QED
  BY <1>1, <1>3, ProgramGrows

\* A reference more.
LEMMA SetElementKept == ASSUME NEW m \in Node, NEW n \in Node, Calm, Kept, SetElement(m, n) PROVE Kept'
<1>1. /\ ProgramRuns /\ out' = [out EXCEPT ![m] = @ \union {n}] /\ hdr' = [hdr EXCEPT ![n].rc = @ + 1]
      /\ alloc' = alloc /\ held' = held /\ col' = col /\ stack' = stack /\ bailed' = bailed
  BY DEF SetElement
<1>2. hdr \in [Node -> Hdr] /\ out \in [Node -> SUBSET Node] /\ alloc \in SUBSET Node
  BY CalmKept
<1>3. \A y \in Node : hdr'[y].addr = hdr[y].addr
  <2> DEFINE d == 1
  <2>1. hdr' = [hdr EXCEPT ![n].rc = @ + d] /\ d \in Int
    BY <1>1
  <2> HIDE DEF d
  <2> QED
    BY ONLY <2>1, <1>2, n \in Node, CountAddr
<1>4. \A k \in alloc : k \in alloc' /\ out[k] \subseteq out'[k]
  BY <1>1, <1>2
<1> QED
  BY <1>1, <1>3, <1>4, ProgramGrows

\* gc_enable and gc_disable.
LEMMA EnableKept == ASSUME NEW on, Calm, Kept, gc_enable(on) PROVE Kept'
<1>1. /\ ProgramRuns /\ alloc' = alloc /\ held' = held /\ out' = out /\ hdr' = hdr
      /\ col' = col /\ stack' = stack /\ bailed' = bailed
  BY DEF gc_enable, heap
<1> QED
  BY <1>1, ProgramGrows

\* A reference is given up by the program, or by a call that returns.
LEMMA LessKept ==
    ASSUME Calm, Kept, stack = <<>> \/ stack[Len(stack)].fn # "gc", NEW n, NEW s,
           Less(out, held, stack, n, out', held', s), Anchored(hdr, s, n, hdr', stack'),
           alloc' = alloc, bailed' = bailed, col' = col \/ col'.pc \in {"start", "idle"},
           col.pc \in {"destroy", "finish"} /\ ~col.rerun /\ col' = col =>
              Spares(alloc', out', held', hdr', gc', stack')
    PROVE  Kept'
<1>1. Led(alloc, out, Anchors(held, hdr, stack), alloc) /\ alloc \in SUBSET Node
  BY CalmKept
<1>2. Less(out, held, stack, n, out', held', s) /\ Anchored(hdr, s, n, hdr', stack')
  OBVIOUS
<1>3. Led(alloc, out', Anchors(held', hdr', stack'), alloc)
  BY ONLY <1>1, <1>2, LedLess
<1>4. FollowOK(stack') /\ DelOK(hdr', stack')
  BY DEF Anchored
<1> QED
  BY <1>3, <1>4, KeptCalm

\* gc_collect_cycles().
LEMMA CollectFunctionKept == ASSUME Calm, Kept, ZEND_FUNCTION_gc_collect_cycles PROVE Kept'
<1>1. /\ ProgramRuns /\ gc_collect_cycles(hdr, stack) /\ alloc' = alloc /\ out' = out /\ held' = held
      /\ bailed' = bailed
  BY DEF ZEND_FUNCTION_gc_collect_cycles, heap
<1>2. /\ alloc \in SUBSET Node /\ hdr \in [Node -> Hdr] /\ gc \in Globals /\ BufOK(alloc, hdr, gc)
      /\ stack \in Seq(Frame) /\ FollowOK(stack) /\ Led(alloc, out, Anchors(held, hdr, stack), alloc)
  BY CalmKept
<1>3. /\ stack # <<>> => stack[Len(stack)].fn = "dtor"
      /\ stack = <<>> \/ stack[Len(stack)].fn # "gc"
      /\ ~(col.pc \in {"destroy", "finish"} /\ ~col.rerun)
  BY <1>1, ProgramKept
<1>4. stack # <<>> => stack[Len(stack)].fn # "del"
  BY <1>3
<1>5. /\ \A y : y \in Objs(stack) \/ y \in Rooted(hdr) => y \in Objs(stack') \/ y \in Rooted(hdr')
      /\ FollowOK(stack') /\ DelOK(hdr', stack') /\ (col' = col \/ col'.pc = "start")
  BY ONLY <1>1, <1>2, <1>4, CollectKeeps
<1>6. Led(alloc', out', Anchors(held', hdr', stack'), alloc')
  <2>1. Anchors(held, hdr, stack) \subseteq Anchors(held', hdr', stack')
    BY <1>1, <1>5 DEF Anchors
  <2>2. Led(alloc, out, Anchors(held', hdr', stack'), alloc)
    BY <2>1, <1>2, LedMore
  <2> QED
    BY <2>2, <1>1
<1> QED
  BY <1>1, <1>3, <1>5, <1>6, KeptCalm

\* A variable less.
LEMMA DropVariableKept ==
    ASSUME NEW n \in Node, Calm, Kept, DropVariable(n), ~gc.full, ~gc'.full, ~gc'.protected PROVE Kept'
<1>1. /\ ProgramRuns /\ n \in held /\ held' = held \ {n} /\ Release(n, stack)
      /\ alloc' = alloc /\ out' = out /\ bailed' = bailed
  BY DEF DropVariable
<1>2. /\ Steady(alloc, out, held, hdr, gc, col, stack, FALSE, ran, Null) /\ held \in SUBSET Node
      /\ FollowOK(stack)
  BY CalmKept
<1>3. /\ stack # <<>> => stack[Len(stack)].fn = "dtor"
      /\ stack = <<>> \/ stack[Len(stack)].fn # "gc"
      /\ ~(col.pc \in {"destroy", "finish"} /\ ~col.rerun)
  BY <1>1, ProgramKept
<1>4. held' \in SUBSET Node /\ \A y \in Node : y \in held' <=> y \in held /\ y # n
  BY <1>1, <1>2
<1>5. Steady(alloc, out, held', hdr, gc, col, stack, FALSE, ran, n)
  BY ONLY <1>1, <1>2, <1>4, DropHeld
<1>6. n \in alloc
  BY <1>1, <1>2 DEF Steady, Closed
<1>7. Anchored(hdr, stack, n, hdr', stack') /\ (col' = col \/ col'.pc = "start")
  <2>1. ~gc.full /\ ~gc'.full /\ ~gc'.protected /\ (stack # <<>> => stack[Len(stack)].fn # "del")
    BY <1>3
  <2> QED
    BY ONLY <2>1, <1>1, <1>2, <1>5, <1>6, ReleaseKeeps
<1>8. Less(out, held, stack, n, out', held', stack)
  BY <1>1 DEF Less
<1>9. Calm /\ Kept /\ (col' = col \/ col'.pc \in {"start", "idle"})
  BY <1>7
<1> QED
  BY ONLY <1>1, <1>3, <1>7, <1>8, <1>9, LessKept

\* A reference less.
LEMMA UnsetElementKept ==
    ASSUME NEW m \in Node, NEW n \in Node, Calm, Kept, UnsetElement(m, n), ~gc.full, ~gc'.full, ~gc'.protected
    PROVE  Kept'
<1>1. /\ ProgramRuns /\ m \in Named /\ n \in out[m] /\ out' = [out EXCEPT ![m] = @ \ {n}]
      /\ Release(n, stack) /\ alloc' = alloc /\ held' = held /\ bailed' = bailed
  BY DEF UnsetElement, Writable
<1>2. /\ Steady(alloc, out, held, hdr, gc, col, stack, FALSE, ran, Null)
      /\ FollowOK(stack) /\ alloc \in SUBSET Node /\ out \in [Node -> SUBSET Node]
  BY CalmKept
<1>3. /\ stack # <<>> => stack[Len(stack)].fn = "dtor"
      /\ stack = <<>> \/ stack[Len(stack)].fn # "gc"
      /\ ~(col.pc \in {"destroy", "finish"} /\ ~col.rerun)
  BY <1>1, ProgramKept
<1>4. m \in alloc /\ n \in alloc
  <2>1. m \in held \/ \E k \in 1..Len(stack) : stack[k].fn = "dtor" /\ stack[k].obj = m
    BY <1>1, ProgramTop
  <2> QED
    BY <2>1, <1>1, <1>2, Alive
<1>5. /\ out' \in [Node -> SUBSET Node] /\ \A y \in Node : y # m => out'[y] = out[y]
      /\ out'[m] = out[m] \ {n}
  BY <1>1, <1>2
<1>6. Steady(alloc, out', held, hdr, gc, col, stack, FALSE, ran, n)
  <2> DEFINE o2 == out'
  <2>1. /\ o2 \in [Node -> SUBSET Node] /\ (\A k \in Node : k # m => o2[k] = out[k])
        /\ o2[m] = out[m] \ {n}
    BY <1>5
  <2>2. m \in alloc /\ n \in out[m] /\ Steady(alloc, out, held, hdr, gc, col, stack, FALSE, ran, Null)
    BY <1>1, <1>2, <1>4
  <2> HIDE DEF o2
  <2>3. Steady(alloc, o2, held, hdr, gc, col, stack, FALSE, ran, n)
    BY ONLY <2>1, <2>2, DropEdge
  <2> QED
    BY <2>3 DEF o2
<1>7. Anchored(hdr, stack, n, hdr', stack') /\ (col' = col \/ col'.pc = "start")
  <2>1. ~gc.full /\ ~gc'.full /\ ~gc'.protected /\ (stack # <<>> => stack[Len(stack)].fn # "del")
    BY <1>3
  <2> QED
    BY ONLY <2>1, <1>1, <1>2, <1>4, <1>6, ReleaseKeeps
<1>8. Less(out, held, stack, n, out', held', stack)
  BY <1>1, <1>5 DEF Less
<1>9. Calm /\ Kept /\ (col' = col \/ col'.pc \in {"start", "idle"})
  BY <1>7
<1> QED
  BY ONLY <1>1, <1>3, <1>7, <1>8, <1>9, LessKept

-----------------------------------------------------------------------------
(* The second invariant: the calls that return.                            *)

\* zend_objects_store_del keeps a reference to its node.
LEMMA DelHolds ==
    ASSUME NEW al, NEW o, NEW hd, NEW h, NEW g, NEW c, NEW st, NEW rn, NEW n \in al,
           Steady(al, o, hd, h, g, c, st, FALSE, rn, n),
           st # <<>>, st[Len(st)].fn = "del", st[Len(st)].obj = n
    PROVE  h[n].rc # 1
<1>1. /\ Types(al, o, hd, h, g, c, st, rn) /\ DeadOK(al, o, hd, h, st, Gar(g), n)
      /\ GarOK(al, o, hd, h, st, Gar(g))
  BY DEF Steady
<1>2. Len(st) \in 1..Len(st)
  BY <1>1 DEF Types
<1>3. ~Dead(h, n)
  <2>1. Dead(h, n) => n \in Gar(g)
    BY <1>1 DEF DeadOK, Lone
  <2>2. n \notin Gar(g)
    BY <1>1, <1>2 DEF GarOK
  <2> QED
    BY <2>1, <2>2
<1>4. h[n].rc = 1 => \A k \in 1..Len(st) : st[k].obj # n
  <2> DEFINE b == FALSE
  <2>1. Steady(al, o, hd, h, g, c, st, b, rn, n) /\ n \in al
    OBVIOUS
  <2> HIDE DEF b
  <2> QED
    BY ONLY <2>1, <1>3, Unreferenced
<1> QED
  BY <1>2, <1>4

\* A call that kept its node returns.
LEMMA PopKept ==
    ASSUME Calm, Kept, stack # <<>>, stack[Len(stack)].fn \in Keepers
    PROVE  /\ Pop \in Seq(Frame) /\ Pushed(Pop, stack[Len(stack)], stack) /\ This \in alloc
           /\ Steady(alloc, out, held, hdr, gc, col, Pop, FALSE, ran, This)
           /\ FollowOK(Pop) /\ Objs(stack) = Objs(Pop) \union {This}
           /\ (Pop # <<>> /\ Pop[Len(Pop)].fn = "del" =>
                  stack[Len(stack)].fn \in {"dtor", "full"} /\ Pop[Len(Pop)].obj = This /\ hdr[This].rc # 1)
<1> DEFINE f == stack[Len(stack)]
           n == This
           s == Pop
<1>1. /\ Steady(alloc, out, held, hdr, gc, col, stack, FALSE, ran, Null) /\ FollowOK(stack)
      /\ StackOK(alloc, hdr, gc, col, stack) /\ stack \in Seq(Frame)
  BY CalmKept
<1>2. n = f.obj /\ f.fn \in Keepers /\ f.fn # "gc"
  BY DEF This, Keepers
<1>3. s \in Seq(Frame) /\ Pushed(s, f, stack) /\ n \in alloc
  BY <1>1, <1>2, TopFacts
<1> HIDE DEF f, n, s
<1>4. Steady(alloc, out, held, hdr, gc, col, s, FALSE, ran, n)
  BY ONLY <1>1, <1>2, <1>3, PopKeeper
<1>5. /\ FollowOK(s) /\ Objs(stack) = Objs(s) \union {f.obj}
      /\ (s # <<>> /\ s[Len(s)].fn = "del" => f.fn \in {"dtor", "full"} /\ f.obj = s[Len(s)].obj)
  BY ONLY <1>1, <1>3, FollowPop
<1>6. s # <<>> /\ s[Len(s)].fn = "del" => hdr[n].rc # 1
  <2> SUFFICES ASSUME s # <<>>, s[Len(s)].fn = "del" PROVE hdr[n].rc # 1
    OBVIOUS
  <2>1. s # <<>> /\ s[Len(s)].fn = "del" /\ s[Len(s)].obj = n
    BY <1>2, <1>5
  <2> QED
    BY ONLY <2>1, <1>3, <1>4, DelHolds
<1> QED
  BY <1>2, <1>3, <1>4, <1>5, <1>6 DEF f, n, s

\* A destructor returns.
LEMMA DestructorReturnsKept ==
    ASSUME Calm, Kept, DestructorReturns, ~gc.full, ~gc'.full, ~gc'.protected PROVE Kept'
<1> DEFINE n == This
           s == Pop
<1>1. /\ stack # <<>> /\ stack[Len(stack)].fn = "dtor" /\ Release(n, s)
      /\ alloc' = alloc /\ out' = out /\ held' = held /\ bailed' = bailed
  BY DEF DestructorReturns, Running, heap
<1>2. stack[Len(stack)].fn \in Keepers
  BY <1>1 DEF Keepers
<1>3. /\ n \in alloc /\ Steady(alloc, out, held, hdr, gc, col, s, FALSE, ran, n)
      /\ FollowOK(s) /\ Objs(stack) = Objs(s) \union {n}
      /\ (s # <<>> /\ s[Len(s)].fn = "del" => s[Len(s)].obj = n /\ hdr[n].rc # 1)
  BY <1>1, <1>2, PopKept
<1>4. ~(col.pc \in {"destroy", "finish"} /\ ~col.rerun)
  BY <1>1, SparesTop
<1> HIDE DEF n, s
<1>5. Anchored(hdr, s, n, hdr', stack') /\ (col' = col \/ col'.pc = "start")
  <2>1. ~gc.full /\ ~gc'.full /\ ~gc'.protected
    OBVIOUS
  <2> QED
    BY ONLY <2>1, <1>1, <1>3, ReleaseKeeps
<1>6. Less(out, held, stack, n, out', held', s)
  BY <1>1, <1>3 DEF Less
<1>7. Calm /\ Kept /\ (col' = col \/ col'.pc \in {"start", "idle"}) /\ stack[Len(stack)].fn # "gc"
  BY <1>1, <1>5
<1> QED
  BY ONLY <1>1, <1>4, <1>5, <1>6, <1>7, LessKept

\* zend_objects_store_del goes on.
LEMMA DelResumesKept ==
    ASSUME Calm, Kept, DelResumes PROVE Kept'
<1> DEFINE n == This
           s == Pop
           h1 == [hdr EXCEPT ![n].rc = @ - 1]
<1>1. /\ stack # <<>> /\ stack[Len(stack)].fn = "del" /\ n = stack[Len(stack)].obj
      /\ h1 = [hdr EXCEPT ![n].rc = @ - 1]
      /\ h1[n].rc = 0 => rc_dtor_func(h1, gc, n, s)
      /\ h1[n].rc # 0 => hdr' = h1 /\ stack' = s
      /\ alloc' = alloc /\ out' = out /\ held' = held /\ bailed' = bailed /\ col' = col
  BY DEF DelResumes, Running, This, heap
<1>2. stack[Len(stack)].fn \in Keepers
  BY <1>1 DEF Keepers
<1>3. /\ n \in alloc /\ Steady(alloc, out, held, hdr, gc, col, s, FALSE, ran, n)
      /\ FollowOK(s) /\ Objs(stack) = Objs(s) \union {n}
      /\ (s # <<>> => s[Len(s)].fn # "del")
  BY <1>1, <1>2, PopKept
<1>4. ~(col.pc \in {"destroy", "finish"} /\ ~col.rerun)
  BY <1>1, SparesTop
<1>5. hdr[n].addr # 0 /\ hdr \in [Node -> Hdr] /\ alloc \in SUBSET Node
  BY <1>1, CalmKept DEF DelOK
<1> HIDE DEF n, s, h1
<1>6. Anchored(hdr, s, n, hdr', stack')
  <2>1. CASE h1[n].rc = 0
    <3>1. rc_dtor_func(h1, gc, n, s) /\ h1 = [hdr EXCEPT ![n].rc = @ - 1]
      BY <2>1, <1>1
    <3> QED
      BY ONLY <3>1, <1>3, RcDtorKeeps
  <2>2. CASE h1[n].rc # 0
    <3>1. Lessened(hdr, n, h1)
      BY <1>1, <1>3, <1>5, LessOne
    <3>2. \A y \in Node : h1[y].addr = hdr[y].addr
      BY ONLY <3>1 DEF Lessened, SameFlags, SameMarks
    <3>3. hdr' = h1 /\ stack' = s
      BY <2>2, <1>1
    <3> QED
      BY <3>2, <3>3, <1>3, <1>5 DEF Anchored, Rooted, DelOK
  <2> QED
    BY <2>1, <2>2
<1>7. Less(out, held, stack, n, out', held', s)
  BY <1>1, <1>3 DEF Less
<1>8. Calm /\ Kept /\ (col' = col \/ col'.pc \in {"start", "idle"}) /\ stack[Len(stack)].fn # "gc"
  BY <1>1
<1> QED
  BY ONLY <1>1, <1>4, <1>6, <1>7, <1>8, LessKept

\* gc_possible_root_when_full goes on.
LEMMA WhenFullResumesKept ==
    ASSUME Calm, Kept, WhenFullResumes, ~gc.full, ~gc'.full PROVE Kept'
<1> DEFINE n == This
           s == Pop
           h1 == [hdr EXCEPT ![n].rc = @ - 1]
           g == gc_adjust_threshold(gc, col.total)
<1>1. /\ stack # <<>> /\ stack[Len(stack)].fn = "full" /\ h1 = [hdr EXCEPT ![n].rc = @ - 1]
      /\ \/ h1[n].rc = 0 /\ rc_dtor_func(h1, g, n, s)
         \/ h1[n].rc # 0 /\ Info(h1[n]) /\ hdr' = h1 /\ stack' = s
         \/ h1[n].rc # 0 /\ ~Info(h1[n]) /\ AddRoot(h1, g, n, s)
      /\ alloc' = alloc /\ out' = out /\ held' = held /\ bailed' = bailed /\ col' = Idle
  BY DEF WhenFullResumes, Running, heap
<1>2. ~gc'.full /\ g = gc_adjust_threshold(gc, col.total)
  OBVIOUS
<1>3. stack[Len(stack)].fn \in Keepers
  BY <1>1 DEF Keepers
<1>4. /\ n \in alloc /\ FollowOK(s) /\ Objs(stack) = Objs(s) \union {n} /\ s \in Seq(Frame)
      /\ (s # <<>> /\ s[Len(s)].fn = "del" => s[Len(s)].obj = n /\ hdr[n].rc # 1)
  BY <1>1, <1>3, PopKept
<1>5. ~bailed /\ alloc \in SUBSET Node /\ hdr \in [Node -> Hdr] /\ n \in Node
  BY <1>4, CalmKept
<1> HIDE DEF g, h1
<1>6. /\ Steady(alloc, out, held, hdr, g, col', s, bailed, ran, n) /\ ~g.full /\ g \in Globals
      /\ BufOK(alloc, hdr, g) /\ col.pc = "idle"
  BY <1>2, WhenFullAdjusted
<1>7. Steady(alloc, out, held, hdr, g, col', s, FALSE, ran, n) /\ ColorOK(hdr, g)
  <2>1. /\ RcOK(alloc, out, held, hdr, s, FALSE, n, {})
        /\ EmptyOK(alloc, out, hdr, g, col', s, FALSE)
    BY <1>5, <1>6 DEF Steady, RcOK, EmptyOK
  <2> QED
    BY <2>1, <1>6 DEF Steady
<1> HIDE DEF n, s
<1>8. Lessened(hdr, n, h1)
  BY ONLY <1>1, <1>5, LessOne
<1>9. h1 \in [Node -> Hdr] /\ SameFlags(hdr, h1) /\ h1[n].rc = hdr[n].rc - 1
  BY ONLY <1>8 DEF Lessened
<1>10. \A y \in Node : h1[y].addr = hdr[y].addr /\ h1[y].color = hdr[y].color
  BY ONLY <1>9 DEF SameFlags, SameMarks
<1>11. Anchored(hdr, s, n, hdr', stack')
  <2>1. CASE h1[n].rc = 0 /\ rc_dtor_func(h1, g, n, s)
    <3>1. hdr[n].rc = 1
      BY <2>1, <1>5, <1>9 DEF Hdr
    <3>2. s # <<>> => s[Len(s)].fn # "del"
      BY <3>1, <1>4
    <3> DEFINE c2 == col'
    <3>3. Steady(alloc, out, held, hdr, g, c2, s, FALSE, ran, n)
      BY <1>7
    <3> HIDE DEF c2
    <3> QED
      BY ONLY <2>1, <3>2, <3>3, <1>1, <1>4, RcDtorKeeps
  <2>2. CASE Info(h1[n]) /\ hdr' = h1 /\ stack' = s
    <3>1. hdr[n].addr # 0
      BY <2>2, <1>5, <1>7, <1>10 DEF Info, ColorOK
    <3> QED
      BY <2>2, <3>1, <1>4, <1>5, <1>10 DEF Anchored, Rooted, DelOK
  <2>3. CASE ~Info(h1[n]) /\ AddRoot(h1, g, n, s)
    <3>1. h1[n].addr = 0
      BY <2>3 DEF Info
    <3>2. BufOK(alloc, h1, g)
      BY ONLY <1>5, <1>6, <1>9, <1>10, BufHdr
    <3>3. Anchored(h1, s, n, hdr', stack')
      BY ONLY <2>3, <3>1, <3>2, <1>2, <1>4, <1>5, <1>6, <1>9, AddRootKeeps
    <3> QED
      BY <3>3, <1>10 DEF Anchored, Rooted
  <2> QED
    BY <2>1, <2>2, <2>3, <1>1
<1>12. Less(out, held, stack, n, out', held', s)
  BY <1>1, <1>4 DEF Less
<1>13. /\ Calm /\ Kept /\ (col' = col \/ col'.pc \in {"start", "idle"}) /\ stack[Len(stack)].fn # "gc"
       /\ ~(col.pc \in {"destroy", "finish"} /\ ~col.rerun)
  BY <1>1, <1>6, IdleFacts
<1> QED
  BY ONLY <1>1, <1>11, <1>12, <1>13, LessKept

\* A call less that a collection made.
LEMMA SparesPop ==
    ASSUME NEW al, NEW o, NEW hd, NEW h, NEW g, NEW s \in Seq(Frame), NEW f, NEW st, Pushed(s, f, st),
           f.fn # "gc", Spares(al, o, hd, h, g, st), NEW al2, NEW h2, NEW g2,
           Saved(al2, h2, g2) = Saved(al, h, g)
    PROVE  Spares(al2, o, hd, h2, g2, s)
<1>1. Below(st) = Below(s)
  BY BelowPush
<1>2. \A k \in 1..Len(s) : k \in 1..Len(st) /\ s[k] = st[k]
  BY DEF Pushed
<1>3. \A j, k \in 1..Len(s) : s[k].fn = "gc" /\ k < j => s[j].fn \in {"gcfree", "free", "efree"}
  BY <1>2 DEF Spares
<1> QED
  BY <1>1, <1>3 DEF Spares

\* The collector goes on after a destructor or a free.
LEMMA CollectorResumesKept ==
    ASSUME Calm, Kept, CollectorResumes PROVE Kept'
<1> DEFINE f == stack[Len(stack)]
           n == This
           s == Pop
<1>1. /\ stack # <<>> /\ f.fn \in {"gcdtor", "gcfree"} /\ n = f.obj
      /\ hdr' = [hdr EXCEPT ![n].rc = @ - 1] /\ stack' = s /\ gc' = gc /\ col' = col
      /\ alloc' = alloc /\ out' = out /\ held' = held /\ bailed' = bailed
  BY DEF CollectorResumes, Running, This, heap
<1>2. f.fn \in Keepers
  BY <1>1 DEF Keepers
<1>3. /\ n \in alloc /\ FollowOK(s) /\ Objs(stack) = Objs(s) \union {n} /\ s \in Seq(Frame)
      /\ Pushed(s, f, stack)
  BY <1>1, <1>2, PopKept
<1>4. /\ alloc \in SUBSET Node /\ hdr \in [Node -> Hdr] /\ n \in Node /\ FollowOK(stack)
      /\ StackOK(alloc, hdr, gc, col, stack)
      /\ (col.pc \in {"destroy", "finish"} /\ ~col.rerun => Spares(alloc, out, held, hdr, gc, stack))
  BY <1>3, CalmKept
<1> HIDE DEF f, n, s
<1>5. s # <<>> /\ s[Len(s)].fn = "gc"
  BY <1>1, <1>3, <1>4, FollowPop
<1>6. hdr[n].addr # 0
  <2>1. Len(s) \in 1..Len(stack) /\ Len(s) < Len(stack) /\ stack[Len(s)] = s[Len(s)]
        /\ stack[Len(s) + 1] = f
    BY <1>3, <1>5 DEF Pushed
  <2> QED
    BY <2>1, <1>1, <1>4, <1>5 DEF StackOK
<1>7. Lessened(hdr, n, hdr')
  BY ONLY <1>1, <1>4, LessOne
<1>8. /\ \A y \in Node : hdr'[y].addr = hdr[y].addr
      /\ \A y \in Node : hdr'[y].null = hdr[y].null /\ hdr'[y].freed = hdr[y].freed
  BY ONLY <1>7 DEF Lessened, SameFlags, SameMarks
<1>9. Anchored(hdr, s, n, hdr', stack')
  BY <1>1, <1>3, <1>4, <1>5, <1>6, <1>8 DEF Anchored, Rooted, DelOK
<1>10. Less(out, held, stack, n, out', held', s)
  BY <1>1, <1>3 DEF Less
<1>11. col.pc \in {"destroy", "finish"} /\ ~col.rerun =>
          Spares(alloc', out', held', hdr', gc', stack')
  <2>1. Saved(alloc', hdr', gc') = Saved(alloc, hdr, gc)
    BY <1>1, <1>4, <1>8 DEF Saved, Dead
  <2>2. f.fn # "gc"
    BY <1>1
  <2>3. Spares(alloc, out, held, hdr, gc, stack) => Spares(alloc', out, held, hdr', gc', s)
    BY ONLY <2>1, <2>2, <1>3, SparesPop
  <2> QED
    BY <2>3, <1>1, <1>4
<1>12. Calm /\ Kept /\ (col' = col \/ col'.pc \in {"start", "idle"}) /\ stack[Len(stack)].fn # "gc"
  BY <1>1 DEF f
<1> QED
  BY ONLY <1>1, <1>9, <1>10, <1>11, <1>12, LessKept

\* A node has no references left.
LEMMA FreeDoneKept == ASSUME Calm, Kept, FreeDone PROVE Kept'
<1> DEFINE f == stack[Len(stack)]
           n == This
           s == Pop
<1>1. /\ stack # <<>> /\ f.fn = "free" /\ n = f.obj /\ stack' = s /\ gc' = gc /\ col' = col
      /\ hdr' = hdr /\ alloc' = alloc /\ out' = out /\ held' = held /\ bailed' = bailed
  BY DEF FreeDone, Running, This, heap
<1>2. /\ alloc \in SUBSET Node /\ hdr \in [Node -> Hdr] /\ FollowOK(stack)
      /\ StackOK(alloc, hdr, gc, col, stack)
      /\ Steady(alloc, out, held, hdr, gc, col, stack, FALSE, ran, Null)
      /\ (col.pc \in {"destroy", "finish"} /\ ~col.rerun => Spares(alloc, out, held, hdr, gc, stack))
  BY CalmKept
<1>3. s \in Seq(Frame) /\ Pushed(s, f, stack) /\ n \in alloc
  BY <1>1, <1>2, TopFacts
<1> HIDE DEF f, n, s
<1>4. /\ FollowOK(s) /\ Objs(stack) = Objs(s) \union {f.obj}
      /\ (s # <<>> /\ s[Len(s)].fn = "del" => f.fn \in {"dtor", "full"})
  BY ONLY <1>2, <1>3, FollowPop
<1>5. n \in Objs(s) \/ n \in Rooted(hdr)
  <2>1. /\ Len(stack) \in 1..Len(stack) /\ Len(stack) - 1 = Len(s) /\ stack[Len(stack)] = f
        /\ (Len(stack) > 1 => Len(s) \in 1..Len(s) /\ Len(s) \in 1..Len(stack) /\ Len(s) < Len(stack)
                              /\ stack[Len(s)] = s[Len(s)] /\ stack[Len(s) + 1] = f)
    BY <1>3 DEF Pushed
  <2>2. /\ Len(stack) > 1
        /\ \/ stack[Len(s)].fn \in {"efree", "gcfree"} /\ stack[Len(s)].obj = n
           \/ stack[Len(s)].fn = "gc"
    BY <2>1, <1>1, <1>2 DEF StackOK
  <2>3. CASE stack[Len(s)].obj = n
    BY <2>1, <2>2, <2>3 DEF Objs
  <2>4. CASE stack[Len(s)].fn = "gc"
    <3>1. hdr[stack[Len(s) + 1].obj].addr # 0
      BY <2>1, <2>2, <2>4, <1>2 DEF StackOK
    <3> QED
      BY <3>1, <2>1, <2>2, <1>1, <1>2, <1>3 DEF Rooted
  <2> QED
    BY <2>2, <2>3, <2>4
<1>6. Anchored(hdr, s, n, hdr', stack')
  BY <1>1, <1>4, <1>5 DEF Anchored, DelOK
<1>7. Less(out, held, stack, n, out', held', s)
  BY <1>1, <1>4 DEF Less
<1>8. col.pc \in {"destroy", "finish"} /\ ~col.rerun =>
          Spares(alloc', out', held', hdr', gc', stack')
  <2>1. Saved(alloc', hdr', gc') = Saved(alloc, hdr, gc)
    BY <1>1
  <2>2. f.fn # "gc"
    BY <1>1
  <2>3. Spares(alloc, out, held, hdr, gc, stack) => Spares(alloc', out, held, hdr', gc', s)
    BY ONLY <2>1, <2>2, <1>3, SparesPop
  <2> QED
    BY <2>3, <1>1, <1>2
<1>9. Calm /\ Kept /\ (col' = col \/ col'.pc \in {"start", "idle"}) /\ stack[Len(stack)].fn # "gc"
  BY <1>1 DEF f
<1> QED
  BY ONLY <1>1, <1>6, <1>7, <1>8, <1>9, LessKept

\* The memory of a node goes.
LEMMA EfreeKept == ASSUME Calm, Kept, Efree PROVE Kept'
<1> DEFINE f == stack[Len(stack)]
           n == This
           s == Pop
<1>1. /\ stack # <<>> /\ f.fn = "efree" /\ n = f.obj /\ stack' = s /\ out' = out /\ held' = held
      /\ bailed' = bailed /\ col' = col
  BY DEF Efree, Running, This
<1>2. /\ FollowOK(stack) /\ Led(alloc, out, Anchors(held, hdr, stack), alloc)
      /\ Steady(alloc, out, held, hdr, gc, col, stack, FALSE, ran, Null)
      /\ stack \in Seq(Frame) /\ alloc \in SUBSET Node
      /\ (col.pc \in {"destroy", "finish"} /\ ~col.rerun => Spares(alloc, out, held, hdr, gc, stack))
  BY CalmKept
<1>3. /\ s \in Seq(Frame) /\ Pushed(s, f, stack) /\ n \in alloc
      /\ \A y \in Node : y # n => hdr'[y] = hdr[y]
      /\ alloc' \in SUBSET Node /\ alloc' = alloc \ {n} /\ Unbuffered(alloc', hdr', gc, n, gc')
  BY EfreeUnbuffers
<1> HIDE DEF f, n, s
<1>4. /\ FollowOK(s) /\ Objs(stack) = Objs(s) \union {f.obj}
      /\ (s # <<>> /\ s[Len(s)].fn = "del" => f.fn \in {"dtor", "full"})
  BY ONLY <1>2, <1>3, FollowPop
<1>5. out[n] = {} /\ Dead(hdr, n)
  <2>1. EfreeOK(alloc, out, held, hdr, stack, Null)
    BY <1>2 DEF Steady
  <2>2. Len(stack) \in 1..Len(stack) /\ stack[Len(stack)] = f /\ Len(stack) + 1 \notin 1..Len(stack)
    BY <1>1, <1>2, <1>3 DEF Pushed
  <2> QED
    BY <2>1, <2>2, <1>1 DEF EfreeOK
<1>6. Led(alloc', out', Anchors(held', hdr', stack'), alloc')
  <2> DEFINE B == Anchors(held, hdr, stack)
             B2 == Anchors(held', hdr', stack')
             X == {n}
  <2>1. \A y \in B : y \in B2 \/ y \in X
    BY <1>1, <1>3, <1>4 DEF Anchors, Rooted
  <2>2. Led(alloc, out, B, alloc)
    BY <1>2
  <2> HIDE DEF B, B2
  <2>3. LedOn(alloc, out, B, alloc, alloc', out', B2, alloc', X)
    BY <2>1, <1>1, <1>3, <1>5 DEF LedOn
  <2> HIDE DEF X
  <2>4. Led(alloc', out', B2, alloc')
    BY ONLY <2>2, <2>3, LedMove
  <2> QED
    BY <2>4 DEF B2
<1>7. col.pc \in {"destroy", "finish"} /\ ~col.rerun =>
          Spares(alloc', out', held', hdr', gc', stack')
  <2>0. \A y \in alloc : y # n => (y \in Gar(gc') <=> y \in Gar(gc))
    <3>1. /\ \A i \in Used(gc') : i \in Used(gc) /\ gc'.buf[i] = gc.buf[i]
          /\ \A i \in Used(gc) : gc.buf[i].ref # n => i \in Used(gc')
      BY <1>3 DEF Unbuffered
    <3> QED
      BY <3>1 DEF Gar, Tagged
  <2>1. Saved(alloc', hdr', gc') = Saved(alloc, hdr, gc)
    BY <2>0, <1>2, <1>3, <1>5 DEF Saved, Dead
  <2>2. f.fn # "gc"
    BY <1>1
  <2>3. Spares(alloc, out, held, hdr, gc, stack) => Spares(alloc', out, held, hdr', gc', s)
    BY ONLY <2>1, <2>2, <1>3, SparesPop
  <2> QED
    BY <2>3, <1>1, <1>2
<1>8. /\ Calm /\ Kept /\ (col' = col \/ col'.pc \in {"start", "idle"}) /\ stack[Len(stack)].fn # "gc"
      /\ DelOK(hdr', stack') /\ FollowOK(stack')
  BY <1>1, <1>4 DEF f, DelOK
<1> QED
  BY ONLY <1>1, <1>6, <1>7, <1>8, KeptCalm

\* A call more that frees a node.
LEMMA SparesPush ==
    ASSUME NEW al, NEW o, NEW hd, NEW h, NEW g, NEW s \in Seq(Frame), NEW f, NEW st, Pushed(s, f, st),
           f.fn \in {"gcfree", "free", "efree"}, Spares(al, o, hd, h, g, s)
    PROVE  Spares(al, o, hd, h, g, st)
<1>1. Below(st) = Below(s)
  BY BelowPush
<1>2. /\ Len(s) \in Nat /\ Len(st) = Len(s) + 1 /\ st[Len(st)] = f
      /\ \A i \in 1..Len(s) : st[i] = s[i]
  BY DEF Pushed
<1>3. \A j, k \in 1..Len(st) : st[k].fn = "gc" /\ k < j => st[j].fn \in {"gcfree", "free", "efree"}
  <2> SUFFICES ASSUME NEW j \in 1..Len(st), NEW k \in 1..Len(st), st[k].fn = "gc", k < j
               PROVE  st[j].fn \in {"gcfree", "free", "efree"}
    OBVIOUS
  <2>1. k \in 1..Len(s) /\ (j = Len(st) \/ j \in 1..Len(s))
    BY <1>2
  <2> QED
    BY <2>1, <1>2 DEF Spares
<1> QED
  BY <1>1, <1>3 DEF Spares

\* References of other nodes change.
LEMMA SparesMove ==
    ASSUME NEW al, NEW o, NEW hd, NEW h, NEW g, NEW st, Spares(al, o, hd, h, g, st),
           NEW o2, \A m \in Saved(al, h, g) \union Below(st) : o2[m] = o[m],
           NEW h2, NEW g2, Saved(al, h2, g2) = Saved(al, h, g)
    PROVE  Spares(al, o2, hd, h2, g2, st)
<1> DEFINE S == Saved(al, h, g)
           L == Below(st)
<1>1. Led(S \union L, o, hd \union L, S) /\ \A m \in S \union L : o2[m] = o[m]
  BY DEF Spares
<1> HIDE DEF S, L
<1>2. Led(S \union L, o2, hd \union L, S)
  BY <1>1 DEF Led
<1> QED
  BY <1>2 DEF Spares, S, L

\* A node that is being freed is not known to the calls a collection interrupted.
LEMMA FreeNotBelow ==
    ASSUME Calm, Kept, stack # <<>>, stack[Len(stack)].fn = "free"
    PROVE  This \notin Below(stack) /\ This \in alloc /\ Dead(hdr, This)
<1> DEFINE m == This
<1>1. /\ Steady(alloc, out, held, hdr, gc, col, stack, FALSE, ran, Null) /\ stack \in Seq(Frame)
      /\ StackOK(alloc, hdr, gc, col, stack) /\ FollowOK(stack)
  BY CalmKept
<1>2. /\ EfreeOK(alloc, out, held, hdr, stack, Null) /\ ApartOK(alloc, out, col, stack, Gar(gc))
      /\ EmptyOK(alloc, out, hdr, gc, col, stack, FALSE)
  BY <1>1 DEF Steady
<1>3. Len(stack) \in Nat /\ Len(stack) \in 1..Len(stack) /\ stack[Len(stack)].obj = m
  BY <1>1 DEF This
<1>4. m \in alloc /\ Dead(hdr, m)
  BY <1>1, <1>3 DEF StackOK
<1>5. ASSUME NEW j \in 1..Len(stack), NEW k \in 1..Len(stack), stack[k].fn = "gc", j < k,
             stack[j].obj = m
      PROVE  FALSE
  <2>1. CASE \E i \in 1..Len(stack) : stack[i].fn = "efree" /\ stack[i].obj = m
    <3>1. PICK i \in 1..Len(stack) : stack[i].fn = "efree" /\ stack[i].obj = m
      BY <2>1
    <3>2. \A l \in 1..Len(stack) : stack[l].obj = m => l = i \/ (l = i + 1 /\ stack[l].fn = "free")
      BY <3>1, <1>2 DEF EfreeOK
    <3>3. Len(stack) = i + 1
      BY <3>1, <3>2, <1>3
    <3>4. j \in {i, i + 1}
      BY <3>2, <1>5
    <3>5. k \in {i, i + 1}
      BY <3>3, <3>4, <1>3, <1>5
    <3> QED
      BY <3>1, <3>3, <3>5, <1>5
  <2>2. CASE \E i \in Used(gc) : gc.buf[i].tag = "garbage" /\ gc.buf[i].ref = m
    <3>1. m \in Gar(gc)
      BY <2>2 DEF Gar, Tagged
    <3>2. InGC(stack, k) /\ j \in 1..(k - 1)
      BY <1>3, <1>5 DEF InGC
    <3> QED
      BY <3>1, <3>2, <1>2, <1>5 DEF ApartOK
  <2> QED
    BY <2>1, <2>2, <1>2, <1>4 DEF EmptyOK
<1> QED
  BY <1>4, <1>5 DEF Below

\* GC_REMOVE_FROM_BUFFER leaves the other entries.
LEMMA RemoveTagged ==
    ASSUME NEW al \in SUBSET Node, NEW h \in [Node -> Hdr], NEW g \in Globals, BufOK(al, h, g),
           NEW n \in Node, h[n].addr # 0, NEW g2, g2 = gc_remove_from_roots(g, Decompress(h, g, n))
    PROVE  \A T, y : y # n => (y \in Tagged(g2, T) <=> y \in Tagged(g, T))
<1>1. Entries(al, h, g)
  BY DEF BufOK
<1>2. PICK i \in Used(g) : g.buf[i].ref = n
  BY <1>1 DEF Entries
<1>3. Decompress(h, g, n) = i
  BY <1>1, <1>2, DecompressFacts
<1>4. i \in 1..(MaxBufSize - 1)
  BY <1>1, UsedFacts
<1>5. /\ g2.buf[i].tag = "unused" /\ g2.first_unused = g.first_unused
      /\ \A j \in 1..(MaxBufSize - 1) : j # i => g2.buf[j] = g.buf[j]
  <2>1. g.buf \in [1..(MaxBufSize - 1) -> Slots]
    BY GlobalsFields
  <2> QED
    BY <2>1, <1>3, <1>4 DEF gc_remove_from_roots, Globals
<1>6. \A j \in Used(g) \union Used(g2) : j \in 1..(MaxBufSize - 1)
  BY <1>1, <1>5, UsedFacts DEF Used
<1>7. \A j : j # i => (j \in Used(g2) <=> j \in Used(g)) /\ (j \in Used(g) => g2.buf[j] = g.buf[j])
  BY <1>5, <1>6 DEF Used
<1>8. i \notin Used(g2)
  BY <1>5 DEF Used
<1> QED
  BY <1>2, <1>7, <1>8 DEF Tagged

\* And so those of the garbage.
LEMMA RemoveGarbage ==
    ASSUME NEW al \in SUBSET Node, NEW h \in [Node -> Hdr], NEW g \in Globals, BufOK(al, h, g),
           NEW n \in Node, h[n].addr # 0, NEW g2, g2 = gc_remove_from_roots(g, Decompress(h, g, n))
    PROVE  \A y : y # n => (y \in Gar(g2) <=> y \in Gar(g))
BY RemoveTagged DEF Gar

\* What a reference that goes does to a collection without destructors.
Tidied(al, st) ==
    /\ Saved(al, hdr', gc') = Saved(al, hdr, gc)
    /\ \/ stack' = st
       \/ \E f, f2, s : /\ s \in Seq(Frame) /\ Pushed(st, f, s) /\ Pushed(s, f2, stack')
                        /\ f.fn = "efree" /\ f2.fn = "free"

\* A node whose count is zero is dead already, or garbage.
LEMMA RcDtorSpares ==
    ASSUME NEW al, NEW o, NEW hd, NEW c, NEW st, NEW n \in al,
           Steady(al, o, hd, hdr, gc, c, st, FALSE, ran, n),
           NEW h1, h1 = [hdr EXCEPT ![n].rc = @ - 1],
           ~Dead(hdr, n) => n \in Gar(gc), rc_dtor_func(h1, gc, n, st)
    PROVE  Tidied(al, st)
<1>0. /\ Types(al, o, hd, hdr, gc, c, st, ran) /\ BufOK(al, hdr, gc) /\ ColorOK(hdr, gc)
      /\ DtorOK(al, hdr, Gar(gc), ran) /\ DeadOK(al, o, hd, hdr, st, Gar(gc), n)
  BY DEF Steady
<1>1. /\ al \in SUBSET Node /\ hdr \in [Node -> Hdr] /\ st \in Seq(Frame) /\ n \in Node
      /\ gc \in Globals
  BY <1>0 DEF Types
<1>2. Lessened(hdr, n, h1)
  BY ONLY <1>1, h1 = [hdr EXCEPT ![n].rc = @ - 1], LessOne
<1>3. h1 \in [Node -> Hdr] /\ SameFlags(hdr, h1) /\ \A y \in Node : y # n => h1[y] = hdr[y]
  BY <1>2 DEF Lessened
<1>4. /\ \A y \in Node : /\ h1[y].null = hdr[y].null /\ h1[y].freed = hdr[y].freed
                         /\ h1[y].dtored = hdr[y].dtored
                         /\ h1[y].addr = hdr[y].addr /\ h1[y].color = hdr[y].color
  BY <1>1, <1>3 DEF SameFlags, SameMarks
<1>5. CASE hdr[n].null
  <2>1. hdr' = h1 /\ stack' = st \o <<>> /\ gc' = gc
    BY <1>4, <1>5 DEF rc_dtor_func
  <2>2. st \o <<>> = st
    BY <1>1
  <2>3. Saved(al, hdr', gc') = Saved(al, hdr, gc)
    BY <2>1, <1>1, <1>4 DEF Saved, Dead
  <2> QED
    BY <2>1, <2>2, <2>3 DEF Tidied
<1>6. CASE ~hdr[n].null
  <2>0. ~hdr[n].freed
    BY <1>0, <1>6 DEF DeadOK, Lone
  <2>1. ~h1[n].null /\ ~h1[n].freed /\ n \in Gar(gc) /\ rc_dtor_func(h1, gc, n, st)
    BY <2>0, <1>1, <1>4, <1>6 DEF Dead
  <2>2. ~(n \in Dtor /\ ~h1[n].dtored)
    BY <2>1, <1>0, <1>1, <1>4 DEF DtorOK
  <2>3. /\ stack' = st \o <<Call("efree", n), Call("free", n)>>
        /\ \/ /\ hdr' = [NoInfo(h1, n) EXCEPT ![n].null = TRUE]
              /\ gc' = IF Info(h1[n]) THEN gc_remove_from_buffer(gc, n) ELSE gc
           \/ /\ hdr' = [h1 EXCEPT ![n].dtored = TRUE, ![n].freed = TRUE, ![n].rc = 1]
              /\ gc' = gc
    BY ONLY <2>1, <2>2 DEF rc_dtor_func
  <2>4. (\A y \in Node : y # n => hdr'[y] = hdr[y]) /\ Dead(hdr', n)
    BY <2>3, <1>1, <1>3 DEF NoInfo, Dead, Hdr
  <2>5. \A y : y # n => (y \in Gar(gc') <=> y \in Gar(gc))
    <3>1. CASE gc' = gc
      BY <3>1
    <3>2. CASE gc' = gc_remove_from_buffer(gc, n) /\ Info(h1[n])
      <4>1. hdr[n].addr # 0
        BY <3>2, <1>0, <1>1, <1>4 DEF Info, ColorOK
      <4>2. gc' = gc_remove_from_roots(gc, Decompress(hdr, gc, n))
        BY <3>2 DEF gc_remove_from_buffer, gc_decompress, Decompress
      <4> QED
        BY ONLY <4>1, <4>2, <1>0, <1>1, RemoveGarbage
    <3> QED
      BY <2>3, <3>1, <3>2
  <2>6. Saved(al, hdr', gc') = Saved(al, hdr, gc)
    BY <2>1, <2>4, <2>5, <1>1 DEF Saved, Dead
  <2>7. \E f, f2, s : /\ s \in Seq(Frame) /\ Pushed(st, f, s) /\ Pushed(s, f2, stack')
                      /\ f.fn = "efree" /\ f2.fn = "free"
    <3> DEFINE f == Call("efree", n)
               f2 == Call("free", n)
    <3>1. f \in Frame /\ f2 \in Frame /\ stack' = st \o <<f, f2>> /\ f.fn = "efree" /\ f2.fn = "free"
      BY <2>3, <1>1 DEF Call, Frame, Fns
    <3> HIDE DEF f, f2
    <3>2. \E s \in Seq(Frame) : Pushed(st, f, s) /\ Pushed(s, f2, stack')
      BY ONLY <3>1, <1>1, PushTwo
    <3> QED
      BY <3>1, <3>2
  <2> QED
    BY <2>6, <2>7 DEF Tidied
<1> QED
  BY <1>5, <1>6

\* Nothing becomes garbage, and nothing dies.
SameDeath(h, g, h2, g2) ==
    /\ Gar(g2) = Gar(g)
    /\ \A y \in Node : h2[y].null = h[y].null /\ h2[y].freed = h[y].freed
\* A new root is no garbage.
LEMMA RootSpares ==
    ASSUME NEW al \in SUBSET Node, NEW h \in [Node -> Hdr], NEW g \in Globals, NEW n \in al,
           NEW h2, NEW g2, NewRoot(al, h, g, n, h2, g2), BufOK(al, h, g)
    PROVE  SameDeath(h, g, h2, g2)
<1> DEFINE tag == "root"
           color == "purple"
<1>1. color \in Colors /\ n \in Node /\ tag = "root"
  BY DEF Colors
<1>2. PICK i \in 1..(MaxBufSize - 1) : Entered(al, h, g, n, tag, color, h2, g2, i)
  BY DEF NewRoot
<1> HIDE DEF tag, color
<1>3. HdrEntered(h, n, color, h2)
  BY <1>1, <1>2, EnteredHdr
<1>4. \A j \in Used(g) : j \in 1..(MaxBufSize - 1)
  BY UsedFacts DEF BufOK
<1>5. /\ i \notin Used(g) /\ Used(g2) = Used(g) \union {i} /\ g2.buf[i].tag = "root"
      /\ \A j \in Used(g) : g2.buf[j] = g.buf[j]
  BY <1>1, <1>2, <1>4 DEF Entered
<1>6. Gar(g2) = Gar(g)
  BY <1>5 DEF Gar, Tagged
<1> QED
  BY <1>3, <1>6 DEF HdrEntered, SameDeath

\* A reference goes while a collection without destructors destroys its garbage.
LEMMA ReleaseSpares ==
    ASSUME NEW al, NEW o, NEW hd, NEW st, NEW n \in al,
           Steady(al, o, hd, hdr, gc, col, st, FALSE, ran, n), Release(n, st),
           ~gc.full, ~gc'.full, ~gc'.protected, gc.active,
           hdr[n].rc = 1 /\ ~Dead(hdr, n) => n \in Gar(gc)
    PROVE  Tidied(al, st)
<1> DEFINE h1 == [hdr EXCEPT ![n].rc = @ - 1]
<1>0. Types(al, o, hd, hdr, gc, col, st, ran) /\ BufOK(al, hdr, gc)
  BY DEF Steady
<1>1. /\ al \in SUBSET Node /\ hdr \in [Node -> Hdr] /\ st \in Seq(Frame) /\ n \in Node
      /\ gc \in Globals
  BY <1>0 DEF Types
<1>2. h1 = [hdr EXCEPT ![n].rc = @ - 1]
  OBVIOUS
<1>3. /\ h1[n].rc = 0 => rc_dtor_func(h1, gc, n, st) /\ col' = col
      /\ h1[n].rc # 0 /\ ~Info(h1[n]) => gc_possible_root(h1, n, st)
      /\ h1[n].rc # 0 /\ Info(h1[n]) => hdr' = h1 /\ stack' = st /\ gc' = gc
  BY DEF Release
<1>4. /\ Steady(al, o, hd, hdr, gc, col, st, FALSE, ran, n) /\ n \in al
      /\ ~gc.full /\ ~gc'.full /\ ~gc'.protected /\ gc.active
      /\ (hdr[n].rc = 1 /\ ~Dead(hdr, n) => n \in Gar(gc))
  OBVIOUS
<1> HIDE DEF h1
<1>5. Lessened(hdr, n, h1)
  BY ONLY <1>1, <1>2, LessOne
<1>6. h1 \in [Node -> Hdr] /\ SameFlags(hdr, h1) /\ h1[n].rc = hdr[n].rc - 1
  BY ONLY <1>5 DEF Lessened
<1>7. \A y \in Node : h1[y].addr = hdr[y].addr /\ h1[y].null = hdr[y].null /\ h1[y].freed = hdr[y].freed
  BY ONLY <1>6 DEF SameFlags, SameMarks
<1>8. CASE h1[n].rc = 0
  <2>1. hdr[n].rc = 1
    BY <1>1, <1>6, <1>8 DEF Hdr
  <2>2. rc_dtor_func(h1, gc, n, st) /\ (~Dead(hdr, n) => n \in Gar(gc))
    BY <2>1, <1>3, <1>4, <1>8
  <2> QED
    BY ONLY <2>2, <1>2, <1>4, RcDtorSpares
<1>9. CASE h1[n].rc # 0 /\ Info(h1[n])
  <2>1. hdr' = h1 /\ stack' = st /\ gc' = gc
    BY <1>3, <1>9
  <2> QED
    BY <2>1, <1>1, <1>7 DEF Tidied, Saved, Dead
<1>10. CASE h1[n].rc # 0 /\ ~Info(h1[n])
  <2>1. h1[n].addr = 0 /\ gc_possible_root(h1, n, st)
    BY <1>3, <1>10 DEF Info
  <2>2. ~gc.protected
    BY ONLY <2>1, <1>4 DEF gc_possible_root
  <2>3. AddRoot(h1, gc, n, st)
    BY ONLY <2>1, <2>2, <1>4 DEF gc_possible_root
  <2>4. BufOK(al, h1, gc)
    BY ONLY <1>0, <1>1, <1>6, <1>7, BufHdr
  <2>5. /\ hdr' = Enter(h1, gc, n, "root", "purple").hdr /\ gc' = Enter(h1, gc, n, "root", "purple").gc
        /\ stack' = st
    BY <2>3 DEF AddRoot
  <2>6. NewRoot(al, h1, gc, n, hdr', gc')
    BY ONLY <2>1, <2>4, <2>5, <1>1, <1>4, <1>6, EnterIsNew
  <2>7. /\ Gar(gc') = Gar(gc)
        /\ \A y \in Node : hdr'[y].null = h1[y].null /\ hdr'[y].freed = h1[y].freed
    <3> DEFINE h2 == hdr'
               g2 == gc'
    <3>1. /\ NewRoot(al, h1, gc, n, h2, g2) /\ BufOK(al, h1, gc) /\ n \in al /\ al \in SUBSET Node
          /\ h1 \in [Node -> Hdr] /\ gc \in Globals
      BY <2>4, <2>6, <1>1, <1>6
    <3> HIDE DEF h2, g2
    <3>2. SameDeath(h1, gc, h2, g2)
      BY ONLY <3>1, RootSpares
    <3> QED
      BY <3>2 DEF h2, g2, SameDeath
  <2> QED
    BY <2>5, <2>7, <1>1, <1>7 DEF Tidied, Saved, Dead
<1> QED
  BY <1>8, <1>9, <1>10

\* A node that is freed gives up a reference.
LEMMA FreeChildKept ==
    ASSUME NEW n \in Node, Calm, Kept, FreeChild(n), ~gc.full, ~gc'.full, ~gc'.protected PROVE Kept'
<1> DEFINE m == This
<1>1. /\ stack # <<>> /\ stack[Len(stack)].fn = "free" /\ n \in out[m]
      /\ out' = [out EXCEPT ![m] = @ \ {n}] /\ Release(n, stack)
      /\ alloc' = alloc /\ held' = held /\ bailed' = bailed
  BY DEF FreeChild, Running
<1>2. /\ Steady(alloc, out, held, hdr, gc, col, stack, FALSE, ran, Null)
      /\ FollowOK(stack) /\ alloc \in SUBSET Node /\ out \in [Node -> SUBSET Node]
      /\ StackOK(alloc, hdr, gc, col, stack) /\ held \in SUBSET Node /\ stack \in Seq(Frame)
      /\ (col.pc \in {"destroy", "finish"} /\ ~col.rerun => Spares(alloc, out, held, hdr, gc, stack))
  BY CalmKept
<1>3. m \notin Below(stack) /\ m \in alloc /\ Dead(hdr, m)
  BY <1>1, FreeNotBelow
<1> HIDE DEF m
<1>4. n \in alloc
  BY <1>1, <1>2, <1>3 DEF Steady, Closed
<1> DEFINE o2 == out'
<1>5. /\ o2 \in [Node -> SUBSET Node] /\ (\A y \in Node : y # m => o2[y] = out[y])
      /\ o2[m] = out[m] \ {n}
  BY <1>1, <1>2, <1>3
<1> HIDE DEF o2
<1>6. Steady(alloc, o2, held, hdr, gc, col, stack, FALSE, ran, n)
  <2>1. n \in out[m]
    BY <1>1
  <2> QED
    BY ONLY <2>1, <1>2, <1>3, <1>5, DropEdge
<1>7. /\ ~gc.full /\ ~gc'.full /\ ~gc'.protected /\ stack[Len(stack)].fn # "del"
      /\ stack[Len(stack)].fn # "gc" /\ Release(n, stack)
  BY <1>1
<1>8. Anchored(hdr, stack, n, hdr', stack') /\ (col' = col \/ col'.pc = "start")
  BY ONLY <1>2, <1>4, <1>6, <1>7, ReleaseKeeps
<1>9. Less(out, held, stack, n, o2, held', stack)
  BY <1>1, <1>3, <1>5 DEF Less
<1>10. ASSUME col.pc \in {"destroy", "finish"}, ~col.rerun
       PROVE  Spares(alloc, o2, held, hdr', gc', stack')
  <2> DEFINE S == Saved(alloc, hdr, gc)
             L == Below(stack)
  <2>1. Spares(alloc, out, held, hdr, gc, stack)
    BY <1>2, <1>10
  <2>2. Led(S \union L, out, held \union L, S)
    BY <2>1 DEF Spares
  <2>3. L \subseteq alloc /\ S \subseteq alloc /\ m \notin S
    <3>1. \A j, k \in 1..Len(stack) : stack[k].fn = "gc" /\ j < k => stack[j].fn # "gc"
      BY <1>2 DEF StackOK
    <3>2. L \subseteq alloc
      BY <3>1, <1>2 DEF Below, StackOK
    <3> QED
      BY <3>2, <1>3 DEF Saved
  <2>4. \A y \in S \union L : o2[y] = out[y]
    BY <2>3, <1>2, <1>3, <1>5
  <2>5. hdr[n].rc = 1 /\ ~Dead(hdr, n) => n \in Gar(gc)
    <3> SUFFICES ASSUME hdr[n].rc = 1, ~Dead(hdr, n), n \in S PROVE FALSE
      BY <1>4 DEF Saved
    <3>1. /\ n \notin held /\ (\A y \in alloc : n \notin o2[y])
          /\ \A k \in 1..Len(stack) : stack[k].obj # n
      <4> DEFINE b == FALSE
      <4>1. Steady(alloc, o2, held, hdr, gc, col, stack, b, ran, n) /\ hdr[n].rc = 1 /\ ~Dead(hdr, n)
        BY <1>6
      <4> HIDE DEF b
      <4> QED
        BY ONLY <4>1, <1>4, Unreferenced
    <3>2. n \notin L
      BY <3>1 DEF Below
    <3> DEFINE C == Node \ {n}
    <3>3. held \union L \subseteq C
      BY <3>1, <3>2, <2>3, <1>2
    <3>4. \A y \in C \intersect (S \union L) : out[y] \subseteq C
      BY <3>1, <2>3, <2>4, <1>2
    <3>5. S \subseteq C
      BY <3>3, <3>4, <2>2 DEF Led
    <3> QED
      BY <3>5
  <2>6. gc.active
    <3>1. col.pc = "destroy"
      <4>1. stack # <<>> /\ stack[Len(stack)].fn # "gc"
        BY <1>1
      <4> QED
        BY <4>1, <1>10, CalmKept
    <3> QED
      BY <3>1, <1>2 DEF StackOK
  <2>7. Tidied(alloc, stack)
    BY ONLY <2>5, <2>6, <1>4, <1>6, <1>7, ReleaseSpares
  <2>8. Saved(alloc, hdr', gc') = Saved(alloc, hdr, gc)
    BY <2>7 DEF Tidied
  <2> DEFINE h2 == hdr'
             g2 == gc'
  <2>9. /\ Saved(alloc, h2, g2) = Saved(alloc, hdr, gc)
        /\ \A y \in Saved(alloc, hdr, gc) \union Below(stack) : o2[y] = out[y]
    BY <2>4, <2>8
  <2> HIDE DEF h2, g2
  <2>10. Spares(alloc, o2, held, h2, g2, stack)
    BY ONLY <2>1, <2>9, SparesMove
  <2>11. CASE stack' = stack
    BY <2>10, <2>11 DEF h2, g2
  <2>12. CASE \E f, f2, s : /\ s \in Seq(Frame) /\ Pushed(stack, f, s) /\ Pushed(s, f2, stack')
                            /\ f.fn = "efree" /\ f2.fn = "free"
    <3> DEFINE st2 == stack'
    <3>1. PICK f, f2, s : /\ s \in Seq(Frame) /\ Pushed(stack, f, s) /\ Pushed(s, f2, st2)
                          /\ f.fn \in {"gcfree", "free", "efree"} /\ f2.fn \in {"gcfree", "free", "efree"}
      BY <2>12
    <3> HIDE DEF st2
    <3>2. Spares(alloc, o2, held, h2, g2, s)
      BY ONLY <2>10, <3>1, <1>2, SparesPush
    <3>3. Spares(alloc, o2, held, h2, g2, st2)
      BY ONLY <3>1, <3>2, SparesPush
    <3> QED
      BY <3>3 DEF h2, g2, st2
  <2> QED
    BY <2>7, <2>11, <2>12 DEF Tidied
<1>11. Calm /\ Kept /\ (col' = col \/ col'.pc \in {"start", "idle"})
  BY <1>8
<1>12. /\ Less(out, held, stack, n, out', held', stack)
       /\ (col.pc \in {"destroy", "finish"} /\ ~col.rerun =>
             Spares(alloc', out', held', hdr', gc', stack'))
  BY <1>1, <1>9, <1>10 DEF o2
<1> QED
  BY ONLY <1>1, <1>7, <1>8, <1>11, <1>12, LessKept

-----------------------------------------------------------------------------
(* The second invariant: the collector.                                    *)

\* A step of the collector itself that makes no call.
LEMMA QuietKept ==
    ASSUME Kept, stack # <<>>, stack[Len(stack)].fn = "gc", Quiet,
           Keeps(alloc, out, held, hdr', gc', col', stack)
    PROVE  Kept'
<1>1. /\ alloc' = alloc /\ out' = out /\ held' = held /\ stack' = stack /\ bailed' = bailed
  BY DEF Quiet, heap
<1>2. DelOK(hdr', stack) BY DEF DelOK
<1> QED BY <1>1, <1>2 DEF Kept

\* Outside of the destruction a dead node is being freed.
LEMMA DeadHasFrame ==
    ASSUME NEW al, NEW o, NEW h, NEW g, NEW c, NEW st, NEW b, ~b, EmptyOK(al, o, h, g, c, st, b),
           c.pc # "destroy", NEW n \in al, Dead(h, n)
    PROVE  n \in Objs(st)
BY DEF EmptyOK, Objs

\* A step that finds nodes along references of nodes that are known.
LEMMA LedNew ==
    ASSUME NEW al, NEW o, NEW B, NEW S, Led(al, o, B, S), NEW S2,
           \A y \in S2 : \/ y \in S \/ y \in B
                         \/ \E m \in al : (m \in S \/ m \in B) /\ y \in o[m]
    PROVE  Led(al, o, B, S2)
BY DEF Led

\* What holds in a traversal.
LEMMA BaseKept ==
    ASSUME Base(alloc, out, held, hdr, gc, col, stack, bailed, ran), Kept
    PROVE  /\ ~bailed /\ Keeps(alloc, out, held, hdr, gc, col, stack)
           /\ alloc \in SUBSET Node /\ held \in SUBSET Node /\ out \in [Node -> SUBSET Node]
           /\ hdr \in [Node -> Hdr] /\ gc \in Globals /\ col \in Locals /\ stack \in Seq(Frame)
           /\ BufOK(alloc, hdr, gc) /\ stack # <<>> /\ stack[Len(stack)].fn = "gc"
           /\ \A n \in alloc : Dead(hdr, n) /\ col.pc # "destroy" => n \in Objs(stack)
<1>1. ~bailed /\ Keeps(alloc, out, held, hdr, gc, col, stack) BY DEF Kept
<1>2. /\ Types(alloc, out, held, hdr, gc, col, stack, ran) /\ BufOK(alloc, hdr, gc)
      /\ EmptyOK(alloc, out, hdr, gc, col, stack, bailed) /\ stack # <<>> /\ stack[Len(stack)].fn = "gc"
  BY DEF Base
<1>3. \A n \in alloc : Dead(hdr, n) /\ col.pc # "destroy" => n \in Objs(stack)
  BY <1>1, <1>2, DeadHasFrame
<1> QED BY <1>1, <1>2, <1>3 DEF Types

\* A collection starts.
LEMMA StartKept == ASSUME Calm, Kept, Start PROVE Kept'
<1> DEFINE r == gc_compact(hdr, gc)
<1>1. At("start") /\ Quiet /\ hdr' = r.hdr /\ gc' = [r.gc EXCEPT !.active = TRUE]
      /\ col' = [GoTo("mark", 1) EXCEPT !.count = 0, !.hasd = FALSE]
  BY DEF Start
<1>2. stack # <<>> /\ stack[Len(stack)].fn = "gc" /\ col.pc = "start" BY <1>1, AtFacts
<1>3. /\ alloc \in SUBSET Node /\ hdr \in [Node -> Hdr] /\ gc \in Globals /\ col \in Locals
      /\ BufOK(alloc, hdr, gc)
  BY CalmKept
<1>4. ColorOK(hdr, gc) BY DEF Calm, Steady
<1>5. Compacted(alloc, hdr, gc, r)
  <2>1. Entries(alloc, hdr, gc) /\ (UnusedAt(gc) = {} => gc.unused = 0) BY <1>3 DEF BufOK, Listed
  <2> QED BY <2>1, <1>3, CompactFacts
<1> HIDE DEF r
<1>6. SameBut(hdr, hdr') BY <1>1, <1>5 DEF Compacted
<1>7. col'.pc = "mark"
  BY <1>1, <1>3 DEF GoTo, Locals
<1>8. Rooted(hdr') = Rooted(hdr) BY <1>6 DEF Rooted, SameBut
<1>9. Led(alloc, out, Anchors(held, hdr', stack), alloc)
  <2>1. Keeps(alloc, out, held, hdr, gc, col, stack) BY DEF Kept
  <2> QED BY <2>1, <1>2, <1>8 DEF Keeps, Anchors
<1>10. Greyed(hdr', out, col')
  BY <1>4, <1>6 DEF Greyed, Colored, SameBut, ColorOK
<1>11. Keeps(alloc, out, held, hdr', gc', col', stack)
  BY <1>7, <1>9, <1>10 DEF Keeps
<1> QED BY <1>1, <1>2, <1>11, QuietKept

\* A step of gc_mark_roots.
Marked(h2, c2) ==
    /\ c2.pc = "mark"
    /\ \A y \in Node : /\ h2[y].null = hdr[y].null /\ h2[y].freed = hdr[y].freed
                       /\ h2[y].addr = hdr[y].addr
                       /\ hdr[y].color = "grey" => h2[y].color = "grey"
                       /\ h2[y].color = "grey" /\ y \notin c2.todo =>
                             \/ hdr[y].color = "grey" /\ y \notin col.todo
                             \/ \A z \in Kids(hdr, out, y) : h2[z].color = "grey"
\* It follows references from the marked nodes.
LEMMA MarkMove ==
    ASSUME Marks, Kept, Quiet, Marked(hdr', col')
    PROVE  Kept'
<1>1. Base(alloc, out, held, hdr, gc, col, stack, bailed, ran) /\ col.pc = "mark" BY DEF Marks, Marking
<1>2. /\ Keeps(alloc, out, held, hdr, gc, col, stack) /\ out \in [Node -> SUBSET Node]
      /\ stack # <<>> /\ stack[Len(stack)].fn = "gc"
  BY <1>1, BaseKept
<1>3. Led(alloc, out, Anchors(held, hdr, stack), alloc) /\ Greyed(hdr, out, col)
  BY <1>1, <1>2 DEF Keeps
<1>4. Rooted(hdr') = Rooted(hdr) BY DEF Rooted, Marked
<1>5. Led(alloc, out, Anchors(held, hdr', stack), alloc) BY <1>3, <1>4 DEF Anchors
<1>6. Greyed(hdr', out, col')
  <2>1. SUFFICES ASSUME NEW m \in Colored(hdr', "grey") \ col'.todo, NEW z \in Kids(hdr', out, m)
                 PROVE  z \in Colored(hdr', "grey")
    BY DEF Greyed
  <2>2. m \in Node /\ z \in Kids(hdr, out, m) BY <2>1 DEF Colored, Kids, Marked
  <2>3. z \in Node BY <2>2, <1>2 DEF Kids
  <2>4. CASE \A y \in Kids(hdr, out, m) : hdr'[y].color = "grey" BY <2>2, <2>3, <2>4 DEF Colored
  <2>5. CASE hdr[m].color = "grey" /\ m \notin col.todo
    <3>1. z \in Colored(hdr, "grey") BY <2>2, <2>5, <1>3 DEF Greyed, Colored
    <3> QED BY <3>1 DEF Colored, Marked
  <2> QED BY <2>1, <2>2, <2>4, <2>5 DEF Marked, Colored
<1>7. Keeps(alloc, out, held, hdr', gc', col', stack)
  <2>1. col'.pc = "mark" BY DEF Marked
  <2> QED BY <2>1, <1>5, <1>6 DEF Keeps
<1> QED BY <1>2, <1>7, QuietKept

\* gc_mark_roots: the next root.
LEMMA MarkRootKept == ASSUME Marks, Kept, MarkRoot PROVE Kept'
<1>0. Base(alloc, out, held, hdr, gc, col, stack, bailed, ran) /\ col.pc = "mark" BY DEF Marks, Marking
<1>1. hdr \in [Node -> Hdr] /\ col \in Locals BY <1>0, BaseKept
<1>2. Quiet /\ col.todo = {} /\ \E n, go : /\ hdr' = IF go THEN [hdr EXCEPT ![n].color = "grey"] ELSE hdr
                             /\ col' = [col EXCEPT !.idx = @ + 1, !.todo = IF go THEN {n} ELSE {}]
  BY Zenon DEF MarkRoot
<1>3. PICK n, go : /\ hdr' = IF go THEN [hdr EXCEPT ![n].color = "grey"] ELSE hdr
                   /\ col' = [col EXCEPT !.idx = @ + 1, !.todo = IF go THEN {n} ELSE {}]
  BY <1>2, Zenon
<1>4. col'.pc = "mark" /\ (go => col'.todo = {n}) BY <1>3, <1>1, <1>0 DEF Locals
<1>5. ASSUME NEW y \in Node
      PROVE  /\ hdr'[y].null = hdr[y].null /\ hdr'[y].freed = hdr[y].freed
             /\ hdr'[y].addr = hdr[y].addr
             /\ hdr[y].color = "grey" => hdr'[y].color = "grey"
             /\ hdr'[y].color = "grey" => hdr[y].color = "grey" \/ (go /\ y = n)
  BY <1>3, <1>1 DEF Hdr
<1>6. Marked(hdr', col') BY <1>2, <1>4, <1>5 DEF Marked
<1> QED BY <1>2, <1>6, MarkMove

\* gc_mark_grey.
LEMMA MarkGreyKept == ASSUME NEW n \in Node, Marks, Kept, gc_mark_grey(n) PROVE Kept'
<1>0. Base(alloc, out, held, hdr, gc, col, stack, bailed, ran) /\ col.pc = "mark" BY DEF Marks, Marking
<1>1. hdr \in [Node -> Hdr] /\ col \in Locals /\ out \in [Node -> SUBSET Node] BY <1>0, BaseKept
<1> DEFINE fresh == { m \in Children(n) : hdr[m].color # "grey" }
<1>2. /\ Quiet /\ hdr' = Visit(n, -1, fresh, "grey")
      /\ col' = [col EXCEPT !.todo = (@ \ {n}) \union fresh]
  BY DEF gc_mark_grey
<1>3. Visited(hdr, out, n, -1, fresh, "grey", hdr')
  <2>1. fresh \subseteq Children(n) /\ "grey" \in Colors /\ -1 \in Int BY DEF Colors
  <2> HIDE DEF fresh
  <2> QED BY <1>1, <1>2, <2>1, VisitFacts
<1>4. col'.pc = "mark" /\ col'.todo = (col.todo \ {n}) \union fresh BY <1>2, <1>1, <1>0 DEF Locals
<1>5. Kids(hdr, out, n) = Children(n) /\ Kids(hdr, out, n) \subseteq Node BY <1>1 DEF Kids, Children
<1>6. \A z \in Kids(hdr, out, n) : hdr'[z].color = "grey"
  BY <1>3, <1>5 DEF Visited
<1>7. \A y \in Node : y \notin fresh => hdr'[y].color = hdr[y].color
  BY <1>3 DEF Visited
<1>8. ASSUME NEW y \in Node
      PROVE  /\ hdr'[y].null = hdr[y].null /\ hdr'[y].freed = hdr[y].freed
             /\ hdr'[y].addr = hdr[y].addr
             /\ hdr[y].color = "grey" => hdr'[y].color = "grey"
             /\ hdr'[y].color = "grey" /\ y \notin col'.todo =>
                   \/ hdr[y].color = "grey" /\ y \notin col.todo
                   \/ \A z \in Kids(hdr, out, y) : hdr'[z].color = "grey"
  <2>1. /\ hdr'[y].null = hdr[y].null /\ hdr'[y].freed = hdr[y].freed
        /\ hdr'[y].addr = hdr[y].addr
    BY <1>3 DEF Visited
  <2>2. hdr[y].color = "grey" => hdr'[y].color = "grey" BY <1>7
  <2>3. hdr'[y].color = "grey" /\ y \notin col'.todo =>
           (hdr[y].color = "grey" /\ y \notin col.todo) \/ y = n
    BY <1>4, <1>7
  <2> QED BY <2>1, <2>2, <2>3, <1>6
<1>9. Marked(hdr', col') BY <1>4, <1>8 DEF Marked
<1> QED BY <1>2, <1>9, MarkMove

\* All roots are marked, and what is left black is known otherwise.
LEMMA MarkDoneKept == ASSUME Marks, Kept, MarkDone PROVE Kept'
<1>0. Base(alloc, out, held, hdr, gc, col, stack, bailed, ran) /\ col.pc = "mark" BY DEF Marks, Marking
<1>1. /\ Keeps(alloc, out, held, hdr, gc, col, stack) /\ alloc \in SUBSET Node
      /\ out \in [Node -> SUBSET Node] /\ col \in Locals /\ hdr \in [Node -> Hdr] /\ gc \in Globals
      /\ stack # <<>> /\ stack[Len(stack)].fn = "gc" /\ BufOK(alloc, hdr, gc)
      /\ \A n \in alloc : Dead(hdr, n) => n \in Objs(stack)
  BY <1>0, BaseKept
<1>2. Quiet /\ col.todo = {} /\ col.idx = gc.first_unused /\ col' = GoTo("scan", 1) /\ hdr' = hdr /\ gc' = gc
  BY DEF MarkDone
<1>3. col'.pc = "scan" BY <1>1, <1>2, GoToFacts DEF Pcs
<1>4. Led(alloc, out, Anchors(held, hdr, stack), alloc) /\ Greyed(hdr, out, col)
  BY <1>0, <1>1 DEF Keeps
<1>5. Rooted(hdr) \subseteq Colored(hdr, "grey")
  <2>1. SUFFICES ASSUME NEW y \in Node, hdr[y].addr # 0 PROVE hdr[y].color = "grey"
    BY DEF Rooted, Colored
  <2>2. PICK i \in Used(gc) : gc.buf[i].ref = y BY <2>1, <1>1 DEF BufOK, Entries
  <2>3. i < col.idx
    <3>1. i \in 1..(gc.first_unused - 1) BY DEF Used
    <3>2. gc.first_unused \in Nat BY <1>1, GlobalsFields
    <3> QED BY <3>1, <3>2, <1>2
  <2>4. hdr[gc.buf[i].ref].color \in {"grey"} BY <2>3 DEF Marks, Marking
  <2> QED BY <2>2, <2>4
<1>6. Led(alloc, out, held \union Objs(stack), alloc \intersect Colored(hdr, "black"))
  <2>1. SUFFICES ASSUME NEW C, held \union Objs(stack) \subseteq C,
                        \A m \in C \intersect alloc : out[m] \subseteq C
                 PROVE  alloc \intersect Colored(hdr, "black") \subseteq C
    BY DEF Led
  <2> DEFINE D == C \union Colored(hdr, "grey")
  <2>2. Anchors(held, hdr, stack) \subseteq D BY <2>1, <1>5 DEF Anchors
  <2>3. ASSUME NEW m \in D \intersect alloc PROVE out[m] \subseteq D
    <3>1. CASE m \in C BY <3>1, <2>1
    <3>2. CASE m \notin C
      <4>1. m \in Colored(hdr, "grey") \ col.todo BY <3>2, <1>2
      <4>2. ~Dead(hdr, m) BY <3>2, <2>1, <1>1
      <4>3. Kids(hdr, out, m) = out[m] BY <4>2 DEF Dead, Kids
      <4>4. Kids(hdr, out, m) \subseteq Colored(hdr, "grey") BY <4>1, <1>4 DEF Greyed
      <4> QED BY <4>3, <4>4
    <3> QED BY <3>1, <3>2
  <2>4. alloc \subseteq D
    <3> HIDE DEF D
    <3> QED BY <2>2, <2>3, <1>4 DEF Led
  <2> QED BY <2>4 DEF Colored
<1>7. Keeps(alloc, out, held, hdr', gc', col', stack) BY <1>2, <1>3, <1>6 DEF Keeps
<1> QED BY <1>1, <1>2, <1>7, QuietKept

\* A step of gc_scan_roots: what turns black is known.
LEMMA ScanKeptMove ==
    ASSUME Scans, Kept, Quiet, col'.pc = "scan",
           \A y \in alloc : hdr'[y].color = "black" =>
              \/ hdr[y].color = "black" \/ y \in held \/ y \in Objs(stack)
              \/ \E m \in alloc : (hdr[m].color = "black" \/ Dead(hdr, m)) /\ y \in out[m]
    PROVE  Kept'
<1>0. Base(alloc, out, held, hdr, gc, col, stack, bailed, ran) /\ col.pc = "scan" BY ScanFacts
<1>1. /\ Keeps(alloc, out, held, hdr, gc, col, stack) /\ alloc \in SUBSET Node
      /\ stack # <<>> /\ stack[Len(stack)].fn = "gc"
      /\ \A n \in alloc : Dead(hdr, n) => n \in Objs(stack)
  BY <1>0, BaseKept
<1>2. Led(alloc, out, held \union Objs(stack), alloc \intersect Colored(hdr, "black"))
  BY <1>0, <1>1 DEF Keeps
<1>3. Led(alloc, out, held \union Objs(stack), alloc \intersect Colored(hdr', "black"))
  <2> DEFINE B == held \union Objs(stack)
             S == alloc \intersect Colored(hdr, "black")
             S2 == alloc \intersect Colored(hdr', "black")
  <2>1. \A y \in S2 : \/ y \in S \/ y \in B
                      \/ \E m \in alloc : (m \in S \/ m \in B) /\ y \in out[m]
    BY <1>1 DEF Colored
  <2> HIDE DEF S2, S, B
  <2>2. Led(alloc, out, B, S) BY <1>2 DEF S, B
  <2>3. Led(alloc, out, B, S2) BY <2>1, <2>2, LedNew
  <2> QED BY <2>3 DEF B, S2
<1>4. Keeps(alloc, out, held, hdr', gc', col', stack) BY <1>3 DEF Keeps
<1> QED BY <1>1, <1>4, QuietKept

\* gc_scan_roots: the next root.
LEMMA ScanRootKept == ASSUME Scans, Kept, ScanRoot PROVE Kept'
<1>1. hdr \in [Node -> Hdr] /\ col \in Locals /\ col.pc = "scan" /\ alloc \in SUBSET Node BY ScanFacts
<1>2. PICK n, go : /\ hdr' = IF go THEN [hdr EXCEPT ![n].color = "white"] ELSE hdr
                   /\ col' = [col EXCEPT !.idx = @ + 1, !.todo = IF go THEN {n} ELSE {}]
  BY Zenon DEF ScanRoot
<1>3. col'.pc = "scan" BY <1>1, <1>2 DEF Locals
<1>4. \A y \in alloc : hdr'[y].color = "black" => hdr[y].color = "black"
  BY <1>1, <1>2 DEF Hdr
<1>5. Quiet BY DEF ScanRoot
<1> QED BY <1>3, <1>4, <1>5, ScanKeptMove

\* A count that is not zero without the references from W: something else leads
\* to the node.
LEMMA KnownBesides ==
    ASSUME NEW al \in SUBSET Node, NEW o, NEW hd, NEW h \in [Node -> Hdr], NEW st \in Seq(Frame), NEW b, ~b,
           NEW W, RcOK(al, o, hd, h, st, b, Null, W), NEW n \in al, h[n].rc > 0
    PROVE  \/ n \in hd \/ n \in Objs(st)
           \/ \E m \in al : n \in o[m] /\ (m \notin W \/ Dead(h, m))
<1>1. SUFFICES ASSUME n \notin hd, n \notin Objs(st),
                      \A m \in al : n \in o[m] => m \in W /\ ~Dead(h, m)
               PROVE  FALSE
  OBVIOUS
<1>2. Holders(st, n) = {} BY <1>1 DEF Holders, Holds, Objs
<1>3. Taken(al, o, h, W, n) = Edges(al, o, n) BY <1>1 DEF Taken, Edges, Kids, Dead
<1>4. n # Null BY NullAssumption
<1>5. h[n].rc + Cardinality(Taken(al, o, h, W, n)) = Refs(al, o, hd, st, n) + One(n = Null)
  BY DEF RcOK
<1>6. Cardinality(Holders(st, n)) = 0 BY <1>2, FS_EmptySet
<1>7. Cardinality(Edges(al, o, n)) \in Nat BY RefsFacts
<1>8. h[n].rc \in Int BY DEF Hdr
<1> QED BY <1>1, <1>3, <1>4, <1>5, <1>6, <1>7, <1>8 DEF Refs, One

\* gc_scan: a node that is known otherwise turns black.
LEMMA ScanKept == ASSUME NEW n \in Node, Scans, Kept, gc_scan(n) PROVE Kept'
<1>0. Base(alloc, out, held, hdr, gc, col, stack, bailed, ran) BY ScanFacts
<1>1. hdr \in [Node -> Hdr] /\ col \in Locals /\ col.pc = "scan" /\ alloc \in SUBSET Node
      /\ out \in [Node -> SUBSET Node]
  BY ScanFacts
<1>2. Quiet /\ col.btodo = {} BY DEF gc_scan
<1> DEFINE fresh == { m \in Children(n) : hdr[m].color = "grey" }
<1>3. CASE hdr[n].color # "white" /\ col' = [col EXCEPT !.todo = @ \ {n}] /\ hdr' = hdr
  <2>1. col'.pc = "scan" BY <1>1, <1>3 DEF Locals
  <2> QED BY <1>2, <1>3, <2>1, ScanKeptMove
<1>4. CASE /\ hdr[n].color = "white" /\ hdr[n].rc > 0
           /\ hdr' = [hdr EXCEPT ![n].color = "black"]
           /\ col' = [col EXCEPT !.todo = @ \ {n}, !.btodo = {n}]
  <2>1. col'.pc = "scan" BY <1>1, <1>4 DEF Locals
  <2>2. \A y \in alloc : hdr'[y].color = "black" => hdr[y].color = "black" \/ y = n
    BY <1>1, <1>4 DEF Hdr
  <2> DEFINE W == Colored(hdr, "grey") \union Colored(hdr, "white") \union col.btodo
  <2>3. RcOK(alloc, out, held, hdr, stack, bailed, Null, W) /\ n \in alloc BY ScanFacts, <1>4
  <2>4. ~bailed /\ stack \in Seq(Frame) BY <1>0, BaseKept
  <2>5. \A m \in alloc : m \notin W => hdr[m].color = "black"
    <3>1. \A m \in alloc : hdr[m].color \in Colors /\ hdr[m].color # "purple"
      BY <1>1, ScanFacts DEF Hdr
    <3> QED BY <3>1, <1>1 DEF Colored, Colors
  <2> HIDE DEF W
  <2>6. \/ n \in held \/ n \in Objs(stack)
        \/ \E m \in alloc : n \in out[m] /\ (m \notin W \/ Dead(hdr, m))
    BY <2>3, <2>4, <1>1, <1>4, KnownBesides
  <2>7. \A y \in alloc : hdr'[y].color = "black" =>
              \/ hdr[y].color = "black" \/ y \in held \/ y \in Objs(stack)
              \/ \E m \in alloc : (hdr[m].color = "black" \/ Dead(hdr, m)) /\ y \in out[m]
    BY <2>2, <2>5, <2>6
  <2> QED BY <1>2, <2>1, <2>7, ScanKeptMove
<1>5. CASE /\ hdr[n].color = "white" /\ hdr[n].rc <= 0
           /\ hdr' = Visit(n, 0, fresh, "white")
           /\ col' = [col EXCEPT !.todo = (@ \ {n}) \union fresh]
  <2>1. col'.pc = "scan" BY <1>1, <1>5 DEF Locals
  <2>2. Visited(hdr, out, n, 0, fresh, "white", hdr')
    <3>1. fresh \subseteq Children(n) /\ "white" \in Colors BY DEF Colors
    <3> HIDE DEF fresh
    <3> QED BY <1>1, <1>5, <3>1, VisitFacts
  <2>3. \A y \in alloc : hdr'[y].color = "black" => hdr[y].color = "black"
    <3> HIDE DEF fresh
    <3> QED BY <2>2, <1>1 DEF Visited
  <2> QED BY <1>2, <2>1, <2>3, ScanKeptMove
<1> QED BY <1>3, <1>4, <1>5 DEF gc_scan

\* gc_scan_black: the children of a node that is known.
LEMMA ScanBlackKept == ASSUME NEW n \in Node, Scans, Kept, gc_scan_black(n) PROVE Kept'
<1>1. hdr \in [Node -> Hdr] /\ col \in Locals /\ col.pc = "scan" /\ alloc \in SUBSET Node
      /\ out \in [Node -> SUBSET Node]
  BY ScanFacts
<1> DEFINE fresh == { m \in Children(n) : hdr[m].color # "black" }
<1>2. /\ Quiet /\ n \in col.btodo /\ hdr' = Visit(n, 1, fresh, "black")
      /\ col' = [col EXCEPT !.btodo = (@ \ {n}) \union fresh]
  BY DEF gc_scan_black
<1>3. Visited(hdr, out, n, 1, fresh, "black", hdr')
  <2>1. fresh \subseteq Children(n) /\ "black" \in Colors BY DEF Colors
  <2> HIDE DEF fresh
  <2> QED BY <1>1, <1>2, <2>1, VisitFacts
<1>4. col'.pc = "scan" BY <1>1, <1>2 DEF Locals
<1>5. hdr[n].color = "black" /\ n \in alloc BY <1>2, ScanFacts
<1>6. fresh \subseteq out[n] BY DEF Children
<1>7. \A y \in alloc : hdr'[y].color = "black" => hdr[y].color = "black" \/ y \in fresh
  <2> HIDE DEF fresh
  <2> QED BY <1>3, <1>1 DEF Visited
<1> HIDE DEF fresh
<1>8. \A y \in alloc : hdr'[y].color = "black" =>
              \/ hdr[y].color = "black" \/ y \in held \/ y \in Objs(stack)
              \/ \E m \in alloc : (hdr[m].color = "black" \/ Dead(hdr, m)) /\ y \in out[m]
  BY <1>5, <1>6, <1>7
<1> QED BY <1>2, <1>4, <1>8, ScanKeptMove

\* gc_compact leaves the colors alone.
LEMMA CompactColors ==
    ASSUME NEW h \in [Node -> Hdr], NEW g, NEW y \in Node
    PROVE  gc_compact(h, g).hdr[y].color = h[y].color
BY DEF gc_compact, Hdr

\* gc_scan_roots is done: what is not garbage is known otherwise.
LEMMA ScanDoneKept == ASSUME Scans, Kept, ScanDone PROVE Kept'
<1>0. Base(alloc, out, held, hdr, gc, col, stack, bailed, ran) /\ col.pc = "scan" BY ScanFacts
<1>1. /\ Keeps(alloc, out, held, hdr, gc, col, stack) /\ alloc \in SUBSET Node /\ hdr \in [Node -> Hdr]
      /\ stack # <<>> /\ stack[Len(stack)].fn = "gc" /\ col \in Locals
  BY <1>0, BaseKept
<1>2. Led(alloc, out, held \union Objs(stack), alloc \intersect Colored(hdr, "black"))
  BY <1>0, <1>1 DEF Keeps
<1>3. Quiet /\ col.todo = {} /\ col.btodo = {} /\ col.idx = gc.first_unused BY Zenon DEF ScanDone
<1>4. \A y \in Node : hdr[y].color \in {"black", "white"} BY <1>3, ScannedFacts
<1>5. PICK h, g, e, R : /\ h = [n \in Node |-> IF n \in R THEN [hdr[n] EXCEPT !.addr = 0] ELSE hdr[n]]
                     /\ hdr' = gc_compact(h, g).hdr
                     /\ col' = [GoTo("collect", 1) EXCEPT !.end = e]
  BY Zenon DEF ScanDone
<1>6. h \in [Node -> Hdr] /\ \A y \in Node : h[y].color = hdr[y].color BY <1>1, <1>5 DEF Hdr
<1>7. \A y \in Node : hdr'[y].color = hdr[y].color
  <2>1. hdr' = gc_compact(h, g).hdr BY <1>5
  <2>2. \A y \in Node : gc_compact(h, g).hdr[y].color = h[y].color BY <1>6, CompactColors
  <2> QED BY <1>6, <2>1, <2>2
<1>8. col'.pc = "collect" BY <1>1, <1>5 DEF GoTo, Locals
<1>9. alloc \ Whites(hdr', gc', col') \subseteq alloc \intersect Colored(hdr, "black")
  BY <1>1, <1>4, <1>7 DEF Whites, Colored
<1>10. Led(alloc, out, held \union Objs(stack), alloc \ Whites(hdr', gc', col'))
  BY <1>2, <1>9, LedMore
<1>11. Keeps(alloc, out, held, hdr', gc', col', stack) BY <1>8, <1>10 DEF Keeps
<1> QED BY <1>1, <1>3, <1>11, QuietKept

\* A step of gc_collect_roots: what it has found it does not forget.
LEMMA GatherKept ==
    ASSUME Gathers, Gathers', Kept, Quiet, Gathered
    PROVE  Kept'
<1>0. Base(alloc, out, held, hdr, gc, col, stack, bailed, ran) /\ col.pc = "collect" /\ alloc \in SUBSET Node
      /\ \A y \in col.todo : y \in alloc /\ \A k \in 1..Len(stack) : stack[k].obj # y
  BY GatherFacts
<1>1. /\ Keeps(alloc, out, held, hdr, gc, col, stack) /\ hdr \in [Node -> Hdr] /\ gc \in Globals
      /\ stack # <<>> /\ stack[Len(stack)].fn = "gc" /\ BufOK(alloc, hdr, gc) /\ col \in Locals
      /\ \A n \in alloc : Dead(hdr, n) => n \in Objs(stack)
  BY <1>0, BaseKept
<1>2. Led(alloc, out, held \union Objs(stack), alloc \ Whites(hdr, gc, col))
  BY <1>0, <1>1 DEF Keeps
<1>3. PICK X : GatherStep(hdr', gc', col', X) BY DEF Gathered
<1>4. col'.pc = "collect" /\ gc' \in Globals
  <2>1. Base(alloc', out', held', hdr', gc', col', stack', bailed', ran') BY DEF Gathers, Gathering
  <2> QED BY <2>1 DEF Gathers, Base, Types
<1>5. \A y : InBuf(gc', y) => y \in Tagged(gc', Tags)
  <2>1. alloc' \in SUBSET Node /\ hdr' \in [Node -> Hdr] /\ BufOK(alloc', hdr', gc')
    <3>1. Base(alloc', out', held', hdr', gc', col', stack', bailed', ran') BY DEF Gathers, Gathering
    <3> QED BY <3>1 DEF Base, Types
  <2> DEFINE a2 == alloc'
             h2 == hdr'
             g2 == gc'
  <2>2. a2 \in SUBSET Node /\ h2 \in [Node -> Hdr] /\ BufOK(a2, h2, g2) /\ g2 \in Globals BY <2>1, <1>4
  <2> HIDE DEF a2, h2, g2
  <2>3. \A y : y \in Tagged(g2, Tags) <=> InBuf(g2, y) BY <2>2, TaggedAll
  <2> QED BY <2>3 DEF g2
<1>6. \A y : y \in Tagged(gc, Tags) <=> InBuf(gc, y) BY <1>0, <1>1, TaggedAll
<1>7. ASSUME NEW y \in alloc, y \in Whites(hdr, gc, col) PROVE y \in Whites(hdr', gc', col')
  <2>0. y \in Node BY <1>0
  <2>1. CASE hdr[y].color = "white"
    <3>1. hdr'[y].color = "white" \/ y \in col'.todo BY <2>0, <2>1, <1>3 DEF GatherStep
    <3> QED BY <2>0, <3>1 DEF Whites, Colored
  <2>2. CASE y \in col.todo
    <3>1. y \in col'.todo \/ y \in X BY <2>0, <2>2, <1>3 DEF GatherStep
    <3>2. CASE y \in X
      <4>1. InBuf(gc', y) \/ hdr[y].freed BY <3>2, <1>3 DEF GatherStep
      <4>2. ~hdr[y].freed
        <5>1. \A k \in 1..Len(stack) : stack[k].obj # y BY <2>2, <1>0
        <5>2. y \notin Objs(stack) BY <5>1 DEF Objs
        <5> QED BY <5>2, <1>1 DEF Dead
      <4> QED BY <4>1, <4>2, <1>5 DEF Whites
    <3> QED BY <3>1, <3>2 DEF Whites
  <2>3. CASE y \in Tagged(gc, Tags)
    <3>1. InBuf(gc', y) BY <2>0, <2>3, <1>6, <1>3 DEF GatherStep
    <3> QED BY <3>1, <1>5 DEF Whites
  <2> QED BY <1>7, <2>1, <2>2, <2>3 DEF Whites, Colored
<1>8. Led(alloc, out, held \union Objs(stack), alloc \ Whites(hdr', gc', col'))
  <2>1. alloc \ Whites(hdr', gc', col') \subseteq alloc \ Whites(hdr, gc, col) BY <1>7
  <2> QED BY <2>1, <1>2, LedMore
<1>9. Keeps(alloc, out, held, hdr', gc', col', stack) BY <1>4, <1>8 DEF Keeps
<1> QED BY <1>1, <1>9, QuietKept

\* gc_collect_roots: the next root.
LEMMA CollectRootKept == ASSUME Gathers, Kept, CollectRoot PROVE Kept'
BY CollectRootGathers, GatherKept DEF CollectRoot

\* gc_collect_white.
LEMMA CollectWhiteKept ==
    ASSUME NEW n \in Node, Gathers, Kept, gc_collect_white(n), ~gc.full, ~gc'.full PROVE Kept'
BY CollectWhiteGathers, GatherKept, Zenon DEF gc_collect_white

\* While the collector itself runs, the calls it interrupted are all others.
LEMMA BelowTop ==
    ASSUME NEW st \in Seq(Frame), st # <<>>, st[Len(st)].fn = "gc", st[Len(st)].obj = Null
    PROVE  Objs(st) = Below(st) \union {Null}
<1>1. Len(st) \in Nat /\ Len(st) \in 1..Len(st) BY FrontFacts
<1>2. ASSUME NEW k \in 1..Len(st), k # Len(st) PROVE st[k].obj \in Below(st)
  BY <1>1, <1>2 DEF Below
<1> QED BY <1>1, <1>2 DEF Objs, Below

\* The garbage has been gathered, and nothing else leads into it.
LEMMA CollectDoneKept == ASSUME Gathers, Kept, CollectDone PROVE Kept'
<1>0. Base(alloc, out, held, hdr, gc, col, stack, bailed, ran) /\ col.pc = "collect" /\ alloc \in SUBSET Node
  BY GatherFacts
<1>1. /\ Keeps(alloc, out, held, hdr, gc, col, stack) /\ hdr \in [Node -> Hdr] /\ gc \in Globals
      /\ stack # <<>> /\ stack[Len(stack)].fn = "gc" /\ BufOK(alloc, hdr, gc) /\ col \in Locals
      /\ stack \in Seq(Frame) /\ held \in SUBSET Node
      /\ \A n \in alloc : Dead(hdr, n) => n \in Objs(stack)
  BY <1>0, BaseKept
<1>2. Led(alloc, out, held \union Objs(stack), alloc \ Whites(hdr, gc, col))
  BY <1>0, <1>1 DEF Keeps
<1>3. /\ Quiet /\ hdr' = hdr /\ gc' = gc /\ col.todo = {} /\ col.idx = col.end
      /\ col' = IF gc.num_roots = 0 THEN GoTo("finish", 0)
                ELSE [GoTo(IF col.hasd THEN "prepare" ELSE "destroy", 1) EXCEPT !.end = gc.first_unused]
  BY DEF CollectDone
<1>4. /\ ColorOK(hdr, gc) /\ Isolated(alloc, out, held, hdr, stack, Gar(gc))
      /\ \A i \in Used(gc) : gc.buf[i].tag = "garbage"
  BY <1>3, GatheredFacts
<1>5. col'.pc \in {"finish", "prepare", "destroy"} BY <1>1, <1>3 DEF GoTo, Locals
<1>6. Whites(hdr, gc, col) = Gar(gc)
  <2>1. Colored(hdr, "white") = {} BY <1>4 DEF Colored, ColorOK
  <2>2. Tagged(gc, Tags) = Gar(gc) BY <1>4 DEF Gar, Tagged, Tags
  <2> QED BY <2>1, <2>2, <1>3 DEF Whites
<1>7. Gar(gc) \subseteq Rooted(hdr)
  <2>1. \A i \in Used(gc) : gc.buf[i].ref \in Node /\ hdr[gc.buf[i].ref].addr # 0
    <3>1. Entries(alloc, hdr, gc) BY <1>1 DEF BufOK
    <3> QED BY <3>1, <1>0, <1>1, UsedFacts
  <2> QED BY <2>1 DEF Gar, Tagged, Rooted
<1>8. Led(alloc, out, Anchors(held, hdr, stack), alloc)
  <2>1. Led(alloc, out, Anchors(held, hdr, stack), alloc \ Gar(gc))
    BY <1>2, <1>6, LedMore DEF Anchors
  <2>2. \A y \in alloc : y \in alloc \ Gar(gc) \/ y \in Anchors(held, hdr, stack) BY <1>7 DEF Anchors
  <2> QED BY <2>1, <2>2, LedNew
<1>9. Objs(stack) = Below(stack) \union {Null}
  <2>1. StackOK(alloc, hdr, gc, col, stack) BY <1>0 DEF Base
  <2>2. Len(stack) \in 1..Len(stack) BY <1>1, FrontFacts
  <2>3. stack[Len(stack)].obj = Null BY <2>1, <2>2, <1>1 DEF StackOK
  <2> QED BY <2>3, <1>1, BelowTop
<1>10. Led(Saved(alloc, hdr, gc) \union Below(stack), out, held \union Below(stack), Saved(alloc, hdr, gc))
  <2>1. SUFFICES ASSUME NEW C, held \union Below(stack) \subseteq C,
                        \A m \in C \intersect (Saved(alloc, hdr, gc) \union Below(stack)) : out[m] \subseteq C
                 PROVE  Saved(alloc, hdr, gc) \subseteq C
    BY DEF Led
  <2> DEFINE D == (C \ Gar(gc)) \union {Null}
  <2>2. \A y \in Gar(gc) : /\ y \in alloc /\ y \notin held /\ y \notin Objs(stack)
                           /\ \A m \in alloc : y \in out[m] => m \in Gar(gc)
    BY <1>4 DEF Isolated, Objs
  <2>3. held \union Objs(stack) \subseteq D BY <2>1, <2>2, <1>9
  <2>4. ASSUME NEW m \in D \intersect alloc PROVE out[m] \subseteq D
    <3>1. m # Null BY <1>0, NullAssumption
    <3>2. m \in C /\ m \notin Gar(gc) BY <3>1
    <3>3. m \in Saved(alloc, hdr, gc) \union Below(stack)
      BY <3>1, <3>2, <1>1, <1>9 DEF Saved
    <3>4. out[m] \subseteq C BY <3>2, <3>3, <2>1
    <3>5. \A y \in out[m] : y \notin Gar(gc) BY <3>2, <2>2
    <3> QED BY <3>4, <3>5
  <2>5. alloc \ Gar(gc) \subseteq D
    <3>1. Led(alloc, out, held \union Objs(stack), alloc \ Gar(gc)) BY <1>2, <1>6
    <3> HIDE DEF D
    <3> QED BY <2>3, <2>4, <3>1 DEF Led
  <2> QED BY <2>5, <1>0, NullAssumption DEF Saved
<1>11. Spares(alloc, out, held, hdr, gc, stack)
  <2>1. StackOK(alloc, hdr, gc, col, stack) BY <1>0 DEF Base
  <2>2. Len(stack) \in 1..Len(stack) /\ Len(stack) \in Nat BY <1>1, FrontFacts
  <2>3. \A j, k \in 1..Len(stack) : stack[j].fn = "gc" /\ stack[k].fn = "gc" => j = k BY <2>1 DEF StackOK
  <2>4. \A j, k \in 1..Len(stack) : stack[k].fn = "gc" /\ k < j => stack[j].fn \in {"gcfree", "free", "efree"}
    BY <2>2, <2>3, <1>1
  <2> QED BY <2>4, <1>10 DEF Spares
<1>12. Keeps(alloc, out, held, hdr', gc', col', stack) BY <1>3, <1>5, <1>8, <1>11 DEF Keeps
<1> QED BY <1>1, <1>3, <1>12, QuietKept

\* Addresses and calls stay, and nothing is known to be lost.
LEMMA SameRoots ==
    ASSUME Kept, stack # <<>>, stack[Len(stack)].fn = "gc", Quiet,
           Led(alloc, out, Anchors(held, hdr, stack), alloc),
           \A y \in Node : hdr[y].addr # 0 => hdr'[y].addr # 0,
           col'.pc \in {"nested", "dtors"}, col'.rerun,
           col'.pc = "nested" => Led(alloc, out, held \union Objs(stack) \union Tagged(gc', {"dtor"}), col'.todo)
    PROVE  Kept'
<1>1. Rooted(hdr) \subseteq Rooted(hdr') BY DEF Rooted
<1>2. Anchors(held, hdr, stack) \subseteq Anchors(held, hdr', stack) BY <1>1 DEF Anchors
<1>3. Led(alloc, out, Anchors(held, hdr', stack), alloc) BY <1>2, LedMore
<1>4. Keeps(alloc, out, held, hdr', gc', col', stack) BY <1>3 DEF Keeps
<1> QED BY <1>4, QuietKept

\* gc_call_destructors, first pass.
LEMMA DtorPrepareKept == ASSUME Prepares, Kept, DtorPrepare PROVE Kept'
<1>0. Base(alloc, out, held, hdr, gc, col, stack, bailed, ran) /\ col.pc = "prepare" /\ col.todo = {}
  BY DEF Prepares, Preparing
<1>1. /\ Keeps(alloc, out, held, hdr, gc, col, stack) /\ hdr \in [Node -> Hdr]
      /\ stack # <<>> /\ stack[Len(stack)].fn = "gc" /\ col \in Locals
  BY <1>0, BaseKept
<1>2. Led(alloc, out, Anchors(held, hdr, stack), alloc) BY <1>0, <1>1 DEF Keeps
<1>3. PICK S, T : hdr' = [n \in Node |->
                CASE n \in S -> [hdr[n] EXCEPT !.color = "purple"]
                  [] n \in T -> [hdr[n] EXCEPT !.dtored = TRUE]
                  [] OTHER -> hdr[n]]
  BY DEF DtorPrepare
<1>4. \A y \in Node : hdr'[y].addr = hdr[y].addr BY <1>1, <1>3 DEF Hdr
<1>5. Quiet /\ col' = [GoTo("nested", 1) EXCEPT !.rerun = TRUE] BY DEF DtorPrepare
<1>6. col'.pc = "nested" /\ col'.rerun /\ col'.todo = {} BY <1>0, <1>1, <1>5 DEF GoTo, Locals
<1>7. Led(alloc, out, held \union Objs(stack) \union Tagged(gc', {"dtor"}), col'.todo) BY <1>6 DEF Led
<1> QED BY <1>1, <1>2, <1>4, <1>5, <1>6, <1>7, SameRoots

\* What the next lemmas use of a pass over the objects with a destructor.
LEMMA NestKept ==
    ASSUME Nests, Kept
    PROVE  /\ Led(alloc, out, Anchors(held, hdr, stack), alloc) /\ col.rerun /\ col.pc = "nested"
           /\ Led(alloc, out, held \union Objs(stack) \union Tagged(gc, {"dtor"}), col.todo)
           /\ stack # <<>> /\ stack[Len(stack)].fn = "gc"
<1>1. Base(alloc, out, held, hdr, gc, col, stack, bailed, ran) /\ col.pc = "nested" BY NestFacts
<1>2. Keeps(alloc, out, held, hdr, gc, col, stack) /\ stack # <<>> /\ stack[Len(stack)].fn = "gc"
  BY <1>1, BaseKept
<1> QED BY <1>1, <1>2 DEF Keeps

\* An object whose destructor is due: what it refers to.
LEMMA NestedRootKept == ASSUME Nests, Kept, NestedRoot PROVE Kept'
<1>0. /\ Led(alloc, out, Anchors(held, hdr, stack), alloc) /\ col.rerun /\ col.pc = "nested"
      /\ stack # <<>> /\ stack[Len(stack)].fn = "gc"
  BY NestKept
<1>1. /\ col \in Locals /\ col.idx \in Nat /\ col.idx # 0 /\ col.end = gc.first_unused /\ col.end \in Nat
      /\ \A i \in Used(gc) : gc.buf[i].ref \in alloc
  BY NestFacts
<1>2. /\ Quiet /\ hdr' = hdr /\ gc' = gc /\ col.todo = {} /\ col.idx < col.end
      /\ col' = IF Entry.tag = "dtor"
              THEN [col EXCEPT !.idx = @ + 1, !.count = @ - 1, !.todo = Children(Entry.ref)]
              ELSE [col EXCEPT !.idx = @ + 1]
  BY DEF NestedRoot
<1>3. /\ col'.pc = "nested" /\ col'.rerun
      /\ col'.todo = IF Entry.tag = "dtor" THEN Children(Entry.ref) ELSE {}
  BY <1>0, <1>1, <1>2 DEF Locals
<1>4. Led(alloc, out, held \union Objs(stack) \union Tagged(gc, {"dtor"}), col'.todo)
  <2>1. CASE Entry.tag # "dtor"
    BY <2>1, <1>3 DEF Led
  <2>2. CASE Entry.tag = "dtor"
    <3>1. col.idx \in Used(gc) BY <1>1, <1>2, <2>2 DEF Used, Entry
    <3>2. Entry.ref \in alloc /\ Entry.ref \in Tagged(gc, {"dtor"}) BY <3>1, <2>2, <1>1 DEF Entry, Tagged
    <3>3. Children(Entry.ref) \subseteq out[Entry.ref] BY DEF Children
    <3> QED BY <2>2, <3>2, <3>3, <1>3 DEF Led
  <2> QED BY <2>1, <2>2
<1> QED BY <1>0, <1>2, <1>3, <1>4, SameRoots

\* gc_remove_nested_data_from_buffer: a node that leaves the buffer can be
\* reached from an object that stays in it.
LEMMA NestedDataKept ==
    ASSUME NEW n \in Node, Nests, Kept, gc_remove_nested_data_from_buffer(n) PROVE Kept'
<1>0. /\ Led(alloc, out, Anchors(held, hdr, stack), alloc) /\ col.rerun /\ col.pc = "nested"
      /\ Led(alloc, out, held \union Objs(stack) \union Tagged(gc, {"dtor"}), col.todo)
      /\ stack # <<>> /\ stack[Len(stack)].fn = "gc"
  BY NestKept
<1>1. /\ BufOK(alloc, hdr, gc) /\ ColorOK(hdr, gc) /\ hdr \in [Node -> Hdr]
      /\ gc \in Globals /\ col \in Locals /\ alloc \in SUBSET Node
  BY NestFacts
<1>2. Quiet /\ n \in col.todo BY DEF gc_remove_nested_data_from_buffer
<1>3. CASE ~(hdr[n].addr # 0 /\ hdr[n].color = "black")
  <2>1. hdr' = hdr /\ gc' = gc /\ col' = [col EXCEPT !.todo = @ \ {n}]
    BY <1>3 DEF gc_remove_nested_data_from_buffer
  <2>2. col'.pc = "nested" /\ col'.rerun /\ col'.todo \subseteq col.todo BY <1>0, <1>1, <2>1 DEF Locals
  <2>3. Led(alloc, out, held \union Objs(stack) \union Tagged(gc', {"dtor"}), col'.todo)
    BY <1>0, <2>1, <2>2, LedMore
  <2> QED BY <1>0, <1>2, <2>1, <2>2, <2>3, SameRoots
<1>4. CASE hdr[n].addr # 0 /\ hdr[n].color = "black"
  <2>1. gc' = gc_remove_from_buffer(gc, n) /\ hdr' = NoInfo(hdr, n)
        /\ col' = [col EXCEPT !.count = @ - 1, !.todo = (@ \ {n}) \union Children(n)]
    BY <1>4 DEF gc_remove_nested_data_from_buffer
  <2>2. col'.pc = "nested" /\ col'.rerun /\ col'.todo = (col.todo \ {n}) \union Children(n)
    BY <1>0, <1>1, <2>1 DEF Locals
  <2>3. \A y \in Node : y # n => hdr'[y].addr = hdr[y].addr BY <1>1, <2>1 DEF NoInfo, Hdr
  <2>4. gc' = gc_remove_from_roots(gc, Decompress(hdr, gc, n))
    BY <2>1 DEF gc_remove_from_buffer, gc_decompress, Decompress
  <2>5. \A y : y # n => (y \in Tagged(gc', {"dtor"}) <=> y \in Tagged(gc, {"dtor"}))
    <3> DEFINE g2 == gc'
    <3>1. g2 = gc_remove_from_roots(gc, Decompress(hdr, gc, n)) BY <2>4
    <3> HIDE DEF g2
    <3>2. \A T, y : y # n => (y \in Tagged(g2, T) <=> y \in Tagged(gc, T))
      BY <3>1, <1>1, <1>4, RemoveTagged
    <3> QED BY <3>2 DEF g2
  <2>6. n \notin Tagged(gc, {"dtor"})
    BY <1>1, <1>4 DEF Tagged, ColorOK
  <2>7. /\ \A y \in Tagged(gc, {"dtor"}) : y \in Tagged(gc', {"dtor"}) /\ y \in Rooted(hdr')
        /\ n \in alloc
    <3>1. Entries(alloc, hdr, gc) BY <1>1 DEF BufOK
    <3>2. \A i \in Used(gc) : gc.buf[i].ref \in Node /\ hdr[gc.buf[i].ref].addr # 0 BY <3>1, <1>1, UsedFacts
    <3>3. \A y \in Tagged(gc, {"dtor"}) : y \in Node /\ hdr[y].addr # 0 BY <3>2 DEF Tagged
    <3>4. n \in alloc BY <3>1, <1>4 DEF Entries
    <3> QED BY <3>3, <3>4, <2>3, <2>5, <2>6 DEF Rooted
  <2> DEFINE B == held \union Objs(stack) \union Tagged(gc, {"dtor"})
             B2 == held \union Objs(stack) \union Tagged(gc', {"dtor"})
             A == Anchors(held, hdr, stack)
             A2 == Anchors(held, hdr', stack)
  <2>8. B \subseteq B2 /\ B \subseteq A2 BY <2>7 DEF Anchors
  <2>9. \A y \in A : y \in A2 \/ y = n BY <2>3 DEF Anchors, Rooted
  <2>10. \A y \in Children(n) : y \in out[n] BY DEF Children
  <2> HIDE DEF B, B2, A, A2
  <2>11. Led(alloc, out, B, col.todo) /\ Led(alloc, out, A, alloc) BY <1>0 DEF B, A
  <2>12. Led(alloc, out, B2, col.todo) BY <2>8, <2>11, LedMore
  <2>13. Led(alloc, out, B2, col'.todo)
    <3>1. \A y \in col'.todo : \/ y \in col.todo \/ y \in B2
                               \/ \E m \in alloc : (m \in col.todo \/ m \in B2) /\ y \in out[m]
      BY <2>2, <2>7, <2>10, <1>2
    <3> QED BY <3>1, <2>12, LedNew
  <2>14. Led(alloc, out, A2, col.todo) BY <2>8, <2>11, LedMore
  <2>15. Led(alloc, out, A2, A)
    <3>1. \A y \in A : \/ y \in col.todo \/ y \in A2
                       \/ \E m \in alloc : (m \in col.todo \/ m \in A2) /\ y \in out[m]
      BY <2>9, <1>2
    <3> QED BY <3>1, <2>14, LedNew
  <2>16. Led(alloc, out, A2, alloc) BY <2>11, <2>15, LedBy
  <2>17. Keeps(alloc, out, held, hdr', gc', col', stack)
    BY <2>2, <2>13, <2>16 DEF Keeps, A2, B2
  <2> QED BY <1>0, <1>2, <2>17, QuietKept
<1> QED BY <1>3, <1>4

\* The destructors come next.
LEMMA NestedDoneKept == ASSUME Nests, Kept, NestedDone PROVE Kept'
<1>0. /\ Led(alloc, out, Anchors(held, hdr, stack), alloc) /\ col.rerun
      /\ stack # <<>> /\ stack[Len(stack)].fn = "gc"
  BY NestKept
<1>1. col \in Locals BY NestFacts
<1>2. Quiet /\ hdr' = hdr /\ col' = GoTo("dtors", 1) BY DEF NestedDone
<1>3. col'.pc = "dtors" /\ col'.rerun BY <1>0, <1>1, <1>2 DEF GoTo, Locals
<1> QED BY <1>0, <1>2, <1>3, SameRoots

\* The collector calls a destructor or frees a node.
LEMMA CallKept ==
    ASSUME Calm, Kept, stack # <<>>, stack[Len(stack)].fn = "gc",
           alloc' = alloc, out' = out, held' = held, bailed' = bailed,
           FollowOK(stack'), stack'[Len(stack')].fn # "del", Objs(stack) \subseteq Objs(stack'),
           \A y \in Node : hdr[y].addr # 0 => hdr'[y].addr # 0,
           col.pc \in {"dtors", "destroy"}, col'.pc \in {"dtors", "destroy"},
           col'.pc = "dtors" => col'.rerun,
           col'.pc = "destroy" /\ ~col'.rerun => Spares(alloc, out, held, hdr', gc', stack')
    PROVE  Kept'
<1>1. Led(alloc, out, Anchors(held, hdr, stack), alloc) /\ ~bailed BY CalmKept
<1>2. Anchors(held, hdr, stack) \subseteq Anchors(held, hdr', stack') BY DEF Anchors, Rooted
<1>3. Led(alloc, out, Anchors(held, hdr', stack'), alloc) BY <1>1, <1>2, LedMore
<1>4. Keeps(alloc, out, held, hdr', gc', col', stack') BY <1>3 DEF Keeps
<1>5. DelOK(hdr', stack') BY DEF DelOK
<1> QED BY <1>1, <1>4, <1>5 DEF Kept

\* gc_call_destructors, second pass.
LEMMA DtorStepKept == ASSUME Calm, Kept, DtorStep PROVE Kept'
<1> DEFINE n == Entry.ref
<1>0. /\ alloc \in SUBSET Node /\ hdr \in [Node -> Hdr] /\ gc \in Globals /\ col \in Locals
      /\ stack \in Seq(Frame) /\ BufOK(alloc, hdr, gc) /\ FollowOK(stack)
      /\ (col.pc = "dtors" => col.rerun)
  BY CalmKept
<1>1. /\ stack # <<>> /\ stack[Len(stack)].fn = "gc" /\ col.pc = "dtors" /\ col.idx < col.end
      /\ IF Entry.tag = "dtor" /\ ~hdr[n].dtored
         THEN /\ hdr' = [hdr EXCEPT ![n].dtored = TRUE, ![n].rc = @ + 2]
              /\ stack' = stack \o <<Call("gcdtor", n), Call("dtor", n)>>
         ELSE hdr' = hdr /\ stack' = stack
      /\ col' = [col EXCEPT !.idx = @ + 1]
      /\ alloc' = alloc /\ out' = out /\ held' = held /\ bailed' = bailed
  BY AtFacts DEF DtorStep, heap
<1>2. col'.pc = "dtors" /\ col'.rerun BY <1>0, <1>1 DEF Locals
<1>3. CASE ~(Entry.tag = "dtor" /\ ~hdr[n].dtored)
  <2>1. hdr' = hdr /\ stack' = stack BY <1>1, <1>3
  <2> QED BY <2>1, <1>0, <1>1, <1>2, CallKept
<1>4. CASE Entry.tag = "dtor" /\ ~hdr[n].dtored
  <2>1. n \in Node
    <3>1. TagOK(gc, col) /\ Entries(alloc, hdr, gc) BY <1>0 DEF Calm, Steady, BufOK
    <3>2. col.idx # 0 BY <1>1 DEF Calm, Steady, Types
    <3>3. col.idx \in Nat /\ col.end \in Nat /\ gc.first_unused \in Nat BY <1>0 DEF Locals, Globals
    <3>4. col.end <= gc.first_unused BY <3>1, <1>1 DEF TagOK
    <3>5. col.idx \in Used(gc) BY <3>2, <3>3, <3>4, <1>1, <1>4 DEF Used, Entry
    <3> QED BY <3>1, <3>5, <1>0 DEF Entries, Entry
  <2>2. hdr' = [hdr EXCEPT ![n].dtored = TRUE, ![n].rc = @ + 2]
        /\ stack' = stack \o <<Call("gcdtor", n), Call("dtor", n)>>
    BY <1>1, <1>4
  <2> HIDE DEF n
  <2>3. \A y \in Node : hdr'[y].addr = hdr[y].addr BY <2>1, <2>2, <1>0 DEF Hdr
  <2> DEFINE f == Call("gcdtor", n)
             f2 == Call("dtor", n)
  <2>4. f \in Frame /\ f2 \in Frame /\ f.fn = "gcdtor" /\ f2.fn = "dtor" /\ f.obj = n
    BY <2>1 DEF Call, Frame, Fns
  <2>5. stack' = stack \o <<f, f2>> BY <2>2
  <2> HIDE DEF f, f2
  <2>6. PICK s \in Seq(Frame) : Pushed(stack, f, s) /\ Pushed(s, f2, stack \o <<f, f2>>)
    BY <2>4, <1>0, PushTwo
  <2>7. Pushed(s, f2, stack') BY <2>5, <2>6
  <2>8. FollowOK(s) /\ Objs(s) = Objs(stack) \union {f.obj}
    <3>1. stack # <<>> /\ stack[Len(stack)].fn = "del" => f.fn \in {"dtor", "full"} /\ f.obj = stack[Len(stack)].obj
      BY <1>1
    <3>2. f.fn \in {"gcdtor", "gcfree"} => stack # <<>> /\ stack[Len(stack)].fn = "gc" BY <1>1
    <3>3. stack \in Seq(Frame) /\ Pushed(stack, f, s) /\ FollowOK(stack) BY <2>6, <1>0
    <3> QED BY ONLY <3>1, <3>2, <3>3, FollowPush
  <2>9. FollowOK(stack') /\ Objs(stack') = Objs(s) \union {f2.obj}
    <3> DEFINE t == stack'
    <3>1. s # <<>> /\ s[Len(s)].fn = "del" => f2.fn \in {"dtor", "full"} /\ f2.obj = s[Len(s)].obj
      BY <2>4, <2>6 DEF Pushed
    <3>2. f2.fn \in {"gcdtor", "gcfree"} => s # <<>> /\ s[Len(s)].fn = "gc" BY <2>4
    <3>3. s \in Seq(Frame) /\ Pushed(s, f2, t) /\ FollowOK(s) BY <2>6, <2>7, <2>8
    <3> HIDE DEF t
    <3>4. FollowOK(t) /\ Objs(t) = Objs(s) \union {f2.obj} BY ONLY <3>1, <3>2, <3>3, FollowPush
    <3> QED BY <3>4 DEF t
  <2>10. stack'[Len(stack')].fn = "dtor" BY <2>4, <2>7 DEF Pushed
  <2>11. Objs(stack) \subseteq Objs(stack') BY <2>8, <2>9
  <2> QED BY <1>1, <1>2, <2>3, <2>9, <2>10, <2>11, CallKept
<1> QED BY <1>3, <1>4

\* The destructors have run.
LEMMA DtorsDoneKept == ASSUME Calm, Kept, DtorsDone, ~gc'.protected PROVE Kept'
<1>0. col \in Locals /\ FollowOK(stack) /\ (col.pc = "dtors" => col.rerun) BY CalmKept
<1>1. /\ stack # <<>> /\ stack[Len(stack)].fn = "gc" /\ col.pc = "dtors" /\ gc' = gc /\ hdr' = hdr
      /\ alloc' = alloc /\ out' = out /\ held' = held /\ bailed' = bailed
  BY AtFacts DEF DtorsDone, heap
<1>2. col' = GoTo("destroy", 1) /\ stack' = stack BY <1>1 DEF DtorsDone
<1>3. col'.pc = "destroy" /\ col'.rerun BY <1>0, <1>1, <1>2 DEF GoTo, Locals
<1> QED BY <1>0, <1>1, <1>2, <1>3, CallKept

\* The headers of a node of the garbage that is destroyed.
LEMMA DestroySaves ==
    ASSUME NEW al, NEW o, NEW hd, NEW h, NEW g, NEW st, Spares(al, o, hd, h, g, st), al \in SUBSET Node,
           NEW n \in Gar(g), NEW h2, \A y \in Node : y # n => h2[y] = h[y]
    PROVE  Spares(al, o, hd, h2, g, st)
<1>1. Saved(al, h2, g) = Saved(al, h, g) BY DEF Saved, Dead
<1> QED BY <1>1, SparesMove

\* A call more of the collector, to free n.
Frees(st, n, h2, g2, st2) ==
    /\ FollowOK(st2) /\ st2[Len(st2)].fn # "del" /\ Objs(st) \subseteq Objs(st2) /\ st2 \in Seq(Frame)
    /\ Spares(alloc, out, held, h2, g2, st) => Spares(alloc, out, held, h2, g2, st2)
\* Such a call is in order.
LEMMA FreesCall ==
    ASSUME NEW st \in Seq(Frame), FollowOK(st), st # <<>>, st[Len(st)].fn # "del", NEW n, NEW f,
           f.fn \in {"gcfree", "free"}, f.fn = "gcfree" => st[Len(st)].fn = "gc",
           NEW st2, Pushed(st, f, st2), NEW h2, NEW g2
    PROVE  Frees(st, n, h2, g2, st2)
<1>1. FollowOK(st2) /\ Objs(st2) = Objs(st) \union {f.obj}
  <2>1. st # <<>> /\ st[Len(st)].fn = "del" => f.fn \in {"dtor", "full"} /\ f.obj = st[Len(st)].obj OBVIOUS
  <2>2. f.fn \in {"gcdtor", "gcfree"} => st # <<>> /\ st[Len(st)].fn = "gc" OBVIOUS
  <2>3. st \in Seq(Frame) /\ Pushed(st, f, st2) /\ FollowOK(st) OBVIOUS
  <2> QED BY ONLY <2>1, <2>2, <2>3, FollowPush
<1>2. st2[Len(st2)] = f /\ st2 \in Seq(Frame) BY DEF Pushed
<1>3. Spares(alloc, out, held, h2, g2, st) => Spares(alloc, out, held, h2, g2, st2) BY SparesPush
<1> QED BY <1>1, <1>2, <1>3 DEF Frees

\* The collector destroys the next entry.
LEMMA DestroyStepKept == ASSUME Calm, Kept, DestroyStep PROVE Kept'
<1> DEFINE n == Entry.ref
<1>0. /\ alloc \in SUBSET Node /\ hdr \in [Node -> Hdr] /\ gc \in Globals /\ col \in Locals
      /\ stack \in Seq(Frame) /\ BufOK(alloc, hdr, gc) /\ FollowOK(stack)
      /\ (col.pc = "destroy" /\ ~col.rerun => Spares(alloc, out, held, hdr, gc, stack))
  BY CalmKept
<1>1. /\ stack # <<>> /\ stack[Len(stack)].fn = "gc" /\ col.pc = "destroy" /\ col.idx < col.end
      /\ col' = [col EXCEPT !.idx = @ + 1] /\ gc' = gc
      /\ alloc' = alloc /\ out' = out /\ held' = held /\ bailed' = bailed
  BY AtFacts DEF DestroyStep, heap
<1>2. col'.pc = "destroy" /\ col'.rerun = col.rerun BY <1>0, <1>1 DEF Locals
<1>3. ASSUME Entry.tag = "garbage" PROVE n \in Node /\ n \in Gar(gc)
  <2>1. TagOK(gc, col) /\ Entries(alloc, hdr, gc) BY <1>0 DEF Calm, Steady, BufOK
  <2>2. col.idx # 0 BY <1>1 DEF Calm, Steady, Types
  <2>3. col.idx \in Nat /\ col.end \in Nat /\ gc.first_unused \in Nat BY <1>0 DEF Locals, Globals
  <2>4. col.end <= gc.first_unused BY <2>1, <1>1 DEF TagOK
  <2>5. col.idx \in Used(gc) BY <1>3, <2>2, <2>3, <2>4, <1>1 DEF Used, Entry
  <2> QED BY <1>3, <2>1, <2>5, <1>0 DEF Entries, Entry, Gar, Tagged
<1>4. \/ hdr' = hdr /\ stack' = stack
      \/ Entry.tag = "garbage" /\ hdr' = [hdr EXCEPT ![n].null = TRUE] /\ stack' = Append(stack, Call("free", n))
      \/ /\ Entry.tag = "garbage" /\ hdr' = [hdr EXCEPT ![n].null = TRUE, ![n].freed = TRUE, ![n].rc = @ + 1]
         /\ stack' = stack \o <<Call("gcfree", n), Call("free", n)>>
      \/ Entry.tag = "garbage" /\ hdr' = [hdr EXCEPT ![n].null = TRUE] /\ stack' = stack
  BY DEF DestroyStep
<1> HIDE DEF n
<1>5. ASSUME Entry.tag = "garbage", Frees(stack, n, hdr', gc', stack'),
             \A y \in Node : hdr'[y].addr = hdr[y].addr /\ (y # n => hdr'[y] = hdr[y])
      PROVE  Kept'
  <2>1. n \in Gar(gc) BY <1>3, <1>5
  <2>2. ~col.rerun => Spares(alloc, out, held, hdr', gc', stack')
    <3>1. ~col.rerun => Spares(alloc, out, held, hdr, gc, stack) BY <1>0, <1>1
    <3>2. \A y \in Node : y # n => hdr'[y] = hdr[y] BY <1>5
    <3>3. ~col.rerun => Spares(alloc, out, held, hdr', gc, stack)
      BY ONLY <3>1, <3>2, <2>1, <1>0, DestroySaves
    <3> QED BY <3>3, <1>1, <1>5 DEF Frees
  <2>3. \A y \in Node : hdr[y].addr # 0 => hdr'[y].addr # 0 BY <1>5
  <2>4. FollowOK(stack') /\ stack'[Len(stack')].fn # "del" /\ Objs(stack) \subseteq Objs(stack') BY <1>5 DEF Frees
  <2> QED BY <1>1, <1>2, <2>2, <2>3, <2>4, CallKept
<1>6. CASE hdr' = hdr /\ stack' = stack
  BY <1>6, <1>0, <1>1, <1>2, CallKept
<1>7. CASE Entry.tag = "garbage" /\ hdr' = [hdr EXCEPT ![n].null = TRUE] /\ stack' = Append(stack, Call("free", n))
  <2> DEFINE f == Call("free", n)
  <2>1. f \in Frame /\ f.fn = "free" BY <1>3, <1>7 DEF Call, Frame, Fns
  <2>2. stack' = Append(stack, f) BY <1>7
  <2> HIDE DEF f
  <2>3. Pushed(stack, f, stack') BY <2>1, <2>2, <1>0, PushAppend
  <2>4. Frees(stack, n, hdr', gc', stack') BY <2>1, <2>3, <1>0, <1>1, FreesCall
  <2>5. \A y \in Node : hdr'[y].addr = hdr[y].addr /\ (y # n => hdr'[y] = hdr[y]) BY <1>7, <1>0 DEF Hdr
  <2> QED BY <1>5, <1>7, <2>4, <2>5
<1>8. CASE /\ Entry.tag = "garbage" /\ hdr' = [hdr EXCEPT ![n].null = TRUE, ![n].freed = TRUE, ![n].rc = @ + 1]
           /\ stack' = stack \o <<Call("gcfree", n), Call("free", n)>>
  <2> DEFINE f == Call("gcfree", n)
             f2 == Call("free", n)
  <2>1. f \in Frame /\ f.fn = "gcfree" /\ f2 \in Frame /\ f2.fn = "free" BY <1>3, <1>8 DEF Call, Frame, Fns
  <2>2. stack' = stack \o <<f, f2>> BY <1>8
  <2> HIDE DEF f, f2
  <2>3. PICK s \in Seq(Frame) : Pushed(stack, f, s) /\ Pushed(s, f2, stack \o <<f, f2>>)
    BY <2>1, <1>0, PushTwo
  <2>4. Pushed(s, f2, stack') BY <2>2, <2>3
  <2>5. Frees(stack, n, hdr', gc', s) BY <2>1, <2>3, <1>0, <1>1, FreesCall
  <2>6. s # <<>> /\ s[Len(s)].fn = "gcfree" BY <2>1, <2>3, <1>0, NoElements DEF Pushed
  <2>7. Frees(s, n, hdr', gc', stack')
    <3>1. FollowOK(s) BY <2>5 DEF Frees
    <3> QED BY <3>1, <2>1, <2>4, <2>6, FreesCall
  <2>8. Frees(stack, n, hdr', gc', stack') BY <2>5, <2>7 DEF Frees
  <2>9. \A y \in Node : hdr'[y].addr = hdr[y].addr /\ (y # n => hdr'[y] = hdr[y]) BY <1>8, <1>0 DEF Hdr
  <2> QED BY <1>5, <1>8, <2>8, <2>9
<1>9. CASE Entry.tag = "garbage" /\ hdr' = [hdr EXCEPT ![n].null = TRUE] /\ stack' = stack
  <2>1. Frees(stack, n, hdr', gc', stack') BY <1>9, <1>0, <1>1 DEF Frees
  <2>2. \A y \in Node : hdr'[y].addr = hdr[y].addr /\ (y # n => hdr'[y] = hdr[y]) BY <1>9, <1>0 DEF Hdr
  <2> QED BY <1>5, <1>9, <2>1, <2>2
<1> QED BY <1>4, <1>6, <1>7, <1>8, <1>9

\* The garbage goes, with no references left in it.
LEMMA FreeGarbageKept == ASSUME Calm, Kept, FreeGarbage PROVE Kept'
<1>0. /\ alloc \in SUBSET Node /\ held \in SUBSET Node /\ hdr \in [Node -> Hdr] /\ gc \in Globals /\ col \in Locals
      /\ stack \in Seq(Frame) /\ BufOK(alloc, hdr, gc) /\ FollowOK(stack)
      /\ Led(alloc, out, Anchors(held, hdr, stack), alloc) /\ ~bailed
      /\ (col.pc = "destroy" /\ ~col.rerun => Spares(alloc, out, held, hdr, gc, stack))
      /\ Steady(alloc, out, held, hdr, gc, col, stack, FALSE, ran, Null)
  BY CalmKept, Zenon
<1>1. /\ stack # <<>> /\ stack[Len(stack)].fn = "gc" /\ col.pc = "destroy" /\ col.idx = col.end
      /\ out' = out /\ held' = held /\ stack' = stack /\ bailed' = bailed
  BY AtFacts, Zenon DEF FreeGarbage
<1>2. Calm' /\ Swept(alloc, hdr, Gar(gc), alloc', hdr') BY FreeGarbageCalm
<1>3. PICK p, t, d : col' = [GoTo(p, 0) EXCEPT !.total = t, !.did = d] /\ p \in {"start", "finish"}
  BY Zenon DEF FreeGarbage
<1>4. col'.pc \in {"start", "finish"} /\ col'.rerun = col.rerun BY <1>0, <1>3 DEF GoTo, Locals
<1>5. Gar(gc') = {}
  <2>1. TagOK(gc', col') BY <1>2 DEF Calm, Steady
  <2> QED BY <2>1, <1>4 DEF TagOK, Gar, Tagged
<1>6. \A m \in Gar(gc) : out[m] = {}
  <2>1. SUFFICES ASSUME NEW m \in Gar(gc) PROVE out[m] = {}
    OBVIOUS
  <2>2. PICK i \in Used(gc) : gc.buf[i].tag = "garbage" /\ gc.buf[i].ref = m BY <2>1 DEF Gar, Tagged
  <2>3. TagOK(gc, col) /\ EmptyOK(alloc, out, hdr, gc, col, stack, FALSE) /\ ApartOK(alloc, out, col, stack, Gar(gc))
    BY <1>0 DEF Steady
  <2>4. i < col.idx BY <2>2, <2>3, <1>1 DEF TagOK
  <2>5. out[m] = {} \/ \E k \in 1..Len(stack) : stack[k].fn = "free" /\ stack[k].obj = m
    BY <2>2, <2>3, <2>4, <1>1 DEF EmptyOK
  <2>6. ASSUME NEW k \in 1..Len(stack), stack[k].fn = "free", stack[k].obj = m PROVE FALSE
    <3>1. Len(stack) \in Nat /\ InGC(stack, Len(stack)) BY <1>0, <1>1, FrontFacts DEF InGC
    <3>2. k \in 1..(Len(stack) - 1) BY <3>1, <2>6, <1>1
    <3> QED BY <3>1, <3>2, <2>1, <2>3, <2>6 DEF ApartOK
  <2> QED BY <2>5, <2>6
<1>7. /\ \A y \in Node : y \in alloc' <=> y \in alloc /\ y \notin Gar(gc)
      /\ \A y \in Node : y \notin Gar(gc) => /\ hdr'[y].null = hdr[y].null /\ hdr'[y].freed = hdr[y].freed
                                             /\ hdr[y].addr # 0 => hdr'[y].addr # 0
  BY <1>2 DEF Swept
<1>8. alloc' \in SUBSET Node BY <1>2 DEF Calm, Steady, Types
<1>9. Led(alloc', out, Anchors(held, hdr', stack), alloc')
  <2> DEFINE a2 == alloc'
             B == Anchors(held, hdr, stack)
             B2 == Anchors(held, hdr', stack)
             X == Gar(gc)
  <2>1. \A y \in B : y \in B2 \/ y \in X BY <1>7 DEF Anchors, Rooted
  <2>2. \A m \in alloc : m \in a2 \/ m \in X BY <1>0, <1>7
  <2>3. \A m \in alloc : m \in X => out[m] = {} BY <1>6
  <2>4. \A y \in a2 : y \in alloc /\ y \notin X BY <1>7, <1>8
  <2>5. Led(alloc, out, B, alloc) BY <1>0
  <2> HIDE DEF a2, B, B2, X
  <2>6. LedOn(alloc, out, B, alloc, a2, out, B2, a2, X) BY <2>1, <2>2, <2>3, <2>4 DEF LedOn
  <2>7. Led(a2, out, B2, a2) BY ONLY <2>5, <2>6, LedMove
  <2> QED BY <2>7 DEF a2, B2
<1>10. Saved(alloc', hdr', gc') = Saved(alloc, hdr, gc)
  BY <1>0, <1>5, <1>7, <1>8 DEF Saved, Dead
<1>11. ~col.rerun => Spares(alloc', out, held, hdr', gc', stack)
  <2>1. ~col.rerun => Spares(alloc, out, held, hdr, gc, stack) BY <1>0, <1>1
  <2> QED BY <2>1, <1>10 DEF Spares
<1>12. Keeps(alloc', out', held', hdr', gc', col', stack') BY <1>1, <1>4, <1>9, <1>11 DEF Keeps
<1>13. DelOK(hdr', stack') BY <1>1 DEF DelOK
<1> QED BY <1>0, <1>1, <1>12, <1>13 DEF Kept

\* The collection is over.
LEMMA FinishKept == ASSUME Calm, Kept, Finish PROVE Kept'
<1>0. /\ alloc \in SUBSET Node /\ stack \in Seq(Frame) /\ FollowOK(stack) /\ ~bailed
      /\ Led(alloc, out, Anchors(held, hdr, stack), alloc) /\ StackOK(alloc, hdr, gc, col, stack)
  BY CalmKept
<1>1. /\ stack # <<>> /\ stack[Len(stack)].fn = "gc" /\ stack' = Pop /\ hdr' = hdr
      /\ alloc' = alloc /\ out' = out /\ held' = held /\ bailed' = bailed
  BY AtFacts DEF Finish, heap
<1>2. col'.pc = "idle" BY IdleFacts DEF Finish, Idle
<1> DEFINE f == stack[Len(stack)]
<1>3. Pop \in Seq(Frame) /\ Pushed(Pop, f, stack) BY <1>0, <1>1, PushPop DEF Pop
<1>4. f.obj = Null /\ f.fn = "gc"
  <2>1. Len(stack) \in 1..Len(stack) BY <1>0, <1>1, FrontFacts
  <2> QED BY <2>1, <1>0, <1>1 DEF StackOK
<1> HIDE DEF f
<1>5. /\ FollowOK(Pop) /\ Objs(stack) = Objs(Pop) \union {f.obj}
      /\ Pop # <<>> /\ Pop[Len(Pop)].fn = "del" => f.fn \in {"dtor", "full"} /\ f.obj = Pop[Len(Pop)].obj
  BY <1>0, <1>3, FollowPop
<1>6. DelOK(hdr', stack') BY <1>1, <1>4, <1>5 DEF DelOK
<1>7. Led(alloc, out, Anchors(held, hdr, Pop), alloc)
  <2> DEFINE B == Anchors(held, hdr, stack)
             B2 == Anchors(held, hdr, Pop)
             X == {Null}
  <2>1. \A y \in B : y \in B2 \/ y \in X BY <1>4, <1>5 DEF Anchors
  <2>2. \A m \in alloc : m \notin X BY <1>0, NullAssumption
  <2>3. Led(alloc, out, B, alloc) BY <1>0
  <2> HIDE DEF B, B2, X
  <2>4. LedOn(alloc, out, B, alloc, alloc, out, B2, alloc, X) BY <2>1, <2>2 DEF LedOn
  <2>5. Led(alloc, out, B2, alloc) BY ONLY <2>3, <2>4, LedMove
  <2> QED BY <2>5 DEF B2
<1>8. Keeps(alloc', out', held', hdr', gc', col', stack') BY <1>1, <1>2, <1>7 DEF Keeps
<1> QED BY <1>0, <1>1, <1>5, <1>6, <1>8 DEF Kept

-----------------------------------------------------------------------------
(* The second invariant holds.                                             *)

\* The steps outside of the traversals.
LEMMA CalmStepKept == ASSUME Calm, Kept, Next, ~gc.full, ~gc'.full, ~gc'.protected PROVE Kept'
<1>0. col.pc \in SteadyPcs
  BY DEF Calm
<1>1. CASE Program
  <2>1. ASSUME NEW n \in Node, New(n) \/ Take(n) \/ DropVariable(n) PROVE Kept'
    BY <2>1, NewKept, TakeKept, DropVariableKept
  <2>2. ASSUME NEW m \in Node, NEW n \in Node, SetElement(m, n) \/ UnsetElement(m, n) PROVE Kept'
    BY <2>2, SetElementKept, UnsetElementKept
  <2>3. ASSUME NEW on \in BOOLEAN, gc_enable(on) PROVE Kept'
    BY <2>3, EnableKept
  <2>4. ASSUME ZEND_FUNCTION_gc_collect_cycles PROVE Kept'
    BY <2>4, CollectFunctionKept
  <2>5. ~_zend_bailout
    <3>1. gc \in Globals
      BY CalmKept
    <3>2. ASSUME NEW g \in Globals PROVE [g EXCEPT !.protected = TRUE].protected
      BY DEF Globals
    <3> QED
      BY <3>1, <3>2 DEF _zend_bailout
  <2> QED
    BY <1>1, <2>1, <2>2, <2>3, <2>4, <2>5 DEF Program
<1>2. CASE DestructorReturns
  BY <1>2, DestructorReturnsKept
<1>3. CASE Freeing
  <2>1. ASSUME NEW n \in Node, FreeChild(n) PROVE Kept'
    BY <2>1, FreeChildKept
  <2> QED
    BY <1>3, <2>1, DelResumesKept, FreeDoneKept, EfreeKept, CollectorResumesKept,
       WhenFullResumesKept DEF Freeing
<1>4. CASE Collecting
  <2>1. \/ Start \/ DtorStep \/ DtorsDone \/ DestroyStep \/ FreeGarbage \/ Finish
    BY <1>0, <1>4, CollectingAt DEF SteadyPcs
  <2> QED
    BY <2>1, StartKept, DtorStepKept, DtorsDoneKept, DestroyStepKept, FreeGarbageKept, FinishKept
<1> QED
  BY <1>1, <1>2, <1>3, <1>4 DEF Next

\* The steps of the traversals.
LEMMA TraversalKept ==
    ASSUME Marks \/ Scans \/ Gathers \/ Prepares \/ Nests, Kept, Next, ~gc.full, ~gc'.full
    PROVE  Kept'
<1>1. stack # <<>> /\ stack[Len(stack)].fn = "gc"
  BY DEF Marks, Marking, Scans, Scanning, Gathers, Gathering, Prepares, Preparing, Nests, Nesting, Base
<1>2. Collecting
  BY <1>1, TopCollects
<1>3. CASE Marks
  <2>1. MarkRoot \/ MarkDone \/ \E n \in Node : gc_mark_grey(n)
    BY <1>2, <1>3, CollectingAt DEF Marks, Marking
  <2> QED
    BY <2>1, <1>3, MarkRootKept, MarkDoneKept, MarkGreyKept
<1>4. CASE Scans
  <2>1. ScanRoot \/ ScanDone \/ \E n \in Node : gc_scan(n) \/ gc_scan_black(n)
    BY <1>2, <1>4, CollectingAt DEF Scans, Scanning
  <2> QED
    BY <2>1, <1>4, ScanRootKept, ScanDoneKept, ScanKept, ScanBlackKept
<1>5. CASE Gathers
  <2>1. CollectRoot \/ CollectDone \/ \E n \in Node : gc_collect_white(n)
    BY <1>2, <1>5, CollectingAt DEF Gathers, Gathering
  <2> QED
    BY <2>1, <1>5, CollectRootKept, CollectDoneKept, CollectWhiteKept
<1>6. CASE Prepares
  <2>1. DtorPrepare
    BY <1>2, <1>6, CollectingAt DEF Prepares, Preparing
  <2> QED
    BY <2>1, <1>6, DtorPrepareKept
<1>7. CASE Nests
  <2>1. NestedRoot \/ NestedDone \/ \E n \in Node : gc_remove_nested_data_from_buffer(n)
    BY <1>2, <1>7, CollectingAt DEF Nests, Nesting
  <2> QED
    BY <2>1, <1>7, NestedRootKept, NestedDoneKept, NestedDataKept
<1> QED
  BY <1>3, <1>4, <1>5, <1>6, <1>7

\* The second invariant: it is given up when the collector is protected, by
\* a bailout or by an overflow.
LInv == ~gc.full /\ ~gc.protected => Kept

\* Every step keeps it.
LEMMA LossStep == ASSUME GInv, LInv, [Next]_vars PROVE LInv'
<1> SUFFICES ASSUME ~gc'.full, ~gc'.protected PROVE Kept'
  BY DEF LInv
<1>1. ~Over(gc)
  <2> SUFFICES ASSUME Over(gc) PROVE FALSE
    OBVIOUS
  <2> DEFINE B == {"full"}
  <2>1. Flag(gc, B)
    BY DEF Over
  <2> HIDE DEF B
  <2>2. Flag(gc', B)
    BY <2>1, FullStays
  <2> QED
    BY <2>2 DEF Flag, B
<1>2. {"full", "protected"} \subseteq DOMAIN gc
  BY <1>1, InvTypes DEF Types, Globals
<1>3. ~gc.full
  BY <1>1, <1>2 DEF Over, Flag
<1>4. ~gc.protected
  <2> SUFFICES ASSUME gc.protected PROVE FALSE
    OBVIOUS
  <2> DEFINE B == {"protected"}
  <2>1. Flag(gc, B)
    BY <1>2 DEF Flag
  <2> HIDE DEF B
  <2>2. Flag(gc', B)
    BY <2>1, FullStays
  <2> QED
    BY <2>2 DEF Flag, B
<1>5. Kept
  BY <1>3, <1>4 DEF LInv
<1>6. CASE UNCHANGED vars
  BY <1>5, <1>6 DEF Kept, vars, heap
<1>7. CASE Next
  <2>1. Calm \/ Marks \/ Scans \/ Gathers \/ Prepares \/ Nests
    BY <1>1 DEF GInv
  <2> QED
    BY <2>1, <1>3, <1>5, <1>7, CalmStepKept, TraversalKept
<1> QED
  BY <1>6, <1>7

\* It holds at first: nothing is allocated and nothing runs.
LEMMA InitKept == ASSUME Init PROVE Kept
<1>1. stack = <<>> /\ alloc = {} /\ ~bailed /\ col = Idle
  BY DEF Init
<1>2. Len(stack) = 0 /\ 1..Len(stack) = {} /\ col.pc = "idle"
  BY <1>1 DEF Idle
<1> HIDE DEF Init
<1>3. FollowOK(stack) /\ DelOK(hdr, stack)
  BY <1>1, <1>2 DEF FollowOK, DelOK
<1>4. Keeps(alloc, out, held, hdr, gc, col, stack)
  BY <1>1, <1>2 DEF Keeps, Led
<1> QED
  BY <1>1, <1>3, <1>4 DEF Kept

\* It holds in every state.
LEMMA LossInvariant == Spec => []LInv
<1>1. Init => LInv
  BY InitKept DEF LInv
<1>2. GInv /\ LInv /\ [Next]_vars => LInv'
  BY LossStep
<1> QED
  BY <1>1, <1>2, Invariant, PTL DEF Spec

\* What can be reached from B is in ReachableFrom(B).
LEMMA LedReach ==
    ASSUME out \in [Node -> SUBSET Node], NEW al \in SUBSET Node, NEW B \in SUBSET Node, NEW S, NEW X,
           X \intersect al = {}, Led(al, out, B \union X, S)
    PROVE  S \subseteq ReachableFrom(B) \union X
<1> DEFINE C == ReachableFrom(B) \union X
<1>1. B \subseteq ReachableFrom(B) /\ Shut(out, ReachableFrom(B))
  BY ReachFacts
<1>2. B \union X \subseteq C
  BY <1>1
<1>3. \A m \in C \intersect al : out[m] \subseteq C
  BY <1>1 DEF Shut
<1> HIDE DEF C
<1>4. S \subseteq C
  BY <1>2, <1>3 DEF Led
<1> QED
  BY <1>4 DEF C

\* Between the calls everything is known to the program or to the buffer.
LEMMA InvLoss == ASSUME GInv, LInv, ~gc.full PROVE NothingLost
<1> SUFFICES ASSUME stack = <<>>, ~gc.protected
             PROVE  alloc \subseteq Live \union ReachableFrom({ gc.buf[i].ref : i \in Used(gc) })
  BY DEF NothingLost
<1>1. ~Over(gc) /\ Kept
  BY DEF Over, Flag, LInv
<1>2. Calm
  BY <1>1 DEF GInv, Marks, Marking, Scans, Scanning, Gathers, Gathering, Prepares, Preparing,
              Nests, Nesting, Base
<1>3. /\ Led(alloc, out, Anchors(held, hdr, stack), alloc) /\ alloc \in SUBSET Node /\ held \in SUBSET Node
      /\ out \in [Node -> SUBSET Node] /\ hdr \in [Node -> Hdr] /\ gc \in Globals /\ BufOK(alloc, hdr, gc)
  BY <1>1, <1>2, CalmKept
<1> DEFINE R == { gc.buf[i].ref : i \in Used(gc) }
           A == ReachableFrom(held)
           D == ReachableFrom(R)
<1>4. Live = A
  <2>1. Calls({"dtor"}) = {}
    BY DEF Calls
  <2> QED
    BY <2>1 DEF Live
<1>5. Anchors(held, hdr, stack) \subseteq held \union R
  <2>1. Objs(stack) = {}
    BY DEF Objs
  <2>2. Rooted(hdr) \subseteq R
    BY <1>3 DEF Rooted, BufOK, Entries
  <2> QED
    BY <2>1, <2>2 DEF Anchors
<1>6. R \in SUBSET Node
  BY <1>3, UsedFacts DEF BufOK
<1>7. held \subseteq A /\ Shut(out, A) /\ R \subseteq D /\ Shut(out, D)
  BY <1>3, <1>6, ReachFacts
<1> DEFINE C == A \union D
<1>8. Anchors(held, hdr, stack) \subseteq C
  BY <1>5, <1>7
<1>9. \A m \in C \intersect alloc : out[m] \subseteq C
  BY <1>7 DEF Shut
<1> HIDE DEF A, D, R
<1>10. alloc \subseteq C
  <2> HIDE DEF C
  <2> QED
    BY <1>3, <1>8, <1>9 DEF Led
<1> QED
  BY <1>4, <1>10 DEF D, R

\* A collection that calls no destructor leaves what the program or the calls
\* it interrupted know of, and nothing else.
LEMMA InvCollects == ASSUME GInv, LInv, ~gc.full PROVE CollectsAll
<1> DEFINE I == { stack[k].obj : k \in 1..(Len(stack) - 1) }
<1> SUFFICES ASSUME At("finish"), ~col.rerun, ~gc.protected
             PROVE  alloc \subseteq ReachableFrom(held \union I)
  BY DEF CollectsAll
<1>1. ~Over(gc) /\ Kept /\ col.pc = "finish" /\ stack # <<>> /\ stack[Len(stack)].fn = "gc"
  BY AtFacts DEF Over, Flag, LInv
<1>2. Calm
  BY <1>1 DEF GInv, Marks, Marking, Scans, Scanning, Gathers, Gathering, Prepares, Preparing,
              Nests, Nesting
<1>3. /\ alloc \in SUBSET Node /\ held \in SUBSET Node /\ out \in [Node -> SUBSET Node]
      /\ stack \in Seq(Frame) /\ StackOK(alloc, hdr, gc, col, stack)
      /\ Steady(alloc, out, held, hdr, gc, col, stack, FALSE, ran, Null)
      /\ Spares(alloc, out, held, hdr, gc, stack)
  BY <1>1, <1>2, CalmKept
<1>4. Len(stack) \in 1..Len(stack) /\ Len(stack) \in Nat /\ Len(stack) - 1 \in Int
  BY <1>1, <1>3, FrontFacts
<1>5. Below(stack) = I
  BY <1>1, <1>4 DEF Below
<1>6. I \in SUBSET Node /\ Objs(stack) = I \union {Null}
  <2>1. stack[Len(stack)].obj = Null
    BY <1>1, <1>3, <1>4 DEF StackOK
  <2>2. \A k \in 1..(Len(stack) - 1) : k \in 1..Len(stack) /\ k # Len(stack)
    BY <1>4
  <2>3. \A k \in 1..(Len(stack) - 1) : stack[k].obj \in alloc
    BY <2>2, <1>1, <1>3, <1>4 DEF StackOK
  <2>4. Objs(stack) = Below(stack) \union {Null}
    BY <2>1, <1>1, <1>3, BelowTop
  <2> QED
    BY <2>3, <2>4, <1>3, <1>5
<1> DEFINE S == Saved(alloc, hdr, gc)
           B == held \union I
           al == S \union I
<1>7. S \in SUBSET Node /\ al \in SUBSET Node /\ B \in SUBSET Node
  BY <1>3, <1>6 DEF Saved
<1>8. Led(al, out, B \union {}, S)
  BY <1>3, <1>5 DEF Spares
<1> HIDE DEF I, S, B, al
<1>9. S \subseteq ReachableFrom(B) \union {}
  BY ONLY <1>3, <1>7, <1>8, LedReach
<1>10. B \subseteq ReachableFrom(B)
  BY <1>3, <1>7, ReachFacts
<1>11. Gar(gc) = {}
  BY <1>1, <1>3 DEF Steady, TagOK, Gar, Tagged
<1>12. ASSUME NEW n \in alloc, n \notin S PROVE n \in B
  <2>1. Dead(hdr, n)
    BY <1>11, <1>12 DEF S, Saved
  <2>2. n \in Objs(stack)
    <3> DEFINE b == FALSE
    <3>1. ~b /\ EmptyOK(alloc, out, hdr, gc, col, stack, b)
      BY <1>3 DEF Steady
    <3> HIDE DEF b
    <3> QED
      BY <2>1, <3>1, <1>1, DeadHasFrame
  <2> QED
    BY <2>2, <1>3, <1>6, NullAssumption DEF B
<1> QED
  BY <1>9, <1>10, <1>12 DEF B

\* An overflow of the buffer protects the collector.
LEMMA FullProtects == Spec => [](gc.full => gc.protected)
<1> DEFINE F == Flag(gc, {"both"})
<1>1. Init => F
  <2> SUFFICES ASSUME Init PROVE F
    OBVIOUS
  <2>1. gc \in Globals /\ gc.full = FALSE
    <3>1. Calm
      BY InitCalm
    <3>2. gc \in Globals
      BY <3>1 DEF Calm, Steady, Types
    <3> QED
      BY <3>2 DEF Init
  <2>2. {"full", "protected"} \subseteq DOMAIN gc
    BY <2>1 DEF Globals
  <2> QED
    BY <2>1, <2>2 DEF Flag
<1>2. F /\ [Next]_vars => F'
  <2> SUFFICES ASSUME F, [Next]_vars PROVE F'
    OBVIOUS
  <2> DEFINE B == {"both"}
  <2>1. Flag(gc, B)
    OBVIOUS
  <2> HIDE DEF B
  <2>2. Flag(gc', B)
    BY <2>1, FullStays
  <2> QED
    BY <2>2 DEF B, Flag
<1>3. F => (gc.full => gc.protected)
  BY DEF Flag
<1> HIDE DEF F
<1> QED
  BY <1>1, <1>2, <1>3, PTL DEF Spec


-----------------------------------------------------------------------------
(* The theorems.  gc.full says that the root buffer has overflowed once:   *)
(* from then on a root may be refused an entry and keep its count.         *)

\* The counts are exact outside of the traversals, and after a bailout never
\* too small: what gc_mark_grey takes off a count, gc_scan_black and
\* gc_collect_white put back, also around destructors that change the graph.
THEOREM CountsAreSound == Spec => [](gc.full \/ RefcountSound)
<1>1. GInv => gc.full \/ RefcountSound
  BY InvRefcount DEF Over, Flag
<1> QED
  BY <1>1, Invariant, PTL

\* Nothing that a variable or a running destructor can reach is destroyed or
\* freed, by zend_objects_store_del or by the collector.
THEOREM LiveNodesStay == Spec => [](gc.full \/ OnlyGarbageFreed)
<1>1. GInv => gc.full \/ OnlyGarbageFreed
  BY InvLive DEF Over, Flag
<1> QED
  BY <1>1, Invariant, PTL

\* A destructor is entered before its object is destroyed, whichever of
\* zend_objects_store_del and the collector destroys it.
THEOREM DestructorsComeFirst == Spec => [](gc.full \/ DestructorFirst)
<1>1. GInv => gc.full \/ DestructorFirst
  BY InvDestructor DEF Over, Flag
<1> QED
  BY <1>1, Invariant, PTL

\* The root buffer, its unused list and the addresses in the headers agree,
\* whatever the size of the buffer and the stride of compressed addresses.
THEOREM BufferIsSound == Spec => [](gc.full \/ BufferSound)
<1>1. GInv => gc.full \/ BufferSound
  BY InvBuffer DEF Over, Flag
<1> QED
  BY <1>1, Invariant, PTL

\* Between the calls of the engine, whatever is allocated is known to the
\* program or has an entry in the root buffer: no garbage is lost to the
\* collector, whatever the destructors did to it in between, until a bailout
\* or an overflow protects the collector.
THEOREM NothingIsLost == Spec => []NothingLost
<1>1. GInv /\ LInv /\ (gc.full => gc.protected) => NothingLost
  <2>1. gc.protected => NothingLost
    BY DEF NothingLost
  <2> QED
    BY <2>1, InvLoss
<1> QED
  BY <1>1, Invariant, LossInvariant, FullProtects, PTL

\* When a collection that called no destructor ends, everything still allocated
\* can be reached from the variables or from the calls the collection
\* interrupted: it has freed all of the garbage, however the cycles hang
\* together.
THEOREM CollectionIsComplete == Spec => []CollectsAll
<1>1. GInv /\ LInv /\ (gc.full => gc.protected) => CollectsAll
  <2>1. gc.protected => CollectsAll
    BY DEF CollectsAll
  <2> QED
    BY <2>1, InvCollects
<1> QED
  BY <1>1, Invariant, LossInvariant, FullProtects, PTL

\* At the limits of the buffer and of the threshold, up to the overflow itself,
\* the counts are right, what is live stays and nothing is lost.
THEOREM LimitsAreSafe == Spec => [](gc.full \/ SafeAtLimits)
<1>1. (gc.full \/ RefcountSound) /\ (gc.full \/ OnlyGarbageFreed) /\ NothingLost => gc.full \/ SafeAtLimits
  BY DEF SafeAtLimits
<1> QED
  BY <1>1, CountsAreSound, LiveNodesStay, NothingIsLost, PTL

\* An overflow of the buffer is remembered to the end, so that the theorems
\* above speak of every state up to the first one: no step of a request clears
\* gc.full; gc_reset does, before the request.
THEOREM OverflowIsForGood == Spec => [][gc.full => gc'.full]_vars
<1>1. GInv /\ [Next]_vars => (gc.full => gc'.full)
  <2> SUFFICES ASSUME GInv, [Next]_vars, gc.full PROVE gc'.full
    OBVIOUS
  <2>1. ~Over(gc) => gc \in Globals
    BY InvCommon DEF Types
  <2>2. ASSUME NEW g \in Globals PROVE {"full", "protected"} \subseteq DOMAIN g
    BY DEF Globals
  <2>3. Over(gc)
    BY <2>1, <2>2 DEF Over, Flag
  <2> QED
    BY <2>3, FullStays DEF Over, Flag
<1> QED
  BY <1>1, Invariant, PTL DEF Spec
===============================================================================
