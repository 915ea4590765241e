--------------------------- MODULE ZendGCInvariant ---------------------------
(***************************************************************************)
(* The inductive invariant of the cycle collector, for any number of nodes *)
(* and references, any sizes of the root buffer and any nesting of         *)
(* destructors, and the steps that preserve it between the traversals:     *)
(* references given and taken, destructors, frees, the buffer's own        *)
(* operations; then the traversals that mark, scan and gather.             *)
(***************************************************************************)
EXTENDS ZendGC, SequenceFacts

-----------------------------------------------------------------------------
(* The invariant.  Its parts are about states in which one reference may   *)
(* have been taken from the heap and not yet from the count: x is the node *)
(* it leads to, or Null.                                                   *)

Fns == {"dtor", "del", "gcdtor", "free", "efree", "gcfree", "full", "gc"}
Frame == [fn: Fns, obj: Node \union {Null}]
Pcs == {"idle", "start", "mark", "scan", "collect", "prepare", "nested",
        "dtors", "destroy", "finish"}
Hdr == [rc: Int, color: Colors, addr: Nat, null: BOOLEAN, dtored: BOOLEAN,
        freed: BOOLEAN]
Tags == {"raw", "unused", "root", "garbage", "dtor"}
Slots == [tag: Tags, ref: Node \union {Null}, next: Nat]
Globals == [buf: [1..(MaxBufSize - 1) -> Slots], unused: Nat, first_unused: Nat,
            num_roots: Int, buf_size: Nat, threshold: Nat, enabled: BOOLEAN,
            active: BOOLEAN, protected: BOOLEAN, full: BOOLEAN]
Locals == [pc: Pcs, idx: Nat, end: Nat, todo: SUBSET Node, btodo: SUBSET Node,
           count: Int, total: Int, hasd: BOOLEAN, rerun: BOOLEAN, did: BOOLEAN]

\* References to n: in the heap, and in the calls of stack st.
One(b) == IF b THEN 1 ELSE 0
Edges(al, o, n) == { m \in al : n \in o[m] }
Holds(f, n) ==
    f.obj = n /\ (f.fn \in {"dtor", "del", "gcdtor", "gcfree", "full"}
                  \/ (f.fn = "efree" /\ n \notin Arr))
Holders(st, n) == { k \in 1..Len(st) : Holds(st[k], n) }
Refs(al, o, hd, st, n) ==
    Cardinality(Edges(al, o, n)) + One(n \in hd) + Cardinality(Holders(st, n))

Dead(h, n) == h[n].freed \/ h[n].null
Kids(h, o, n) == IF h[n].freed \/ h[n].null THEN {} ELSE o[n]
Tagged(g, T) == { g.buf[i].ref : i \in { j \in Used(g) : g.buf[j].tag \in T } }
Gar(g) == Tagged(g, {"garbage"})

\* Nothing but its own destruction knows n.
Lone(al, o, hd, st, x, n) ==
    /\ n # x /\ n \notin hd /\ \A m \in al : n \notin o[m]
    /\ \A k \in 1..Len(st) : st[k].obj = n => st[k].fn \in {"efree", "free"}

Types(al, o, hd, h, g, c, st, rn) ==
    /\ al \in SUBSET Node /\ hd \in SUBSET Node /\ rn \in SUBSET Node
    /\ o \in [Node -> SUBSET Node] /\ h \in [Node -> Hdr]
    /\ g \in Globals /\ c \in Locals /\ st \in Seq(Frame)
    /\ \A n \in Arr : ~h[n].freed
    /\ c.pc \notin {"idle", "start", "finish"} => c.idx # 0

\* The root buffer: entries and addresses agree, the sizes are in order, and
\* the unused entries form a list.
UnusedAt(g) == { i \in 1..(g.first_unused - 1) : g.buf[i].tag = "unused" }
Listed(g) ==
    /\ g.unused \in UnusedAt(g) \union {0}
    /\ \A i \in UnusedAt(g) : /\ g.buf[i].next \in UnusedAt(g) \union {0}
                              /\ g.buf[i].next # 0 => g.buf[i].next # g.unused
    /\ \A i, j \in UnusedAt(g) : g.buf[i].next = g.buf[j].next /\ g.buf[i].next # 0 => i = j
    /\ \A S : (g.unused \in S /\ \A i \in UnusedAt(g) \intersect S : g.buf[i].next \in S)
                 => UnusedAt(g) \subseteq S
Entries(al, h, g) ==
    /\ g.first_unused \in 1..g.buf_size /\ g.buf_size \in 2..MaxBufSize
    /\ g.threshold <= g.buf_size
    /\ g.num_roots = Cardinality(Used(g))
    /\ \A i \in Used(g) : /\ g.buf[i].ref \in al
                          /\ h[g.buf[i].ref].addr = gc_compress(i)
                          /\ g.buf[i].tag \in {"root", "garbage", "dtor"}
    /\ \A i, j \in Used(g) : g.buf[i].ref = g.buf[j].ref => i = j
    /\ \A n \in Node : h[n].addr # 0 => \E i \in Used(g) : g.buf[i].ref = n
    /\ \A i \in 1..(MaxBufSize - 1) : i \notin Used(g) => g.buf[i].ref = Null
BufOK(al, h, g) == Entries(al, h, g) /\ Listed(g)

\* How calls follow one another on the stack.
StackOK(al, h, g, c, st) ==
    /\ \A k \in 1..Len(st) :
         /\ st[k].fn # "gc" => st[k].obj \in al
         /\ st[k].fn = "gc" => st[k].obj = Null
         /\ st[k].fn = "free" => /\ Dead(h, st[k].obj) /\ k > 1
                                 /\ \/ /\ st[k - 1].fn \in {"efree", "gcfree"}
                                       /\ st[k - 1].obj = st[k].obj
                                    \/ st[k - 1].fn = "gc" /\ st[k].obj \in Arr
    /\ \A j, k \in 1..Len(st) : st[j].fn = "gc" /\ st[k].fn = "gc" => j = k
    /\ \A j, k \in 1..Len(st) : st[j].fn = "gc" /\ st[k].fn = "full" => k < j
    /\ (\E k \in 1..Len(st) : st[k].fn = "gc") <=> c.pc # "idle"
    /\ \A k \in 1..Len(st) : st[k].fn = "gc" /\ k < Len(st) =>
         /\ \/ c.pc = "dtors" /\ st[k + 1].fn = "gcdtor"
            \/ c.pc = "destroy" /\ st[k + 1].fn \in {"gcfree", "free"}
         /\ h[st[k + 1].obj].addr # 0
    /\ c.pc \notin {"idle", "start", "finish"} => g.active

\* The counts, once those of the children of P have been taken off.
Taken(al, o, h, P, n) == { m \in al \intersect P : n \in Kids(h, o, m) }
RcOK(al, o, hd, h, st, b, x, P) ==
    \A n \in al :
        LET rc == h[n].rc + Cardinality(Taken(al, o, h, P, n))
            refs == Refs(al, o, hd, st, n) + One(n = x)
        IN  rc >= refs /\ (~b => rc = refs)

Closed(al, o, hd, x) == hd \subseteq al /\ (x = Null \/ x \in al) /\ \A m \in al : o[m] \subseteq al

EfreeOK(al, o, hd, h, st, x) ==
    \A k \in 1..Len(st) : st[k].fn = "efree" =>
        LET n == st[k].obj
        IN  /\ Dead(h, n) /\ Lone(al, o, hd, st, x, n)
            /\ \A j \in 1..Len(st) : st[j].obj = n => j = k \/ (j = k + 1 /\ st[j].fn = "free")
            /\ o[n] = {} \/ (k + 1 \in 1..Len(st) /\ st[k + 1].fn = "free")
            /\ n \in Arr => h[n].addr = 0

\* Dead nodes are on their own or in the garbage G, and nothing outside leads
\* into the garbage.
DeadOK(al, o, hd, h, st, G, x) ==
    \A n \in al : /\ Dead(h, n) => n \in G \/ Lone(al, o, hd, st, x, n)
                  /\ h[n].freed /\ ~h[n].null => h[n].rc >= 1 /\ Lone(al, o, hd, st, x, n)
GarOK(al, o, hd, h, st, G) ==
    \A n \in G :
        /\ n \in al /\ n \notin hd
        /\ \A k \in 1..Len(st) : st[k].obj = n => st[k].fn \in {"gcfree", "free", "efree"}
        /\ \A m \in al : n \in o[m] => m \in G \/ Dead(h, m)
\* While the collection goes on, only what it destroys leads into it, and no
\* earlier call is about it.
InGC(st, k) == k \in 1..Len(st) /\ st[k].fn = "gc"
ApartOK(al, o, c, st, G) ==
    \A k : InGC(st, k) =>
        /\ \A j \in 1..(k - 1) : st[j].obj \notin G
        /\ \A n \in G, m \in al : n \in o[m] =>
              m \in G \/ \E j \in 1..Len(st) : j > k /\ st[j].fn = "free" /\ st[j].obj = m

\* What has been destroyed has no references left.
EmptyOK(al, o, h, g, c, st, b) ==
    ~b => /\ \A i \in Used(g) : c.pc = "destroy" /\ i < c.idx /\ g.buf[i].tag = "garbage" =>
                o[g.buf[i].ref] = {}
                \/ \E k \in 1..Len(st) : st[k].fn = "free" /\ st[k].obj = g.buf[i].ref
          /\ \A n \in al : Dead(h, n) =>
                \/ \E k \in 1..Len(st) : st[k].fn = "efree" /\ st[k].obj = n
                \/ c.pc = "destroy" /\ \E i \in Used(g) :
                      i < c.idx /\ g.buf[i].tag = "garbage" /\ g.buf[i].ref = n

DtorOK(al, h, G, rn) ==
    \A n \in Dtor \intersect al : /\ h[n].dtored => n \in rn
                                  /\ Dead(h, n) \/ n \in G => h[n].dtored

\* Colors and tags outside of the traversals.
ColorOK(h, g) ==
    /\ \A n \in Node : h[n].color \in {"black", "purple"}
                       /\ (h[n].addr = 0 => h[n].color = "black")
    /\ \A i \in Used(g) : h[g.buf[i].ref].color =
                             IF g.buf[i].tag = "garbage" THEN "black" ELSE "purple"
TagOK(g, c) ==
    /\ (c.pc \in {"start", "finish"} \/ ~g.active) =>
          \A i \in Used(g) : g.buf[i].tag = "root"
    /\ c.pc \in {"dtors", "destroy"} => c.idx <= c.end /\ c.end <= g.first_unused
    /\ c.pc = "dtors" => \A i \in Used(g) :
          /\ g.buf[i].tag = "dtor" => i \in c.idx..(c.end - 1) /\ g.buf[i].ref \in Dtor
          /\ g.buf[i].tag = "garbage" => i < c.end
    /\ c.pc = "destroy" => \A i \in Used(g) :
          /\ g.buf[i].tag # "dtor"
          /\ g.buf[i].tag = "garbage" => i < c.end
    /\ c.todo = {} /\ c.btodo = {}

\* Between the traversals.
Steady(al, o, hd, h, g, c, st, b, rn, x) ==
    /\ Types(al, o, hd, h, g, c, st, rn) /\ BufOK(al, h, g) /\ StackOK(al, h, g, c, st)
    /\ RcOK(al, o, hd, h, st, b, x, {}) /\ Closed(al, o, hd, x)
    /\ EfreeOK(al, o, hd, h, st, x) /\ DeadOK(al, o, hd, h, st, Gar(g), x)
    /\ GarOK(al, o, hd, h, st, Gar(g)) /\ ApartOK(al, o, c, st, Gar(g))
    /\ EmptyOK(al, o, h, g, c, st, b) /\ DtorOK(al, h, Gar(g), rn)
    /\ ColorOK(h, g) /\ TagOK(g, c)

\* What holds all through a traversal, in which the heap does not change.
Base(al, o, hd, h, g, c, st, b, rn) ==
    /\ Types(al, o, hd, h, g, c, st, rn) /\ BufOK(al, h, g) /\ StackOK(al, h, g, c, st)
    /\ Closed(al, o, hd, Null) /\ EfreeOK(al, o, hd, h, st, Null)
    /\ DeadOK(al, o, hd, h, st, {}, Null) /\ EmptyOK(al, o, h, g, c, st, b)
    /\ DtorOK(al, h, {}, rn) /\ st # <<>> /\ st[Len(st)].fn = "gc"

Colored(h, c) == { n \in Node : h[n].color = c }
\* The nodes a traversal colors are allocated, and it came to them from a root
\* or along a reference.
Found(al, o, h, S) ==
    \A n \in S : n \in al /\ (h[n].addr # 0 \/ \E m \in al : n \in o[m])
\* All of S can be reached from B within S.
From(h, o, B, D, S) ==
    \A C : (/\ B \subseteq C
            /\ \A m \in C, n \in S : m \in D /\ n \in Kids(h, o, m) => n \in C) => S \subseteq C
Roots(h, g, S) == { n \in S : \E i \in Used(g) : g.buf[i].ref = n }

Marking(al, o, hd, h, g, c, st, b, rn) ==
    LET grey == Colored(h, "grey")
    IN  /\ Base(al, o, hd, h, g, c, st, b, rn)
        /\ RcOK(al, o, hd, h, st, b, Null, grey \ c.todo)
        /\ c.todo \subseteq grey /\ c.btodo = {} /\ Colored(h, "white") = {}
        /\ Found(al, o, h, grey)
        /\ \A n \in Node : h[n].addr = 0 => h[n].color # "purple"
        /\ \A i \in Used(g) : /\ g.buf[i].tag = "root"
                              /\ h[g.buf[i].ref].color \in
                                     IF i < c.idx THEN {"grey"} ELSE {"grey", "purple"}
        /\ From(h, o, Roots(h, g, grey), grey, grey)

Scanning(al, o, hd, h, g, c, st, b, rn) ==
    LET grey == Colored(h, "grey")
        white == Colored(h, "white")
    IN  /\ Base(al, o, hd, h, g, c, st, b, rn)
        /\ RcOK(al, o, hd, h, st, b, Null, grey \union white \union c.btodo)
        /\ c.todo \intersect (grey \union Colored(h, "purple")) = {}
        /\ c.btodo \subseteq Colored(h, "black") /\ Colored(h, "purple") = {}
        /\ Found(al, o, h, grey \union white) /\ c.btodo \subseteq al
        /\ \A n \in white \ c.todo : h[n].rc <= 0
        /\ \A i \in Used(g) : /\ g.buf[i].tag = "root"
                              /\ i < c.idx => h[g.buf[i].ref].color # "grey"
        /\ From(h, o, Roots(h, g, grey) \union (c.todo \intersect white) \union c.btodo,
                grey \union (c.todo \intersect white) \union c.btodo, grey)
        /\ From(h, o, Roots(h, g, grey \union white) \union c.btodo,
                grey \union white \union c.btodo, grey \union white)

\* The nodes that a collection has found to be garbage, or will.
Whites(h, g, c) == Colored(h, "white") \union c.todo \union Tagged(g, Tags)
\* All references to the nodes of W come from W.
Isolated(al, o, hd, h, st, W) ==
    \A n \in W : /\ n \in al /\ n \notin hd
                 /\ \A k \in 1..Len(st) : st[k].obj # n
                 /\ \A m \in al : n \in o[m] => m \in W /\ n \in Kids(h, o, m)

Gathering(al, o, hd, h, g, c, st, b, rn) ==
    LET white == Colored(h, "white")
    IN  /\ Base(al, o, hd, h, g, c, st, b, rn)
        /\ RcOK(al, o, hd, h, st, b, Null, white \union c.todo)
        /\ c.todo \subseteq Colored(h, "black") /\ c.btodo = {} /\ g.unused = 0
        /\ \A n \in Node : h[n].color \in {"black", "white"}
        /\ Isolated(al, o, hd, h, st, Whites(h, g, c))
        /\ c.idx <= c.end /\ c.end <= g.first_unused
        /\ \A i \in Used(g) :
              /\ g.buf[i].tag = IF i < c.idx \/ i >= c.end THEN "garbage" ELSE "root"
              /\ g.buf[i].tag = "garbage" => h[g.buf[i].ref].color = "black"
        /\ From(h, o, Roots(h, g, white) \union c.todo, white \union c.todo, white)
        /\ \A n \in Tagged(g, Tags) \ (white \union c.todo) :
              n \in Dtor /\ ~h[n].dtored => c.hasd

Preparing(al, o, hd, h, g, c, st, b, rn) ==
    /\ Base(al, o, hd, h, g, c, st, b, rn) /\ RcOK(al, o, hd, h, st, b, Null, {})
    /\ ColorOK(h, g) /\ c.todo = {} /\ c.btodo = {} /\ c.end = g.first_unused
    /\ Isolated(al, o, hd, h, st, Gar(g))
    /\ \A i \in Used(g) : g.buf[i].tag = "garbage"

Nesting(al, o, hd, h, g, c, st, b, rn) ==
    /\ Base(al, o, hd, h, g, c, st, b, rn) /\ RcOK(al, o, hd, h, st, b, Null, {})
    /\ ColorOK(h, g) /\ c.btodo = {} /\ c.idx <= c.end /\ c.end = g.first_unused
    /\ \A i \in Used(g) : /\ g.buf[i].tag \in {"garbage", "dtor"}
                          /\ g.buf[i].tag = "dtor" => g.buf[i].ref \in Dtor
    /\ \A n \in Gar(g) :
         /\ n \in al /\ n \notin hd /\ (n \in Dtor => h[n].dtored)
         /\ \A k \in 1..Len(st) : st[k].obj # n
         /\ \A m \in al : n \in o[m] =>
              /\ n \in Kids(h, o, m)
              /\ \/ m \in Gar(g) \/ n \in c.todo
                 \/ \E i \in Used(g) : i >= c.idx /\ g.buf[i].tag = "dtor" /\ g.buf[i].ref = m

-----------------------------------------------------------------------------
(* The root buffer.                                                        *)

\* The fields of the globals, one by one.
LEMMA GlobalsFields ==
    ASSUME NEW g \in Globals
    PROVE  /\ g.buf \in [1..(MaxBufSize - 1) -> Slots] /\ g.unused \in Nat
           /\ g.first_unused \in Nat /\ g.num_roots \in Int /\ g.buf_size \in Nat
           /\ g.threshold \in Nat /\ g.enabled \in BOOLEAN /\ g.active \in BOOLEAN
           /\ g.protected \in BOOLEAN /\ g.full \in BOOLEAN
BY DEF Globals

\* An entry has an address, which is its index or leads to it in strides.
LEMMA CompressFacts ==
    ASSUME NEW i \in Nat \ {0}
    PROVE  /\ gc_compress(i) \in Nat \ {0} /\ gc_compress(i) <= i
           /\ (i - gc_compress(i)) % MaxUncompressed = 0
           /\ i < MaxUncompressed => gc_compress(i) = i
<1> DEFINE M == MaxUncompressed
<1>1. M \in Nat \ {0}
  BY BufferAssumption
<1>2. CASE i < M
  BY <1>1, <1>2 DEF gc_compress
<1>3. CASE i >= M
  <2>0. i \div M \in Int /\ i = M * (i \div M) + (i % M) /\ i % M \in 0..(M - 1)
    BY <1>1
  <2>1. PICK q \in Int : i = M * q + (i % M) /\ i % M \in 0..(M - 1)
    BY <2>0
  <2>2. gc_compress(i) = (i % M) + M
    BY <1>1, <1>3 DEF gc_compress
  <2>3. i - gc_compress(i) = M * (q - 1)
    BY <1>1, <2>1, <2>2
  <2>4. (M * (q - 1)) % M = 0
    BY <1>1
  <2>5. q >= 1
    BY <1>1, <1>3, <2>1
  <2>6. M * (q - 1) >= 0
    BY <1>1, <2>5
  <2> HIDE DEF M
  <2> QED
    BY <1>1, <1>3, <2>1, <2>2, <2>3, <2>4, <2>6 DEF M
<1> QED
  BY <1>1, <1>2, <1>3

\* gc_decompress, for given headers.
Decompress(h, g, n) ==
    IF g.first_unused < MaxUncompressed THEN h[n].addr
    ELSE Min({ i \in DOMAIN g.buf : /\ i >= h[n].addr
                                    /\ (i - h[n].addr) % MaxUncompressed = 0
                                    /\ g.buf[i].ref = n })

\* gc_decompress finds the entry of a buffered node from its address.
LEMMA DecompressFacts ==
    ASSUME NEW al \in SUBSET Node, NEW h \in [Node -> Hdr], NEW g \in Globals,
           Entries(al, h, g), NEW i \in Used(g)
    PROVE  Decompress(h, g, g.buf[i].ref) = i
<1> DEFINE n == g.buf[i].ref
           a == h[n].addr
           S == { j \in DOMAIN g.buf : /\ j >= a /\ (j - a) % MaxUncompressed = 0
                                       /\ g.buf[j].ref = n }
<1>1. /\ n \in Node /\ n # Null /\ a = gc_compress(i) /\ i \in 1..(MaxBufSize - 1)
      /\ i < g.first_unused /\ DOMAIN g.buf = 1..(MaxBufSize - 1) /\ i \in Nat \ {0}
      /\ g.first_unused \in Nat
  <2>1. /\ i \in 1..(g.first_unused - 1) /\ n \in al /\ a = gc_compress(i)
        /\ g.first_unused \in 1..g.buf_size /\ g.buf_size \in 2..MaxBufSize
    BY DEF Entries, Used
  <2>2. MaxBufSize \in Int /\ g.first_unused \in Nat /\ g.buf_size \in Nat
    BY GlobalsFields, BufferAssumption
  <2>3. n # Null /\ n \in Node
    BY <2>1, NullAssumption
  <2>4. DOMAIN g.buf = 1..(MaxBufSize - 1)
    BY GlobalsFields
  <2> QED
    BY <2>1, <2>2, <2>3, <2>4
<1>2. a \in Nat /\ a <= i /\ (i - a) % MaxUncompressed = 0
      /\ (i < MaxUncompressed => a = i)
  BY <1>1, CompressFacts
<1>3. \A j \in DOMAIN g.buf : g.buf[j].ref = n => j = i
  <2> SUFFICES ASSUME NEW j \in DOMAIN g.buf, g.buf[j].ref = n PROVE j = i
    OBVIOUS
  <2>1. j \in Used(g)
    BY <1>1 DEF Entries
  <2> QED
    BY <2>1 DEF Entries
<1>4. S = {i}
  BY <1>1, <1>2, <1>3
<1>5. Min(S) = i
  <2> HIDE DEF S
  <2> QED
    BY <1>1, <1>4 DEF Min
<1>6. CASE g.first_unused < MaxUncompressed
  BY <1>1, <1>2, <1>6, BufferAssumption DEF Decompress
<1>7. CASE ~(g.first_unused < MaxUncompressed)
  BY <1>5, <1>7 DEF Decompress
<1> QED
  BY <1>6, <1>7

\* Sizes and bounds as numbers.
LEMMA UsedFacts ==
    ASSUME NEW al \in SUBSET Node, NEW h \in [Node -> Hdr], NEW g \in Globals,
           Entries(al, h, g)
    PROVE  /\ MaxBufSize \in Nat /\ g.first_unused \in Nat /\ g.first_unused >= 1
           /\ g.first_unused <= g.buf_size /\ g.buf_size \in Nat /\ g.buf_size <= MaxBufSize
           /\ g.first_unused - 1 <= MaxBufSize - 1
           /\ Used(g) \in SUBSET (1..(g.first_unused - 1))
           /\ UnusedAt(g) \in SUBSET (1..(g.first_unused - 1))
           /\ \A i \in 1..(g.first_unused - 1) : i \in 1..(MaxBufSize - 1)
           /\ IsFiniteSet(Used(g)) /\ Cardinality(Used(g)) \in Nat
           /\ \A i \in Used(g) : /\ g.buf[i].ref \in Node /\ g.buf[i].ref # Null
                                 /\ h[g.buf[i].ref].addr # 0
<1>1. /\ g.first_unused \in 1..g.buf_size /\ g.buf_size \in 2..MaxBufSize
      /\ \A i \in Used(g) : /\ g.buf[i].ref \in al
                            /\ h[g.buf[i].ref].addr = gc_compress(i)
  BY DEF Entries
<1>2. MaxBufSize \in Nat /\ g.first_unused \in Nat /\ g.buf_size \in Nat
  BY GlobalsFields, BufferAssumption
<1>3. Used(g) \in SUBSET (1..(g.first_unused - 1)) /\ UnusedAt(g) \in SUBSET (1..(g.first_unused - 1))
  BY DEF Used, UnusedAt
<1>4. g.first_unused - 1 \in Nat
  BY <1>1, <1>2
<1>5. IsFiniteSet(Used(g)) /\ Cardinality(Used(g)) \in Nat
  BY <1>3, <1>4, IntervalSize, FS_Subset, FS_CardinalityType
<1>6. \A i \in Used(g) : i \in Nat \ {0} /\ gc_compress(i) # 0
  BY <1>3, CompressFacts
<1>7. \A i \in Used(g) : g.buf[i].ref \in Node /\ g.buf[i].ref # Null
  BY <1>1, NullAssumption
<1> QED
  BY <1>1, <1>2, <1>3, <1>5, <1>6, <1>7

\* gc_remove_from_roots: the headers are those without the address of its node.
Removed(al2, h2, g, i, g2) ==
    /\ g2 \in Globals /\ BufOK(al2, h2, g2) /\ Used(g2) = Used(g) \ {i}
    /\ \A j \in 1..(MaxBufSize - 1) : j # i => g2.buf[j] = g.buf[j]
    /\ g2.first_unused = g.first_unused /\ g2.active = g.active
    /\ g2.full = g.full /\ g2.protected = g.protected
    /\ g2.num_roots = g.num_roots - 1
\* gc_remove_from_roots takes out one entry and keeps the others.
LEMMA RemoveFacts ==
    ASSUME NEW al \in SUBSET Node, NEW h \in [Node -> Hdr], NEW g \in Globals,
           BufOK(al, h, g), NEW i \in Used(g), NEW al2 \in SUBSET Node,
           NEW h2 \in [Node -> Hdr],
           \A y \in Node : h2[y].addr = IF y = g.buf[i].ref THEN 0 ELSE h[y].addr,
           \A y \in al : y # g.buf[i].ref => y \in al2,
           NEW g2, g2 = gc_remove_from_roots(g, i)
    PROVE  Removed(al2, h2, g, i, g2)
<1> DEFINE e == [tag |-> "unused", ref |-> Null, next |-> g.unused]
<1>0. Entries(al, h, g) /\ Listed(g)
  BY DEF BufOK
<1>1. /\ MaxBufSize \in Nat /\ g.first_unused \in Nat /\ g.buf_size \in Nat
      /\ Used(g) \in SUBSET (1..(g.first_unused - 1)) /\ i \in 1..(g.first_unused - 1)
      /\ UnusedAt(g) \in SUBSET (1..(g.first_unused - 1))
      /\ \A j \in 1..(g.first_unused - 1) : j \in 1..(MaxBufSize - 1)
      /\ IsFiniteSet(Used(g)) /\ Cardinality(Used(g)) \in Nat
  BY <1>0, UsedFacts
<1>2. e \in Slots
  BY GlobalsFields DEF Slots, Tags
<1>3. /\ g2 \in Globals /\ g2.buf = [g.buf EXCEPT ![i] = e] /\ g2.unused = i
      /\ g2.num_roots = g.num_roots - 1 /\ g2.first_unused = g.first_unused
      /\ g2.buf_size = g.buf_size /\ g2.threshold = g.threshold
      /\ g2.active = g.active /\ g2.full = g.full /\ g2.protected = g.protected
  <2>1. /\ g2.buf = [g.buf EXCEPT ![i] = e] /\ g2.unused = i
        /\ g2.num_roots = g.num_roots - 1 /\ g2.first_unused = g.first_unused
        /\ g2.buf_size = g.buf_size /\ g2.threshold = g.threshold
        /\ g2.active = g.active /\ g2.full = g.full /\ g2.protected = g.protected
        /\ g2.enabled = g.enabled
    BY DEF gc_remove_from_roots, Globals
  <2>2. g2 \in Globals
    <3>1. [g.buf EXCEPT ![i] = e] \in [1..(MaxBufSize - 1) -> Slots]
      BY <1>1, <1>2, GlobalsFields
    <3> DEFINE b == [g.buf EXCEPT ![i] = e]
               r == g.num_roots - 1
    <3>2. g2 = [g EXCEPT !.buf = b, !.unused = i, !.num_roots = r]
      BY DEF gc_remove_from_roots, Globals
    <3>3. i \in Nat /\ r \in Int
      BY <1>1, GlobalsFields
    <3> HIDE DEF b, r
    <3> QED
      BY <3>1, <3>2, <3>3 DEF Globals, b
  <2> QED
    BY <2>1, <2>2
<1>4. /\ \A j \in 1..(MaxBufSize - 1) : j # i => g2.buf[j] = g.buf[j]
      /\ g2.buf[i] = e
  BY <1>1, <1>3, GlobalsFields
<1> HIDE DEF e
<1>5. e.tag = "unused" /\ e.ref = Null /\ e.next = g.unused
  BY DEF e
<1>6. Used(g2) = Used(g) \ {i} /\ UnusedAt(g2) = UnusedAt(g) \union {i} /\ i \notin UnusedAt(g)
  BY <1>1, <1>3, <1>4, <1>5 DEF Used, UnusedAt
<1>7. Entries(al2, h2, g2)
  <2>1. g2.num_roots = Cardinality(Used(g2))
    <3>1. Cardinality(Used(g) \ {i}) = Cardinality(Used(g)) - 1
      BY <1>1, FS_RemoveElement
    <3> QED
      BY <3>1, <1>0, <1>3, <1>6 DEF Entries
  <2>2. \A j \in Used(g2) : /\ g2.buf[j] = g.buf[j] /\ j \in Used(g)
                            /\ g2.buf[j].ref # g.buf[i].ref
    BY <1>0, <1>1, <1>4, <1>6 DEF Entries
  <2>3. \A j \in Used(g2) : /\ g2.buf[j].ref \in al2
                            /\ h2[g2.buf[j].ref].addr = gc_compress(j)
                            /\ g2.buf[j].tag \in {"root", "garbage", "dtor"}
    BY <1>0, <2>2 DEF Entries
  <2>4. \A j, k \in Used(g2) : g2.buf[j].ref = g2.buf[k].ref => j = k
    BY <1>0, <2>2 DEF Entries
  <2>5. ASSUME NEW n \in Node, h2[n].addr # 0 PROVE \E j \in Used(g2) : g2.buf[j].ref = n
    <3>1. n # g.buf[i].ref /\ h[n].addr # 0
      BY <2>5
    <3>2. PICK j \in Used(g) : g.buf[j].ref = n
      BY <3>1, <1>0 DEF Entries
    <3> QED
      BY <3>1, <3>2, <1>1, <1>4, <1>6
  <2>6. \A j \in 1..(MaxBufSize - 1) : j \notin Used(g2) => g2.buf[j].ref = Null
    BY <1>0, <1>4, <1>5, <1>6 DEF Entries
  <2>7. /\ g2.first_unused \in 1..g2.buf_size /\ g2.buf_size \in 2..MaxBufSize
        /\ g2.threshold <= g2.buf_size
    BY <1>0, <1>3 DEF Entries
  <2> QED
    BY <2>1, <2>3, <2>4, <2>5, <2>6, <2>7 DEF Entries
<1>8. Listed(g2)
  <2>0. /\ g.unused \in UnusedAt(g) \union {0} /\ 0 \notin UnusedAt(g) /\ i # 0
        /\ \A j \in UnusedAt(g) : /\ g.buf[j].next \in UnusedAt(g) \union {0}
                                  /\ g.buf[j].next # 0 => g.buf[j].next # g.unused
        /\ \A j, k \in UnusedAt(g) : g.buf[j].next = g.buf[k].next /\ g.buf[j].next # 0 => j = k
    BY <1>0, <1>1 DEF Listed
  <2>1. /\ \A j \in UnusedAt(g) : g2.buf[j].next = g.buf[j].next
        /\ g2.buf[i].next = g.unused
    BY <1>1, <1>4, <1>5, <1>6
  <2>2. g2.unused \in UnusedAt(g2) \union {0}
    BY <1>3, <1>6
  <2>3. \A j \in UnusedAt(g2) : /\ g2.buf[j].next \in UnusedAt(g2) \union {0}
                                /\ g2.buf[j].next # 0 => g2.buf[j].next # g2.unused
    <3>1. \A j \in UnusedAt(g2) : g2.buf[j].next \in UnusedAt(g) \union {0}
      BY <2>0, <2>1, <1>6, Zenon
    <3> QED
      BY <3>1, <2>0, <1>3, <1>6
  <2>4. \A j, k \in UnusedAt(g2) : g2.buf[j].next = g2.buf[k].next /\ g2.buf[j].next # 0 => j = k
    BY <2>0, <2>1, <1>6
  <2>5. ASSUME NEW S, g2.unused \in S, \A j \in UnusedAt(g2) \intersect S : g2.buf[j].next \in S
        PROVE  UnusedAt(g2) \subseteq S
    <3>1. g.unused \in S /\ \A j \in UnusedAt(g) \intersect S : g.buf[j].next \in S
      BY <2>1, <2>5, <1>3, <1>6
    <3>2. UnusedAt(g) \subseteq S
      BY <3>1, <1>0 DEF Listed
    <3> QED
      BY <3>2, <2>5, <1>3, <1>6
  <2>6. \A S : (g2.unused \in S /\ \A j \in UnusedAt(g2) \intersect S : g2.buf[j].next \in S)
                 => UnusedAt(g2) \subseteq S
    BY <2>5
  <2> QED
    BY <2>2, <2>3, <2>4, <2>6, SMTT(20) DEF Listed
<1> QED
  BY <1>3, <1>4, <1>6, <1>7, <1>8 DEF BufOK, Removed

\* gc_grow_root_buffer, short of the limit.
LEMMA GrowFacts ==
    ASSUME NEW g \in Globals, g.buf_size \in 2..MaxBufSize, ~g.full,
           NEW r, r = gc_grow_root_buffer(g), ~r.full
    PROVE  \E z \in Nat : /\ r = [g EXCEPT !.buf_size = z] /\ g.buf_size < z
                          /\ z <= MaxBufSize
<1> DEFINE new == IF g.buf_size < BufGrowStep THEN 2 * g.buf_size
                                             ELSE g.buf_size + BufGrowStep
           z == Min({new, MaxBufSize})
<1>1. MaxBufSize \in Nat /\ BufGrowStep \in Nat \ {0} /\ g.buf_size \in Nat
      /\ g.buf_size >= 2 /\ g.buf_size <= MaxBufSize
  BY BufferAssumption, GlobalsFields
<1>2. ~(g.buf_size >= MaxBufSize)
  <2> SUFFICES ASSUME g.buf_size >= MaxBufSize PROVE FALSE
    OBVIOUS
  <2>1. r = [g EXCEPT !.active = TRUE, !.protected = TRUE, !.full = TRUE]
    BY DEF gc_grow_root_buffer
  <2>2. r.full = TRUE
    BY <2>1 DEF Globals
  <2> QED
    BY <2>2
<1>3. r = [g EXCEPT !.buf_size = z]
  BY <1>2 DEF gc_grow_root_buffer
<1>4. new \in Nat /\ g.buf_size < new
  BY <1>1
<1> HIDE DEF new
<1>5. z \in {new, MaxBufSize} /\ \A y \in {new, MaxBufSize} : z <= y
  <2>1. CASE new <= MaxBufSize
    BY <2>1, <1>1, <1>4 DEF Min
  <2>2. CASE ~(new <= MaxBufSize)
    BY <2>2, <1>1, <1>4 DEF Min
  <2> QED
    BY <2>1, <2>2
<1> HIDE DEF z
<1> QED
  BY <1>1, <1>2, <1>3, <1>4, <1>5

\* gc_grow_root_buffer, at the limit too.
LEMMA GrowType ==
    ASSUME NEW g \in Globals
    PROVE  gc_grow_root_buffer(g) \in Globals
<1>1. MaxBufSize \in Nat /\ BufGrowStep \in Nat /\ g.buf_size \in Nat
  BY BufferAssumption, GlobalsFields
<1>2. CASE g.buf_size >= MaxBufSize /\ ~g.full
  BY <1>2 DEF gc_grow_root_buffer, Globals
<1>3. CASE ~(g.buf_size >= MaxBufSize /\ ~g.full)
  <2> DEFINE new == IF g.buf_size < BufGrowStep THEN 2 * g.buf_size
                                             ELSE g.buf_size + BufGrowStep
             z == Min({new, MaxBufSize})
  <2>1. gc_grow_root_buffer(g) = [g EXCEPT !.buf_size = z]
    BY <1>3 DEF gc_grow_root_buffer
  <2>2. new \in Nat
    BY <1>1
  <2> HIDE DEF new
  <2>3. z \in Nat
    <3>1. CASE new <= MaxBufSize
      BY <3>1, <1>1, <2>2 DEF Min
    <3>2. CASE ~(new <= MaxBufSize)
      BY <3>2, <1>1, <2>2 DEF Min
    <3> QED
      BY <3>1, <3>2
  <2> HIDE DEF z
  <2> QED
    BY <2>1, <2>3 DEF Globals
<1> QED
  BY <1>2, <1>3

\* The next entry: the head of the unused list, or the first behind the end.
LEMMA SlotFacts ==
    ASSUME NEW al \in SUBSET Node, NEW h \in [Node -> Hdr], NEW g \in Globals,
           BufOK(al, h, g), ~g.full, NEW s, s = Slot(g), ~s.gc.full
    PROVE  \E u \in Nat, f \in Nat, z \in Nat :
             /\ s.gc = [g EXCEPT !.unused = u, !.first_unused = f, !.buf_size = z]
             /\ f <= z /\ g.buf_size <= z /\ z <= MaxBufSize
             /\ \/ /\ g.unused # 0 /\ s.idx = g.unused /\ f = g.first_unused
                   /\ u = g.buf[s.idx].next
                \/ /\ g.unused = 0 /\ s.idx = g.first_unused /\ u = 0
                   /\ f = g.first_unused + 1
<1>0. Entries(al, h, g) /\ Listed(g)
  BY DEF BufOK
<1>1. /\ MaxBufSize \in Nat /\ g.first_unused \in Nat /\ g.buf_size \in Nat
      /\ g.first_unused <= g.buf_size /\ g.buf_size <= MaxBufSize /\ g.unused \in Nat
      /\ UnusedAt(g) \in SUBSET (1..(g.first_unused - 1))
      /\ \A j \in 1..(g.first_unused - 1) : j \in 1..(MaxBufSize - 1)
  BY <1>0, UsedFacts, GlobalsFields
<1> DEFINE next(b) == [idx |-> b.first_unused, gc |-> [b EXCEPT !.first_unused = @ + 1]]
           grown == gc_grow_root_buffer(g)
<1>2. CASE g.unused # 0
  <2>1. g.unused \in 1..(MaxBufSize - 1)
    BY <1>0, <1>1, <1>2 DEF Listed
  <2>2. g.buf[g.unused].next \in Nat
    BY <2>1, GlobalsFields DEF Slots
  <2>3. s = [idx |-> g.unused, gc |-> [g EXCEPT !.unused = g.buf[g.unused].next]]
    BY <1>2 DEF Slot
  <2> DEFINE u == g.buf[g.unused].next
  <2>4. s.idx = g.unused /\ s.gc = [g EXCEPT !.unused = u]
    BY <2>3
  <2>5. [g EXCEPT !.unused = u]
          = [g EXCEPT !.unused = u, !.first_unused = g.first_unused, !.buf_size = g.buf_size]
    <3> HIDE DEF u
    <3> QED
      BY DEF Globals
  <2>6. u \in Nat /\ u = g.buf[s.idx].next
    BY <2>2, <2>4
  <2> HIDE DEF u
  <2>7. /\ s.gc = [g EXCEPT !.unused = u, !.first_unused = g.first_unused, !.buf_size = g.buf_size]
        /\ g.first_unused <= g.buf_size /\ g.buf_size <= g.buf_size /\ g.buf_size <= MaxBufSize
        /\ s.idx = g.unused
    BY <1>1, <2>4, <2>5
  <2> QED
    BY <1>1, <1>2, <2>6, <2>7, Zenon
<1>3. CASE g.unused = 0 /\ g.first_unused # g.buf_size
  <2>1. s = next(g)
    BY <1>3 DEF Slot
  <2> DEFINE f == g.first_unused + 1
  <2>2. s.idx = g.first_unused /\ s.gc = [g EXCEPT !.first_unused = f]
    BY <2>1
  <2>3. [g EXCEPT !.first_unused = f]
          = [g EXCEPT !.unused = 0, !.first_unused = f, !.buf_size = g.buf_size]
    <3> HIDE DEF f
    <3> QED
      BY <1>3 DEF Globals
  <2>4. f \in Nat /\ f <= g.buf_size /\ g.buf_size <= g.buf_size /\ 0 \in Nat /\ f = g.first_unused + 1
    BY <1>1, <1>3
  <2> HIDE DEF f
  <2>5. s.gc = [g EXCEPT !.unused = 0, !.first_unused = f, !.buf_size = g.buf_size]
    BY <2>2, <2>3
  <2> QED
    BY <1>1, <1>3, <2>2, <2>4, <2>5, Zenon
<1>4. CASE g.unused = 0 /\ g.first_unused = g.buf_size
  <2>1. s = IF grown.first_unused # grown.buf_size THEN next(grown) ELSE [idx |-> 0, gc |-> grown]
    BY <1>4 DEF Slot
  <2>2. grown \in Globals
    BY GrowType
  <2>3. ~grown.full
    <3> HIDE DEF grown
    <3>1. s.gc = grown \/ s.gc = [grown EXCEPT !.first_unused = @ + 1]
      BY <2>1
    <3> QED
      BY <3>1, <2>2 DEF Globals
  <2>4. PICK z \in Nat : grown = [g EXCEPT !.buf_size = z] /\ g.buf_size < z /\ z <= MaxBufSize
    BY <1>0, <2>3, GrowFacts DEF Entries
  <2> HIDE DEF grown
  <2>5. grown.first_unused = g.first_unused /\ grown.buf_size = z
    BY <2>4 DEF Globals
  <2>6. s = next(grown)
    BY <2>1, <2>4, <2>5, <1>1, <1>4
  <2> DEFINE f == g.first_unused + 1
  <2>7. s.idx = g.first_unused /\ s.gc = [grown EXCEPT !.first_unused = f]
    BY <2>5, <2>6
  <2>8. [grown EXCEPT !.first_unused = f]
          = [g EXCEPT !.unused = 0, !.first_unused = f, !.buf_size = z]
    <3> HIDE DEF f
    <3> QED
      BY <1>4, <2>4 DEF Globals
  <2>9. f \in Nat /\ f <= z /\ g.buf_size <= z /\ 0 \in Nat /\ f = g.first_unused + 1
    BY <1>1, <1>4, <2>4
  <2> HIDE DEF f
  <2>10. s.gc = [g EXCEPT !.unused = 0, !.first_unused = f, !.buf_size = z]
    BY <2>7, <2>8
  <2> QED
    BY <1>4, <2>4, <2>7, <2>9, <2>10, Zenon
<1> QED
  BY <1>2, <1>3, <1>4

\* Entry i of g2 is the new one of n.
Entered(al, h, g, n, tag, color, h2, g2, i) ==
    /\ i \notin Used(g) /\ Used(g2) = Used(g) \union {i}
    /\ g2.buf[i].tag = tag /\ g2.buf[i].ref = n
    /\ \A j \in 1..(MaxBufSize - 1) : j # i => g2.buf[j] = g.buf[j]
    /\ h2 = [h EXCEPT ![n].addr = gc_compress(i), ![n].color = color]
    /\ gc_compress(i) \in Nat \ {0}
    /\ g2 \in Globals /\ BufOK(al, h2, g2)
    /\ g2.num_roots = g.num_roots + 1 /\ g2.first_unused >= g.first_unused
    /\ i < g2.first_unused
    /\ g2.active = g.active /\ g2.protected = g.protected
    /\ g.unused = 0 => g2.unused = 0 /\ i >= g.first_unused

\* A node without an address is entered.
LEMMA EnterFacts ==
    ASSUME NEW al \in SUBSET Node, NEW h \in [Node -> Hdr], NEW g \in Globals,
           BufOK(al, h, g), ~g.full, NEW n \in al, h[n].addr = 0,
           NEW tag \in {"root", "garbage", "dtor"}, NEW color \in Colors,
           NEW e, e = Enter(h, g, n, tag, color), ~e.gc.full
    PROVE  \E i \in 1..(MaxBufSize - 1) : Entered(al, h, g, n, tag, color, e.hdr, e.gc, i)
<1> DEFINE s == Slot(g)
           w == [tag |-> tag, ref |-> n, next |-> 0]
<1>0. /\ Entries(al, h, g) /\ Listed(g) /\ n \in Node
  BY DEF BufOK
<1>1. /\ MaxBufSize \in Nat /\ g.first_unused \in Nat /\ g.first_unused >= 1
      /\ g.first_unused <= g.buf_size /\ g.buf_size \in Nat /\ g.buf_size <= MaxBufSize
      /\ g.unused \in Nat /\ g.num_roots \in Int
      /\ Used(g) \in SUBSET (1..(g.first_unused - 1))
      /\ UnusedAt(g) \in SUBSET (1..(g.first_unused - 1))
      /\ \A j \in 1..(g.first_unused - 1) : j \in 1..(MaxBufSize - 1)
      /\ IsFiniteSet(Used(g)) /\ Cardinality(Used(g)) \in Nat
  BY <1>0, UsedFacts, GlobalsFields
<1> HIDE DEF s
<1>2. e = IF s.idx = 0 THEN [hdr |-> h, gc |-> s.gc]
          ELSE [hdr |-> [h EXCEPT ![n].addr = gc_compress(s.idx), ![n].color = color],
                gc |-> [s.gc EXCEPT !.num_roots = @ + 1, !.buf[s.idx] = w]]
  BY DEF Enter, s
<1>3. s.gc \in Globals /\ s.gc.full = e.gc.full
  <2>1. s.gc \in Globals /\ s.idx \in Nat
    <3> DEFINE grown == gc_grow_root_buffer(g)
               next(b) == [idx |-> b.first_unused, gc |-> [b EXCEPT !.first_unused = @ + 1]]
    <3>1. CASE g.unused # 0
      <4>1. g.unused \in 1..(MaxBufSize - 1)
        BY <1>0, <1>1, <3>1 DEF Listed
      <4>2. g.buf[g.unused].next \in Nat
        BY <4>1, GlobalsFields DEF Slots
      <4> DEFINE u == g.buf[g.unused].next
      <4>3. s.idx = g.unused /\ s.gc = [g EXCEPT !.unused = u]
        BY <3>1 DEF Slot, s
      <4> HIDE DEF u
      <4> QED
        BY <4>2, <4>3, <1>1 DEF Globals, u
    <3>2. CASE g.unused = 0 /\ g.first_unused # g.buf_size
      <4> DEFINE f == g.first_unused + 1
      <4>1. s.idx = g.first_unused /\ s.gc = [g EXCEPT !.first_unused = f]
        BY <3>2 DEF Slot, s
      <4>2. f \in Nat
        BY <1>1
      <4> HIDE DEF f
      <4> QED
        BY <4>1, <4>2, <1>1 DEF Globals
    <3>3. CASE g.unused = 0 /\ g.first_unused = g.buf_size
      <4>1. s = IF grown.first_unused # grown.buf_size THEN next(grown) ELSE [idx |-> 0, gc |-> grown]
        BY <3>3 DEF Slot, s
      <4>2. grown \in Globals
        BY <1>1, GrowType
      <4> HIDE DEF grown
      <4> DEFINE f == grown.first_unused + 1
      <4>3. f \in Nat /\ grown.first_unused \in Nat
        BY <4>2, GlobalsFields
      <4>4. next(grown) = [idx |-> grown.first_unused, gc |-> [grown EXCEPT !.first_unused = f]]
        OBVIOUS
      <4> HIDE DEF f, next
      <4>5. [grown EXCEPT !.first_unused = f] \in Globals
        BY <4>2, <4>3 DEF Globals
      <4> QED
        BY <4>1, <4>2, <4>3, <4>4, <4>5
    <3> QED
      BY <3>1, <3>2, <3>3
  <2>2. CASE s.idx = 0
    BY <2>1, <2>2, <1>2
  <2>3. CASE s.idx # 0
    <3>1. e.gc = [s.gc EXCEPT !.num_roots = @ + 1, !.buf[s.idx] = w]
      BY <2>3, <1>2
    <3> QED
      BY <3>1, <2>1 DEF Globals
  <2> QED
    BY <2>1, <2>2, <2>3
<1>4. PICK u \in Nat, f \in Nat, z \in Nat :
             /\ s.gc = [g EXCEPT !.unused = u, !.first_unused = f, !.buf_size = z]
             /\ f <= z /\ g.buf_size <= z /\ z <= MaxBufSize
             /\ \/ /\ g.unused # 0 /\ s.idx = g.unused /\ f = g.first_unused
                   /\ u = g.buf[s.idx].next
                \/ /\ g.unused = 0 /\ s.idx = g.first_unused /\ u = 0
                   /\ f = g.first_unused + 1
  <2>1. ~s.gc.full
    BY <1>3
  <2> QED
    BY <2>1, SlotFacts DEF s
<1> DEFINE i == s.idx
           r == g.num_roots + 1
           bf == [g.buf EXCEPT ![i] = w]
<1>5. /\ i \in Nat \ {0} /\ i < f /\ i \in 1..(MaxBufSize - 1) /\ i \notin Used(g)
      /\ \A j \in 1..(f - 1) : j = i \/ j \in 1..(g.first_unused - 1)
      /\ i \in UnusedAt(g) \/ i = g.first_unused
      /\ \A j \in UnusedAt(g) : j # i => j < f
      /\ f >= g.first_unused
  <2>1. CASE g.unused # 0
    <3>1. i = g.unused /\ f = g.first_unused /\ i \in UnusedAt(g)
      BY <1>0, <1>4, <2>1 DEF Listed
    <3>2. i \notin Used(g) /\ i \in 1..(g.first_unused - 1)
      BY <3>1, <1>1 DEF Used, UnusedAt
    <3> QED
      BY <3>1, <3>2, <1>1
  <2>2. CASE g.unused = 0
    <3>1. i = g.first_unused /\ f = g.first_unused + 1
      BY <1>4, <2>2
    <3> QED
      BY <3>1, <1>1, <1>4
  <2> QED
    BY <2>1, <2>2
<1>6. e.gc = [g EXCEPT !.unused = u, !.first_unused = f, !.buf_size = z, !.num_roots = r, !.buf = bf]
      /\ e.hdr = [h EXCEPT ![n].addr = gc_compress(i), ![n].color = color]
  <2>1. /\ e.gc = [s.gc EXCEPT !.num_roots = @ + 1, !.buf[s.idx] = w]
        /\ e.hdr = [h EXCEPT ![n].addr = gc_compress(i), ![n].color = color]
    BY <1>2, <1>5
  <2>2. s.gc.num_roots = g.num_roots /\ s.gc.buf = g.buf
    BY <1>4 DEF Globals
  <2>3. e.gc = [s.gc EXCEPT !.num_roots = r, !.buf = bf]
    BY <2>1, <2>2, <1>3 DEF Globals
  <2> HIDE DEF r, bf, i
  <2> QED
    BY <2>1, <2>3, <1>4 DEF Globals
<1>7. w \in Slots /\ bf \in [1..(MaxBufSize - 1) -> Slots] /\ r \in Int
  <2>1. w \in Slots
    BY <1>0 DEF Slots, Tags
  <2> QED
    BY <2>1, <1>1, <1>5, GlobalsFields
<1>8. /\ e.gc \in Globals /\ e.gc.unused = u /\ e.gc.first_unused = f /\ e.gc.buf_size = z
      /\ e.gc.num_roots = r /\ e.gc.buf = bf /\ e.gc.threshold = g.threshold
      /\ e.gc.active = g.active /\ e.gc.protected = g.protected
  <2> DEFINE g2 == e.gc
  <2>1. /\ g2 = [g EXCEPT !.unused = u, !.first_unused = f, !.buf_size = z, !.num_roots = r, !.buf = bf]
        /\ g \in Globals /\ u \in Nat /\ f \in Nat /\ z \in Nat /\ r \in Int
        /\ bf \in [1..(MaxBufSize - 1) -> Slots]
    BY <1>6, <1>7
  <2> HIDE DEF r, bf, i, w, g2
  <2>2. /\ g2 \in Globals /\ g2.unused = u /\ g2.first_unused = f /\ g2.buf_size = z
        /\ g2.num_roots = r /\ g2.buf = bf /\ g2.threshold = g.threshold
        /\ g2.active = g.active /\ g2.protected = g.protected
    BY ONLY <2>1 DEF Globals
  <2> QED
    BY <2>2 DEF g2
<1>9. /\ \A j \in 1..(MaxBufSize - 1) : j # i => e.gc.buf[j] = g.buf[j]
      /\ e.gc.buf[i] = w
  BY <1>5, <1>8, GlobalsFields
<1>10. w.tag = tag /\ w.ref = n /\ w.next = 0 /\ tag # "unused"
  OBVIOUS
<1> HIDE DEF w, i, r, bf
<1>11. /\ Used(e.gc) = Used(g) \union {i} /\ UnusedAt(e.gc) = UnusedAt(g) \ {i}
  <2>1. ASSUME NEW j \in 1..(f - 1), j # i
        PROVE  j \in 1..(g.first_unused - 1) /\ e.gc.buf[j] = g.buf[j]
    BY <2>1, <1>1, <1>5, <1>9
  <2>2. Used(e.gc) = Used(g) \union {i}
    <3>1. i \in Used(e.gc)
      BY <1>5, <1>8, <1>9, <1>10, <1>4 DEF Used
    <3>2. \A j \in Used(e.gc) : j \in Used(g) \union {i}
      BY <2>1, <1>8 DEF Used
    <3>3. \A j \in Used(g) : j # i => j \in Used(e.gc)
      BY <1>1, <1>4, <1>5, <1>8, <1>9 DEF Used
    <3> QED
      BY <3>1, <3>2, <3>3
  <2>3. UnusedAt(e.gc) = UnusedAt(g) \ {i}
    <3>1. i \notin UnusedAt(e.gc)
      BY <1>9, <1>10 DEF UnusedAt
    <3>2. \A j \in UnusedAt(e.gc) : j \in UnusedAt(g)
      BY <2>1, <3>1, <1>8 DEF UnusedAt
    <3>3. \A j \in UnusedAt(g) : j # i => j \in UnusedAt(e.gc)
      BY <1>1, <1>4, <1>5, <1>8, <1>9 DEF UnusedAt
    <3> QED
      BY <3>1, <3>2, <3>3
  <2> QED
    BY <2>2, <2>3
<1>12. gc_compress(i) \in Nat \ {0}
  BY <1>5, CompressFacts
<1>13. \A j \in Used(g) : g.buf[j].ref # n
  BY <1>0, UsedFacts
<1>14. /\ e.hdr[n].addr = gc_compress(i)
       /\ \A y \in Node : y # n => e.hdr[y] = h[y]
  BY <1>0, <1>6, <1>12 DEF Hdr
<1>15. Entries(al, e.hdr, e.gc)
  <2>1. /\ e.gc.first_unused \in 1..e.gc.buf_size /\ e.gc.buf_size \in 2..MaxBufSize
        /\ e.gc.threshold <= e.gc.buf_size
    <3>1. g.threshold <= g.buf_size /\ g.threshold \in Nat /\ g.buf_size >= 2
      BY <1>0, GlobalsFields DEF Entries
    <3> QED
      BY <3>1, <1>1, <1>4, <1>5, <1>8
  <2>2. e.gc.num_roots = Cardinality(Used(e.gc))
    <3>1. Cardinality(Used(g) \union {i}) = Cardinality(Used(g)) + 1
      BY <1>1, <1>5, FS_AddElement
    <3> QED
      BY <3>1, <1>0, <1>8, <1>11 DEF Entries, r
  <2>3. ASSUME NEW j \in Used(e.gc)
        PROVE  /\ e.gc.buf[j].ref \in al
               /\ e.hdr[e.gc.buf[j].ref].addr = gc_compress(j)
               /\ e.gc.buf[j].tag \in {"root", "garbage", "dtor"}
    <3>1. CASE j = i
      BY <3>1, <1>9, <1>10, <1>14
    <3>2. CASE j # i
      <4>1. j \in Used(g) /\ e.gc.buf[j] = g.buf[j] /\ g.buf[j].ref # n
        BY <3>2, <1>1, <1>9, <1>11, <1>13
      <4> QED
        BY <4>1, <1>0, <1>14 DEF Entries
    <3> QED
      BY <3>1, <3>2
  <2>4. \A j, k \in Used(e.gc) : e.gc.buf[j].ref = e.gc.buf[k].ref => j = k
    <3>1. \A j \in Used(g) : e.gc.buf[j] = g.buf[j]
      BY <1>1, <1>5, <1>9
    <3>2. \A j, k \in Used(g) : g.buf[j].ref = g.buf[k].ref => j = k
      BY <1>0 DEF Entries
    <3> QED
      BY <3>1, <3>2, <1>9, <1>10, <1>11, <1>13
  <2>5. ASSUME NEW y \in Node, e.hdr[y].addr # 0 PROVE \E j \in Used(e.gc) : e.gc.buf[j].ref = y
    <3>1. CASE y = n
      BY <3>1, <1>9, <1>10, <1>11
    <3>2. CASE y # n
      <4>1. PICK j \in Used(g) : g.buf[j].ref = y
        BY <3>2, <2>5, <1>0, <1>14 DEF Entries
      <4> QED
        BY <4>1, <1>1, <1>5, <1>9, <1>11
    <3> QED
      BY <3>1, <3>2
  <2>6. \A j \in 1..(MaxBufSize - 1) : j \notin Used(e.gc) => e.gc.buf[j].ref = Null
    BY <1>0, <1>9, <1>11 DEF Entries
  <2> QED
    BY <2>1, <2>2, <2>3, <2>4, <2>5, <2>6 DEF Entries
<1>16. Listed(e.gc)
  <2>0. /\ g.unused \in UnusedAt(g) \union {0} /\ 0 \notin UnusedAt(g)
        /\ \A j \in UnusedAt(g) : /\ g.buf[j].next \in UnusedAt(g) \union {0}
                                  /\ g.buf[j].next # 0 => g.buf[j].next # g.unused
        /\ \A j, k \in UnusedAt(g) : g.buf[j].next = g.buf[k].next /\ g.buf[j].next # 0 => j = k
    BY <1>0, <1>1 DEF Listed
  <2>1. \A j \in UnusedAt(g) : j # i => e.gc.buf[j] = g.buf[j]
    BY <1>1, <1>9
  <2>2. CASE g.unused # 0
    <3>1. i = g.unused /\ u = g.buf[i].next /\ i \in UnusedAt(g)
      BY <2>0, <2>2, <1>4 DEF i
    <3>2. /\ e.gc.unused \in UnusedAt(e.gc) \union {0}
          /\ \A j \in UnusedAt(e.gc) : /\ e.gc.buf[j].next \in UnusedAt(e.gc) \union {0}
                                       /\ e.gc.buf[j].next # 0 => e.gc.buf[j].next # e.gc.unused
          /\ \A j, k \in UnusedAt(e.gc) :
                e.gc.buf[j].next = e.gc.buf[k].next /\ e.gc.buf[j].next # 0 => j = k
      BY <2>0, <2>1, <3>1, <1>8, <1>11
    <3>3. ASSUME NEW S, e.gc.unused \in S,
                 \A j \in UnusedAt(e.gc) \intersect S : e.gc.buf[j].next \in S
          PROVE  UnusedAt(e.gc) \subseteq S
      <4> DEFINE T == S \union {i}
      <4>1. g.unused \in T /\ \A j \in UnusedAt(g) \intersect T : g.buf[j].next \in T
        BY <2>1, <3>1, <3>3, <1>8, <1>11
      <4>2. UnusedAt(g) \subseteq T
        <5> HIDE DEF T
        <5> QED
          BY <4>1, <1>0 DEF Listed
      <4> QED
        BY <4>2, <1>11
    <3>4. \A S : (e.gc.unused \in S /\ \A j \in UnusedAt(e.gc) \intersect S : e.gc.buf[j].next \in S)
                 => UnusedAt(e.gc) \subseteq S
      BY <3>3
    <3> QED
      BY <3>2, <3>4, SMTT(20) DEF Listed
  <2>3. CASE g.unused = 0
    <3>1. UnusedAt(g) = {}
      <4>1. g.unused \in {0} /\ \A j \in UnusedAt(g) \intersect {0} : g.buf[j].next \in {0}
        BY <2>0, <2>3
      <4>2. UnusedAt(g) \subseteq {0}
        BY <4>1, <1>0 DEF Listed
      <4> QED
        BY <4>2, <2>0
    <3>2. UnusedAt(e.gc) = {} /\ e.gc.unused = 0
      BY <3>1, <2>3, <1>4, <1>8, <1>11
    <3> QED
      BY <3>2 DEF Listed
  <2> QED
    BY <2>2, <2>3
<1>17. g.unused = 0 => e.gc.unused = 0 /\ i >= g.first_unused
  BY <1>1, <1>4, <1>8 DEF i
<1>18. /\ e.gc.num_roots = g.num_roots + 1 /\ e.gc.first_unused >= g.first_unused
       /\ i < e.gc.first_unused
  BY <1>5, <1>8 DEF r
<1>19. BufOK(al, e.hdr, e.gc)
  BY <1>15, <1>16 DEF BufOK
<1>20. e.gc.buf[i].tag = tag /\ e.gc.buf[i].ref = n
  BY <1>9, <1>10
<1>21. Entered(al, h, g, n, tag, color, e.hdr, e.gc, i) /\ i \in 1..(MaxBufSize - 1)
  BY <1>5, <1>6, <1>8, <1>9, <1>11, <1>12, <1>17, <1>18, <1>19, <1>20 DEF Entered
<1> QED
  BY <1>21

\* The headers then.
HdrEntered(h, n, color, h2) ==
    /\ h2 \in [Node -> Hdr] /\ h2[n].addr # 0 /\ h2[n].color = color
    /\ \A y \in Node : /\ h2[y].rc = h[y].rc /\ h2[y].null = h[y].null
                       /\ h2[y].freed = h[y].freed /\ h2[y].dtored = h[y].dtored
                       /\ y # n => h2[y] = h[y]
                       /\ h[y].addr # 0 => h2[y].addr # 0
\* Entering a root changes the address and the color of its node only.
LEMMA EnteredHdr ==
    ASSUME NEW al \in SUBSET Node, NEW h \in [Node -> Hdr], NEW g, NEW n \in Node, NEW tag,
           NEW color \in Colors, NEW h2, NEW g2, NEW i, Entered(al, h, g, n, tag, color, h2, g2, i)
    PROVE  HdrEntered(h, n, color, h2)
<1> DEFINE a == gc_compress(i)
<1>1. a \in Nat \ {0}
  BY DEF Entered
<1> HIDE DEF a
<1>2. h2 = [h EXCEPT ![n].addr = a, ![n].color = color]
  BY DEF a, Entered
<1>3. /\ h2[n] = [h[n] EXCEPT !.addr = a, !.color = color] /\ h[n] \in Hdr
      /\ DOMAIN h2 = Node /\ \A y \in Node : y # n => h2[y] = h[y]
      /\ h2 = [y \in Node |-> h2[y]]
  BY <1>2
<1>4. /\ h2[n] \in Hdr /\ h2[n].addr = a /\ h2[n].color = color /\ h2[n].rc = h[n].rc
      /\ h2[n].null = h[n].null /\ h2[n].freed = h[n].freed /\ h2[n].dtored = h[n].dtored
  BY <1>1, <1>3 DEF Hdr
<1>5. \A y \in Node : h2[y] \in Hdr
  BY <1>3, <1>4
<1> QED
  BY <1>1, <1>3, <1>4, <1>5 DEF HdrEntered

\* Sizes of parts.
LEMMA PartSize ==
    ASSUME NEW A, NEW B, IsFiniteSet(A), IsFiniteSet(B), A \intersect B = {}
    PROVE  /\ IsFiniteSet(A \union B)
           /\ Cardinality(A \union B) = Cardinality(A) + Cardinality(B)
<1>1. /\ IsFiniteSet(A \union B)
      /\ Cardinality(A \union B) = Cardinality(A) + Cardinality(B) - Cardinality(A \intersect B)
  BY FS_Union
<1>2. Cardinality(A \intersect B) = 0
  BY FS_EmptySet
<1>3. Cardinality(A) \in Nat /\ Cardinality(B) \in Nat
  BY FS_CardinalityType
<1> QED
  BY <1>1, <1>2, <1>3

\* The k-th smallest and the k-th largest element by their ranks.
LEMMA KthFacts ==
    ASSUME NEW n \in Nat, NEW U \in SUBSET (1..n), NEW k \in 1..Cardinality(U)
    PROVE  /\ Kth(U, k) \in U /\ Rank(U, Kth(U, k)) = k
           /\ KthLast(U, k) \in U /\ Rank(U, KthLast(U, k)) = Cardinality(U) + 1 - k
<1>1. /\ \A p \in Int, q \in U : p < q => Rank(U, p) < Rank(U, q)
      /\ \A p \in U : Rank(U, p) \in 1..Cardinality(U)
      /\ \A j \in 1..Cardinality(U) : \E p \in U : Rank(U, p) = j
  BY RankOrder
<1>2. /\ IsFiniteSet(U) /\ Cardinality(U) \in Nat
      /\ \A p \in Int : Rank(U, p) =
            IF p \in U THEN Rank(U, p - 1) + 1 ELSE Rank(U, p - 1)
      /\ \A p \in Int : Rank(U, p) \in 0..Cardinality(U)
      /\ \A p \in Int : IsFiniteSet({ q \in U : q <= p })
  BY RankFacts
<1>3. ASSUME NEW i \in U
      PROVE  Cardinality({ j \in U : j < i }) = Rank(U, i) - 1
  <2>1. { j \in U : j < i } = { q \in U : q <= i - 1 } /\ i \in Int
    <3>1. \A j \in U : j \in Int
      OBVIOUS
    <3>2. \A j \in U : j < i <=> j <= i - 1
      BY <3>1
    <3> QED
      BY <3>1, <3>2
  <2>2. Cardinality({ j \in U : j < i }) = Rank(U, i - 1) /\ i - 1 \in Int
    BY <2>1 DEF Rank
  <2> QED
    BY <2>1, <2>2, <1>2
<1>4. ASSUME NEW i \in U
      PROVE  Cardinality({ j \in U : j > i }) = Cardinality(U) - Rank(U, i)
  <2> DEFINE A == { q \in U : q <= i }
             B == { j \in U : j > i }
  <2>1. A \union B = U /\ A \intersect B = {} /\ i \in Int
    <3>1. \A j \in U : j \in Int
      OBVIOUS
    <3>2. \A j \in U : j > i <=> ~(j <= i)
      BY <3>1
    <3> QED
      BY <3>1, <3>2
  <2>2. IsFiniteSet(A) /\ IsFiniteSet(B) /\ Cardinality(A) = Rank(U, i)
    <3>1. IsFiniteSet(A)
      BY <2>1, <1>2
    <3>2. IsFiniteSet(B)
      BY <1>2, FS_Subset
    <3> QED
      BY <3>1, <3>2 DEF Rank
  <2>3. Cardinality(U) = Cardinality(A) + Cardinality(B)
    <3> HIDE DEF A, B
    <3> QED
      BY <2>1, <2>2, PartSize
  <2>4. Cardinality(B) \in Nat
    BY <2>2, FS_CardinalityType
  <2> HIDE DEF A, B
  <2>5. Cardinality(B) = Cardinality(U) - Rank(U, i)
    BY <2>1, <2>2, <2>3, <2>4, <1>2
  <2> QED
    BY <2>5 DEF B
<1>5. Kth(U, k) \in U /\ Rank(U, Kth(U, k)) = k
  <2>1. \E i \in U : Cardinality({ j \in U : j < i }) = k - 1
    BY <1>1, <1>3
  <2>2. /\ Kth(U, k) \in U
        /\ Cardinality({ j \in U : j < Kth(U, k) }) = k - 1
    BY <2>1 DEF Kth
  <2>3. Rank(U, Kth(U, k)) - 1 = k - 1
    BY <2>2, <1>3
  <2>4. Rank(U, Kth(U, k)) \in Int
    <3>1. Rank(U, Kth(U, k)) \in 1..Cardinality(U)
      BY <2>2, <1>1, Zenon
    <3> QED
      BY <3>1, <1>2
  <2> HIDE DEF Kth
  <2> QED
    BY <2>2, <2>3, <2>4
<1>6. KthLast(U, k) \in U /\ Rank(U, KthLast(U, k)) = Cardinality(U) + 1 - k
  <2>1. \E i \in U : Cardinality({ j \in U : j > i }) = k - 1
    <3>1. Cardinality(U) + 1 - k \in 1..Cardinality(U)
      BY <1>2
    <3>2. PICK i \in U : Rank(U, i) = Cardinality(U) + 1 - k
      BY <3>1, <1>1
    <3>3. Cardinality({ j \in U : j > i }) = Cardinality(U) - Rank(U, i)
      BY <1>4
    <3>4. Cardinality(U) - (Cardinality(U) + 1 - k) = k - 1
      BY <1>2
    <3> QED
      BY <3>2, <3>3, <3>4
  <2>2. /\ KthLast(U, k) \in U
        /\ Cardinality({ j \in U : j > KthLast(U, k) }) = k - 1
    BY <2>1 DEF KthLast
  <2>3. Cardinality(U) - Rank(U, KthLast(U, k)) = k - 1
    BY <2>2, <1>4
  <2>4. Rank(U, KthLast(U, k)) \in Int
    <3>1. Rank(U, KthLast(U, k)) \in 1..Cardinality(U)
      BY <2>2, <1>1, Zenon
    <3> QED
      BY <3>1, <1>2
  <2> QED
    BY <2>2, <2>3, <2>4, <1>2
<1> QED
  BY <1>5, <1>6

\* Two fingers: the holes of A take the elements of B, each one once.
Finger(A, B, i) == KthLast(B, CHOOSE k \in 1..Cardinality(A) : Kth(A, k) = i)
Pairs(A, B) == /\ \A i \in A : Finger(A, B, i) \in B
               /\ \A i, j \in A : Finger(A, B, i) = Finger(A, B, j) => i = j
               /\ \A b \in B : \E i \in A : Finger(A, B, i) = b
\* The k-th hole from below takes the k-th entry from above, one to one.
LEMMA FingerFacts ==
    ASSUME NEW n \in Nat, NEW A \in SUBSET (1..n), NEW B \in SUBSET (1..n),
           Cardinality(A) = Cardinality(B)
    PROVE  Pairs(A, B)
<1> DEFINE N == Cardinality(A)
<1>0. N \in Nat
  BY RankFacts
<1>1. /\ \A p \in Int, q \in A : p < q => Rank(A, p) < Rank(A, q)
      /\ \A p \in A : Rank(A, p) \in 1..N
  BY RankOrder
<1>2. /\ \A p \in Int, q \in B : p < q => Rank(B, p) < Rank(B, q)
      /\ \A p \in B : Rank(B, p) \in 1..N
  BY RankOrder
<1>3. /\ \A p, q \in A : Rank(A, p) = Rank(A, q) => p = q
      /\ \A p, q \in B : Rank(B, p) = Rank(B, q) => p = q
  <2>1. ASSUME NEW p \in A, NEW q \in A, Rank(A, p) = Rank(A, q) PROVE p = q
    <3>1. p \in Int /\ q \in Int /\ Rank(A, p) \in Int
      BY <1>1
    <3>2. ~(p < q) /\ ~(q < p)
      BY <2>1, <3>1, <1>1
    <3> QED
      BY <3>1, <3>2
  <2>2. ASSUME NEW p \in B, NEW q \in B, Rank(B, p) = Rank(B, q) PROVE p = q
    <3>1. p \in Int /\ q \in Int /\ Rank(B, p) \in Int
      BY <1>2
    <3>2. ~(p < q) /\ ~(q < p)
      BY <2>2, <3>1, <1>2
    <3> QED
      BY <3>1, <3>2
  <2> QED
    BY <2>1, <2>2
<1>4. ASSUME NEW i \in A
      PROVE  Finger(A, B, i) \in B /\ Rank(B, Finger(A, B, i)) = N + 1 - Rank(A, i)
  <2> DEFINE k == CHOOSE k \in 1..N : Kth(A, k) = i
             j == Rank(A, i)
  <2>1. j \in 1..N
    BY <1>1
  <2>2. Kth(A, j) \in A /\ Rank(A, Kth(A, j)) = j
    BY <2>1, KthFacts
  <2>3. Kth(A, j) = i
    BY <2>2, <1>3
  <2>4. k \in 1..N /\ Kth(A, k) = i
    BY <2>1, <2>3
  <2>5. Rank(A, i) = k
    <3> HIDE DEF k
    <3>1. k \in 1..Cardinality(A) /\ Kth(A, k) = i
      BY <2>4
    <3>2. Rank(A, Kth(A, k)) = k
      BY <3>1, KthFacts
    <3> QED
      BY ONLY <3>1, <3>2
  <2>6. KthLast(B, k) \in B /\ Rank(B, KthLast(B, k)) = N + 1 - k
    <3> HIDE DEF k
    <3>1. k \in 1..Cardinality(B) /\ Cardinality(B) = N
      BY <2>4
    <3>2. KthLast(B, k) \in B /\ Rank(B, KthLast(B, k)) = Cardinality(B) + 1 - k
      BY <3>1, KthFacts
    <3> QED
      BY ONLY <3>1, <3>2
  <2>7. Finger(A, B, i) = KthLast(B, k)
    BY DEF Finger
  <2> HIDE DEF k
  <2> QED
    BY <2>5, <2>6, <2>7
<1>5. ASSUME NEW i \in A, NEW j \in A, Finger(A, B, i) = Finger(A, B, j) PROVE i = j
  <2>1. N + 1 - Rank(A, i) = N + 1 - Rank(A, j)
    BY <1>4, <1>5
  <2>2. Rank(A, i) \in Int /\ Rank(A, j) \in Int
    BY <1>1
  <2>3. Rank(A, i) = Rank(A, j)
    BY <1>0, <2>1, <2>2
  <2> QED
    BY <2>3, <1>3
<1>6. ASSUME NEW b \in B PROVE \E i \in A : Finger(A, B, i) = b
  <2> DEFINE k == N + 1 - Rank(B, b)
  <2>1. Rank(B, b) \in 1..N
    BY <1>2
  <2>2. k \in 1..N
    BY <1>0, <2>1
  <2>3. Kth(A, k) \in A /\ Rank(A, Kth(A, k)) = k
    <3> HIDE DEF k
    <3> QED
      BY <2>2, KthFacts
  <2>4. Rank(B, Finger(A, B, Kth(A, k))) = N + 1 - k /\ Finger(A, B, Kth(A, k)) \in B
    BY <2>3, <1>4
  <2>5. N + 1 - k = Rank(B, b)
    BY <1>0, <2>1
  <2> HIDE DEF k
  <2>6. Finger(A, B, Kth(A, k)) = b
    BY <2>4, <2>5, <1>3
  <2> QED
    BY <2>3, <2>6
<1> QED
  BY <1>4, <1>5, <1>6 DEF Pairs

\* Headers that differ in their addresses only, and have one together.
SameBut(h, h2) ==
    \A y \in Node : /\ h2[y].rc = h[y].rc /\ h2[y].color = h[y].color
                    /\ h2[y].null = h[y].null /\ h2[y].dtored = h[y].dtored
                    /\ h2[y].freed = h[y].freed /\ (h2[y].addr = 0 <=> h[y].addr = 0)
\* The entries are the same ones, in other places.
Moved(g, g2) ==
    /\ \A i \in Used(g2) : \E j \in Used(g) : g2.buf[i] = g.buf[j]
    /\ \A j \in Used(g) : \E i \in Used(g2) : g2.buf[i] = g.buf[j]

\* gc_compact closes the holes and keeps the entries.
Compacted(al, h, g, r) ==
    /\ r.gc \in Globals /\ r.hdr \in [Node -> Hdr] /\ BufOK(al, r.hdr, r.gc)
    /\ SameBut(h, r.hdr) /\ Moved(g, r.gc)
    /\ Used(r.gc) = 1..g.num_roots /\ r.gc.num_roots = g.num_roots
    /\ r.gc.first_unused = g.num_roots + 1 /\ r.gc.unused = 0
    /\ r.gc.active = g.active /\ r.gc.protected = g.protected /\ r.gc.full = g.full
\* gc_compact keeps every entry, at another index, and leaves no hole.
LEMMA CompactFacts ==
    ASSUME NEW al \in SUBSET Node, NEW h \in [Node -> Hdr], NEW g \in Globals,
           Entries(al, h, g), UnusedAt(g) = {} => g.unused = 0,
           NEW r, r = gc_compact(h, g)
    PROVE  Compacted(al, h, g, r)
<1> DEFINE K == g.num_roots
           holes == (1..K) \ Used(g)
           above == Used(g) \ (1..K)
           from(i) == Finger(holes, above, i)
           to(n) == CHOOSE i \in holes : g.buf[from(i)].ref = n
           moved == { g.buf[i].ref : i \in above }
           bf == [i \in DOMAIN g.buf |-> IF i > K THEN Raw
                      ELSE IF i \in holes THEN g.buf[from(i)] ELSE g.buf[i]]
           hd2 == [n \in Node |-> IF n \in moved
                         THEN [h[n] EXCEPT !.addr = gc_compress(to(n))] ELSE h[n]]
<1>0. /\ MaxBufSize \in Nat /\ g.first_unused \in Nat /\ g.first_unused >= 1
      /\ g.first_unused <= g.buf_size /\ g.buf_size \in Nat /\ g.buf_size <= MaxBufSize
      /\ Used(g) \in SUBSET (1..(g.first_unused - 1))
      /\ UnusedAt(g) \in SUBSET (1..(g.first_unused - 1))
      /\ \A j \in 1..(g.first_unused - 1) : j \in 1..(MaxBufSize - 1)
      /\ IsFiniteSet(Used(g)) /\ Cardinality(Used(g)) \in Nat
      /\ \A i \in Used(g) : /\ g.buf[i].ref \in Node /\ g.buf[i].ref # Null
                            /\ h[g.buf[i].ref].addr # 0
  BY UsedFacts
<1>1. K = Cardinality(Used(g)) /\ K \in Nat /\ K <= g.first_unused - 1
  <2>1. K = Cardinality(Used(g))
    BY DEF Entries
  <2>2. g.first_unused - 1 \in Nat
    BY <1>0
  <2>3. Cardinality(Used(g)) <= g.first_unused - 1
    BY <1>0, <2>2, FS_Subset, IntervalSize
  <2> QED
    BY <2>1, <2>3, <1>0
<1>2. r = IF K + 1 = g.first_unused THEN [hdr |-> h, gc |-> g]
          ELSE [hdr |-> hd2, gc |-> [g EXCEPT !.unused = 0, !.first_unused = K + 1, !.buf = bf]]
  BY DEF gc_compact, Finger
<1>3. CASE K + 1 = g.first_unused
  <2>1. Used(g) = 1..K
    <3>1. Used(g) \in SUBSET (1..K) /\ IsFiniteSet(1..K) /\ Cardinality(1..K) = K
      BY <1>0, <1>1, <1>3, IntervalSize
    <3> QED
      BY <3>1, <1>1, FS_Subset
  <2>2. UnusedAt(g) = {}
    BY <2>1, <1>1, <1>3 DEF Used, UnusedAt
  <2>3. g.unused = 0
    BY <2>2
  <2>4. Listed(g)
    BY <2>2, <2>3 DEF Listed
  <2>5. r.hdr = h /\ r.gc = g
    BY <1>2, <1>3
  <2> QED
    BY <2>1, <2>3, <2>4, <2>5, <1>1, <1>3 DEF BufOK, SameBut, Moved, Compacted
<1>4. CASE K + 1 # g.first_unused
  <2>1. IsFiniteSet(1..K) /\ Cardinality(1..K) = K
    BY <1>1, IntervalSize
  <2>2. Cardinality(holes) = Cardinality(above)
    <3> DEFINE both == Used(g) \intersect (1..K)
    <3>1. IsFiniteSet(both) /\ IsFiniteSet(holes) /\ IsFiniteSet(above)
      BY <1>0, <2>1, FS_Subset
    <3>2. both \union holes = 1..K /\ both \intersect holes = {}
          /\ both \union above = Used(g) /\ both \intersect above = {}
      OBVIOUS
    <3> HIDE DEF both, holes, above
    <3>3. K = Cardinality(both) + Cardinality(holes) /\ K = Cardinality(both) + Cardinality(above)
      BY <3>1, <3>2, <2>1, <1>1, PartSize
    <3>4. Cardinality(both) \in Nat /\ Cardinality(holes) \in Nat /\ Cardinality(above) \in Nat
      BY <3>1, FS_CardinalityType
    <3> QED
      BY <3>3, <3>4
  <2>3. /\ \A i \in holes : from(i) \in above
        /\ \A i, j \in holes : from(i) = from(j) => i = j
        /\ \A a \in above : \E i \in holes : from(i) = a
    <3> DEFINE n == g.first_unused - 1
    <3>1. n \in Nat /\ holes \in SUBSET (1..n) /\ above \in SUBSET (1..n)
      BY <1>0, <1>1
    <3> HIDE DEF holes, above, n
    <3>2. /\ \A i \in holes : Finger(holes, above, i) \in above
          /\ \A i, j \in holes : Finger(holes, above, i) = Finger(holes, above, j) => i = j
          /\ \A b \in above : \E i \in holes : Finger(holes, above, i) = b
      <4>1. Pairs(holes, above)
        BY <3>1, <2>2, FingerFacts
      <4> QED
        BY <4>1 DEF Pairs
    <3> QED
      BY <3>2
  <2> HIDE DEF from
  <2> DEFINE src(i) == IF i \in holes THEN from(i) ELSE i
  <2>4. /\ \A i \in 1..K : src(i) \in Used(g) /\ src(i) \in 1..(MaxBufSize - 1)
        /\ \A i, j \in 1..K : src(i) = src(j) => i = j
        /\ \A a \in Used(g) : \E i \in 1..K : src(i) = a
    <3>1. \A i \in 1..K : src(i) \in Used(g)
      BY <2>3
    <3>2. \A i \in 1..K : src(i) \in 1..(MaxBufSize - 1)
      BY <3>1, <1>0
    <3>3. \A i \in 1..K : i \in holes => src(i) \notin 1..K
      BY <2>3
    <3>4. \A i, j \in 1..K : src(i) = src(j) => i = j
      BY <2>3, <3>3
    <3>5. ASSUME NEW a \in Used(g) PROVE \E i \in 1..K : src(i) = a
      <4>1. CASE a \in 1..K
        BY <4>1
      <4>2. CASE a \notin 1..K
        BY <4>2, <2>3
      <4> QED
        BY <4>1, <4>2
    <3> QED
      BY <3>1, <3>2, <3>4, <3>5
  <2>5. /\ \A i \in 1..(MaxBufSize - 1) : bf[i] = IF i > K THEN Raw ELSE g.buf[src(i)]
        /\ bf \in [1..(MaxBufSize - 1) -> Slots]
    <3>1. DOMAIN g.buf = 1..(MaxBufSize - 1) /\ Raw \in Slots
        /\ \A i \in 1..(MaxBufSize - 1) : g.buf[i] \in Slots
      BY GlobalsFields DEF Slots, Raw, Tags
    <3>2. \A i \in 1..(MaxBufSize - 1) : bf[i] = IF i > K THEN Raw ELSE g.buf[src(i)]
      BY <3>1
    <3>3. \A i \in 1..(MaxBufSize - 1) : ~(i > K) => i \in 1..K
      BY <1>0, <1>1
    <3>4. \A i \in 1..(MaxBufSize - 1) : bf[i] \in Slots
      BY <3>1, <3>2, <3>3, <2>4
    <3>5. bf = [i \in 1..(MaxBufSize - 1) |-> bf[i]]
      BY <3>1
    <3> QED
      BY <3>2, <3>4, <3>5
  <2>6. ASSUME NEW i \in holes PROVE to(g.buf[from(i)].ref) = i
    <3> DEFINE n == g.buf[from(i)].ref
    <3>1. to(n) \in holes /\ g.buf[from(to(n))].ref = n
      OBVIOUS
    <3>2. from(i) \in Used(g) /\ from(to(n)) \in Used(g)
      BY <2>3, <3>1
    <3>3. from(to(n)) = from(i)
      BY <3>1, <3>2 DEF Entries
    <3> QED
      BY <3>1, <3>3, <2>3
  <2> HIDE DEF to
  <2>7. ASSUME NEW n \in moved PROVE \E i \in holes : g.buf[from(i)].ref = n /\ to(n) = i
    <3>1. PICK a \in above : n = g.buf[a].ref
      OBVIOUS
    <3>2. PICK i \in holes : from(i) = a
      BY <2>3
    <3> QED
      BY <3>1, <3>2, <2>6
  <2>8. \A n \in moved : to(n) \in Nat \ {0} /\ gc_compress(to(n)) \in Nat \ {0} /\ h[n].addr # 0
                         /\ n \in Node
    <3>1. \A n \in moved : to(n) \in Nat \ {0}
      BY <2>7, <1>1
    <3>2. \A n \in moved : h[n].addr # 0 /\ n \in Node
      BY <1>0
    <3> HIDE DEF moved
    <3> QED
      BY <3>1, <3>2, CompressFacts
  <2>9. /\ hd2 \in [Node -> Hdr]
        /\ \A n \in Node : hd2[n].addr = IF n \in moved THEN gc_compress(to(n)) ELSE h[n].addr
        /\ SameBut(h, hd2)
    <3> HIDE DEF moved
    <3>1. ASSUME NEW n \in Node
          PROVE  /\ hd2[n] \in Hdr
                 /\ hd2[n].addr = IF n \in moved THEN gc_compress(to(n)) ELSE h[n].addr
                 /\ hd2[n].rc = h[n].rc /\ hd2[n].color = h[n].color
                 /\ hd2[n].null = h[n].null /\ hd2[n].dtored = h[n].dtored
                 /\ hd2[n].freed = h[n].freed /\ (hd2[n].addr = 0 <=> h[n].addr = 0)
      <4>1. CASE n \in moved
        <5> DEFINE a == gc_compress(to(n))
        <5>1. a \in Nat \ {0} /\ h[n].addr # 0
          BY <4>1, <2>8
        <5>2. hd2[n] = [h[n] EXCEPT !.addr = a] /\ h[n] \in Hdr
          BY <4>1
        <5> HIDE DEF a, hd2
        <5>3. /\ hd2[n] \in Hdr /\ hd2[n].addr = a
              /\ hd2[n].rc = h[n].rc /\ hd2[n].color = h[n].color
              /\ hd2[n].null = h[n].null /\ hd2[n].dtored = h[n].dtored
              /\ hd2[n].freed = h[n].freed
          BY <5>1, <5>2 DEF Hdr
        <5> QED
          BY <5>1, <5>3, <4>1 DEF a
      <4>2. CASE n \notin moved
        BY <4>2
      <4> QED
        BY <4>1, <4>2
    <3>2. hd2 = [n \in Node |-> hd2[n]]
      OBVIOUS
    <3> HIDE DEF hd2
    <3>3. hd2 \in [Node -> Hdr]
      BY <3>1, <3>2
    <3> QED
      BY <3>1, <3>3 DEF SameBut
  <2> DEFINE f == K + 1
  <2>10. r.hdr = hd2 /\ r.gc = [g EXCEPT !.unused = 0, !.first_unused = f, !.buf = bf]
    BY <1>2, <1>4
  <2>11. f \in Nat /\ 0 \in Nat /\ f = g.num_roots + 1
    BY <1>1
  <2> HIDE DEF bf, hd2, f
  <2>12. /\ r.gc \in Globals /\ r.gc.unused = 0 /\ r.gc.first_unused = f /\ r.gc.buf = bf
         /\ r.gc.num_roots = g.num_roots /\ r.gc.buf_size = g.buf_size
         /\ r.gc.threshold = g.threshold /\ r.gc.active = g.active
         /\ r.gc.protected = g.protected /\ r.gc.full = g.full
    BY <2>5, <2>10, <2>11 DEF Globals
  <2>13. /\ \A i \in 1..K : r.gc.buf[i] = g.buf[src(i)]
         /\ \A i \in 1..(MaxBufSize - 1) : i \notin 1..K => r.gc.buf[i] = Raw
         /\ \A i \in 1..K : i \in 1..(MaxBufSize - 1)
    <3>1. \A i \in 1..K : i \in 1..(MaxBufSize - 1) /\ ~(i > K)
      BY <1>0, <1>1
    <3>2. \A i \in 1..(MaxBufSize - 1) : i \notin 1..K => i > K
      BY <1>1
    <3> QED
      BY <3>1, <3>2, <2>5, <2>12
  <2> HIDE DEF src
  <2>14. Used(r.gc) = 1..K /\ UnusedAt(r.gc) = {}
    <3>1. \A i \in 1..K : r.gc.buf[i].tag # "unused"
      BY <2>4, <2>13 DEF Used
    <3>2. r.gc.first_unused - 1 = K
      BY <2>11, <2>12, <1>1
    <3> QED
      BY <3>1, <3>2 DEF Used, UnusedAt
  <2>15. Entries(al, r.hdr, r.gc)
    <3>1. /\ r.gc.first_unused \in 1..r.gc.buf_size /\ r.gc.buf_size \in 2..MaxBufSize
          /\ r.gc.threshold <= r.gc.buf_size
      <4>1. g.buf_size \in 2..MaxBufSize /\ g.threshold <= g.buf_size
        BY DEF Entries
      <4>2. f \in 1..g.buf_size
        BY <1>0, <1>1, <2>11
      <4> QED
        BY <4>1, <4>2, <2>12
    <3>2. r.gc.num_roots = Cardinality(Used(r.gc))
      BY <2>1, <2>12, <2>14
    <3>3. ASSUME NEW i \in 1..K
          PROVE  /\ r.gc.buf[i].ref \in al
                 /\ r.hdr[r.gc.buf[i].ref].addr = gc_compress(i)
                 /\ r.gc.buf[i].tag \in {"root", "garbage", "dtor"}
      <4> DEFINE n == g.buf[src(i)].ref
      <4>1. /\ n \in al /\ n \in Node /\ g.buf[src(i)].tag \in {"root", "garbage", "dtor"}
            /\ h[n].addr = gc_compress(src(i))
        BY <2>4 DEF Entries
      <4>2. CASE i \in holes
        <5>1. n = g.buf[from(i)].ref /\ n \in moved
          BY <4>2, <2>3 DEF src
        <5>2. to(n) = i
          BY <4>2, <5>1, <2>6
        <5> QED
          BY <4>1, <5>1, <5>2, <2>9, <2>10, <2>13
      <4>3. CASE i \notin holes
        <5>1. src(i) = i /\ i \in Used(g)
          BY <4>3 DEF src
        <5>2. n \notin moved
          <6> SUFFICES ASSUME NEW a \in above, n = g.buf[a].ref PROVE FALSE
            OBVIOUS
          <6>1. a = i
            BY <5>1 DEF Entries
          <6> QED
            BY <6>1
        <5> QED
          BY <4>1, <5>1, <5>2, <2>9, <2>10, <2>13
      <4> QED
        BY <4>2, <4>3
    <3>4. \A i, j \in 1..K : r.gc.buf[i].ref = r.gc.buf[j].ref => i = j
      <4>1. \A i, j \in Used(g) : g.buf[i].ref = g.buf[j].ref => i = j
        BY DEF Entries
      <4> QED
        BY <4>1, <2>4, <2>13
    <3>5. ASSUME NEW n \in Node, r.hdr[n].addr # 0 PROVE \E i \in 1..K : r.gc.buf[i].ref = n
      <4>1. h[n].addr # 0
        BY <3>5, <2>9, <2>10 DEF SameBut
      <4>2. PICK a \in Used(g) : g.buf[a].ref = n
        BY <4>1 DEF Entries
      <4>3. PICK i \in 1..K : src(i) = a
        BY <2>4
      <4> QED
        BY <4>2, <4>3, <2>13
    <3>6. \A i \in 1..(MaxBufSize - 1) : i \notin 1..K => r.gc.buf[i].ref = Null
      BY <2>13 DEF Raw
    <3> QED
      BY <3>1, <3>2, <3>3, <3>4, <3>5, <3>6, <2>14 DEF Entries
  <2>16. Listed(r.gc)
    BY <2>12, <2>14 DEF Listed
  <2>17. Moved(g, r.gc)
    BY <2>4, <2>13, <2>14 DEF Moved
  <2> QED
    BY <2>9, <2>10, <2>11, <2>12, <2>14, <2>15, <2>16, <2>17 DEF BufOK, Compacted
<1> QED
  BY <1>3, <1>4

\* The same entries, maybe with other tags, in a buffer that may have grown.
Retagged(g, g2) ==
    /\ g2.unused = g.unused /\ g2.first_unused = g.first_unused /\ g2.num_roots = g.num_roots
    /\ \A i \in 1..(MaxBufSize - 1) :
         /\ g2.buf[i].ref = g.buf[i].ref /\ g2.buf[i].next = g.buf[i].next
         /\ IF i \in Used(g) THEN g2.buf[i].tag \in {"root", "garbage", "dtor"}
            ELSE g2.buf[i].tag = g.buf[i].tag
\* The buffer stays sound when tags change and nodes without an entry go.
LEMMA BufSame ==
    ASSUME NEW al \in SUBSET Node, NEW h \in [Node -> Hdr], NEW g \in Globals,
           BufOK(al, h, g), NEW al2 \in SUBSET Node, NEW h2 \in [Node -> Hdr],
           NEW g2 \in Globals, Retagged(g, g2),
           g.buf_size <= g2.buf_size, g2.buf_size <= MaxBufSize, g2.threshold <= g2.buf_size,
           \A y \in Node : h2[y].addr = h[y].addr,
           \A y \in al : y \in al2 \/ h[y].addr = 0
    PROVE  BufOK(al2, h2, g2) /\ Used(g2) = Used(g) /\ UnusedAt(g2) = UnusedAt(g)
<1>0. Entries(al, h, g) /\ Listed(g)
  BY DEF BufOK
<1>1. /\ MaxBufSize \in Nat /\ g.first_unused \in Nat /\ g.first_unused >= 1
      /\ g.first_unused <= g.buf_size /\ g.buf_size \in Nat /\ g.buf_size <= MaxBufSize
      /\ Used(g) \in SUBSET (1..(g.first_unused - 1))
      /\ UnusedAt(g) \in SUBSET (1..(g.first_unused - 1))
      /\ \A j \in 1..(g.first_unused - 1) : j \in 1..(MaxBufSize - 1)
      /\ \A i \in Used(g) : /\ g.buf[i].ref \in Node /\ h[g.buf[i].ref].addr # 0
  BY <1>0, UsedFacts
<1>2. Used(g2) = Used(g) /\ UnusedAt(g2) = UnusedAt(g)
  BY <1>1 DEF Used, UnusedAt, Retagged
<1>3. Entries(al2, h2, g2)
  <2>1. /\ g2.first_unused \in 1..g2.buf_size /\ g2.buf_size \in 2..MaxBufSize
    <3>1. g2.buf_size \in Nat /\ g.buf_size \in 2..MaxBufSize /\ g2.first_unused = g.first_unused
      BY <1>0, GlobalsFields DEF Entries, Retagged
    <3> QED
      BY <3>1, <1>1
  <2>2. g2.num_roots = Cardinality(Used(g2))
    BY <1>0, <1>2 DEF Entries, Retagged
  <2>3. \A i \in 1..(MaxBufSize - 1) : g2.buf[i].ref = g.buf[i].ref
    BY DEF Retagged
  <2>4. \A i \in Used(g2) : /\ g2.buf[i].ref \in al2
                            /\ h2[g2.buf[i].ref].addr = gc_compress(i)
    <3>1. \A i \in Used(g) : /\ g.buf[i].ref \in al /\ h[g.buf[i].ref].addr = gc_compress(i)
      BY <1>0 DEF Entries
    <3> QED
      BY <3>1, <2>3, <1>1, <1>2
  <2>5. \A i \in Used(g2) : g2.buf[i].tag \in {"root", "garbage", "dtor"}
    BY <1>1, <1>2 DEF Retagged
  <2>6. \A i, j \in Used(g2) : g2.buf[i].ref = g2.buf[j].ref => i = j
    BY <2>3, <1>0, <1>1, <1>2 DEF Entries
  <2>7. \A n \in Node : h2[n].addr # 0 => \E i \in Used(g2) : g2.buf[i].ref = n
    BY <2>3, <1>0, <1>1, <1>2 DEF Entries
  <2>8. \A i \in 1..(MaxBufSize - 1) : i \notin Used(g2) => g2.buf[i].ref = Null
    BY <2>3, <1>0, <1>2 DEF Entries
  <2> QED
    BY <2>1, <2>2, <2>4, <2>5, <2>6, <2>7, <2>8 DEF Entries
<1>4. Listed(g2)
  <2>1. \A i \in UnusedAt(g) : g2.buf[i].next = g.buf[i].next
    BY <1>1 DEF Retagged
  <2>2. g2.unused = g.unused
    BY DEF Retagged
  <2>3. /\ g2.unused \in UnusedAt(g2) \union {0}
        /\ \A i \in UnusedAt(g2) : /\ g2.buf[i].next \in UnusedAt(g2) \union {0}
                                   /\ g2.buf[i].next # 0 => g2.buf[i].next # g2.unused
        /\ \A i, j \in UnusedAt(g2) : g2.buf[i].next = g2.buf[j].next /\ g2.buf[i].next # 0 => i = j
    <3>1. /\ g.unused \in UnusedAt(g) \union {0}
          /\ \A i \in UnusedAt(g) : /\ g.buf[i].next \in UnusedAt(g) \union {0}
                                    /\ g.buf[i].next # 0 => g.buf[i].next # g.unused
          /\ \A i, j \in UnusedAt(g) : g.buf[i].next = g.buf[j].next /\ g.buf[i].next # 0 => i = j
      BY <1>0 DEF Listed
    <3> QED
      BY <3>1, <2>1, <2>2, <1>2
  <2>4. ASSUME NEW S, g2.unused \in S, \A i \in UnusedAt(g2) \intersect S : g2.buf[i].next \in S
        PROVE  UnusedAt(g2) \subseteq S
    <3>1. g.unused \in S /\ \A i \in UnusedAt(g) \intersect S : g.buf[i].next \in S
      BY <2>1, <2>2, <2>4, <1>2
    <3>2. UnusedAt(g) \subseteq S
      BY <3>1, <1>0 DEF Listed
    <3> QED
      BY <3>2, <1>2
  <2>5. \A S : (g2.unused \in S /\ \A i \in UnusedAt(g2) \intersect S : g2.buf[i].next \in S)
                 => UnusedAt(g2) \subseteq S
    BY <2>4
  <2> QED
    BY <2>3, <2>5, SMTT(20) DEF Listed
<1> QED
  BY <1>2, <1>3, <1>4 DEF BufOK

\* gc_adjust_threshold moves the threshold within the buffer, which it may grow.
LEMMA AdjustFacts ==
    ASSUME NEW al \in SUBSET Node, NEW h \in [Node -> Hdr], NEW g \in Globals,
           BufOK(al, h, g), ~g.full, NEW count \in Int,
           NEW r, r = gc_adjust_threshold(g, count), ~r.full
    PROVE  /\ r \in Globals /\ BufOK(al, h, r) /\ r.buf = g.buf /\ Retagged(g, r)
           /\ r.active = g.active /\ r.protected = g.protected /\ r.enabled = g.enabled
           /\ g.buf_size <= r.buf_size /\ r.buf_size <= MaxBufSize /\ r.threshold <= r.buf_size
<1> DEFINE new == Min({g.threshold + ThresholdStep, ThresholdMax})
           grown == IF new > g.buf_size THEN gc_grow_root_buffer(g) ELSE g
           low == Max({g.threshold - ThresholdStep, ThresholdDefault})
           raise == count < ThresholdTrigger \/ g.num_roots >= g.threshold
<1>0. Entries(al, h, g)
  BY DEF BufOK
<1>1. /\ g.threshold \in Nat /\ g.buf_size \in 2..MaxBufSize /\ g.threshold <= g.buf_size
      /\ MaxBufSize \in Nat /\ g.buf_size \in Nat /\ ThresholdStep \in Nat \ {0}
      /\ ThresholdMax \in Nat /\ ThresholdDefault \in Nat /\ ThresholdDefault <= ThresholdMax
      /\ ThresholdMax <= MaxBufSize /\ g.buf_size <= MaxBufSize
  BY <1>0, GlobalsFields, BufferAssumption DEF Entries
<1>2. new \in Nat
  <2>1. CASE g.threshold + ThresholdStep <= ThresholdMax
    BY <2>1, <1>1 DEF Min
  <2>2. CASE ~(g.threshold + ThresholdStep <= ThresholdMax)
    BY <2>2, <1>1 DEF Min
  <2> QED
    BY <2>1, <2>2
<1>3. low \in Nat /\ (g.threshold > ThresholdDefault => low <= g.threshold)
  <2>1. CASE g.threshold - ThresholdStep <= ThresholdDefault
    <3>1. low = ThresholdDefault
      BY <2>1, <1>1 DEF Max
    <3> QED
      BY <3>1, <1>1
  <2>2. CASE ~(g.threshold - ThresholdStep <= ThresholdDefault)
    <3>1. low = g.threshold - ThresholdStep
      BY <2>2, <1>1 DEF Max
    <3> QED
      BY <3>1, <2>2, <1>1
  <2> QED
    BY <2>1, <2>2
<1>4. r = IF raise THEN IF g.threshold >= ThresholdMax THEN g
                        ELSE IF new <= grown.buf_size THEN [grown EXCEPT !.threshold = new]
                             ELSE grown
          ELSE IF g.threshold <= ThresholdDefault THEN g ELSE [g EXCEPT !.threshold = low]
  <2>1. CASE raise
    BY <2>1 DEF gc_adjust_threshold
  <2>2. CASE ~raise
    BY <2>2 DEF gc_adjust_threshold
  <2> QED
    BY <2>1, <2>2
<1>5. grown \in Globals
  BY GrowType
<1> HIDE DEF new, low, raise
<1>6. \E t \in Nat, z \in Nat :
         /\ r = [g EXCEPT !.threshold = t, !.buf_size = z]
         /\ g.buf_size <= z /\ z <= MaxBufSize /\ t <= z
  <2>1. g = [g EXCEPT !.threshold = g.threshold, !.buf_size = g.buf_size]
    BY DEF Globals
  <2>2. g.buf_size <= g.buf_size
    BY <1>1
  <2>3. CASE r = g
    BY <2>1, <2>2, <2>3, <1>1, Zenon
  <2>4. CASE ~raise /\ ~(g.threshold <= ThresholdDefault)
    <3>1. r = [g EXCEPT !.threshold = low]
      BY <2>4, <1>4
    <3>2. r = [g EXCEPT !.threshold = low, !.buf_size = g.buf_size]
      BY <3>1 DEF Globals
    <3>3. low <= g.buf_size
      BY <2>4, <1>1, <1>3
    <3> QED
      BY <3>2, <3>3, <2>2, <1>1, <1>3, Zenon
  <2>5. CASE raise /\ ~(g.threshold >= ThresholdMax)
    <3>0. r = IF new <= grown.buf_size THEN [grown EXCEPT !.threshold = new] ELSE grown
      BY <2>5, <1>4
    <3>1. CASE new > g.buf_size
      <4>1. grown = gc_grow_root_buffer(g)
        BY <3>1
      <4> HIDE DEF grown
      <4>2. ~grown.full
        BY <3>0, <1>5 DEF Globals
      <4>3. PICK z \in Nat : grown = [g EXCEPT !.buf_size = z] /\ g.buf_size < z /\ z <= MaxBufSize
        BY <4>1, <4>2, <1>1, GrowFacts
      <4>4. grown.buf_size = z
        BY <4>3 DEF Globals
      <4>5. CASE new <= z
        <5>1. r = [grown EXCEPT !.threshold = new]
          BY <4>4, <4>5, <3>0
        <5>2. r = [g EXCEPT !.threshold = new, !.buf_size = z]
          BY <4>3, <5>1 DEF Globals
        <5>3. g.buf_size <= z
          BY <4>3, <1>1
        <5> QED
          BY <4>3, <4>5, <5>2, <5>3, <1>2, Zenon
      <4>6. CASE ~(new <= z)
        <5>1. r = grown
          BY <4>4, <4>6, <3>0
        <5>2. r = [g EXCEPT !.threshold = g.threshold, !.buf_size = z]
          BY <4>3, <5>1 DEF Globals
        <5>3. g.buf_size <= z /\ g.threshold <= z
          BY <4>3, <1>1
        <5> QED
          BY <4>3, <5>2, <5>3, <1>1, Zenon
      <4> QED
        BY <4>5, <4>6
    <3>2. CASE ~(new > g.buf_size)
      <4>1. r = [g EXCEPT !.threshold = new] /\ new <= g.buf_size
        BY <3>0, <3>2, <1>1, <1>2
      <4>2. r = [g EXCEPT !.threshold = new, !.buf_size = g.buf_size]
        BY <4>1 DEF Globals
      <4> QED
        BY <4>1, <4>2, <2>2, <1>1, <1>2, Zenon
    <3> QED
      BY <3>1, <3>2
  <2> QED
    BY <2>3, <2>4, <2>5, <1>4
<1>7. PICK t \in Nat, z \in Nat :
         /\ r = [g EXCEPT !.threshold = t, !.buf_size = z]
         /\ g.buf_size <= z /\ z <= MaxBufSize /\ t <= z
  BY <1>6
<1>8. /\ r \in Globals /\ r.buf = g.buf /\ r.unused = g.unused /\ r.first_unused = g.first_unused
      /\ r.num_roots = g.num_roots /\ r.buf_size = z /\ r.threshold = t
      /\ r.active = g.active /\ r.protected = g.protected /\ r.enabled = g.enabled
  BY <1>7 DEF Globals
<1>9. Retagged(g, r)
  <2>1. \A i \in Used(g) : g.buf[i].tag \in {"root", "garbage", "dtor"}
    BY <1>0 DEF Entries
  <2> QED
    BY <2>1, <1>8 DEF Retagged
<1>10. BufOK(al, h, r)
  BY <1>7, <1>8, <1>9, BufSame
<1> QED
  BY <1>7, <1>8, <1>9, <1>10

-----------------------------------------------------------------------------
(* Counting references.                                                    *)

\* A node has a finite number of references; if it is 0, there is none.
LEMMA RefsFacts ==
    ASSUME NEW al \in SUBSET Node, NEW o, NEW hd, NEW st \in Seq(Frame), NEW n
    PROVE  /\ IsFiniteSet(Edges(al, o, n)) /\ Cardinality(Edges(al, o, n)) \in Nat
           /\ IsFiniteSet(Holders(st, n)) /\ Cardinality(Holders(st, n)) \in Nat
           /\ Refs(al, o, hd, st, n) \in Nat
           /\ Refs(al, o, hd, st, n) = 0 => /\ Edges(al, o, n) = {} /\ n \notin hd
                                            /\ Holders(st, n) = {}
<1>1. IsFiniteSet(Edges(al, o, n)) /\ Cardinality(Edges(al, o, n)) \in Nat
  <2>1. Edges(al, o, n) \in SUBSET Node
    BY DEF Edges
  <2> QED
    BY <2>1, KindAssumption, FS_Subset, FS_CardinalityType
<1>2. IsFiniteSet(Holders(st, n)) /\ Cardinality(Holders(st, n)) \in Nat
  <2>1. Holders(st, n) \in SUBSET (1..Len(st)) /\ Len(st) \in Nat
    BY DEF Holders
  <2> QED
    BY <2>1, IntervalSize, FS_Subset, FS_CardinalityType
<1>3. One(n \in hd) \in Nat /\ (One(n \in hd) = 0 <=> n \notin hd)
  BY DEF One
<1>4. Refs(al, o, hd, st, n) \in Nat
  BY <1>1, <1>2, <1>3 DEF Refs
<1>5. ASSUME Refs(al, o, hd, st, n) = 0
      PROVE  Edges(al, o, n) = {} /\ n \notin hd /\ Holders(st, n) = {}
  <2>1. Cardinality(Edges(al, o, n)) = 0 /\ One(n \in hd) = 0 /\ Cardinality(Holders(st, n)) = 0
    BY <1>1, <1>2, <1>3, <1>5 DEF Refs
  <2> QED
    BY <2>1, <1>1, <1>2, <1>3, FS_EmptySet
<1> QED
  BY <1>1, <1>2, <1>4, <1>5

\* One reference in the heap less.
LEMMA EdgesDrop ==
    ASSUME NEW al \in SUBSET Node, NEW o \in [Node -> SUBSET Node], NEW m \in al,
           NEW n \in o[m], NEW o2, \A k \in al : k # m => o2[k] = o[k],
           o2[m] = o[m] \ {n}, NEW y
    PROVE  Cardinality(Edges(al, o, y)) = Cardinality(Edges(al, o2, y)) + One(y = n)
<1>1. /\ \A k \in al : k # m => o2[k] = o[k]
      /\ o2[m] = o[m] \ {n}
  OBVIOUS
<1>2. IsFiniteSet(Edges(al, o, y)) /\ Cardinality(Edges(al, o, y)) \in Nat
  <2>1. Edges(al, o, y) \in SUBSET Node
    BY DEF Edges
  <2> QED
    BY <2>1, KindAssumption, FS_Subset, FS_CardinalityType
<1>3. CASE y = n
  <2>1. Edges(al, o2, y) = Edges(al, o, y) \ {m} /\ m \in Edges(al, o, y)
    BY <1>1, <1>3 DEF Edges
  <2>2. Cardinality(Edges(al, o, y) \ {m}) = Cardinality(Edges(al, o, y)) - 1
    BY <2>1, <1>2, FS_RemoveElement
  <2>3. One(y = n) = 1
    BY <1>3 DEF One
  <2>4. Cardinality(Edges(al, o2, y)) = Cardinality(Edges(al, o, y)) - 1
    BY <2>1, <2>2
  <2> QED
    BY <2>3, <2>4, <1>2
<1>4. CASE y # n
  <2>1. Edges(al, o2, y) = Edges(al, o, y)
    BY <1>1, <1>4 DEF Edges
  <2> QED
    BY <2>1, <1>2, <1>4 DEF One
<1> QED
  BY <1>3, <1>4

\* One reference in the heap more.
LEMMA EdgesAdd ==
    ASSUME NEW al \in SUBSET Node, NEW o \in [Node -> SUBSET Node], NEW m \in al,
           NEW n \in Node \ o[m], NEW o2 \in [Node -> SUBSET Node],
           \A k \in al : k # m => o2[k] = o[k], o2[m] = o[m] \union {n}, NEW y
    PROVE  Cardinality(Edges(al, o2, y)) = Cardinality(Edges(al, o, y)) + One(y = n)
<1>1. IsFiniteSet(Edges(al, o, y)) /\ Cardinality(Edges(al, o, y)) \in Nat
  <2>1. Edges(al, o, y) \in SUBSET Node
    BY DEF Edges
  <2> QED
    BY <2>1, KindAssumption, FS_Subset, FS_CardinalityType
<1>2. CASE y = n
  <2>1. Edges(al, o2, y) = Edges(al, o, y) \union {m} /\ m \notin Edges(al, o, y)
    BY <1>2 DEF Edges
  <2>2. Cardinality(Edges(al, o, y) \union {m}) = Cardinality(Edges(al, o, y)) + 1
    BY <2>1, <1>1, FS_AddElement
  <2>3. One(y = n) = 1
    BY <1>2 DEF One
  <2> QED
    BY <2>1, <2>2, <2>3
<1>3. CASE y # n
  <2>1. Edges(al, o2, y) = Edges(al, o, y)
    BY <1>3 DEF Edges
  <2> QED
    BY <2>1, <1>1, <1>3 DEF One
<1> QED
  BY <1>2, <1>3

\* A call more, and a call less: st2 is st with the call f in front.
Pushed(st, f, st2) ==
    /\ st2 \in Seq(Frame) /\ Len(st2) = Len(st) + 1 /\ st2[Len(st2)] = f
    /\ \A i \in 1..Len(st) : st2[i] = st[i]
\* A call counts once, for the node that it holds.
LEMMA HoldersPush ==
    ASSUME NEW st \in Seq(Frame), NEW f, NEW st2, Pushed(st, f, st2), NEW y
    PROVE  Cardinality(Holders(st2, y)) = Cardinality(Holders(st, y)) + One(Holds(f, y))
<1> DEFINE k == Len(st) + 1
<1>1. /\ Len(st2) = k /\ Len(st) \in Nat /\ st2[k] = f
      /\ \A i \in 1..Len(st) : st2[i] = st[i]
  BY DEF Pushed
<1>2. IsFiniteSet(Holders(st, y)) /\ Cardinality(Holders(st, y)) \in Nat
      /\ Holders(st, y) \in SUBSET (1..Len(st))
  <2>1. Holders(st, y) \in SUBSET (1..Len(st))
    BY DEF Holders
  <2> QED
    BY <2>1, <1>1, IntervalSize, FS_Subset, FS_CardinalityType
<1>3. k \notin Holders(st, y) /\ 1..Len(st2) = 1..Len(st) \union {k}
  BY <1>1, <1>2
<1> HIDE DEF k
<1>4. CASE Holds(f, y)
  <2>1. Holders(st2, y) = Holders(st, y) \union {k}
    BY <1>1, <1>3, <1>4 DEF Holders
  <2>2. Cardinality(Holders(st, y) \union {k}) = Cardinality(Holders(st, y)) + 1
    BY <1>2, <1>3, FS_AddElement
  <2> QED
    BY <2>1, <2>2, <1>4 DEF One
<1>5. CASE ~Holds(f, y)
  <2>1. Holders(st2, y) = Holders(st, y)
    BY <1>1, <1>3, <1>5 DEF Holders
  <2> QED
    BY <2>1, <1>2, <1>5 DEF One
<1> QED
  BY <1>4, <1>5

\* A call is pushed.
LEMMA PushAppend ==
    ASSUME NEW st \in Seq(Frame), NEW f \in Frame
    PROVE  Pushed(st, f, Append(st, f)) /\ Append(st, f) \in Seq(Frame)
BY AppendFacts DEF Pushed

\* Two calls are pushed, one after the other.
LEMMA PushTwo ==
    ASSUME NEW st \in Seq(Frame), NEW f \in Frame, NEW f2 \in Frame
    PROVE  \E s \in Seq(Frame) : Pushed(st, f, s) /\ Pushed(s, f2, st \o <<f, f2>>)
<1> DEFINE s == Append(st, f)
<1>1. Pushed(st, f, s) /\ s \in Seq(Frame)
  BY PushAppend
<1>2. st \o <<f, f2>> = Append(s, f2)
  OBVIOUS
<1> HIDE DEF s
<1>3. Pushed(s, f2, st \o <<f, f2>>)
  BY <1>1, <1>2, PushAppend
<1> QED
  BY <1>1, <1>3

\* The call on top returns.
LEMMA PushPop ==
    ASSUME NEW st \in Seq(Frame), st # <<>>
    PROVE  /\ SubSeq(st, 1, Len(st) - 1) \in Seq(Frame) /\ st[Len(st)] \in Frame
           /\ Pushed(SubSeq(st, 1, Len(st) - 1), st[Len(st)], st)
BY FrontFacts DEF Pushed

\* The counts when nothing has been taken off.
LEMMA RcPlain ==
    ASSUME NEW al \in SUBSET Node, NEW o, NEW hd, NEW h \in [Node -> Hdr],
           NEW st, NEW b, NEW x
    PROVE  RcOK(al, o, hd, h, st, b, x, {}) <=>
             \A n \in al : /\ h[n].rc >= Refs(al, o, hd, st, n) + One(n = x)
                           /\ ~b => h[n].rc = Refs(al, o, hd, st, n) + One(n = x)
<1>1. ASSUME NEW n \in al PROVE h[n].rc + Cardinality(Taken(al, o, h, {}, n)) = h[n].rc
  <2>1. Taken(al, o, h, {}, n) = {}
    BY DEF Taken
  <2>2. Cardinality(Taken(al, o, h, {}, n)) = 0 /\ h[n].rc \in Int
    BY <2>1, FS_EmptySet DEF Hdr
  <2> QED
    BY <2>2
<1> QED
  BY <1>1 DEF RcOK

\* Counts and references change together.
Gap(al, o, hd, h, st, x, n) == h[n].rc - Refs(al, o, hd, st, n) - One(n = x)
\* Counts stay right when every change of a count is one of the references.
LEMMA RcMove ==
    ASSUME NEW al \in SUBSET Node, NEW o, NEW hd, NEW h \in [Node -> Hdr],
           NEW st \in Seq(Frame), NEW b, NEW x, RcOK(al, o, hd, h, st, b, x, {}),
           NEW al2 \in SUBSET Node, NEW o2, NEW hd2, NEW h2 \in [Node -> Hdr],
           NEW st2 \in Seq(Frame), NEW x2,
           \A n \in al2 : /\ n \in al
                          /\ Gap(al2, o2, hd2, h2, st2, x2, n) = Gap(al, o, hd, h, st, x, n)
    PROVE  RcOK(al2, o2, hd2, h2, st2, b, x2, {})
<1>1. \A n \in al : /\ h[n].rc >= Refs(al, o, hd, st, n) + One(n = x)
                    /\ ~b => h[n].rc = Refs(al, o, hd, st, n) + One(n = x)
  BY RcPlain
<1>2. \A n \in al2 : /\ h[n].rc \in Int /\ h2[n].rc \in Int
                     /\ Refs(al, o, hd, st, n) \in Int /\ Refs(al2, o2, hd2, st2, n) \in Int
                     /\ One(n = x) \in Int /\ One(n = x2) \in Int
  <2>1. \A n \in al2 : Refs(al, o, hd, st, n) \in Nat /\ Refs(al2, o2, hd2, st2, n) \in Nat
    BY RefsFacts
  <2>2. \A n \in al2 : h[n].rc \in Int /\ h2[n].rc \in Int
    BY DEF Hdr
  <2>3. \A n \in al2 : One(n = x) \in Int /\ One(n = x2) \in Int
    BY DEF One
  <2> QED
    BY <2>1, <2>2, <2>3
<1>3. \A n \in al2 : /\ h2[n].rc >= Refs(al2, o2, hd2, st2, n) + One(n = x2)
                     /\ ~b => h2[n].rc = Refs(al2, o2, hd2, st2, n) + One(n = x2)
  <2> SUFFICES ASSUME NEW n \in al2
               PROVE  /\ h2[n].rc >= Refs(al2, o2, hd2, st2, n) + One(n = x2)
                      /\ ~b => h2[n].rc = Refs(al2, o2, hd2, st2, n) + One(n = x2)
    OBVIOUS
  <2> DEFINE p == h[n].rc
             q == Refs(al, o, hd, st, n)
             r == One(n = x)
             p2 == h2[n].rc
             q2 == Refs(al2, o2, hd2, st2, n)
             r2 == One(n = x2)
  <2>1. p2 - q2 - r2 = p - q - r /\ n \in al
    BY DEF Gap
  <2>2. p >= q + r /\ (~b => p = q + r)
    BY <1>1, <2>1
  <2>3. p \in Int /\ q \in Int /\ r \in Int /\ p2 \in Int /\ q2 \in Int /\ r2 \in Int
    BY <1>2
  <2> HIDE DEF p, q, r, p2, q2, r2
  <2>4. p2 >= q2 + r2 /\ (p = q + r => p2 = q2 + r2)
    BY <2>1, <2>2, <2>3
  <2> QED
    BY <2>2, <2>4 DEF p2, q2, r2
<1> QED
  BY <1>3, RcPlain

-----------------------------------------------------------------------------
(* Steps between the traversals: giving up a reference.                    *)

\* The headers agree but for the counts.
SameMarks(h, h2) ==
    \A y \in Node : /\ h2[y].color = h[y].color /\ h2[y].addr = h[y].addr
                    /\ h2[y].null = h[y].null /\ h2[y].freed = h[y].freed
SameFlags(h, h2) == SameMarks(h, h2) /\ \A y \in Node : h2[y].dtored = h[y].dtored

\* What is in force of the buffer when headers or flags change.
LEMMA BufHdr ==
    ASSUME NEW al \in SUBSET Node, NEW h \in [Node -> Hdr], NEW g \in Globals,
           BufOK(al, h, g), NEW h2 \in [Node -> Hdr],
           \A y \in Node : h2[y].addr = h[y].addr
    PROVE  BufOK(al, h2, g)
<1>1. /\ \A i \in Used(g) : g.buf[i].tag \in {"root", "garbage", "dtor"}
      /\ g.threshold <= g.buf_size /\ g.buf_size \in 2..MaxBufSize
  BY DEF BufOK, Entries
<1>2. Retagged(g, g)
  BY <1>1 DEF Retagged
<1>3. g.buf_size <= g.buf_size /\ g.buf_size <= MaxBufSize
  BY <1>1, BufferAssumption
<1> QED
  BY <1>1, <1>2, <1>3, BufSame

\* A destructor flag that changes disturbs none of these parts.
LEMMA FlagsFacts ==
    ASSUME NEW al, NEW o, NEW hd, NEW h, NEW g, NEW c, NEW st, NEW b, NEW rn, NEW x,
           Types(al, o, hd, h, g, c, st, rn), NEW h2 \in [Node -> Hdr], SameMarks(h, h2)
    PROVE  /\ Types(al, o, hd, h2, g, c, st, rn) /\ \A n \in Node : Dead(h2, n) = Dead(h, n)
           /\ BufOK(al, h, g) => BufOK(al, h2, g)
           /\ StackOK(al, h, g, c, st) => StackOK(al, h2, g, c, st)
           /\ EfreeOK(al, o, hd, h, st, x) /\ StackOK(al, h, g, c, st) => EfreeOK(al, o, hd, h2, st, x)
           /\ GarOK(al, o, hd, h, st, Gar(g)) => GarOK(al, o, hd, h2, st, Gar(g))
           /\ EmptyOK(al, o, h, g, c, st, b) => EmptyOK(al, o, h2, g, c, st, b)
           /\ SameFlags(h, h2) => \A G : DtorOK(al, h, G, rn) => DtorOK(al, h2, G, rn)
           /\ ColorOK(h, g) /\ BufOK(al, h, g) => ColorOK(h2, g)
<1>0. /\ al \in SUBSET Node /\ h \in [Node -> Hdr] /\ g \in Globals /\ st \in Seq(Frame)
      /\ \A n \in Arr : n \in Node
  BY KindAssumption DEF Types
<1>1. \A n \in Node : Dead(h2, n) = Dead(h, n)
  BY DEF SameMarks, Dead
<1>2. Types(al, o, hd, h2, g, c, st, rn)
  BY <1>0 DEF Types, SameMarks
<1>3. BufOK(al, h, g) => BufOK(al, h2, g)
  BY <1>0, BufHdr DEF SameMarks
<1>4. ASSUME StackOK(al, h, g, c, st) PROVE StackOK(al, h2, g, c, st)
  <2>1. \A k \in 1..Len(st) : st[k].fn = "free" => st[k].obj \in Node
    BY <1>0, <1>4 DEF StackOK
  <2>2. \A k \in 1..Len(st) : st[k].fn = "gc" /\ k < Len(st) => st[k + 1].obj \in Node
    <3> SUFFICES ASSUME NEW k \in 1..Len(st), st[k].fn = "gc", k < Len(st) PROVE st[k + 1].obj \in Node
      OBVIOUS
    <3>1. k + 1 \in 1..Len(st) /\ st[k + 1].fn \in {"gcdtor", "gcfree", "free"}
      BY <1>0, <1>4 DEF StackOK
    <3> QED
      BY <3>1, <1>0, <1>4 DEF StackOK
  <2> QED
    BY <2>1, <2>2, <1>1, <1>4 DEF StackOK, SameMarks
<1>5. ASSUME EfreeOK(al, o, hd, h, st, x), StackOK(al, h, g, c, st) PROVE EfreeOK(al, o, hd, h2, st, x)
  <2>1. \A k \in 1..Len(st) : st[k].fn = "efree" => st[k].obj \in Node
    BY <1>0, <1>5 DEF StackOK
  <2> QED
    BY <2>1, <1>1, <1>5 DEF EfreeOK, SameMarks
<1>6. GarOK(al, o, hd, h, st, Gar(g)) => GarOK(al, o, hd, h2, st, Gar(g))
  BY <1>0, <1>1 DEF GarOK
<1>7. EmptyOK(al, o, h, g, c, st, b) => EmptyOK(al, o, h2, g, c, st, b)
  BY <1>0, <1>1 DEF EmptyOK
<1>8. SameFlags(h, h2) => \A G : DtorOK(al, h, G, rn) => DtorOK(al, h2, G, rn)
  BY <1>0, <1>1 DEF DtorOK, SameFlags
<1>9. ASSUME ColorOK(h, g), BufOK(al, h, g) PROVE ColorOK(h2, g)
  <2>1. \A i \in Used(g) : g.buf[i].ref \in Node
    BY <1>0, <1>9 DEF BufOK, Entries
  <2> QED
    BY <2>1, <1>9 DEF ColorOK, SameMarks
<1> QED
  BY <1>1, <1>2, <1>3, <1>4, <1>5, <1>6, <1>7, <1>8, <1>9

\* A variable is dropped, its count still to be.
LEMMA DropHeld ==
    ASSUME NEW al, NEW o, NEW hd, NEW h, NEW g, NEW c, NEW st, NEW b, NEW rn,
           Steady(al, o, hd, h, g, c, st, b, rn, Null), NEW n \in hd,
           NEW hd2 \in SUBSET Node, \A y \in Node : y \in hd2 <=> y \in hd /\ y # n
    PROVE  Steady(al, o, hd2, h, g, c, st, b, rn, n)
<1>0. /\ Types(al, o, hd, h, g, c, st, rn) /\ RcOK(al, o, hd, h, st, b, Null, {})
      /\ Closed(al, o, hd, Null) /\ EfreeOK(al, o, hd, h, st, Null)
      /\ DeadOK(al, o, hd, h, st, Gar(g), Null) /\ GarOK(al, o, hd, h, st, Gar(g))
      /\ StackOK(al, h, g, c, st)
  BY DEF Steady
<1>1. /\ al \in SUBSET Node /\ h \in [Node -> Hdr] /\ st \in Seq(Frame) /\ Null \notin al
      /\ hd \in SUBSET Node
  BY <1>0, NullAssumption DEF Types
<1>2. \A y \in al : Lone(al, o, hd, st, Null, y) => Lone(al, o, hd2, st, n, y)
  BY <1>1 DEF Lone
<1>3. Types(al, o, hd2, h, g, c, st, rn)
  BY <1>0 DEF Types
<1>4. RcOK(al, o, hd2, h, st, b, n, {})
  <2>1. ASSUME NEW y \in al
        PROVE  Gap(al, o, hd2, h, st, n, y) = Gap(al, o, hd, h, st, Null, y)
    <3>0. h[y].rc \in Int
      BY <1>1 DEF Hdr
    <3>1. /\ Cardinality(Edges(al, o, y)) \in Nat /\ Cardinality(Holders(st, y)) \in Nat
      BY <1>1, RefsFacts
    <3>2. One(y \in hd2) + One(y = n) = One(y \in hd) + One(y = Null)
          /\ One(y \in hd2) \in Int /\ One(y = n) \in Int
          /\ One(y \in hd) \in Int /\ One(y = Null) \in Int
      BY <1>1 DEF One
    <3> QED
      BY <3>0, <3>1, <3>2 DEF Refs, Gap
  <2> QED
    BY <2>1, <1>0, <1>1, RcMove
<1>5. Closed(al, o, hd2, n)
  BY <1>0, <1>1 DEF Closed
<1>6. EfreeOK(al, o, hd2, h, st, n)
  <2>1. \A k \in 1..Len(st) : st[k].fn = "efree" => st[k].obj \in al
    BY <1>0 DEF StackOK
  <2> QED
    BY <2>1, <1>0, <1>2 DEF EfreeOK
<1>7. DeadOK(al, o, hd2, h, st, Gar(g), n)
  BY <1>0, <1>2 DEF DeadOK
<1>8. GarOK(al, o, hd2, h, st, Gar(g))
  BY <1>0, <1>1 DEF GarOK
<1> QED
  BY <1>3, <1>4, <1>5, <1>6, <1>7, <1>8 DEF Steady

\* A reference in the heap is dropped.
LEMMA DropEdge ==
    ASSUME NEW al, NEW o, NEW hd, NEW h, NEW g, NEW c, NEW st, NEW b, NEW rn,
           Steady(al, o, hd, h, g, c, st, b, rn, Null), NEW m \in al, NEW n \in o[m],
           NEW o2 \in [Node -> SUBSET Node], \A k \in Node : k # m => o2[k] = o[k],
           o2[m] = o[m] \ {n}
    PROVE  Steady(al, o2, hd, h, g, c, st, b, rn, n)
<1>0. /\ Types(al, o, hd, h, g, c, st, rn) /\ RcOK(al, o, hd, h, st, b, Null, {})
      /\ Closed(al, o, hd, Null) /\ EfreeOK(al, o, hd, h, st, Null)
      /\ DeadOK(al, o, hd, h, st, Gar(g), Null) /\ GarOK(al, o, hd, h, st, Gar(g))
      /\ ApartOK(al, o, c, st, Gar(g)) /\ EmptyOK(al, o, h, g, c, st, b) /\ BufOK(al, h, g)
      /\ StackOK(al, h, g, c, st)
  BY DEF Steady
<1>1. /\ al \in SUBSET Node /\ h \in [Node -> Hdr] /\ st \in Seq(Frame) /\ g \in Globals
      /\ o \in [Node -> SUBSET Node] /\ m \in Node /\ n \in Node /\ n \in al /\ Null \notin al
  BY <1>0, NullAssumption DEF Types, Closed
<1>2. \A y \in Node : o2[y] \subseteq o[y]
  BY <1>1
<1>3. \A y \in al : Lone(al, o, hd, st, Null, y) => Lone(al, o2, hd, st, n, y)
  BY <1>1, <1>2 DEF Lone
<1>4. Types(al, o2, hd, h, g, c, st, rn)
  BY <1>0, <1>2 DEF Types
<1>5. RcOK(al, o2, hd, h, st, b, n, {})
  <2>1. ASSUME NEW y \in al
        PROVE  Gap(al, o2, hd, h, st, n, y) = Gap(al, o, hd, h, st, Null, y)
    <3>0. h[y].rc \in Int
      BY <1>1 DEF Hdr
    <3>1. /\ Cardinality(Edges(al, o, y)) \in Nat /\ Cardinality(Holders(st, y)) \in Nat
          /\ Cardinality(Edges(al, o2, y)) \in Nat
      BY <1>1, RefsFacts
    <3>2. Cardinality(Edges(al, o, y)) = Cardinality(Edges(al, o2, y)) + One(y = n)
      <4>1. \A k \in al : k # m => o2[k] = o[k]
        BY <1>1
      <4> QED
        BY <1>1, <4>1, EdgesDrop
    <3>3. One(y = Null) = 0 /\ One(y = n) \in Int /\ One(y \in hd) \in Int
      BY <1>1 DEF One
    <3> QED
      BY <3>0, <3>1, <3>2, <3>3 DEF Refs, Gap
  <2> QED
    BY <2>1, <1>0, <1>1, RcMove
<1>6. Closed(al, o2, hd, n)
  BY <1>0, <1>1, <1>2 DEF Closed
<1>7. EfreeOK(al, o2, hd, h, st, n)
  <2>1. \A k \in 1..Len(st) : st[k].fn = "efree" => st[k].obj \in al
    BY <1>0 DEF StackOK
  <2>2. \A y \in Node : o[y] = {} => o2[y] = {}
    BY <1>2
  <2> QED
    BY <2>1, <2>2, <1>0, <1>1, <1>3 DEF EfreeOK
<1>8. DeadOK(al, o2, hd, h, st, Gar(g), n)
  BY <1>0, <1>3 DEF DeadOK
<1>9. GarOK(al, o2, hd, h, st, Gar(g))
  BY <1>0, <1>1, <1>2 DEF GarOK
<1>10. ApartOK(al, o2, c, st, Gar(g))
  BY <1>0, <1>1, <1>2 DEF ApartOK
<1>11. EmptyOK(al, o2, h, g, c, st, b)
  <2>1. \A i \in Used(g) : g.buf[i].ref \in Node
    BY <1>0, <1>1 DEF BufOK, Entries
  <2>2. \A y \in Node : o[y] = {} => o2[y] = {}
    BY <1>2
  <2> QED
    BY <2>1, <2>2, <1>0 DEF EmptyOK
<1> QED
  BY <1>4, <1>5, <1>6, <1>7, <1>8, <1>9, <1>10, <1>11 DEF Steady

\* A call returns that has kept its node alive.
Keepers == {"dtor", "del", "gcdtor", "gcfree", "full"}
\* The reference that the call had is now the one given up.
LEMMA PopKeeper ==
    ASSUME NEW al, NEW o, NEW hd, NEW h, NEW g, NEW c, NEW st, NEW b, NEW rn,
           Steady(al, o, hd, h, g, c, st, b, rn, Null),
           NEW st2 \in Seq(Frame), NEW f, Pushed(st2, f, st), f.fn \in Keepers
    PROVE  Steady(al, o, hd, h, g, c, st2, b, rn, f.obj)
<1> DEFINE n == f.obj
           k == Len(st)
<1>0. /\ Types(al, o, hd, h, g, c, st, rn) /\ RcOK(al, o, hd, h, st, b, Null, {})
      /\ Closed(al, o, hd, Null) /\ EfreeOK(al, o, hd, h, st, Null)
      /\ DeadOK(al, o, hd, h, st, Gar(g), Null) /\ GarOK(al, o, hd, h, st, Gar(g))
      /\ ApartOK(al, o, c, st, Gar(g)) /\ EmptyOK(al, o, h, g, c, st, b)
      /\ StackOK(al, h, g, c, st)
  BY DEF Steady
<1>1. /\ al \in SUBSET Node /\ h \in [Node -> Hdr] /\ st \in Seq(Frame) /\ Null \notin al
  BY <1>0, NullAssumption DEF Types
<1>2. /\ Len(st) = Len(st2) + 1 /\ Len(st2) \in Nat /\ k \in 1..Len(st) /\ st[k] = f
      /\ \A i \in 1..Len(st2) : st2[i] = st[i] /\ i \in 1..Len(st)
      /\ \A i \in 1..Len(st) : i # k => i \in 1..Len(st2)
      /\ f.fn # "gc" /\ f.fn # "free" /\ f.fn # "efree"
  BY DEF Pushed, Keepers
<1> HIDE DEF k
<1>3. n \in al
  BY <1>0, <1>2 DEF StackOK
<1>4. \A y \in al : Lone(al, o, hd, st, Null, y) => Lone(al, o, hd, st2, n, y)
  BY <1>1, <1>2 DEF Lone
<1>5. Types(al, o, hd, h, g, c, st2, rn)
  BY <1>0 DEF Types
<1>6. RcOK(al, o, hd, h, st2, b, n, {})
  <2>1. ASSUME NEW y \in al
        PROVE  Gap(al, o, hd, h, st2, n, y) = Gap(al, o, hd, h, st, Null, y)
    <3>0. h[y].rc \in Int
      BY <1>1 DEF Hdr
    <3>1. /\ Cardinality(Edges(al, o, y)) \in Nat /\ Cardinality(Holders(st, y)) \in Nat
          /\ Cardinality(Holders(st2, y)) \in Nat
      BY <1>1, RefsFacts
    <3>2. Cardinality(Holders(st, y)) = Cardinality(Holders(st2, y)) + One(Holds(f, y))
      BY HoldersPush
    <3>3. One(y = Null) = 0 /\ One(y = n) \in Int /\ One(y \in hd) \in Int
          /\ One(Holds(f, y)) = One(y = n)
      BY <1>1 DEF One, Holds, Keepers
    <3>4. Cardinality(Holders(st, y)) = Cardinality(Holders(st2, y)) + One(y = n)
      BY <3>2, <3>3
    <3> HIDE DEF n
    <3> QED
      BY <3>0, <3>1, <3>3, <3>4 DEF Refs, Gap
  <2> QED
    BY <2>1, <1>0, <1>1, RcMove
<1>7. Closed(al, o, hd, n)
  BY <1>0, <1>3 DEF Closed
<1>8. StackOK(al, h, g, c, st2)
  <2>1. \A i \in 1..Len(st2) : i > 1 => i - 1 \in 1..Len(st2) /\ st2[i - 1] = st[i - 1]
    BY <1>2
  <2>2. \A i \in 1..Len(st2) : i < Len(st2) => i + 1 \in 1..Len(st2) /\ st2[i + 1] = st[i + 1] /\ i < Len(st)
    BY <1>2
  <2>3. /\ \A i \in 1..Len(st2) :
             /\ st2[i].fn # "gc" => st2[i].obj \in al
             /\ st2[i].fn = "gc" => st2[i].obj = Null
             /\ st2[i].fn = "free" => /\ Dead(h, st2[i].obj) /\ i > 1
                                      /\ \/ /\ st2[i - 1].fn \in {"efree", "gcfree"}
                                            /\ st2[i - 1].obj = st2[i].obj
                                         \/ st2[i - 1].fn = "gc" /\ st2[i].obj \in Arr
    BY <2>1, <1>0, <1>2 DEF StackOK
  <2>4. /\ \A i, j \in 1..Len(st2) : st2[i].fn = "gc" /\ st2[j].fn = "gc" => i = j
        /\ \A i, j \in 1..Len(st2) : st2[i].fn = "gc" /\ st2[j].fn = "full" => j < i
        /\ c.pc \notin {"idle", "start", "finish"} => g.active
    BY <1>0, <1>2 DEF StackOK
  <2>5. (\E i \in 1..Len(st2) : st2[i].fn = "gc") <=> c.pc # "idle"
    <3>1. (\E i \in 1..Len(st2) : st2[i].fn = "gc") <=> (\E i \in 1..Len(st) : st[i].fn = "gc")
      BY <1>2
    <3> QED
      BY <3>1, <1>0 DEF StackOK
  <2>6. \A i \in 1..Len(st2) : st2[i].fn = "gc" /\ i < Len(st2) =>
          /\ \/ c.pc = "dtors" /\ st2[i + 1].fn = "gcdtor"
             \/ c.pc = "destroy" /\ st2[i + 1].fn \in {"gcfree", "free"}
          /\ h[st2[i + 1].obj].addr # 0
    BY <2>2, <1>0, <1>2 DEF StackOK
  <2> QED
    BY <2>3, <2>4, <2>5, <2>6 DEF StackOK
<1>9. EfreeOK(al, o, hd, h, st2, n)
  <2> SUFFICES ASSUME NEW i \in 1..Len(st2), st2[i].fn = "efree"
               PROVE  LET y == st2[i].obj
                      IN  /\ Dead(h, y) /\ Lone(al, o, hd, st2, n, y)
                          /\ \A j \in 1..Len(st2) : st2[j].obj = y =>
                                j = i \/ (j = i + 1 /\ st2[j].fn = "free")
                          /\ o[y] = {} \/ (i + 1 \in 1..Len(st2) /\ st2[i + 1].fn = "free")
                          /\ y \in Arr => h[y].addr = 0
    BY DEF EfreeOK
  <2> DEFINE y == st2[i].obj
  <2>1. i \in 1..Len(st) /\ st[i].fn = "efree" /\ y = st[i].obj /\ y \in al
    BY <1>0, <1>2 DEF StackOK
  <2>2. /\ Dead(h, y) /\ Lone(al, o, hd, st, Null, y)
        /\ \A j \in 1..Len(st) : st[j].obj = y => j = i \/ (j = i + 1 /\ st[j].fn = "free")
        /\ o[y] = {} \/ (i + 1 \in 1..Len(st) /\ st[i + 1].fn = "free")
        /\ y \in Arr => h[y].addr = 0
    BY <2>1, <1>0 DEF EfreeOK
  <2>3. Lone(al, o, hd, st2, n, y)
    BY <2>1, <2>2, <1>4
  <2> QED
    BY <2>2, <2>3, <1>2
<1>10. DeadOK(al, o, hd, h, st2, Gar(g), n)
  BY <1>0, <1>4 DEF DeadOK
<1>11. GarOK(al, o, hd, h, st2, Gar(g))
  BY <1>0, <1>2 DEF GarOK
<1>12. ApartOK(al, o, c, st2, Gar(g))
  <2> SUFFICES ASSUME NEW j, InGC(st2, j)
               PROVE  /\ \A i \in 1..(j - 1) : st2[i].obj \notin Gar(g)
                      /\ \A y \in Gar(g), m \in al : y \in o[m] =>
                           m \in Gar(g) \/ \E i \in 1..Len(st2) : i > j /\ st2[i].fn = "free" /\ st2[i].obj = m
    BY DEF ApartOK
  <2>1. InGC(st, j) /\ j \in 1..Len(st2)
    BY <1>2 DEF InGC
  <2>2. /\ \A i \in 1..(j - 1) : st[i].obj \notin Gar(g)
        /\ \A y \in Gar(g), m \in al : y \in o[m] =>
             m \in Gar(g) \/ \E i \in 1..Len(st) : i > j /\ st[i].fn = "free" /\ st[i].obj = m
    BY <2>1, <1>0 DEF ApartOK
  <2>3. \A i \in 1..(j - 1) : st2[i] = st[i]
    BY <2>1, <1>2
  <2> QED
    BY <2>2, <2>3, <1>2
<1>13. EmptyOK(al, o, h, g, c, st2, b)
  <2>1. \A y : (\E i \in 1..Len(st) : st[i].fn = "free" /\ st[i].obj = y)
               <=> (\E i \in 1..Len(st2) : st2[i].fn = "free" /\ st2[i].obj = y)
    BY <1>2
  <2>2. \A y : (\E i \in 1..Len(st) : st[i].fn = "efree" /\ st[i].obj = y)
               <=> (\E i \in 1..Len(st2) : st2[i].fn = "efree" /\ st2[i].obj = y)
    BY <1>2
  <2> QED
    BY <2>1, <2>2, <1>0 DEF EmptyOK
<1> HIDE DEF n
<1>14. Steady(al, o, hd, h, g, c, st2, b, rn, n)
  BY <1>5, <1>6, <1>7, <1>8, <1>9, <1>10, <1>11, <1>12, <1>13 DEF Steady
<1> QED
  BY <1>14 DEF n

\* The count follows.
LEMMA Decrement ==
    ASSUME NEW al, NEW o, NEW hd, NEW h, NEW g, NEW c, NEW st, NEW b, NEW rn, NEW n \in Node,
           Steady(al, o, hd, h, g, c, st, b, rn, n), NEW h2 \in [Node -> Hdr], SameFlags(h, h2),
           h2[n].rc = h[n].rc - 1, \A y \in Node : y # n => h2[y].rc = h[y].rc
    PROVE  Steady(al, o, hd, h2, g, c, st, b, rn, Null)
<1>0. /\ Types(al, o, hd, h, g, c, st, rn) /\ RcOK(al, o, hd, h, st, b, n, {})
      /\ Closed(al, o, hd, n) /\ EfreeOK(al, o, hd, h, st, n)
      /\ DeadOK(al, o, hd, h, st, Gar(g), n) /\ GarOK(al, o, hd, h, st, Gar(g))
      /\ EmptyOK(al, o, h, g, c, st, b) /\ StackOK(al, h, g, c, st) /\ BufOK(al, h, g)
      /\ ColorOK(h, g) /\ DtorOK(al, h, Gar(g), rn)
  BY DEF Steady
<1>1. /\ al \in SUBSET Node /\ h \in [Node -> Hdr] /\ st \in Seq(Frame) /\ Null \notin al
  BY <1>0, NullAssumption DEF Types
<1>2. /\ Types(al, o, hd, h2, g, c, st, rn) /\ \A y \in Node : Dead(h2, y) = Dead(h, y)
      /\ BufOK(al, h2, g) /\ StackOK(al, h2, g, c, st) /\ EfreeOK(al, o, hd, h2, st, n)
      /\ GarOK(al, o, hd, h2, st, Gar(g)) /\ EmptyOK(al, o, h2, g, c, st, b)
      /\ DtorOK(al, h2, Gar(g), rn) /\ ColorOK(h2, g)
  BY <1>0, FlagsFacts DEF SameFlags
<1>3. \A y \in al : Lone(al, o, hd, st, n, y) => Lone(al, o, hd, st, Null, y) /\ y # n
  BY <1>1 DEF Lone
<1>4. EfreeOK(al, o, hd, h2, st, Null)
  <2>1. \A k \in 1..Len(st) : st[k].fn = "efree" => st[k].obj \in al
    BY <1>0 DEF StackOK
  <2> QED
    BY <2>1, <1>2, <1>3 DEF EfreeOK
<1>5. DeadOK(al, o, hd, h2, st, Gar(g), Null)
  BY <1>0, <1>1, <1>2, <1>3 DEF DeadOK, SameFlags, SameMarks
<1>6. RcOK(al, o, hd, h2, st, b, Null, {})
  <2>1. ASSUME NEW y \in al
        PROVE  Gap(al, o, hd, h2, st, Null, y) = Gap(al, o, hd, h, st, n, y)
    <3>0. h[y].rc \in Int /\ h2[y].rc \in Int /\ y \in Node
      BY <1>1 DEF Hdr
    <3>1. Refs(al, o, hd, st, y) \in Nat
      BY <1>1, RefsFacts
    <3>2. One(y = Null) = 0 /\ One(y = n) \in Int /\ h2[y].rc = h[y].rc - One(y = n)
      BY <3>0, <1>1 DEF One
    <3> QED
      BY <3>0, <3>1, <3>2 DEF Gap
  <2> QED
    BY <2>1, <1>0, <1>1, RcMove
<1>7. Closed(al, o, hd, Null)
  BY <1>0 DEF Closed
<1> QED
  BY <1>2, <1>4, <1>5, <1>6, <1>7 DEF Steady

\* The stack when headers or allocation change.
LEMMA StackKeep ==
    ASSUME NEW al, NEW h, NEW g, NEW c, NEW st \in Seq(Frame), StackOK(al, h, g, c, st),
           NEW al2, NEW h2, NEW g2, g2.active = g.active,
           \A k \in 1..Len(st) : st[k].fn # "gc" =>
              /\ st[k].obj \in al2 /\ (Dead(h, st[k].obj) => Dead(h2, st[k].obj))
              /\ h[st[k].obj].addr # 0 => h2[st[k].obj].addr # 0
    PROVE  StackOK(al2, h2, g2, c, st)
<1>1. \A k \in 1..Len(st) : st[k].fn = "gc" /\ k < Len(st) =>
        /\ k + 1 \in 1..Len(st) /\ st[k + 1].fn # "gc" /\ h[st[k + 1].obj].addr # 0
  BY DEF StackOK
<1>2. \A k \in 1..Len(st) : st[k].fn = "gc" /\ k < Len(st) => h2[st[k + 1].obj].addr # 0
  BY <1>1
<1> QED
  BY <1>2 DEF StackOK

\* The stack with one call more.
LEMMA PushStack ==
    ASSUME NEW al, NEW h, NEW g, NEW c, NEW st \in Seq(Frame), StackOK(al, h, g, c, st),
           NEW f, NEW st2, Pushed(st, f, st2), f.fn # "gc", f.obj \in al,
           f.fn = "free" =>
              /\ Dead(h, f.obj) /\ Len(st) > 0
              /\ \/ st[Len(st)].fn \in {"efree", "gcfree"} /\ st[Len(st)].obj = f.obj
                 \/ st[Len(st)].fn = "gc" /\ f.obj \in Arr,
           f.fn = "full" => \A k \in 1..Len(st) : st[k].fn # "gc",
           Len(st) > 0 /\ st[Len(st)].fn = "gc" =>
              /\ \/ c.pc = "dtors" /\ f.fn = "gcdtor"
                 \/ c.pc = "destroy" /\ f.fn \in {"gcfree", "free"}
              /\ h[f.obj].addr # 0
    PROVE  StackOK(al, h, g, c, st2)
<1> DEFINE t == Len(st) + 1
<1>1. /\ Len(st2) = t /\ Len(st) \in Nat /\ st2[t] = f /\ t \in 1..t
      /\ \A i \in 1..Len(st) : st2[i] = st[i] /\ i \in 1..t /\ i < t
      /\ \A i \in 1..t : i # t => i \in 1..Len(st)
      /\ \A i \in 1..Len(st) : i > 1 => i - 1 \in 1..Len(st)
      /\ \A i \in 1..Len(st) : i < Len(st) => i + 1 \in 1..Len(st)
      /\ \A i \in 1..Len(st) : ~(i < Len(st)) => i = Len(st) /\ i + 1 = t /\ Len(st) > 0
      /\ Len(st) > 0 => Len(st) \in 1..Len(st) /\ t - 1 = Len(st) /\ t > 1
      /\ ~(t < t)
  BY DEF Pushed
<1> HIDE DEF t
<1>2. ASSUME NEW i \in 1..t
      PROVE  /\ st2[i].fn # "gc" => st2[i].obj \in al
             /\ st2[i].fn = "gc" => st2[i].obj = Null
             /\ st2[i].fn = "free" => /\ Dead(h, st2[i].obj) /\ i > 1
                                      /\ \/ /\ st2[i - 1].fn \in {"efree", "gcfree"}
                                            /\ st2[i - 1].obj = st2[i].obj
                                         \/ st2[i - 1].fn = "gc" /\ st2[i].obj \in Arr
  <2>1. CASE i = t
    BY <2>1, <1>1
  <2>2. CASE i # t
    <3>1. i \in 1..Len(st) /\ st2[i] = st[i] /\ (i > 1 => st2[i - 1] = st[i - 1])
      BY <2>2, <1>1
    <3>2. /\ st[i].fn # "gc" => st[i].obj \in al
          /\ st[i].fn = "gc" => st[i].obj = Null
          /\ st[i].fn = "free" => /\ Dead(h, st[i].obj) /\ i > 1
                                  /\ \/ /\ st[i - 1].fn \in {"efree", "gcfree"}
                                        /\ st[i - 1].obj = st[i].obj
                                     \/ st[i - 1].fn = "gc" /\ st[i].obj \in Arr
      BY <3>1 DEF StackOK
    <3> QED
      BY <3>1, <3>2
  <2> QED
    BY <2>1, <2>2
<1>3. /\ \A i, j \in 1..t : st2[i].fn = "gc" /\ st2[j].fn = "gc" => i = j
      /\ \A i, j \in 1..t : st2[i].fn = "gc" /\ st2[j].fn = "full" => j < i
      /\ c.pc \notin {"idle", "start", "finish"} => g.active
  <2>1. /\ \A i, j \in 1..Len(st) : st[i].fn = "gc" /\ st[j].fn = "gc" => i = j
        /\ \A i, j \in 1..Len(st) : st[i].fn = "gc" /\ st[j].fn = "full" => j < i
        /\ c.pc \notin {"idle", "start", "finish"} => g.active
    BY DEF StackOK
  <2>2. \A i \in 1..t : st2[i].fn = "gc" => i \in 1..Len(st) /\ st[i].fn = "gc"
    BY <1>1
  <2>3. \A i, j \in 1..t : st2[i].fn = "gc" /\ st2[j].fn = "full" => j \in 1..Len(st) /\ st[j].fn = "full"
    BY <2>2, <1>1
  <2> QED
    BY <2>1, <2>2, <2>3
<1>4. (\E i \in 1..t : st2[i].fn = "gc") <=> c.pc # "idle"
  <2>1. (\E i \in 1..t : st2[i].fn = "gc") <=> (\E i \in 1..Len(st) : st[i].fn = "gc")
    BY <1>1
  <2> QED
    BY <2>1 DEF StackOK
<1>5. ASSUME NEW i \in 1..t, st2[i].fn = "gc", i < t
      PROVE  /\ \/ c.pc = "dtors" /\ st2[i + 1].fn = "gcdtor"
                \/ c.pc = "destroy" /\ st2[i + 1].fn \in {"gcfree", "free"}
             /\ h[st2[i + 1].obj].addr # 0
  <2>1. i \in 1..Len(st) /\ st[i].fn = "gc"
    BY <1>1, <1>5
  <2>2. CASE i < Len(st)
    BY <2>1, <2>2, <1>1 DEF StackOK
  <2>3. CASE ~(i < Len(st))
    BY <2>1, <2>3, <1>1
  <2> QED
    BY <2>2, <2>3
<1> QED
  BY <1>1, <1>2, <1>3, <1>4, <1>5 DEF StackOK

NewRoot(al, h, g, n, h2, g2) ==
    \E i \in 1..(MaxBufSize - 1) : Entered(al, h, g, n, "root", "purple", h2, g2, i)
\* gc_possible_root makes its node a new root.
LEMMA EnterIsNew ==
    ASSUME NEW al \in SUBSET Node, NEW h \in [Node -> Hdr], NEW g \in Globals,
           BufOK(al, h, g), ~g.full, NEW n \in al, h[n].addr = 0,
           NEW h2, h2 = Enter(h, g, n, "root", "purple").hdr,
           NEW g2, g2 = Enter(h, g, n, "root", "purple").gc, ~g2.full
    PROVE  NewRoot(al, h, g, n, h2, g2)
<1> DEFINE root == "root"
           purple == "purple"
           e == Enter(h, g, n, root, purple)
<1>1. root \in {"root", "garbage", "dtor"} /\ purple \in Colors
  BY DEF Colors
<1>2. h2 = e.hdr /\ g2 = e.gc /\ ~e.gc.full
  OBVIOUS
<1>3. e = Enter(h, g, n, root, purple)
  OBVIOUS
<1> HIDE DEF root, purple, e
<1>4. \E i \in 1..(MaxBufSize - 1) : Entered(al, h, g, n, root, purple, e.hdr, e.gc, i)
  BY <1>1, <1>2, <1>3, EnterFacts
<1> QED
  BY <1>2, <1>4 DEF root, purple, NewRoot

\* A node becomes a possible root.
LEMMA EnterRoot ==
    ASSUME NEW al, NEW o, NEW hd, NEW h, NEW g, NEW c, NEW st, NEW b, NEW rn, NEW n \in al,
           Steady(al, o, hd, h, g, c, st, b, rn, Null), h[n].addr = 0,
           \A k \in 1..Len(st) : st[k].fn = "efree" => st[k].obj # n,
           NEW h2, NEW g2, NewRoot(al, h, g, n, h2, g2)
    PROVE  Steady(al, o, hd, h2, g2, c, st, b, rn, Null)
<1>0. /\ Types(al, o, hd, h, g, c, st, rn) /\ RcOK(al, o, hd, h, st, b, Null, {})
      /\ EfreeOK(al, o, hd, h, st, Null) /\ DeadOK(al, o, hd, h, st, Gar(g), Null)
      /\ GarOK(al, o, hd, h, st, Gar(g)) /\ EmptyOK(al, o, h, g, c, st, b)
      /\ StackOK(al, h, g, c, st) /\ BufOK(al, h, g) /\ ApartOK(al, o, c, st, Gar(g))
      /\ ColorOK(h, g) /\ DtorOK(al, h, Gar(g), rn) /\ TagOK(g, c)
  BY DEF Steady
<1>1. /\ al \in SUBSET Node /\ h \in [Node -> Hdr] /\ st \in Seq(Frame) /\ Null \notin al
      /\ g \in Globals /\ n \in Node /\ c \in Locals
  BY <1>0, NullAssumption DEF Types
<1>2. PICK i \in 1..(MaxBufSize - 1) : Entered(al, h, g, n, "root", "purple", h2, g2, i)
  BY DEF NewRoot
<1>20. /\ i \notin Used(g) /\ Used(g2) = Used(g) \union {i}
       /\ g2.buf[i].tag = "root" /\ g2.buf[i].ref = n
       /\ \A j \in 1..(MaxBufSize - 1) : j # i => g2.buf[j] = g.buf[j]
       /\ g2 \in Globals /\ BufOK(al, h2, g2) /\ g2.first_unused >= g.first_unused
       /\ g2.active = g.active
  BY <1>2 DEF Entered
<1>3. \A j \in Used(g) : g2.buf[j] = g.buf[j] /\ j \in 1..(MaxBufSize - 1)
  <2>1. \A j \in Used(g) : j \in 1..(MaxBufSize - 1)
    BY <1>0, <1>1, UsedFacts DEF BufOK
  <2> QED
    BY <2>1, <1>20
<1>4. /\ h2 \in [Node -> Hdr] /\ h2[n].addr # 0 /\ h2[n].color = "purple"
      /\ \A y \in Node : /\ h2[y].rc = h[y].rc /\ h2[y].null = h[y].null
                         /\ h2[y].freed = h[y].freed /\ h2[y].dtored = h[y].dtored
                         /\ y # n => h2[y] = h[y]
                         /\ h[y].addr # 0 => h2[y].addr # 0
  <2> DEFINE root == "root"
             purple == "purple"
  <2>1. Entered(al, h, g, n, root, purple, h2, g2, i) /\ purple \in Colors
    BY <1>2 DEF Colors
  <2> HIDE DEF root, purple
  <2>2. HdrEntered(h, n, purple, h2)
    BY <2>1, <1>1, EnteredHdr
  <2> QED
    BY <2>2 DEF purple, HdrEntered
<1>5. \A y \in Node : Dead(h2, y) = Dead(h, y)
  BY <1>4 DEF Dead
<1>6. Gar(g2) = Gar(g)
  BY <1>20, <1>3 DEF Gar, Tagged
<1>7. Types(al, o, hd, h2, g2, c, st, rn)
  BY <1>0, <1>20, <1>4, KindAssumption DEF Types
<1>8. StackOK(al, h2, g2, c, st)
  <2>1. \A k \in 1..Len(st) : st[k].fn # "gc" => st[k].obj \in al /\ st[k].obj \in Node
    BY <1>0, <1>1 DEF StackOK
  <2>2. \A k \in 1..Len(st) : st[k].fn # "gc" =>
              /\ st[k].obj \in al /\ (Dead(h, st[k].obj) => Dead(h2, st[k].obj))
              /\ h[st[k].obj].addr # 0 => h2[st[k].obj].addr # 0
    BY <2>1, <1>4, <1>5
  <2> QED
    BY <2>2, <1>0, <1>1, <1>20, StackKeep
<1>9. RcOK(al, o, hd, h2, st, b, Null, {})
  <2>1. \A y \in al : y \in al /\ Gap(al, o, hd, h2, st, Null, y) = Gap(al, o, hd, h, st, Null, y)
    BY <1>1, <1>4 DEF Gap
  <2> QED
    BY <2>1, <1>0, <1>1, <1>4, RcMove
<1>10. EfreeOK(al, o, hd, h2, st, Null)
  <2>1. \A k \in 1..Len(st) : st[k].fn = "efree" => st[k].obj \in al /\ st[k].obj \in Node
    BY <1>0, <1>1 DEF StackOK
  <2>2. ASSUME NEW k \in 1..Len(st), st[k].fn = "efree"
        PROVE  Dead(h2, st[k].obj) = Dead(h, st[k].obj) /\ h2[st[k].obj] = h[st[k].obj]
    BY <2>1, <2>2, <1>4, <1>5
  <2> QED
    BY <2>2, <1>0 DEF EfreeOK
<1>11. DeadOK(al, o, hd, h2, st, Gar(g2), Null)
  BY <1>0, <1>1, <1>4, <1>5, <1>6 DEF DeadOK
<1>12. GarOK(al, o, hd, h2, st, Gar(g2))
  BY <1>0, <1>1, <1>5, <1>6 DEF GarOK
<1>13. ApartOK(al, o, c, st, Gar(g2))
  BY <1>0, <1>6
<1>14. EmptyOK(al, o, h2, g2, c, st, b)
  <2>1. \A j \in Used(g2) : g2.buf[j].tag = "garbage" => j \in Used(g) /\ g2.buf[j] = g.buf[j]
    BY <1>20, <1>3
  <2>2. \A j \in Used(g) : j \in Used(g2) /\ g2.buf[j] = g.buf[j]
    BY <1>20, <1>3
  <2>3. \A y \in al : Dead(h2, y) = Dead(h, y)
    BY <1>1, <1>5
  <2> QED
    BY <2>1, <2>2, <2>3, <1>0 DEF EmptyOK
<1>15. DtorOK(al, h2, Gar(g2), rn)
  BY <1>0, <1>1, <1>4, <1>5, <1>6 DEF DtorOK
<1>16. ColorOK(h2, g2)
  <2>1. \A j \in Used(g) : g.buf[j].ref \in Node /\ g.buf[j].ref # n
    BY <1>0, <1>1, UsedFacts DEF BufOK
  <2>2. \A y \in Node : h2[y].color \in {"black", "purple"} /\ (h2[y].addr = 0 => h2[y].color = "black")
    BY <1>0, <1>4 DEF ColorOK
  <2>3. \A j \in Used(g) : h2[g2.buf[j].ref].color = IF g2.buf[j].tag = "garbage" THEN "black" ELSE "purple"
    BY <2>1, <1>0, <1>3, <1>4 DEF ColorOK
  <2> QED
    BY <2>2, <2>3, <1>20, <1>4 DEF ColorOK
<1>17. TagOK(g2, c)
  <2>1. c.end \in Nat /\ g.first_unused \in Nat /\ g2.first_unused \in Nat
    BY <1>1, <1>20, GlobalsFields DEF Locals
  <2>2. c.pc \in {"dtors", "destroy"} => c.idx <= c.end /\ c.end <= g2.first_unused
    BY <2>1, <1>0, <1>20 DEF TagOK
  <2> QED
    BY <2>2, <1>0, <1>20, <1>3 DEF TagOK
<1> QED
  BY <1>20, <1>7, <1>8, <1>9, <1>10, <1>11, <1>12, <1>13, <1>14, <1>15, <1>16, <1>17 DEF Steady

\* A count goes up before its reference is there.
LEMMA Increment ==
    ASSUME NEW al, NEW o, NEW hd, NEW h, NEW g, NEW c, NEW st, NEW b, NEW rn, NEW n \in al,
           Steady(al, o, hd, h, g, c, st, b, rn, Null), NEW h2 \in [Node -> Hdr], SameFlags(h, h2),
           h2[n].rc = h[n].rc + 1, \A y \in Node : y # n => h2[y].rc = h[y].rc,
           \A k \in 1..Len(st) : st[k].fn = "efree" => st[k].obj # n,
           Dead(h, n) => n \in Gar(g), h[n].freed => h[n].null
    PROVE  Steady(al, o, hd, h2, g, c, st, b, rn, n)
<1>0. /\ Types(al, o, hd, h, g, c, st, rn) /\ RcOK(al, o, hd, h, st, b, Null, {})
      /\ Closed(al, o, hd, Null) /\ EfreeOK(al, o, hd, h, st, Null)
      /\ DeadOK(al, o, hd, h, st, Gar(g), Null) /\ GarOK(al, o, hd, h, st, Gar(g))
      /\ EmptyOK(al, o, h, g, c, st, b) /\ StackOK(al, h, g, c, st) /\ BufOK(al, h, g)
      /\ ColorOK(h, g) /\ DtorOK(al, h, Gar(g), rn)
  BY DEF Steady
<1>1. /\ al \in SUBSET Node /\ h \in [Node -> Hdr] /\ st \in Seq(Frame) /\ Null \notin al
  BY <1>0, NullAssumption DEF Types
<1>2. /\ Types(al, o, hd, h2, g, c, st, rn) /\ \A y \in Node : Dead(h2, y) = Dead(h, y)
      /\ BufOK(al, h2, g) /\ StackOK(al, h2, g, c, st) /\ EfreeOK(al, o, hd, h2, st, Null)
      /\ GarOK(al, o, hd, h2, st, Gar(g)) /\ EmptyOK(al, o, h2, g, c, st, b)
      /\ DtorOK(al, h2, Gar(g), rn) /\ ColorOK(h2, g)
  BY <1>0, FlagsFacts DEF SameFlags
<1>3. \A y \in al : Lone(al, o, hd, st, Null, y) /\ y # n => Lone(al, o, hd, st, n, y)
  BY <1>1 DEF Lone
<1>4. EfreeOK(al, o, hd, h2, st, n)
  <2>1. \A k \in 1..Len(st) : st[k].fn = "efree" => st[k].obj \in al
    BY <1>0 DEF StackOK
  <2> QED
    BY <2>1, <1>2, <1>3 DEF EfreeOK
<1>5. DeadOK(al, o, hd, h2, st, Gar(g), n)
  <2> SUFFICES ASSUME NEW y \in al
               PROVE  /\ Dead(h2, y) => y \in Gar(g) \/ Lone(al, o, hd, st, n, y)
                      /\ h2[y].freed /\ ~h2[y].null => h2[y].rc >= 1 /\ Lone(al, o, hd, st, n, y)
    BY DEF DeadOK
  <2>1. /\ Dead(h, y) => y \in Gar(g) \/ Lone(al, o, hd, st, Null, y)
        /\ h[y].freed /\ ~h[y].null => h[y].rc >= 1 /\ Lone(al, o, hd, st, Null, y)
    BY <1>0 DEF DeadOK
  <2>2. /\ y \in Node /\ Dead(h2, y) = Dead(h, y) /\ h2[y].freed = h[y].freed
        /\ h2[y].null = h[y].null /\ (y # n => h2[y].rc = h[y].rc)
    BY <1>1, <1>2 DEF SameFlags, SameMarks
  <2> QED
    BY <2>1, <2>2, <1>3
<1>6. RcOK(al, o, hd, h2, st, b, n, {})
  <2>1. ASSUME NEW y \in al
        PROVE  Gap(al, o, hd, h2, st, n, y) = Gap(al, o, hd, h, st, Null, y)
    <3>0. h[y].rc \in Int /\ h2[y].rc \in Int /\ y \in Node
      BY <1>1 DEF Hdr
    <3>1. Refs(al, o, hd, st, y) \in Nat
      BY <1>1, RefsFacts
    <3>2. One(y = Null) = 0 /\ One(y = n) \in Int /\ h2[y].rc = h[y].rc + One(y = n)
      BY <3>0, <1>1 DEF One
    <3> QED
      BY <3>0, <3>1, <3>2 DEF Gap
  <2> QED
    BY <2>1, <1>0, <1>1, RcMove
<1>7. Closed(al, o, hd, n)
  BY <1>0 DEF Closed
<1> QED
  BY <1>0, <1>2, <1>4, <1>5, <1>6, <1>7 DEF Steady

\* A variable takes the reference.
LEMMA AddHeld ==
    ASSUME NEW al, NEW o, NEW hd, NEW h, NEW g, NEW c, NEW st, NEW b, NEW rn, NEW n \in al,
           Steady(al, o, hd, h, g, c, st, b, rn, n), n \notin hd, n \notin Gar(g),
           NEW hd2 \in SUBSET Node, \A y \in Node : y \in hd2 <=> y \in hd \/ y = n
    PROVE  Steady(al, o, hd2, h, g, c, st, b, rn, Null)
<1>0. /\ Types(al, o, hd, h, g, c, st, rn) /\ RcOK(al, o, hd, h, st, b, n, {})
      /\ Closed(al, o, hd, n) /\ EfreeOK(al, o, hd, h, st, n)
      /\ DeadOK(al, o, hd, h, st, Gar(g), n) /\ GarOK(al, o, hd, h, st, Gar(g))
      /\ StackOK(al, h, g, c, st)
  BY DEF Steady
<1>1. /\ al \in SUBSET Node /\ h \in [Node -> Hdr] /\ st \in Seq(Frame) /\ Null \notin al
      /\ hd \in SUBSET Node
  BY <1>0, NullAssumption DEF Types
<1>2. \A y \in al : Lone(al, o, hd, st, n, y) => Lone(al, o, hd2, st, Null, y)
  BY <1>1 DEF Lone
<1>3. Types(al, o, hd2, h, g, c, st, rn)
  BY <1>0 DEF Types
<1>4. RcOK(al, o, hd2, h, st, b, Null, {})
  <2>1. ASSUME NEW y \in al
        PROVE  Gap(al, o, hd2, h, st, Null, y) = Gap(al, o, hd, h, st, n, y)
    <3>0. h[y].rc \in Int
      BY <1>1 DEF Hdr
    <3>1. /\ Cardinality(Edges(al, o, y)) \in Nat /\ Cardinality(Holders(st, y)) \in Nat
      BY <1>1, RefsFacts
    <3>2. One(y \in hd2) + One(y = Null) = One(y \in hd) + One(y = n)
          /\ One(y \in hd2) \in Int /\ One(y = n) \in Int
          /\ One(y \in hd) \in Int /\ One(y = Null) \in Int
      BY <1>1 DEF One
    <3> QED
      BY <3>0, <3>1, <3>2 DEF Refs, Gap
  <2> QED
    BY <2>1, <1>0, <1>1, RcMove
<1>5. Closed(al, o, hd2, Null)
  BY <1>0, <1>1 DEF Closed
<1>6. EfreeOK(al, o, hd2, h, st, Null)
  <2>1. \A k \in 1..Len(st) : st[k].fn = "efree" => st[k].obj \in al
    BY <1>0 DEF StackOK
  <2> QED
    BY <2>1, <1>0, <1>2 DEF EfreeOK
<1>7. DeadOK(al, o, hd2, h, st, Gar(g), Null)
  BY <1>0, <1>2 DEF DeadOK
<1>8. GarOK(al, o, hd2, h, st, Gar(g))
  BY <1>0, <1>1 DEF GarOK
<1> QED
  BY <1>3, <1>4, <1>5, <1>6, <1>7, <1>8 DEF Steady

\* A node takes the reference.
LEMMA AddEdge ==
    ASSUME NEW al, NEW o, NEW hd, NEW h, NEW g, NEW c, NEW st, NEW b, NEW rn, NEW n \in al,
           Steady(al, o, hd, h, g, c, st, b, rn, n), NEW m \in al, n \notin o[m],
           ~Dead(h, m), m \notin Gar(g), n \notin Gar(g),
           NEW o2 \in [Node -> SUBSET Node], \A k \in Node : k # m => o2[k] = o[k],
           o2[m] = o[m] \union {n}
    PROVE  Steady(al, o2, hd, h, g, c, st, b, rn, Null)
<1>0. /\ Types(al, o, hd, h, g, c, st, rn) /\ RcOK(al, o, hd, h, st, b, n, {})
      /\ Closed(al, o, hd, n) /\ EfreeOK(al, o, hd, h, st, n)
      /\ DeadOK(al, o, hd, h, st, Gar(g), n) /\ GarOK(al, o, hd, h, st, Gar(g))
      /\ ApartOK(al, o, c, st, Gar(g)) /\ EmptyOK(al, o, h, g, c, st, b) /\ BufOK(al, h, g)
      /\ StackOK(al, h, g, c, st)
  BY DEF Steady
<1>1. /\ al \in SUBSET Node /\ h \in [Node -> Hdr] /\ st \in Seq(Frame) /\ g \in Globals
      /\ o \in [Node -> SUBSET Node] /\ m \in Node /\ n \in Node /\ Null \notin al
  BY <1>0, NullAssumption DEF Types
<1>2. \A y \in Node, k \in Node : k # n => (k \in o2[y] <=> k \in o[y])
  BY <1>1
<1>3. \A y \in al : Lone(al, o, hd, st, n, y) => Lone(al, o2, hd, st, Null, y)
  BY <1>1, <1>2 DEF Lone
<1>4. Types(al, o2, hd, h, g, c, st, rn)
  BY <1>0, <1>2 DEF Types
<1>5. RcOK(al, o2, hd, h, st, b, Null, {})
  <2>1. ASSUME NEW y \in al
        PROVE  Gap(al, o2, hd, h, st, Null, y) = Gap(al, o, hd, h, st, n, y)
    <3>0. h[y].rc \in Int
      BY <1>1 DEF Hdr
    <3>1. /\ Cardinality(Edges(al, o, y)) \in Nat /\ Cardinality(Holders(st, y)) \in Nat
          /\ Cardinality(Edges(al, o2, y)) \in Nat
      BY <1>1, RefsFacts
    <3>2. Cardinality(Edges(al, o2, y)) = Cardinality(Edges(al, o, y)) + One(y = n)
      <4>1. (\A k \in al : k # m => o2[k] = o[k]) /\ n \in Node \ o[m]
        BY <1>1
      <4> QED
        BY <1>1, <4>1, EdgesAdd
    <3>3. One(y = Null) = 0 /\ One(y = n) \in Int /\ One(y \in hd) \in Int
      BY <1>1 DEF One
    <3> QED
      BY <3>0, <3>1, <3>2, <3>3 DEF Refs, Gap
  <2> QED
    BY <2>1, <1>0, <1>1, RcMove
<1>6. Closed(al, o2, hd, Null)
  BY <1>0, <1>1 DEF Closed
<1>7. EfreeOK(al, o2, hd, h, st, Null)
  <2>1. \A k \in 1..Len(st) : st[k].fn = "efree" => st[k].obj \in al /\ st[k].obj # m
    BY <1>0 DEF StackOK, EfreeOK
  <2>2. \A y \in Node : y # m => o2[y] = o[y]
    BY <1>1
  <2>3. \A k \in 1..Len(st) : st[k].fn = "efree" => o2[st[k].obj] = o[st[k].obj]
    BY <2>1, <2>2, <1>1
  <2> QED
    BY <2>1, <2>3, <1>0, <1>1, <1>3 DEF EfreeOK
<1>8. DeadOK(al, o2, hd, h, st, Gar(g), Null)
  BY <1>0, <1>3 DEF DeadOK
<1>9. GarOK(al, o2, hd, h, st, Gar(g))
  BY <1>0, <1>1, <1>2 DEF GarOK
<1>10. ApartOK(al, o2, c, st, Gar(g))
  <2>1. \A y \in Gar(g), k \in al : y \in o2[k] => y \in o[k]
    BY <1>0, <1>1, <1>2 DEF GarOK
  <2> QED
    BY <2>1, <1>0, <1>1 DEF ApartOK
<1>11. EmptyOK(al, o2, h, g, c, st, b)
  <2>1. \A i \in Used(g) : g.buf[i].tag = "garbage" => g.buf[i].ref \in Node /\ g.buf[i].ref # m
    BY <1>0, <1>1 DEF BufOK, Entries, Gar, Tagged
  <2>2. \A i \in Used(g) : g.buf[i].tag = "garbage" => o2[g.buf[i].ref] = o[g.buf[i].ref]
    BY <2>1
  <2> QED
    BY <2>2, <1>0 DEF EmptyOK
<1> QED
  BY <1>0, <1>4, <1>5, <1>6, <1>7, <1>8, <1>9, <1>10, <1>11 DEF Steady

\* A call takes the reference.
LEMMA PushKeeper ==
    ASSUME NEW al, NEW o, NEW hd, NEW h, NEW g, NEW c, NEW st, NEW b, NEW rn, NEW n \in al,
           Steady(al, o, hd, h, g, c, st, b, rn, n),
           NEW st2 \in Seq(Frame), NEW f, Pushed(st, f, st2), f.fn \in Keepers, f.obj = n,
           n \in Gar(g) => f.fn = "gcfree", StackOK(al, h, g, c, st2)
    PROVE  Steady(al, o, hd, h, g, c, st2, b, rn, Null)
<1> DEFINE k == Len(st2)
<1>0. /\ Types(al, o, hd, h, g, c, st, rn) /\ RcOK(al, o, hd, h, st, b, n, {})
      /\ Closed(al, o, hd, n) /\ EfreeOK(al, o, hd, h, st, n)
      /\ DeadOK(al, o, hd, h, st, Gar(g), n) /\ GarOK(al, o, hd, h, st, Gar(g))
      /\ ApartOK(al, o, c, st, Gar(g)) /\ EmptyOK(al, o, h, g, c, st, b)
      /\ StackOK(al, h, g, c, st)
  BY DEF Steady
<1>1. /\ al \in SUBSET Node /\ h \in [Node -> Hdr] /\ st \in Seq(Frame) /\ Null \notin al
  BY <1>0, NullAssumption DEF Types
<1>2. /\ k = Len(st) + 1 /\ Len(st) \in Nat /\ k \in 1..Len(st2) /\ st2[k] = f
      /\ \A i \in 1..Len(st) : st2[i] = st[i] /\ i \in 1..Len(st2)
      /\ \A i \in 1..Len(st2) : i # k => i \in 1..Len(st)
      /\ f.fn # "gc" /\ f.fn # "free" /\ f.fn # "efree"
  BY <1>1 DEF Pushed, Keepers
<1> HIDE DEF k
<1>4. \A y \in al : Lone(al, o, hd, st, n, y) => Lone(al, o, hd, st2, Null, y)
  BY <1>1, <1>2 DEF Lone
<1>5. Types(al, o, hd, h, g, c, st2, rn)
  BY <1>0 DEF Types
<1>6. RcOK(al, o, hd, h, st2, b, Null, {})
  <2>1. ASSUME NEW y \in al
        PROVE  Gap(al, o, hd, h, st2, Null, y) = Gap(al, o, hd, h, st, n, y)
    <3>0. h[y].rc \in Int
      BY <1>1 DEF Hdr
    <3>1. /\ Cardinality(Edges(al, o, y)) \in Nat /\ Cardinality(Holders(st, y)) \in Nat
          /\ Cardinality(Holders(st2, y)) \in Nat
      BY <1>1, RefsFacts
    <3>2. Cardinality(Holders(st2, y)) = Cardinality(Holders(st, y)) + One(Holds(f, y))
      BY <1>1, HoldersPush
    <3>3. One(y = Null) = 0 /\ One(y = n) \in Int /\ One(y \in hd) \in Int
          /\ One(Holds(f, y)) = One(y = n)
      BY <1>1 DEF One, Holds, Keepers
    <3>4. Cardinality(Holders(st2, y)) = Cardinality(Holders(st, y)) + One(y = n)
      BY <3>2, <3>3
    <3> DEFINE E == Cardinality(Edges(al, o, y))
               H == Cardinality(Holders(st, y))
               H2 == Cardinality(Holders(st2, y))
               u == One(y \in hd)
               d == One(y = n)
               z == One(y = Null)
               r == h[y].rc
               p == Gap(al, o, hd, h, st, n, y)
               p2 == Gap(al, o, hd, h, st2, Null, y)
    <3>5. p2 = r - (E + u + H2) - z /\ p = r - (E + u + H) - d
      BY DEF Refs, Gap
    <3>6. /\ H2 = H + d /\ r \in Int /\ E \in Int /\ H \in Int /\ u \in Int /\ d \in Int /\ z = 0
      BY <3>0, <3>1, <3>3, <3>4
    <3> HIDE DEF E, H, H2, u, d, z, r, p, p2
    <3>7. p2 = p
      BY ONLY <3>5, <3>6
    <3> QED
      BY <3>7 DEF p, p2
  <2> QED
    BY <2>1, <1>0, <1>1, RcMove
<1>7. Closed(al, o, hd, Null)
  BY <1>0 DEF Closed
<1>9. EfreeOK(al, o, hd, h, st2, Null)
  <2> SUFFICES ASSUME NEW i \in 1..Len(st2), st2[i].fn = "efree"
               PROVE  LET y == st2[i].obj
                      IN  /\ Dead(h, y) /\ Lone(al, o, hd, st2, Null, y)
                          /\ \A j \in 1..Len(st2) : st2[j].obj = y =>
                                j = i \/ (j = i + 1 /\ st2[j].fn = "free")
                          /\ o[y] = {} \/ (i + 1 \in 1..Len(st2) /\ st2[i + 1].fn = "free")
                          /\ y \in Arr => h[y].addr = 0
    BY DEF EfreeOK
  <2> DEFINE y == st2[i].obj
  <2>1. i \in 1..Len(st) /\ st[i].fn = "efree" /\ y = st[i].obj /\ y \in al
    BY <1>0, <1>2 DEF StackOK
  <2>2. /\ Dead(h, y) /\ Lone(al, o, hd, st, n, y)
        /\ \A j \in 1..Len(st) : st[j].obj = y => j = i \/ (j = i + 1 /\ st[j].fn = "free")
        /\ o[y] = {} \/ (i + 1 \in 1..Len(st) /\ st[i + 1].fn = "free")
        /\ y \in Arr => h[y].addr = 0
    BY <2>1, <1>0 DEF EfreeOK
  <2>3. Lone(al, o, hd, st2, Null, y) /\ y # n
    BY <2>1, <2>2, <1>4 DEF Lone
  <2> QED
    BY <2>2, <2>3, <1>2
<1>10. DeadOK(al, o, hd, h, st2, Gar(g), Null)
  BY <1>0, <1>4 DEF DeadOK
<1>11. GarOK(al, o, hd, h, st2, Gar(g))
  BY <1>0, <1>2 DEF GarOK
<1>12. ApartOK(al, o, c, st2, Gar(g))
  <2> SUFFICES ASSUME NEW j, InGC(st2, j)
               PROVE  /\ \A i \in 1..(j - 1) : st2[i].obj \notin Gar(g)
                      /\ \A y \in Gar(g), m \in al : y \in o[m] =>
                           m \in Gar(g) \/ \E i \in 1..Len(st2) : i > j /\ st2[i].fn = "free" /\ st2[i].obj = m
    BY DEF ApartOK
  <2>1. InGC(st, j) /\ j \in 1..Len(st)
    BY <1>2 DEF InGC
  <2>2. /\ \A i \in 1..(j - 1) : st[i].obj \notin Gar(g)
        /\ \A y \in Gar(g), m \in al : y \in o[m] =>
             m \in Gar(g) \/ \E i \in 1..Len(st) : i > j /\ st[i].fn = "free" /\ st[i].obj = m
    BY <2>1, <1>0 DEF ApartOK
  <2>3. \A i \in 1..(j - 1) : st2[i] = st[i]
    BY <2>1, <1>2
  <2> QED
    BY <2>2, <2>3, <1>2
<1>13. EmptyOK(al, o, h, g, c, st2, b)
  <2>1. \A y : (\E i \in 1..Len(st) : st[i].fn = "free" /\ st[i].obj = y)
               <=> (\E i \in 1..Len(st2) : st2[i].fn = "free" /\ st2[i].obj = y)
    BY <1>2
  <2>2. \A y : (\E i \in 1..Len(st) : st[i].fn = "efree" /\ st[i].obj = y)
               <=> (\E i \in 1..Len(st2) : st2[i].fn = "efree" /\ st2[i].obj = y)
    BY <1>2
  <2> QED
    BY <2>1, <2>2, <1>0 DEF EmptyOK
<1> QED
  BY <1>5, <1>6, <1>7, <1>9, <1>10, <1>11, <1>12, <1>13 DEF Steady

\* The destructor of n is no longer due.
DtoredAt(h, rn, n, h2, rn2) ==
    /\ SameMarks(h, h2) /\ h2[n].dtored
    /\ \A y \in Node : h2[y].rc = h[y].rc /\ (y # n => h2[y].dtored = h[y].dtored)
    /\ \A y \in Node : y \in rn2 <=> y \in rn \/ y = n
\* The invariant when a node's destructor is marked as called.
LEMMA SetDtored ==
    ASSUME NEW al, NEW o, NEW hd, NEW h, NEW g, NEW c, NEW st, NEW b, NEW rn, NEW x, NEW n \in Node,
           Steady(al, o, hd, h, g, c, st, b, rn, x), NEW h2 \in [Node -> Hdr], NEW rn2 \in SUBSET Node,
           DtoredAt(h, rn, n, h2, rn2)
    PROVE  Steady(al, o, hd, h2, g, c, st, b, rn2, x)
<1> USE DEF DtoredAt
<1>0. /\ Types(al, o, hd, h, g, c, st, rn) /\ RcOK(al, o, hd, h, st, b, x, {})
      /\ EfreeOK(al, o, hd, h, st, x)
      /\ DeadOK(al, o, hd, h, st, Gar(g), x) /\ GarOK(al, o, hd, h, st, Gar(g))
      /\ EmptyOK(al, o, h, g, c, st, b) /\ StackOK(al, h, g, c, st) /\ BufOK(al, h, g)
      /\ ColorOK(h, g) /\ DtorOK(al, h, Gar(g), rn)
  BY DEF Steady
<1>1. /\ al \in SUBSET Node /\ h \in [Node -> Hdr] /\ st \in Seq(Frame)
  BY <1>0 DEF Types
<1>2. /\ Types(al, o, hd, h2, g, c, st, rn) /\ \A y \in Node : Dead(h2, y) = Dead(h, y)
      /\ BufOK(al, h2, g) /\ StackOK(al, h2, g, c, st) /\ EfreeOK(al, o, hd, h2, st, x)
      /\ GarOK(al, o, hd, h2, st, Gar(g)) /\ EmptyOK(al, o, h2, g, c, st, b) /\ ColorOK(h2, g)
  BY <1>0, FlagsFacts
<1>3. Types(al, o, hd, h2, g, c, st, rn2)
  BY <1>2 DEF Types
<1>4. DeadOK(al, o, hd, h2, st, Gar(g), x)
  BY <1>0, <1>1, <1>2 DEF DeadOK, SameMarks
<1>5. RcOK(al, o, hd, h2, st, b, x, {})
  <2>1. \A y \in al : y \in al /\ Gap(al, o, hd, h2, st, x, y) = Gap(al, o, hd, h, st, x, y)
    BY <1>1 DEF Gap
  <2> QED
    BY <2>1, <1>0, <1>1, RcMove
<1>6. DtorOK(al, h2, Gar(g), rn2)
  <2> SUFFICES ASSUME NEW y \in Dtor \intersect al
               PROVE  /\ h2[y].dtored => y \in rn2
                      /\ Dead(h2, y) \/ y \in Gar(g) => h2[y].dtored
    BY DEF DtorOK
  <2>1. /\ h[y].dtored => y \in rn
        /\ Dead(h, y) \/ y \in Gar(g) => h[y].dtored
    BY <1>0 DEF DtorOK
  <2> QED
    BY <2>1, <1>1, <1>2
<1> QED
  BY <1>2, <1>3, <1>4, <1>5, <1>6 DEF Steady

\* What the program can name is alive.
LEMMA Alive ==
    ASSUME NEW al, NEW o, NEW hd, NEW h, NEW g, NEW c, NEW st, NEW b, NEW rn,
           Steady(al, o, hd, h, g, c, st, b, rn, Null), NEW m,
           m \in hd \/ \E k \in 1..Len(st) : st[k].fn = "dtor" /\ st[k].obj = m
    PROVE  /\ m \in al /\ ~Dead(h, m) /\ m \notin Gar(g)
           /\ \A n \in o[m] : n \in al /\ ~Dead(h, n) /\ n \notin Gar(g)
<1>0. /\ Types(al, o, hd, h, g, c, st, rn) /\ Closed(al, o, hd, Null)
      /\ DeadOK(al, o, hd, h, st, Gar(g), Null) /\ GarOK(al, o, hd, h, st, Gar(g))
      /\ StackOK(al, h, g, c, st)
  BY DEF Steady
<1>1. m \in al
  BY <1>0 DEF Closed, StackOK
<1>2. m \notin Gar(g)
  BY <1>0 DEF GarOK
<1>3. ~Dead(h, m)
  BY <1>0, <1>1, <1>2 DEF DeadOK, Lone
<1>4. \A n \in o[m] : n \in al /\ n \notin Gar(g)
  BY <1>0, <1>1, <1>2, <1>3 DEF Closed, GarOK
<1>5. \A n \in o[m] : ~Dead(h, n)
  BY <1>0, <1>1, <1>4 DEF DeadOK, Lone
<1> QED
  BY <1>1, <1>2, <1>3, <1>4, <1>5

\* A node whose only reference has been given up is known to nothing.
LEMMA Unreferenced ==
    ASSUME NEW al, NEW o, NEW hd, NEW h, NEW g, NEW c, NEW st, NEW b, NEW rn, NEW n \in al,
           Steady(al, o, hd, h, g, c, st, b, rn, n), h[n].rc = 1, ~Dead(h, n)
    PROVE  /\ n \notin hd /\ \A m \in al : n \notin o[m]
           /\ \A k \in 1..Len(st) : st[k].obj # n
           /\ Refs(al, o, hd, st, n) = 0
<1>0. /\ Types(al, o, hd, h, g, c, st, rn) /\ RcOK(al, o, hd, h, st, b, n, {})
      /\ EfreeOK(al, o, hd, h, st, n) /\ StackOK(al, h, g, c, st)
  BY DEF Steady
<1>1. /\ al \in SUBSET Node /\ h \in [Node -> Hdr] /\ st \in Seq(Frame) /\ n # Null
  BY <1>0, NullAssumption DEF Types
<1>2. h[n].rc >= Refs(al, o, hd, st, n) + One(n = n)
  BY <1>0, <1>1, RcPlain
<1>3. Refs(al, o, hd, st, n) \in Nat /\ One(n = n) = 1
  BY <1>1, RefsFacts DEF One
<1>4. Refs(al, o, hd, st, n) = 0
  BY <1>2, <1>3
<1>5. Edges(al, o, n) = {} /\ n \notin hd /\ Holders(st, n) = {}
  BY <1>1, <1>4, RefsFacts
<1>6. ASSUME NEW k \in 1..Len(st), st[k].obj = n PROVE FALSE
  <2>0. st[k] \in Frame
    BY <1>1
  <2>1. st[k].fn \in Fns
    BY <2>0 DEF Frame
  <2>2. st[k].fn \notin {"dtor", "del", "gcdtor", "gcfree", "full"}
    BY <1>5, <1>6 DEF Holders, Holds
  <2>3. st[k].fn # "free" /\ st[k].fn # "gc"
    BY <1>0, <1>1, <1>6 DEF StackOK
  <2>4. st[k].fn # "efree"
    BY <1>0, <1>6 DEF EfreeOK
  <2> QED
    BY <2>1, <2>2, <2>3, <2>4 DEF Fns
<1> QED
  BY <1>4, <1>5, <1>6 DEF Edges

\* Such a node is destroyed, an array having left the buffer.
LEMMA FreeNode ==
    ASSUME NEW al, NEW o, NEW hd, NEW h, NEW g, NEW c, NEW st, NEW b, NEW rn, NEW n \in al,
           Steady(al, o, hd, h, g, c, st, b, rn, n), h[n].rc = 1, ~Dead(h, n),
           n \in Dtor => h[n].dtored,
           st # <<>> => st[Len(st)].fn # "gc",
           NEW h2 \in [Node -> Hdr], \A y \in Node : y # n => h2[y] = h[y],
           Dead(h2, n), h2[n].rc = One(n \notin Arr),
           n \in Arr => h2[n].addr = 0 /\ ~h2[n].freed,
           n \in Dtor => h2[n].dtored,
           NEW g2 \in Globals, g2.active = g.active, g2.first_unused = g.first_unused,
           BufOK(al, h2, g2), ColorOK(h2, g2),
           \A i \in Used(g2) : i \in Used(g) /\ g2.buf[i] = g.buf[i],
           \A i \in Used(g) : g.buf[i].ref # n => i \in Used(g2),
           NEW f, f = Call("efree", n), NEW f2, f2 = Call("free", n),
           NEW s \in Seq(Frame), Pushed(st, f, s), NEW st2 \in Seq(Frame), Pushed(s, f2, st2)
    PROVE  Steady(al, o, hd, h2, g2, c, st2, b, rn, Null)
<1> DEFINE L == Len(st)
<1>0. /\ Types(al, o, hd, h, g, c, st, rn) /\ RcOK(al, o, hd, h, st, b, n, {})
      /\ Closed(al, o, hd, n) /\ EfreeOK(al, o, hd, h, st, n)
      /\ DeadOK(al, o, hd, h, st, Gar(g), n) /\ GarOK(al, o, hd, h, st, Gar(g))
      /\ ApartOK(al, o, c, st, Gar(g)) /\ EmptyOK(al, o, h, g, c, st, b)
      /\ StackOK(al, h, g, c, st) /\ DtorOK(al, h, Gar(g), rn) /\ TagOK(g, c) /\ BufOK(al, h, g)
  BY DEF Steady
<1>1. /\ al \in SUBSET Node /\ h \in [Node -> Hdr] /\ st \in Seq(Frame) /\ Null \notin al
      /\ n \in Node
  BY <1>0, NullAssumption DEF Types
<1>2. /\ n \notin hd /\ \A m \in al : n \notin o[m]
      /\ \A k \in 1..Len(st) : st[k].obj # n
      /\ Refs(al, o, hd, st, n) = 0
  BY Unreferenced
<1>3. /\ L \in Nat /\ Len(s) = L + 1 /\ Len(st2) = L + 2
      /\ L + 1 \in 1..Len(st2) /\ L + 2 \in 1..Len(st2)
      /\ st2[L + 1] = f /\ st2[L + 2] = f2
      /\ \A i \in 1..L : st2[i] = st[i] /\ i \in 1..Len(st2)
      /\ \A i \in 1..Len(st2) : i = L + 1 \/ i = L + 2 \/ i \in 1..L
  BY <1>1 DEF Pushed
<1>4. /\ f.fn = "efree" /\ f.obj = n /\ f2.fn = "free" /\ f2.obj = n
  BY DEF Call
<1>5. \A y \in al : Lone(al, o, hd, st, n, y) => Lone(al, o, hd, st2, Null, y) /\ y # n
  BY <1>1, <1>3, <1>4 DEF Lone
<1>6. Lone(al, o, hd, st2, Null, n)
  BY <1>1, <1>2, <1>3, <1>4 DEF Lone
<1>7. \A y \in Node : y # n => Dead(h2, y) = Dead(h, y)
  BY DEF Dead
<1>8. /\ \A y \in Gar(g2) : y \in Gar(g)
      /\ \A y \in Gar(g) : y = n \/ y \in Gar(g2)
  BY DEF Gar, Tagged
<1>9. Types(al, o, hd, h2, g2, c, st2, rn)
  <2>1. \A y \in Arr : ~h2[y].freed
    BY <1>0, KindAssumption DEF Types
  <2> QED
    BY <2>1, <1>0 DEF Types
<1>10. StackOK(al, h2, g2, c, st2)
  <2>1. \A k \in 1..Len(st) : st[k].fn # "gc" => st[k].obj \in al /\ st[k].obj \in Node /\ st[k].obj # n
    BY <1>0, <1>1, <1>2 DEF StackOK
  <2>2. \A k \in 1..Len(st) : st[k].fn # "gc" =>
              /\ st[k].obj \in al /\ (Dead(h, st[k].obj) => Dead(h2, st[k].obj))
              /\ h[st[k].obj].addr # 0 => h2[st[k].obj].addr # 0
    BY <2>1, <1>7
  <2>3. StackOK(al, h2, g2, c, st)
    BY <2>2, <1>0, <1>1, StackKeep
  <2>4. Len(st) > 0 => st[Len(st)].fn # "gc"
    BY <1>1
  <2>5. StackOK(al, h2, g2, c, s)
    BY <2>3, <2>4, <1>1, <1>4, PushStack
  <2>6. Len(s) > 0 /\ s[Len(s)].fn = "efree" /\ s[Len(s)].obj = n
    BY <1>3, <1>4 DEF Pushed
  <2> QED
    BY <2>5, <2>6, <1>4, PushStack
<1>11. RcOK(al, o, hd, h2, st2, b, Null, {})
  <2>1. ASSUME NEW y \in al
        PROVE  Gap(al, o, hd, h2, st2, Null, y) = Gap(al, o, hd, h, st, n, y)
    <3>0. h[y].rc \in Int /\ h2[y].rc \in Int /\ y \in Node
      BY <1>1 DEF Hdr
    <3>1. /\ Cardinality(Edges(al, o, y)) \in Nat /\ Cardinality(Holders(st, y)) \in Nat
          /\ Cardinality(Holders(s, y)) \in Nat /\ Cardinality(Holders(st2, y)) \in Nat
      BY <1>1, RefsFacts
    <3>2. /\ Cardinality(Holders(s, y)) = Cardinality(Holders(st, y)) + One(Holds(f, y))
          /\ Cardinality(Holders(st2, y)) = Cardinality(Holders(s, y)) + One(Holds(f2, y))
      BY <1>1, HoldersPush
    <3>3. One(Holds(f2, y)) = 0 /\ One(Holds(f, y)) = One(y = n /\ n \notin Arr)
      BY <1>4 DEF One, Holds
    <3>4. One(y = Null) = 0 /\ One(y = n) \in Int /\ One(y \in hd) \in Int
          /\ One(y = n /\ n \notin Arr) \in Int
      BY <1>1 DEF One
    <3>5. h2[y].rc - One(y = n /\ n \notin Arr) = h[y].rc - One(y = n)
      <4>1. CASE y = n
        BY <4>1 DEF One
      <4>2. CASE y # n
        BY <4>2, <3>0 DEF One
      <4> QED
        BY <4>1, <4>2
    <3>6. Cardinality(Holders(st2, y)) = Cardinality(Holders(st, y)) + One(y = n /\ n \notin Arr)
      BY <3>1, <3>2, <3>3, <3>4
    <3> DEFINE q == One(y = n /\ n \notin Arr)
    <3>7. q \in Int /\ h2[y].rc - q = h[y].rc - One(y = n)
          /\ Cardinality(Holders(st2, y)) = Cardinality(Holders(st, y)) + q
      BY <3>4, <3>5, <3>6
    <3> DEFINE E == Cardinality(Edges(al, o, y))
               H == Cardinality(Holders(st, y))
               H2 == Cardinality(Holders(st2, y))
               u == One(y \in hd)
               d == One(y = n)
               z == One(y = Null)
               r == h[y].rc
               r2 == h2[y].rc
               p == Gap(al, o, hd, h, st, n, y)
               p2 == Gap(al, o, hd, h2, st2, Null, y)
    <3>8. p2 = r2 - (E + u + H2) - z /\ p = r - (E + u + H) - d
      BY DEF Refs, Gap
    <3>9. /\ q \in Int /\ r2 - q = r - d /\ H2 = H + q /\ r \in Int /\ r2 \in Int
          /\ E \in Int /\ H \in Int /\ u \in Int /\ d \in Int /\ z = 0
      BY <3>0, <3>1, <3>4, <3>7
    <3> HIDE DEF q, E, H, H2, u, d, z, r, r2, p, p2
    <3>10. p2 = p
      BY ONLY <3>8, <3>9
    <3> QED
      BY <3>10 DEF p, p2
  <2> QED
    BY <2>1, <1>0, <1>1, RcMove
<1>12. Closed(al, o, hd, Null)
  BY <1>0 DEF Closed
<1>13. EfreeOK(al, o, hd, h2, st2, Null)
  <2> SUFFICES ASSUME NEW i \in 1..Len(st2), st2[i].fn = "efree"
               PROVE  LET y == st2[i].obj
                      IN  /\ Dead(h2, y) /\ Lone(al, o, hd, st2, Null, y)
                          /\ \A j \in 1..Len(st2) : st2[j].obj = y =>
                                j = i \/ (j = i + 1 /\ st2[j].fn = "free")
                          /\ o[y] = {} \/ (i + 1 \in 1..Len(st2) /\ st2[i + 1].fn = "free")
                          /\ y \in Arr => h2[y].addr = 0
    BY DEF EfreeOK
  <2>1. CASE i = L + 1
    BY <2>1, <1>2, <1>3, <1>4, <1>6
  <2>2. CASE i # L + 1
    <3> DEFINE y == st2[i].obj
    <3>1. i \in 1..L /\ st[i].fn = "efree" /\ y = st[i].obj /\ y \in al
      BY <2>2, <1>0, <1>3, <1>4 DEF StackOK
    <3>2. /\ Dead(h, y) /\ Lone(al, o, hd, st, n, y)
          /\ \A j \in 1..Len(st) : st[j].obj = y => j = i \/ (j = i + 1 /\ st[j].fn = "free")
          /\ o[y] = {} \/ (i + 1 \in 1..Len(st) /\ st[i + 1].fn = "free")
          /\ y \in Arr => h[y].addr = 0
      BY <3>1, <1>0 DEF EfreeOK
    <3>3. /\ Lone(al, o, hd, st2, Null, y) /\ y # n /\ Dead(h2, y) /\ h2[y] = h[y]
      BY <3>1, <3>2, <1>1, <1>5, <1>7
    <3>4. \A j \in 1..Len(st2) : st2[j].obj = y => j = i \/ (j = i + 1 /\ st2[j].fn = "free")
      <4> HIDE DEF y
      <4> QED
        BY ONLY <3>2, <3>3, <1>3, <1>4
    <3>5. o[y] = {} \/ (i + 1 \in 1..Len(st2) /\ st2[i + 1].fn = "free")
      <4> HIDE DEF y
      <4> QED
        BY ONLY <3>2, <1>3
    <3> QED
      BY <3>2, <3>3, <3>4, <3>5
  <2> QED
    BY <2>1, <2>2
<1>14. DeadOK(al, o, hd, h2, st2, Gar(g2), Null)
  <2> SUFFICES ASSUME NEW y \in al
               PROVE  /\ Dead(h2, y) => y \in Gar(g2) \/ Lone(al, o, hd, st2, Null, y)
                      /\ h2[y].freed /\ ~h2[y].null => h2[y].rc >= 1 /\ Lone(al, o, hd, st2, Null, y)
    BY DEF DeadOK
  <2>1. CASE y = n
    <3>1. n \notin Arr => h2[n].rc = 1
      BY DEF One
    <3> QED
      BY <2>1, <3>1, <1>6
  <2>2. CASE y # n
    <3>1. /\ Dead(h, y) => y \in Gar(g) \/ Lone(al, o, hd, st, n, y)
          /\ h[y].freed /\ ~h[y].null => h[y].rc >= 1 /\ Lone(al, o, hd, st, n, y)
      BY <1>0 DEF DeadOK
    <3>2. h2[y] = h[y] /\ Dead(h2, y) = Dead(h, y)
      BY <2>2, <1>1, <1>7
    <3> QED
      BY <2>2, <3>1, <3>2, <1>5, <1>8
  <2> QED
    BY <2>1, <2>2
<1>15. GarOK(al, o, hd, h2, st2, Gar(g2))
  <2> SUFFICES ASSUME NEW y \in Gar(g2)
               PROVE  /\ y \in al /\ y \notin hd
                      /\ \A k \in 1..Len(st2) : st2[k].obj = y => st2[k].fn \in {"gcfree", "free", "efree"}
                      /\ \A m \in al : y \in o[m] => m \in Gar(g2) \/ Dead(h2, m)
    BY DEF GarOK
  <2>1. /\ y \in al /\ y \notin hd
        /\ \A k \in 1..Len(st) : st[k].obj = y => st[k].fn \in {"gcfree", "free", "efree"}
        /\ \A m \in al : y \in o[m] => m \in Gar(g) \/ Dead(h, m)
    BY <1>0, <1>8 DEF GarOK
  <2>2. \A k \in 1..Len(st2) : st2[k].obj = y => st2[k].fn \in {"gcfree", "free", "efree"}
    BY ONLY <2>1, <1>3, <1>4
  <2>3. \A m \in al : y \in o[m] => m \in Gar(g2) \/ Dead(h2, m)
    BY <2>1, <1>1, <1>7, <1>8
  <2> QED
    BY ONLY <2>1, <2>2, <2>3
<1>16. ApartOK(al, o, c, st2, Gar(g2))
  <2> SUFFICES ASSUME NEW j, InGC(st2, j)
               PROVE  /\ \A i \in 1..(j - 1) : st2[i].obj \notin Gar(g2)
                      /\ \A y \in Gar(g2), m \in al : y \in o[m] =>
                           m \in Gar(g2) \/ \E i \in 1..Len(st2) : i > j /\ st2[i].fn = "free" /\ st2[i].obj = m
    BY DEF ApartOK
  <2>1. InGC(st, j) /\ j \in 1..Len(st) /\ L + 2 > j
    BY <1>3, <1>4 DEF InGC
  <2>2. /\ \A i \in 1..(j - 1) : st[i].obj \notin Gar(g)
        /\ \A y \in Gar(g), m \in al : y \in o[m] =>
             m \in Gar(g) \/ \E i \in 1..Len(st) : i > j /\ st[i].fn = "free" /\ st[i].obj = m
    BY <2>1, <1>0 DEF ApartOK
  <2>3. \A i \in 1..(j - 1) : st2[i] = st[i]
    BY <2>1, <1>3
  <2>4. \A m : m = n => \E i \in 1..Len(st2) : i > j /\ st2[i].fn = "free" /\ st2[i].obj = m
    BY <2>1, <1>3, <1>4
  <2>5. \A y \in Gar(g2), m \in al : y \in o[m] =>
             m \in Gar(g) \/ \E i \in 1..Len(st2) : i > j /\ st2[i].fn = "free" /\ st2[i].obj = m
    BY <2>2, <1>3, <1>8
  <2> QED
    BY <2>2, <2>3, <2>4, <2>5, <1>8
<1>17. EmptyOK(al, o, h2, g2, c, st2, b)
  <2>1. \A y : (\E i \in 1..Len(st) : st[i].fn = "efree" /\ st[i].obj = y)
               => (\E i \in 1..Len(st2) : st2[i].fn = "efree" /\ st2[i].obj = y)
    BY <1>3
  <2>5. \A y : (\E i \in 1..Len(st) : st[i].fn = "free" /\ st[i].obj = y)
               => (\E i \in 1..Len(st2) : st2[i].fn = "free" /\ st2[i].obj = y)
    BY <1>3
  <2>2. \E i \in 1..Len(st2) : st2[i].fn = "efree" /\ st2[i].obj = n
    BY <1>3, <1>4
  <2>3. ASSUME ~b, NEW y \in al, Dead(h2, y), y # n
        PROVE  \/ \E k \in 1..Len(st2) : st2[k].fn = "efree" /\ st2[k].obj = y
               \/ c.pc = "destroy" /\ \E i \in Used(g2) :
                      i < c.idx /\ g2.buf[i].tag = "garbage" /\ g2.buf[i].ref = y
    <3>1. \/ \E k \in 1..Len(st) : st[k].fn = "efree" /\ st[k].obj = y
          \/ c.pc = "destroy" /\ \E i \in Used(g) :
                      i < c.idx /\ g.buf[i].tag = "garbage" /\ g.buf[i].ref = y
      BY <2>3, <1>0, <1>1, <1>7 DEF EmptyOK
    <3>2. (\E k \in 1..Len(st) : st[k].fn = "efree" /\ st[k].obj = y)
            => \E k \in 1..Len(st2) : st2[k].fn = "efree" /\ st2[k].obj = y
      BY ONLY <2>1
    <3>3. (\E i \in Used(g) : i < c.idx /\ g.buf[i].tag = "garbage" /\ g.buf[i].ref = y)
            => \E i \in Used(g2) : i < c.idx /\ g2.buf[i].tag = "garbage" /\ g2.buf[i].ref = y
      BY <2>3
    <3> QED
      BY ONLY <3>1, <3>2, <3>3
  <2>4. ASSUME ~b, NEW i \in Used(g2), c.pc = "destroy", i < c.idx, g2.buf[i].tag = "garbage"
        PROVE  o[g2.buf[i].ref] = {}
               \/ \E k \in 1..Len(st2) : st2[k].fn = "free" /\ st2[k].obj = g2.buf[i].ref
    <3>1. i \in Used(g) /\ g2.buf[i] = g.buf[i]
      OBVIOUS
    <3>2. o[g.buf[i].ref] = {} \/ \E k \in 1..Len(st) : st[k].fn = "free" /\ st[k].obj = g.buf[i].ref
      BY <3>1, <2>4, <1>0 DEF EmptyOK
    <3> DEFINE y == g.buf[i].ref
    <3>3. o[y] = {} \/ \E k \in 1..Len(st) : st[k].fn = "free" /\ st[k].obj = y
      BY <3>2
    <3>4. y = g2.buf[i].ref
      BY <3>1
    <3> HIDE DEF y
    <3>5. o[y] = {} \/ \E k \in 1..Len(st2) : st2[k].fn = "free" /\ st2[k].obj = y
      BY ONLY <3>3, <2>5
    <3> QED
      BY <3>4, <3>5
  <2> QED
    BY <2>2, <2>3, <2>4 DEF EmptyOK
<1>18. DtorOK(al, h2, Gar(g2), rn)
  <2> SUFFICES ASSUME NEW y \in Dtor \intersect al
               PROVE  /\ h2[y].dtored => y \in rn
                      /\ Dead(h2, y) \/ y \in Gar(g2) => h2[y].dtored
    BY DEF DtorOK
  <2>1. /\ h[y].dtored => y \in rn
        /\ Dead(h, y) \/ y \in Gar(g) => h[y].dtored
    BY <1>0 DEF DtorOK
  <2> QED
    BY <2>1, <1>1, <1>7, <1>8
<1>19. TagOK(g2, c)
  BY <1>0 DEF TagOK
<1> QED
  BY <1>9, <1>10, <1>11, <1>12, <1>13, <1>14, <1>15, <1>16, <1>17, <1>18, <1>19 DEF Steady

\* The headers with one count changed.
Counted(h, n, d, h1) ==
    /\ h1 \in [Node -> Hdr] /\ SameFlags(h, h1) /\ h1[n].rc = h[n].rc + d
    /\ \A y \in Node : y # n => h1[y] = h[y]
    /\ \A y \in Node : y # n => h1[y].rc = h[y].rc
\* What changing one count does to the headers.
LEMMA CountFacts ==
    ASSUME NEW h \in [Node -> Hdr], NEW n \in Node, NEW d \in Int,
           NEW h1, h1 = [h EXCEPT ![n].rc = @ + d]
    PROVE  Counted(h, n, d, h1)
<1>1. h[n] \in Hdr /\ h[n].rc \in Int
  BY DEF Hdr
<1> DEFINE r == h[n].rc + d
<1>2. r \in Int
  BY <1>1
<1> HIDE DEF r
<1>3. h1[n] = [h[n] EXCEPT !.rc = r] /\ \A y \in Node : y # n => h1[y] = h[y]
  BY DEF r
<1>4. h1 = [y \in Node |-> h1[y]]
  OBVIOUS
<1>5. h1[n] \in Hdr /\ h1[n].rc = r /\ h1[n].color = h[n].color /\ h1[n].addr = h[n].addr
      /\ h1[n].null = h[n].null /\ h1[n].freed = h[n].freed /\ h1[n].dtored = h[n].dtored
  BY <1>1, <1>2, <1>3 DEF Hdr
<1>6. \A y \in Node : h1[y] \in Hdr
  BY <1>3, <1>5
<1> QED
  BY <1>3, <1>4, <1>5, <1>6 DEF SameFlags, SameMarks, r, Counted

\* A node has an entry as soon as its header says so, and the buffer without it.
Unbuffered(al2, h2, g, n, g2) ==
    /\ g2 \in Globals /\ g2.active = g.active /\ g2.first_unused = g.first_unused
    /\ g2.full = g.full /\ BufOK(al2, h2, g2) /\ ColorOK(h2, g2)
    /\ \A i \in Used(g2) : i \in Used(g) /\ g2.buf[i] = g.buf[i] /\ g.buf[i].ref # n
    /\ \A i \in Used(g) : g.buf[i].ref # n => i \in Used(g2)
\* GC_REMOVE_FROM_BUFFER, given the buffer and the colors.
LEMMA UnbufferIn ==
    ASSUME NEW al \in SUBSET Node, NEW h \in [Node -> Hdr], NEW g \in Globals, NEW n \in al,
           BufOK(al, h, g), ColorOK(h, g),
           NEW h2 \in [Node -> Hdr], \A y \in Node : y # n => h2[y] = h[y],
           h2[n].addr = 0, h2[n].color = "black",
           NEW al2 \in SUBSET Node, \A y \in al : y # n => y \in al2,
           NEW g2, g2 = IF Info(h[n]) THEN gc_remove_from_roots(g, Decompress(h, g, n)) ELSE g
    PROVE  Unbuffered(al2, h2, g, n, g2)
<1>0. BufOK(al, h, g) /\ ColorOK(h, g)
  OBVIOUS
<1>1. /\ al \in SUBSET Node /\ h \in [Node -> Hdr] /\ g \in Globals /\ n \in Node
  OBVIOUS
<1>2. /\ \A j \in Used(g) : /\ g.buf[j].ref \in Node /\ h[g.buf[j].ref].addr # 0
                            /\ j \in 1..(MaxBufSize - 1)
      /\ \A i, j \in Used(g) : g.buf[i].ref = g.buf[j].ref => i = j
      /\ h[n].addr # 0 => \E i \in Used(g) : g.buf[i].ref = n
      /\ Entries(al, h, g)
  <2>1. Entries(al, h, g)
    BY <1>0 DEF BufOK
  <2>2. /\ \A j \in Used(g) : g.buf[j].ref \in Node /\ h[g.buf[j].ref].addr # 0
        /\ Used(g) \in SUBSET (1..(g.first_unused - 1))
        /\ \A i \in 1..(g.first_unused - 1) : i \in 1..(MaxBufSize - 1)
    BY <2>1, <1>1, UsedFacts
  <2> QED
    BY <2>1, <2>2, <1>1 DEF Entries
<1>3. Info(h[n]) <=> h[n].addr # 0
  BY <1>0, <1>1 DEF Info, ColorOK
<1>4. CASE h[n].addr = 0
  <2>1. g2 = g
    BY <1>3, <1>4
  <2>2. \A y \in Node : h2[y].addr = h[y].addr
    BY <1>4
  <2>3. \A i \in Used(g) : g.buf[i].ref # n
    BY <1>2, <1>4
  <2>4. Retagged(g, g) /\ g.buf_size <= g.buf_size /\ g.buf_size <= MaxBufSize /\ g.threshold <= g.buf_size
    <3>1. \A i \in Used(g) : g.buf[i].tag \in {"root", "garbage", "dtor"}
      BY <1>2 DEF Entries
    <3>2. g.buf_size \in Nat /\ MaxBufSize \in Nat
      BY <1>1, <1>2, UsedFacts
    <3> QED
      BY <3>1, <3>2, <1>2 DEF Retagged, Entries
  <2>5. \A y \in al : y \in al2 \/ h[y].addr = 0
    BY <1>4
  <2>6. BufOK(al2, h2, g)
    BY <2>2, <2>4, <2>5, <1>0, <1>1, BufSame
  <2>7. ColorOK(h2, g)
    BY <2>3, <1>0, <1>2 DEF ColorOK
  <2> QED
    BY <2>1, <2>3, <2>6, <2>7, <1>1 DEF Unbuffered
<1>5. CASE h[n].addr # 0
  <2>1. PICK i \in Used(g) : g.buf[i].ref = n
    BY <1>2, <1>5
  <2>2. Decompress(h, g, n) = i
    BY <2>1, <1>1, <1>2, DecompressFacts
  <2>3. g2 = gc_remove_from_roots(g, i)
    BY <2>2, <1>3, <1>5
  <2>4. \A y \in Node : h2[y].addr = IF y = g.buf[i].ref THEN 0 ELSE h[y].addr
    BY <2>1
  <2>5. \A y \in al : y # g.buf[i].ref => y \in al2
    BY <2>1
  <2>6. /\ g2 \in Globals /\ BufOK(al2, h2, g2) /\ Used(g2) = Used(g) \ {i}
        /\ \A j \in 1..(MaxBufSize - 1) : j # i => g2.buf[j] = g.buf[j]
        /\ g2.first_unused = g.first_unused /\ g2.active = g.active /\ g2.full = g.full
    <3>1. /\ al2 \in SUBSET Node /\ h2 \in [Node -> Hdr] /\ BufOK(al, h, g) /\ i \in Used(g)
          /\ al \in SUBSET Node /\ h \in [Node -> Hdr] /\ g \in Globals
      BY <1>0, <1>1
    <3>2. Removed(al2, h2, g, i, g2)
      BY ONLY <3>1, <2>3, <2>4, <2>5, RemoveFacts
    <3> QED
      BY ONLY <3>2 DEF Removed
  <2>7. /\ \A j \in Used(g2) : j \in Used(g) /\ g2.buf[j] = g.buf[j] /\ g.buf[j].ref # n
        /\ \A j \in Used(g) : g.buf[j].ref # n => j \in Used(g2)
    BY <2>1, <2>6, <1>2
  <2>8. ColorOK(h2, g2)
    BY <2>7, <1>0, <1>2 DEF ColorOK
  <2> QED
    BY <2>6, <2>7, <2>8 DEF Unbuffered
<1> QED
  BY <1>4, <1>5

\* GC_REMOVE_FROM_BUFFER between the traversals.
LEMMA Unbuffer ==
    ASSUME NEW al, NEW o, NEW hd, NEW h, NEW g, NEW c, NEW st, NEW b, NEW rn, NEW x, NEW n \in al,
           Steady(al, o, hd, h, g, c, st, b, rn, x),
           NEW h2 \in [Node -> Hdr], \A y \in Node : y # n => h2[y] = h[y],
           h2[n].addr = 0, h2[n].color = "black",
           NEW al2 \in SUBSET Node, \A y \in al : y # n => y \in al2,
           NEW g2, g2 = IF Info(h[n]) THEN gc_remove_from_roots(g, Decompress(h, g, n)) ELSE g
    PROVE  Unbuffered(al2, h2, g, n, g2)
<1>0. /\ BufOK(al, h, g) /\ ColorOK(h, g)
      /\ al \in SUBSET Node /\ h \in [Node -> Hdr] /\ g \in Globals /\ n \in al
  BY DEF Steady, Types
<1>1. /\ \A y \in Node : y # n => h2[y] = h[y]
      /\ h2[n].addr = 0 /\ h2[n].color = "black" /\ \A y \in al : y # n => y \in al2
  OBVIOUS
<1>2. g2 = IF Info(h[n]) THEN gc_remove_from_roots(g, Decompress(h, g, n)) ELSE g
  OBVIOUS
<1> QED
  BY ONLY <1>0, <1>1, <1>2, UnbufferIn

\* zend_objects_store_del calls a destructor.
LEMMA CallDtor ==
    ASSUME NEW al, NEW o, NEW hd, NEW h, NEW g, NEW c, NEW st, NEW b, NEW rn, NEW n \in al,
           Steady(al, o, hd, h, g, c, st, b, rn, n), h[n].rc = 1, n \in Dtor, ~h[n].dtored,
           st # <<>> => st[Len(st)].fn # "gc",
           NEW h2 \in [Node -> Hdr], \A y \in Node : y # n => h2[y] = h[y], SameMarks(h, h2),
           h2[n].dtored, h2[n].rc = 2,
           NEW rn2 \in SUBSET Node, \A y \in Node : y \in rn2 <=> y \in rn \/ y = n,
           NEW f, f = Call("del", n), NEW f2, f2 = Call("dtor", n),
           NEW s \in Seq(Frame), Pushed(st, f, s), NEW st2 \in Seq(Frame), Pushed(s, f2, st2)
    PROVE  Steady(al, o, hd, h2, g, c, st2, b, rn2, Null)
<1>0. /\ Types(al, o, hd, h, g, c, st, rn) /\ StackOK(al, h, g, c, st) /\ DtorOK(al, h, Gar(g), rn)
  BY DEF Steady
<1>1. /\ al \in SUBSET Node /\ h \in [Node -> Hdr] /\ st \in Seq(Frame) /\ n \in Node
      /\ n \notin Gar(g) /\ ~Dead(h, n)
  BY <1>0 DEF Types, DtorOK
<1>2. f.fn = "del" /\ f.obj = n /\ f.fn \in Keepers /\ f2.fn = "dtor" /\ f2.obj = n /\ f2.fn \in Keepers
  BY DEF Call, Keepers
<1>3. Steady(al, o, hd, h, g, c, s, b, rn, Null)
  <2>1. Len(st) > 0 => st[Len(st)].fn # "gc"
    BY <1>1
  <2>2. StackOK(al, h, g, c, s)
    BY <2>1, <1>0, <1>1, <1>2, PushStack
  <2> QED
    BY <2>2, <1>1, <1>2, PushKeeper
<1> DEFINE hm == [h EXCEPT ![n].dtored = TRUE]
<1>4. /\ hm \in [Node -> Hdr] /\ SameMarks(h, hm) /\ hm[n].dtored
      /\ \A y \in Node : hm[y].rc = h[y].rc /\ (y # n => hm[y].dtored = h[y].dtored)
      /\ \A y \in Node : y # n => hm[y] = h[y]
  <2>1. h[n] \in Hdr
    BY <1>1
  <2>2. hm[n] = [h[n] EXCEPT !.dtored = TRUE] /\ (\A y \in Node : y # n => hm[y] = h[y])
        /\ hm = [y \in Node |-> hm[y]]
    BY <1>1
  <2> HIDE DEF hm
  <2>3. /\ hm[n] \in Hdr /\ hm[n].dtored /\ hm[n].rc = h[n].rc /\ hm[n].color = h[n].color
        /\ hm[n].addr = h[n].addr /\ hm[n].null = h[n].null /\ hm[n].freed = h[n].freed
    BY <2>1, <2>2 DEF Hdr
  <2>4. \A y \in Node : hm[y] \in Hdr
    BY ONLY <2>2, <2>3, <1>1
  <2> QED
    BY <2>2, <2>3, <2>4 DEF SameMarks
<1> HIDE DEF hm
<1>5. Steady(al, o, hd, hm, g, c, s, b, rn2, Null)
  <2>1. DtoredAt(h, rn, n, hm, rn2)
    BY <1>4 DEF DtoredAt
  <2> QED
    BY ONLY <2>1, <1>1, <1>3, <1>4, SetDtored
<1>6. Steady(al, o, hd, h2, g, c, s, b, rn2, n)
  <2>1. /\ SameFlags(hm, h2) /\ h2[n].rc = hm[n].rc + 1
        /\ \A y \in Node : y # n => h2[y].rc = hm[y].rc
    <3>1. SameMarks(hm, h2)
      BY <1>4 DEF SameMarks
    <3>2. \A y \in Node : h2[y].dtored = hm[y].dtored
      <4>1. h2[n].dtored = TRUE /\ hm[n].dtored = TRUE
        <5>1. h2[n] \in Hdr /\ hm[n] \in Hdr
          BY <1>1, <1>4
        <5>2. h2[n].dtored \in BOOLEAN /\ hm[n].dtored \in BOOLEAN
          BY <5>1 DEF Hdr
        <5> QED
          BY <5>2, <1>4
      <4> QED
        BY <4>1, <1>4
    <3> QED
      BY <3>1, <3>2, <1>1, <1>4 DEF SameFlags
  <2>2. ~Dead(hm, n) /\ ~hm[n].freed
    BY <1>1, <1>4 DEF Dead, SameMarks
  <2>3. \A k \in 1..Len(s) : s[k].fn = "efree" => s[k].obj # n
    BY <1>5, <2>2 DEF Steady, EfreeOK
  <2> QED
    BY <2>1, <2>2, <2>3, <1>4, <1>5, Increment
<1>7. StackOK(al, h2, g, c, st2)
  <2>1. Len(s) > 0 /\ s[Len(s)].fn # "gc"
    BY <1>1, <1>2 DEF Pushed
  <2>2. StackOK(al, h2, g, c, s)
    BY <1>6 DEF Steady
  <2> QED
    BY <2>1, <2>2, <1>2, PushStack
<1> QED
  BY <1>1, <1>2, <1>6, <1>7, PushKeeper

\* rc_dtor_func.
LEMMA RcDtor ==
    ASSUME NEW al, NEW o, NEW hd, NEW g, NEW c, NEW st, NEW b, NEW n \in al,
           Steady(al, o, hd, hdr, g, c, st, b, ran, n),
           NEW h1, h1 = [hdr EXCEPT ![n].rc = @ - 1], h1[n].rc = 0,
           st # <<>> => st[Len(st)].fn # "gc", rc_dtor_func(h1, g, n, st)
    PROVE  Steady(al, o, hd, hdr', gc', c, stack', b, ran', Null)
<1>0. /\ Types(al, o, hd, hdr, g, c, st, ran) /\ StackOK(al, hdr, g, c, st)
      /\ DtorOK(al, hdr, Gar(g), ran) /\ BufOK(al, hdr, g) /\ ColorOK(hdr, g)
      /\ DeadOK(al, o, hd, hdr, st, Gar(g), n)
  BY DEF Steady
<1>1. /\ al \in SUBSET Node /\ hdr \in [Node -> Hdr] /\ st \in Seq(Frame) /\ n \in Node
      /\ g \in Globals /\ ran \in SUBSET Node
  BY <1>0 DEF Types
<1>2. /\ h1 \in [Node -> Hdr] /\ SameFlags(hdr, h1) /\ h1[n].rc = hdr[n].rc - 1
      /\ \A y \in Node : y # n => h1[y] = hdr[y]
      /\ \A y \in Node : y # n => h1[y].rc = hdr[y].rc
  <2> DEFINE d == -1
  <2>1. d \in Int /\ hdr[n].rc \in Int /\ hdr[n].rc + d = hdr[n].rc - 1
    BY <1>1 DEF Hdr
  <2>2. h1 = [hdr EXCEPT ![n].rc = @ + d]
    BY <2>1
  <2> HIDE DEF d
  <2>3. Counted(hdr, n, d, h1)
    BY ONLY <2>1, <2>2, <1>1, CountFacts
  <2> QED
    BY ONLY <2>1, <2>3 DEF Counted
<1>3. hdr[n].rc = 1
  BY <1>1, <1>2 DEF Hdr
<1>4. /\ h1[n].null = hdr[n].null /\ h1[n].freed = hdr[n].freed /\ h1[n].dtored = hdr[n].dtored
      /\ h1[n].addr = hdr[n].addr /\ h1[n].color = hdr[n].color /\ h1[n] \in Hdr
  BY <1>1, <1>2 DEF SameFlags, SameMarks
<1>5. Call("efree", n) \in Frame /\ Call("free", n) \in Frame /\ Call("del", n) \in Frame
      /\ Call("dtor", n) \in Frame
  BY <1>1 DEF Call, Frame, Fns
<1>6. CASE hdr[n].null
  <2>1. hdr' = h1 /\ stack' = st \o <<>> /\ gc' = g /\ ran' = ran
    BY <1>4, <1>6 DEF rc_dtor_func
  <2>2. st \o <<>> = st
    BY <1>1
  <2>3. Steady(al, o, hd, h1, g, c, st, b, ran, Null)
    BY ONLY <1>1, <1>2, Steady(al, o, hd, hdr, g, c, st, b, ran, n), Decrement
  <2> QED
    BY <2>1, <2>2, <2>3
<1>7. CASE ~hdr[n].null /\ n \in Arr
  <2>1. /\ gc' = IF Info(h1[n]) THEN gc_remove_from_buffer(g, n) ELSE g
        /\ hdr' = [NoInfo(h1, n) EXCEPT ![n].null = TRUE]
        /\ stack' = st \o <<Call("efree", n), Call("free", n)>> /\ ran' = ran
    <3>1. ~h1[n].null
      BY <1>4, <1>7
    <3>2. /\ gc' = IF Info(h1[n]) THEN gc_remove_from_buffer(g, n) ELSE g
          /\ ran' = ran
      BY ONLY <3>1, rc_dtor_func(h1, g, n, st), <1>7, KindAssumption DEF rc_dtor_func
    <3>3. /\ hdr' = [NoInfo(h1, n) EXCEPT ![n].null = TRUE]
          /\ stack' = st \o <<Call("efree", n), Call("free", n)>>
      BY ONLY <3>1, rc_dtor_func(h1, g, n, st), <1>7, KindAssumption DEF rc_dtor_func
    <3> QED
      BY <3>2, <3>3
  <2>2. ~hdr[n].freed /\ n \notin Dtor /\ ~Dead(hdr, n)
    BY <1>0, <1>7, KindAssumption DEF Types, Dead
  <2>3. /\ hdr' \in [Node -> Hdr] /\ \A y \in Node : y # n => hdr'[y] = hdr[y]
        /\ hdr'[n].addr = 0 /\ hdr'[n].color = "black" /\ hdr'[n].null /\ ~hdr'[n].freed
        /\ hdr'[n].rc = 0
    <3>1. /\ hdr'[n] = [h1[n] EXCEPT !.addr = 0, !.color = "black", !.null = TRUE]
          /\ \A y \in Node : y # n => hdr'[y] = h1[y]
          /\ hdr' = [y \in Node |-> hdr'[y]]
      BY <2>1, <1>1, <1>2 DEF NoInfo
    <3>2. /\ hdr'[n] \in Hdr /\ hdr'[n].addr = 0 /\ hdr'[n].color = "black" /\ hdr'[n].null
          /\ hdr'[n].freed = h1[n].freed /\ hdr'[n].rc = h1[n].rc
      <4> DEFINE v == h1[n]
                 w == hdr'[n]
      <4>1. w = [v EXCEPT !.addr = 0, !.color = "black", !.null = TRUE] /\ v \in Hdr
        BY <3>1, <1>4
      <4> HIDE DEF v, w
      <4>2. /\ w \in Hdr /\ w.addr = 0 /\ w.color = "black" /\ w.null
            /\ w.freed = v.freed /\ w.rc = v.rc
        BY ONLY <4>1 DEF Hdr, Colors
      <4> QED
        BY <4>2 DEF v, w
    <3>3. \A y \in Node : hdr'[y] \in Hdr
      BY <3>1, <3>2, <1>2
    <3> QED
      BY <3>1, <3>2, <3>3, <2>2, <1>2, <1>4
  <2>4. gc' = IF Info(hdr[n]) THEN gc_remove_from_roots(g, Decompress(hdr, g, n)) ELSE g
    BY <2>1, <1>4 DEF Info, gc_remove_from_buffer, gc_decompress, Decompress
  <2>5. Unbuffered(al, hdr', g, n, gc')
    <3>1. Steady(al, o, hd, hdr, g, c, st, b, ran, n) /\ n \in al /\ \A y \in al : y # n => y \in al
      OBVIOUS
    <3> QED
      BY ONLY <3>1, <2>3, <2>4, <1>1, Unbuffer
  <2>6. PICK s \in Seq(Frame) : /\ Pushed(st, Call("efree", n), s)
                                /\ Pushed(s, Call("free", n), stack') /\ stack' \in Seq(Frame)
    <3> DEFINE f == Call("efree", n)
               f2 == Call("free", n)
    <3>1. f \in Frame /\ f2 \in Frame /\ stack' = st \o <<f, f2>>
      BY <2>1, <1>5
    <3> HIDE DEF f, f2
    <3>2. \E s \in Seq(Frame) : Pushed(st, f, s) /\ Pushed(s, f2, stack')
      BY ONLY <3>1, <1>1, PushTwo
    <3> QED
      BY ONLY <3>2 DEF Pushed, f, f2
  <2>7. Dead(hdr', n) /\ hdr'[n].rc = One(n \notin Arr)
    BY <2>3, <1>7 DEF Dead, One
  <2>8. /\ gc' \in Globals /\ gc'.active = g.active /\ gc'.first_unused = g.first_unused
        /\ BufOK(al, hdr', gc') /\ ColorOK(hdr', gc')
        /\ \A i \in Used(gc') : i \in Used(g) /\ gc'.buf[i] = g.buf[i]
        /\ \A i \in Used(g) : g.buf[i].ref # n => i \in Used(gc')
    BY <2>5 DEF Unbuffered
  <2> DEFINE f == Call("efree", n)
             f2 == Call("free", n)
  <2>9. f = Call("efree", n) /\ f2 = Call("free", n) /\ Pushed(st, f, s) /\ Pushed(s, f2, stack')
    BY <2>6
  <2>10. /\ Steady(al, o, hd, hdr, g, c, st, b, ran, n) /\ n \in al /\ (st # <<>> => st[Len(st)].fn # "gc")
         /\ s \in Seq(Frame)
    OBVIOUS
  <2> HIDE DEF f, f2
  <2>11. Steady(al, o, hd, hdr', gc', c, stack', b, ran, Null)
    BY ONLY <2>2, <2>3, <2>6, <2>7, <2>8, <2>9, <2>10, <1>3, <1>7, FreeNode
  <2> QED
    BY <2>1, <2>11
<1>8. CASE ~hdr[n].null /\ n \notin Arr /\ n \in Dtor /\ ~hdr[n].dtored
  <2>1. /\ hdr' = [h1 EXCEPT ![n].dtored = TRUE, ![n].rc = 2]
        /\ stack' = st \o <<Call("del", n), Call("dtor", n)>> /\ gc' = g /\ ran' = ran \union {n}
    BY <1>4, <1>8 DEF rc_dtor_func
  <2>2. /\ hdr' \in [Node -> Hdr] /\ \A y \in Node : y # n => hdr'[y] = hdr[y]
        /\ hdr'[n].dtored /\ hdr'[n].rc = 2 /\ SameMarks(hdr, hdr')
    <3>1. /\ hdr'[n] = [h1[n] EXCEPT !.dtored = TRUE, !.rc = 2]
          /\ \A y \in Node : y # n => hdr'[y] = h1[y]
          /\ hdr' = [y \in Node |-> hdr'[y]]
      BY <2>1, <1>1, <1>2
    <3>2. /\ hdr'[n] \in Hdr /\ hdr'[n].dtored /\ hdr'[n].rc = 2 /\ hdr'[n].addr = h1[n].addr
          /\ hdr'[n].color = h1[n].color /\ hdr'[n].null = h1[n].null /\ hdr'[n].freed = h1[n].freed
      <4> DEFINE v == h1[n]
                 w == hdr'[n]
                 r == 2
      <4>1. w = [v EXCEPT !.dtored = TRUE, !.rc = r] /\ v \in Hdr /\ r \in Int
        BY <3>1, <1>4
      <4> HIDE DEF v, w, r
      <4>2. /\ w \in Hdr /\ w.dtored /\ w.rc = r /\ w.addr = v.addr /\ w.color = v.color
            /\ w.null = v.null /\ w.freed = v.freed
        BY ONLY <4>1 DEF Hdr
      <4> QED
        BY <4>2 DEF v, w, r
    <3>3. \A y \in Node : hdr'[y] \in Hdr
      BY <3>1, <3>2, <1>2
    <3>4. \A y \in Node : y # n => hdr'[y] = hdr[y]
      BY ONLY <3>1, <1>2, <1>4
    <3>5. hdr' \in [Node -> Hdr]
      BY ONLY <3>1, <3>3
    <3>6. SameMarks(hdr, hdr')
      BY ONLY <3>2, <3>4, <1>2, <1>4 DEF SameMarks, SameFlags
    <3> QED
      BY ONLY <3>2, <3>4, <3>5, <3>6
  <2>3. PICK s \in Seq(Frame) : /\ Pushed(st, Call("del", n), s)
                                /\ Pushed(s, Call("dtor", n), stack') /\ stack' \in Seq(Frame)
    <3> DEFINE f == Call("del", n)
               f2 == Call("dtor", n)
    <3>1. f \in Frame /\ f2 \in Frame /\ stack' = st \o <<f, f2>>
      BY <2>1, <1>5
    <3> HIDE DEF f, f2
    <3>2. \E s \in Seq(Frame) : Pushed(st, f, s) /\ Pushed(s, f2, stack')
      BY ONLY <3>1, <1>1, PushTwo
    <3> QED
      BY ONLY <3>2 DEF Pushed, f, f2
  <2>4. ran' \in SUBSET Node /\ \A y \in Node : y \in ran' <=> y \in ran \/ y = n
    BY <2>1, <1>1
  <2> DEFINE f == Call("del", n)
             f2 == Call("dtor", n)
  <2>9. f = Call("del", n) /\ f2 = Call("dtor", n) /\ Pushed(st, f, s) /\ Pushed(s, f2, stack')
    BY <2>3
  <2>10. /\ Steady(al, o, hd, hdr, g, c, st, b, ran, n) /\ n \in al /\ (st # <<>> => st[Len(st)].fn # "gc")
         /\ s \in Seq(Frame)
    OBVIOUS
  <2> HIDE DEF f, f2
  <2>11. Steady(al, o, hd, hdr', g, c, stack', b, ran', Null)
    BY ONLY <2>2, <2>3, <2>4, <2>9, <2>10, <1>3, <1>8, CallDtor
  <2> QED
    BY <2>1, <2>11
<1>9. CASE ~hdr[n].null /\ n \notin Arr /\ ~(n \in Dtor /\ ~hdr[n].dtored)
  <2>0. ~hdr[n].freed /\ ~Dead(hdr, n)
    BY <1>0, <1>9 DEF DeadOK, Lone, Dead
  <2>1. /\ hdr' = [h1 EXCEPT ![n].dtored = TRUE, ![n].freed = TRUE, ![n].rc = 1]
        /\ stack' = st \o <<Call("efree", n), Call("free", n)>> /\ gc' = g /\ ran' = ran
    BY <2>0, <1>4, <1>9 DEF rc_dtor_func
  <2>2. /\ hdr' \in [Node -> Hdr] /\ \A y \in Node : y # n => hdr'[y] = hdr[y]
        /\ hdr'[n].dtored /\ hdr'[n].rc = 1 /\ hdr'[n].freed
        /\ hdr'[n].addr = hdr[n].addr /\ hdr'[n].color = hdr[n].color
    <3>1. /\ hdr'[n] = [h1[n] EXCEPT !.dtored = TRUE, !.freed = TRUE, !.rc = 1]
          /\ \A y \in Node : y # n => hdr'[y] = h1[y]
          /\ hdr' = [y \in Node |-> hdr'[y]]
      BY <2>1, <1>1, <1>2
    <3>2. /\ hdr'[n] \in Hdr /\ hdr'[n].dtored /\ hdr'[n].rc = 1 /\ hdr'[n].addr = h1[n].addr
          /\ hdr'[n].color = h1[n].color /\ hdr'[n].freed
      <4> DEFINE v == h1[n]
                 w == hdr'[n]
                 r == 1
      <4>1. w = [v EXCEPT !.dtored = TRUE, !.freed = TRUE, !.rc = r] /\ v \in Hdr /\ r \in Int
        BY <3>1, <1>4
      <4> HIDE DEF v, w, r
      <4>2. w \in Hdr /\ w.dtored /\ w.rc = r /\ w.addr = v.addr /\ w.color = v.color /\ w.freed
        BY ONLY <4>1 DEF Hdr
      <4> QED
        BY <4>2 DEF v, w, r
    <3>3. \A y \in Node : hdr'[y] \in Hdr
      BY <3>1, <3>2, <1>2
    <3> QED
      BY <3>1, <3>2, <3>3, <1>2, <1>4
  <2>3. PICK s \in Seq(Frame) : /\ Pushed(st, Call("efree", n), s)
                                /\ Pushed(s, Call("free", n), stack') /\ stack' \in Seq(Frame)
    <3> DEFINE f == Call("efree", n)
               f2 == Call("free", n)
    <3>1. f \in Frame /\ f2 \in Frame /\ stack' = st \o <<f, f2>>
      BY <2>1, <1>5
    <3> HIDE DEF f, f2
    <3>2. \E s \in Seq(Frame) : Pushed(st, f, s) /\ Pushed(s, f2, stack')
      BY ONLY <3>1, <1>1, PushTwo
    <3> QED
      BY ONLY <3>2 DEF Pushed, f, f2
  <2>4. BufOK(al, hdr', g)
    BY <2>2, <1>0, <1>1, BufHdr
  <2>5. ColorOK(hdr', g)
    <3>1. \A y \in Node : hdr'[y].addr = hdr[y].addr /\ hdr'[y].color = hdr[y].color
      BY <2>2
    <3>2. \A i \in Used(g) : g.buf[i].ref \in Node
      BY <1>0, <1>1 DEF BufOK, Entries
    <3> QED
      BY <3>1, <3>2, <1>0 DEF ColorOK
  <2>6. /\ Dead(hdr', n) /\ hdr'[n].rc = One(n \notin Arr) /\ (n \in Dtor => hdr[n].dtored)
    BY <2>2, <1>9 DEF Dead, One
  <2>7. /\ g.active = g.active /\ g.first_unused = g.first_unused
        /\ \A i \in Used(g) : i \in Used(g) /\ g.buf[i] = g.buf[i]
        /\ \A i \in Used(g) : g.buf[i].ref # n => i \in Used(g)
    OBVIOUS
  <2> DEFINE f == Call("efree", n)
             f2 == Call("free", n)
  <2>9. f = Call("efree", n) /\ f2 = Call("free", n) /\ Pushed(st, f, s) /\ Pushed(s, f2, stack')
    BY <2>3
  <2>10. /\ Steady(al, o, hd, hdr, g, c, st, b, ran, n) /\ n \in al /\ (st # <<>> => st[Len(st)].fn # "gc")
         /\ s \in Seq(Frame)
    OBVIOUS
  <2> HIDE DEF f, f2
  <2>11. Steady(al, o, hd, hdr', g, c, stack', b, ran, Null)
    BY ONLY <2>0, <2>2, <2>3, <2>4, <2>5, <2>6, <2>7, <2>9, <2>10, <1>1, <1>3, <1>9, FreeNode
  <2> QED
    BY <2>1, <2>11
<1> QED
  BY <1>6, <1>7, <1>8, <1>9

\* No collection is under way.
LEMMA NoCollection ==
    ASSUME NEW al, NEW o, NEW hd, NEW h, NEW g, NEW c, NEW st, NEW b, NEW rn, NEW x,
           Steady(al, o, hd, h, g, c, st, b, rn, x), st # <<>> => st[Len(st)].fn # "gc",
           ~g.active \/ g.num_roots = 0
    PROVE  c.pc = "idle" /\ (\A k \in 1..Len(st) : st[k].fn # "gc") /\ Gar(g) = {}
<1>0. /\ Types(al, o, hd, h, g, c, st, rn) /\ StackOK(al, h, g, c, st) /\ BufOK(al, h, g)
      /\ TagOK(g, c)
  BY DEF Steady
<1>1. al \in SUBSET Node /\ h \in [Node -> Hdr] /\ st \in Seq(Frame) /\ g \in Globals
  BY <1>0 DEF Types
<1>2. g.num_roots = 0 => Used(g) = {}
  <2>1. Entries(al, h, g) /\ g.num_roots = Cardinality(Used(g))
    BY <1>0 DEF BufOK, Entries
  <2>2. IsFiniteSet(Used(g))
    BY <2>1, <1>1, UsedFacts
  <2> QED
    BY <2>1, <2>2, FS_EmptySet
<1>3. \A k \in 1..Len(st) : st[k].fn # "gc"
  <2> SUFFICES ASSUME NEW k \in 1..Len(st), st[k].fn = "gc" PROVE FALSE
    OBVIOUS
  <2>1. st # <<>> /\ k # Len(st) /\ k < Len(st) /\ k + 1 \in 1..Len(st)
    BY <1>1
  <2>2. /\ \/ c.pc = "dtors" /\ st[k + 1].fn = "gcdtor"
           \/ c.pc = "destroy" /\ st[k + 1].fn \in {"gcfree", "free"}
        /\ h[st[k + 1].obj].addr # 0 /\ st[k + 1].obj \in al /\ g.active
    BY <2>1, <1>0 DEF StackOK
  <2>3. Used(g) # {}
    BY <2>2, <1>0, <1>1 DEF BufOK, Entries
  <2> QED
    BY <2>2, <2>3, <1>2
<1>4. c.pc = "idle"
  BY <1>0, <1>3 DEF StackOK
<1>5. Gar(g) = {}
  <2>1. \A i \in Used(g) : g.buf[i].tag # "garbage"
    BY <1>0, <1>2 DEF TagOK
  <2> QED
    BY <2>1 DEF Gar, Tagged
<1> QED
  BY <1>3, <1>4, <1>5

\* zend_gc_collect_cycles is entered.
LEMMA PushGC ==
    ASSUME NEW al, NEW o, NEW hd, NEW h, NEW g, NEW c, NEW st, NEW b, NEW rn,
           Steady(al, o, hd, h, g, c, st, b, rn, Null), st # <<>> => st[Len(st)].fn # "gc",
           ~g.active, NEW f, f = Call("gc", Null), NEW st2 \in Seq(Frame), Pushed(st, f, st2),
           NEW c2, c2 = [Idle EXCEPT !.pc = "start"]
    PROVE  Steady(al, o, hd, h, g, c2, st2, b, rn, Null)
<1> DEFINE t == Len(st) + 1
<1>0. /\ Types(al, o, hd, h, g, c, st, rn) /\ RcOK(al, o, hd, h, st, b, Null, {})
      /\ Closed(al, o, hd, Null) /\ EfreeOK(al, o, hd, h, st, Null)
      /\ DeadOK(al, o, hd, h, st, Gar(g), Null) /\ GarOK(al, o, hd, h, st, Gar(g))
      /\ EmptyOK(al, o, h, g, c, st, b) /\ TagOK(g, c) /\ StackOK(al, h, g, c, st)
  BY DEF Steady
<1>1. /\ al \in SUBSET Node /\ h \in [Node -> Hdr] /\ st \in Seq(Frame) /\ Null \notin al
  BY <1>0, NullAssumption DEF Types
<1>2. c.pc = "idle" /\ (\A k \in 1..Len(st) : st[k].fn # "gc") /\ Gar(g) = {}
  BY NoCollection
<1>3. /\ Len(st2) = t /\ Len(st) \in Nat /\ st2[t] = f /\ t \in 1..t
      /\ \A i \in 1..Len(st) : st2[i] = st[i] /\ i \in 1..t /\ i < t
      /\ \A i \in 1..t : i # t => i \in 1..Len(st)
      /\ \A i \in 1..Len(st) : i > 1 => i - 1 \in 1..Len(st)
      /\ ~(t < t)
  BY <1>1 DEF Pushed
<1>4. f.fn = "gc" /\ f.obj = Null
  BY DEF Call
<1>5. c2.pc = "start" /\ c2 \in Locals /\ c2.todo = {} /\ c2.btodo = {}
  <2>1. c2 = [pc |-> "start", idx |-> 0, end |-> 0, todo |-> {}, btodo |-> {},
              count |-> 0, total |-> 0, hasd |-> FALSE, rerun |-> FALSE, did |-> FALSE]
    BY DEF Idle
  <2> QED
    BY ONLY <2>1 DEF Locals, Pcs
<1> HIDE DEF t
<1>6. \A y \in al : Lone(al, o, hd, st, Null, y) => Lone(al, o, hd, st2, Null, y)
  BY <1>1, <1>3, <1>4 DEF Lone
<1>7. Types(al, o, hd, h, g, c2, st2, rn)
  BY <1>0, <1>5 DEF Types
<1>8. RcOK(al, o, hd, h, st2, b, Null, {})
  <2>1. ASSUME NEW y \in al
        PROVE  Gap(al, o, hd, h, st2, Null, y) = Gap(al, o, hd, h, st, Null, y)
    <3>1. Cardinality(Holders(st, y)) \in Nat
      BY <1>1, RefsFacts
    <3>2. Cardinality(Holders(st2, y)) = Cardinality(Holders(st, y)) + One(Holds(f, y))
      BY <1>1, HoldersPush
    <3>3. One(Holds(f, y)) = 0
      BY <1>1, <1>4 DEF One, Holds
    <3>4. Cardinality(Holders(st2, y)) = Cardinality(Holders(st, y))
      BY <3>1, <3>2, <3>3
    <3> QED
      BY <3>4 DEF Refs, Gap
  <2> QED
    BY <2>1, <1>0, <1>1, RcMove
<1>9. StackOK(al, h, g, c2, st2)
  <2>1. ASSUME NEW i \in 1..t
        PROVE  /\ st2[i].fn # "gc" => st2[i].obj \in al
               /\ st2[i].fn = "gc" => st2[i].obj = Null /\ i = t
               /\ st2[i].fn = "free" => /\ Dead(h, st2[i].obj) /\ i > 1
                                        /\ \/ /\ st2[i - 1].fn \in {"efree", "gcfree"}
                                              /\ st2[i - 1].obj = st2[i].obj
                                           \/ st2[i - 1].fn = "gc" /\ st2[i].obj \in Arr
    <3>1. CASE i = t
      BY <3>1, <1>3, <1>4
    <3>2. CASE i # t
      <4>1. i \in 1..Len(st) /\ st2[i] = st[i] /\ (i > 1 => st2[i - 1] = st[i - 1])
        BY <3>2, <1>3
      <4>2. /\ st[i].fn # "gc" => st[i].obj \in al
            /\ st[i].fn = "free" => /\ Dead(h, st[i].obj) /\ i > 1
                                    /\ \/ /\ st[i - 1].fn \in {"efree", "gcfree"}
                                          /\ st[i - 1].obj = st[i].obj
                                       \/ st[i - 1].fn = "gc" /\ st[i].obj \in Arr
        BY <4>1, <1>0 DEF StackOK
      <4> QED
        BY <4>1, <4>2, <1>2
    <3> QED
      BY <3>1, <3>2
  <2>2. \A i, j \in 1..t : st2[i].fn = "gc" /\ st2[j].fn = "full" => j < i
    BY <2>1, <1>3, <1>4
  <2> QED
    BY <2>1, <2>2, <1>3, <1>4, <1>5 DEF StackOK
<1>10. EfreeOK(al, o, hd, h, st2, Null)
  <2> SUFFICES ASSUME NEW i \in 1..Len(st2), st2[i].fn = "efree"
               PROVE  LET y == st2[i].obj
                      IN  /\ Dead(h, y) /\ Lone(al, o, hd, st2, Null, y)
                          /\ \A j \in 1..Len(st2) : st2[j].obj = y =>
                                j = i \/ (j = i + 1 /\ st2[j].fn = "free")
                          /\ o[y] = {} \/ (i + 1 \in 1..Len(st2) /\ st2[i + 1].fn = "free")
                          /\ y \in Arr => h[y].addr = 0
    BY DEF EfreeOK
  <2> DEFINE y == st2[i].obj
  <2>1. i \in 1..Len(st) /\ st[i].fn = "efree" /\ y = st[i].obj /\ y \in al
    BY <1>0, <1>3, <1>4 DEF StackOK
  <2>2. /\ Dead(h, y) /\ Lone(al, o, hd, st, Null, y)
        /\ \A j \in 1..Len(st) : st[j].obj = y => j = i \/ (j = i + 1 /\ st[j].fn = "free")
        /\ o[y] = {} \/ (i + 1 \in 1..Len(st) /\ st[i + 1].fn = "free")
        /\ y \in Arr => h[y].addr = 0
    BY <2>1, <1>0 DEF EfreeOK
  <2>3. Lone(al, o, hd, st2, Null, y) /\ y # Null
    BY <2>1, <2>2, <1>1, <1>6
  <2> QED
    BY <2>2, <2>3, <1>3, <1>4
<1>11. DeadOK(al, o, hd, h, st2, Gar(g), Null)
  BY <1>0, <1>6 DEF DeadOK
<1>12. GarOK(al, o, hd, h, st2, Gar(g)) /\ ApartOK(al, o, c2, st2, Gar(g))
  BY <1>2 DEF GarOK, ApartOK
<1>13. EmptyOK(al, o, h, g, c2, st2, b)
  <2>1. \A y : (\E i \in 1..Len(st) : st[i].fn = "efree" /\ st[i].obj = y)
               => (\E i \in 1..Len(st2) : st2[i].fn = "efree" /\ st2[i].obj = y)
    BY <1>3
  <2> QED
    BY <2>1, <1>0, <1>2, <1>5 DEF EmptyOK
<1>14. TagOK(g, c2)
  BY <1>0, <1>5 DEF TagOK
<1> QED
  BY <1>7, <1>8, <1>9, <1>10, <1>11, <1>12, <1>13, <1>14 DEF Steady

\* zend_gc_collect_cycles has no roots.
LEMMA CollectTrivial ==
    ASSUME NEW al, NEW o, NEW hd, NEW h, NEW g, NEW c, NEW st, NEW b, NEW rn,
           Steady(al, o, hd, h, g, c, st, b, rn, Null), st # <<>> => st[Len(st)].fn # "gc",
           g.num_roots = 0, NEW r, r = gc_compact(h, g),
           NEW h2, h2 = r.hdr, NEW g2, g2 = [r.gc EXCEPT !.active = FALSE]
    PROVE  Steady(al, o, hd, h2, g2, c, st, b, rn, Null)
<1>0. /\ Types(al, o, hd, h, g, c, st, rn) /\ RcOK(al, o, hd, h, st, b, Null, {})
      /\ EfreeOK(al, o, hd, h, st, Null) /\ StackOK(al, h, g, c, st)
      /\ DeadOK(al, o, hd, h, st, Gar(g), Null) /\ GarOK(al, o, hd, h, st, Gar(g))
      /\ ApartOK(al, o, c, st, Gar(g)) /\ DtorOK(al, h, Gar(g), rn) /\ ColorOK(h, g)
      /\ EmptyOK(al, o, h, g, c, st, b) /\ TagOK(g, c) /\ BufOK(al, h, g)
  BY DEF Steady
<1>1. /\ al \in SUBSET Node /\ h \in [Node -> Hdr] /\ st \in Seq(Frame) /\ g \in Globals
  BY <1>0 DEF Types
<1>2. c.pc = "idle" /\ (\A k \in 1..Len(st) : st[k].fn # "gc") /\ Gar(g) = {}
  BY NoCollection
<1>3. Compacted(al, h, g, r)
  <2>1. Entries(al, h, g) /\ (UnusedAt(g) = {} => g.unused = 0) /\ r = gc_compact(h, g)
    BY <1>0 DEF BufOK, Listed
  <2> QED
    BY ONLY <2>1, <1>1, CompactFacts
<1>4. /\ g2 \in Globals /\ h2 \in [Node -> Hdr] /\ BufOK(al, h2, r.gc) /\ SameBut(h, h2)
      /\ Used(r.gc) = {} /\ r.gc \in Globals /\ g2 = [r.gc EXCEPT !.active = FALSE]
  <2>1. r.gc \in Globals
    BY <1>3 DEF Compacted
  <2>2. g2 \in Globals
    BY <2>1 DEF Globals
  <2>3. Used(r.gc) = 1..0
    BY <1>3 DEF Compacted
  <2> QED
    BY <2>1, <2>2, <2>3, <1>3 DEF Compacted
<1>5. /\ g2.buf = r.gc.buf /\ g2.unused = r.gc.unused /\ g2.first_unused = r.gc.first_unused
      /\ g2.num_roots = r.gc.num_roots /\ g2.buf_size = r.gc.buf_size /\ g2.threshold = r.gc.threshold
      /\ g2.active = FALSE
  BY ONLY <1>4 DEF Globals
<1>6. BufOK(al, h2, g2) /\ Used(g2) = {}
  <2> DEFINE g1 == r.gc
  <2>1. /\ g2.buf = g1.buf /\ g2.unused = g1.unused /\ g2.first_unused = g1.first_unused
        /\ g2.num_roots = g1.num_roots /\ g2.buf_size = g1.buf_size /\ g2.threshold = g1.threshold
        /\ BufOK(al, h2, g1) /\ Used(g1) = {}
    BY ONLY <1>4, <1>5
  <2> HIDE DEF g1
  <2>2. Used(g2) = Used(g1) /\ UnusedAt(g2) = UnusedAt(g1)
    BY ONLY <2>1 DEF Used, UnusedAt
  <2>3. Entries(al, h2, g2)
    BY ONLY <2>1, <2>2 DEF BufOK, Entries
  <2>4. Listed(g2)
    BY ONLY <2>1, <2>2 DEF BufOK, Listed
  <2> QED
    BY ONLY <2>1, <2>2, <2>3, <2>4 DEF BufOK
<1>7. SameFlags(h, h2)
  <2>1. Used(g) = {}
    <3>1. Entries(al, h, g) /\ g.num_roots = Cardinality(Used(g))
      BY <1>0 DEF BufOK, Entries
    <3>2. IsFiniteSet(Used(g))
      BY <3>1, <1>1, UsedFacts
    <3> QED
      BY <3>1, <3>2, FS_EmptySet
  <2>2. \A y \in Node : h[y].addr = 0
    BY <2>1, <1>0 DEF BufOK, Entries
  <2> QED
    BY <2>2, <1>4 DEF SameBut, SameFlags, SameMarks
<1>8. Gar(g2) = {}
  BY <1>6 DEF Gar, Tagged
<1>9. /\ Types(al, o, hd, h2, g, c, st, rn) /\ \A n \in Node : Dead(h2, n) = Dead(h, n)
      /\ StackOK(al, h2, g, c, st) /\ EfreeOK(al, o, hd, h2, st, Null)
      /\ DtorOK(al, h2, Gar(g), rn) /\ EmptyOK(al, o, h2, g, c, st, b)
  <2>1. SameMarks(h, h2) /\ h2 \in [Node -> Hdr]
    BY <1>4, <1>7 DEF SameFlags
  <2> QED
    BY ONLY <2>1, <1>0, <1>7, FlagsFacts
<1>10. Types(al, o, hd, h2, g2, c, st, rn)
  BY ONLY <1>4, <1>9 DEF Types
<1>11. StackOK(al, h2, g2, c, st)
  BY ONLY <1>2, <1>9 DEF StackOK
<1>12. RcOK(al, o, hd, h2, st, b, Null, {})
  <2>1. \A y \in al : y \in al /\ Gap(al, o, hd, h2, st, Null, y) = Gap(al, o, hd, h, st, Null, y)
    BY ONLY <1>1, <1>4 DEF Gap, SameBut
  <2> QED
    BY ONLY <2>1, <1>0, <1>1, <1>4, RcMove
<1>13. DeadOK(al, o, hd, h2, st, Gar(g2), Null)
  BY ONLY <1>0, <1>1, <1>2, <1>4, <1>8, <1>9 DEF DeadOK, SameBut
<1>14. GarOK(al, o, hd, h2, st, Gar(g2)) /\ ApartOK(al, o, c, st, Gar(g2)) /\ DtorOK(al, h2, Gar(g2), rn)
  BY <1>2, <1>8, <1>9 DEF GarOK, ApartOK
<1>15. EmptyOK(al, o, h2, g2, c, st, b)
  BY ONLY <1>2, <1>6, <1>9 DEF EmptyOK
<1>16. ColorOK(h2, g2)
  BY ONLY <1>0, <1>6, <1>7 DEF ColorOK, SameFlags, SameMarks
<1>17. TagOK(g2, c)
  BY ONLY <1>0, <1>2, <1>6 DEF TagOK
<1>18. Closed(al, o, hd, Null)
  BY DEF Steady
<1> QED
  BY ONLY <1>6, <1>9, <1>10, <1>11, <1>12, <1>13, <1>14, <1>15, <1>16, <1>17, <1>18 DEF Steady

SteadyPcs == {"idle", "start", "dtors", "destroy", "finish"}

\* gc_collect_cycles starts a collection, or does nothing.
LEMMA CollectCycles ==
    ASSUME NEW al, NEW o, NEW hd, NEW h, NEW st, NEW b,
           Steady(al, o, hd, h, gc, col, st, b, ran, Null), st # <<>> => st[Len(st)].fn # "gc",
           gc_collect_cycles(h, st), col.pc \in SteadyPcs
    PROVE  Steady(al, o, hd, hdr', gc', col', stack', b, ran, Null) /\ col'.pc \in SteadyPcs
<1>1. st \in Seq(Frame)
  BY DEF Steady, Types
<1>2. CASE ~Installed
  <2>1. hdr' = h /\ stack' = st /\ gc' = gc /\ col' = col
    BY ONLY <1>2, gc_collect_cycles(h, st) DEF gc_collect_cycles
  <2> QED
    BY <2>1
<1>3. CASE Installed /\ gc.num_roots = 0
  <2> DEFINE r == gc_compact(h, gc)
  <2>1. hdr' = r.hdr /\ gc' = [r.gc EXCEPT !.active = FALSE] /\ stack' = st /\ col' = col
    BY ONLY <1>3, gc_collect_cycles(h, st) DEF gc_collect_cycles
  <2>2. r = gc_compact(h, gc)
    OBVIOUS
  <2>3. Steady(al, o, hd, h, gc, col, st, b, ran, Null) /\ (st # <<>> => st[Len(st)].fn # "gc")
    OBVIOUS
  <2> HIDE DEF r
  <2>4. Steady(al, o, hd, hdr', gc', col, st, b, ran, Null)
    BY ONLY <2>1, <2>2, <2>3, <1>3, CollectTrivial
  <2> QED
    BY <2>1, <2>4
<1>4. CASE Installed /\ gc.num_roots # 0 /\ gc.active
  <2>1. hdr' = h /\ stack' = st /\ gc' = gc /\ col' = col
    BY ONLY <1>4, gc_collect_cycles(h, st) DEF gc_collect_cycles
  <2> QED
    BY <2>1
<1>5. CASE Installed /\ gc.num_roots # 0 /\ ~gc.active
  <2> DEFINE f == Call("gc", Null)
  <2>1. hdr' = h /\ stack' = Append(st, f) /\ gc' = gc /\ col' = [Idle EXCEPT !.pc = "start"]
    BY ONLY <1>5, gc_collect_cycles(h, st) DEF gc_collect_cycles
  <2>2. f = Call("gc", Null) /\ f \in Frame
    BY DEF Call, Frame, Fns
  <2>3. Steady(al, o, hd, h, gc, col, st, b, ran, Null) /\ (st # <<>> => st[Len(st)].fn # "gc")
    OBVIOUS
  <2> HIDE DEF f
  <2>4. Pushed(st, f, stack') /\ stack' \in Seq(Frame)
    BY ONLY <2>1, <2>2, <1>1, PushAppend
  <2>5. Steady(al, o, hd, h, gc, col', stack', b, ran, Null)
    BY ONLY <2>1, <2>2, <2>3, <2>4, <1>5, PushGC
  <2>6. col'.pc = "start"
    BY <2>1 DEF Idle
  <2> QED
    BY <2>1, <2>5, <2>6 DEF SteadyPcs
<1> QED
  BY <1>2, <1>3, <1>4, <1>5

\* The end of gc_possible_root.
LEMMA AddRooted ==
    ASSUME NEW al, NEW o, NEW hd, NEW h, NEW g, NEW c, NEW st, NEW b, NEW n \in al,
           Steady(al, o, hd, h, g, c, st, b, ran, Null), ~Info(h[n]), ~g.full,
           \A k \in 1..Len(st) : st[k].fn = "efree" => st[k].obj # n,
           AddRoot(h, g, n, st), ~gc'.full
    PROVE  Steady(al, o, hd, hdr', gc', c, stack', b, ran', Null)
<1>1. /\ al \in SUBSET Node /\ h \in [Node -> Hdr] /\ g \in Globals /\ BufOK(al, h, g)
  BY DEF Steady, Types
<1>2. h[n].addr = 0
  BY DEF Info
<1>3. /\ hdr' = Enter(h, g, n, "root", "purple").hdr /\ gc' = Enter(h, g, n, "root", "purple").gc
      /\ stack' = st /\ ran' = ran
  BY DEF AddRoot
<1>4. n \in al /\ ~g.full /\ ~gc'.full
  OBVIOUS
<1>5. NewRoot(al, h, g, n, hdr', gc')
  BY ONLY <1>1, <1>2, <1>3, <1>4, EnterIsNew
<1>6. Steady(al, o, hd, h, g, c, st, b, ran, Null)
      /\ \A k \in 1..Len(st) : st[k].fn = "efree" => st[k].obj # n
  OBVIOUS
<1>7. Steady(al, o, hd, hdr', gc', c, st, b, ran, Null)
  BY ONLY <1>2, <1>4, <1>5, <1>6, EnterRoot
<1> QED
  BY <1>3, <1>7

\* A reference to n is given up: i_zval_ptr_dtor, OBJ_RELEASE.
LEMMA Released ==
    ASSUME NEW al, NEW o, NEW hd, NEW st, NEW b, NEW n \in al,
           Steady(al, o, hd, hdr, gc, col, st, b, ran, n), st # <<>> => st[Len(st)].fn # "gc",
           Release(n, st), ~gc.full, ~gc'.full, col.pc \in SteadyPcs
    PROVE  Steady(al, o, hd, hdr', gc', col', stack', b, ran', Null) /\ col'.pc \in SteadyPcs
<1> DEFINE h1 == [hdr EXCEPT ![n].rc = @ - 1]
<1>0. /\ Types(al, o, hd, hdr, gc, col, st, ran) /\ EfreeOK(al, o, hd, hdr, st, n)
      /\ StackOK(al, hdr, gc, col, st)
  BY DEF Steady
<1>1. /\ al \in SUBSET Node /\ hdr \in [Node -> Hdr] /\ st \in Seq(Frame) /\ n \in Node
      /\ gc \in Globals
  BY <1>0 DEF Types
<1>2. /\ h1 \in [Node -> Hdr] /\ SameFlags(hdr, h1) /\ h1[n].rc = hdr[n].rc - 1
      /\ \A y \in Node : y # n => h1[y] = hdr[y]
      /\ \A y \in Node : y # n => h1[y].rc = hdr[y].rc
  <2> DEFINE d == -1
  <2>1. d \in Int /\ hdr[n].rc \in Int /\ hdr[n].rc + d = hdr[n].rc - 1
    BY <1>1 DEF Hdr
  <2>2. h1 = [hdr EXCEPT ![n].rc = @ + d]
    BY <2>1
  <2> HIDE DEF d, h1
  <2>3. Counted(hdr, n, d, h1)
    BY ONLY <2>1, <2>2, <1>1, CountFacts
  <2> QED
    BY ONLY <2>1, <2>3 DEF Counted
<1>3. h1 = [hdr EXCEPT ![n].rc = @ - 1]
  OBVIOUS
<1>4. /\ h1[n].rc = 0 => rc_dtor_func(h1, gc, n, st) /\ col' = col
      /\ h1[n].rc # 0 /\ ~Info(h1[n]) => gc_possible_root(h1, n, st)
      /\ h1[n].rc # 0 /\ Info(h1[n]) =>
            hdr' = h1 /\ stack' = st /\ gc' = gc /\ col' = col /\ ran' = ran
  BY DEF Release
<1>5. /\ Steady(al, o, hd, hdr, gc, col, st, b, ran, n) /\ (st # <<>> => st[Len(st)].fn # "gc")
      /\ ~gc.full /\ ~gc'.full /\ col.pc \in SteadyPcs /\ n \in al
  OBVIOUS
<1> HIDE DEF h1
<1>6. Steady(al, o, hd, h1, gc, col, st, b, ran, Null)
  BY ONLY <1>1, <1>2, <1>5, Decrement
<1>7. \A k \in 1..Len(st) : st[k].fn = "efree" => st[k].obj # n
  BY ONLY <1>0 DEF EfreeOK, Lone
<1>8. CASE h1[n].rc = 0
  <2>1. Steady(al, o, hd, hdr', gc', col, stack', b, ran', Null)
    BY ONLY <1>3, <1>4, <1>5, <1>8, RcDtor
  <2> QED
    BY <2>1, <1>4, <1>8
<1>9. CASE h1[n].rc # 0 /\ Info(h1[n])
  BY <1>4, <1>6, <1>9
<1>10. CASE h1[n].rc # 0 /\ ~Info(h1[n])
  <2>1. CASE gc.protected
    <3>1. hdr' = h1 /\ stack' = st /\ gc' = gc /\ col' = col /\ ran' = ran
      BY ONLY <1>4, <1>10, <2>1 DEF gc_possible_root
    <3> QED
      BY <3>1, <1>6
  <2>2. CASE /\ ~gc.protected /\ gc.unused = 0 /\ gc.first_unused >= gc.threshold
             /\ gc.enabled /\ ~gc.active
    <3> DEFINE f == Call("full", n)
               s == Append(st, f)
    <3>1. gc_collect_cycles([h1 EXCEPT ![n].rc = @ + 1], s) /\ ran' = ran
      BY ONLY <1>4, <1>10, <2>2 DEF gc_possible_root
    <3>2. [h1 EXCEPT ![n].rc = @ + 1] = hdr
      <4> DEFINE h3 == [h1 EXCEPT ![n].rc = @ + 1]
      <4>1. hdr[n].rc \in Int /\ hdr[n] \in Hdr /\ h1[n] \in Hdr
        BY <1>1, <1>2 DEF Hdr
      <4>2. \A y \in Node : y # n => h3[y] = hdr[y]
        BY <1>1, <1>2
      <4>3. h3[n] = [h1[n] EXCEPT !.rc = hdr[n].rc]
        <5>1. h1[n].rc + 1 = hdr[n].rc
          BY <1>2, <4>1
        <5> QED
          BY <5>1, <1>1, <1>2
      <4>4. h1[n] = [hdr[n] EXCEPT !.rc = h1[n].rc]
        BY <1>1, <1>2, <1>3
      <4>5. h3[n] = hdr[n]
        BY ONLY <4>1, <4>3, <4>4 DEF Hdr
      <4>6. h3 = [y \in Node |-> h3[y]] /\ hdr = [y \in Node |-> hdr[y]]
        BY <1>1, <1>2
      <4> HIDE DEF h3
      <4>7. h3 = hdr
        BY ONLY <4>2, <4>5, <4>6
      <4> QED
        BY <4>7 DEF h3
    <3>3. f = Call("full", n) /\ f \in Frame /\ f.fn = "full" /\ f.obj = n
      BY <1>1 DEF Call, Frame, Fns
    <3> HIDE DEF f
    <3>4. Pushed(st, f, s) /\ s \in Seq(Frame)
      BY ONLY <3>3, <1>1, PushAppend
    <3>5. s # <<>> => s[Len(s)].fn # "gc"
      BY <3>3, <3>4 DEF Pushed
    <3> HIDE DEF s
    <3>6. col.pc = "idle" /\ (\A k \in 1..Len(st) : st[k].fn # "gc") /\ Gar(gc) = {}
      BY ONLY <1>5, <2>2, NoCollection
    <3>7. StackOK(al, hdr, gc, col, s)
      <4>1. Len(st) > 0 => st[Len(st)].fn # "gc"
        BY <1>1, <1>5
      <4> QED
        BY ONLY <4>1, <3>3, <3>4, <3>6, <1>0, <1>1, <1>5, PushStack
    <3>8. Steady(al, o, hd, hdr, gc, col, s, b, ran, Null)
      <4>1. f.fn \in Keepers /\ n \notin Gar(gc)
        BY <3>3, <3>6 DEF Keepers
      <4> QED
        BY ONLY <4>1, <3>3, <3>4, <3>7, <1>5, PushKeeper
    <3>9. gc_collect_cycles(hdr, s)
      BY <3>1, <3>2
    <3>10. Steady(al, o, hd, hdr', gc', col', stack', b, ran, Null) /\ col'.pc \in SteadyPcs
      BY ONLY <3>5, <3>8, <3>9, <1>5, CollectCycles
    <3> QED
      BY <3>1, <3>10
  <2>3. CASE ~gc.protected /\ ~(/\ gc.unused = 0 /\ gc.first_unused >= gc.threshold
                                /\ gc.enabled /\ ~gc.active)
    <3>1. AddRoot(h1, gc, n, st) /\ col' = col
      BY ONLY <1>4, <1>10, <2>3 DEF gc_possible_root
    <3>2. Steady(al, o, hd, hdr', gc', col, stack', b, ran', Null)
      BY ONLY <3>1, <1>5, <1>6, <1>7, <1>10, AddRooted
    <3> QED
      BY <3>1, <3>2, <1>5
  <2> QED
    BY <2>1, <2>2, <2>3
<1> QED
  BY <1>8, <1>9, <1>10

\* A new object or array.
LEMMA NewNode ==
    ASSUME NEW al, NEW o, NEW hd, NEW h, NEW g, NEW c, NEW st, NEW b, NEW rn,
           Steady(al, o, hd, h, g, c, st, b, rn, Null), NEW n \in Node, n \notin al,
           NEW al2 \in SUBSET Node, \A y \in Node : y \in al2 <=> y \in al \/ y = n,
           NEW hd2 \in SUBSET Node, \A y \in Node : y \in hd2 <=> y \in hd \/ y = n,
           NEW rn2 \in SUBSET Node, \A y \in Node : y \in rn2 <=> y \in rn /\ y # n,
           NEW o2 \in [Node -> SUBSET Node], \A y \in Node : y # n => o2[y] = o[y], o2[n] = {},
           NEW h2 \in [Node -> Hdr], \A y \in Node : y # n => h2[y] = h[y],
           h2[n].rc = 1, h2[n].color = "black", h2[n].addr = 0, ~h2[n].null,
           ~h2[n].dtored, ~h2[n].freed
    PROVE  Steady(al2, o2, hd2, h2, g, c, st, b, rn2, Null)
<1>0. /\ Types(al, o, hd, h, g, c, st, rn) /\ RcOK(al, o, hd, h, st, b, Null, {})
      /\ Closed(al, o, hd, Null) /\ EfreeOK(al, o, hd, h, st, Null)
      /\ DeadOK(al, o, hd, h, st, Gar(g), Null) /\ GarOK(al, o, hd, h, st, Gar(g))
      /\ ApartOK(al, o, c, st, Gar(g)) /\ EmptyOK(al, o, h, g, c, st, b) /\ BufOK(al, h, g)
      /\ StackOK(al, h, g, c, st) /\ DtorOK(al, h, Gar(g), rn) /\ ColorOK(h, g) /\ TagOK(g, c)
  BY DEF Steady
<1>1. /\ al \in SUBSET Node /\ h \in [Node -> Hdr] /\ st \in Seq(Frame) /\ g \in Globals
      /\ o \in [Node -> SUBSET Node] /\ Null \notin Node /\ hd \in SUBSET Node
      /\ hd \subseteq al /\ \A m \in al : o[m] \subseteq al
      /\ \A y \in Arr : ~h[y].freed /\ y \in Node
  BY <1>0, NullAssumption, KindAssumption DEF Types, Closed
<1>2. /\ n \notin hd /\ \A m \in al : n \notin o[m] /\ m # n
      /\ \A k \in 1..Len(st) : st[k].obj # n
      /\ \A i \in Used(g) : g.buf[i].ref \in al /\ g.buf[i].ref # n
      /\ h[n].addr = 0 /\ n \notin Gar(g)
  <2>1. \A k \in 1..Len(st) : st[k].obj # n
    BY <1>0, <1>1 DEF StackOK
  <2>2. \A i \in Used(g) : g.buf[i].ref \in al
    BY <1>0 DEF BufOK, Entries
  <2>3. h[n].addr = 0
    BY <1>0, <2>2 DEF BufOK, Entries
  <2>4. n \notin Gar(g)
    BY <1>0 DEF GarOK
  <2> QED
    BY <1>1, <2>1, <2>2, <2>3, <2>4
<1>3. \A y \in al2 : y = n \/ y \in al
  OBVIOUS
<1>4. \A y \in al : Lone(al, o, hd, st, Null, y) => Lone(al2, o2, hd2, st, Null, y)
  <2> SUFFICES ASSUME NEW y \in al, Lone(al, o, hd, st, Null, y)
               PROVE  Lone(al2, o2, hd2, st, Null, y)
    OBVIOUS
  <2>1. \A m \in al2 : y \notin o2[m]
    BY <1>1, <1>3 DEF Lone
  <2> QED
    BY <2>1, <1>1, <1>2 DEF Lone
<1>5. Types(al2, o2, hd2, h2, g, c, st, rn2)
  BY <1>0, <1>1 DEF Types
<1>6. BufOK(al2, h2, g)
  <2>1. Retagged(g, g)
    BY <1>0 DEF Retagged, BufOK, Entries
  <2>2. g.buf_size <= g.buf_size /\ g.buf_size <= MaxBufSize /\ g.threshold <= g.buf_size
    BY <1>0, <1>1, BufferAssumption DEF BufOK, Entries, Globals
  <2>3. /\ \A y \in Node : h2[y].addr = h[y].addr
        /\ \A y \in al : y \in al2 \/ h[y].addr = 0
    BY <1>1, <1>2
  <2>4. BufOK(al, h, g)
    BY <1>0
  <2> QED
    BY ONLY <2>1, <2>2, <2>3, <2>4, <1>1, BufSame, al2 \in SUBSET Node, h2 \in [Node -> Hdr]
<1>7. StackOK(al2, h2, g, c, st)
  <2>1. \A k \in 1..Len(st) : st[k].fn # "gc" =>
           /\ st[k].obj \in al2 /\ (Dead(h, st[k].obj) => Dead(h2, st[k].obj))
           /\ h[st[k].obj].addr # 0 => h2[st[k].obj].addr # 0
    <3> SUFFICES ASSUME NEW k \in 1..Len(st), st[k].fn # "gc"
                 PROVE  st[k].obj \in al2 /\ h2[st[k].obj] = h[st[k].obj]
      BY DEF Dead
    <3>1. st[k].obj \in al /\ st[k].obj # n
      BY <1>0, <1>2 DEF StackOK
    <3> QED
      BY <3>1, <1>1
  <2> QED
    BY ONLY <2>1, <1>0, <1>1, StackKeep
<1>8. RcOK(al2, o2, hd2, h2, st, b, Null, {})
  <2>1. ASSUME NEW y \in al2
        PROVE  /\ h2[y].rc >= Refs(al2, o2, hd2, st, y) + One(y = Null)
               /\ ~b => h2[y].rc = Refs(al2, o2, hd2, st, y) + One(y = Null)
    <3>1. CASE y = n
      <4>1. Edges(al2, o2, y) = {}
        BY <3>1, <1>2, <1>3 DEF Edges
      <4>2. Holders(st, y) = {}
        BY <3>1, <1>2 DEF Holders, Holds
      <4>3. Cardinality(Edges(al2, o2, y)) = 0 /\ Cardinality(Holders(st, y)) = 0
        BY <4>1, <4>2, FS_EmptySet
      <4>4. One(y \in hd2) = 1 /\ One(y = Null) = 0
        BY <3>1, <1>1 DEF One
      <4>5. Refs(al2, o2, hd2, st, y) = 1
        BY <4>3, <4>4 DEF Refs
      <4> QED
        BY <4>4, <4>5, <3>1
    <3>2. CASE y # n
      <4>1. y \in al /\ h2[y] = h[y] /\ (y \in hd2 <=> y \in hd)
        BY <3>2, <1>1
      <4>2. Edges(al2, o2, y) = Edges(al, o, y)
        BY <3>2, <1>1, <1>2, <1>3 DEF Edges
      <4>3. Refs(al2, o2, hd2, st, y) = Refs(al, o, hd, st, y)
        BY <4>1, <4>2 DEF Refs
      <4>4. /\ h[y].rc >= Refs(al, o, hd, st, y) + One(y = Null)
            /\ ~b => h[y].rc = Refs(al, o, hd, st, y) + One(y = Null)
        <5>1. RcOK(al, o, hd, h, st, b, Null, {})
          BY <1>0
        <5> QED
          BY ONLY <4>1, <5>1, <1>1, RcPlain
      <4> QED
        BY <4>1, <4>3, <4>4
    <3> QED
      BY <3>1, <3>2
  <2> QED
    BY ONLY <2>1, RcPlain, al2 \in SUBSET Node, h2 \in [Node -> Hdr]
<1>9. Closed(al2, o2, hd2, Null)
  <2>1. \A m \in al2 : o2[m] \subseteq al2
    BY <1>1, <1>2, <1>3
  <2> QED
    BY <2>1, <1>1 DEF Closed
<1>10. EfreeOK(al2, o2, hd2, h2, st, Null)
  <2>1. \A k \in 1..Len(st) : st[k].fn = "efree" =>
           /\ st[k].obj \in al /\ h2[st[k].obj] = h[st[k].obj] /\ o2[st[k].obj] = o[st[k].obj]
    BY <1>0, <1>1, <1>2 DEF StackOK
  <2> QED
    BY <2>1, <1>0, <1>4 DEF EfreeOK, Dead
<1>11. \A y \in al : h2[y] = h[y] /\ o2[y] = o[y] /\ y # n /\ (Dead(h2, y) <=> Dead(h, y))
  BY <1>1, <1>2 DEF Dead
<1>12. ~Dead(h2, n)
  BY DEF Dead
<1>13. DeadOK(al2, o2, hd2, h2, st, Gar(g), Null)
  BY <1>0, <1>3, <1>4, <1>11, <1>12 DEF DeadOK
<1>14. GarOK(al2, o2, hd2, h2, st, Gar(g))
  <2> SUFFICES ASSUME NEW y \in Gar(g)
               PROVE  /\ y \in al2 /\ y \notin hd2
                      /\ \A k \in 1..Len(st) : st[k].obj = y => st[k].fn \in {"gcfree", "free", "efree"}
                      /\ \A m \in al2 : y \in o2[m] => m \in Gar(g) \/ Dead(h2, m)
    BY DEF GarOK
  <2>1. /\ y \in al /\ y \notin hd /\ y # n
        /\ \A k \in 1..Len(st) : st[k].obj = y => st[k].fn \in {"gcfree", "free", "efree"}
        /\ \A m \in al : y \in o[m] => m \in Gar(g) \/ Dead(h, m)
    BY <1>0, <1>2 DEF GarOK
  <2> QED
    BY <2>1, <1>1, <1>3, <1>11
<1>15. ApartOK(al2, o2, c, st, Gar(g))
  <2>1. \A y \in Gar(g), m \in al2 : y \in o2[m] => m \in al /\ y \in o[m]
    BY <1>3, <1>11
  <2> QED
    BY <2>1, <1>0 DEF ApartOK
<1>16. EmptyOK(al2, o2, h2, g, c, st, b)
  <2>1. \A i \in Used(g) : o2[g.buf[i].ref] = o[g.buf[i].ref]
    BY <1>2, <1>11
  <2> QED
    BY <2>1, <1>0, <1>3, <1>11, <1>12 DEF EmptyOK
<1>17. DtorOK(al2, h2, Gar(g), rn2)
  BY <1>0, <1>1, <1>2, <1>3, <1>11, <1>12 DEF DtorOK
<1>18. ColorOK(h2, g)
  <2>1. \A y \in Node : h2[y].color \in {"black", "purple"} /\ (h2[y].addr = 0 => h2[y].color = "black")
    BY <1>0 DEF ColorOK
  <2> QED
    BY <2>1, <1>0, <1>2, <1>11 DEF ColorOK
<1>19. TagOK(g, c)
  BY <1>0
<1> QED
  BY ONLY <1>5, <1>6, <1>7, <1>8, <1>9, <1>10, <1>13, <1>14, <1>15, <1>16, <1>17, <1>18, <1>19 DEF Steady

\* The state between the traversals, and the next one.
Calm == col.pc \in SteadyPcs /\ Steady(alloc, out, held, hdr, gc, col, stack, bailed, ran, Null)

\* The program allocates a node.
LEMMA NewCalm == ASSUME NEW n \in Node, Calm, New(n) PROVE Calm'
<1>1. /\ alloc \in SUBSET Node /\ held \in SUBSET Node /\ ran \in SUBSET Node
      /\ out \in [Node -> SUBSET Node] /\ hdr \in [Node -> Hdr]
  BY DEF Calm, Steady, Types
<1>2. /\ n \notin alloc /\ alloc' = alloc \union {n} /\ held' = held \union {n}
      /\ out' = [out EXCEPT ![n] = {}] /\ ran' = ran \ {n}
      /\ hdr' = [hdr EXCEPT ![n] = [FreshHdr EXCEPT !.rc = 1]]
      /\ gc' = gc /\ col' = col /\ stack' = stack /\ bailed' = bailed
  BY DEF New
<1>3. /\ alloc' \in SUBSET Node /\ \A y \in Node : y \in alloc' <=> y \in alloc \/ y = n
      /\ held' \in SUBSET Node /\ \A y \in Node : y \in held' <=> y \in held \/ y = n
      /\ ran' \in SUBSET Node /\ \A y \in Node : y \in ran' <=> y \in ran /\ y # n
  BY <1>1, <1>2
<1>4. /\ out' \in [Node -> SUBSET Node] /\ \A y \in Node : y # n => out'[y] = out[y]
      /\ out'[n] = {}
  BY <1>1, <1>2
<1> DEFINE f == [FreshHdr EXCEPT !.rc = 1]
<1>5. /\ f \in Hdr /\ f.rc = 1 /\ f.color = "black" /\ f.addr = 0 /\ ~f.null
      /\ ~f.dtored /\ ~f.freed
  <2>1. f = [FreshHdr EXCEPT !.rc = 1]
    OBVIOUS
  <2> HIDE DEF f
  <2>2. f = [rc |-> 1, color |-> "black", addr |-> 0, null |-> FALSE, dtored |-> FALSE,
             freed |-> FALSE]
    BY ONLY <2>1 DEF FreshHdr
  <2> QED
    BY ONLY <2>2 DEF Hdr, Colors
<1>6. hdr' = [hdr EXCEPT ![n] = f]
  BY <1>2
<1> HIDE DEF f
<1>7. /\ hdr' \in [Node -> Hdr] /\ \A y \in Node : y # n => hdr'[y] = hdr[y]
      /\ hdr'[n] = f
  BY <1>1, <1>5, <1>6
<1>8. /\ hdr'[n].rc = 1 /\ hdr'[n].color = "black" /\ hdr'[n].addr = 0 /\ ~hdr'[n].null
      /\ ~hdr'[n].dtored /\ ~hdr'[n].freed
  BY <1>5, <1>7
<1>9. Steady(alloc, out, held, hdr, gc, col, stack, bailed, ran, Null)
  BY DEF Calm
<1>10. Steady(alloc', out', held', hdr', gc, col, stack, bailed, ran', Null)
  <2>1. n \notin alloc
    BY <1>2
  <2>2. hdr' \in [Node -> Hdr] /\ \A y \in Node : y # n => hdr'[y] = hdr[y]
    BY <1>7
  <2> QED
    BY ONLY <2>1, <2>2, <1>3, <1>4, <1>8, <1>9, NewNode
<1> QED
  BY <1>2, <1>10 DEF Calm

\* The program's next call is not made by the collector, and what it can
\* name is alive.
LEMMA ProgramTop ==
    ASSUME Calm, ProgramRuns
    PROVE  /\ stack # <<>> => stack[Len(stack)].fn # "gc"
           /\ \A m \in Named : m \in held \/ \E k \in 1..Len(stack) : stack[k].fn = "dtor" /\ stack[k].obj = m
<1>1. stack \in Seq(Frame)
  BY DEF Calm, Steady, Types
<1>2. stack # <<>> => stack[Len(stack)].fn = "dtor" /\ Len(stack) \in 1..Len(stack)
  BY <1>1 DEF ProgramRuns, Running
<1> QED
  BY <1>2 DEF Named, Running, This

\* The program takes a reference to a node that it reaches.
LEMMA TakeCalm == ASSUME NEW n \in Node, Calm, Take(n) PROVE Calm'
<1>0. Steady(alloc, out, held, hdr, gc, col, stack, bailed, ran, Null)
  BY DEF Calm
<1>1. /\ alloc \in SUBSET Node /\ held \in SUBSET Node /\ hdr \in [Node -> Hdr]
      /\ EfreeOK(alloc, out, held, hdr, stack, Null)
  BY <1>0 DEF Steady, Types
<1>2. /\ ProgramRuns /\ n \notin held /\ (n \in Named \/ \E m \in Named : n \in out[m])
      /\ held' = held \union {n} /\ hdr' = [hdr EXCEPT ![n].rc = @ + 1]
      /\ alloc' = alloc /\ out' = out /\ gc' = gc /\ col' = col /\ stack' = stack
      /\ bailed' = bailed /\ ran' = ran
  BY DEF Take
<1>3. \A m \in Named : m \in held \/ \E k \in 1..Len(stack) : stack[k].fn = "dtor" /\ stack[k].obj = m
  BY <1>2, ProgramTop
<1>4. \A m \in Named : /\ m \in alloc /\ ~Dead(hdr, m) /\ m \notin Gar(gc)
                       /\ \A y \in out[m] : y \in alloc /\ ~Dead(hdr, y) /\ y \notin Gar(gc)
  BY ONLY <1>0, <1>3, Alive
<1>5. n \in alloc /\ ~Dead(hdr, n) /\ n \notin Gar(gc)
  BY <1>2, <1>4
<1>6. Counted(hdr, n, 1, hdr')
  <2> DEFINE d == 1
  <2>1. d \in Int /\ hdr' = [hdr EXCEPT ![n].rc = @ + d] /\ n \in Node
    BY <1>2
  <2> HIDE DEF d
  <2>2. Counted(hdr, n, d, hdr')
    BY ONLY <2>1, <1>1, CountFacts
  <2> QED
    BY <2>2 DEF d
<1>7. \A k \in 1..Len(stack) : stack[k].fn = "efree" => stack[k].obj # n
  BY <1>1, <1>5 DEF EfreeOK
<1>8. hdr[n].freed => hdr[n].null
  BY <1>5 DEF Dead
<1>9. Steady(alloc, out, held, hdr', gc, col, stack, bailed, ran, n)
  <2>1. /\ hdr' \in [Node -> Hdr] /\ SameFlags(hdr, hdr') /\ hdr'[n].rc = hdr[n].rc + 1
        /\ \A y \in Node : y # n => hdr'[y].rc = hdr[y].rc
    BY ONLY <1>6 DEF Counted
  <2> QED
    BY ONLY <2>1, <1>0, <1>5, <1>7, <1>8, Increment
<1>10. held' \in SUBSET Node /\ \A y \in Node : y \in held' <=> y \in held \/ y = n
  BY <1>1, <1>2
<1>11. Steady(alloc, out, held', hdr', gc, col, stack, bailed, ran, Null)
  BY ONLY <1>2, <1>5, <1>9, <1>10, AddHeld
<1> QED
  BY <1>2, <1>11 DEF Calm

\* A variable goes out of scope.
LEMMA DropVariableCalm ==
    ASSUME NEW n \in Node, Calm, DropVariable(n), ~gc.full, ~gc'.full
    PROVE  Calm'
<1>0. Steady(alloc, out, held, hdr, gc, col, stack, bailed, ran, Null) /\ col.pc \in SteadyPcs
  BY DEF Calm
<1>1. held \in SUBSET Node /\ Closed(alloc, out, held, Null)
  BY <1>0 DEF Steady, Types
<1>2. /\ ProgramRuns /\ n \in held /\ held' = held \ {n} /\ Release(n, stack)
      /\ alloc' = alloc /\ out' = out /\ bailed' = bailed
  BY DEF DropVariable
<1>3. stack # <<>> => stack[Len(stack)].fn # "gc"
  BY <1>2, ProgramTop
<1>4. held' \in SUBSET Node /\ \A y \in Node : y \in held' <=> y \in held /\ y # n
  BY <1>1, <1>2
<1>5. Steady(alloc, out, held', hdr, gc, col, stack, bailed, ran, n)
  BY ONLY <1>0, <1>2, <1>4, DropHeld
<1>6. n \in alloc /\ ~gc.full /\ ~gc'.full
  BY <1>1, <1>2 DEF Closed
<1>7. Steady(alloc, out, held', hdr', gc', col', stack', bailed, ran', Null) /\ col'.pc \in SteadyPcs
  BY ONLY <1>0, <1>2, <1>3, <1>5, <1>6, Released
<1> QED
  BY <1>2, <1>7 DEF Calm

\* The program stores a reference in a node.
LEMMA SetElementCalm == ASSUME NEW m \in Node, NEW n \in Node, Calm, SetElement(m, n) PROVE Calm'
<1>0. Steady(alloc, out, held, hdr, gc, col, stack, bailed, ran, Null)
  BY DEF Calm
<1>1. /\ alloc \in SUBSET Node /\ out \in [Node -> SUBSET Node] /\ hdr \in [Node -> Hdr]
      /\ EfreeOK(alloc, out, held, hdr, stack, Null)
  BY <1>0 DEF Steady, Types
<1>2. /\ ProgramRuns /\ m \in Named /\ n \in Named /\ n \notin out[m]
      /\ out' = [out EXCEPT ![m] = @ \union {n}] /\ hdr' = [hdr EXCEPT ![n].rc = @ + 1]
      /\ alloc' = alloc /\ held' = held /\ gc' = gc /\ col' = col /\ stack' = stack
      /\ bailed' = bailed /\ ran' = ran
  BY DEF SetElement, Writable
<1>3. \A y \in Named : y \in held \/ \E k \in 1..Len(stack) : stack[k].fn = "dtor" /\ stack[k].obj = y
  BY <1>2, ProgramTop
<1>4. \A y \in Named : y \in alloc /\ ~Dead(hdr, y) /\ y \notin Gar(gc)
  BY ONLY <1>0, <1>3, Alive
<1>5. n \in alloc /\ ~Dead(hdr, n) /\ n \notin Gar(gc) /\ m \in alloc /\ ~Dead(hdr, m) /\ m \notin Gar(gc)
  BY <1>2, <1>4
<1>6. Counted(hdr, n, 1, hdr')
  <2> DEFINE d == 1
  <2>1. d \in Int /\ hdr' = [hdr EXCEPT ![n].rc = @ + d] /\ n \in Node
    BY <1>2
  <2> HIDE DEF d
  <2>2. Counted(hdr, n, d, hdr')
    BY ONLY <2>1, <1>1, CountFacts
  <2> QED
    BY <2>2 DEF d
<1>7. \A k \in 1..Len(stack) : stack[k].fn = "efree" => stack[k].obj # n
  BY <1>1, <1>5 DEF EfreeOK
<1>8. hdr[n].freed => hdr[n].null
  BY <1>5 DEF Dead
<1>9. Steady(alloc, out, held, hdr', gc, col, stack, bailed, ran, n) /\ ~Dead(hdr', m)
  <2>1. /\ hdr' \in [Node -> Hdr] /\ SameFlags(hdr, hdr') /\ hdr'[n].rc = hdr[n].rc + 1
        /\ \A y \in Node : y # n => hdr'[y].rc = hdr[y].rc
    BY ONLY <1>6 DEF Counted
  <2>2. ~Dead(hdr', m)
    BY <2>1, <1>5 DEF SameFlags, SameMarks, Dead
  <2> QED
    BY ONLY <2>1, <2>2, <1>0, <1>5, <1>7, <1>8, Increment
<1>10. /\ out' \in [Node -> SUBSET Node] /\ \A y \in Node : y # m => out'[y] = out[y]
       /\ out'[m] = out[m] \union {n}
  BY <1>1, <1>2
<1>11. Steady(alloc, out', held, hdr', gc, col, stack, bailed, ran, Null)
  <2>1. n \notin out[m]
    BY <1>2
  <2> QED
    BY ONLY <2>1, <1>5, <1>9, <1>10, AddEdge
<1> QED
  BY <1>2, <1>11 DEF Calm

\* The program removes a reference from a node.
LEMMA UnsetElementCalm ==
    ASSUME NEW m \in Node, NEW n \in Node, Calm, UnsetElement(m, n), ~gc.full, ~gc'.full
    PROVE  Calm'
<1>0. Steady(alloc, out, held, hdr, gc, col, stack, bailed, ran, Null) /\ col.pc \in SteadyPcs
  BY DEF Calm
<1>1. out \in [Node -> SUBSET Node] /\ Closed(alloc, out, held, Null)
  BY <1>0 DEF Steady, Types
<1>2. /\ ProgramRuns /\ m \in Named /\ n \in out[m] /\ out' = [out EXCEPT ![m] = @ \ {n}]
      /\ Release(n, stack) /\ alloc' = alloc /\ held' = held /\ bailed' = bailed
  BY DEF UnsetElement, Writable
<1>3. /\ stack # <<>> => stack[Len(stack)].fn # "gc"
      /\ \A y \in Named : y \in held \/ \E k \in 1..Len(stack) : stack[k].fn = "dtor" /\ stack[k].obj = y
  BY <1>2, ProgramTop
<1>4. \A y \in Named : y \in alloc
  BY ONLY <1>0, <1>3, Alive
<1>5. /\ out' \in [Node -> SUBSET Node] /\ \A y \in Node : y # m => out'[y] = out[y]
      /\ out'[m] = out[m] \ {n}
  BY <1>1, <1>2
<1>6. m \in alloc /\ n \in alloc /\ ~gc.full /\ ~gc'.full
  BY <1>1, <1>2, <1>4 DEF Closed
<1>7. Steady(alloc, out', held, hdr, gc, col, stack, bailed, ran, n)
  <2>1. n \in out[m]
    BY <1>2
  <2> QED
    BY ONLY <2>1, <1>0, <1>5, <1>6, DropEdge
<1>8. Steady(alloc, out', held, hdr', gc', col', stack', bailed, ran', Null) /\ col'.pc \in SteadyPcs
  BY ONLY <1>0, <1>2, <1>3, <1>6, <1>7, Released
<1> QED
  BY <1>2, <1>8 DEF Calm

\* The program calls gc_collect_cycles().
LEMMA CollectCalm == ASSUME Calm, ZEND_FUNCTION_gc_collect_cycles PROVE Calm'
<1>0. Steady(alloc, out, held, hdr, gc, col, stack, bailed, ran, Null) /\ col.pc \in SteadyPcs
  BY DEF Calm
<1>1. /\ ProgramRuns /\ gc_collect_cycles(hdr, stack) /\ alloc' = alloc /\ out' = out
      /\ held' = held /\ bailed' = bailed /\ ran' = ran
  BY DEF ZEND_FUNCTION_gc_collect_cycles, heap
<1>2. stack # <<>> => stack[Len(stack)].fn # "gc"
  BY <1>1, ProgramTop
<1>3. Steady(alloc, out, held, hdr', gc', col', stack', bailed, ran, Null) /\ col'.pc \in SteadyPcs
  BY ONLY <1>0, <1>1, <1>2, CollectCycles
<1> QED
  BY <1>1, <1>3 DEF Calm

\* The sizes and the flags of the collector change, the entries do not.
Regulates(g, g2) ==
    /\ g2 \in Globals /\ g2.buf = g.buf /\ g2.first_unused = g.first_unused
    /\ g2.active = g.active
\* The invariant does not depend on the sizes and flags of the globals.
LEMMA Regulated ==
    ASSUME NEW al, NEW o, NEW hd, NEW h, NEW g, NEW c, NEW st, NEW b, NEW rn, NEW x,
           Steady(al, o, hd, h, g, c, st, b, rn, x), NEW g2, Regulates(g, g2), BufOK(al, h, g2)
    PROVE  Steady(al, o, hd, h, g2, c, st, b, rn, x)
<1>0. /\ Types(al, o, hd, h, g, c, st, rn) /\ RcOK(al, o, hd, h, st, b, x, {})
      /\ Closed(al, o, hd, x) /\ EfreeOK(al, o, hd, h, st, x)
      /\ DeadOK(al, o, hd, h, st, Gar(g), x) /\ GarOK(al, o, hd, h, st, Gar(g))
      /\ ApartOK(al, o, c, st, Gar(g)) /\ EmptyOK(al, o, h, g, c, st, b) /\ BufOK(al, h, g2)
      /\ StackOK(al, h, g, c, st) /\ DtorOK(al, h, Gar(g), rn) /\ ColorOK(h, g) /\ TagOK(g, c)
  BY DEF Steady
<1>1. g2 \in Globals /\ g2.buf = g.buf /\ g2.first_unused = g.first_unused /\ g2.active = g.active
  BY DEF Regulates
<1>2. Used(g2) = Used(g)
  BY ONLY <1>1 DEF Used
<1>3. Gar(g2) = Gar(g)
  BY ONLY <1>1, <1>2 DEF Gar, Tagged
<1>4. Types(al, o, hd, h, g2, c, st, rn)
  BY ONLY <1>0, <1>1 DEF Types
<1>5. StackOK(al, h, g2, c, st)
  BY ONLY <1>0, <1>1 DEF StackOK
<1>6. EmptyOK(al, o, h, g2, c, st, b)
  BY ONLY <1>0, <1>1, <1>2 DEF EmptyOK
<1>7. ColorOK(h, g2) /\ TagOK(g2, c)
  BY ONLY <1>0, <1>1, <1>2 DEF ColorOK, TagOK
<1> QED
  BY ONLY <1>0, <1>3, <1>4, <1>5, <1>6, <1>7 DEF Steady

\* The program turns the collector on or off.
LEMMA EnableCalm == ASSUME NEW on \in BOOLEAN, Calm, gc_enable(on) PROVE Calm'
<1>0. Steady(alloc, out, held, hdr, gc, col, stack, bailed, ran, Null) /\ col.pc \in SteadyPcs
  BY DEF Calm
<1>1. gc \in Globals /\ BufOK(alloc, hdr, gc)
  BY <1>0 DEF Steady, Types
<1>2. /\ gc' = [gc EXCEPT !.enabled = on] /\ alloc' = alloc /\ out' = out /\ held' = held
      /\ hdr' = hdr /\ col' = col /\ stack' = stack /\ bailed' = bailed /\ ran' = ran
  BY DEF gc_enable, heap
<1>3. /\ gc' \in Globals /\ gc'.buf = gc.buf /\ gc'.first_unused = gc.first_unused
      /\ gc'.unused = gc.unused /\ gc'.num_roots = gc.num_roots /\ gc'.buf_size = gc.buf_size
      /\ gc'.threshold = gc.threshold /\ gc'.active = gc.active
  <2>1. on \in BOOLEAN
    OBVIOUS
  <2> QED
    BY ONLY <1>1, <1>2, <2>1 DEF Globals
<1>4. BufOK(alloc, hdr, gc')
  BY ONLY <1>1, <1>3 DEF BufOK, Entries, Listed, UnusedAt, Used
<1>5. Regulates(gc, gc')
  BY ONLY <1>3 DEF Regulates
<1>6. Steady(alloc, out, held, hdr, gc', col, stack, bailed, ran, Null)
  BY ONLY <1>0, <1>4, <1>5, Regulated
<1> QED
  BY <1>0, <1>2, <1>6 DEF Calm

\* A bailout drops all calls in progress.
LEMMA Bail ==
    ASSUME NEW al, NEW o, NEW hd, NEW h, NEW g, NEW c, NEW st, NEW b, NEW rn,
           Steady(al, o, hd, h, g, c, st, b, rn, Null),
           NEW c2 \in Locals, c2.pc = "idle", c2.todo = {}, c2.btodo = {}, NEW st2, st2 = <<>>
    PROVE  Steady(al, o, hd, h, g, c2, st2, TRUE, rn, Null)
<1>0. /\ Types(al, o, hd, h, g, c, st, rn) /\ RcOK(al, o, hd, h, st, b, Null, {})
      /\ Closed(al, o, hd, Null)
      /\ DeadOK(al, o, hd, h, st, Gar(g), Null) /\ GarOK(al, o, hd, h, st, Gar(g))
      /\ DtorOK(al, h, Gar(g), rn) /\ ColorOK(h, g) /\ TagOK(g, c) /\ BufOK(al, h, g)
  BY DEF Steady
<1>1. /\ al \in SUBSET Node /\ h \in [Node -> Hdr] /\ st \in Seq(Frame)
  BY <1>0 DEF Types
<1>2. st2 \in Seq(Frame) /\ Len(st2) = 0 /\ \A k \in 1..Len(st2) : FALSE
  OBVIOUS
<1>3. Types(al, o, hd, h, g, c2, st2, rn)
  BY <1>0, <1>2 DEF Types
<1>4. RcOK(al, o, hd, h, st2, TRUE, Null, {})
  <2>1. ASSUME NEW y \in al
        PROVE  h[y].rc >= Refs(al, o, hd, st2, y) + One(y = Null)
    <3>1. h[y].rc >= Refs(al, o, hd, st, y) + One(y = Null)
      BY ONLY <1>0, <1>1, y \in al, RcPlain
    <3>2. Cardinality(Holders(st, y)) \in Nat /\ Cardinality(Edges(al, o, y)) \in Nat
      BY <1>1, RefsFacts
    <3>3. Cardinality(Holders(st2, y)) = 0
      <4>1. Holders(st2, y) = {}
        BY <1>2 DEF Holders
      <4> QED
        BY <4>1, FS_EmptySet
    <3>4. h[y].rc \in Int /\ One(y = Null) \in Int /\ One(y \in hd) \in Int
      BY <1>1 DEF Hdr, One
    <3> QED
      BY ONLY <3>1, <3>2, <3>3, <3>4 DEF Refs
  <2>2. TRUE
    OBVIOUS
  <2> QED
    BY ONLY <2>1, <1>1, RcPlain
<1>5. StackOK(al, h, g, c2, st2)
  BY <1>2 DEF StackOK
<1>6. EfreeOK(al, o, hd, h, st2, Null) /\ ApartOK(al, o, c2, st2, Gar(g)) /\ EmptyOK(al, o, h, g, c2, st2, TRUE)
  BY <1>2 DEF EfreeOK, ApartOK, EmptyOK, InGC
<1>7. DeadOK(al, o, hd, h, st2, Gar(g), Null)
  BY <1>0, <1>2 DEF DeadOK, Lone
<1>8. GarOK(al, o, hd, h, st2, Gar(g))
  BY <1>0, <1>2 DEF GarOK
<1>9. TagOK(g, c2)
  BY <1>0 DEF TagOK
<1> QED
  BY ONLY <1>0, <1>3, <1>4, <1>5, <1>6, <1>7, <1>8, <1>9 DEF Steady

\* The locals of a collection that is not under way.
LEMMA IdleFacts == Idle \in Locals /\ Idle.pc = "idle" /\ Idle.todo = {} /\ Idle.btodo = {}
BY DEF Idle, Locals, Pcs

\* A bailout abandons the calls and protects the collector.
LEMMA BailoutCalm == ASSUME Calm, _zend_bailout PROVE Calm'
<1>0. Steady(alloc, out, held, hdr, gc, col, stack, bailed, ran, Null) /\ col.pc \in SteadyPcs
  BY DEF Calm
<1>1. gc \in Globals /\ BufOK(alloc, hdr, gc)
  BY <1>0 DEF Steady, Types
<1>2. /\ gc' = [gc EXCEPT !.protected = TRUE] /\ alloc' = alloc /\ out' = out /\ held' = held
      /\ hdr' = hdr /\ col' = Idle /\ stack' = <<>> /\ bailed' = TRUE /\ ran' = ran
  BY DEF _zend_bailout, heap
<1>3. /\ gc' \in Globals /\ gc'.buf = gc.buf /\ gc'.first_unused = gc.first_unused
      /\ gc'.unused = gc.unused /\ gc'.num_roots = gc.num_roots /\ gc'.buf_size = gc.buf_size
      /\ gc'.threshold = gc.threshold /\ gc'.active = gc.active
  BY ONLY <1>1, <1>2 DEF Globals
<1>4. BufOK(alloc, hdr, gc')
  BY ONLY <1>1, <1>3 DEF BufOK, Entries, Listed, UnusedAt, Used
<1>5. Regulates(gc, gc')
  BY ONLY <1>3 DEF Regulates
<1>6. Steady(alloc, out, held, hdr, gc', col, stack, bailed, ran, Null)
  BY ONLY <1>0, <1>4, <1>5, Regulated
<1>7. col' \in Locals /\ col'.pc = "idle" /\ col'.todo = {} /\ col'.btodo = {} /\ stack' = <<>>
  BY <1>2, IdleFacts
<1>8. Steady(alloc, out, held, hdr, gc', col', stack', TRUE, ran, Null)
  BY ONLY <1>6, <1>7, Bail
<1> QED
  BY <1>2, <1>7, <1>8 DEF Calm, SteadyPcs

\* The innermost call, and the stack without it.
LEMMA TopFacts ==
    ASSUME NEW al, NEW o, NEW hd, NEW h, NEW g, NEW c, NEW b, NEW rn, NEW x,
           Steady(al, o, hd, h, g, c, stack, b, rn, x), stack # <<>>
    PROVE  /\ Pop \in Seq(Frame) /\ stack[Len(stack)] \in Frame
           /\ Pushed(Pop, stack[Len(stack)], stack)
           /\ stack[Len(stack)].fn # "gc" => This \in al
           /\ stack[Len(stack)].fn \in {"dtor", "del", "full", "efree"} =>
                 (Pop # <<>> => Pop[Len(Pop)].fn # "gc")
<1>1. stack \in Seq(Frame) /\ StackOK(al, h, g, c, stack)
  BY DEF Steady, Types
<1>2. Pop \in Seq(Frame) /\ stack[Len(stack)] \in Frame /\ Pushed(Pop, stack[Len(stack)], stack)
  BY <1>1, PushPop DEF Pop
<1>3. /\ Len(stack) = Len(Pop) + 1 /\ Len(Pop) \in Nat /\ Len(stack) \in 1..Len(stack)
      /\ \A i \in 1..Len(Pop) : Pop[i] = stack[i]
  BY <1>1, <1>2 DEF Pushed
<1>4. stack[Len(stack)].fn # "gc" => This \in al
  BY <1>1, <1>3 DEF StackOK, This
<1>5. ASSUME stack[Len(stack)].fn \in {"dtor", "del", "full", "efree"}, Pop # <<>>,
             Pop[Len(Pop)].fn = "gc"
      PROVE  FALSE
  <2> DEFINE k == Len(Pop)
  <2>1. k \in 1..Len(stack) /\ k < Len(stack) /\ stack[k].fn = "gc" /\ k + 1 = Len(stack)
    <3>1. Len(Pop) # 0
      BY <1>2, <1>5
    <3>2. k \in 1..Len(Pop)
      BY <3>1, <1>3
    <3> QED
      BY <3>2, <1>3, <1>5
  <2>2. stack[k + 1].fn \in {"gcdtor", "gcfree", "free"}
    BY <2>1, <1>1 DEF StackOK
  <2> QED
    BY <2>1, <2>2, <1>5
<1> QED
  BY <1>2, <1>4, <1>5

\* A destructor returns to the call that ran it.
LEMMA DestructorReturnsCalm ==
    ASSUME Calm, DestructorReturns, ~gc.full, ~gc'.full PROVE Calm'
<1> DEFINE f == stack[Len(stack)]
<1>0. Steady(alloc, out, held, hdr, gc, col, stack, bailed, ran, Null) /\ col.pc \in SteadyPcs
  BY DEF Calm
<1>1. /\ stack # <<>> /\ f.fn = "dtor" /\ This = f.obj /\ Release(This, Pop)
      /\ alloc' = alloc /\ out' = out /\ held' = held /\ bailed' = bailed
  BY DEF DestructorReturns, Running, This, heap
<1>2. /\ Pop \in Seq(Frame) /\ Pushed(Pop, f, stack) /\ This \in alloc
      /\ (Pop # <<>> => Pop[Len(Pop)].fn # "gc")
  BY <1>0, <1>1, TopFacts
<1>3. f.fn \in Keepers
  BY <1>1 DEF Keepers
<1> DEFINE n == This
           s == Pop
<1>4. /\ n = f.obj /\ Release(n, s) /\ s \in Seq(Frame) /\ Pushed(s, f, stack) /\ n \in alloc
      /\ (s # <<>> => s[Len(s)].fn # "gc") /\ ~gc.full /\ ~gc'.full
  BY <1>1, <1>2
<1> HIDE DEF f, n, s
<1>5. Steady(alloc, out, held, hdr, gc, col, s, bailed, ran, n)
  BY ONLY <1>0, <1>3, <1>4, PopKeeper
<1>6. Steady(alloc, out, held, hdr', gc', col', stack', bailed, ran', Null) /\ col'.pc \in SteadyPcs
  BY ONLY <1>0, <1>4, <1>5, Released
<1> QED
  BY <1>1, <1>6 DEF Calm

\* A count without its reference.
Lessened(h, n, h1) ==
    /\ h1 \in [Node -> Hdr] /\ SameFlags(h, h1) /\ h1[n].rc = h[n].rc - 1
    /\ \A y \in Node : y # n => h1[y] = h[y]
    /\ \A y \in Node : y # n => h1[y].rc = h[y].rc
\* What taking one from a count does to the headers.
LEMMA LessOne ==
    ASSUME NEW h \in [Node -> Hdr], NEW n \in Node, NEW h1, h1 = [h EXCEPT ![n].rc = @ - 1]
    PROVE  Lessened(h, n, h1)
<1> DEFINE d == -1
<1>1. d \in Int /\ h[n].rc \in Int /\ h[n].rc + d = h[n].rc - 1
  BY DEF Hdr
<1>2. h1 = [h EXCEPT ![n].rc = @ + d]
  BY <1>1
<1> HIDE DEF d
<1>3. Counted(h, n, d, h1)
  BY ONLY <1>1, <1>2, CountFacts
<1> QED
  BY ONLY <1>1, <1>3 DEF Counted, Lessened

\* zend_objects_store_del goes on once the destructor has returned.
LEMMA DelResumesCalm ==
    ASSUME Calm, DelResumes PROVE Calm'
<1> DEFINE f == stack[Len(stack)]
           n == This
           s == Pop
           h1 == [hdr EXCEPT ![n].rc = @ - 1]
<1>0. Steady(alloc, out, held, hdr, gc, col, stack, bailed, ran, Null) /\ col.pc \in SteadyPcs
  BY DEF Calm
<1>1. /\ stack # <<>> /\ f.fn = "del" /\ n = f.obj /\ h1 = [hdr EXCEPT ![n].rc = @ - 1]
      /\ h1[n].rc = 0 => rc_dtor_func(h1, gc, n, s) /\ col' = col
      /\ h1[n].rc # 0 => hdr' = h1 /\ stack' = s /\ gc' = gc /\ col' = col /\ ran' = ran
      /\ alloc' = alloc /\ out' = out /\ held' = held /\ bailed' = bailed
  BY DEF DelResumes, Running, This, heap
<1>2. /\ s \in Seq(Frame) /\ Pushed(s, f, stack) /\ n \in alloc
      /\ (s # <<>> => s[Len(s)].fn # "gc")
  BY <1>0, <1>1, TopFacts
<1>3. f.fn \in Keepers /\ alloc \in SUBSET Node /\ hdr \in [Node -> Hdr]
  BY <1>0, <1>1 DEF Keepers, Steady, Types
<1> HIDE DEF f, n, s, h1
<1>5. Steady(alloc, out, held, hdr, gc, col, s, bailed, ran, n)
  BY ONLY <1>0, <1>1, <1>2, <1>3, PopKeeper
<1>6. CASE h1[n].rc = 0
  <2>1. h1 = [hdr EXCEPT ![n].rc = @ - 1] /\ rc_dtor_func(h1, gc, n, s)
    BY <1>1, <1>6
  <2>2. Steady(alloc, out, held, hdr', gc', col, stack', bailed, ran', Null)
    BY ONLY <2>1, <1>2, <1>5, <1>6, RcDtor
  <2> QED
    BY <2>2, <1>0, <1>1, <1>6 DEF Calm
<1>7. CASE h1[n].rc # 0
  <2>1. h1 = [hdr EXCEPT ![n].rc = @ - 1] /\ n \in Node
    BY <1>1, <1>2, <1>3
  <2>2. /\ h1 \in [Node -> Hdr] /\ SameFlags(hdr, h1) /\ h1[n].rc = hdr[n].rc - 1
        /\ \A y \in Node : y # n => h1[y].rc = hdr[y].rc
    <3>1. hdr \in [Node -> Hdr]
      BY <1>3
    <3>2. Lessened(hdr, n, h1)
      BY ONLY <2>1, <3>1, LessOne
    <3> QED
      BY ONLY <3>2 DEF Lessened
  <2>3. n \in Node
    BY <2>1
  <2>4. Steady(alloc, out, held, h1, gc, col, s, bailed, ran, Null)
    BY ONLY <2>2, <2>3, <1>5, Decrement
  <2> QED
    BY <2>4, <1>0, <1>1, <1>7 DEF Calm
<1> QED
  BY <1>6, <1>7

\* The collector goes on once the destructor has returned.
LEMMA CollectorResumesCalm ==
    ASSUME Calm, CollectorResumes PROVE Calm'
<1> DEFINE f == stack[Len(stack)]
           n == This
           s == Pop
<1>0. Steady(alloc, out, held, hdr, gc, col, stack, bailed, ran, Null) /\ col.pc \in SteadyPcs
  BY DEF Calm
<1>1. /\ stack # <<>> /\ f.fn \in {"gcdtor", "gcfree"} /\ n = f.obj
      /\ hdr' = [hdr EXCEPT ![n].rc = @ - 1] /\ stack' = s /\ gc' = gc /\ col' = col /\ ran' = ran
      /\ alloc' = alloc /\ out' = out /\ held' = held /\ bailed' = bailed
  BY DEF CollectorResumes, Running, This, heap
<1>2. /\ s \in Seq(Frame) /\ Pushed(s, f, stack) /\ n \in alloc
  BY <1>0, <1>1, TopFacts
<1>3. f.fn \in Keepers /\ alloc \in SUBSET Node /\ hdr \in [Node -> Hdr]
  BY <1>0, <1>1 DEF Keepers, Steady, Types
<1> HIDE DEF f, n, s
<1>5. Steady(alloc, out, held, hdr, gc, col, s, bailed, ran, n)
  BY ONLY <1>0, <1>1, <1>2, <1>3, PopKeeper
<1>6. hdr' = [hdr EXCEPT ![n].rc = @ - 1] /\ n \in Node
  BY <1>1, <1>2, <1>3
<1>7. /\ hdr' \in [Node -> Hdr] /\ SameFlags(hdr, hdr') /\ hdr'[n].rc = hdr[n].rc - 1
      /\ \A y \in Node : y # n => hdr'[y].rc = hdr[y].rc
  <2>1. hdr \in [Node -> Hdr]
    BY <1>3
  <2>2. Lessened(hdr, n, hdr')
    BY ONLY <2>1, <1>6, LessOne
  <2> QED
    BY ONLY <2>2 DEF Lessened
<1>8. n \in Node
  BY <1>6
<1>9. Steady(alloc, out, held, hdr', gc, col, s, bailed, ran, Null)
  BY ONLY <1>5, <1>7, <1>8, Decrement
<1> QED
  BY <1>9, <1>0, <1>1 DEF Calm

\* A node that is freed gives up one of its references.
LEMMA FreeChildCalm ==
    ASSUME NEW n \in Node, Calm, FreeChild(n), ~gc.full, ~gc'.full PROVE Calm'
<1> DEFINE m == This
<1>0. Steady(alloc, out, held, hdr, gc, col, stack, bailed, ran, Null) /\ col.pc \in SteadyPcs
  BY DEF Calm
<1>1. /\ stack # <<>> /\ stack[Len(stack)].fn = "free" /\ n \in out[m]
      /\ out' = [out EXCEPT ![m] = @ \ {n}] /\ Release(n, stack)
      /\ alloc' = alloc /\ held' = held /\ bailed' = bailed
  BY DEF FreeChild, Running
<1>2. m \in alloc
  BY <1>0, <1>1, TopFacts
<1>3. out \in [Node -> SUBSET Node] /\ alloc \in SUBSET Node /\ n \in alloc
  BY <1>0, <1>1, <1>2 DEF Steady, Types, Closed
<1> HIDE DEF m
<1>4. /\ out' \in [Node -> SUBSET Node] /\ \A y \in Node : y # m => out'[y] = out[y]
      /\ out'[m] = out[m] \ {n}
  BY <1>1, <1>2, <1>3
<1>5. Steady(alloc, out', held, hdr, gc, col, stack, bailed, ran, n)
  <2>1. n \in out[m]
    BY <1>1
  <2> QED
    BY ONLY <2>1, <1>0, <1>2, <1>4, DropEdge
<1>6. (stack # <<>> => stack[Len(stack)].fn # "gc") /\ ~gc.full /\ ~gc'.full /\ Release(n, stack)
  BY <1>1
<1>7. Steady(alloc, out', held, hdr', gc', col', stack', bailed, ran', Null) /\ col'.pc \in SteadyPcs
  <2>1. n \in alloc
    BY <1>3
  <2> QED
    BY ONLY <2>1, <1>0, <1>5, <1>6, Released
<1> QED
  BY <1>1, <1>7 DEF Calm

\* The references of a node are gone.
LEMMA PopFree ==
    ASSUME NEW al, NEW o, NEW hd, NEW h, NEW g, NEW c, NEW st, NEW b, NEW rn,
           Steady(al, o, hd, h, g, c, st, b, rn, Null),
           NEW st2 \in Seq(Frame), NEW f, Pushed(st2, f, st), f.fn = "free", o[f.obj] = {}
    PROVE  Steady(al, o, hd, h, g, c, st2, b, rn, Null)
<1> DEFINE n == f.obj
           k == Len(st)
<1>0. /\ Types(al, o, hd, h, g, c, st, rn) /\ RcOK(al, o, hd, h, st, b, Null, {})
      /\ Closed(al, o, hd, Null) /\ EfreeOK(al, o, hd, h, st, Null)
      /\ DeadOK(al, o, hd, h, st, Gar(g), Null) /\ GarOK(al, o, hd, h, st, Gar(g))
      /\ ApartOK(al, o, c, st, Gar(g)) /\ EmptyOK(al, o, h, g, c, st, b)
      /\ StackOK(al, h, g, c, st)
  BY DEF Steady
<1>1. /\ al \in SUBSET Node /\ h \in [Node -> Hdr] /\ st \in Seq(Frame) /\ Null \notin al
  BY <1>0, NullAssumption DEF Types
<1>2. /\ Len(st) = Len(st2) + 1 /\ Len(st2) \in Nat /\ k \in 1..Len(st) /\ st[k] = f
      /\ \A i \in 1..Len(st2) : st2[i] = st[i] /\ i \in 1..Len(st)
      /\ \A i \in 1..Len(st) : i # k => i \in 1..Len(st2)
  BY DEF Pushed
<1> HIDE DEF k
<1>3. n \in al
  BY <1>0, <1>2 DEF StackOK
<1>4. \A y \in al : Lone(al, o, hd, st, Null, y) => Lone(al, o, hd, st2, Null, y)
  BY <1>1, <1>2 DEF Lone
<1>5. Types(al, o, hd, h, g, c, st2, rn)
  BY <1>0 DEF Types
<1>6. RcOK(al, o, hd, h, st2, b, Null, {})
  <2>1. ASSUME NEW y \in al
        PROVE  Gap(al, o, hd, h, st2, Null, y) = Gap(al, o, hd, h, st, Null, y)
    <3>1. Cardinality(Holders(st2, y)) \in Nat
      BY <1>1, RefsFacts
    <3>2. Cardinality(Holders(st, y)) = Cardinality(Holders(st2, y)) + One(Holds(f, y))
      BY HoldersPush
    <3>3. One(Holds(f, y)) = 0
      BY DEF One, Holds
    <3>4. Cardinality(Holders(st, y)) = Cardinality(Holders(st2, y))
      BY ONLY <3>1, <3>2, <3>3
    <3> QED
      BY <3>4 DEF Refs, Gap
  <2> QED
    BY <2>1, <1>0, <1>1, RcMove
<1>7. Closed(al, o, hd, Null)
  BY <1>0
<1>8. StackOK(al, h, g, c, st2)
  <2>1. \A i \in 1..Len(st2) : i > 1 => i - 1 \in 1..Len(st2) /\ st2[i - 1] = st[i - 1]
    BY <1>2
  <2>2. \A i \in 1..Len(st2) : i < Len(st2) => i + 1 \in 1..Len(st2) /\ st2[i + 1] = st[i + 1] /\ i < Len(st)
    BY <1>2
  <2>3. /\ \A i \in 1..Len(st2) :
             /\ st2[i].fn # "gc" => st2[i].obj \in al
             /\ st2[i].fn = "gc" => st2[i].obj = Null
             /\ st2[i].fn = "free" => /\ Dead(h, st2[i].obj) /\ i > 1
                                      /\ \/ /\ st2[i - 1].fn \in {"efree", "gcfree"}
                                            /\ st2[i - 1].obj = st2[i].obj
                                         \/ st2[i - 1].fn = "gc" /\ st2[i].obj \in Arr
    BY <2>1, <1>0, <1>2 DEF StackOK
  <2>4. /\ \A i, j \in 1..Len(st2) : st2[i].fn = "gc" /\ st2[j].fn = "gc" => i = j
        /\ \A i, j \in 1..Len(st2) : st2[i].fn = "gc" /\ st2[j].fn = "full" => j < i
        /\ c.pc \notin {"idle", "start", "finish"} => g.active
    BY <1>0, <1>2 DEF StackOK
  <2>5. (\E i \in 1..Len(st2) : st2[i].fn = "gc") <=> c.pc # "idle"
    <3>1. (\E i \in 1..Len(st2) : st2[i].fn = "gc") <=> (\E i \in 1..Len(st) : st[i].fn = "gc")
      BY <1>2
    <3> QED
      BY <3>1, <1>0 DEF StackOK
  <2>6. \A i \in 1..Len(st2) : st2[i].fn = "gc" /\ i < Len(st2) =>
          /\ \/ c.pc = "dtors" /\ st2[i + 1].fn = "gcdtor"
             \/ c.pc = "destroy" /\ st2[i + 1].fn \in {"gcfree", "free"}
          /\ h[st2[i + 1].obj].addr # 0
    BY <2>2, <1>0, <1>2 DEF StackOK
  <2> QED
    BY <2>3, <2>4, <2>5, <2>6 DEF StackOK
<1>9. EfreeOK(al, o, hd, h, st2, Null)
  <2> SUFFICES ASSUME NEW i \in 1..Len(st2), st2[i].fn = "efree"
               PROVE  LET y == st2[i].obj
                      IN  /\ Dead(h, y) /\ Lone(al, o, hd, st2, Null, y)
                          /\ \A j \in 1..Len(st2) : st2[j].obj = y =>
                                j = i \/ (j = i + 1 /\ st2[j].fn = "free")
                          /\ o[y] = {} \/ (i + 1 \in 1..Len(st2) /\ st2[i + 1].fn = "free")
                          /\ y \in Arr => h[y].addr = 0
    BY DEF EfreeOK
  <2> DEFINE y == st2[i].obj
  <2>1. i \in 1..Len(st) /\ st[i].fn = "efree" /\ y = st[i].obj /\ y \in al
    BY <1>0, <1>2 DEF StackOK
  <2>2. /\ Dead(h, y) /\ Lone(al, o, hd, st, Null, y)
        /\ \A j \in 1..Len(st) : st[j].obj = y => j = i \/ (j = i + 1 /\ st[j].fn = "free")
        /\ o[y] = {} \/ (i + 1 \in 1..Len(st) /\ st[i + 1].fn = "free")
        /\ y \in Arr => h[y].addr = 0
    BY <2>1, <1>0 DEF EfreeOK
  <2>3. Lone(al, o, hd, st2, Null, y)
    BY <2>1, <2>2, <1>4
  <2>4. i + 1 = k => o[y] = {}
    <3> SUFFICES ASSUME i + 1 = k PROVE o[y] = {}
      OBVIOUS
    <3>1. i = k - 1 /\ st[k].fn = "free"
      BY <1>2, <2>1
    <3>2. st[k - 1].fn = "gc" \/ st[k - 1].obj = st[k].obj
      BY <3>1, <1>0, <1>2 DEF StackOK
    <3>3. st[i].obj = f.obj
      BY <3>1, <3>2, <2>1, <1>2
    <3> QED
      BY <3>3, <2>1
  <2>5. o[y] = {} \/ (i + 1 \in 1..Len(st2) /\ st2[i + 1].fn = "free")
    BY <2>2, <2>4, <1>2
  <2> QED
    BY <2>2, <2>3, <2>5, <1>2
<1>10. DeadOK(al, o, hd, h, st2, Gar(g), Null)
  BY <1>0, <1>4 DEF DeadOK
<1>11. GarOK(al, o, hd, h, st2, Gar(g))
  BY <1>0, <1>2 DEF GarOK
<1>12. ApartOK(al, o, c, st2, Gar(g))
  <2> SUFFICES ASSUME NEW j, InGC(st2, j)
               PROVE  /\ \A i \in 1..(j - 1) : st2[i].obj \notin Gar(g)
                      /\ \A y \in Gar(g), m \in al : y \in o[m] =>
                           m \in Gar(g) \/ \E i \in 1..Len(st2) : i > j /\ st2[i].fn = "free" /\ st2[i].obj = m
    BY DEF ApartOK
  <2>1. InGC(st, j) /\ j \in 1..Len(st2)
    BY <1>2 DEF InGC
  <2>2. /\ \A i \in 1..(j - 1) : st[i].obj \notin Gar(g)
        /\ \A y \in Gar(g), m \in al : y \in o[m] =>
             m \in Gar(g) \/ \E i \in 1..Len(st) : i > j /\ st[i].fn = "free" /\ st[i].obj = m
    BY <2>1, <1>0 DEF ApartOK
  <2>3. \A i \in 1..(j - 1) : st2[i] = st[i]
    BY <2>1, <1>2
  <2>4. ASSUME NEW y \in Gar(g), NEW m \in al, y \in o[m], m \notin Gar(g)
        PROVE  \E i \in 1..Len(st2) : i > j /\ st2[i].fn = "free" /\ st2[i].obj = m
    <3>1. PICK i \in 1..Len(st) : i > j /\ st[i].fn = "free" /\ st[i].obj = m
      BY <2>2, <2>4
    <3>2. i # k
      BY <3>1, <2>4, <1>2
    <3> QED
      BY <3>1, <3>2, <1>2
  <2> QED
    BY <2>2, <2>3, <2>4
<1>13. EmptyOK(al, o, h, g, c, st2, b)
  <2>1. \A y : (\E i \in 1..Len(st) : st[i].fn = "free" /\ st[i].obj = y)
               => o[y] = {} \/ (\E i \in 1..Len(st2) : st2[i].fn = "free" /\ st2[i].obj = y)
    BY <1>2
  <2>2. \A y : (\E i \in 1..Len(st) : st[i].fn = "efree" /\ st[i].obj = y)
               <=> (\E i \in 1..Len(st2) : st2[i].fn = "efree" /\ st2[i].obj = y)
    BY <1>2
  <2> QED
    BY <2>1, <2>2, <1>0 DEF EmptyOK
<1> HIDE DEF n
<1>14. Steady(al, o, hd, h, g, c, st2, b, rn, Null)
  BY <1>5, <1>6, <1>7, <1>8, <1>9, <1>10, <1>11, <1>12, <1>13 DEF Steady
<1> QED
  BY <1>14 DEF n

\* A node that is freed has given up all its references.
LEMMA FreeDoneCalm == ASSUME Calm, FreeDone PROVE Calm'
<1> DEFINE f == stack[Len(stack)]
<1>0. Steady(alloc, out, held, hdr, gc, col, stack, bailed, ran, Null) /\ col.pc \in SteadyPcs
  BY DEF Calm
<1>1. /\ stack # <<>> /\ f.fn = "free" /\ out[f.obj] = {} /\ stack' = Pop
      /\ alloc' = alloc /\ out' = out /\ held' = held /\ bailed' = bailed
      /\ hdr' = hdr /\ gc' = gc /\ col' = col /\ ran' = ran
  BY DEF FreeDone, Running, This, heap
<1>2. stack' \in Seq(Frame) /\ Pushed(stack', f, stack)
  BY <1>0, <1>1, TopFacts
<1>3. f.fn = "free" /\ out[f.obj] = {}
  BY <1>1
<1> HIDE DEF f
<1>4. Steady(alloc, out, held, hdr, gc, col, stack', bailed, ran, Null)
  BY ONLY <1>0, <1>2, <1>3, PopFree
<1> QED
  BY <1>0, <1>1, <1>4 DEF Calm

\* The memory of a node is given back.
LEMMA PopEfree ==
    ASSUME NEW al, NEW o, NEW hd, NEW h, NEW g, NEW c, NEW st, NEW b, NEW rn,
           Steady(al, o, hd, h, g, c, st, b, rn, Null),
           NEW st2 \in Seq(Frame), NEW f, Pushed(st2, f, st), f.fn = "efree",
           NEW n, n = f.obj, NEW al2 \in SUBSET Node, al2 = al \ {n},
           NEW h2 \in [Node -> Hdr], \A y \in Node : y # n => h2[y] = h[y], ~h2[n].freed,
           NEW g2, Unbuffered(al2, h2, g, n, g2)
    PROVE  Steady(al2, o, hd, h2, g2, c, st2, b, rn, Null)
<1> DEFINE k == Len(st)
<1>0. /\ Types(al, o, hd, h, g, c, st, rn) /\ RcOK(al, o, hd, h, st, b, Null, {})
      /\ Closed(al, o, hd, Null) /\ EfreeOK(al, o, hd, h, st, Null)
      /\ DeadOK(al, o, hd, h, st, Gar(g), Null) /\ GarOK(al, o, hd, h, st, Gar(g))
      /\ ApartOK(al, o, c, st, Gar(g)) /\ EmptyOK(al, o, h, g, c, st, b)
      /\ StackOK(al, h, g, c, st) /\ DtorOK(al, h, Gar(g), rn) /\ TagOK(g, c)
  BY DEF Steady
<1>1. /\ al \in SUBSET Node /\ h \in [Node -> Hdr] /\ st \in Seq(Frame) /\ Null \notin Node
      /\ o \in [Node -> SUBSET Node] /\ hd \in SUBSET Node /\ g \in Globals
      /\ \A y \in Arr : ~h[y].freed
  BY <1>0, NullAssumption DEF Types
<1>2. /\ Len(st) = Len(st2) + 1 /\ Len(st2) \in Nat /\ k \in 1..Len(st) /\ st[k] = f
      /\ \A i \in 1..Len(st2) : st2[i] = st[i] /\ i \in 1..Len(st) /\ i # k
      /\ \A i \in 1..Len(st) : i # k => i \in 1..Len(st2)
      /\ ~(k + 1 \in 1..Len(st))
  BY DEF Pushed
<1> HIDE DEF k
<1>3. /\ n \in al /\ n \in Node /\ Lone(al, o, hd, st, Null, n) /\ o[n] = {}
      /\ \A j \in 1..Len(st2) : st2[j].obj # n
  <2>1. n \in al
    BY <1>0, <1>2 DEF StackOK
  <2>2. /\ Lone(al, o, hd, st, Null, n)
        /\ o[n] = {} \/ (k + 1 \in 1..Len(st) /\ st[k + 1].fn = "free")
        /\ \A j \in 1..Len(st) : st[j].obj = n => j = k \/ (j = k + 1 /\ st[j].fn = "free")
    BY <1>0, <1>2 DEF EfreeOK
  <2>3. \A j \in 1..Len(st2) : st2[j].obj # n
    BY <2>2, <1>2
  <2> QED
    BY <2>1, <2>2, <2>3, <1>1, <1>2
<1>4. /\ n \notin hd /\ \A m \in al : n \notin o[m]
  BY <1>3 DEF Lone
<1>5. \A y \in al2 : y \in al /\ y # n /\ y \in Node /\ h2[y] = h[y] /\ (Dead(h2, y) <=> Dead(h, y))
  BY <1>1 DEF Dead
<1>6. \A y \in al2 : Lone(al, o, hd, st, Null, y) => Lone(al2, o, hd, st2, Null, y)
  BY <1>1, <1>2, <1>5 DEF Lone
<1>7. /\ g2 \in Globals /\ g2.active = g.active /\ g2.first_unused = g.first_unused
      /\ BufOK(al2, h2, g2) /\ ColorOK(h2, g2)
      /\ \A i \in Used(g2) : i \in Used(g) /\ g2.buf[i] = g.buf[i] /\ g.buf[i].ref # n
      /\ \A i \in Used(g) : g.buf[i].ref # n => i \in Used(g2)
  BY DEF Unbuffered
<1>8. \A y : y \in Gar(g2) <=> y \in Gar(g) /\ y # n
  BY ONLY <1>7 DEF Gar, Tagged
<1>9. Types(al2, o, hd, h2, g2, c, st2, rn)
  <2>1. \A y \in Arr : ~h2[y].freed
    BY <1>1, KindAssumption
  <2> QED
    BY <2>1, <1>0, <1>7 DEF Types
<1>10. StackOK(al2, h2, g2, c, st2)
  <2>0. \A i \in 1..Len(st2) : st2[i].fn # "gc" => st2[i].obj \in al2 /\ h2[st2[i].obj] = h[st2[i].obj]
    BY <1>0, <1>2, <1>3, <1>5 DEF StackOK
  <2>1. \A i \in 1..Len(st2) : i > 1 => i - 1 \in 1..Len(st2) /\ st2[i - 1] = st[i - 1]
    BY <1>2
  <2>2. \A i \in 1..Len(st2) : i < Len(st2) => i + 1 \in 1..Len(st2) /\ st2[i + 1] = st[i + 1] /\ i < Len(st)
    BY <1>2
  <2>3. /\ \A i \in 1..Len(st2) :
             /\ st2[i].fn = "gc" => st2[i].obj = Null
             /\ st2[i].fn = "free" => /\ Dead(h2, st2[i].obj) /\ i > 1
                                      /\ \/ /\ st2[i - 1].fn \in {"efree", "gcfree"}
                                            /\ st2[i - 1].obj = st2[i].obj
                                         \/ st2[i - 1].fn = "gc" /\ st2[i].obj \in Arr
    BY <2>0, <2>1, <1>0, <1>2 DEF StackOK, Dead
  <2>4. /\ \A i, j \in 1..Len(st2) : st2[i].fn = "gc" /\ st2[j].fn = "gc" => i = j
        /\ \A i, j \in 1..Len(st2) : st2[i].fn = "gc" /\ st2[j].fn = "full" => j < i
        /\ c.pc \notin {"idle", "start", "finish"} => g2.active
    BY <1>0, <1>2, <1>7 DEF StackOK
  <2>5. (\E i \in 1..Len(st2) : st2[i].fn = "gc") <=> c.pc # "idle"
    <3>1. (\E i \in 1..Len(st2) : st2[i].fn = "gc") <=> (\E i \in 1..Len(st) : st[i].fn = "gc")
      BY <1>2
    <3> QED
      BY <3>1, <1>0 DEF StackOK
  <2>6. \A i \in 1..Len(st2) : st2[i].fn = "gc" /\ i < Len(st2) =>
          /\ \/ c.pc = "dtors" /\ st2[i + 1].fn = "gcdtor"
             \/ c.pc = "destroy" /\ st2[i + 1].fn \in {"gcfree", "free"}
          /\ h2[st2[i + 1].obj].addr # 0
    <3> SUFFICES ASSUME NEW i \in 1..Len(st2), st2[i].fn = "gc", i < Len(st2)
                 PROVE  /\ \/ c.pc = "dtors" /\ st2[i + 1].fn = "gcdtor"
                           \/ c.pc = "destroy" /\ st2[i + 1].fn \in {"gcfree", "free"}
                        /\ h2[st2[i + 1].obj].addr # 0
      OBVIOUS
    <3>1. i + 1 \in 1..Len(st2) /\ st2[i + 1] = st[i + 1] /\ i < Len(st) /\ st[i].fn = "gc" /\ i \in 1..Len(st)
      BY <2>2, <1>2
    <3>2. /\ \/ c.pc = "dtors" /\ st[i + 1].fn = "gcdtor"
             \/ c.pc = "destroy" /\ st[i + 1].fn \in {"gcfree", "free"}
          /\ h[st[i + 1].obj].addr # 0
      BY <3>1, <1>0 DEF StackOK
    <3>3. h2[st2[i + 1].obj] = h[st[i + 1].obj]
      BY <3>1, <3>2, <2>0
    <3> QED
      BY <3>1, <3>2, <3>3
  <2> QED
    BY ONLY <2>0, <2>3, <2>4, <2>5, <2>6 DEF StackOK
<1>11. RcOK(al2, o, hd, h2, st2, b, Null, {})
  <2>1. ASSUME NEW y \in al2
        PROVE  y \in al /\ Gap(al2, o, hd, h2, st2, Null, y) = Gap(al, o, hd, h, st, Null, y)
    <3>1. Cardinality(Holders(st2, y)) \in Nat
      BY <1>1, RefsFacts
    <3>2. Cardinality(Holders(st, y)) = Cardinality(Holders(st2, y)) + One(Holds(f, y))
      BY HoldersPush
    <3>3. One(Holds(f, y)) = 0
      BY <1>5 DEF One, Holds
    <3>4. Cardinality(Holders(st, y)) = Cardinality(Holders(st2, y))
      BY ONLY <3>1, <3>2, <3>3
    <3>5. Edges(al2, o, y) = Edges(al, o, y)
      BY <1>3 DEF Edges
    <3> QED
      BY <3>4, <3>5, <1>5 DEF Refs, Gap
  <2> QED
    BY ONLY <2>1, <1>0, <1>1, RcMove, h2 \in [Node -> Hdr], al2 \in SUBSET Node
<1>12. Closed(al2, o, hd, Null)
  BY <1>0, <1>1, <1>4 DEF Closed
<1>13. EfreeOK(al2, o, hd, h2, st2, Null)
  <2> SUFFICES ASSUME NEW i \in 1..Len(st2), st2[i].fn = "efree"
               PROVE  LET y == st2[i].obj
                      IN  /\ Dead(h2, y) /\ Lone(al2, o, hd, st2, Null, y)
                          /\ \A j \in 1..Len(st2) : st2[j].obj = y =>
                                j = i \/ (j = i + 1 /\ st2[j].fn = "free")
                          /\ o[y] = {} \/ (i + 1 \in 1..Len(st2) /\ st2[i + 1].fn = "free")
                          /\ y \in Arr => h2[y].addr = 0
    BY DEF EfreeOK
  <2> DEFINE y == st2[i].obj
  <2>1. i \in 1..Len(st) /\ st[i].fn = "efree" /\ y = st[i].obj /\ y \in al2
    BY <1>0, <1>2, <1>3 DEF StackOK
  <2>2. /\ Dead(h, y) /\ Lone(al, o, hd, st, Null, y)
        /\ \A j \in 1..Len(st) : st[j].obj = y => j = i \/ (j = i + 1 /\ st[j].fn = "free")
        /\ o[y] = {} \/ (i + 1 \in 1..Len(st) /\ st[i + 1].fn = "free")
        /\ y \in Arr => h[y].addr = 0
    BY <2>1, <1>0 DEF EfreeOK
  <2>3. Lone(al2, o, hd, st2, Null, y) /\ Dead(h2, y) /\ h2[y] = h[y]
    BY <2>1, <2>2, <1>5, <1>6
  <2>4. i + 1 \in 1..Len(st) /\ st[i + 1].fn = "free" => i + 1 \in 1..Len(st2) /\ st2[i + 1] = st[i + 1]
    <3>1. st[k].fn # "free"
      BY <1>2
    <3> QED
      BY <3>1, <1>2
  <2> HIDE DEF y
  <2>5. /\ \A j \in 1..Len(st2) : st2[j].obj = y => j = i \/ (j = i + 1 /\ st2[j].fn = "free")
    BY ONLY <2>2, <1>2
  <2>6. o[y] = {} \/ (i + 1 \in 1..Len(st2) /\ st2[i + 1].fn = "free")
    BY ONLY <2>2, <2>4
  <2> QED
    BY <2>2, <2>3, <2>5, <2>6 DEF y
<1>14. DeadOK(al2, o, hd, h2, st2, Gar(g2), Null)
  BY <1>0, <1>5, <1>6, <1>8 DEF DeadOK
<1>15. GarOK(al2, o, hd, h2, st2, Gar(g2))
  <2> SUFFICES ASSUME NEW y \in Gar(g2)
               PROVE  /\ y \in al2 /\ y \notin hd
                      /\ \A i \in 1..Len(st2) : st2[i].obj = y => st2[i].fn \in {"gcfree", "free", "efree"}
                      /\ \A m \in al2 : y \in o[m] => m \in Gar(g2) \/ Dead(h2, m)
    BY DEF GarOK
  <2>1. y \in Gar(g) /\ y # n
    BY <1>8
  <2>2. /\ y \in al /\ y \notin hd
        /\ \A i \in 1..Len(st) : st[i].obj = y => st[i].fn \in {"gcfree", "free", "efree"}
        /\ \A m \in al : y \in o[m] => m \in Gar(g) \/ Dead(h, m)
    BY <2>1, <1>0 DEF GarOK
  <2> QED
    BY <2>1, <2>2, <1>2, <1>5, <1>8
<1>16. ApartOK(al2, o, c, st2, Gar(g2))
  <2> SUFFICES ASSUME NEW j, InGC(st2, j)
               PROVE  /\ \A i \in 1..(j - 1) : st2[i].obj \notin Gar(g2)
                      /\ \A y \in Gar(g2), m \in al2 : y \in o[m] =>
                           m \in Gar(g2) \/ \E i \in 1..Len(st2) : i > j /\ st2[i].fn = "free" /\ st2[i].obj = m
    BY DEF ApartOK
  <2>1. InGC(st, j) /\ j \in 1..Len(st2)
    BY <1>2 DEF InGC
  <2>2. /\ \A i \in 1..(j - 1) : st[i].obj \notin Gar(g)
        /\ \A y \in Gar(g), m \in al : y \in o[m] =>
             m \in Gar(g) \/ \E i \in 1..Len(st) : i > j /\ st[i].fn = "free" /\ st[i].obj = m
    BY <2>1, <1>0 DEF ApartOK
  <2>3. \A i \in 1..(j - 1) : st2[i] = st[i]
    BY <2>1, <1>2
  <2>4. ASSUME NEW y \in Gar(g2), NEW m \in al2, y \in o[m], m \notin Gar(g2)
        PROVE  \E i \in 1..Len(st2) : i > j /\ st2[i].fn = "free" /\ st2[i].obj = m
    <3>1. PICK i \in 1..Len(st) : i > j /\ st[i].fn = "free" /\ st[i].obj = m
      BY <2>2, <2>4, <1>5, <1>8
    <3>2. i # k
      BY <3>1, <1>2
    <3> QED
      BY <3>1, <3>2, <1>2
  <2> QED
    BY <2>2, <2>3, <2>4, <1>8
<1>17. EmptyOK(al2, o, h2, g2, c, st2, b)
  <2> SUFFICES ASSUME ~b
               PROVE  /\ \A i \in Used(g2) : c.pc = "destroy" /\ i < c.idx /\ g2.buf[i].tag = "garbage" =>
                           o[g2.buf[i].ref] = {}
                           \/ \E j \in 1..Len(st2) : st2[j].fn = "free" /\ st2[j].obj = g2.buf[i].ref
                      /\ \A y \in al2 : Dead(h2, y) =>
                           \/ \E j \in 1..Len(st2) : st2[j].fn = "efree" /\ st2[j].obj = y
                           \/ c.pc = "destroy" /\ \E i \in Used(g2) :
                                i < c.idx /\ g2.buf[i].tag = "garbage" /\ g2.buf[i].ref = y
    BY DEF EmptyOK
  <2>1. \A y : (\E i \in 1..Len(st) : st[i].fn = "free" /\ st[i].obj = y)
               => (\E i \in 1..Len(st2) : st2[i].fn = "free" /\ st2[i].obj = y)
    BY <1>2
  <2>2. \A y : y # n /\ (\E i \in 1..Len(st) : st[i].fn = "efree" /\ st[i].obj = y)
               => (\E i \in 1..Len(st2) : st2[i].fn = "efree" /\ st2[i].obj = y)
    BY <1>2
  <2>3. ASSUME NEW i \in Used(g2), c.pc = "destroy", i < c.idx, g2.buf[i].tag = "garbage"
        PROVE  o[g2.buf[i].ref] = {}
               \/ \E j \in 1..Len(st2) : st2[j].fn = "free" /\ st2[j].obj = g2.buf[i].ref
    <3>1. i \in Used(g) /\ g.buf[i].tag = "garbage" /\ g2.buf[i] = g.buf[i]
      BY <2>3, <1>7
    <3>2. o[g.buf[i].ref] = {} \/ \E j \in 1..Len(st) : st[j].fn = "free" /\ st[j].obj = g.buf[i].ref
      BY <3>1, <2>3, <1>0 DEF EmptyOK
    <3> DEFINE y == g.buf[i].ref
    <3>3. y = g2.buf[i].ref /\ (o[y] = {} \/ \E j \in 1..Len(st) : st[j].fn = "free" /\ st[j].obj = y)
      BY <3>1, <3>2
    <3> HIDE DEF y
    <3>4. o[y] = {} \/ \E j \in 1..Len(st2) : st2[j].fn = "free" /\ st2[j].obj = y
      BY ONLY <3>3, <2>1
    <3> QED
      BY ONLY <3>3, <3>4
  <2>4. ASSUME NEW y \in al2, Dead(h2, y)
        PROVE  \/ \E j \in 1..Len(st2) : st2[j].fn = "efree" /\ st2[j].obj = y
               \/ c.pc = "destroy" /\ \E i \in Used(g2) :
                    i < c.idx /\ g2.buf[i].tag = "garbage" /\ g2.buf[i].ref = y
    <3>1. y \in al /\ y # n /\ Dead(h, y)
      BY <2>4, <1>5
    <3>2. \/ \E j \in 1..Len(st) : st[j].fn = "efree" /\ st[j].obj = y
          \/ c.pc = "destroy" /\ \E i \in Used(g) :
               i < c.idx /\ g.buf[i].tag = "garbage" /\ g.buf[i].ref = y
      BY <3>1, <1>0 DEF EmptyOK
    <3> QED
      BY <3>1, <3>2, <2>2, <1>7
  <2> QED
    BY <2>3, <2>4
<1>18. DtorOK(al2, h2, Gar(g2), rn)
  BY <1>0, <1>5, <1>8 DEF DtorOK
<1>19. TagOK(g2, c)
  BY ONLY <1>0, <1>7 DEF TagOK
<1> QED
  BY ONLY <1>7, <1>9, <1>10, <1>11, <1>12, <1>13, <1>14, <1>15, <1>16, <1>17, <1>18, <1>19 DEF Steady

\* A new header has nothing to do with the buffer.
LEMMA FreshFacts ==
    /\ FreshHdr \in Hdr /\ FreshHdr.rc = 0 /\ FreshHdr.color = "black" /\ FreshHdr.addr = 0
    /\ ~FreshHdr.null /\ ~FreshHdr.dtored /\ ~FreshHdr.freed
<1> DEFINE f == FreshHdr
<1>1. f = [rc |-> 0, color |-> "black", addr |-> 0, null |-> FALSE, dtored |-> FALSE, freed |-> FALSE]
  BY DEF FreshHdr
<1> HIDE DEF f
<1>2. /\ f \in Hdr /\ f.rc = 0 /\ f.color = "black" /\ f.addr = 0
      /\ ~f.null /\ ~f.dtored /\ ~f.freed
  BY ONLY <1>1 DEF Hdr, Colors
<1> QED
  BY <1>2 DEF f

\* The node that is freed leaves the buffer.
LEMMA EfreeUnbuffers ==
    ASSUME Calm, Efree
    PROVE  /\ Pop \in Seq(Frame) /\ Pushed(Pop, stack[Len(stack)], stack) /\ This \in alloc
           /\ hdr' \in [Node -> Hdr] /\ ~hdr'[This].freed
           /\ \A y \in Node : y # This => hdr'[y] = hdr[y]
           /\ alloc' \in SUBSET Node /\ alloc' = alloc \ {This}
           /\ Unbuffered(alloc', hdr', gc, This, gc')
<1> DEFINE f == stack[Len(stack)]
           n == This
<1>0. Steady(alloc, out, held, hdr, gc, col, stack, bailed, ran, Null) /\ col.pc \in SteadyPcs
  BY DEF Calm
<1>1. /\ stack # <<>> /\ f.fn = "efree" /\ n = f.obj /\ stack' = Pop
      /\ gc' = IF Info(hdr[n]) THEN gc_remove_from_buffer(gc, n) ELSE gc
      /\ hdr' = [hdr EXCEPT ![n] = FreshHdr] /\ alloc' = alloc \ {n}
      /\ out' = out /\ held' = held /\ bailed' = bailed
      /\ col' = col /\ ran' = ran
  BY DEF Efree, Running, This
<1>2. stack' \in Seq(Frame) /\ Pushed(stack', f, stack) /\ n \in alloc
  BY <1>0, <1>1, TopFacts
<1>3. alloc \in SUBSET Node /\ hdr \in [Node -> Hdr] /\ n \in Node
  BY <1>0, <1>2 DEF Steady, Types
<1> HIDE DEF f, n
<1>4. /\ hdr' \in [Node -> Hdr] /\ \A y \in Node : y # n => hdr'[y] = hdr[y]
      /\ hdr'[n].addr = 0 /\ hdr'[n].color = "black" /\ ~hdr'[n].freed
  <2>1. hdr'[n] = FreshHdr
    BY <1>1, <1>3
  <2> QED
    BY <2>1, <1>1, <1>3, FreshFacts
<1>5. alloc' \in SUBSET Node /\ (\A y \in alloc : y # n => y \in alloc') /\ alloc' = alloc \ {n}
  BY <1>1, <1>3
<1>6. gc' = IF Info(hdr[n]) THEN gc_remove_from_roots(gc, Decompress(hdr, gc, n)) ELSE gc
  <2>1. gc_decompress(gc, n) = Decompress(hdr, gc, n)
    BY DEF gc_decompress, Decompress
  <2> QED
    BY ONLY <2>1, <1>1 DEF gc_remove_from_buffer
<1>7. Unbuffered(alloc', hdr', gc, n, gc')
  BY ONLY <1>0, <1>2, <1>4, <1>5, <1>6, Unbuffer
<1> QED
  BY <1>1, <1>2, <1>4, <1>5, <1>7 DEF f, n

\* The memory of a node is freed.
LEMMA EfreeCalm == ASSUME Calm, Efree PROVE Calm'
<1> DEFINE f == stack[Len(stack)]
           n == This
           s == Pop
<1>1. /\ f.fn = "efree" /\ n = f.obj /\ stack' = s /\ out' = out /\ held' = held
      /\ bailed' = bailed /\ col' = col /\ ran' = ran
  BY DEF Efree, Running, This
<1>2. Steady(alloc, out, held, hdr, gc, col, stack, bailed, ran, Null) /\ col.pc \in SteadyPcs
  BY DEF Calm
<1>3. /\ s \in Seq(Frame) /\ Pushed(s, f, stack) /\ hdr' \in [Node -> Hdr] /\ ~hdr'[n].freed
      /\ \A y \in Node : y # n => hdr'[y] = hdr[y]
      /\ alloc' \in SUBSET Node /\ alloc' = alloc \ {n} /\ Unbuffered(alloc', hdr', gc, n, gc')
  BY EfreeUnbuffers
<1> HIDE DEF f, n, s
<1>4. Steady(alloc', out, held, hdr', gc', col, s, bailed, ran, Null)
  BY ONLY <1>1, <1>2, <1>3, PopEfree
<1> QED
  BY <1>1, <1>2, <1>4 DEF Calm

\* A collection that is over leaves no locals.
LEMMA Forget ==
    ASSUME NEW al, NEW o, NEW hd, NEW h, NEW g, NEW c, NEW st, NEW b, NEW rn, NEW x,
           Steady(al, o, hd, h, g, c, st, b, rn, x), c.pc = "idle",
           NEW c2 \in Locals, c2.pc = "idle", c2.todo = {}, c2.btodo = {}
    PROVE  Steady(al, o, hd, h, g, c2, st, b, rn, x)
<1>0. /\ Types(al, o, hd, h, g, c, st, rn) /\ RcOK(al, o, hd, h, st, b, x, {})
      /\ Closed(al, o, hd, x) /\ EfreeOK(al, o, hd, h, st, x)
      /\ DeadOK(al, o, hd, h, st, Gar(g), x) /\ GarOK(al, o, hd, h, st, Gar(g))
      /\ ApartOK(al, o, c, st, Gar(g)) /\ EmptyOK(al, o, h, g, c, st, b) /\ BufOK(al, h, g)
      /\ StackOK(al, h, g, c, st) /\ DtorOK(al, h, Gar(g), rn) /\ ColorOK(h, g) /\ TagOK(g, c)
  BY DEF Steady
<1>1. Types(al, o, hd, h, g, c2, st, rn)
  BY <1>0 DEF Types
<1>2. StackOK(al, h, g, c2, st)
  BY <1>0 DEF StackOK
<1>3. ApartOK(al, o, c2, st, Gar(g)) /\ EmptyOK(al, o, h, g, c2, st, b)
  BY <1>0 DEF ApartOK, EmptyOK
<1>4. TagOK(g, c2)
  BY <1>0 DEF TagOK
<1> QED
  BY ONLY <1>0, <1>1, <1>2, <1>3, <1>4 DEF Steady

\* The flags of g that B names are set; "both" says that an overflow protects.
Flag(g, B) ==
    /\ {"full", "protected"} \subseteq DOMAIN g
    /\ ("full" \in B => g.full) /\ ("protected" \in B => g.protected)
    /\ ("both" \in B => (g.full => g.protected))
\* gc_grow_root_buffer never clears a flag.
LEMMA GrowFull == ASSUME NEW B, NEW g, Flag(g, B) PROVE Flag(gc_grow_root_buffer(g), B)
BY DEF Flag, gc_grow_root_buffer

\* gc_adjust_threshold never clears it.
LEMMA AdjustFull == ASSUME NEW B, NEW g, NEW count, Flag(g, B) PROVE Flag(gc_adjust_threshold(g, count), B)
<1> DEFINE new == Min({g.threshold + ThresholdStep, ThresholdMax})
           lim == gc_grow_root_buffer(g)
           grown == IF new > g.buf_size THEN lim ELSE g
           low == Max({g.threshold - ThresholdStep, ThresholdDefault})
           raised == IF g.threshold >= ThresholdMax THEN g
               ELSE IF new <= grown.buf_size
                    THEN [grown EXCEPT !.threshold = new] ELSE grown
           lowered == IF g.threshold <= ThresholdDefault THEN g
                      ELSE [g EXCEPT !.threshold = low]
<1>0. Flag(lim, B)
  BY GrowFull
<1>1. gc_adjust_threshold(g, count) = raised \/ gc_adjust_threshold(g, count) = lowered
  <2>1. gc_adjust_threshold(g, count) =
          CASE count < ThresholdTrigger \/ g.num_roots >= g.threshold -> raised
            [] OTHER -> lowered
    BY DEF gc_adjust_threshold
  <2> HIDE DEF raised, lowered
  <2> QED
    BY ONLY <2>1
<1> HIDE DEF new, lim, low
<1>2. Flag(grown, B)
  BY <1>0
<1> HIDE DEF grown
<1>3. Flag(raised, B)
  BY <1>2 DEF Flag
<1>4. Flag(lowered, B)
  BY DEF Flag
<1> QED
  BY <1>1, <1>3, <1>4

\* Entering a root never clears it.
LEMMA EnterFull ==
    ASSUME NEW B, NEW h, NEW g, NEW n, NEW tag, NEW color, Flag(g, B)
    PROVE  Flag(Enter(h, g, n, tag, color).gc, B)
<1> DEFINE s == Slot(g)
           grown == gc_grow_root_buffer(g)
<1>0. Flag(grown, B)
  BY GrowFull
<1>1. Flag(s.gc, B)
  <2> HIDE DEF grown
  <2>1. CASE g.unused # 0
    BY <2>1 DEF Slot, Flag
  <2>2. CASE g.unused = 0 /\ g.first_unused # g.buf_size
    BY <2>2 DEF Slot, Flag
  <2>3. CASE ~(g.unused # 0) /\ ~(g.unused = 0 /\ g.first_unused # g.buf_size)
    <3>1. s = IF grown.first_unused # grown.buf_size
              THEN [idx |-> grown.first_unused, gc |-> [grown EXCEPT !.first_unused = @ + 1]]
              ELSE [idx |-> 0, gc |-> grown]
      BY <2>3 DEF Slot, grown
    <3> QED
      BY <3>1, <1>0 DEF Flag
  <2> QED
    BY <2>1, <2>2, <2>3
<1> HIDE DEF s
<1> DEFINE e == [tag |-> tag, ref |-> n, next |-> 0]
<1>2. Enter(h, g, n, tag, color).gc =
        IF s.idx = 0 THEN s.gc ELSE [s.gc EXCEPT !.num_roots = @ + 1, !.buf[s.idx] = e]
  BY DEF Enter, s
<1> HIDE DEF e
<1> DEFINE g1 == s.gc
           i == s.idx
           r == [g1 EXCEPT !.num_roots = @ + 1, !.buf[i] = e]
<1>3. Flag(g1, B)
  BY <1>1
<1>4. Flag(r, B)
  <2> HIDE DEF g1, i
  <2> QED
    BY <1>3 DEF Flag
<1>5. Enter(h, g, n, tag, color).gc = IF i = 0 THEN g1 ELSE r
  BY <1>2
<1> HIDE DEF g1, i, r
<1> QED
  BY <1>3, <1>4, <1>5

\* gc_remove_from_roots never clears it.
LEMMA RemoveFull == ASSUME NEW B, NEW g, NEW i, Flag(g, B) PROVE Flag(gc_remove_from_roots(g, i), B)
BY DEF Flag, gc_remove_from_roots

\* gc_compact never clears it.
LEMMA CompactFull == ASSUME NEW B, NEW h, NEW g, Flag(g, B) PROVE Flag(gc_compact(h, g).gc, B)
<1>1. CASE g.num_roots + 1 = g.first_unused
  BY <1>1 DEF gc_compact
<1>2. CASE g.num_roots + 1 # g.first_unused
  <2>1. \E F : gc_compact(h, g).gc = [g EXCEPT !.unused = 0, !.first_unused = g.num_roots + 1, !.buf = F]
    BY <1>2 DEF gc_compact
  <2>2. PICK F : gc_compact(h, g).gc = [g EXCEPT !.unused = 0, !.first_unused = g.num_roots + 1, !.buf = F]
    BY <2>1
  <2> QED
    BY ONLY <2>2, Flag(g, B) DEF Flag
<1> QED
  BY <1>1, <1>2

\* rc_dtor_func never clears it.
LEMMA RcDtorFull ==
    ASSUME NEW B, NEW h, NEW g, NEW n, NEW st, Flag(g, B), rc_dtor_func(h, g, n, st) PROVE Flag(gc', B)
<1>1. gc' = g \/ gc' = gc_remove_from_buffer(g, n)
  BY DEF rc_dtor_func
<1> QED
  BY <1>1, RemoveFull DEF gc_remove_from_buffer

\* gc_collect_cycles never clears it.
LEMMA CollectFull ==
    ASSUME NEW B, NEW h, NEW st, Flag(gc, B), gc_collect_cycles(h, st) PROVE Flag(gc', B)
<1> DEFINE r == gc_compact(h, gc).gc
<1>1. Flag(r, B)
  BY CompactFull
<1>2. gc' = gc \/ gc' = [r EXCEPT !.active = FALSE]
  BY DEF gc_collect_cycles
<1> HIDE DEF r
<1> QED
  BY <1>1, <1>2 DEF Flag

\* Giving up a reference never clears it.
LEMMA ReleaseFull ==
    ASSUME NEW B, NEW n, NEW st, Flag(gc, B), Release(n, st) PROVE Flag(gc', B)
<1> DEFINE h1 == [hdr EXCEPT ![n].rc = @ - 1]
<1>1. \/ rc_dtor_func(h1, gc, n, st)
      \/ gc_possible_root(h1, n, st)
      \/ gc' = gc
  BY DEF Release
<1> HIDE DEF h1
<1>2. CASE gc_possible_root(h1, n, st)
  <2>1. \/ gc' = gc
        \/ gc_collect_cycles([h1 EXCEPT ![n].rc = @ + 1], Append(st, Call("full", n)))
        \/ AddRoot(h1, gc, n, st)
    BY ONLY <1>2 DEF gc_possible_root
  <2>2. AddRoot(h1, gc, n, st) => Flag(gc', B)
    BY EnterFull DEF AddRoot
  <2> QED
    BY <2>1, <2>2, CollectFull
<1> QED
  BY <1>1, <1>2, RcDtorFull

\* Nothing clears gc.full or gc.protected.
LEMMA FullStays == ASSUME NEW B, Flag(gc, B), [Next]_vars PROVE Flag(gc', B)
<1>1. CASE UNCHANGED vars
  BY <1>1 DEF vars
<1>2. CASE Program
  <2>1. ASSUME NEW n \in Node, New(n) \/ Take(n) PROVE Flag(gc', B)
    BY <2>1 DEF New, Take
  <2>2. ASSUME NEW n \in Node, DropVariable(n) PROVE Flag(gc', B)
    BY <2>2, ReleaseFull DEF DropVariable
  <2>3. ASSUME NEW m \in Node, NEW n \in Node, SetElement(m, n) PROVE Flag(gc', B)
    BY <2>3 DEF SetElement
  <2>4. ASSUME NEW m \in Node, NEW n \in Node, UnsetElement(m, n) PROVE Flag(gc', B)
    BY <2>4, ReleaseFull DEF UnsetElement
  <2>5. ASSUME NEW on \in BOOLEAN, gc_enable(on) PROVE Flag(gc', B)
    BY <2>5 DEF gc_enable, Flag
  <2>6. ASSUME ZEND_FUNCTION_gc_collect_cycles PROVE Flag(gc', B)
    BY <2>6, CollectFull DEF ZEND_FUNCTION_gc_collect_cycles
  <2>7. ASSUME _zend_bailout PROVE Flag(gc', B)
    BY <2>7 DEF _zend_bailout, Flag
  <2> QED
    BY <1>2, <2>1, <2>2, <2>3, <2>4, <2>5, <2>6, <2>7 DEF Program
<1>3. CASE DestructorReturns
  BY <1>3, ReleaseFull DEF DestructorReturns
<1>4. CASE Freeing
  <2>1. ASSUME DelResumes PROVE Flag(gc', B)
    <3>1. gc' = gc \/ rc_dtor_func([hdr EXCEPT ![This].rc = @ - 1], gc, This, Pop)
      BY <2>1 DEF DelResumes
    <3> QED
      BY <3>1, RcDtorFull
  <2>2. ASSUME FreeDone \/ CollectorResumes PROVE Flag(gc', B)
    BY <2>2 DEF FreeDone, CollectorResumes
  <2>3. ASSUME Efree PROVE Flag(gc', B)
    BY <2>3, RemoveFull DEF Efree, gc_remove_from_buffer
  <2>4. ASSUME WhenFullResumes PROVE Flag(gc', B)
    <3> DEFINE h == [hdr EXCEPT ![This].rc = @ - 1]
               g == gc_adjust_threshold(gc, col.total)
    <3>1. \/ rc_dtor_func(h, g, This, Pop) \/ gc' = g \/ AddRoot(h, g, This, Pop)
      BY <2>4 DEF WhenFullResumes
    <3>2. Flag(g, B)
      BY AdjustFull
    <3> HIDE DEF h, g
    <3>3. AddRoot(h, g, This, Pop) => Flag(gc', B)
      BY <3>2, EnterFull DEF AddRoot
    <3> QED
      BY <3>1, <3>2, <3>3, RcDtorFull
  <2>5. ASSUME NEW n \in Node, FreeChild(n) PROVE Flag(gc', B)
    BY <2>5, ReleaseFull DEF FreeChild
  <2> QED
    BY <1>4, <2>1, <2>2, <2>3, <2>4, <2>5 DEF Freeing
<1>5. CASE Collecting
  <2>1. ASSUME Start PROVE Flag(gc', B)
    <3> DEFINE r == gc_compact(hdr, gc).gc
    <3>1. gc' = [r EXCEPT !.active = TRUE]
      BY <2>1 DEF Start
    <3>2. Flag(r, B)
      BY CompactFull
    <3> HIDE DEF r
    <3> QED
      BY <3>1, <3>2 DEF Flag
  <2>2. ASSUME \/ MarkRoot \/ MarkDone \/ ScanRoot \/ CollectDone \/ NestedRoot \/ NestedDone
               \/ DtorsDone \/ DestroyStep
               \/ \E n \in Node : gc_mark_grey(n) \/ gc_scan(n) \/ gc_scan_black(n)
        PROVE  Flag(gc', B)
    <3>1. gc' = gc
      BY <2>2 DEF MarkRoot, MarkDone, ScanRoot, CollectDone, NestedRoot, NestedDone, DtorsDone,
                  DestroyStep, gc_mark_grey, gc_scan, gc_scan_black
    <3> QED
      BY <3>1
  <2>3. ASSUME ScanDone PROVE Flag(gc', B)
    <3> DEFINE live == { i \in Used(gc) : /\ gc.buf[i].tag = "root"
                                          /\ hdr[gc.buf[i].ref].color = "black" }
               refs == { gc.buf[i].ref : i \in live }
               h == [n \in Node |-> IF n \in refs THEN [hdr[n] EXCEPT !.addr = 0] ELSE hdr[n]]
               bf == [i \in DOMAIN gc.buf |-> IF i \in live
                               THEN [Raw EXCEPT !.tag = "unused"] ELSE gc.buf[i]]
               N == gc.num_roots - Cardinality(live)
               g == [gc EXCEPT !.num_roots = N, !.buf = bf]
    <3>1. gc' = gc_compact(h, g).gc
      BY <2>3 DEF ScanDone
    <3> HIDE DEF bf, N, h
    <3>2. Flag(g, B)
      BY DEF Flag
    <3> HIDE DEF g
    <3> QED
      BY <3>1, <3>2, CompactFull
  <2>4. ASSUME CollectRoot \/ DtorPrepare \/ DtorStep \/ Finish PROVE Flag(gc', B)
    <3>1. \/ gc' = gc \/ \E x : gc' = [gc EXCEPT !.buf = x] \/ gc' = [gc EXCEPT !.active = x]
          \/ \E i : gc' = [gc EXCEPT !.buf[i].tag = "garbage"] \/ gc' = [gc EXCEPT !.buf[i].tag = "root"]
      <4>1. CASE CollectRoot
        BY <4>1 DEF CollectRoot
      <4>2. CASE DtorPrepare
        BY <4>2 DEF DtorPrepare
      <4>3. CASE DtorStep
        BY <4>3 DEF DtorStep
      <4>4. CASE Finish
        BY <4>4 DEF Finish
      <4> QED
        BY <2>4, <4>1, <4>2, <4>3, <4>4
    <3> QED
      BY <3>1 DEF Flag
  <2>5. ASSUME NEW n \in Node, gc_collect_white(n) PROVE Flag(gc', B)
    <3> DEFINE fresh == { m \in Children(n) : hdr[m].color = "white" }
               v == Visit(n, 1, fresh, "black")
    <3>1. gc' = gc \/ gc' = Enter(v, gc, n, "garbage", "black").gc
      BY <2>5 DEF gc_collect_white
    <3> QED
      BY <3>1, EnterFull
  <2>6. ASSUME NEW n \in Node, gc_remove_nested_data_from_buffer(n) PROVE Flag(gc', B)
    BY <2>6, RemoveFull DEF gc_remove_nested_data_from_buffer, gc_remove_from_buffer
  <2>7. ASSUME FreeGarbage PROVE Flag(gc', B)
    <3> DEFINE dead == { i \in Used(gc) \intersect 1..(col.end - 1) : gc.buf[i].tag = "garbage" }
               refs == { gc.buf[i].ref : i \in dead }
               h == [n \in Node |-> IF n \in refs THEN FreshHdr ELSE hdr[n]]
               bf == [i \in DOMAIN gc.buf |-> IF i \in dead
                               THEN [Raw EXCEPT !.tag = "unused"] ELSE gc.buf[i]]
               N == gc.num_roots - Cardinality(dead)
               g == [gc EXCEPT !.num_roots = N, !.active = FALSE, !.buf = bf]
    <3>1. gc' = gc_compact(h, g).gc
      BY <2>7 DEF FreeGarbage
    <3> HIDE DEF bf, N, h
    <3>2. Flag(g, B)
      BY DEF Flag
    <3> HIDE DEF g
    <3> QED
      BY <3>1, <3>2, CompactFull
  <2> QED
    BY <1>5, <2>1, <2>2, <2>3, <2>4, <2>5, <2>6, <2>7 DEF Collecting
<1> QED
  BY <1>1, <1>2, <1>3, <1>4, <1>5 DEF Next

Over(g) == Flag(g, {"full"})

\* gc_possible_root_when_full, with the threshold adjusted and its reference
\* about to go.
LEMMA WhenFullAdjusted ==
    ASSUME Calm, WhenFullResumes, ~gc.full, ~gc'.full,
           NEW g, g = gc_adjust_threshold(gc, col.total)
    PROVE  /\ Steady(alloc, out, held, hdr, g, col', Pop, bailed, ran, This)
           /\ ~g.full /\ g \in Globals /\ BufOK(alloc, hdr, g) /\ This \in alloc
           /\ Pop \in Seq(Frame) /\ (Pop # <<>> => Pop[Len(Pop)].fn # "gc")
           /\ col' = Idle /\ col.pc = "idle"
<1> DEFINE f == stack[Len(stack)]
           n == This
           s == Pop
           h1 == [hdr EXCEPT ![n].rc = @ - 1]
           count == col.total
<1>0. Steady(alloc, out, held, hdr, gc, col, stack, bailed, ran, Null) /\ col.pc \in SteadyPcs
  BY DEF Calm
<1>1. /\ stack # <<>> /\ f.fn = "full" /\ n = f.obj /\ h1 = [hdr EXCEPT ![n].rc = @ - 1]
      /\ \/ h1[n].rc = 0 /\ rc_dtor_func(h1, g, n, s)
         \/ h1[n].rc # 0 /\ hdr' = h1 /\ gc' = g /\ stack' = s /\ ran' = ran
         \/ h1[n].rc # 0 /\ ~Info(h1[n]) /\ AddRoot(h1, g, n, s)
      /\ alloc' = alloc /\ out' = out /\ held' = held /\ bailed' = bailed /\ col' = Idle
  BY DEF WhenFullResumes, Running, This, heap
<1>2. /\ s \in Seq(Frame) /\ Pushed(s, f, stack) /\ n \in alloc
      /\ (s # <<>> => s[Len(s)].fn # "gc")
  BY <1>0, <1>1, TopFacts
<1>3. /\ f.fn \in Keepers /\ alloc \in SUBSET Node /\ hdr \in [Node -> Hdr] /\ gc \in Globals
      /\ BufOK(alloc, hdr, gc) /\ count \in Int /\ n \in Node /\ StackOK(alloc, hdr, gc, col, stack)
      /\ stack \in Seq(Frame)
  BY <1>0, <1>1, <1>2 DEF Keepers, Steady, Types, Locals
<1>4. col.pc = "idle"
  <2>1. \A k \in 1..Len(stack) : stack[k].fn # "gc"
    <3>1. Len(stack) \in 1..Len(stack)
      BY <1>1, <1>3
    <3>2. \A j \in 1..Len(stack) : stack[j].fn = "gc" => Len(stack) < j
      BY <3>1, <1>1, <1>3 DEF StackOK
    <3> QED
      BY <3>2, <1>3
  <2> QED
    BY <2>1, <1>3 DEF StackOK
<1>5. g = gc_adjust_threshold(gc, count) /\ ~gc.full /\ ~gc'.full
  OBVIOUS
<1> HIDE DEF f, n, s, h1, count
<1>6. ~g.full
  <2> SUFFICES ASSUME g.full PROVE FALSE
    OBVIOUS
  <2> DEFINE B == {}
             N == {"full"}
  <2>1. Flag(gc, B)
    BY <1>3 DEF Globals, Flag
  <2>2. N = {"full"}
    OBVIOUS
  <2> HIDE DEF B, N
  <2>3. Flag(g, B)
    BY ONLY <2>1, <1>5, AdjustFull
  <2>4. Flag(g, N)
    BY <2>2, <2>3 DEF Flag
  <2>5. AddRoot(h1, g, n, s) => Flag(gc', N)
    BY <2>4, EnterFull DEF AddRoot
  <2>6. Flag(gc', N)
    BY <2>4, <2>5, <1>1, RcDtorFull
  <2> QED
    BY <2>2, <2>6, <1>5 DEF Flag
<1>7. /\ g \in Globals /\ BufOK(alloc, hdr, g) /\ g.buf = gc.buf /\ Retagged(gc, g)
      /\ g.active = gc.active
  BY ONLY <1>3, <1>5, <1>6, AdjustFacts
<1>8. Regulates(gc, g)
  BY <1>7 DEF Regulates, Retagged
<1>9. Steady(alloc, out, held, hdr, g, col, stack, bailed, ran, Null)
  BY ONLY <1>0, <1>7, <1>8, Regulated
<1>10. f.fn \in Keepers /\ n = f.obj
  BY <1>1, <1>3
<1>11. Steady(alloc, out, held, hdr, g, col, s, bailed, ran, n)
  BY ONLY <1>2, <1>9, <1>10, PopKeeper
<1>12. col' \in Locals /\ col'.pc = "idle" /\ col'.todo = {} /\ col'.btodo = {}
  BY <1>1, IdleFacts
<1>13. Steady(alloc, out, held, hdr, g, col', s, bailed, ran, n)
  BY ONLY <1>4, <1>11, <1>12, Forget
<1> QED
  BY ONLY <1>1, <1>2, <1>4, <1>6, <1>7, <1>13 DEF n, s

\* gc_possible_root_when_full goes on once the collection is over.
LEMMA WhenFullResumesCalm ==
    ASSUME Calm, WhenFullResumes, ~gc.full, ~gc'.full PROVE Calm'
<1> DEFINE n == This
           s == Pop
           h1 == [hdr EXCEPT ![n].rc = @ - 1]
           g == gc_adjust_threshold(gc, col.total)
<1>1. /\ h1 = [hdr EXCEPT ![n].rc = @ - 1]
      /\ \/ h1[n].rc = 0 /\ rc_dtor_func(h1, g, n, s)
         \/ h1[n].rc # 0 /\ hdr' = h1 /\ gc' = g /\ stack' = s /\ ran' = ran
         \/ h1[n].rc # 0 /\ ~Info(h1[n]) /\ AddRoot(h1, g, n, s)
      /\ alloc' = alloc /\ out' = out /\ held' = held /\ bailed' = bailed /\ col' = Idle
  BY DEF WhenFullResumes, heap
<1>2. ~gc'.full /\ g = gc_adjust_threshold(gc, col.total)
  OBVIOUS
<1> HIDE DEF g, h1
<1>3. /\ Steady(alloc, out, held, hdr, g, col', s, bailed, ran, n) /\ ~g.full
      /\ n \in alloc /\ s \in Seq(Frame) /\ (s # <<>> => s[Len(s)].fn # "gc")
  BY <1>2, WhenFullAdjusted
<1>4. hdr \in [Node -> Hdr] /\ n \in Node
  BY <1>3 DEF Steady, Types
<1>5. col' \in Locals /\ col'.pc = "idle" /\ col'.todo = {} /\ col'.btodo = {}
  BY <1>1, IdleFacts
<1> HIDE DEF n, s
<1>6. Lessened(hdr, n, h1)
  <2>1. h1 = [hdr EXCEPT ![n].rc = @ - 1] /\ n \in Node /\ hdr \in [Node -> Hdr]
    BY <1>1, <1>4
  <2> QED
    BY ONLY <2>1, LessOne
<1>7. Steady(alloc, out, held, h1, g, col', s, bailed, ran, Null) /\ n \in Node
  <2>1. /\ h1 \in [Node -> Hdr] /\ SameFlags(hdr, h1) /\ h1[n].rc = hdr[n].rc - 1
        /\ \A y \in Node : y # n => h1[y].rc = hdr[y].rc
    BY ONLY <1>6 DEF Lessened
  <2>2. n \in Node
    BY <1>4
  <2> QED
    BY ONLY <2>1, <2>2, <1>3, Decrement
<1>8. \A k \in 1..Len(s) : s[k].fn = "efree" => s[k].obj # n
  BY ONLY <1>3 DEF Steady, EfreeOK, Lone
<1>9. CASE h1[n].rc = 0 /\ rc_dtor_func(h1, g, n, s)
  <2>1. h1 = [hdr EXCEPT ![n].rc = @ - 1]
    BY <1>1
  <2>2. Steady(alloc, out, held, hdr', gc', col', stack', bailed, ran', Null)
    BY ONLY <2>1, <1>2, <1>3, <1>9, RcDtor
  <2> QED
    BY <2>2, <1>1, <1>5 DEF Calm, SteadyPcs
<1>10. CASE hdr' = h1 /\ gc' = g /\ stack' = s /\ ran' = ran
  BY <1>1, <1>5, <1>7, <1>10 DEF Calm, SteadyPcs
<1>11. CASE ~Info(h1[n]) /\ AddRoot(h1, g, n, s)
  <2>1. Steady(alloc, out, held, hdr', gc', col', stack', bailed, ran', Null)
    BY ONLY <1>2, <1>3, <1>7, <1>8, <1>11, AddRooted
  <2> QED
    BY <2>1, <1>1, <1>5 DEF Calm, SteadyPcs
<1> QED
  BY <1>1, <1>9, <1>10, <1>11


-----------------------------------------------------------------------------
(* The traversals: marking and scanning.                                   *)

\* The headers in a traversal: colors and counts change, and addresses only of
\* nodes that something refers to.
Repainted(al, o, h, h2) ==
    /\ \A y \in Node : h2[y].null = h[y].null /\ h2[y].freed = h[y].freed
    /\ \A y \in Dtor : h2[y].dtored = h[y].dtored
    /\ \A y \in al : \/ h2[y].rc = h[y].rc /\ (h[y].addr = 0 => h2[y].addr = 0)
                     \/ \E m \in al : y \in o[m]
\* Or of nodes that are neither destroyed nor known to any call.
RepaintedIn(al, o, st, h, h2) ==
    /\ \A y \in Node : h2[y].null = h[y].null /\ h2[y].freed = h[y].freed
    /\ \A y \in Dtor : h2[y].dtored = h[y].dtored
    /\ \A y \in al : \/ h2[y].rc = h[y].rc /\ (h[y].addr = 0 => h2[y].addr = 0)
                     \/ \E m \in al : y \in o[m]
                     \/ ~h[y].freed /\ \A k \in 1..Len(st) : st[k].obj # y
Traversing == {"mark", "scan", "collect", "prepare", "nested"}

\* What all traversals keep, when a step repaints nodes and maybe frees addresses.
LEMMA BaseMoveIn ==
    ASSUME NEW al, NEW o, NEW hd, NEW h, NEW g, NEW c, NEW st, NEW b, NEW rn,
           Base(al, o, hd, h, g, c, st, b, rn), c.pc \in Traversing \union {"start"},
           NEW h2 \in [Node -> Hdr], RepaintedIn(al, o, st, h, h2),
           NEW g2 \in Globals, BufOK(al, h2, g2), g2.active,
           NEW c2 \in Locals, c2.pc \in Traversing, c2.idx # 0
    PROVE  Base(al, o, hd, h2, g2, c2, st, b, rn)
<1>0. /\ Types(al, o, hd, h, g, c, st, rn) /\ StackOK(al, h, g, c, st)
      /\ Closed(al, o, hd, Null) /\ EfreeOK(al, o, hd, h, st, Null)
      /\ DeadOK(al, o, hd, h, st, {}, Null) /\ EmptyOK(al, o, h, g, c, st, b)
      /\ DtorOK(al, h, {}, rn) /\ st # <<>> /\ st[Len(st)].fn = "gc"
  BY DEF Base
<1>1. /\ al \in SUBSET Node /\ h \in [Node -> Hdr] /\ st \in Seq(Frame)
      /\ Arr \subseteq Node
  BY <1>0, KindAssumption DEF Types
<1>2. c.pc # "idle" /\ c.pc # "destroy" /\ c2.pc # "idle" /\ c2.pc # "destroy"
  BY DEF Traversing
<1>3. /\ \A y \in Node : h2[y].null = h[y].null /\ h2[y].freed = h[y].freed
      /\ \A y \in Dtor : h2[y].dtored = h[y].dtored
      /\ \A y \in al : \/ h2[y].rc = h[y].rc /\ (h[y].addr = 0 => h2[y].addr = 0)
                       \/ \E m \in al : y \in o[m]
                       \/ ~h[y].freed /\ \A k \in 1..Len(st) : st[k].obj # y
  BY DEF RepaintedIn
<1>4. \A y \in Node : Dead(h2, y) <=> Dead(h, y)
  BY <1>3 DEF Dead
<1>5. \A y \in al : Lone(al, o, hd, st, Null, y) /\ (h[y].freed \/ \E k \in 1..Len(st) : st[k].obj = y) =>
        h2[y].rc = h[y].rc /\ (h[y].addr = 0 => h2[y].addr = 0)
  BY <1>3 DEF Lone
<1>6. Types(al, o, hd, h2, g2, c2, st, rn)
  BY <1>0, <1>1, <1>3 DEF Types
<1>7. StackOK(al, h2, g2, c2, st)
  <2>1. Len(st) \in 1..Len(st) /\ \A k \in 1..Len(st) : st[k].fn = "gc" => k = Len(st)
    BY <1>0, <1>1 DEF StackOK
  <2>2. \A k \in 1..Len(st) : ~(st[k].fn = "gc" /\ k < Len(st))
    BY <2>1, <1>1
  <2>3. \A k \in 1..Len(st) : st[k].fn = "free" => Dead(h2, st[k].obj)
    BY <1>0, <1>1, <1>4 DEF StackOK
  <2> QED
    BY <2>1, <2>2, <2>3, <1>0, <1>2 DEF StackOK
<1>8. EfreeOK(al, o, hd, h2, st, Null)
  <2>1. \A k \in 1..Len(st) : st[k].fn = "efree" => st[k].obj \in al
    BY <1>0 DEF StackOK
  <2> QED
    BY <2>1, <1>0, <1>1, <1>4, <1>5 DEF EfreeOK
<1>9. DeadOK(al, o, hd, h2, st, {}, Null)
  BY <1>0, <1>1, <1>3, <1>4, <1>5 DEF DeadOK
<1>10. EmptyOK(al, o, h2, g2, c2, st, b)
  BY <1>0, <1>1, <1>2, <1>4 DEF EmptyOK
<1>11. DtorOK(al, h2, {}, rn)
  BY <1>0, <1>1, <1>3, <1>4 DEF DtorOK
<1> QED
  BY ONLY <1>0, <1>6, <1>7, <1>8, <1>9, <1>10, <1>11, BufOK(al, h2, g2) DEF Base

\* The same when the step only repaints nodes.
LEMMA BaseMove ==
    ASSUME NEW al, NEW o, NEW hd, NEW h, NEW g, NEW c, NEW st, NEW b, NEW rn,
           Base(al, o, hd, h, g, c, st, b, rn), c.pc \in Traversing \union {"start"},
           NEW h2 \in [Node -> Hdr], Repainted(al, o, h, h2),
           NEW g2 \in Globals, BufOK(al, h2, g2), g2.active,
           NEW c2 \in Locals, c2.pc \in Traversing, c2.idx # 0
    PROVE  Base(al, o, hd, h2, g2, c2, st, b, rn)
<1>1. RepaintedIn(al, o, st, h, h2)
  BY DEF Repainted, RepaintedIn
<1> QED
  BY <1>1, BaseMoveIn

\* Counts that have been taken off.
LEMMA TakenFacts ==
    ASSUME NEW al \in SUBSET Node, NEW o, NEW h, NEW P, NEW y
    PROVE  /\ IsFiniteSet(Taken(al, o, h, P, y)) /\ Cardinality(Taken(al, o, h, P, y)) \in Nat
<1>1. IsFiniteSet(al)
  BY KindAssumption, FS_Subset
<1>2. Taken(al, o, h, P, y) \subseteq al
  BY DEF Taken
<1> QED
  BY <1>1, <1>2, FS_Subset, FS_CardinalityType

\* One more node is visited: one more reference is taken from its children.
LEMMA TakenAdd ==
    ASSUME NEW al \in SUBSET Node, NEW o, NEW h, NEW P, NEW n \in al, n \notin P,
           NEW P2, \A m \in al : m \in P2 <=> m \in P \/ m = n, NEW h2,
           \A m \in Node : h2[m].null = h[m].null /\ h2[m].freed = h[m].freed, NEW y
    PROVE  Cardinality(Taken(al, o, h2, P2, y)) =
             Cardinality(Taken(al, o, h, P, y)) + One(y \in Kids(h, o, n))
<1> DEFINE A == Taken(al, o, h, P, y)
           B == Taken(al, o, h2, P2, y)
<1>1. IsFiniteSet(A) /\ Cardinality(A) \in Nat
  BY TakenFacts
<1>2. n \notin A
  BY DEF Taken
<1>3. \A m \in al : Kids(h2, o, m) = Kids(h, o, m)
  BY DEF Kids
<1>4. CASE y \in Kids(h, o, n)
  <2>1. B = A \union {n}
    BY <1>3, <1>4 DEF Taken
  <2>2. Cardinality(B) = Cardinality(A) + 1
    BY <2>1, <1>1, <1>2, FS_AddElement
  <2> QED
    BY <2>2, <1>4 DEF One
<1>5. CASE y \notin Kids(h, o, n)
  <2>1. B = A
    BY <1>3, <1>5 DEF Taken
  <2> QED
    BY <2>1, <1>1, <1>5 DEF One
<1> QED
  BY <1>4, <1>5

\* Counts and taken references change together.
LEMMA RcTaken ==
    ASSUME NEW al \in SUBSET Node, NEW o, NEW hd, NEW h, NEW st, NEW b, NEW x, NEW P,
           RcOK(al, o, hd, h, st, b, x, P), NEW h2, NEW P2,
           \A y \in al : h2[y].rc + Cardinality(Taken(al, o, h2, P2, y)) =
                         h[y].rc + Cardinality(Taken(al, o, h, P, y))
    PROVE  RcOK(al, o, hd, h2, st, b, x, P2)
BY DEF RcOK

\* The counts of the children of n are taken off.
LEMMA RcTake ==
    ASSUME NEW al \in SUBSET Node, NEW o, NEW hd, NEW h \in [Node -> Hdr], NEW st, NEW b, NEW x, NEW P,
           RcOK(al, o, hd, h, st, b, x, P), NEW n \in al, n \notin P,
           NEW P2, \A m \in al : m \in P2 <=> m \in P \/ m = n, NEW h2,
           \A m \in Node : h2[m].null = h[m].null /\ h2[m].freed = h[m].freed,
           \A y \in al : h2[y].rc = h[y].rc - One(y \in Kids(h, o, n))
    PROVE  RcOK(al, o, hd, h2, st, b, x, P2)
<1>1. ASSUME NEW y \in al
      PROVE  h2[y].rc + Cardinality(Taken(al, o, h2, P2, y)) =
             h[y].rc + Cardinality(Taken(al, o, h, P, y))
  <2>1. Cardinality(Taken(al, o, h2, P2, y)) =
             Cardinality(Taken(al, o, h, P, y)) + One(y \in Kids(h, o, n))
    BY TakenAdd
  <2>2. Cardinality(Taken(al, o, h, P, y)) \in Nat /\ One(y \in Kids(h, o, n)) \in Int /\ h[y].rc \in Int
    BY TakenFacts DEF One, Hdr
  <2>3. h2[y].rc = h[y].rc - One(y \in Kids(h, o, n))
    OBVIOUS
  <2> QED
    BY ONLY <2>1, <2>2, <2>3
<1>2. RcOK(al, o, hd, h, st, b, x, P)
  OBVIOUS
<1> QED
  BY ONLY <1>1, <1>2, RcTaken

\* They are put back.
LEMMA RcPut ==
    ASSUME NEW al \in SUBSET Node, NEW o, NEW hd, NEW h \in [Node -> Hdr], NEW st, NEW b, NEW x, NEW P,
           RcOK(al, o, hd, h, st, b, x, P), NEW n \in al, n \in P,
           NEW P2, \A m \in al : m \in P2 <=> m \in P /\ m # n, NEW h2,
           \A m \in Node : h2[m].null = h[m].null /\ h2[m].freed = h[m].freed,
           \A y \in al : h2[y].rc = h[y].rc + One(y \in Kids(h, o, n))
    PROVE  RcOK(al, o, hd, h2, st, b, x, P2)
<1>1. ASSUME NEW y \in al
      PROVE  h2[y].rc + Cardinality(Taken(al, o, h2, P2, y)) =
             h[y].rc + Cardinality(Taken(al, o, h, P, y))
  <2>0. /\ n \notin P2 /\ \A m \in al : m \in P <=> m \in P2 \/ m = n
        /\ \A m \in Node : h[m].null = h2[m].null /\ h[m].freed = h2[m].freed
    OBVIOUS
  <2>1. Cardinality(Taken(al, o, h, P, y)) =
             Cardinality(Taken(al, o, h2, P2, y)) + One(y \in Kids(h2, o, n))
    BY ONLY <2>0, TakenAdd, al \in SUBSET Node, n \in al
  <2>2. /\ Cardinality(Taken(al, o, h2, P2, y)) \in Nat /\ One(y \in Kids(h, o, n)) \in Int /\ h[y].rc \in Int
        /\ Kids(h2, o, n) = Kids(h, o, n)
    BY TakenFacts DEF One, Hdr, Kids
  <2>3. h2[y].rc = h[y].rc + One(y \in Kids(h, o, n))
    OBVIOUS
  <2> QED
    BY ONLY <2>1, <2>2, <2>3
<1>2. RcOK(al, o, hd, h, st, b, x, P)
  OBVIOUS
<1> QED
  BY ONLY <1>1, <1>2, RcTaken

\* They stay as they are.
LEMMA RcKeep ==
    ASSUME NEW al \in SUBSET Node, NEW o, NEW hd, NEW h, NEW st, NEW b, NEW x, NEW P,
           RcOK(al, o, hd, h, st, b, x, P),
           NEW P2, \A m \in al : m \in P2 <=> m \in P, NEW h2,
           \A m \in Node : /\ h2[m].null = h[m].null /\ h2[m].freed = h[m].freed
                           /\ h2[m].rc = h[m].rc
    PROVE  RcOK(al, o, hd, h2, st, b, x, P2)
<1>1. ASSUME NEW y \in al
      PROVE  h2[y].rc + Cardinality(Taken(al, o, h2, P2, y)) =
             h[y].rc + Cardinality(Taken(al, o, h, P, y))
  <2>1. Taken(al, o, h2, P2, y) = Taken(al, o, h, P, y)
    BY DEF Taken, Kids
  <2> QED
    BY <2>1
<1>2. RcOK(al, o, hd, h, st, b, x, P)
  OBVIOUS
<1> QED
  BY ONLY <1>1, <1>2, RcTaken

\* What Visit does to the headers.
Visited(h, o, n, d, S, color, h2) ==
    /\ h2 \in [Node -> Hdr]
    /\ \A y \in Node : /\ h2[y].null = h[y].null /\ h2[y].freed = h[y].freed
                       /\ h2[y].dtored = h[y].dtored /\ h2[y].addr = h[y].addr
                       /\ y \in S => h2[y].color = color
                       /\ y \notin S => h2[y].color = h[y].color
                       /\ y \notin Kids(h, o, n) => h2[y].rc = h[y].rc
                       /\ y \in Kids(h, o, n) => h2[y].rc = h[y].rc + d
\* What Visit does, child by child.
LEMMA VisitFacts ==
    ASSUME hdr \in [Node -> Hdr], NEW n, NEW d \in Int, NEW S, NEW color \in Colors,
           S \subseteq Children(n), NEW h2, h2 = Visit(n, d, S, color)
    PROVE  Visited(hdr, out, n, d, S, color, h2)
<1>1. Children(n) = Kids(hdr, out, n)
  BY DEF Children, Kids
<1>2. ASSUME NEW y \in Node
      PROVE  /\ h2[y] \in Hdr /\ h2[y].null = hdr[y].null /\ h2[y].freed = hdr[y].freed
             /\ h2[y].dtored = hdr[y].dtored /\ h2[y].addr = hdr[y].addr
             /\ y \in S => h2[y].color = color
             /\ y \notin S => h2[y].color = hdr[y].color
             /\ y \notin Kids(hdr, out, n) => h2[y].rc = hdr[y].rc
             /\ y \in Kids(hdr, out, n) => h2[y].rc = hdr[y].rc + d
  <2> DEFINE v == hdr[y]
             w == h2[y]
             r == v.rc + d
             q == IF y \in S THEN color ELSE v.color
  <2>0. v \in Hdr /\ r \in Int /\ q \in Colors
    BY DEF Hdr
  <2>1. CASE y \notin Children(n)
    <3>1. w = v
      BY <2>1 DEF Visit
    <3> QED
      BY <3>1, <2>0, <2>1, <1>1
  <2>2. CASE y \in Children(n)
    <3>1. w = [v EXCEPT !.rc = r, !.color = q]
      BY <2>2 DEF Visit
    <3> HIDE DEF v, w, r, q
    <3>2. /\ w \in Hdr /\ w.null = v.null /\ w.freed = v.freed /\ w.dtored = v.dtored /\ w.addr = v.addr
          /\ w.color = q /\ w.rc = r
      BY ONLY <3>1, <2>0 DEF Hdr
    <3> QED
      BY <3>2, <2>2, <1>1 DEF v, w, r, q
  <2> QED
    BY <2>1, <2>2
<1>3. h2 \in [Node -> Hdr]
  <2>1. h2 = [y \in Node |-> h2[y]]
    BY DEF Visit
  <2>2. \A y \in Node : h2[y] \in Hdr
    BY ONLY <1>2
  <2> QED
    BY ONLY <2>1, <2>2
<1> QED
  BY ONLY <1>2, <1>3 DEF Visited

\* One node takes a color.
Painted(h, n, color, h2) ==
    /\ h2 \in [Node -> Hdr]
    /\ \A y \in Node : /\ h2[y].null = h[y].null /\ h2[y].freed = h[y].freed
                       /\ h2[y].dtored = h[y].dtored /\ h2[y].addr = h[y].addr
                       /\ h2[y].rc = h[y].rc /\ (y # n => h2[y].color = h[y].color)
    /\ h2[n].color = color
\* What painting one node does to the headers.
LEMMA PaintFacts ==
    ASSUME NEW h \in [Node -> Hdr], NEW n \in Node, NEW color \in Colors,
           NEW h2, h2 = [h EXCEPT ![n].color = color]
    PROVE  Painted(h, n, color, h2)
<1> DEFINE v == h[n]
           w == h2[n]
<1>1. w = [v EXCEPT !.color = color] /\ v \in Hdr /\ color \in Colors
  OBVIOUS
<1>2. \A y \in Node : y # n => h2[y] = h[y]
  OBVIOUS
<1> HIDE DEF v, w
<1>3. /\ w \in Hdr /\ w.null = v.null /\ w.freed = v.freed /\ w.dtored = v.dtored /\ w.addr = v.addr
      /\ w.color = color /\ w.rc = v.rc
  BY ONLY <1>1 DEF Hdr
<1>4. h2 \in [Node -> Hdr]
  BY <1>3 DEF w
<1> QED
  BY <1>2, <1>3, <1>4 DEF Painted, v, w

Marks == col.pc = "mark" /\ Marking(alloc, out, held, hdr, gc, col, stack, bailed, ran)

\* The locals of the collector, one field at a time.
LEMMA GoToFacts ==
    ASSUME col \in Locals, NEW pc \in Pcs, NEW i \in Nat
    PROVE  /\ GoTo(pc, i) \in Locals /\ GoTo(pc, i).pc = pc /\ GoTo(pc, i).idx = i
           /\ GoTo(pc, i).end = col.end /\ GoTo(pc, i).todo = col.todo
           /\ GoTo(pc, i).btodo = col.btodo /\ GoTo(pc, i).hasd = col.hasd
<1> DEFINE c == GoTo(pc, i)
<1>1. c = [col EXCEPT !.pc = pc, !.idx = i] /\ pc \in Pcs /\ i \in Nat /\ col \in Locals
  BY DEF GoTo
<1> HIDE DEF c
<1>2. /\ c \in Locals /\ c.pc = pc /\ c.idx = i /\ c.end = col.end /\ c.todo = col.todo
      /\ c.btodo = col.btodo /\ c.hasd = col.hasd
  BY ONLY <1>1 DEF Locals
<1> QED
  BY <1>2 DEF c

\* A step of the collector itself: it is the innermost call.
LEMMA AtFacts ==
    ASSUME NEW pc, At(pc) PROVE stack # <<>> /\ stack[Len(stack)].fn = "gc" /\ col.pc = pc
BY DEF At, Running

\* A collection starts by marking.
LEMMA StartMarks == ASSUME Calm, Start PROVE Marks'
<1> DEFINE r == gc_compact(hdr, gc)
<1>0. Steady(alloc, out, held, hdr, gc, col, stack, bailed, ran, Null)
  BY DEF Calm
<1>1. /\ stack # <<>> /\ stack[Len(stack)].fn = "gc" /\ col.pc = "start"
  BY AtFacts DEF Start
<1>2. /\ hdr' = r.hdr /\ gc' = [r.gc EXCEPT !.active = TRUE]
      /\ col' = [GoTo("mark", 1) EXCEPT !.count = 0, !.hasd = FALSE]
      /\ alloc' = alloc /\ out' = out /\ held' = held /\ stack' = stack
      /\ bailed' = bailed /\ ran' = ran
  BY DEF Start, Quiet, heap
<1>3. /\ Types(alloc, out, held, hdr, gc, col, stack, ran) /\ BufOK(alloc, hdr, gc)
      /\ RcOK(alloc, out, held, hdr, stack, bailed, Null, {}) /\ ColorOK(hdr, gc) /\ TagOK(gc, col)
      /\ DeadOK(alloc, out, held, hdr, stack, Gar(gc), Null) /\ DtorOK(alloc, hdr, Gar(gc), ran)
      /\ StackOK(alloc, hdr, gc, col, stack) /\ Closed(alloc, out, held, Null)
      /\ EfreeOK(alloc, out, held, hdr, stack, Null) /\ EmptyOK(alloc, out, hdr, gc, col, stack, bailed)
  BY <1>0 DEF Steady
<1>4. /\ alloc \in SUBSET Node /\ hdr \in [Node -> Hdr] /\ gc \in Globals /\ col \in Locals
      /\ stack \in Seq(Frame)
  BY <1>3 DEF Types
<1>5. (\A i \in Used(gc) : gc.buf[i].tag = "root") /\ col.todo = {} /\ col.btodo = {}
  BY <1>1, <1>3 DEF TagOK
<1>6. Gar(gc) = {}
  BY <1>5 DEF Gar, Tagged
<1>7. Base(alloc, out, held, hdr, gc, col, stack, bailed, ran)
  BY <1>1, <1>3, <1>6 DEF Base
<1>8. Compacted(alloc, hdr, gc, r)
  <2>1. Entries(alloc, hdr, gc) /\ (UnusedAt(gc) = {} => gc.unused = 0) /\ r = gc_compact(hdr, gc)
    BY <1>3 DEF BufOK, Listed
  <2> HIDE DEF r
  <2> QED
    BY ONLY <2>1, <1>4, CompactFacts
<1> HIDE DEF r
<1>9. /\ r.gc \in Globals /\ hdr' \in [Node -> Hdr] /\ BufOK(alloc, hdr', r.gc)
      /\ SameBut(hdr, hdr') /\ Moved(gc, r.gc) /\ r.gc.unused = 0
      /\ Used(r.gc) = 1..gc.num_roots /\ r.gc.first_unused = gc.num_roots + 1
  BY <1>2, <1>8 DEF Compacted
<1>10. /\ gc' \in Globals /\ gc'.buf = r.gc.buf /\ gc'.first_unused = r.gc.first_unused
       /\ gc'.unused = r.gc.unused /\ gc'.num_roots = r.gc.num_roots /\ gc'.buf_size = r.gc.buf_size
       /\ gc'.threshold = r.gc.threshold /\ gc'.active
  <2>1. gc' = [r.gc EXCEPT !.active = TRUE] /\ r.gc \in Globals
    BY <1>2, <1>9
  <2> QED
    BY ONLY <2>1 DEF Globals
<1>11. BufOK(alloc, hdr', gc') /\ Used(gc') = Used(r.gc)
  <2> DEFINE rg == r.gc
  <2>1. /\ BufOK(alloc, hdr', rg) /\ gc'.buf = rg.buf /\ gc'.first_unused = rg.first_unused
        /\ gc'.unused = rg.unused /\ gc'.num_roots = rg.num_roots /\ gc'.buf_size = rg.buf_size
        /\ gc'.threshold = rg.threshold
    BY ONLY <1>9, <1>10
  <2> HIDE DEF rg
  <2>2. BufOK(alloc, hdr', gc') /\ Used(gc') = Used(rg)
    BY ONLY <2>1 DEF BufOK, Entries, Listed, UnusedAt, Used
  <2> QED
    BY <2>2 DEF rg
<1>12. /\ col' \in Locals /\ col'.pc = "mark" /\ col'.idx = 1 /\ col'.todo = {} /\ col'.btodo = {}
  <2> DEFINE c == GoTo("mark", 1)
  <2>1. c \in Locals /\ c.pc = "mark" /\ c.idx = 1 /\ c.todo = {} /\ c.btodo = {}
    BY <1>4, <1>5, GoToFacts DEF Pcs
  <2> DEFINE z == 0
             f == FALSE
  <2>2. col' = [c EXCEPT !.count = z, !.hasd = f] /\ z \in Int /\ f \in BOOLEAN
    BY <1>2
  <2> HIDE DEF c, z, f
  <2>3. col' \in Locals /\ col'.pc = c.pc /\ col'.idx = c.idx /\ col'.todo = c.todo /\ col'.btodo = c.btodo
    BY ONLY <2>1, <2>2 DEF Locals
  <2> QED
    BY ONLY <2>1, <2>3
<1>13. Repainted(alloc, out, hdr, hdr')
  BY <1>4, <1>9, KindAssumption DEF Repainted, SameBut
<1>14. Base(alloc, out, held, hdr', gc', col', stack, bailed, ran)
  <2>1. col.pc \in Traversing \union {"start"} /\ col'.pc \in Traversing /\ col'.idx # 0
    BY <1>1, <1>12 DEF Traversing
  <2>2. gc'.active /\ gc' \in Globals /\ BufOK(alloc, hdr', gc') /\ hdr' \in [Node -> Hdr] /\ col' \in Locals
    BY <1>9, <1>10, <1>11, <1>12
  <2> QED
    BY ONLY <2>1, <2>2, <1>7, <1>13, BaseMove
<1>15. \A y \in Node : hdr'[y].color \in {"black", "purple"} /\ (hdr'[y].addr = 0 => hdr'[y].color = "black")
  BY <1>3, <1>9 DEF ColorOK, SameBut
<1>16. Colored(hdr', "grey") = {} /\ Colored(hdr', "white") = {}
  BY <1>15 DEF Colored
<1>17. RcOK(alloc, out, held, hdr', stack, bailed, Null, Colored(hdr', "grey") \ col'.todo)
  <2>1. \A m \in alloc : m \in Colored(hdr', "grey") \ col'.todo <=> m \in {}
    BY <1>16
  <2>2. \A m \in Node : /\ hdr'[m].null = hdr[m].null /\ hdr'[m].freed = hdr[m].freed
                        /\ hdr'[m].rc = hdr[m].rc
    BY <1>9 DEF SameBut
  <2> QED
    BY ONLY <2>1, <2>2, <1>3, <1>4, RcKeep
<1>18. \A i \in Used(gc') : gc'.buf[i].tag = "root" /\ hdr'[gc'.buf[i].ref].color = "purple"
  <2> SUFFICES ASSUME NEW i \in Used(gc') PROVE gc'.buf[i].tag = "root" /\ hdr'[gc'.buf[i].ref].color = "purple"
    OBVIOUS
  <2>1. PICK j \in Used(gc) : gc'.buf[i] = gc.buf[j]
    BY <1>9, <1>10, <1>11 DEF Moved
  <2>2. gc.buf[j].tag = "root" /\ hdr[gc.buf[j].ref].color = "purple" /\ gc.buf[j].ref \in Node
    BY <1>3, <1>4, <1>5 DEF ColorOK, BufOK, Entries
  <2> QED
    BY <2>1, <2>2, <1>9 DEF SameBut
<1>19. Marking(alloc, out, held, hdr', gc', col', stack, bailed, ran)
  <2>1. From(hdr', out, Roots(hdr', gc', Colored(hdr', "grey")), Colored(hdr', "grey"), Colored(hdr', "grey"))
    BY <1>16 DEF From
  <2>2. Found(alloc, out, hdr', Colored(hdr', "grey"))
    BY <1>16 DEF Found
  <2>3. \A i \in Used(gc') : hdr'[gc'.buf[i].ref].color \in IF i < col'.idx THEN {"grey"} ELSE {"grey", "purple"}
    <3>1. \A i \in Used(gc') : ~(i < col'.idx)
      BY <1>4, <1>9, <1>11, <1>12 DEF Globals
    <3> QED
      BY <3>1, <1>18
  <2> QED
    BY <2>1, <2>2, <2>3, <1>12, <1>14, <1>15, <1>16, <1>17, <1>18 DEF Marking
<1> QED
  BY <1>2, <1>12, <1>19 DEF Marks

\* gc_mark_roots: the next root.
LEMMA MarkRootMarks == ASSUME Marks, MarkRoot PROVE Marks'
<1> DEFINE n == Entry.ref
           go == Entry.tag = "root" /\ hdr[n].color = "purple"
           grey == Colored(hdr, "grey")
           grey2 == Colored(hdr', "grey")
<1>0. /\ Base(alloc, out, held, hdr, gc, col, stack, bailed, ran)
      /\ RcOK(alloc, out, held, hdr, stack, bailed, Null, grey \ col.todo)
      /\ col.todo \subseteq grey /\ col.btodo = {} /\ Colored(hdr, "white") = {}
      /\ Found(alloc, out, hdr, grey)
      /\ \A y \in Node : hdr[y].addr = 0 => hdr[y].color # "purple"
      /\ \A i \in Used(gc) : /\ gc.buf[i].tag = "root"
                             /\ hdr[gc.buf[i].ref].color \in
                                     IF i < col.idx THEN {"grey"} ELSE {"grey", "purple"}
      /\ From(hdr, out, Roots(hdr, gc, grey), grey, grey) /\ col.pc = "mark"
  BY DEF Marks, Marking
<1>1. /\ col.todo = {} /\ col.idx < gc.first_unused
      /\ hdr' = IF go THEN [hdr EXCEPT ![n].color = "grey"] ELSE hdr
      /\ col' = [col EXCEPT !.idx = @ + 1, !.todo = IF go THEN {n} ELSE {}]
      /\ gc' = gc /\ alloc' = alloc /\ out' = out /\ held' = held /\ stack' = stack
      /\ bailed' = bailed /\ ran' = ran
  BY DEF MarkRoot, Quiet, heap
<1>2. /\ Types(alloc, out, held, hdr, gc, col, stack, ran) /\ BufOK(alloc, hdr, gc)
      /\ StackOK(alloc, hdr, gc, col, stack)
  BY <1>0 DEF Base
<1>3. /\ alloc \in SUBSET Node /\ hdr \in [Node -> Hdr] /\ gc \in Globals /\ col \in Locals
      /\ col.idx \in Nat /\ col.idx # 0 /\ gc.active
  BY <1>0, <1>2 DEF Types, Locals, StackOK
<1>4. /\ col.idx \in 1..(gc.first_unused - 1) /\ (go => col.idx \in Used(gc) /\ n \in alloc /\ n \in Node)
      /\ col.idx \in Used(gc) => n \in alloc /\ Entry.tag = "root"
  <2>1. Entries(alloc, hdr, gc) /\ gc.first_unused \in Nat
    BY <1>2, <1>3 DEF BufOK, Globals
  <2>2. col.idx \in 1..(gc.first_unused - 1)
    BY <2>1, <1>1, <1>3
  <2>3. go => col.idx \in Used(gc)
    BY <2>2 DEF Used, Entry
  <2>4. col.idx \in Used(gc) => n \in alloc /\ Entry.tag = "root"
    BY <2>1, <1>0 DEF Entries, Entry
  <2> QED
    BY <2>2, <2>3, <2>4, <1>3
<1>5. /\ col' \in Locals /\ col'.pc = "mark" /\ col'.idx = col.idx + 1 /\ col'.btodo = {}
      /\ col'.todo = IF go THEN {n} ELSE {}
  <2> DEFINE T == IF go THEN {n} ELSE {}
             j == col.idx + 1
  <2>1. T \in SUBSET Node /\ j \in Nat
    BY <1>3, <1>4
  <2>2. col' = [col EXCEPT !.idx = j, !.todo = T]
    BY <1>1
  <2> HIDE DEF T, j
  <2>3. col' \in Locals /\ col'.pc = col.pc /\ col'.idx = j /\ col'.btodo = col.btodo /\ col'.todo = T
    BY ONLY <2>1, <2>2, <1>3 DEF Locals
  <2> QED
    BY <2>3, <1>0 DEF T, j
<1>6. /\ hdr' \in [Node -> Hdr]
      /\ \A y \in Node : /\ hdr'[y].null = hdr[y].null /\ hdr'[y].freed = hdr[y].freed
                         /\ hdr'[y].dtored = hdr[y].dtored /\ hdr'[y].addr = hdr[y].addr
                         /\ hdr'[y].rc = hdr[y].rc
                         /\ hdr'[y].color = IF go /\ y = n THEN "grey" ELSE hdr[y].color
  <2>1. CASE go
    <3>1. Painted(hdr, n, "grey", hdr')
      <4> DEFINE color == "grey"
      <4>1. color \in Colors /\ n \in Node /\ hdr' = [hdr EXCEPT ![n].color = color]
        BY <2>1, <1>1, <1>4 DEF Colors
      <4> HIDE DEF color, n
      <4>2. Painted(hdr, n, color, hdr')
        BY ONLY <4>1, <1>3, PaintFacts
      <4> QED
        BY <4>2 DEF color
    <3> QED
      BY <3>1, <2>1 DEF Painted
  <2>2. CASE ~go
    BY <2>2, <1>1, <1>3
  <2> QED
    BY <2>1, <2>2
<1>7. \A y \in Node : y \in grey2 <=> y \in grey \/ (go /\ y = n)
  BY <1>6 DEF Colored
<1>8. Base(alloc, out, held, hdr', gc', col', stack, bailed, ran)
  <2>1. Repainted(alloc, out, hdr, hdr')
    BY <1>3, <1>6, KindAssumption DEF Repainted
  <2>2. BufOK(alloc, hdr', gc)
    BY <1>2, <1>3, <1>6, BufHdr
  <2>3. col.pc \in Traversing \union {"start"} /\ col'.pc \in Traversing /\ col'.idx # 0
    BY <1>0, <1>3, <1>5 DEF Traversing
  <2>4. gc'.active /\ gc' \in Globals /\ BufOK(alloc, hdr', gc') /\ hdr' \in [Node -> Hdr] /\ col' \in Locals
    BY <2>2, <1>1, <1>3, <1>5, <1>6
  <2> QED
    BY ONLY <2>1, <2>3, <2>4, <1>0, BaseMove
<1>9. RcOK(alloc, out, held, hdr', stack, bailed, Null, grey2 \ col'.todo)
  <2>1. \A m \in alloc : m \in grey2 \ col'.todo <=> m \in grey \ col.todo
    <3>1. go => n \notin grey
      BY DEF Colored
    <3>2. col.todo = {} /\ \A m \in alloc : m \in Node
      BY <1>1, <1>3
    <3>3. \A m \in alloc : m \in col'.todo <=> go /\ m = n
      BY <1>5
    <3>4. \A m \in alloc : m \in grey2 <=> m \in grey \/ (go /\ m = n)
      BY <3>2, <1>7
    <3> HIDE DEF go, n, grey, grey2
    <3> QED
      BY ONLY <3>1, <3>2, <3>3, <3>4
  <2>2. \A m \in Node : /\ hdr'[m].null = hdr[m].null /\ hdr'[m].freed = hdr[m].freed
                        /\ hdr'[m].rc = hdr[m].rc
    BY <1>6
  <2> HIDE DEF grey, grey2
  <2> QED
    BY ONLY <2>1, <2>2, <1>0, <1>3, RcKeep
<1>10. col'.todo \subseteq grey2 /\ Colored(hdr', "white") = {}
  <2>1. col'.todo \subseteq grey2
    BY <1>4, <1>5, <1>7
  <2>2. Colored(hdr', "white") = {}
    BY <1>0, <1>6 DEF Colored
  <2> QED
    BY <2>1, <2>2
<1>11. Found(alloc, out, hdr', grey2)
  <2> SUFFICES ASSUME NEW y \in grey2
               PROVE  y \in alloc /\ (hdr'[y].addr # 0 \/ \E m \in alloc : y \in out[m])
    BY DEF Found
  <2>0. y \in Node
    BY DEF Colored
  <2>1. CASE y \in grey
    BY <2>0, <2>1, <1>0, <1>6 DEF Found
  <2>2. CASE go /\ y = n
    <3>1. hdr[n].addr # 0 /\ n \in alloc /\ n \in Node
      BY <2>2, <1>0, <1>4
    <3> QED
      BY <3>1, <2>2, <1>6
  <2> QED
    BY <2>0, <2>1, <2>2, <1>7
<1>12. \A y \in Node : hdr'[y].addr = 0 => hdr'[y].color # "purple"
  BY <1>0, <1>6
<1>13. \A i \in Used(gc') : /\ gc'.buf[i].tag = "root"
                            /\ hdr'[gc'.buf[i].ref].color \in
                                     IF i < col'.idx THEN {"grey"} ELSE {"grey", "purple"}
  <2> SUFFICES ASSUME NEW i \in Used(gc)
               PROVE  /\ gc.buf[i].tag = "root"
                      /\ hdr'[gc.buf[i].ref].color \in
                                     IF i < col'.idx THEN {"grey"} ELSE {"grey", "purple"}
    BY <1>1
  <2>1. /\ gc.buf[i].ref \in Node /\ i \in Nat
        /\ gc.buf[i].tag = "root"
        /\ hdr[gc.buf[i].ref].color \in IF i < col.idx THEN {"grey"} ELSE {"grey", "purple"}
    BY <1>0, <1>2, <1>3 DEF BufOK, Entries, Used
  <2>2. CASE i = col.idx
    <3>1. gc.buf[i].ref = n /\ Entry.tag = "root" /\ (hdr[n].color = "grey" \/ go)
      BY <2>1, <2>2 DEF Entry
    <3>2. hdr'[n].color = "grey"
      BY <3>1, <2>1, <1>6
    <3> QED
      BY <3>1, <3>2, <2>1
  <2>3. CASE i # col.idx
    <3>1. i < col'.idx <=> i < col.idx
      BY <2>1, <2>3, <1>3, <1>5
    <3> QED
      BY <3>1, <2>1, <1>6
  <2> QED
    BY <2>2, <2>3
<1>14. From(hdr', out, Roots(hdr', gc', grey2), grey2, grey2)
  <2> SUFFICES ASSUME NEW C, Roots(hdr', gc', grey2) \subseteq C,
                      \A m \in C, y \in grey2 : m \in grey2 /\ y \in Kids(hdr', out, m) => y \in C
               PROVE  grey2 \subseteq C
    BY DEF From
  <2>0. \A y \in grey2 : y \in Node
    BY DEF Colored
  <2>1. grey \subseteq grey2 /\ \A y \in grey : y \in Node
    BY <1>7 DEF Colored
  <2>2. \A m \in Node : Kids(hdr', out, m) = Kids(hdr, out, m)
    BY <1>6 DEF Kids
  <2>3. Roots(hdr, gc, grey) \subseteq C
    BY <2>1, <1>1 DEF Roots
  <2>4. \A m \in C, y \in grey : m \in grey /\ y \in Kids(hdr, out, m) => y \in C
    BY <2>1, <2>2
  <2>5. grey \subseteq C
    BY ONLY <2>3, <2>4, <1>0 DEF From
  <2>6. go => n \in C
    <3> SUFFICES ASSUME go PROVE n \in C
      OBVIOUS
    <3>1. n \in grey2 /\ \E i \in Used(gc') : gc'.buf[i].ref = n
      BY <1>1, <1>4, <1>7 DEF Entry
    <3> QED
      BY <3>1 DEF Roots
  <2> QED
    BY <2>0, <2>5, <2>6, <1>7
<1>15. Marking(alloc, out, held, hdr', gc', col', stack, bailed, ran)
  <2>1. col'.btodo = {}
    BY <1>5
  <2> HIDE DEF n, go
  <2> QED
    BY ONLY <2>1, <1>8, <1>9, <1>10, <1>11, <1>12, <1>13, <1>14 DEF Marking
<1> QED
  BY <1>1, <1>5, <1>15 DEF Marks

\* gc_mark_grey: the counts of the children of n go, and those that are not
\* grey yet are next.
LEMMA MarkGreyMarks == ASSUME NEW n \in Node, Marks, gc_mark_grey(n) PROVE Marks'
<1> DEFINE fresh == { m \in Children(n) : hdr[m].color # "grey" }
           grey == Colored(hdr, "grey")
           grey2 == Colored(hdr', "grey")
<1>0. /\ Base(alloc, out, held, hdr, gc, col, stack, bailed, ran)
      /\ RcOK(alloc, out, held, hdr, stack, bailed, Null, grey \ col.todo)
      /\ col.todo \subseteq grey /\ col.btodo = {} /\ Colored(hdr, "white") = {}
      /\ Found(alloc, out, hdr, grey)
      /\ \A y \in Node : hdr[y].addr = 0 => hdr[y].color # "purple"
      /\ \A i \in Used(gc) : /\ gc.buf[i].tag = "root"
                             /\ hdr[gc.buf[i].ref].color \in
                                     IF i < col.idx THEN {"grey"} ELSE {"grey", "purple"}
      /\ From(hdr, out, Roots(hdr, gc, grey), grey, grey) /\ col.pc = "mark"
  BY DEF Marks, Marking
<1>1. /\ n \in col.todo /\ hdr' = Visit(n, -1, fresh, "grey")
      /\ col' = [col EXCEPT !.todo = (@ \ {n}) \union fresh]
      /\ gc' = gc /\ alloc' = alloc /\ out' = out /\ held' = held /\ stack' = stack
      /\ bailed' = bailed /\ ran' = ran
  BY DEF gc_mark_grey, Quiet, heap
<1>2. /\ Types(alloc, out, held, hdr, gc, col, stack, ran) /\ BufOK(alloc, hdr, gc)
      /\ StackOK(alloc, hdr, gc, col, stack) /\ Closed(alloc, out, held, Null)
  BY <1>0 DEF Base
<1>3. /\ alloc \in SUBSET Node /\ hdr \in [Node -> Hdr] /\ gc \in Globals /\ col \in Locals
      /\ col.idx \in Nat /\ col.idx # 0 /\ gc.active /\ out \in [Node -> SUBSET Node]
      /\ col.todo \in SUBSET Node
  BY <1>0, <1>2 DEF Types, Locals, StackOK
<1>4. n \in grey /\ n \in alloc /\ hdr[n].color = "grey"
  BY <1>0, <1>1 DEF Found, Colored
<1>5. /\ Children(n) = Kids(hdr, out, n) /\ Kids(hdr, out, n) \subseteq out[n]
      /\ out[n] \subseteq alloc
  BY <1>2, <1>4 DEF Children, Kids, Closed
<1>6. /\ fresh \subseteq Kids(hdr, out, n) /\ fresh \subseteq alloc /\ n \notin fresh
      /\ \A y \in fresh : y \in Node /\ y \in out[n] /\ hdr[y].color # "grey"
      /\ \A y \in Kids(hdr, out, n) : hdr[y].color # "grey" => y \in fresh
  BY <1>3, <1>4, <1>5
<1>7. Visited(hdr, out, n, -1, fresh, "grey", hdr')
  <2> DEFINE d == -1
             color == "grey"
  <2>1. d \in Int /\ color \in Colors /\ fresh \subseteq Children(n) /\ hdr' = Visit(n, d, fresh, color)
    BY <1>1 DEF Colors
  <2> HIDE DEF d, color, fresh
  <2>2. Visited(hdr, out, n, d, fresh, color, hdr')
    BY ONLY <2>1, <1>3, VisitFacts
  <2> QED
    BY <2>2 DEF d, color
<1> HIDE DEF fresh
<1>8. /\ hdr' \in [Node -> Hdr]
      /\ \A y \in Node : /\ hdr'[y].null = hdr[y].null /\ hdr'[y].freed = hdr[y].freed
                         /\ hdr'[y].dtored = hdr[y].dtored /\ hdr'[y].addr = hdr[y].addr
                         /\ y \in fresh => hdr'[y].color = "grey"
                         /\ y \notin fresh => hdr'[y].color = hdr[y].color
                         /\ y \notin Kids(hdr, out, n) => hdr'[y].rc = hdr[y].rc
                         /\ y \in Kids(hdr, out, n) => hdr'[y].rc = hdr[y].rc + (-1)
  BY ONLY <1>7 DEF Visited
<1>9. \A y \in Node : y \in grey2 <=> y \in grey \/ y \in fresh
  BY <1>8 DEF Colored
<1>10. /\ col' \in Locals /\ col'.pc = "mark" /\ col'.idx = col.idx /\ col'.btodo = {}
       /\ col'.todo = (col.todo \ {n}) \union fresh
  <2> DEFINE T == (col.todo \ {n}) \union fresh
  <2>1. T \in SUBSET Node
    BY <1>3, <1>6
  <2>2. col' = [col EXCEPT !.todo = T]
    BY <1>1
  <2> HIDE DEF T
  <2>3. col' \in Locals /\ col'.pc = col.pc /\ col'.idx = col.idx /\ col'.btodo = col.btodo /\ col'.todo = T
    BY ONLY <2>1, <2>2, <1>3 DEF Locals
  <2> QED
    BY <2>3, <1>0 DEF T
<1>11. Base(alloc, out, held, hdr', gc', col', stack, bailed, ran)
  <2>1. Repainted(alloc, out, hdr, hdr')
    <3>1. \A y \in alloc : \/ hdr'[y].rc = hdr[y].rc /\ (hdr[y].addr = 0 => hdr'[y].addr = 0)
                           \/ \E m \in alloc : y \in out[m]
      BY <1>3, <1>4, <1>5, <1>8
    <3> QED
      BY <3>1, <1>8, KindAssumption DEF Repainted
  <2>2. BufOK(alloc, hdr', gc)
    BY <1>2, <1>3, <1>8, BufHdr
  <2>3. col.pc \in Traversing \union {"start"} /\ col'.pc \in Traversing /\ col'.idx # 0
    BY <1>0, <1>3, <1>10 DEF Traversing
  <2>4. gc'.active /\ gc' \in Globals /\ BufOK(alloc, hdr', gc') /\ hdr' \in [Node -> Hdr] /\ col' \in Locals
    BY <2>2, <1>1, <1>3, <1>8, <1>10
  <2> QED
    BY ONLY <2>1, <2>3, <2>4, <1>0, BaseMove
<1>12. RcOK(alloc, out, held, hdr', stack, bailed, Null, grey2 \ col'.todo)
  <2> DEFINE P == grey \ col.todo
             P2 == grey2 \ col'.todo
  <2>1. n \notin P /\ \A m \in alloc : m \in P2 <=> m \in P \/ m = n
    <3>1. \A m \in alloc : m \in grey => m \notin fresh
      BY <1>6 DEF Colored
    <3> QED
      BY <3>1, <1>1, <1>3, <1>4, <1>9, <1>10
  <2>2. /\ \A m \in Node : hdr'[m].null = hdr[m].null /\ hdr'[m].freed = hdr[m].freed
        /\ \A y \in alloc : hdr'[y].rc = hdr[y].rc - One(y \in Kids(hdr, out, n))
    BY <1>3, <1>8 DEF One, Hdr
  <2>3. RcOK(alloc, out, held, hdr, stack, bailed, Null, P)
    BY <1>0
  <2> HIDE DEF P, P2
  <2>4. RcOK(alloc, out, held, hdr', stack, bailed, Null, P2)
    BY ONLY <2>1, <2>2, <2>3, <1>3, <1>4, RcTake
  <2> QED
    BY <2>4 DEF P2
<1>13. col'.todo \subseteq grey2 /\ Colored(hdr', "white") = {}
  <2>1. \A y \in grey2 : y \in Node
    BY DEF Colored
  <2>2. col'.todo \subseteq grey2
    BY <1>0, <1>3, <1>6, <1>9, <1>10
  <2>3. Colored(hdr', "white") = {}
    BY <1>0, <1>8 DEF Colored
  <2> QED
    BY <2>2, <2>3
<1>14. Found(alloc, out, hdr', grey2)
  <2> SUFFICES ASSUME NEW y \in grey2
               PROVE  y \in alloc /\ (hdr'[y].addr # 0 \/ \E m \in alloc : y \in out[m])
    BY DEF Found
  <2>0. y \in Node
    BY DEF Colored
  <2>1. CASE y \in grey
    BY <2>0, <2>1, <1>0, <1>8 DEF Found
  <2>2. CASE y \in fresh
    BY <2>2, <1>4, <1>6
  <2> QED
    BY <2>0, <2>1, <2>2, <1>9
<1>15. \A y \in Node : hdr'[y].addr = 0 => hdr'[y].color # "purple"
  BY <1>0, <1>8
<1>16. \A i \in Used(gc') : /\ gc'.buf[i].tag = "root"
                            /\ hdr'[gc'.buf[i].ref].color \in
                                     IF i < col'.idx THEN {"grey"} ELSE {"grey", "purple"}
  <2>1. \A i \in Used(gc) : gc.buf[i].ref \in Node
    BY <1>2, <1>3 DEF BufOK, Entries
  <2>2. \A y \in Node : hdr'[y].color = "grey" \/ hdr'[y].color = hdr[y].color
    BY <1>8
  <2> QED
    BY <2>1, <2>2, <1>0, <1>1, <1>10
<1>17. From(hdr', out, Roots(hdr', gc', grey2), grey2, grey2)
  <2> SUFFICES ASSUME NEW C, Roots(hdr', gc', grey2) \subseteq C,
                      \A m \in C, y \in grey2 : m \in grey2 /\ y \in Kids(hdr', out, m) => y \in C
               PROVE  grey2 \subseteq C
    BY DEF From
  <2>0. \A y \in grey2 : y \in Node
    BY DEF Colored
  <2>1. grey \subseteq grey2 /\ \A y \in grey : y \in Node
    BY <1>9 DEF Colored
  <2>2. \A m \in Node : Kids(hdr', out, m) = Kids(hdr, out, m)
    BY <1>8 DEF Kids
  <2>3. Roots(hdr, gc, grey) \subseteq C
    BY <2>1, <1>1 DEF Roots
  <2>4. \A m \in C, y \in grey : m \in grey /\ y \in Kids(hdr, out, m) => y \in C
    BY <2>1, <2>2
  <2>5. grey \subseteq C
    BY ONLY <2>3, <2>4, <1>0 DEF From
  <2>6. \A y \in fresh : y \in C
    BY <2>1, <2>2, <2>5, <1>4, <1>6, <1>9
  <2> QED
    BY <2>0, <2>5, <2>6, <1>9
<1>18. Marking(alloc, out, held, hdr', gc', col', stack, bailed, ran)
  <2>1. col'.btodo = {}
    BY <1>10
  <2> QED
    BY ONLY <2>1, <1>11, <1>12, <1>13, <1>14, <1>15, <1>16, <1>17 DEF Marking
<1> QED
  BY <1>1, <1>10, <1>18 DEF Marks

\* A traversal that leaves the buffer and the addresses alone.
LEMMA BaseHdr ==
    ASSUME NEW al, NEW o, NEW hd, NEW h, NEW g, NEW c, NEW st, NEW b, NEW rn,
           Base(al, o, hd, h, g, c, st, b, rn), c.pc \in Traversing,
           NEW h2 \in [Node -> Hdr],
           \A y \in Node : /\ h2[y].null = h[y].null /\ h2[y].freed = h[y].freed
                           /\ h2[y].dtored = h[y].dtored /\ h2[y].addr = h[y].addr,
           \A y \in al : h2[y].rc = h[y].rc \/ \E m \in al : y \in o[m],
           NEW c2 \in Locals, c2.pc \in Traversing, c2.idx # 0
    PROVE  Base(al, o, hd, h2, g, c2, st, b, rn)
<1>0. /\ Types(al, o, hd, h, g, c, st, rn) /\ BufOK(al, h, g) /\ StackOK(al, h, g, c, st)
      /\ Base(al, o, hd, h, g, c, st, b, rn)
  BY DEF Base
<1>1. /\ al \in SUBSET Node /\ h \in [Node -> Hdr] /\ g \in Globals /\ g.active
  BY <1>0 DEF Types, StackOK, Traversing
<1>2. Repainted(al, o, h, h2)
  BY <1>1, KindAssumption DEF Repainted
<1>3. BufOK(al, h2, g)
  BY <1>0, <1>1, BufHdr
<1>4. c.pc \in Traversing \union {"start"} /\ c2.pc \in Traversing /\ c2.idx # 0
  OBVIOUS
<1> QED
  BY ONLY <1>0, <1>1, <1>2, <1>3, <1>4, BaseMove, h2 \in [Node -> Hdr], c2 \in Locals

\* A step of a traversal: the nodes of X are done with, the nodes that leave S
\* are among those it goes on from.
Onward(h, o, B, D, S, h2, B2, D2, S2, X) ==
    /\ S2 \subseteq S
    /\ \A y \in S2 : y \notin X
    /\ \A y \in B : y \in B2 \/ y \in X
    /\ \A y \in S : y \in S2 \/ y \in B2
    /\ \A m \in D : (m \in D2 \/ m \in X) /\ Kids(h2, o, m) = Kids(h, o, m)
    /\ \A m \in X, y \in S : m \in D /\ y \in Kids(h, o, m) => y \in B2
\* Such a step keeps what the traversal has established.
LEMMA FromStep ==
    ASSUME NEW h, NEW h2, NEW o, NEW B, NEW D, NEW S, From(h, o, B, D, S),
           NEW B2, NEW D2, NEW S2, NEW X, Onward(h, o, B, D, S, h2, B2, D2, S2, X)
    PROVE  From(h2, o, B2, D2, S2)
<1> USE DEF Onward
<1> SUFFICES ASSUME NEW C, B2 \subseteq C,
                    \A m \in C, y \in S2 : m \in D2 /\ y \in Kids(h2, o, m) => y \in C
             PROVE  S2 \subseteq C
  BY DEF From
<1> DEFINE E == C \union X
<1>1. B \subseteq E
  OBVIOUS
<1>2. ASSUME NEW m \in E, NEW y \in S, m \in D, y \in Kids(h, o, m)
      PROVE  y \in E
  <2>1. CASE m \in X
    BY <1>2, <2>1
  <2>2. CASE m \notin X
    <3>1. m \in C /\ m \in D2 /\ y \in Kids(h2, o, m)
      BY <1>2, <2>2
    <3> QED
      BY <3>1
  <2> QED
    BY <2>1, <2>2
<1>3. S \subseteq E
  <2>1. \A m \in E, y \in S : m \in D /\ y \in Kids(h, o, m) => y \in E
    BY <1>2
  <2>2. From(h, o, B, D, S)
    OBVIOUS
  <2> HIDE DEF E
  <2> QED
    BY ONLY <1>1, <2>1, <2>2 DEF From
<1> QED
  BY <1>3

Scans == col.pc = "scan" /\ Scanning(alloc, out, held, hdr, gc, col, stack, bailed, ran)

\* The roots are marked: the scan starts.
LEMMA MarkDoneScans == ASSUME Marks, MarkDone PROVE Scans'
<1> DEFINE grey == Colored(hdr, "grey")
<1>0. /\ Base(alloc, out, held, hdr, gc, col, stack, bailed, ran)
      /\ RcOK(alloc, out, held, hdr, stack, bailed, Null, grey \ col.todo)
      /\ col.btodo = {} /\ Colored(hdr, "white") = {}
      /\ Found(alloc, out, hdr, grey)
      /\ \A y \in Node : hdr[y].addr = 0 => hdr[y].color # "purple"
      /\ \A i \in Used(gc) : /\ gc.buf[i].tag = "root"
                             /\ hdr[gc.buf[i].ref].color \in
                                     IF i < col.idx THEN {"grey"} ELSE {"grey", "purple"}
      /\ From(hdr, out, Roots(hdr, gc, grey), grey, grey) /\ col.pc = "mark"
  BY DEF Marks, Marking
<1>1. /\ col.todo = {} /\ col.idx = gc.first_unused /\ col' = GoTo("scan", 1) /\ hdr' = hdr
      /\ gc' = gc /\ alloc' = alloc /\ out' = out /\ held' = held /\ stack' = stack
      /\ bailed' = bailed /\ ran' = ran
  BY DEF MarkDone, Quiet, heap
<1>2. /\ Types(alloc, out, held, hdr, gc, col, stack, ran) /\ BufOK(alloc, hdr, gc)
  BY <1>0 DEF Base
<1>3. /\ alloc \in SUBSET Node /\ hdr \in [Node -> Hdr] /\ gc \in Globals /\ col \in Locals
  BY <1>0, <1>2 DEF Types, Locals
<1>4. /\ col' \in Locals /\ col'.pc = "scan" /\ col'.idx = 1 /\ col'.todo = {} /\ col'.btodo = {}
  BY <1>0, <1>1, <1>3, GoToFacts DEF Pcs
<1>5. Base(alloc, out, held, hdr, gc, col', stack, bailed, ran)
  <2>1. col.pc \in Traversing /\ col'.pc \in Traversing /\ col'.idx # 0 /\ col' \in Locals
    BY <1>0, <1>4 DEF Traversing
  <2>2. /\ \A y \in Node : /\ hdr[y].null = hdr[y].null /\ hdr[y].freed = hdr[y].freed
                           /\ hdr[y].dtored = hdr[y].dtored /\ hdr[y].addr = hdr[y].addr
        /\ \A y \in alloc : hdr[y].rc = hdr[y].rc \/ \E m \in alloc : y \in out[m]
    OBVIOUS
  <2> QED
    BY ONLY <2>1, <2>2, <1>0, <1>3, BaseHdr
<1>6. Colored(hdr, "purple") = {}
  <2> SUFFICES ASSUME NEW y \in Node, hdr[y].color = "purple" PROVE FALSE
    BY DEF Colored
  <2>1. PICK i \in Used(gc) : gc.buf[i].ref = y
    BY <1>0, <1>2 DEF BufOK, Entries
  <2>2. i < col.idx
    BY <1>1, <1>2, <1>3 DEF Used, Globals
  <2> QED
    BY <2>1, <2>2, <1>0
<1>7. RcOK(alloc, out, held, hdr, stack, bailed, Null, grey \union Colored(hdr, "white") \union col'.btodo)
  <2>1. grey \union Colored(hdr, "white") \union col'.btodo = grey \ col.todo
    BY <1>0, <1>1, <1>4
  <2> QED
    BY <2>1, <1>0
<1>8. /\ From(hdr, out, Roots(hdr, gc, grey) \union (col'.todo \intersect Colored(hdr, "white")) \union col'.btodo,
              grey \union (col'.todo \intersect Colored(hdr, "white")) \union col'.btodo, grey)
      /\ From(hdr, out, Roots(hdr, gc, grey \union Colored(hdr, "white")) \union col'.btodo,
              grey \union Colored(hdr, "white") \union col'.btodo, grey \union Colored(hdr, "white"))
  <2>1. /\ Roots(hdr, gc, grey) \union (col'.todo \intersect Colored(hdr, "white")) \union col'.btodo = Roots(hdr, gc, grey)
        /\ grey \union (col'.todo \intersect Colored(hdr, "white")) \union col'.btodo = grey
        /\ grey \union Colored(hdr, "white") = grey
        /\ Roots(hdr, gc, grey) \union col'.btodo = Roots(hdr, gc, grey)
        /\ grey \union Colored(hdr, "white") \union col'.btodo = grey
    BY <1>0, <1>4
  <2> QED
    BY <2>1, <1>0
<1>9. Scanning(alloc, out, held, hdr, gc, col', stack, bailed, ran)
  <2>1. \A i \in Used(gc) : gc.buf[i].tag = "root" /\ (i < col'.idx => hdr[gc.buf[i].ref].color # "grey")
    <3>1. \A i \in Used(gc) : ~(i < 1)
      BY <1>3 DEF Used, Globals
    <3> QED
      BY <3>1, <1>0, <1>4
  <2>2. Found(alloc, out, hdr, grey \union Colored(hdr, "white")) /\ col'.btodo \subseteq alloc
    BY <1>0, <1>4 DEF Found
  <2>3. /\ col'.todo \intersect (grey \union Colored(hdr, "purple")) = {}
        /\ col'.btodo \subseteq Colored(hdr, "black")
        /\ \A n \in Colored(hdr, "white") \ col'.todo : hdr[n].rc <= 0
    BY <1>0, <1>4
  <2> QED
    BY ONLY <2>1, <2>2, <2>3, <1>5, <1>6, <1>7, <1>8 DEF Scanning
<1> QED
  BY <1>1, <1>4, <1>9 DEF Scans

\* What a step of gc_scan_roots does to colors and pending nodes, X and Y being
\* the nodes it is done with.
ScanStep(h2, c2, X, Y) ==
    /\ \A y \in Node :
         /\ h2[y].null = hdr[y].null /\ h2[y].freed = hdr[y].freed
         /\ h2[y].dtored = hdr[y].dtored /\ h2[y].addr = hdr[y].addr
         /\ h2[y].color # "purple"
         /\ h2[y].color = "grey" => hdr[y].color = "grey" /\ y \notin c2.todo /\ y \notin X /\ y \notin Y
         /\ h2[y].color = "white" => hdr[y].color \in {"grey", "white"} /\ y \notin Y
         /\ hdr[y].color = "grey" => \/ h2[y].color = "grey" \/ y \in c2.btodo
                                     \/ h2[y].color = "white" /\ y \in c2.todo
         /\ hdr[y].color = "white" => h2[y].color = "white" \/ y \in c2.btodo
         /\ y \in col.todo /\ hdr[y].color = "white" =>
              y \in c2.btodo \/ y \in X \/ (h2[y].color = "white" /\ y \in c2.todo)
         /\ y \in col.btodo => y \in c2.btodo \/ (y \in X /\ y \in Y)
         /\ y \in c2.btodo => h2[y].color = "black" /\ y \in alloc
         /\ h2[y].color = "white" /\ y \notin c2.todo => h2[y].rc <= 0
    /\ \A y \in alloc : h2[y].rc = hdr[y].rc \/ \E m \in alloc : y \in out[m]
    /\ \A m \in X, y \in Node : y \in Kids(hdr, out, m) /\ hdr[y].color = "grey" =>
            y \in c2.btodo \/ (h2[y].color = "white" /\ y \in c2.todo)
    /\ \A m \in Y, y \in Node : y \in Kids(hdr, out, m) /\ hdr[y].color \in {"grey", "white"} =>
            y \in c2.btodo

\* A step of the scan that is Onward keeps its part of the invariant.
LEMMA ScanMove ==
    ASSUME Scans, NEW h2 \in [Node -> Hdr], NEW c2 \in Locals, c2.pc = "scan", c2.idx # 0,
           NEW X, NEW Y, ScanStep(h2, c2, X, Y),
           RcOK(alloc, out, held, h2, stack, bailed, Null,
                Colored(h2, "grey") \union Colored(h2, "white") \union c2.btodo),
           \A i \in Used(gc) : i < c2.idx => h2[gc.buf[i].ref].color # "grey"
    PROVE  Scanning(alloc, out, held, h2, gc, c2, stack, bailed, ran)
<1> DEFINE grey == Colored(hdr, "grey")
           white == Colored(hdr, "white")
           grey2 == Colored(h2, "grey")
           white2 == Colored(h2, "white")
           B1 == Roots(hdr, gc, grey) \union (col.todo \intersect white) \union col.btodo
           D1 == grey \union (col.todo \intersect white) \union col.btodo
           B2 == Roots(h2, gc, grey2) \union (c2.todo \intersect white2) \union c2.btodo
           D2 == grey2 \union (c2.todo \intersect white2) \union c2.btodo
           S == grey \union white
           S2 == grey2 \union white2
           E1 == Roots(hdr, gc, S) \union col.btodo
           F1 == grey \union white \union col.btodo
           E2 == Roots(h2, gc, S2) \union c2.btodo
           F2 == grey2 \union white2 \union c2.btodo
<1>0. /\ Base(alloc, out, held, hdr, gc, col, stack, bailed, ran)
      /\ RcOK(alloc, out, held, hdr, stack, bailed, Null, grey \union white \union col.btodo)
      /\ col.todo \intersect (grey \union Colored(hdr, "purple")) = {}
      /\ col.btodo \subseteq Colored(hdr, "black") /\ Colored(hdr, "purple") = {}
      /\ Found(alloc, out, hdr, S) /\ col.btodo \subseteq alloc
      /\ \A i \in Used(gc) : gc.buf[i].tag = "root"
      /\ From(hdr, out, B1, D1, grey)
      /\ From(hdr, out, E1, F1, S) /\ col.pc = "scan"
  BY DEF Scans, Scanning
<1>1. /\ Types(alloc, out, held, hdr, gc, col, stack, ran) /\ BufOK(alloc, hdr, gc)
  BY <1>0 DEF Base
<1>2. /\ alloc \in SUBSET Node /\ hdr \in [Node -> Hdr] /\ gc \in Globals /\ col \in Locals
      /\ col.todo \in SUBSET Node /\ col.btodo \in SUBSET Node
      /\ c2.todo \in SUBSET Node /\ c2.btodo \in SUBSET Node
  BY <1>0, <1>1 DEF Types, Locals
<1>3. ScanStep(h2, c2, X, Y)
  OBVIOUS
<1>4. \A m : m \in Node => Kids(h2, out, m) = Kids(hdr, out, m)
  BY <1>3 DEF Kids, ScanStep
<1>5. Base(alloc, out, held, h2, gc, c2, stack, bailed, ran)
  <2>1. /\ col.pc \in Traversing /\ c2.pc \in Traversing /\ c2.idx # 0 /\ c2 \in Locals
        /\ h2 \in [Node -> Hdr]
    BY <1>0 DEF Traversing
  <2>2. /\ \A y \in Node : /\ h2[y].null = hdr[y].null /\ h2[y].freed = hdr[y].freed
                           /\ h2[y].dtored = hdr[y].dtored /\ h2[y].addr = hdr[y].addr
        /\ \A y \in alloc : h2[y].rc = hdr[y].rc \/ \E m \in alloc : y \in out[m]
    BY ONLY <1>3 DEF ScanStep
  <2> QED
    BY ONLY <2>1, <2>2, <1>0, <1>2, BaseHdr
<1>6. /\ \A y : y \in grey <=> y \in Node /\ hdr[y].color = "grey"
      /\ \A y : y \in white <=> y \in Node /\ hdr[y].color = "white"
      /\ \A y : y \in grey2 <=> y \in Node /\ h2[y].color = "grey"
      /\ \A y : y \in white2 <=> y \in Node /\ h2[y].color = "white"
  BY DEF Colored
<1>7. /\ \A y : y \in Roots(hdr, gc, grey) <=> y \in grey /\ \E i \in Used(gc) : gc.buf[i].ref = y
      /\ \A y : y \in Roots(h2, gc, grey2) <=> y \in grey2 /\ \E i \in Used(gc) : gc.buf[i].ref = y
      /\ \A y : y \in Roots(hdr, gc, S) <=> y \in S /\ \E i \in Used(gc) : gc.buf[i].ref = y
      /\ \A y : y \in Roots(h2, gc, S2) <=> y \in S2 /\ \E i \in Used(gc) : gc.buf[i].ref = y
  BY DEF Roots
<1>8. From(h2, out, B2, D2, grey2)
  <2>1. /\ grey2 \subseteq grey
        /\ \A y \in grey2 : y \notin X
        /\ \A y \in B1 : y \in B2 \/ y \in X
        /\ \A y \in grey : y \in grey2 \/ y \in B2
        /\ \A m \in D1 : m \in Node /\ (m \in D2 \/ m \in X)
        /\ \A m \in X, y \in grey : m \in D1 /\ y \in Kids(hdr, out, m) => y \in B2
    <3> HIDE DEF grey, white, grey2, white2
    <3>1. grey2 \subseteq grey /\ \A y \in grey2 : y \notin X
      BY ONLY <1>3, <1>6 DEF ScanStep
    <3>2. \A y \in grey : y \in grey2 \/ y \in c2.btodo \/ (y \in c2.todo /\ y \in white2)
      BY ONLY <1>3, <1>6 DEF ScanStep
    <3>3. \A y \in col.todo : y \in white => y \in c2.btodo \/ y \in X \/ (y \in white2 /\ y \in c2.todo)
      BY ONLY <1>3, <1>6 DEF ScanStep
    <3>4. \A y \in col.btodo : y \in c2.btodo \/ y \in X
      BY ONLY <1>2, <1>3 DEF ScanStep
    <3>5. \A m \in X, y \in grey : y \in Kids(hdr, out, m) => y \in c2.btodo \/ (y \in white2 /\ y \in c2.todo)
      BY ONLY <1>3, <1>6 DEF ScanStep
    <3>6. \A y \in B1 : y \in B2 \/ y \in X
      BY ONLY <3>2, <3>3, <3>4, <1>7
    <3>7. \A m \in D1 : m \in Node /\ (m \in D2 \/ m \in X)
      BY ONLY <3>2, <3>3, <3>4, <1>2, <1>6
    <3>8. \A y \in grey : y \in grey2 \/ y \in B2
      BY ONLY <3>2
    <3>9. \A m \in X, y \in grey : m \in D1 /\ y \in Kids(hdr, out, m) => y \in B2
      BY ONLY <3>5
    <3> QED
      BY ONLY <3>1, <3>6, <3>7, <3>8, <3>9
  <2>2. \A m \in D1 : (m \in D2 \/ m \in X) /\ Kids(h2, out, m) = Kids(hdr, out, m)
    BY ONLY <2>1, <1>4
  <2>3. From(hdr, out, B1, D1, grey)
    BY <1>0
  <2> HIDE DEF grey, grey2, white, white2, B1, B2, D1, D2
  <2>4. Onward(hdr, out, B1, D1, grey, h2, B2, D2, grey2, X)
    BY ONLY <2>1, <2>2 DEF Onward
  <2> QED
    BY ONLY <2>3, <2>4, FromStep
<1>9. From(h2, out, E2, F2, S2)
  <2>1. /\ S2 \subseteq S
        /\ \A y \in S2 : y \notin Y
        /\ \A y \in E1 : y \in E2 \/ y \in Y
        /\ \A y \in S : y \in S2 \/ y \in E2
        /\ \A m \in F1 : m \in Node /\ (m \in F2 \/ m \in Y)
        /\ \A m \in Y, y \in S : m \in F1 /\ y \in Kids(hdr, out, m) => y \in E2
    <3> HIDE DEF grey, white, grey2, white2
    <3>1. S2 \subseteq S /\ \A y \in S2 : y \notin Y
      BY ONLY <1>3, <1>6 DEF ScanStep
    <3>2. \A y \in S : y \in S2 \/ y \in c2.btodo
      BY ONLY <1>3, <1>6 DEF ScanStep
    <3>4. \A y \in col.btodo : y \in c2.btodo \/ y \in Y
      BY ONLY <1>2, <1>3 DEF ScanStep
    <3>5. \A m \in Y, y \in S : y \in Kids(hdr, out, m) => y \in c2.btodo
      BY ONLY <1>3, <1>6 DEF ScanStep
    <3>6. \A y \in E1 : y \in E2 \/ y \in Y
      BY ONLY <3>2, <3>4, <1>7
    <3>7. \A m \in F1 : m \in Node /\ (m \in F2 \/ m \in Y)
      BY ONLY <3>2, <3>4, <1>2, <1>6
    <3>8. \A y \in S : y \in S2 \/ y \in E2
      BY ONLY <3>2
    <3>9. \A m \in Y, y \in S : m \in F1 /\ y \in Kids(hdr, out, m) => y \in E2
      BY ONLY <3>5
    <3> QED
      BY ONLY <3>1, <3>6, <3>7, <3>8, <3>9
  <2>2. \A m \in F1 : (m \in F2 \/ m \in Y) /\ Kids(h2, out, m) = Kids(hdr, out, m)
    BY ONLY <2>1, <1>4
  <2>3. From(hdr, out, E1, F1, S)
    BY <1>0
  <2> HIDE DEF E1, E2, F1, F2, S, S2
  <2>4. Onward(hdr, out, E1, F1, S, h2, E2, F2, S2, Y)
    BY ONLY <2>1, <2>2 DEF Onward
  <2> QED
    BY ONLY <2>3, <2>4, FromStep
<1>10. Found(alloc, out, h2, S2)
  <2>1. \A y \in S2 : y \in S /\ y \in Node /\ h2[y].addr = hdr[y].addr
    BY ONLY <1>3, <1>6 DEF ScanStep
  <2> HIDE DEF S, S2
  <2> QED
    BY ONLY <2>1, <1>0 DEF Found
<1>11. /\ c2.todo \intersect (grey2 \union Colored(h2, "purple")) = {}
       /\ c2.btodo \subseteq Colored(h2, "black") /\ Colored(h2, "purple") = {}
       /\ c2.btodo \subseteq alloc
       /\ \A y \in white2 \ c2.todo : h2[y].rc <= 0
  <2>1. Colored(h2, "purple") = {} /\ c2.btodo \subseteq Colored(h2, "black") /\ c2.btodo \subseteq alloc
    BY ONLY <1>2, <1>3 DEF ScanStep, Colored
  <2>2. \A y \in c2.todo : y \notin grey2
    BY ONLY <1>2, <1>3, <1>6 DEF ScanStep
  <2>3. \A y \in white2 \ c2.todo : h2[y].rc <= 0
    BY ONLY <1>3, <1>6 DEF ScanStep
  <2> QED
    BY ONLY <2>1, <2>2, <2>3
<1>12. \A i \in Used(gc) : gc.buf[i].tag = "root" /\ (i < c2.idx => h2[gc.buf[i].ref].color # "grey")
  BY <1>0
<1>13. RcOK(alloc, out, held, h2, stack, bailed, Null, grey2 \union white2 \union c2.btodo)
  OBVIOUS
<1> QED
  BY ONLY <1>5, <1>8, <1>9, <1>10, <1>11, <1>12, <1>13 DEF Scanning

\* What the scan's part of the invariant says.
LEMMA ScanFacts ==
    ASSUME Scans
    PROVE  /\ Base(alloc, out, held, hdr, gc, col, stack, bailed, ran)
           /\ RcOK(alloc, out, held, hdr, stack, bailed, Null,
                   Colored(hdr, "grey") \union Colored(hdr, "white") \union col.btodo)
           /\ \A y \in col.todo : hdr[y].color # "grey"
           /\ \A y \in col.btodo : hdr[y].color = "black" /\ y \in alloc
           /\ \A y \in Node : /\ hdr[y].color # "purple"
                              /\ hdr[y].color \in {"grey", "white"} => y \in alloc
                              /\ hdr[y].color = "white" /\ y \notin col.todo => hdr[y].rc <= 0
           /\ \A i \in Used(gc) : /\ gc.buf[i].tag = "root" /\ gc.buf[i].ref \in Node /\ i \in Nat
                                  /\ i < col.idx => hdr[gc.buf[i].ref].color # "grey"
           /\ alloc \in SUBSET Node /\ hdr \in [Node -> Hdr] /\ gc \in Globals /\ col \in Locals
           /\ out \in [Node -> SUBSET Node]
           /\ col.todo \in SUBSET Node /\ col.btodo \in SUBSET Node /\ col.idx \in Nat /\ col.idx # 0
           /\ \A m \in alloc : out[m] \subseteq alloc
           /\ col.pc = "scan"
<1>1. /\ Base(alloc, out, held, hdr, gc, col, stack, bailed, ran)
      /\ RcOK(alloc, out, held, hdr, stack, bailed, Null,
              Colored(hdr, "grey") \union Colored(hdr, "white") \union col.btodo)
      /\ col.todo \intersect (Colored(hdr, "grey") \union Colored(hdr, "purple")) = {}
      /\ col.btodo \subseteq Colored(hdr, "black") /\ Colored(hdr, "purple") = {}
      /\ Found(alloc, out, hdr, Colored(hdr, "grey") \union Colored(hdr, "white")) /\ col.btodo \subseteq alloc
      /\ \A n \in Colored(hdr, "white") \ col.todo : hdr[n].rc <= 0
      /\ \A i \in Used(gc) : /\ gc.buf[i].tag = "root"
                             /\ i < col.idx => hdr[gc.buf[i].ref].color # "grey"
      /\ col.pc = "scan"
  BY DEF Scans, Scanning
<1>2. Types(alloc, out, held, hdr, gc, col, stack, ran) /\ BufOK(alloc, hdr, gc) /\ Closed(alloc, out, held, Null)
  BY <1>1 DEF Base
<1>3. /\ alloc \in SUBSET Node /\ hdr \in [Node -> Hdr] /\ gc \in Globals /\ col \in Locals
      /\ out \in [Node -> SUBSET Node]
      /\ col.todo \in SUBSET Node /\ col.btodo \in SUBSET Node /\ col.idx \in Nat /\ col.idx # 0
  BY <1>1, <1>2 DEF Types, Locals
<1>4. \A i \in Used(gc) : gc.buf[i].ref \in Node /\ i \in Nat
  BY <1>2, <1>3 DEF BufOK, Entries, Used
<1>5. /\ \A y \in col.todo : hdr[y].color # "grey"
      /\ \A y \in col.btodo : hdr[y].color = "black" /\ y \in alloc
      /\ \A y \in Node : /\ hdr[y].color # "purple"
                         /\ hdr[y].color = "white" /\ y \notin col.todo => hdr[y].rc <= 0
  BY ONLY <1>1, <1>3 DEF Colored
<1>6. \A y \in Node : hdr[y].color \in {"grey", "white"} => y \in alloc
  BY ONLY <1>1 DEF Colored, Found
<1>7. \A m \in alloc : out[m] \subseteq alloc
  BY <1>2 DEF Closed
<1> QED
  BY ONLY <1>1, <1>3, <1>4, <1>5, <1>6, <1>7

\* gc_scan_roots: the next root.
LEMMA ScanRootScans == ASSUME Scans, ScanRoot PROVE Scans'
<1> DEFINE n == Entry.ref
           go == Entry.tag = "root" /\ hdr[n].color = "grey"
           X == {}
<1>0. Scans
  OBVIOUS
<1>1. /\ col.todo = {} /\ col.btodo = {} /\ col.idx < gc.first_unused
      /\ hdr' = IF go THEN [hdr EXCEPT ![n].color = "white"] ELSE hdr
      /\ col' = [col EXCEPT !.idx = @ + 1, !.todo = IF go THEN {n} ELSE {}]
      /\ gc' = gc /\ alloc' = alloc /\ out' = out /\ held' = held /\ stack' = stack
      /\ bailed' = bailed /\ ran' = ran
  BY DEF ScanRoot, Quiet, heap
<1>2. /\ RcOK(alloc, out, held, hdr, stack, bailed, Null,
              Colored(hdr, "grey") \union Colored(hdr, "white") \union col.btodo)
      /\ \A y \in Node : /\ hdr[y].color # "purple"
                         /\ hdr[y].color \in {"grey", "white"} => y \in alloc
                         /\ hdr[y].color = "white" /\ y \notin col.todo => hdr[y].rc <= 0
      /\ \A i \in Used(gc) : /\ gc.buf[i].tag = "root" /\ gc.buf[i].ref \in Node /\ i \in Nat
                             /\ i < col.idx => hdr[gc.buf[i].ref].color # "grey"
      /\ alloc \in SUBSET Node /\ hdr \in [Node -> Hdr] /\ gc \in Globals /\ col \in Locals
      /\ col.idx \in Nat /\ col.idx # 0 /\ col.pc = "scan"
  BY ONLY <1>0, ScanFacts
<1>3. go => col.idx \in Used(gc) /\ n \in Node
  <2>1. gc.first_unused \in Nat
    BY <1>2 DEF Globals
  <2> QED
    BY <2>1, <1>1, <1>2 DEF Used, Entry
<1>4. /\ col' \in Locals /\ col'.pc = "scan" /\ col'.idx = col.idx + 1 /\ col'.btodo = {}
      /\ col'.todo = IF go THEN {n} ELSE {}
  <2> DEFINE T == IF go THEN {n} ELSE {}
             j == col.idx + 1
  <2>1. T \in SUBSET Node /\ j \in Nat
    BY <1>2, <1>3
  <2>2. col' = [col EXCEPT !.idx = j, !.todo = T] /\ col \in Locals
    BY <1>1, <1>2
  <2> HIDE DEF T, j
  <2>3. col' \in Locals /\ col'.pc = col.pc /\ col'.idx = j /\ col'.btodo = col.btodo /\ col'.todo = T
    BY ONLY <2>1, <2>2 DEF Locals
  <2> QED
    BY <2>3, <1>1, <1>2 DEF T, j
<1>5. /\ hdr' \in [Node -> Hdr]
      /\ \A y \in Node : /\ hdr'[y].null = hdr[y].null /\ hdr'[y].freed = hdr[y].freed
                         /\ hdr'[y].dtored = hdr[y].dtored /\ hdr'[y].addr = hdr[y].addr
                         /\ hdr'[y].rc = hdr[y].rc
                         /\ hdr'[y].color = IF go /\ y = n THEN "white" ELSE hdr[y].color
  <2>1. CASE go
    <3>1. Painted(hdr, n, "white", hdr')
      <4> DEFINE color == "white"
      <4>1. color \in Colors /\ n \in Node /\ hdr' = [hdr EXCEPT ![n].color = color]
        BY <2>1, <1>1, <1>3 DEF Colors
      <4> HIDE DEF color, n
      <4>2. Painted(hdr, n, color, hdr')
        BY ONLY <4>1, <1>2, PaintFacts
      <4> QED
        BY <4>2 DEF color
    <3> QED
      BY <3>1, <2>1 DEF Painted
  <2>2. CASE ~go
    BY <2>2, <1>1, <1>2
  <2> QED
    BY <2>1, <2>2
<1>6. go => hdr[n].color = "grey"
  OBVIOUS
<1>7. \A i \in Used(gc) : i < col'.idx => hdr'[gc.buf[i].ref].color # "grey"
  <2> SUFFICES ASSUME NEW i \in Used(gc), i < col'.idx PROVE hdr'[gc.buf[i].ref].color # "grey"
    OBVIOUS
  <2>1. gc.buf[i].ref \in Node /\ i \in Nat /\ gc.buf[i].tag = "root"
    BY <1>2
  <2>2. CASE i = col.idx
    <3>1. gc.buf[i].ref = n /\ Entry.tag = "root" /\ (hdr[n].color # "grey" \/ go)
      BY <2>1, <2>2 DEF Entry
    <3> QED
      BY <3>1, <2>1, <1>5
  <2>3. CASE i # col.idx
    <3>1. i < col.idx
      BY <2>1, <2>3, <1>2, <1>4
    <3> QED
      BY <3>1, <2>1, <1>2, <1>5
  <2> QED
    BY <2>2, <2>3
<1> HIDE DEF n, go, X
<1>8. ScanStep(hdr', col', X, X)
  <2>1. \A y : y \notin X
    BY DEF X
  <2>2. /\ col.todo = {} /\ col.btodo = {} /\ col'.btodo = {}
        /\ \A y : y \in col'.todo <=> go /\ y = n
    BY <1>1, <1>4
  <2> QED
    BY ONLY <2>1, <2>2, <1>2, <1>5, <1>6 DEF ScanStep
<1>9. RcOK(alloc, out, held, hdr', stack, bailed, Null,
           Colored(hdr', "grey") \union Colored(hdr', "white") \union col'.btodo)
  <2> DEFINE P == Colored(hdr, "grey") \union Colored(hdr, "white") \union col.btodo
             P2 == Colored(hdr', "grey") \union Colored(hdr', "white") \union col'.btodo
  <2>1. \A m \in alloc : m \in P2 <=> m \in P
    BY <1>1, <1>2, <1>4, <1>5, <1>6 DEF Colored
  <2>2. \A m \in Node : /\ hdr'[m].null = hdr[m].null /\ hdr'[m].freed = hdr[m].freed
                        /\ hdr'[m].rc = hdr[m].rc
    BY <1>5
  <2>3. RcOK(alloc, out, held, hdr, stack, bailed, Null, P) /\ alloc \in SUBSET Node
    BY <1>2
  <2> HIDE DEF P, P2
  <2>4. RcOK(alloc, out, held, hdr', stack, bailed, Null, P2)
    BY ONLY <2>1, <2>2, <2>3, RcKeep
  <2> QED
    BY <2>4 DEF P2
<1>10. hdr' \in [Node -> Hdr] /\ col' \in Locals /\ col'.pc = "scan" /\ col'.idx # 0
  BY <1>2, <1>4, <1>5
<1>11. Scanning(alloc, out, held, hdr', gc, col', stack, bailed, ran)
  BY ONLY <1>0, <1>7, <1>8, <1>9, <1>10, ScanMove
<1> QED
  BY <1>1, <1>10, <1>11 DEF Scans

\* gc_scan_black: the counts of the children of n are put back.
LEMMA ScanBlackScans == ASSUME NEW n \in Node, Scans, gc_scan_black(n) PROVE Scans'
<1> DEFINE fresh == { m \in Children(n) : hdr[m].color # "black" }
           X == {n}
<1>0. Scans
  OBVIOUS
<1>1. /\ n \in col.btodo /\ hdr' = Visit(n, 1, fresh, "black")
      /\ col' = [col EXCEPT !.btodo = (@ \ {n}) \union fresh]
      /\ gc' = gc /\ alloc' = alloc /\ out' = out /\ held' = held /\ stack' = stack
      /\ bailed' = bailed /\ ran' = ran
  BY DEF gc_scan_black, Quiet, heap
<1>2. /\ RcOK(alloc, out, held, hdr, stack, bailed, Null,
              Colored(hdr, "grey") \union Colored(hdr, "white") \union col.btodo)
      /\ \A y \in col.todo : hdr[y].color # "grey"
      /\ \A y \in col.btodo : hdr[y].color = "black" /\ y \in alloc
      /\ \A y \in Node : /\ hdr[y].color # "purple"
                         /\ hdr[y].color \in {"grey", "white"} => y \in alloc
                         /\ hdr[y].color = "white" /\ y \notin col.todo => hdr[y].rc <= 0
      /\ \A i \in Used(gc) : /\ gc.buf[i].tag = "root" /\ gc.buf[i].ref \in Node /\ i \in Nat
                             /\ i < col.idx => hdr[gc.buf[i].ref].color # "grey"
      /\ alloc \in SUBSET Node /\ hdr \in [Node -> Hdr] /\ gc \in Globals /\ col \in Locals
      /\ out \in [Node -> SUBSET Node]
      /\ col.todo \in SUBSET Node /\ col.btodo \in SUBSET Node /\ col.idx \in Nat /\ col.idx # 0
      /\ \A m \in alloc : out[m] \subseteq alloc
      /\ col.pc = "scan"
  BY ONLY <1>0, ScanFacts
<1>3. n \in alloc /\ hdr[n].color = "black"
  BY <1>1, <1>2
<1>4. /\ Children(n) = Kids(hdr, out, n) /\ Kids(hdr, out, n) \subseteq out[n]
      /\ out[n] \subseteq alloc
  BY <1>2, <1>3 DEF Children, Kids
<1>5. /\ \A y \in fresh : y \in Node /\ y \in alloc /\ y \in out[n] /\ hdr[y].color # "black"
      /\ fresh \subseteq Kids(hdr, out, n) /\ n \notin fresh
      /\ \A y \in Kids(hdr, out, n) : hdr[y].color # "black" => y \in fresh
  BY <1>2, <1>3, <1>4
<1>6. Visited(hdr, out, n, 1, fresh, "black", hdr')
  <2> DEFINE d == 1
             color == "black"
  <2>1. d \in Int /\ color \in Colors /\ fresh \subseteq Children(n) /\ hdr' = Visit(n, d, fresh, color)
    BY <1>1 DEF Colors
  <2> HIDE DEF d, color, fresh
  <2>2. Visited(hdr, out, n, d, fresh, color, hdr')
    BY ONLY <2>1, <1>2, VisitFacts
  <2> QED
    BY <2>2 DEF d, color
<1>7. /\ col' \in Locals /\ col'.pc = "scan" /\ col'.idx = col.idx /\ col'.todo = col.todo
      /\ col'.btodo = (col.btodo \ {n}) \union fresh
  <2> DEFINE T == (col.btodo \ {n}) \union fresh
  <2>1. T \in SUBSET Node
    BY <1>2, <1>5
  <2>2. col' = [col EXCEPT !.btodo = T] /\ col \in Locals
    BY <1>1, <1>2
  <2> HIDE DEF T
  <2>3. col' \in Locals /\ col'.pc = col.pc /\ col'.idx = col.idx /\ col'.todo = col.todo /\ col'.btodo = T
    BY ONLY <2>1, <2>2 DEF Locals
  <2> QED
    BY <2>3, <1>2 DEF T
<1> HIDE DEF fresh, X
<1>8. /\ hdr' \in [Node -> Hdr]
      /\ \A y \in Node : /\ hdr'[y].null = hdr[y].null /\ hdr'[y].freed = hdr[y].freed
                         /\ hdr'[y].dtored = hdr[y].dtored /\ hdr'[y].addr = hdr[y].addr
                         /\ y \in fresh => hdr'[y].color = "black"
                         /\ y \notin fresh => hdr'[y].color = hdr[y].color
                         /\ y \notin Kids(hdr, out, n) => hdr'[y].rc = hdr[y].rc
                         /\ y \in Kids(hdr, out, n) => hdr'[y].rc = hdr[y].rc + 1
  BY ONLY <1>6 DEF Visited
<1>9. \A i \in Used(gc) : i < col'.idx => hdr'[gc.buf[i].ref].color # "grey"
  BY <1>2, <1>7, <1>8
<1>10. ScanStep(hdr', col', X, X)
  <2>1. \A y : y \in X <=> y = n
    BY DEF X
  <2>2. \A y \in Node : y \in col'.btodo <=> (y \in col.btodo /\ y # n) \/ y \in fresh
    BY <1>7
  <2>3. \A y \in Node : hdr[y].color # "black" /\ y \in Kids(hdr, out, n) => y \in fresh
    BY <1>5
  <2>4. \A y \in alloc : hdr'[y].rc = hdr[y].rc \/ \E m \in alloc : y \in out[m]
    BY <1>2, <1>3, <1>4, <1>8
  <2>5. \A y \in Node : hdr'[y].color = "white" /\ y \notin col'.todo => hdr'[y].rc <= 0
    BY <2>3, <1>2, <1>7, <1>8
  <2>6. \A y \in Node : y \in col'.btodo => hdr'[y].color = "black" /\ y \in alloc
    BY <2>2, <1>2, <1>5, <1>8
  <2>7. n \notin fresh /\ hdr[n].color = "black" /\ n \in Node /\ col'.todo = col.todo
    BY <1>3, <1>5, <1>7
  <2>8. /\ \A y \in col.todo : hdr[y].color # "grey"
        /\ \A y \in Node : hdr[y].color # "purple"
    BY <1>2
  <2> QED
    BY ONLY <2>1, <2>2, <2>3, <2>4, <2>5, <2>6, <2>7, <2>8, <1>8 DEF ScanStep
<1>11. RcOK(alloc, out, held, hdr', stack, bailed, Null,
            Colored(hdr', "grey") \union Colored(hdr', "white") \union col'.btodo)
  <2> DEFINE P == Colored(hdr, "grey") \union Colored(hdr, "white") \union col.btodo
             P2 == Colored(hdr', "grey") \union Colored(hdr', "white") \union col'.btodo
  <2>0. \A y \in Node : hdr[y].color \in Colors
    BY <1>2 DEF Hdr
  <2>1. n \in P /\ \A m \in alloc : m \in P2 <=> m \in P /\ m # n
    <3>1. \A m \in alloc : m \in P <=> hdr[m].color \in {"grey", "white"} \/ m \in col.btodo
      BY <1>2 DEF Colored
    <3>2. \A m \in alloc : m \in P2 <=> hdr'[m].color \in {"grey", "white"} \/ (m \in col.btodo /\ m # n) \/ m \in fresh
      BY <1>2, <1>7 DEF Colored
    <3>3. \A m \in fresh : hdr[m].color \in {"grey", "white"} /\ m # n
      BY <2>0, <1>2, <1>5 DEF Colors
    <3>4. \A m \in alloc : m \in Node
      BY <1>2
    <3>5. n \in P
      BY <1>1
    <3> HIDE DEF P, P2
    <3> QED
      BY ONLY <3>1, <3>2, <3>3, <3>4, <3>5, <1>3, <1>8
  <2>2. /\ \A m \in Node : hdr'[m].null = hdr[m].null /\ hdr'[m].freed = hdr[m].freed
        /\ \A y \in alloc : hdr'[y].rc = hdr[y].rc + One(y \in Kids(hdr, out, n))
    BY <1>2, <1>8 DEF One, Hdr
  <2>3. RcOK(alloc, out, held, hdr, stack, bailed, Null, P) /\ alloc \in SUBSET Node /\ hdr \in [Node -> Hdr]
    BY <1>2
  <2> HIDE DEF P, P2
  <2>4. RcOK(alloc, out, held, hdr', stack, bailed, Null, P2)
    BY ONLY <2>1, <2>2, <2>3, <1>3, RcPut
  <2> QED
    BY <2>4 DEF P2
<1>12. hdr' \in [Node -> Hdr] /\ col' \in Locals /\ col'.pc = "scan" /\ col'.idx # 0
  BY <1>2, <1>7, <1>8
<1>13. Scanning(alloc, out, held, hdr', gc, col', stack, bailed, ran)
  BY ONLY <1>0, <1>9, <1>10, <1>11, <1>12, ScanMove
<1> QED
  BY <1>1, <1>12, <1>13 DEF Scans

\* gc_scan: a node the traversal has come to.
LEMMA ScanScans == ASSUME NEW n \in Node, Scans, gc_scan(n) PROVE Scans'
<1> DEFINE fresh == { m \in Children(n) : hdr[m].color = "grey" }
           no == {}
<1>0. Scans
  OBVIOUS
<1>1. /\ n \in col.todo /\ col.btodo = {}
      /\ \/ /\ hdr[n].color # "white"
            /\ col' = [col EXCEPT !.todo = @ \ {n}] /\ hdr' = hdr
         \/ /\ hdr[n].color = "white" /\ hdr[n].rc > 0
            /\ hdr' = [hdr EXCEPT ![n].color = "black"]
            /\ col' = [col EXCEPT !.todo = @ \ {n}, !.btodo = {n}]
         \/ /\ hdr[n].color = "white" /\ hdr[n].rc <= 0
            /\ hdr' = Visit(n, 0, fresh, "white")
            /\ col' = [col EXCEPT !.todo = (@ \ {n}) \union fresh]
      /\ gc' = gc /\ alloc' = alloc /\ out' = out /\ held' = held /\ stack' = stack
      /\ bailed' = bailed /\ ran' = ran
  BY DEF gc_scan, Quiet, heap
<1>2. /\ RcOK(alloc, out, held, hdr, stack, bailed, Null,
              Colored(hdr, "grey") \union Colored(hdr, "white") \union col.btodo)
      /\ \A y \in col.todo : hdr[y].color # "grey"
      /\ \A y \in Node : /\ hdr[y].color # "purple"
                         /\ hdr[y].color \in {"grey", "white"} => y \in alloc
                         /\ hdr[y].color = "white" /\ y \notin col.todo => hdr[y].rc <= 0
      /\ \A i \in Used(gc) : /\ gc.buf[i].tag = "root" /\ gc.buf[i].ref \in Node /\ i \in Nat
                             /\ i < col.idx => hdr[gc.buf[i].ref].color # "grey"
      /\ alloc \in SUBSET Node /\ hdr \in [Node -> Hdr] /\ gc \in Globals /\ col \in Locals
      /\ out \in [Node -> SUBSET Node]
      /\ col.todo \in SUBSET Node /\ col.btodo \in SUBSET Node /\ col.idx \in Nat /\ col.idx # 0
      /\ \A m \in alloc : out[m] \subseteq alloc
      /\ col.pc = "scan"
  BY ONLY <1>0, ScanFacts
<1>3. ASSUME NEW X, NEW Y, ScanStep(hdr', col', X, Y), col' \in Locals, col'.pc = "scan", col'.idx = col.idx,
             hdr' \in [Node -> Hdr],
             \A y \in Node : /\ hdr'[y].null = hdr[y].null /\ hdr'[y].freed = hdr[y].freed
                             /\ hdr'[y].rc = hdr[y].rc,
             \A y \in Node : hdr[y].color \in {"grey", "white"} <=>
                             hdr'[y].color \in {"grey", "white"} \/ y \in col'.btodo
      PROVE  Scans'
  <2>1. RcOK(alloc, out, held, hdr', stack, bailed, Null,
             Colored(hdr', "grey") \union Colored(hdr', "white") \union col'.btodo)
    <3> DEFINE P == Colored(hdr, "grey") \union Colored(hdr, "white") \union col.btodo
               P2 == Colored(hdr', "grey") \union Colored(hdr', "white") \union col'.btodo
    <3>1. \A m \in alloc : m \in P2 <=> m \in P
      <4>1. \A m \in Node : m \in P <=> hdr[m].color \in {"grey", "white"}
        BY <1>1 DEF Colored
      <4>2. \A m \in Node : m \in P2 <=> hdr'[m].color \in {"grey", "white"} \/ m \in col'.btodo
        BY DEF Colored
      <4> HIDE DEF P, P2
      <4> QED
        BY ONLY <4>1, <4>2, <1>2, <1>3
    <3>2. \A m \in Node : /\ hdr'[m].null = hdr[m].null /\ hdr'[m].freed = hdr[m].freed
                          /\ hdr'[m].rc = hdr[m].rc
      BY ONLY <1>3
    <3>3. RcOK(alloc, out, held, hdr, stack, bailed, Null, P) /\ alloc \in SUBSET Node
      BY <1>2
    <3> HIDE DEF P, P2
    <3>4. RcOK(alloc, out, held, hdr', stack, bailed, Null, P2)
      BY ONLY <3>1, <3>2, <3>3, RcKeep
    <3> QED
      BY <3>4 DEF P2
  <2>2. ScanStep(hdr', col', X, Y) /\ hdr' \in [Node -> Hdr] /\ col' \in Locals /\ col'.pc = "scan" /\ col'.idx # 0
    BY ONLY <1>2, <1>3
  <2>3. \A i \in Used(gc) : i < col'.idx => hdr'[gc.buf[i].ref].color # "grey"
    <3>1. \A y \in Node : hdr'[y].color = "grey" => hdr[y].color = "grey"
      BY ONLY <2>2 DEF ScanStep
    <3> QED
      BY ONLY <3>1, <1>2, <1>3
  <2>4. Scanning(alloc, out, held, hdr', gc, col', stack, bailed, ran)
    BY ONLY <1>0, <2>1, <2>2, <2>3, ScanMove
  <2> QED
    BY <2>2, <2>4, <1>1 DEF Scans
<1>4. CASE /\ hdr[n].color # "white"
           /\ col' = [col EXCEPT !.todo = @ \ {n}] /\ hdr' = hdr
  <2> DEFINE T == col.todo \ {n}
  <2>1. T \in SUBSET Node /\ col' = [col EXCEPT !.todo = T] /\ col \in Locals
    BY <1>2, <1>4
  <2> HIDE DEF T
  <2>2. col' \in Locals /\ col'.pc = col.pc /\ col'.idx = col.idx /\ col'.btodo = col.btodo /\ col'.todo = T
    BY ONLY <2>1 DEF Locals
  <2>3. /\ \A y : y \in col'.todo <=> y \in col.todo /\ y # n
        /\ \A y : y \notin no
        /\ hdr[n].color # "white" /\ hdr' = hdr /\ col.btodo = {}
    BY <2>2, <1>1, <1>4 DEF T
  <2> HIDE DEF no
  <2>4. ScanStep(hdr', col', no, no)
    BY ONLY <2>2, <2>3, <1>2 DEF ScanStep
  <2>5. /\ \A y \in Node : /\ hdr'[y].null = hdr[y].null /\ hdr'[y].freed = hdr[y].freed
                           /\ hdr'[y].rc = hdr[y].rc
        /\ \A y \in Node : hdr[y].color \in {"grey", "white"} <=>
                           hdr'[y].color \in {"grey", "white"} \/ y \in col'.btodo
        /\ hdr' \in [Node -> Hdr] /\ col'.pc = "scan"
    BY ONLY <2>2, <2>3, <1>2
  <2> QED
    BY ONLY <2>2, <2>4, <2>5, <1>3
<1>5. CASE /\ hdr[n].color = "white" /\ hdr[n].rc > 0
           /\ hdr' = [hdr EXCEPT ![n].color = "black"]
           /\ col' = [col EXCEPT !.todo = @ \ {n}, !.btodo = {n}]
  <2> DEFINE T == col.todo \ {n}
             U == {n}
  <2>1. T \in SUBSET Node /\ U \in SUBSET Node /\ col' = [col EXCEPT !.todo = T, !.btodo = U] /\ col \in Locals
    BY <1>2, <1>5
  <2> HIDE DEF T, U
  <2>2. col' \in Locals /\ col'.pc = col.pc /\ col'.idx = col.idx /\ col'.btodo = U /\ col'.todo = T
    BY ONLY <2>1 DEF Locals
  <2>3. Painted(hdr, n, "black", hdr')
    <3> DEFINE color == "black"
    <3>1. color \in Colors /\ n \in Node /\ hdr' = [hdr EXCEPT ![n].color = color]
      BY <1>5 DEF Colors
    <3> HIDE DEF color
    <3>2. Painted(hdr, n, color, hdr')
      BY ONLY <3>1, <1>2, PaintFacts
    <3> QED
      BY <3>2 DEF color
  <2>4. /\ hdr' \in [Node -> Hdr]
        /\ \A y \in Node : /\ hdr'[y].null = hdr[y].null /\ hdr'[y].freed = hdr[y].freed
                           /\ hdr'[y].dtored = hdr[y].dtored /\ hdr'[y].addr = hdr[y].addr
                           /\ hdr'[y].rc = hdr[y].rc /\ (y # n => hdr'[y].color = hdr[y].color)
        /\ hdr'[n].color = "black"
    BY ONLY <2>3 DEF Painted
  <2>5. /\ \A y : y \in col'.todo <=> y \in col.todo /\ y # n
        /\ \A y : y \in col'.btodo <=> y = n
        /\ \A y : y \notin no
        /\ hdr[n].color = "white" /\ col.btodo = {} /\ n \in alloc
    BY <2>2, <1>1, <1>2, <1>5 DEF T, U
  <2> HIDE DEF no
  <2>6. ScanStep(hdr', col', no, no)
    BY ONLY <2>4, <2>5, <1>2 DEF ScanStep
  <2>7. /\ \A y \in Node : /\ hdr'[y].null = hdr[y].null /\ hdr'[y].freed = hdr[y].freed
                           /\ hdr'[y].rc = hdr[y].rc
        /\ \A y \in Node : hdr[y].color \in {"grey", "white"} <=>
                           hdr'[y].color \in {"grey", "white"} \/ y \in col'.btodo
        /\ hdr' \in [Node -> Hdr] /\ col'.pc = "scan"
    BY ONLY <2>2, <2>4, <2>5, <1>2
  <2> QED
    BY ONLY <2>2, <2>6, <2>7, <1>3
<1>6. CASE /\ hdr[n].color = "white" /\ hdr[n].rc <= 0
           /\ hdr' = Visit(n, 0, fresh, "white")
           /\ col' = [col EXCEPT !.todo = (@ \ {n}) \union fresh]
  <2> DEFINE T == (col.todo \ {n}) \union fresh
             X == {n}
  <2>0. Children(n) = Kids(hdr, out, n) /\ Kids(hdr, out, n) \subseteq Node
    BY <1>2 DEF Children, Kids
  <2>1. T \in SUBSET Node /\ col' = [col EXCEPT !.todo = T] /\ col \in Locals
    BY <2>0, <1>2, <1>6
  <2> HIDE DEF T
  <2>2. col' \in Locals /\ col'.pc = col.pc /\ col'.idx = col.idx /\ col'.btodo = col.btodo /\ col'.todo = T
    BY ONLY <2>1 DEF Locals
  <2>3. Visited(hdr, out, n, 0, fresh, "white", hdr')
    <3> DEFINE d == 0
               color == "white"
    <3>1. d \in Int /\ color \in Colors /\ fresh \subseteq Children(n) /\ hdr' = Visit(n, d, fresh, color)
      BY <1>6 DEF Colors
    <3> HIDE DEF d, color, fresh
    <3>2. Visited(hdr, out, n, d, fresh, color, hdr')
      BY ONLY <3>1, <1>2, VisitFacts
    <3> QED
      BY <3>2 DEF d, color
  <2>4. \A y : y \in fresh <=> y \in Kids(hdr, out, n) /\ hdr[y].color = "grey"
    BY <2>0
  <2>5. /\ \A y : y \in col'.todo <=> (y \in col.todo /\ y # n) \/ y \in fresh
        /\ \A y : y \notin no /\ (y \in X <=> y = n)
        /\ hdr[n].color = "white" /\ hdr[n].rc <= 0 /\ col.btodo = {} /\ col'.btodo = {}
    BY <2>2, <1>1, <1>6 DEF T
  <2> HIDE DEF no, X, fresh
  <2>6. /\ hdr' \in [Node -> Hdr]
        /\ \A y \in Node : /\ hdr'[y].null = hdr[y].null /\ hdr'[y].freed = hdr[y].freed
                           /\ hdr'[y].dtored = hdr[y].dtored /\ hdr'[y].addr = hdr[y].addr
                           /\ y \in fresh => hdr'[y].color = "white"
                           /\ y \notin fresh => hdr'[y].color = hdr[y].color
                           /\ y \notin Kids(hdr, out, n) => hdr'[y].rc = hdr[y].rc
                           /\ y \in Kids(hdr, out, n) => hdr'[y].rc = hdr[y].rc + 0
    BY ONLY <2>3 DEF Visited
  <2>7. \A y \in Node : hdr'[y].rc = hdr[y].rc
    BY <2>6, <1>2 DEF Hdr
  <2>8. ScanStep(hdr', col', X, no)
    <3>1. \A y \in Node : /\ hdr'[y].null = hdr[y].null /\ hdr'[y].freed = hdr[y].freed
                          /\ hdr'[y].dtored = hdr[y].dtored /\ hdr'[y].addr = hdr[y].addr
                          /\ y \in fresh => hdr'[y].color = "white"
                          /\ y \notin fresh => hdr'[y].color = hdr[y].color
      BY ONLY <2>6
    <3>2. \A y \in alloc : hdr'[y].rc = hdr[y].rc
      BY <2>7, <1>2
    <3> QED
      BY ONLY <3>1, <3>2, <2>4, <2>5, <2>7, <1>2 DEF ScanStep
  <2>9. /\ \A y \in Node : /\ hdr'[y].null = hdr[y].null /\ hdr'[y].freed = hdr[y].freed
                           /\ hdr'[y].rc = hdr[y].rc
        /\ \A y \in Node : hdr[y].color \in {"grey", "white"} <=>
                           hdr'[y].color \in {"grey", "white"} \/ y \in col'.btodo
        /\ hdr' \in [Node -> Hdr] /\ col'.pc = "scan"
    BY ONLY <2>2, <2>4, <2>5, <2>6, <2>7, <1>2
  <2> QED
    BY ONLY <2>2, <2>8, <2>9, <1>3
<1> QED
  BY ONLY <1>1, <1>4, <1>5, <1>6

\* The entries of L become holes, their nodes having given up their addresses.
Dropped(h, g, L, al2, h2, g2) ==
    /\ L \subseteq Used(g)
    /\ g2.num_roots = g.num_roots - Cardinality(L) /\ g2.first_unused = g.first_unused
    /\ g2.unused = g.unused /\ g2.buf_size = g.buf_size /\ g2.threshold = g.threshold
    /\ \A i \in 1..(MaxBufSize - 1) : /\ i \in L => g2.buf[i].tag = "unused" /\ g2.buf[i].ref = Null
                                      /\ i \notin L => g2.buf[i] = g.buf[i]
    /\ \A i \in L : h2[g.buf[i].ref].addr = 0
    /\ \A y \in Node : (\A i \in L : g.buf[i].ref # y) => h2[y].addr = h[y].addr /\ (h[y].addr # 0 => y \in al2)
\* The rest of the buffer is still sound.
LEMMA DropEntries ==
    ASSUME NEW al \in SUBSET Node, NEW h \in [Node -> Hdr], NEW g \in Globals, BufOK(al, h, g),
           NEW al2 \in SUBSET Node, NEW h2 \in [Node -> Hdr], NEW g2 \in Globals,
           NEW L, Dropped(h, g, L, al2, h2, g2)
    PROVE  /\ Entries(al2, h2, g2) /\ (UnusedAt(g2) = {} => g2.unused = 0)
           /\ Used(g2) = Used(g) \ L
<1>0. Entries(al, h, g) /\ Listed(g)
  BY DEF BufOK
<1>1. /\ MaxBufSize \in Nat /\ g.first_unused \in Nat /\ g.first_unused >= 1
      /\ g.first_unused <= g.buf_size /\ g.buf_size \in Nat /\ g.buf_size <= MaxBufSize
      /\ Used(g) \in SUBSET (1..(g.first_unused - 1))
      /\ UnusedAt(g) \in SUBSET (1..(g.first_unused - 1))
      /\ \A j \in 1..(g.first_unused - 1) : j \in 1..(MaxBufSize - 1)
      /\ IsFiniteSet(Used(g)) /\ Cardinality(Used(g)) \in Nat
      /\ \A i \in Used(g) : /\ g.buf[i].ref \in Node /\ h[g.buf[i].ref].addr # 0
  BY <1>0, UsedFacts
<1>2. /\ L \subseteq Used(g)
      /\ g2.num_roots = g.num_roots - Cardinality(L) /\ g2.first_unused = g.first_unused
      /\ g2.unused = g.unused /\ g2.buf_size = g.buf_size /\ g2.threshold = g.threshold
      /\ \A i \in 1..(MaxBufSize - 1) : /\ i \in L => g2.buf[i].tag = "unused" /\ g2.buf[i].ref = Null
                                        /\ i \notin L => g2.buf[i] = g.buf[i]
      /\ \A i \in L : h2[g.buf[i].ref].addr = 0
      /\ \A y \in Node : (\A i \in L : g.buf[i].ref # y) => h2[y].addr = h[y].addr /\ (h[y].addr # 0 => y \in al2)
  BY DEF Dropped
<1>3. Used(g2) = Used(g) \ L
  BY ONLY <1>1, <1>2 DEF Used
<1>4. UnusedAt(g2) = {} => g2.unused = 0
  <2>1. \A i \in UnusedAt(g) : i \in UnusedAt(g2)
    BY ONLY <1>1, <1>2 DEF UnusedAt, Used
  <2>2. g.unused \in UnusedAt(g) \union {0}
    BY <1>0 DEF Listed
  <2> QED
    BY ONLY <2>1, <2>2, <1>2
<1>5. g2.num_roots = Cardinality(Used(g2))
  <2>1. IsFiniteSet(L) /\ IsFiniteSet(Used(g) \ L) /\ Cardinality(L) \in Nat
        /\ Cardinality(Used(g) \ L) \in Nat
    BY <1>1, <1>2, FS_Subset, FS_CardinalityType
  <2>2. L \union (Used(g) \ L) = Used(g) /\ L \intersect (Used(g) \ L) = {}
    BY <1>2
  <2>3. Cardinality(Used(g)) = Cardinality(L) + Cardinality(Used(g) \ L)
    BY <2>1, <2>2, PartSize
  <2>4. g.num_roots = Cardinality(Used(g))
    BY <1>0 DEF Entries
  <2> QED
    BY ONLY <2>1, <2>3, <2>4, <1>1, <1>2, <1>3
<1>6. ASSUME NEW i \in Used(g), i \notin L
      PROVE  /\ g2.buf[i] = g.buf[i] /\ g.buf[i].ref \in al2
             /\ h2[g.buf[i].ref].addr = gc_compress(i)
             /\ g2.buf[i].tag \in {"root", "garbage", "dtor"}
  <2>1. /\ g.buf[i].ref \in Node /\ h[g.buf[i].ref].addr = gc_compress(i)
        /\ g.buf[i].tag \in {"root", "garbage", "dtor"} /\ i \in 1..(MaxBufSize - 1)
        /\ h[g.buf[i].ref].addr # 0
    BY <1>0, <1>1 DEF Entries
  <2>2. \A j \in L : g.buf[j].ref # g.buf[i].ref
    BY <1>0, <1>2, <1>6 DEF Entries
  <2> QED
    BY <2>1, <2>2, <1>2, <1>6
<1>7. \A i, j \in Used(g2) : g2.buf[i].ref = g2.buf[j].ref => i = j
  BY <1>0, <1>3, <1>6 DEF Entries
<1>8. \A y \in Node : h2[y].addr # 0 => \E i \in Used(g2) : g2.buf[i].ref = y
  <2> SUFFICES ASSUME NEW y \in Node, h2[y].addr # 0 PROVE \E i \in Used(g2) : g2.buf[i].ref = y
    OBVIOUS
  <2>1. \A i \in L : g.buf[i].ref # y
    BY <1>2
  <2>2. PICK i \in Used(g) : g.buf[i].ref = y
    BY <2>1, <1>0, <1>2 DEF Entries
  <2> QED
    BY <2>1, <2>2, <1>3, <1>6
<1>9. \A i \in 1..(MaxBufSize - 1) : i \notin Used(g2) => g2.buf[i].ref = Null
  BY <1>0, <1>2, <1>3 DEF Entries
<1>10. Entries(al2, h2, g2)
  <2>1. /\ g2.first_unused \in 1..g2.buf_size /\ g2.buf_size \in 2..MaxBufSize
        /\ g2.threshold <= g2.buf_size
    BY <1>0, <1>2 DEF Entries
  <2>2. \A i \in Used(g2) : /\ g2.buf[i].ref \in al2
                            /\ h2[g2.buf[i].ref].addr = gc_compress(i)
                            /\ g2.buf[i].tag \in {"root", "garbage", "dtor"}
    BY <1>3, <1>6
  <2> QED
    BY ONLY <2>1, <2>2, <1>5, <1>7, <1>8, <1>9 DEF Entries
<1> QED
  BY <1>3, <1>4, <1>10

\* A count that reaches zero without the references from W leaves none from
\* outside: W is isolated.
Inward(al, o, hd, h, st, W, n) ==
    /\ n \notin hd /\ Holders(st, n) = {}
    /\ \A m \in al : n \in o[m] => m \in W /\ n \in Kids(h, o, m)
\* A count of 0 without the references from W: nothing else leads to the node.
LEMMA OnlyTaken ==
    ASSUME NEW al \in SUBSET Node, NEW o, NEW hd, NEW h \in [Node -> Hdr], NEW st \in Seq(Frame), NEW b,
           NEW W, RcOK(al, o, hd, h, st, b, Null, W), NEW n \in al, h[n].rc <= 0
    PROVE  Inward(al, o, hd, h, st, W, n)
<1> DEFINE E == Edges(al, o, n)
           T == Taken(al, o, h, W, n)
           H == Holders(st, n)
           e == Cardinality(E)
           t == Cardinality(T)
           k == Cardinality(H)
           d == One(n \in hd)
           rc == h[n].rc
<1>1. IsFiniteSet(E) /\ e \in Nat /\ IsFiniteSet(H) /\ k \in Nat
  BY RefsFacts
<1>2. T \subseteq E
  BY DEF Taken, Edges, Kids
<1>3. IsFiniteSet(T) /\ t \in Nat
  BY TakenFacts
<1>4. t <= e
  BY <1>1, <1>2, FS_Subset
<1>5. rc + t >= e + d + k
  <2>1. n # Null
    BY NullAssumption
  <2>2. h[n].rc + t >= Refs(al, o, hd, st, n) + One(n = Null)
    BY DEF RcOK
  <2>3. One(n = Null) = 0 /\ Refs(al, o, hd, st, n) = e + d + k
    BY <2>1 DEF One, Refs
  <2>4. e + d + k \in Int
    BY <1>1 DEF One
  <2> HIDE DEF e, t, k, d
  <2> QED
    BY ONLY <2>2, <2>3, <2>4
<1>6. d \in {0, 1} /\ (d = 0 => n \notin hd) /\ rc \in Int /\ rc <= 0
  BY DEF One, Hdr
<1>7. t = e /\ d = 0 /\ k = 0
  <2> HIDE DEF e, t, k, d, rc
  <2> QED
    BY ONLY <1>1, <1>3, <1>4, <1>5, <1>6
<1>8. H = {}
  BY <1>1, <1>7, FS_EmptySet
<1>9. T = E
  BY <1>1, <1>2, <1>7, FS_Subset
<1>10. \A m \in al : n \in o[m] => m \in W /\ n \in Kids(h, o, m)
  BY <1>9 DEF Taken, Edges
<1> QED
  BY <1>6, <1>7, <1>8, <1>10 DEF Inward

\* What the scan leaves white is reached from white nodes only.
LEMMA WhiteIsolated ==
    ASSUME NEW al, NEW o, NEW hd, NEW h, NEW g, NEW c, NEW st, NEW b, NEW rn,
           Base(al, o, hd, h, g, c, st, b, rn), NEW W, Found(al, o, h, W),
           RcOK(al, o, hd, h, st, b, Null, W), \A n \in W : h[n].rc <= 0
    PROVE  Isolated(al, o, hd, h, st, W)
<1>0. /\ Types(al, o, hd, h, g, c, st, rn) /\ StackOK(al, h, g, c, st)
      /\ EfreeOK(al, o, hd, h, st, Null) /\ st # <<>> /\ st[Len(st)].fn = "gc"
  BY DEF Base
<1>1. al \in SUBSET Node /\ h \in [Node -> Hdr] /\ st \in Seq(Frame) /\ Len(st) \in Nat
  BY <1>0 DEF Types
<1>2. ASSUME NEW n \in W
      PROVE  /\ n \in al /\ n \notin hd
             /\ \A k \in 1..Len(st) : st[k].obj # n
             /\ \A m \in al : n \in o[m] => m \in W /\ n \in Kids(h, o, m)
  <2>1. n \in al /\ (h[n].addr # 0 \/ \E m \in al : n \in o[m]) /\ n # Null /\ h[n].rc <= 0
    BY <1>1, NullAssumption DEF Found
  <2>2. RcOK(al, o, hd, h, st, b, Null, W)
    OBVIOUS
  <2>3. /\ n \notin hd /\ Holders(st, n) = {}
        /\ \A m \in al : n \in o[m] => m \in W /\ n \in Kids(h, o, m)
    <3>1. Inward(al, o, hd, h, st, W, n)
      BY ONLY <2>1, <2>2, <1>1, OnlyTaken
    <3> QED
      BY ONLY <3>1 DEF Inward
  <2>4. \A k \in 1..Len(st) : ~Holds(st[k], n)
    BY <2>3 DEF Holders
  <2>5. \A k \in 1..Len(st) : st[k].fn = "efree" => st[k].obj # n
    <3> SUFFICES ASSUME NEW k \in 1..Len(st), st[k].fn = "efree", st[k].obj = n PROVE FALSE
      OBVIOUS
    <3>1. n \in Arr
      BY <2>4 DEF Holds
    <3>2. Lone(al, o, hd, st, Null, n) /\ h[n].addr = 0
      BY <3>1, <1>0 DEF EfreeOK
    <3> QED
      BY <3>2, <2>1 DEF Lone
  <2>6. \A k \in 1..Len(st) : st[k].fn = "free" => st[k].obj # n
    <3> SUFFICES ASSUME NEW k \in 1..Len(st), st[k].fn = "free", st[k].obj = n PROVE FALSE
      OBVIOUS
    <3>1. /\ k > 1
          /\ \/ st[k - 1].fn \in {"efree", "gcfree"} /\ st[k - 1].obj = n
             \/ st[k - 1].fn = "gc"
      BY <1>0 DEF StackOK
    <3>2. k - 1 \in 1..Len(st) /\ k - 1 # Len(st) /\ Len(st) \in 1..Len(st)
      BY <3>1, <1>1
    <3>3. st[k - 1].fn # "gc"
      BY <3>2, <1>0 DEF StackOK
    <3> QED
      BY <3>1, <3>2, <3>3, <2>4, <2>5 DEF Holds
  <2>7. \A k \in 1..Len(st) : st[k].fn = "gc" => st[k].obj # n
    BY <2>1, <1>0 DEF StackOK
  <2>8. \A k \in 1..Len(st) : st[k].fn \in Fns
    <3>1. \A k \in 1..Len(st) : st[k] \in Frame
      BY ONLY <1>1
    <3> QED
      BY ONLY <3>1 DEF Frame
  <2> QED
    BY <2>1, <2>3, <2>4, <2>5, <2>6, <2>7, <2>8 DEF Holds, Fns
<1> QED
  BY ONLY <1>2 DEF Isolated

Gathers == col.pc = "collect" /\ Gathering(alloc, out, held, hdr, gc, col, stack, bailed, ran)

\* The globals once the entries of L are holes.
Hole == [Raw EXCEPT !.tag = "unused"]
\* A hole is a slot without a node.
LEMMA HoleFacts == Hole \in Slots /\ Hole.tag = "unused" /\ Hole.ref = Null
BY DEF Hole, Raw, Slots, Tags
WithHoles(g, L, a, r) ==
    [g EXCEPT !.num_roots = r, !.active = a,
              !.buf = [i \in DOMAIN g.buf |-> IF i \in L THEN Hole ELSE g.buf[i]]]
Holed(g, L, a, r, g2) ==
    /\ g2 \in Globals /\ g2.num_roots = r /\ g2.active = a
    /\ g2.first_unused = g.first_unused /\ g2.unused = g.unused /\ g2.buf_size = g.buf_size
    /\ g2.threshold = g.threshold /\ g2.full = g.full /\ g2.protected = g.protected
    /\ \A i \in 1..(MaxBufSize - 1) : /\ i \in L => g2.buf[i] = Hole
                                      /\ i \notin L => g2.buf[i] = g.buf[i]
\* The fields of the globals with holes.
LEMMA HolesFacts ==
    ASSUME NEW g \in Globals, NEW L, NEW a \in BOOLEAN, NEW r \in Int, NEW g2,
           g2 = WithHoles(g, L, a, r)
    PROVE  Holed(g, L, a, r, g2)
<1> DEFINE bf == [i \in DOMAIN g.buf |-> IF i \in L THEN Hole ELSE g.buf[i]]
<1>1. g.buf \in [1..(MaxBufSize - 1) -> Slots]
  BY DEF Globals
<1>2. /\ bf \in [1..(MaxBufSize - 1) -> Slots]
      /\ \A i \in 1..(MaxBufSize - 1) : /\ i \in L => bf[i] = Hole
                                        /\ i \notin L => bf[i] = g.buf[i]
  BY <1>1, HoleFacts
<1>3. g2 = [g EXCEPT !.num_roots = r, !.active = a, !.buf = bf] /\ g \in Globals /\ r \in Int /\ a \in BOOLEAN
  BY DEF WithHoles
<1> HIDE DEF bf
<1>4. /\ g2 \in Globals /\ g2.num_roots = r /\ g2.active = a /\ g2.buf = bf
      /\ g2.first_unused = g.first_unused /\ g2.unused = g.unused /\ g2.buf_size = g.buf_size
      /\ g2.threshold = g.threshold /\ g2.full = g.full /\ g2.protected = g.protected
  BY ONLY <1>2, <1>3 DEF Globals
<1> QED
  BY ONLY <1>2, <1>4 DEF Holed

\* gc_scan_roots is done: no grey node is left, and the white ones are garbage.
LEMMA ScannedFacts ==
    ASSUME Scans, col.todo = {}, col.btodo = {}, col.idx = gc.first_unused
    PROVE  /\ Colored(hdr, "grey") = {}
           /\ \A y \in Node : hdr[y].color \in {"black", "white"}
           /\ RcOK(alloc, out, held, hdr, stack, bailed, Null, Colored(hdr, "white"))
           /\ Isolated(alloc, out, held, hdr, stack, Colored(hdr, "white"))
           /\ From(hdr, out, Roots(hdr, gc, Colored(hdr, "white")), Colored(hdr, "white"), Colored(hdr, "white"))
<1> DEFINE grey == Colored(hdr, "grey")
           white == Colored(hdr, "white")
<1>0. /\ Base(alloc, out, held, hdr, gc, col, stack, bailed, ran)
      /\ RcOK(alloc, out, held, hdr, stack, bailed, Null, grey \union white \union col.btodo)
      /\ Colored(hdr, "purple") = {}
      /\ Found(alloc, out, hdr, grey \union white)
      /\ \A y \in white \ col.todo : hdr[y].rc <= 0
      /\ \A i \in Used(gc) : i < col.idx => hdr[gc.buf[i].ref].color # "grey"
      /\ From(hdr, out, Roots(hdr, gc, grey) \union (col.todo \intersect white) \union col.btodo,
              grey \union (col.todo \intersect white) \union col.btodo, grey)
      /\ From(hdr, out, Roots(hdr, gc, grey \union white) \union col.btodo,
              grey \union white \union col.btodo, grey \union white)
  BY DEF Scans, Scanning
<1>1. gc \in Globals /\ hdr \in [Node -> Hdr]
  BY <1>0 DEF Base, Types
<1>2. \A i \in Used(gc) : i < col.idx
  BY <1>1 DEF Used, Globals
<1>3. Roots(hdr, gc, grey) \union (col.todo \intersect white) \union col.btodo = {}
  <2>1. Roots(hdr, gc, grey) = {}
    BY <1>0, <1>2 DEF Roots, Colored
  <2> QED
    BY <2>1
<1>4. grey = {}
  <2> DEFINE B == Roots(hdr, gc, grey) \union (col.todo \intersect white) \union col.btodo
             D == grey \union (col.todo \intersect white) \union col.btodo
             C == {}
  <2>1. From(hdr, out, B, D, grey) /\ B \subseteq C
    BY <1>0, <1>3
  <2>2. \A m : m \notin C
    OBVIOUS
  <2> HIDE DEF B, D, C, grey
  <2>3. grey \subseteq C
    BY ONLY <2>1, <2>2 DEF From
  <2> QED
    BY <2>3 DEF C
<1>5. /\ grey \union white = white /\ grey \union white \union col.btodo = white
      /\ Roots(hdr, gc, white) \union col.btodo = Roots(hdr, gc, white)
  BY <1>4
<1>6. /\ RcOK(alloc, out, held, hdr, stack, bailed, Null, white) /\ Found(alloc, out, hdr, white)
      /\ From(hdr, out, Roots(hdr, gc, white), white, white) /\ \A y \in white : hdr[y].rc <= 0
  BY <1>0, <1>5
<1>7. \A y \in Node : hdr[y].color \in {"black", "white"}
  BY <1>0, <1>1, <1>4 DEF Colored, Hdr, Colors
<1>8. Isolated(alloc, out, held, hdr, stack, white)
  <2> HIDE DEF white, grey
  <2> QED
    BY ONLY <1>0, <1>6, WhiteIsolated
<1> QED
  BY <1>4, <1>6, <1>7, <1>8

\* The roots are scanned: white nodes are gathered.
LEMMA ScanDoneGathers == ASSUME Scans, ScanDone PROVE Gathers'
<1> DEFINE live == { i \in Used(gc) : /\ gc.buf[i].tag = "root"
                                      /\ hdr[gc.buf[i].ref].color = "black" }
           refs == { gc.buf[i].ref : i \in live }
           h == [n \in Node |-> IF n \in refs THEN [hdr[n] EXCEPT !.addr = 0] ELSE hdr[n]]
           g == [gc EXCEPT !.num_roots = @ - Cardinality(live),
                    !.buf = [i \in DOMAIN @ |-> IF i \in live
                               THEN [Raw EXCEPT !.tag = "unused"] ELSE @[i]]]
           r == gc_compact(h, g)
           white == Colored(hdr, "white")
<1>1. /\ col.todo = {} /\ col.btodo = {} /\ col.idx = gc.first_unused
      /\ hdr' = r.hdr /\ gc' = r.gc /\ col' = [GoTo("collect", 1) EXCEPT !.end = r.gc.first_unused]
      /\ alloc' = alloc /\ out' = out /\ held' = held /\ stack' = stack
      /\ bailed' = bailed /\ ran' = ran
  BY DEF ScanDone, Quiet, heap
<1>2. /\ Base(alloc, out, held, hdr, gc, col, stack, bailed, ran)
      /\ \A i \in Used(gc) : gc.buf[i].tag = "root" /\ gc.buf[i].ref \in Node
      /\ alloc \in SUBSET Node /\ hdr \in [Node -> Hdr] /\ gc \in Globals /\ col \in Locals
      /\ \A y \in Node : hdr[y].color \in {"grey", "white"} => y \in alloc
      /\ col.pc = "scan"
  <2>1. Scans
    OBVIOUS
  <2> QED
    BY ONLY <2>1, ScanFacts
<1>3. /\ \A y \in Node : hdr[y].color \in {"black", "white"}
      /\ RcOK(alloc, out, held, hdr, stack, bailed, Null, white)
      /\ Isolated(alloc, out, held, hdr, stack, white)
      /\ From(hdr, out, Roots(hdr, gc, white), white, white)
  <2>1. Scans /\ col.todo = {} /\ col.btodo = {} /\ col.idx = gc.first_unused
    BY <1>1
  <2> QED
    BY ONLY <2>1, ScannedFacts
<1>4. /\ BufOK(alloc, hdr, gc) /\ Entries(alloc, hdr, gc) /\ gc.active
  BY <1>2 DEF Base, StackOK, BufOK
<1>5. /\ MaxBufSize \in Nat /\ gc.first_unused \in Nat /\ gc.first_unused >= 1
      /\ Used(gc) \in SUBSET (1..(gc.first_unused - 1))
      /\ \A j \in 1..(gc.first_unused - 1) : j \in 1..(MaxBufSize - 1)
      /\ IsFiniteSet(Used(gc))
      /\ \A i \in Used(gc) : hdr[gc.buf[i].ref].addr # 0
  BY <1>2, <1>4, UsedFacts
<1>6. /\ h \in [Node -> Hdr]
      /\ \A y \in Node : /\ h[y].rc = hdr[y].rc /\ h[y].color = hdr[y].color
                         /\ h[y].null = hdr[y].null /\ h[y].dtored = hdr[y].dtored
                         /\ h[y].freed = hdr[y].freed
                         /\ y \in refs => h[y].addr = 0
                         /\ y \notin refs => h[y].addr = hdr[y].addr
  <2>1. ASSUME NEW y \in Node
        PROVE  /\ h[y] \in Hdr /\ h[y].rc = hdr[y].rc /\ h[y].color = hdr[y].color
               /\ h[y].null = hdr[y].null /\ h[y].dtored = hdr[y].dtored
               /\ h[y].freed = hdr[y].freed
               /\ y \in refs => h[y].addr = 0
               /\ y \notin refs => h[y].addr = hdr[y].addr
    <3> DEFINE v == hdr[y]
               w == h[y]
               z == 0
    <3>0. v \in Hdr /\ z \in Nat
      BY <1>2
    <3>1. CASE y \in refs
      <4>1. w = [v EXCEPT !.addr = z]
        BY <3>1
      <4> HIDE DEF v, w, z
      <4>2. w \in Hdr /\ w.rc = v.rc /\ w.color = v.color /\ w.null = v.null /\ w.dtored = v.dtored
            /\ w.freed = v.freed /\ w.addr = z
        BY ONLY <4>1, <3>0 DEF Hdr
      <4> QED
        BY <4>2, <3>1 DEF v, w, z
    <3>2. CASE y \notin refs
      <4>1. w = v
        BY <3>2
      <4> QED
        BY <4>1, <3>0, <3>2
    <3> QED
      BY <3>1, <3>2
  <2>2. h = [y \in Node |-> h[y]]
    OBVIOUS
  <2> HIDE DEF h
  <2>3. h \in [Node -> Hdr]
    BY ONLY <2>1, <2>2
  <2> QED
    BY ONLY <2>1, <2>3
<1>7. live \subseteq Used(gc) /\ IsFiniteSet(live) /\ Cardinality(live) \in Nat
  BY <1>5, FS_Subset, FS_CardinalityType
<1>8. /\ g \in Globals /\ g.num_roots = gc.num_roots - Cardinality(live) /\ g.active = gc.active
      /\ g.first_unused = gc.first_unused /\ g.unused = gc.unused /\ g.buf_size = gc.buf_size
      /\ g.threshold = gc.threshold
      /\ \A i \in 1..(MaxBufSize - 1) : /\ i \in live => g.buf[i] = Hole
                                        /\ i \notin live => g.buf[i] = gc.buf[i]
  <2> DEFINE a == gc.active
             q == gc.num_roots - Cardinality(live)
  <2>1. a \in BOOLEAN /\ q \in Int
    BY <1>2, <1>7 DEF Globals
  <2>2. g = WithHoles(gc, live, a, q)
    <3> DEFINE bf == [i \in DOMAIN gc.buf |-> IF i \in live THEN Hole ELSE gc.buf[i]]
    <3>1. g = [gc EXCEPT !.num_roots = q, !.buf = bf]
      BY DEF Hole
    <3>2. gc \in Globals /\ a = gc.active
      BY <1>2
    <3> HIDE DEF g, q, bf, a
    <3>3. [gc EXCEPT !.num_roots = q, !.buf = bf] = [gc EXCEPT !.num_roots = q, !.active = a, !.buf = bf]
      BY ONLY <3>2 DEF Globals
    <3> QED
      BY <3>1, <3>3 DEF bf, WithHoles
  <2> HIDE DEF g, live, q, a
  <2>3. /\ g \in Globals /\ g.num_roots = q /\ g.active = a
        /\ g.first_unused = gc.first_unused /\ g.unused = gc.unused /\ g.buf_size = gc.buf_size
        /\ g.threshold = gc.threshold
        /\ \A i \in 1..(MaxBufSize - 1) : /\ i \in live => g.buf[i] = Hole
                                          /\ i \notin live => g.buf[i] = gc.buf[i]
    <3>1. Holed(gc, live, a, q, g)
      BY ONLY <2>1, <2>2, <1>2, HolesFacts
    <3> QED
      BY ONLY <3>1 DEF Holed
  <2> QED
    BY ONLY <2>3 DEF q, a
<1>9. \A y : y \in refs <=> \E i \in live : gc.buf[i].ref = y
  OBVIOUS
<1>10. \A i \in Used(gc) : i \in live <=> hdr[gc.buf[i].ref].color = "black"
  BY <1>2
<1> HIDE DEF live, refs, h, g, r
<1>11. Dropped(hdr, gc, live, alloc, h, g)
  <2>1. \A y \in Node : hdr[y].addr # 0 => y \in alloc
    BY <1>4 DEF Entries
  <2>2. Hole.tag = "unused" /\ Hole.ref = Null
    BY HoleFacts
  <2>3. \A i \in live : gc.buf[i].ref \in Node
    BY <1>2, <1>7
  <2> QED
    BY ONLY <2>1, <2>2, <2>3, <1>6, <1>7, <1>8, <1>9 DEF Dropped
<1>12. Entries(alloc, h, g) /\ (UnusedAt(g) = {} => g.unused = 0) /\ Used(g) = Used(gc) \ live
  <2>1. h \in [Node -> Hdr] /\ g \in Globals
    BY <1>6, <1>8
  <2> QED
    BY ONLY <2>1, <1>2, <1>4, <1>11, DropEntries
<1>13. Compacted(alloc, h, g, r)
  <2>1. h \in [Node -> Hdr] /\ g \in Globals /\ r = gc_compact(h, g)
    BY <1>6, <1>8 DEF r
  <2> QED
    BY ONLY <2>1, <1>2, <1>12, CompactFacts
<1>14. /\ gc' \in Globals /\ hdr' \in [Node -> Hdr] /\ BufOK(alloc, hdr', gc')
       /\ SameBut(h, hdr') /\ Moved(g, gc') /\ gc'.unused = 0
       /\ Used(gc') = 1..g.num_roots /\ gc'.first_unused = g.num_roots + 1 /\ gc'.active = g.active
  BY <1>1, <1>13 DEF Compacted
<1>15. /\ col' \in Locals /\ col'.pc = "collect" /\ col'.idx = 1 /\ col'.todo = {} /\ col'.btodo = {}
       /\ col'.end = gc'.first_unused
  <2> DEFINE c == GoTo("collect", 1)
             e == gc'.first_unused
  <2>1. c \in Locals /\ c.pc = "collect" /\ c.idx = 1 /\ c.todo = {} /\ c.btodo = {}
    BY <1>1, <1>2, GoToFacts DEF Pcs
  <2>2. col' = [c EXCEPT !.end = e] /\ e \in Nat
    BY <1>1, <1>14 DEF Globals
  <2> HIDE DEF c, e
  <2>3. col' \in Locals /\ col'.pc = c.pc /\ col'.idx = c.idx /\ col'.todo = c.todo /\ col'.btodo = c.btodo
        /\ col'.end = e
    BY ONLY <2>1, <2>2 DEF Locals
  <2> QED
    BY <2>1, <2>3 DEF e
<1>16. \A y \in Node : /\ hdr'[y].rc = hdr[y].rc /\ hdr'[y].color = hdr[y].color
                       /\ hdr'[y].null = hdr[y].null /\ hdr'[y].dtored = hdr[y].dtored
                       /\ hdr'[y].freed = hdr[y].freed
                       /\ y \in refs => hdr'[y].addr = 0
                       /\ y \notin refs => (hdr'[y].addr = 0 <=> hdr[y].addr = 0)
  BY ONLY <1>6, <1>14 DEF SameBut
<1>17. Colored(hdr', "white") = white /\ \A m \in Node : Kids(hdr', out, m) = Kids(hdr, out, m)
  BY <1>16 DEF Colored, Kids
<1>18. Base(alloc, out, held, hdr', gc', col', stack, bailed, ran)
  <2>1. col.pc \in Traversing \union {"start"} /\ col'.pc \in Traversing /\ col'.idx # 0 /\ col' \in Locals
    BY <1>2, <1>15 DEF Traversing
  <2>2. gc'.active /\ gc' \in Globals /\ BufOK(alloc, hdr', gc') /\ hdr' \in [Node -> Hdr]
    BY <1>4, <1>8, <1>14
  <2>3. Repainted(alloc, out, hdr, hdr')
    BY <1>2, <1>16, KindAssumption DEF Repainted
  <2> QED
    BY ONLY <2>1, <2>2, <2>3, <1>2, BaseMove
<1>19. RcOK(alloc, out, held, hdr', stack, bailed, Null, Colored(hdr', "white") \union col'.todo)
  <2> DEFINE P2 == Colored(hdr', "white") \union col'.todo
  <2>1. \A m \in alloc : m \in P2 <=> m \in white
    BY <1>15, <1>17
  <2>2. \A m \in Node : /\ hdr'[m].null = hdr[m].null /\ hdr'[m].freed = hdr[m].freed
                        /\ hdr'[m].rc = hdr[m].rc
    BY <1>16
  <2>3. RcOK(alloc, out, held, hdr, stack, bailed, Null, white) /\ alloc \in SUBSET Node
    BY <1>2, <1>3
  <2> HIDE DEF P2, white
  <2>4. RcOK(alloc, out, held, hdr', stack, bailed, Null, P2)
    BY ONLY <2>1, <2>2, <2>3, RcKeep
  <2> QED
    BY <2>4 DEF P2
<1>20. \A i \in Used(gc') : gc'.buf[i].tag = "root" /\ gc'.buf[i].ref \in white
  <2> SUFFICES ASSUME NEW i \in Used(gc') PROVE gc'.buf[i].tag = "root" /\ gc'.buf[i].ref \in white
    OBVIOUS
  <2>1. PICK j \in Used(g) : gc'.buf[i] = g.buf[j]
    BY <1>14 DEF Moved
  <2>2. j \in Used(gc) /\ j \notin live /\ g.buf[j] = gc.buf[j]
    BY <1>5, <1>8, <1>12
  <2> QED
    BY <2>1, <2>2, <1>2, <1>3, <1>10 DEF Colored
<1>21. Whites(hdr', gc', col') = white /\ Tagged(gc', Tags) \subseteq white
  <2>1. Tagged(gc', Tags) \subseteq white
    BY <1>20 DEF Tagged
  <2> QED
    BY <2>1, <1>15, <1>17 DEF Whites
<1>22. Isolated(alloc, out, held, hdr', stack, Whites(hdr', gc', col'))
  <2>1. \A m \in alloc : Kids(hdr', out, m) = Kids(hdr, out, m)
    BY <1>2, <1>17
  <2> QED
    BY <2>1, <1>3, <1>21 DEF Isolated
<1>23. From(hdr', out, Roots(hdr', gc', white) \union col'.todo, white \union col'.todo, white)
  <2> DEFINE B == Roots(hdr, gc, white)
             B2 == Roots(hdr', gc', white) \union col'.todo
             D2 == white \union col'.todo
             X == {}
  <2>1. \A y \in B : y \in B2
    <3> SUFFICES ASSUME NEW y \in B PROVE y \in B2
      OBVIOUS
    <3>1. y \in white /\ y \in Node /\ \E i \in Used(gc) : gc.buf[i].ref = y
      BY DEF Roots, Colored
    <3>2. hdr[y].addr # 0 /\ hdr[y].color = "white"
      BY <3>1, <1>5 DEF Colored
    <3>3. y \notin refs
      BY <3>2, <1>7, <1>9, <1>10
    <3>4. hdr'[y].addr # 0
      BY <3>1, <3>2, <3>3, <1>16
    <3>5. \E i \in Used(gc') : gc'.buf[i].ref = y
      BY <3>1, <3>4, <1>14 DEF BufOK, Entries
    <3> QED
      BY <3>1, <3>5 DEF Roots
  <2>2. \A m \in white : m \in D2 /\ Kids(hdr', out, m) = Kids(hdr, out, m)
    BY <1>17 DEF Colored
  <2>3. \A y : y \notin X
    OBVIOUS
  <2>4. From(hdr, out, B, white, white)
    BY <1>3
  <2> HIDE DEF B, B2, D2, X, white
  <2>5. Onward(hdr, out, B, white, white, hdr', B2, D2, white, X)
    BY ONLY <2>1, <2>2, <2>3 DEF Onward
  <2>6. From(hdr', out, B2, D2, white)
    BY ONLY <2>4, <2>5, FromStep
  <2> QED
    BY <2>6 DEF B2, D2
<1>24. Gathering(alloc, out, held, hdr', gc', col', stack, bailed, ran)
  <2>1. col'.todo \subseteq Colored(hdr', "black") /\ col'.btodo = {} /\ gc'.unused = 0
    BY <1>14, <1>15
  <2>2. \A y \in Node : hdr'[y].color \in {"black", "white"}
    BY <1>3, <1>16
  <2>3. gc'.first_unused \in Nat /\ gc'.first_unused >= 1
    BY <1>14 DEF BufOK, Entries, Globals
  <2>4. col'.idx <= col'.end /\ col'.end <= gc'.first_unused
    BY <2>3, <1>15
  <2>5. \A i \in Used(gc') :
              /\ gc'.buf[i].tag = IF i < col'.idx \/ i >= col'.end THEN "garbage" ELSE "root"
              /\ gc'.buf[i].tag = "garbage" => hdr'[gc'.buf[i].ref].color = "black"
    <3>1. \A i \in Used(gc') : ~(i < 1) /\ ~(i >= gc'.first_unused)
      BY <2>3 DEF Used
    <3> QED
      BY <3>1, <1>15, <1>20
  <2>6. From(hdr', out, Roots(hdr', gc', Colored(hdr', "white")) \union col'.todo,
             Colored(hdr', "white") \union col'.todo, Colored(hdr', "white"))
    BY <1>17, <1>23
  <2>7. \A n \in Tagged(gc', Tags) \ (Colored(hdr', "white") \union col'.todo) :
              n \in Dtor /\ ~hdr'[n].dtored => col'.hasd
    BY <1>17, <1>21
  <2> QED
    BY ONLY <2>1, <2>2, <2>4, <2>5, <2>6, <2>7, <1>18, <1>19, <1>22 DEF Gathering
<1> QED
  BY <1>1, <1>15, <1>24 DEF Gathers


-----------------------------------------------------------------------------
(* The traversals: gathering the garbage.                                  *)

InBuf(g, y) == \E i \in Used(g) : g.buf[i].ref = y
\* Every entry in use has a tag, an index and a node.
LEMMA TaggedAll ==
    ASSUME NEW al \in SUBSET Node, NEW h \in [Node -> Hdr], NEW g \in Globals, BufOK(al, h, g)
    PROVE  /\ \A y : y \in Tagged(g, Tags) <=> InBuf(g, y)
           /\ \A i \in Used(g) : i \in 1..(g.first_unused - 1) /\ i \in 1..(MaxBufSize - 1) /\ g.buf[i].ref \in Node
<1>1. Entries(al, h, g)
  BY DEF BufOK
<1>2. \A i \in Used(g) : g.buf[i].tag \in Tags
  BY <1>1 DEF Entries, Tags
<1>3. \A i \in Used(g) : i \in 1..(g.first_unused - 1) /\ i \in 1..(MaxBufSize - 1) /\ g.buf[i].ref \in Node
  BY <1>1, UsedFacts
<1> QED
  BY <1>2, <1>3 DEF Tagged, InBuf

\* What the part of the invariant says while garbage is gathered.
LEMMA GatherFacts ==
    ASSUME Gathers
    PROVE  /\ Base(alloc, out, held, hdr, gc, col, stack, bailed, ran)
           /\ RcOK(alloc, out, held, hdr, stack, bailed, Null, Colored(hdr, "white") \union col.todo)
           /\ \A y \in col.todo : hdr[y].color = "black" /\ y \in alloc /\ y \notin held
                                  /\ \A k \in 1..Len(stack) : stack[k].obj # y
           /\ \A y \in Node : hdr[y].color \in {"black", "white"}
           /\ col.btodo = {} /\ gc.unused = 0 /\ col.idx <= col.end /\ col.end <= gc.first_unused
           /\ \A i \in Used(gc) :
                 /\ gc.buf[i].tag = IF i < col.idx \/ i >= col.end THEN "garbage" ELSE "root"
                 /\ gc.buf[i].tag = "garbage" => hdr[gc.buf[i].ref].color = "black"
                 /\ gc.buf[i].ref \in Node
           /\ 1..(gc.first_unused - 1) = Used(gc)
           /\ BufOK(alloc, hdr, gc) /\ gc.active
           /\ alloc \in SUBSET Node /\ hdr \in [Node -> Hdr] /\ gc \in Globals /\ col \in Locals
           /\ out \in [Node -> SUBSET Node]
           /\ col.todo \in SUBSET Node /\ col.idx \in Nat /\ col.idx # 0 /\ col.end \in Nat
           /\ \A m \in alloc : out[m] \subseteq alloc
           /\ gc.first_unused \in Nat
           /\ col.pc = "collect"
<1>1. /\ Base(alloc, out, held, hdr, gc, col, stack, bailed, ran)
      /\ RcOK(alloc, out, held, hdr, stack, bailed, Null, Colored(hdr, "white") \union col.todo)
      /\ col.todo \subseteq Colored(hdr, "black") /\ col.btodo = {} /\ gc.unused = 0
      /\ \A n \in Node : hdr[n].color \in {"black", "white"}
      /\ Isolated(alloc, out, held, hdr, stack, Whites(hdr, gc, col))
      /\ col.idx <= col.end /\ col.end <= gc.first_unused
      /\ \A i \in Used(gc) :
              /\ gc.buf[i].tag = IF i < col.idx \/ i >= col.end THEN "garbage" ELSE "root"
              /\ gc.buf[i].tag = "garbage" => hdr[gc.buf[i].ref].color = "black"
      /\ col.pc = "collect"
  BY DEF Gathers, Gathering
<1>2. /\ Types(alloc, out, held, hdr, gc, col, stack, ran) /\ BufOK(alloc, hdr, gc) /\ Closed(alloc, out, held, Null)
      /\ StackOK(alloc, hdr, gc, col, stack)
  BY <1>1 DEF Base
<1>3. /\ alloc \in SUBSET Node /\ hdr \in [Node -> Hdr] /\ gc \in Globals /\ col \in Locals
      /\ out \in [Node -> SUBSET Node]
      /\ col.todo \in SUBSET Node /\ col.idx \in Nat /\ col.idx # 0 /\ col.end \in Nat
      /\ gc.first_unused \in Nat /\ gc.active
  BY <1>1, <1>2 DEF Types, Locals, Globals, StackOK
<1>4. \A i \in Used(gc) : gc.buf[i].ref \in Node
  BY <1>2, <1>3 DEF BufOK, Entries
<1>5. \A y \in col.todo : hdr[y].color = "black" /\ y \in alloc /\ y \notin held
                          /\ \A k \in 1..Len(stack) : stack[k].obj # y
  BY <1>1 DEF Colored, Isolated, Whites
<1>6. \A m \in alloc : out[m] \subseteq alloc
  BY <1>2 DEF Closed
<1>7. 1..(gc.first_unused - 1) = Used(gc)
  <2> DEFINE S == {0}
  <2>1. Listed(gc)
    BY <1>2 DEF BufOK
  <2>2. \A i \in UnusedAt(gc) : i # 0
    BY <1>3 DEF UnusedAt
  <2>3. gc.unused \in S /\ \A i \in UnusedAt(gc) \intersect S : gc.buf[i].next \in S
    BY <2>2, <1>1
  <2> HIDE DEF S
  <2>4. UnusedAt(gc) \subseteq S
    BY ONLY <2>1, <2>3 DEF Listed
  <2>5. UnusedAt(gc) = {}
    BY <2>2, <2>4 DEF S
  <2> QED
    BY <2>5 DEF UnusedAt, Used
<1> QED
  BY ONLY <1>1, <1>2, <1>3, <1>4, <1>5, <1>6, <1>7

\* What a step of gc_collect_roots does, X being the nodes it is done with.
GatherStep(h2, g2, c2, X) ==
    /\ \A y \in Node :
         /\ h2[y].null = hdr[y].null /\ h2[y].freed = hdr[y].freed /\ h2[y].dtored = hdr[y].dtored
         /\ h2[y].color \in {"black", "white"}
         /\ h2[y].color = "white" => hdr[y].color = "white" /\ y \notin X
         /\ hdr[y].color = "white" => h2[y].color = "white" \/ y \in c2.todo
         /\ y \in col.todo => y \in c2.todo \/ y \in X
         /\ y \in c2.todo => h2[y].color = "black" /\ (y \in col.todo \/ hdr[y].color = "white")
         /\ InBuf(gc, y) => InBuf(g2, y)
         /\ InBuf(g2, y) => InBuf(gc, y) \/ y \in X
    /\ \A m \in X : /\ m \in col.todo /\ (InBuf(g2, m) \/ hdr[m].freed)
                    /\ m \in Dtor /\ ~hdr[m].dtored => c2.hasd
                    /\ \A y \in Node : y \in Kids(hdr, out, m) /\ hdr[y].color = "white" => y \in c2.todo
    /\ col.hasd => c2.hasd
    /\ c2.btodo = {} /\ g2.unused = 0 /\ c2.idx <= c2.end /\ c2.end <= g2.first_unused
    /\ \A i \in Used(g2) :
          /\ g2.buf[i].tag = IF i < c2.idx \/ i >= c2.end THEN "garbage" ELSE "root"
          /\ g2.buf[i].tag = "garbage" => h2[g2.buf[i].ref].color = "black"

\* A step of gc_collect_roots, with the nodes it is done with.
Gathered == \E X : GatherStep(hdr', gc', col', X)

\* A step that gathers garbage keeps its part of the invariant.
LEMMA GatherMove ==
    ASSUME Gathers, NEW h2 \in [Node -> Hdr], NEW g2 \in Globals, NEW c2 \in Locals,
           c2.pc = "collect", c2.idx # 0, BufOK(alloc, h2, g2), g2.active,
           RepaintedIn(alloc, out, stack, hdr, h2), NEW X, GatherStep(h2, g2, c2, X),
           RcOK(alloc, out, held, h2, stack, bailed, Null, Colored(h2, "white") \union c2.todo)
    PROVE  Gathering(alloc, out, held, h2, g2, c2, stack, bailed, ran)
<1> DEFINE white == Colored(hdr, "white")
           white2 == Colored(h2, "white")
           B1 == Roots(hdr, gc, white) \union col.todo
           D1 == white \union col.todo
           B2 == Roots(h2, g2, white2) \union c2.todo
           D2 == white2 \union c2.todo
<1>0. /\ Base(alloc, out, held, hdr, gc, col, stack, bailed, ran)
      /\ Isolated(alloc, out, held, hdr, stack, Whites(hdr, gc, col))
      /\ From(hdr, out, B1, D1, white)
      /\ \A n \in Tagged(gc, Tags) \ (white \union col.todo) : n \in Dtor /\ ~hdr[n].dtored => col.hasd
      /\ col.pc = "collect"
  BY DEF Gathers, Gathering
<1>1. GatherStep(h2, g2, c2, X)
  OBVIOUS
<1>2. /\ alloc \in SUBSET Node /\ hdr \in [Node -> Hdr] /\ gc \in Globals /\ col \in Locals
      /\ BufOK(alloc, hdr, gc) /\ col.todo \in SUBSET Node
  <2>1. Gathers
    OBVIOUS
  <2> QED
    BY ONLY <2>1, GatherFacts
<1>3. c2.todo \in SUBSET Node
  BY DEF Locals
<1>4. \A m : m \in Node => Kids(h2, out, m) = Kids(hdr, out, m)
  BY <1>1 DEF Kids, GatherStep
<1>5. Base(alloc, out, held, h2, g2, c2, stack, bailed, ran)
  <2>1. /\ col.pc \in Traversing \union {"start"} /\ c2.pc \in Traversing /\ c2.idx # 0 /\ c2 \in Locals
        /\ g2.active /\ g2 \in Globals /\ BufOK(alloc, h2, g2) /\ h2 \in [Node -> Hdr]
        /\ RepaintedIn(alloc, out, stack, hdr, h2)
    BY <1>0 DEF Traversing
  <2> QED
    BY ONLY <2>1, <1>0, BaseMoveIn
<1>6. /\ \A y : y \in white <=> y \in Node /\ hdr[y].color = "white"
      /\ \A y : y \in white2 <=> y \in Node /\ h2[y].color = "white"
      /\ \A y : y \in Roots(hdr, gc, white) <=> y \in white /\ InBuf(gc, y)
      /\ \A y : y \in Roots(h2, g2, white2) <=> y \in white2 /\ InBuf(g2, y)
  BY DEF Colored, Roots, InBuf
<1>7. /\ \A y : y \in Tagged(gc, Tags) <=> InBuf(gc, y)
      /\ \A i \in Used(gc) : gc.buf[i].ref \in Node
  BY <1>2, TaggedAll
<1>8. /\ \A y : y \in Tagged(g2, Tags) <=> InBuf(g2, y)
      /\ \A i \in Used(g2) : g2.buf[i].ref \in Node
  BY <1>2, TaggedAll
<1>9. \A y : InBuf(gc, y) \/ InBuf(g2, y) => y \in Node
  BY <1>7, <1>8 DEF InBuf
<1> HIDE DEF white, white2
<1>10. From(h2, out, B2, D2, white2)
  <2>1. /\ white2 \subseteq white
        /\ \A y \in white2 : y \notin X
        /\ \A y \in white : y \in white2 \/ y \in c2.todo
        /\ \A y \in col.todo : y \in c2.todo \/ y \in X
        /\ \A m \in X, y \in white : y \in Kids(hdr, out, m) => y \in c2.todo
        /\ \A y \in Node : InBuf(gc, y) => InBuf(g2, y)
    BY ONLY <1>1, <1>2, <1>6 DEF GatherStep
  <2>2. /\ \A y \in B1 : y \in B2 \/ y \in X
        /\ \A y \in white : y \in white2 \/ y \in B2
    BY ONLY <2>1, <1>6
  <2>3. \A m \in D1 : (m \in D2 \/ m \in X) /\ Kids(h2, out, m) = Kids(hdr, out, m)
    BY ONLY <2>1, <1>2, <1>4, <1>6
  <2>4. \A m \in X, y \in white : m \in D1 /\ y \in Kids(hdr, out, m) => y \in B2
    BY ONLY <2>1
  <2>5. From(hdr, out, B1, D1, white)
    BY <1>0
  <2> HIDE DEF B1, B2, D1, D2
  <2>6. Onward(hdr, out, B1, D1, white, h2, B2, D2, white2, X)
    BY ONLY <2>1, <2>2, <2>3, <2>4 DEF Onward
  <2> QED
    BY ONLY <2>5, <2>6, FromStep
<1>11. /\ \A y : y \in Whites(hdr, gc, col) <=> y \in white \/ y \in col.todo \/ InBuf(gc, y)
       /\ \A y : y \in Whites(h2, g2, c2) <=> y \in white2 \/ y \in c2.todo \/ InBuf(g2, y)
  BY <1>7, <1>8 DEF Whites, white, white2
<1>12. /\ \A y \in Whites(h2, g2, c2) : y \in Whites(hdr, gc, col)
       /\ \A y \in Whites(hdr, gc, col) : y \in Whites(h2, g2, c2) \/ hdr[y].freed
  <2>1. \A y \in Whites(h2, g2, c2) : y \in Whites(hdr, gc, col)
    BY ONLY <1>1, <1>3, <1>6, <1>9, <1>11 DEF GatherStep
  <2>2. \A y \in Whites(hdr, gc, col) : y \in Whites(h2, g2, c2) \/ hdr[y].freed
    BY ONLY <1>1, <1>2, <1>6, <1>9, <1>11 DEF GatherStep
  <2> QED
    BY <2>1, <2>2
<1>13. Isolated(alloc, out, held, h2, stack, Whites(h2, g2, c2))
  <2> DEFINE W == Whites(hdr, gc, col)
             W2 == Whites(h2, g2, c2)
  <2>1. \A y \in alloc : Kids(h2, out, y) = Kids(hdr, out, y) /\ (hdr[y].freed => Kids(hdr, out, y) = {})
    BY <1>2, <1>4 DEF Kids
  <2>2. Isolated(alloc, out, held, hdr, stack, W)
    BY <1>0
  <2>3. /\ \A y \in W2 : y \in W
        /\ \A y \in W : y \in W2 \/ hdr[y].freed
    BY <1>12
  <2> HIDE DEF W, W2
  <2>4. Isolated(alloc, out, held, h2, stack, W2)
    BY ONLY <2>1, <2>2, <2>3 DEF Isolated
  <2> QED
    BY <2>4 DEF W2
<1>14. \A n \in Tagged(g2, Tags) \ (white2 \union c2.todo) : n \in Dtor /\ ~h2[n].dtored => c2.hasd
  <2> SUFFICES ASSUME NEW n \in Tagged(g2, Tags) \ (white2 \union c2.todo), n \in Dtor, ~h2[n].dtored
               PROVE  c2.hasd
    OBVIOUS
  <2>1. InBuf(g2, n) /\ n \in Node /\ n \notin white2 /\ n \notin c2.todo
    BY <1>8, <1>9
  <2>2. ~hdr[n].dtored /\ (InBuf(gc, n) \/ n \in X)
    BY <2>1, <1>1 DEF GatherStep
  <2>3. CASE n \in X
    BY <2>2, <2>3, <1>1 DEF GatherStep
  <2>4. CASE n \notin X
    <3>1. n \notin white /\ n \notin col.todo /\ InBuf(gc, n)
      BY <2>1, <2>2, <2>4, <1>1, <1>6 DEF GatherStep
    <3>2. col.hasd
      BY <3>1, <2>2, <1>0, <1>7
    <3> QED
      BY <3>2, <1>1 DEF GatherStep
  <2> QED
    BY <2>3, <2>4
<1>15. /\ c2.btodo = {} /\ g2.unused = 0 /\ c2.idx <= c2.end /\ c2.end <= g2.first_unused
       /\ \A i \in Used(g2) :
             /\ g2.buf[i].tag = IF i < c2.idx \/ i >= c2.end THEN "garbage" ELSE "root"
             /\ g2.buf[i].tag = "garbage" => h2[g2.buf[i].ref].color = "black"
       /\ \A y \in Node : h2[y].color \in {"black", "white"}
  BY ONLY <1>1 DEF GatherStep
<1>16. c2.todo \subseteq Colored(h2, "black")
  BY ONLY <1>1, <1>3 DEF GatherStep, Colored
<1>17. RcOK(alloc, out, held, h2, stack, bailed, Null, white2 \union c2.todo)
  BY DEF white2
<1> QED
  BY ONLY <1>5, <1>10, <1>13, <1>14, <1>15, <1>16, <1>17 DEF Gathering, white2

\* An entry takes another tag.
Tagging(g, i, tag, g2) ==
    /\ g2 \in Globals /\ Retagged(g, g2) /\ g2.buf_size = g.buf_size /\ g2.threshold = g.threshold
    /\ g2.active = g.active /\ g2.protected = g.protected /\ g2.full = g.full
    /\ g2.buf[i].tag = tag
    /\ \A j \in 1..(MaxBufSize - 1) : j # i => g2.buf[j].tag = g.buf[j].tag
\* What changing one tag does to the globals.
LEMMA TagFacts ==
    ASSUME NEW al \in SUBSET Node, NEW h \in [Node -> Hdr], NEW g \in Globals, BufOK(al, h, g),
           NEW i \in Used(g), NEW tag \in {"root", "garbage", "dtor"},
           NEW g2, g2 = [g EXCEPT !.buf[i].tag = tag]
    PROVE  Tagging(g, i, tag, g2)
<1> DEFINE e == [g.buf[i] EXCEPT !.tag = tag]
           bf == [g.buf EXCEPT ![i] = e]
<1>1. /\ i \in 1..(MaxBufSize - 1) /\ g.buf \in [1..(MaxBufSize - 1) -> Slots]
      /\ \A j \in Used(g) : g.buf[j].tag \in {"root", "garbage", "dtor"}
  <2>1. Entries(al, h, g) /\ i \in 1..(MaxBufSize - 1)
    BY TaggedAll DEF BufOK
  <2>2. g.buf \in [1..(MaxBufSize - 1) -> Slots]
    BY DEF Globals
  <2> QED
    BY <2>1, <2>2 DEF Entries
<1>2. /\ e \in Slots /\ e.tag = tag /\ e.ref = g.buf[i].ref /\ e.next = g.buf[i].next
  <2> DEFINE v == g.buf[i]
  <2>1. v \in Slots /\ tag \in Tags
    BY <1>1 DEF Tags
  <2>2. e = [v EXCEPT !.tag = tag]
    OBVIOUS
  <2> HIDE DEF v, e
  <2>3. e \in Slots /\ e.tag = tag /\ e.ref = v.ref /\ e.next = v.next
    BY ONLY <2>1, <2>2 DEF Slots
  <2> QED
    BY <2>3 DEF v
<1>3. g2 = [g EXCEPT !.buf = bf] /\ g \in Globals
  OBVIOUS
<1> HIDE DEF e
<1>4. /\ bf \in [1..(MaxBufSize - 1) -> Slots] /\ bf[i] = e
      /\ \A j \in 1..(MaxBufSize - 1) : j # i => bf[j] = g.buf[j]
  BY <1>1, <1>2
<1> HIDE DEF bf
<1>5. /\ g2 \in Globals /\ g2.buf = bf /\ g2.unused = g.unused /\ g2.first_unused = g.first_unused
      /\ g2.num_roots = g.num_roots /\ g2.buf_size = g.buf_size /\ g2.threshold = g.threshold
      /\ g2.active = g.active /\ g2.protected = g.protected /\ g2.full = g.full
  BY ONLY <1>3, <1>4 DEF Globals
<1>6. Retagged(g, g2)
  <2>1. ASSUME NEW j \in 1..(MaxBufSize - 1)
        PROVE  /\ g2.buf[j].ref = g.buf[j].ref /\ g2.buf[j].next = g.buf[j].next
               /\ j \in Used(g) => g2.buf[j].tag \in {"root", "garbage", "dtor"}
               /\ j \notin Used(g) => g2.buf[j].tag = g.buf[j].tag
    <3>1. CASE j = i
      BY <3>1, <1>2, <1>4, <1>5
    <3>2. CASE j # i
      BY <3>2, <1>1, <1>4, <1>5
    <3> QED
      BY <3>1, <3>2
  <2> QED
    BY ONLY <2>1, <1>5 DEF Retagged
<1> QED
  BY <1>2, <1>4, <1>5, <1>6 DEF Tagging

\* The buffer once some of its entries have other tags.
LEMMA BufRetag ==
    ASSUME NEW al \in SUBSET Node, NEW h \in [Node -> Hdr], NEW g \in Globals,
           BufOK(al, h, g), NEW h2 \in [Node -> Hdr], NEW g2 \in Globals, Retagged(g, g2),
           g2.buf_size = g.buf_size, g2.threshold = g.threshold,
           \A y \in Node : h2[y].addr = h[y].addr
    PROVE  BufOK(al, h2, g2)
<1>1. /\ Entries(al, h, g) /\ g.threshold <= g.buf_size /\ g.buf_size \in 2..MaxBufSize
  BY DEF BufOK, Entries
<1>2. /\ g.buf_size <= g2.buf_size /\ g2.buf_size <= MaxBufSize /\ g2.threshold <= g2.buf_size
  BY <1>1, BufferAssumption
<1>3. \A y \in al : y \in al \/ h[y].addr = 0
  OBVIOUS
<1>4. BufOK(al, h, g) /\ Retagged(g, g2) /\ \A y \in Node : h2[y].addr = h[y].addr
  OBVIOUS
<1>5. BufOK(al, h2, g2)
  BY ONLY <1>2, <1>3, <1>4, BufSame
<1> QED
  BY <1>5
\* Another tag leaves the same entries in use.
LEMMA RetagUsed ==
    ASSUME NEW al \in SUBSET Node, NEW h \in [Node -> Hdr], NEW g \in Globals,
           BufOK(al, h, g), NEW g2, Retagged(g, g2)
    PROVE  Used(g2) = Used(g)
<1>1. Entries(al, h, g)
  BY DEF BufOK
<1>2. \A j \in 1..(g.first_unused - 1) : j \in 1..(MaxBufSize - 1)
  BY ONLY <1>1, UsedFacts
<1> QED
  BY <1>2 DEF Used, Retagged

\* gc_collect_roots: the next root.
LEMMA CollectRootGathers == ASSUME Gathers, CollectRoot PROVE Gathers' /\ Gathered
<1> DEFINE n == Entry.ref
           go == hdr[n].color = "white"
           X == {}
<1>0. Gathers
  OBVIOUS
<1>1. /\ col.todo = {} /\ col.idx < col.end
      /\ gc' = [gc EXCEPT !.buf[col.idx].tag = "garbage"]
      /\ hdr' = IF go THEN [hdr EXCEPT ![n].color = "black"] ELSE hdr
      /\ col' = [col EXCEPT !.idx = @ + 1, !.todo = IF go THEN {n} ELSE {}]
      /\ alloc' = alloc /\ out' = out /\ held' = held /\ stack' = stack
      /\ bailed' = bailed /\ ran' = ran
  BY DEF CollectRoot, Quiet, heap
<1>2. /\ RcOK(alloc, out, held, hdr, stack, bailed, Null, Colored(hdr, "white") \union col.todo)
      /\ \A y \in Node : hdr[y].color \in {"black", "white"}
      /\ col.btodo = {} /\ gc.unused = 0 /\ col.idx <= col.end /\ col.end <= gc.first_unused
      /\ \A i \in Used(gc) :
            /\ gc.buf[i].tag = IF i < col.idx \/ i >= col.end THEN "garbage" ELSE "root"
            /\ gc.buf[i].tag = "garbage" => hdr[gc.buf[i].ref].color = "black"
            /\ gc.buf[i].ref \in Node
      /\ 1..(gc.first_unused - 1) = Used(gc)
      /\ BufOK(alloc, hdr, gc) /\ gc.active
      /\ alloc \in SUBSET Node /\ hdr \in [Node -> Hdr] /\ gc \in Globals /\ col \in Locals
      /\ col.idx \in Nat /\ col.idx # 0 /\ col.end \in Nat
      /\ gc.first_unused \in Nat /\ col.pc = "collect"
  BY ONLY <1>0, GatherFacts
<1>t. /\ alloc \in SUBSET Node /\ hdr \in [Node -> Hdr] /\ gc \in Globals /\ BufOK(alloc, hdr, gc)
  BY ONLY <1>2
<1>3. col.idx \in Used(gc) /\ n \in Node
  <2>1. /\ col.idx \in Nat /\ col.idx # 0 /\ col.end \in Nat /\ gc.first_unused \in Nat
        /\ col.idx < col.end /\ col.end <= gc.first_unused
    BY ONLY <1>1, <1>2
  <2>2. col.idx \in 1..(gc.first_unused - 1)
    BY ONLY <2>1
  <2>3. col.idx \in Used(gc)
    BY ONLY <2>2, <1>2
  <2> QED
    BY <2>3, <1>t, TaggedAll DEF Entry
<1>4. /\ col' \in Locals /\ col'.pc = "collect" /\ col'.idx = col.idx + 1 /\ col'.btodo = {}
      /\ col'.todo = (IF go THEN {n} ELSE {}) /\ col'.end = col.end /\ col'.hasd = col.hasd
  <2> DEFINE T == IF go THEN {n} ELSE {}
             j == col.idx + 1
  <2>1. T \in SUBSET Node /\ j \in Nat
    BY <1>2, <1>3
  <2>2. col' = [col EXCEPT !.idx = j, !.todo = T] /\ col \in Locals
    BY <1>1, <1>2
  <2> HIDE DEF T, j
  <2>3. col' \in Locals /\ col'.pc = col.pc /\ col'.idx = j /\ col'.btodo = col.btodo /\ col'.todo = T
        /\ col'.end = col.end /\ col'.hasd = col.hasd
    BY ONLY <2>1, <2>2 DEF Locals
  <2> QED
    BY <2>3, <1>2 DEF T, j
<1>5. /\ hdr' \in [Node -> Hdr]
      /\ \A y \in Node : /\ hdr'[y].null = hdr[y].null /\ hdr'[y].freed = hdr[y].freed
                         /\ hdr'[y].dtored = hdr[y].dtored /\ hdr'[y].addr = hdr[y].addr
                         /\ hdr'[y].rc = hdr[y].rc
                         /\ hdr'[y].color = IF go /\ y = n THEN "black" ELSE hdr[y].color
  <2>1. CASE go
    <3>1. Painted(hdr, n, "black", hdr')
      <4> DEFINE color == "black"
      <4>1. color \in Colors /\ n \in Node /\ hdr' = [hdr EXCEPT ![n].color = color]
        BY <2>1, <1>1, <1>3 DEF Colors
      <4> HIDE DEF color, n
      <4>2. Painted(hdr, n, color, hdr')
        BY ONLY <4>1, <1>2, PaintFacts
      <4> QED
        BY <4>2 DEF color
    <3> QED
      BY <3>1, <2>1 DEF Painted
  <2>2. CASE ~go
    BY <2>2, <1>1, <1>2
  <2> QED
    BY <2>1, <2>2
<1>6. Tagging(gc, col.idx, "garbage", gc')
  <2> DEFINE tag == "garbage"
             i == col.idx
  <2>1. tag \in {"root", "garbage", "dtor"} /\ i \in Used(gc) /\ gc' = [gc EXCEPT !.buf[i].tag = tag]
    BY <1>1, <1>3
  <2> HIDE DEF tag, i
  <2>2. Tagging(gc, i, tag, gc')
    BY ONLY <2>1, <1>t, TagFacts
  <2> QED
    BY <2>2 DEF tag, i
<1>7. /\ gc' \in Globals /\ Retagged(gc, gc') /\ gc'.buf_size = gc.buf_size /\ gc'.threshold = gc.threshold
      /\ gc'.active = gc.active /\ gc'.buf[col.idx].tag = "garbage"
      /\ \A j \in 1..(MaxBufSize - 1) : j # col.idx => gc'.buf[j].tag = gc.buf[j].tag
  BY ONLY <1>6 DEF Tagging
<1>8. BufOK(alloc, hdr', gc') /\ Used(gc') = Used(gc)
  <2>1. BufOK(alloc, hdr', gc')
    <3>1. /\ Retagged(gc, gc') /\ gc' \in Globals /\ hdr' \in [Node -> Hdr]
          /\ gc'.buf_size = gc.buf_size /\ gc'.threshold = gc.threshold
          /\ \A y \in Node : hdr'[y].addr = hdr[y].addr
      BY ONLY <1>5, <1>7
    <3> QED
      BY ONLY <3>1, <1>t, BufRetag
  <2>2. Used(gc') = Used(gc)
    BY ONLY <1>7, <1>t, RetagUsed
  <2> QED
    BY ONLY <2>1, <2>2
<1>9. \A i \in Used(gc) : gc'.buf[i].ref = gc.buf[i].ref /\ i \in 1..(MaxBufSize - 1) /\ i \in Nat
  <2>1. \A i \in Used(gc) : i \in 1..(MaxBufSize - 1)
    BY <1>2, TaggedAll
  <2> QED
    BY <2>1, <1>7, BufferAssumption DEF Retagged
<1>10. \A y : InBuf(gc', y) <=> InBuf(gc, y)
  BY <1>8, <1>9 DEF InBuf
<1>11. \A i \in Used(gc') :
          /\ gc'.buf[i].tag = IF i < col'.idx \/ i >= col'.end THEN "garbage" ELSE "root"
          /\ gc'.buf[i].tag = "garbage" => hdr'[gc'.buf[i].ref].color = "black"
  <2> SUFFICES ASSUME NEW i \in Used(gc)
               PROVE  /\ gc'.buf[i].tag = IF i < col'.idx \/ i >= col'.end THEN "garbage" ELSE "root"
                      /\ gc'.buf[i].tag = "garbage" => hdr'[gc'.buf[i].ref].color = "black"
    BY <1>8
  <2>1. CASE i = col.idx
    <3>1. gc'.buf[i].ref = n /\ hdr'[n].color = "black"
      BY <2>1, <1>2, <1>3, <1>5, <1>9 DEF Entry
    <3>2. i < col'.idx
      BY <2>1, <1>2, <1>4
    <3> QED
      BY <3>1, <3>2, <2>1, <1>7
  <2>2. CASE i # col.idx
    <3>1. i < col'.idx <=> i < col.idx
      BY <2>2, <1>2, <1>4, <1>9
    <3>2. gc'.buf[i].tag = gc.buf[i].tag /\ gc'.buf[i].ref = gc.buf[i].ref
      BY <2>2, <1>7, <1>9
    <3>3. hdr'[gc.buf[i].ref].color = "black" \/ hdr'[gc.buf[i].ref].color = hdr[gc.buf[i].ref].color
      BY <1>2, <1>5
    <3> QED
      BY ONLY <3>1, <3>2, <3>3, <1>2, <1>4
  <2> QED
    BY <2>1, <2>2
<1>12. /\ \A y : y \in col'.todo <=> go /\ y = n
       /\ go => hdr[n].color = "white"
       /\ \A y : y \notin X /\ y \notin col.todo
       /\ col'.idx <= col'.end /\ col'.end <= gc'.first_unused /\ gc'.unused = 0
       /\ col'.btodo = {} /\ col'.hasd = col.hasd
  <2>1. gc'.first_unused = gc.first_unused /\ gc'.unused = gc.unused
    BY <1>7 DEF Retagged
  <2>2. col.idx + 1 <= col.end
    BY <1>1, <1>2
  <2> QED
    BY <2>1, <2>2, <1>1, <1>2, <1>4
<1> HIDE DEF n, go, X
<1>13. GatherStep(hdr', gc', col', X)
  BY ONLY <1>2, <1>3, <1>5, <1>10, <1>11, <1>12 DEF GatherStep
<1>14. RcOK(alloc, out, held, hdr', stack, bailed, Null, Colored(hdr', "white") \union col'.todo)
  <2> DEFINE P == Colored(hdr, "white") \union col.todo
             P2 == Colored(hdr', "white") \union col'.todo
  <2>1. \A m \in alloc : m \in P2 <=> m \in P
    BY ONLY <1>2, <1>5, <1>12 DEF Colored
  <2>2. \A m \in Node : /\ hdr'[m].null = hdr[m].null /\ hdr'[m].freed = hdr[m].freed
                        /\ hdr'[m].rc = hdr[m].rc
    BY <1>5
  <2>3. RcOK(alloc, out, held, hdr, stack, bailed, Null, P) /\ alloc \in SUBSET Node
    BY <1>2
  <2> HIDE DEF P, P2
  <2>4. RcOK(alloc, out, held, hdr', stack, bailed, Null, P2)
    BY ONLY <2>1, <2>2, <2>3, RcKeep
  <2> QED
    BY <2>4 DEF P2
<1>15. RepaintedIn(alloc, out, stack, hdr, hdr')
  BY <1>2, <1>5, KindAssumption DEF RepaintedIn
<1>16. /\ hdr' \in [Node -> Hdr] /\ gc' \in Globals /\ col' \in Locals /\ col'.pc = "collect" /\ col'.idx # 0
       /\ BufOK(alloc, hdr', gc') /\ gc'.active
  BY <1>2, <1>4, <1>5, <1>7, <1>8
<1>17. Gathering(alloc, out, held, hdr', gc', col', stack, bailed, ran)
  BY ONLY <1>0, <1>13, <1>14, <1>15, <1>16, GatherMove
<1>18. Gathered
  BY <1>13 DEF Gathered
<1> QED
  BY <1>1, <1>16, <1>17, <1>18 DEF Gathers

\* gc_collect_white: n becomes an entry of the garbage if it is none.
LEMMA CollectWhiteGathers ==
    ASSUME NEW n \in Node, Gathers, gc_collect_white(n), ~gc.full, ~gc'.full PROVE Gathers' /\ Gathered
<1> DEFINE fresh == { m \in Children(n) : hdr[m].color = "white" }
           v == Visit(n, 1, fresh, "black")
           enter == ~hdr[n].freed /\ ~Info(hdr[n])
           e == Enter(v, gc, n, "garbage", "black")
           hd == hdr[n].freed
           X == {n}
<1>0. Gathers
  OBVIOUS
<1>1. /\ n \in col.todo
      /\ hdr' = IF enter THEN e.hdr ELSE v
      /\ gc' = IF enter THEN e.gc ELSE gc
      /\ col' = [col EXCEPT !.todo = (@ \ {n}) \union fresh, !.count = @ + 1,
                  !.hasd = @ \/ (~hdr[n].freed /\ n \in Dtor /\ ~hdr[n].dtored)]
      /\ alloc' = alloc /\ out' = out /\ held' = held /\ stack' = stack
      /\ bailed' = bailed /\ ran' = ran
  BY DEF gc_collect_white, Quiet, heap
<1>2. /\ RcOK(alloc, out, held, hdr, stack, bailed, Null, Colored(hdr, "white") \union col.todo)
      /\ Base(alloc, out, held, hdr, gc, col, stack, bailed, ran)
      /\ \A y \in col.todo : hdr[y].color = "black" /\ y \in alloc /\ y \notin held
                             /\ \A k \in 1..Len(stack) : stack[k].obj # y
      /\ \A y \in Node : hdr[y].color \in {"black", "white"}
      /\ col.btodo = {} /\ gc.unused = 0 /\ col.idx <= col.end /\ col.end <= gc.first_unused
      /\ \A i \in Used(gc) :
            /\ gc.buf[i].tag = IF i < col.idx \/ i >= col.end THEN "garbage" ELSE "root"
            /\ gc.buf[i].tag = "garbage" => hdr[gc.buf[i].ref].color = "black"
            /\ gc.buf[i].ref \in Node
      /\ BufOK(alloc, hdr, gc) /\ gc.active
      /\ alloc \in SUBSET Node /\ hdr \in [Node -> Hdr] /\ gc \in Globals /\ col \in Locals
      /\ out \in [Node -> SUBSET Node]
      /\ col.todo \in SUBSET Node /\ col.idx \in Nat /\ col.idx # 0 /\ col.end \in Nat
      /\ \A m \in alloc : out[m] \subseteq alloc
      /\ gc.first_unused \in Nat /\ col.pc = "collect"
  BY ONLY <1>0, GatherFacts
<1>3. n \in alloc /\ hdr[n].color = "black" /\ \A k \in 1..Len(stack) : stack[k].obj # n
  BY <1>1, <1>2
<1>4. /\ Children(n) = Kids(hdr, out, n) /\ Kids(hdr, out, n) \subseteq out[n]
      /\ out[n] \subseteq alloc
  BY <1>2, <1>3 DEF Children, Kids
<1>5. /\ \A y \in fresh : y \in Node /\ y \in alloc /\ y \in out[n] /\ hdr[y].color = "white" /\ y \in Kids(hdr, out, n)
      /\ n \notin fresh
      /\ \A y \in Kids(hdr, out, n) : hdr[y].color = "white" => y \in fresh
  BY <1>2, <1>3, <1>4
<1>6. Visited(hdr, out, n, 1, fresh, "black", v)
  <2> DEFINE d == 1
             color == "black"
  <2>1. d \in Int /\ color \in Colors /\ fresh \subseteq Children(n) /\ v = Visit(n, d, fresh, color)
    BY DEF Colors
  <2> HIDE DEF d, color, fresh, v
  <2>2. Visited(hdr, out, n, d, fresh, color, v)
    BY ONLY <2>1, <1>2, VisitFacts
  <2> QED
    BY <2>2 DEF d, color
<1>7. /\ col' \in Locals /\ col'.pc = "collect" /\ col'.idx = col.idx /\ col'.btodo = {}
      /\ col'.todo = (col.todo \ {n}) \union fresh /\ col'.end = col.end
      /\ col'.hasd = (col.hasd \/ (~hdr[n].freed /\ n \in Dtor /\ ~hdr[n].dtored))
  <2> DEFINE T == (col.todo \ {n}) \union fresh
             q == col.count + 1
             d == col.hasd \/ (~hdr[n].freed /\ n \in Dtor /\ ~hdr[n].dtored)
  <2>1. T \in SUBSET Node
    BY <1>2, <1>5
  <2>2. q \in Int /\ d \in BOOLEAN
    BY <1>2 DEF Locals, Hdr
  <2>3. col' = [col EXCEPT !.todo = T, !.count = q, !.hasd = d] /\ col \in Locals
    BY <1>1, <1>2
  <2> HIDE DEF T, q, d
  <2>4. col' \in Locals /\ col'.pc = col.pc /\ col'.idx = col.idx /\ col'.btodo = col.btodo /\ col'.todo = T
        /\ col'.end = col.end /\ col'.hasd = d
    BY ONLY <2>1, <2>2, <2>3 DEF Locals
  <2> QED
    BY <2>4, <1>2 DEF T, d
<1>8. enter <=> ~hdr[n].freed /\ hdr[n].addr = 0
  BY <1>3 DEF Info
<1>9. e = Enter(v, gc, n, "garbage", "black")
  OBVIOUS
<1> HIDE DEF fresh, v, e, enter, X
<1>10. /\ v \in [Node -> Hdr]
       /\ \A y \in Node : /\ v[y].null = hdr[y].null /\ v[y].freed = hdr[y].freed
                          /\ v[y].dtored = hdr[y].dtored /\ v[y].addr = hdr[y].addr
                          /\ y \in fresh => v[y].color = "black"
                          /\ y \notin fresh => v[y].color = hdr[y].color
                          /\ y \notin Kids(hdr, out, n) => v[y].rc = hdr[y].rc
                          /\ y \in Kids(hdr, out, n) => v[y].rc = hdr[y].rc + 1
  BY ONLY <1>6 DEF Visited
<1>11. BufOK(alloc, v, gc)
  <2>1. v \in [Node -> Hdr] /\ \A y \in Node : v[y].addr = hdr[y].addr
    BY ONLY <1>10
  <2> QED
    BY ONLY <2>1, <1>2, BufHdr
\* The entry of n, new or not.
<1>12. /\ hdr' \in [Node -> Hdr] /\ gc' \in Globals /\ BufOK(alloc, hdr', gc') /\ gc'.active
       /\ \A y \in Node : /\ hdr'[y].null = hdr[y].null /\ hdr'[y].freed = hdr[y].freed
                          /\ hdr'[y].dtored = hdr[y].dtored
                          /\ y # n => hdr'[y].addr = hdr[y].addr
                          /\ y \in fresh => hdr'[y].color = "black"
                          /\ y \notin fresh => hdr'[y].color = hdr[y].color
                          /\ y \notin Kids(hdr, out, n) => hdr'[y].rc = hdr[y].rc
                          /\ y \in Kids(hdr, out, n) => hdr'[y].rc = hdr[y].rc + 1
       /\ hdr[n].freed => hdr'[n].addr = hdr[n].addr
       /\ gc'.unused = 0 /\ gc'.first_unused \in Nat /\ gc'.first_unused >= gc.first_unused
       /\ \A y : InBuf(gc, y) => InBuf(gc', y)
       /\ \A y : InBuf(gc', y) => InBuf(gc, y) \/ y = n
       /\ InBuf(gc', n) \/ hdr[n].freed
       /\ \A i \in Used(gc') : \/ i \in Used(gc) /\ gc'.buf[i] = gc.buf[i]
                               \/ gc'.buf[i].tag = "garbage" /\ gc'.buf[i].ref = n /\ i \in Nat /\ i >= gc.first_unused
  <2>1. CASE enter
    <3> DEFINE tag == "garbage"
               color == "black"
    <3>0. e = Enter(v, gc, n, tag, color) /\ tag \in {"root", "garbage", "dtor"} /\ color \in Colors
      BY <1>9 DEF Colors
    <3>1. hdr' = e.hdr /\ gc' = e.gc /\ ~e.gc.full /\ ~gc.full
      BY <2>1, <1>1
    <3>2. v[n].addr = 0 /\ v \in [Node -> Hdr]
      BY <2>1, <1>8, <1>10
    <3> HIDE DEF tag, color
    <3>3. PICK i \in 1..(MaxBufSize - 1) : Entered(alloc, v, gc, n, tag, color, e.hdr, e.gc, i)
      <4>1. alloc \in SUBSET Node /\ gc \in Globals /\ n \in alloc
        BY <1>2, <1>3
      <4> QED
        BY ONLY <4>1, <3>0, <3>1, <3>2, <1>11, EnterFacts
    <3>4. Entered(alloc, v, gc, n, tag, color, hdr', gc', i)
      BY <3>1, <3>3
    <3>5. HdrEntered(v, n, color, hdr')
      BY ONLY <3>0, <3>2, <3>4, <1>2, EnteredHdr, n \in Node
    <3>6. /\ hdr' \in [Node -> Hdr] /\ hdr'[n].color = "black"
          /\ \A y \in Node : /\ hdr'[y].rc = v[y].rc /\ hdr'[y].null = v[y].null
                             /\ hdr'[y].freed = v[y].freed /\ hdr'[y].dtored = v[y].dtored
                             /\ y # n => hdr'[y] = v[y]
      BY ONLY <3>5 DEF HdrEntered, color
    <3>7. /\ Used(gc') = Used(gc) \union {i} /\ gc'.buf[i].tag = "garbage" /\ gc'.buf[i].ref = n
          /\ \A j \in 1..(MaxBufSize - 1) : j # i => gc'.buf[j] = gc.buf[j]
          /\ gc' \in Globals /\ BufOK(alloc, hdr', gc') /\ gc'.first_unused >= gc.first_unused
          /\ gc'.active = gc.active /\ gc'.unused = 0 /\ i >= gc.first_unused /\ i \notin Used(gc)
      BY ONLY <3>4, <1>2 DEF Entered, tag
    <3>8. \A j \in Used(gc) : j \in 1..(MaxBufSize - 1)
      BY <1>2, TaggedAll
    <3>9. \A j \in Used(gc) : gc'.buf[j] = gc.buf[j]
      BY ONLY <3>7, <3>8
    <3>10. /\ \A y : InBuf(gc, y) => InBuf(gc', y)
           /\ \A y : InBuf(gc', y) => InBuf(gc, y) \/ y = n
           /\ InBuf(gc', n)
           /\ \A j \in Used(gc') : \/ j \in Used(gc) /\ gc'.buf[j] = gc.buf[j]
                                   \/ gc'.buf[j].tag = "garbage" /\ gc'.buf[j].ref = n /\ j = i
      BY ONLY <3>7, <3>9 DEF InBuf
    <3>11. i \in Nat /\ gc'.first_unused \in Nat
      BY <3>7, BufferAssumption DEF Globals
    <3>12. \A y \in Node : /\ hdr'[y].null = hdr[y].null /\ hdr'[y].freed = hdr[y].freed
                           /\ hdr'[y].dtored = hdr[y].dtored
                           /\ y # n => hdr'[y].addr = hdr[y].addr
                           /\ y \in fresh => hdr'[y].color = "black"
                           /\ y \notin fresh => hdr'[y].color = hdr[y].color
                           /\ y \notin Kids(hdr, out, n) => hdr'[y].rc = hdr[y].rc
                           /\ y \in Kids(hdr, out, n) => hdr'[y].rc = hdr[y].rc + 1
      <4>1. n \notin fresh /\ hdr[n].color = "black"
        BY <1>3, <1>5
      <4> QED
        BY ONLY <4>1, <3>6, <1>10
    <3>13. ~hdr[n].freed
      BY <2>1, <1>8
    <3> QED
      BY ONLY <3>6, <3>7, <3>10, <3>11, <3>12, <3>13, <1>2
  <2>2. CASE ~enter
    <3>1. hdr' = v /\ gc' = gc
      BY <2>2, <1>1
    <3>2. InBuf(gc, n) \/ hdr[n].freed
      BY <2>2, <1>2, <1>8 DEF BufOK, Entries, InBuf
    <3> QED
      BY ONLY <3>1, <3>2, <1>2, <1>10, <1>11, n \in Node
  <2> QED
    BY <2>1, <2>2
<1>13. /\ \A y : y \in X <=> y = n
       /\ \A y : y \in col'.todo <=> (y \in col.todo /\ y # n) \/ y \in fresh
  BY <1>7 DEF X
<1>14. n \in Dtor /\ ~hdr[n].dtored => col'.hasd
  <2>1. DtorOK(alloc, hdr, {}, ran)
    BY <1>2 DEF Base
  <2>2. n \in Dtor /\ hdr[n].freed => hdr[n].dtored
    BY <2>1, <1>3 DEF DtorOK, Dead
  <2> QED
    BY <2>2, <1>7
<1>15. GatherStep(hdr', gc', col', X)
  <2>1. \A i \in Used(gc') :
          /\ gc'.buf[i].tag = IF i < col'.idx \/ i >= col'.end THEN "garbage" ELSE "root"
          /\ gc'.buf[i].tag = "garbage" => hdr'[gc'.buf[i].ref].color = "black"
    <3> SUFFICES ASSUME NEW i \in Used(gc')
                 PROVE  /\ gc'.buf[i].tag = IF i < col'.idx \/ i >= col'.end THEN "garbage" ELSE "root"
                        /\ gc'.buf[i].tag = "garbage" => hdr'[gc'.buf[i].ref].color = "black"
      OBVIOUS
    <3>1. \A y \in Node : hdr[y].color = "black" => hdr'[y].color = "black"
      BY <1>12
    <3>2. CASE i \in Used(gc) /\ gc'.buf[i] = gc.buf[i]
      <4>1. /\ gc.buf[i].tag = IF i < col.idx \/ i >= col.end THEN "garbage" ELSE "root"
            /\ gc.buf[i].tag = "garbage" => hdr[gc.buf[i].ref].color = "black"
            /\ gc.buf[i].ref \in Node
        BY <3>2, <1>2
      <4> QED
        BY <4>1, <3>1, <3>2, <1>7
    <3>3. CASE gc'.buf[i].tag = "garbage" /\ gc'.buf[i].ref = n /\ i \in Nat /\ i >= gc.first_unused
      <4>1. i >= col'.end
        BY <3>3, <1>2, <1>7
      <4>2. hdr'[n].color = "black"
        BY <3>1, <1>3
      <4> QED
        BY <4>1, <4>2, <3>3
    <3> QED
      BY <3>2, <3>3, <1>12
  <2>2. /\ col'.btodo = {} /\ gc'.unused = 0 /\ col'.idx <= col'.end /\ col'.end <= gc'.first_unused
        /\ (col.hasd => col'.hasd)
    <3>1. col'.end = col.end /\ col'.idx = col.idx /\ col'.btodo = {} /\ (col.hasd => col'.hasd)
      BY ONLY <1>7
    <3>2. /\ col.idx <= col.end /\ col.end <= gc.first_unused /\ col.end \in Nat /\ gc.first_unused \in Nat
      BY ONLY <1>2
    <3>3. gc'.unused = 0 /\ gc'.first_unused \in Nat /\ gc'.first_unused >= gc.first_unused
      BY ONLY <1>12
    <3> QED
      BY ONLY <3>1, <3>2, <3>3
  <2>3. \A m \in X : /\ m \in col.todo /\ (InBuf(gc', m) \/ hdr[m].freed)
                     /\ m \in Dtor /\ ~hdr[m].dtored => col'.hasd
                     /\ \A y \in Node : y \in Kids(hdr, out, m) /\ hdr[y].color = "white" => y \in col'.todo
    BY <1>1, <1>5, <1>12, <1>13, <1>14
  <2>4. \A y \in Node :
         /\ hdr'[y].null = hdr[y].null /\ hdr'[y].freed = hdr[y].freed /\ hdr'[y].dtored = hdr[y].dtored
         /\ hdr'[y].color \in {"black", "white"}
         /\ hdr'[y].color = "white" => hdr[y].color = "white" /\ y \notin X
         /\ hdr[y].color = "white" => hdr'[y].color = "white" \/ y \in col'.todo
         /\ y \in col.todo => y \in col'.todo \/ y \in X
         /\ y \in col'.todo => hdr'[y].color = "black" /\ (y \in col.todo \/ hdr[y].color = "white")
         /\ InBuf(gc, y) => InBuf(gc', y)
         /\ InBuf(gc', y) => InBuf(gc, y) \/ y \in X
    BY ONLY <1>2, <1>3, <1>5, <1>12, <1>13
  <2> QED
    BY ONLY <2>1, <2>2, <2>3, <2>4 DEF GatherStep
<1>16. RcOK(alloc, out, held, hdr', stack, bailed, Null, Colored(hdr', "white") \union col'.todo)
  <2> DEFINE P == Colored(hdr, "white") \union col.todo
             P2 == Colored(hdr', "white") \union col'.todo
  <2>1. n \in P /\ \A m \in alloc : m \in P2 <=> m \in P /\ m # n
    <3>1. \A m \in alloc : m \in P <=> hdr[m].color = "white" \/ m \in col.todo
      BY <1>2 DEF Colored
    <3>2. \A m \in alloc : m \in P2 <=> hdr'[m].color = "white" \/ (m \in col.todo /\ m # n) \/ m \in fresh
      BY <1>2, <1>13 DEF Colored
    <3>3. \A m \in fresh : hdr[m].color = "white" /\ m # n
      BY <1>5
    <3>4. \A m \in alloc : m \in Node
      BY <1>2
    <3>5. n \in P
      BY <1>1
    <3> HIDE DEF P, P2
    <3> QED
      BY ONLY <3>1, <3>2, <3>3, <3>4, <3>5, <1>3, <1>12
  <2>2. /\ \A m \in Node : hdr'[m].null = hdr[m].null /\ hdr'[m].freed = hdr[m].freed
        /\ \A y \in alloc : hdr'[y].rc = hdr[y].rc + One(y \in Kids(hdr, out, n))
    <3>1. \A y \in alloc : y \in Node /\ hdr[y].rc \in Int
      BY <1>2 DEF Hdr
    <3> QED
      BY ONLY <3>1, <1>12 DEF One
  <2>3. RcOK(alloc, out, held, hdr, stack, bailed, Null, P) /\ alloc \in SUBSET Node /\ hdr \in [Node -> Hdr]
    BY <1>2
  <2> HIDE DEF P, P2
  <2>4. RcOK(alloc, out, held, hdr', stack, bailed, Null, P2)
    BY ONLY <2>1, <2>2, <2>3, <1>3, RcPut
  <2> QED
    BY <2>4 DEF P2
<1>17. RepaintedIn(alloc, out, stack, hdr, hdr')
  <2>1. \A y \in alloc : \/ hdr'[y].rc = hdr[y].rc /\ (hdr[y].addr = 0 => hdr'[y].addr = 0)
                         \/ \E m \in alloc : y \in out[m]
                         \/ ~hdr[y].freed /\ \A k \in 1..Len(stack) : stack[k].obj # y
    <3> SUFFICES ASSUME NEW y \in alloc, ~\E m \in alloc : y \in out[m]
                 PROVE  \/ hdr'[y].rc = hdr[y].rc /\ (hdr[y].addr = 0 => hdr'[y].addr = 0)
                        \/ ~hdr[y].freed /\ \A k \in 1..Len(stack) : stack[k].obj # y
      OBVIOUS
    <3>1. y \in Node /\ y \notin Kids(hdr, out, n)
      BY <1>2, <1>3, <1>4
    <3>2. CASE y = n
      BY <3>1, <3>2, <1>3, <1>12
    <3>3. CASE y # n
      BY <3>1, <3>3, <1>12
    <3> QED
      BY <3>2, <3>3
  <2>2. \A y \in Node : hdr'[y].null = hdr[y].null /\ hdr'[y].freed = hdr[y].freed /\ hdr'[y].dtored = hdr[y].dtored
    BY ONLY <1>12
  <2> QED
    BY ONLY <2>1, <2>2, KindAssumption DEF RepaintedIn
<1>18. /\ hdr' \in [Node -> Hdr] /\ gc' \in Globals /\ col' \in Locals /\ col'.pc = "collect" /\ col'.idx # 0
       /\ BufOK(alloc, hdr', gc') /\ gc'.active
  BY ONLY <1>2, <1>7, <1>12
<1>19. Gathering(alloc, out, held, hdr', gc', col', stack, bailed, ran)
  BY ONLY <1>0, <1>15, <1>16, <1>17, <1>18, GatherMove
<1>20. Gathered
  BY <1>15 DEF Gathered
<1> QED
  BY <1>1, <1>18, <1>19, <1>20 DEF Gathers

Prepares == col.pc = "prepare" /\ Preparing(alloc, out, held, hdr, gc, col, stack, bailed, ran)
Nests == col.pc = "nested" /\ Nesting(alloc, out, held, hdr, gc, col, stack, bailed, ran)

\* Nothing but the garbage leads into it, and no call knows it.
Sealed(al, o, hd, st, G) ==
    \A n \in G : /\ n \in al /\ n \notin hd
                 /\ \A k \in 1..Len(st) : st[k].obj # n
                 /\ \A m \in al : n \in o[m] => m \in G

\* The end of the traversals.
LEMMA LeaveBase ==
    ASSUME NEW al, NEW o, NEW hd, NEW h, NEW g, NEW c, NEW st, NEW b, NEW rn,
           Base(al, o, hd, h, g, c, st, b, rn), c.pc \in Traversing,
           NEW c2 \in Locals, c2.pc \in {"finish", "destroy", "dtors"},
           c2.pc # "finish" => c2.idx = 1,
           RcOK(al, o, hd, h, st, b, Null, {}), ColorOK(h, g), TagOK(g, c2),
           DtorOK(al, h, Gar(g), rn), Sealed(al, o, hd, st, Gar(g))
    PROVE  Steady(al, o, hd, h, g, c2, st, b, rn, Null)
<1>0. /\ Types(al, o, hd, h, g, c, st, rn) /\ StackOK(al, h, g, c, st) /\ BufOK(al, h, g)
      /\ Closed(al, o, hd, Null) /\ EfreeOK(al, o, hd, h, st, Null)
      /\ DeadOK(al, o, hd, h, st, {}, Null) /\ EmptyOK(al, o, h, g, c, st, b)
      /\ st # <<>> /\ st[Len(st)].fn = "gc"
  BY DEF Base
<1>1. al \in SUBSET Node /\ st \in Seq(Frame) /\ g \in Globals /\ Len(st) \in Nat /\ Len(st) # 0
  BY <1>0 DEF Types
<1>2. c.pc # "idle" /\ c.pc # "destroy" /\ c2.pc # "idle" /\ c.pc \notin {"idle", "start", "finish"}
  BY DEF Traversing
<1>3. Types(al, o, hd, h, g, c2, st, rn)
  BY <1>0 DEF Types
<1>4. StackOK(al, h, g, c2, st)
  <2>1. Len(st) \in 1..Len(st) /\ \A k \in 1..Len(st) : st[k].fn = "gc" => k = Len(st)
    BY <1>0, <1>1 DEF StackOK
  <2>2. \A k \in 1..Len(st) : ~(st[k].fn = "gc" /\ k < Len(st))
    BY <2>1, <1>1
  <2>3. g.active
    BY <1>0, <1>2 DEF StackOK
  <2> QED
    BY <2>1, <2>2, <2>3, <1>0, <1>2 DEF StackOK
<1>5. DeadOK(al, o, hd, h, st, Gar(g), Null)
  BY <1>0 DEF DeadOK
<1>6. GarOK(al, o, hd, h, st, Gar(g))
  BY DEF Sealed, GarOK
<1>7. ApartOK(al, o, c2, st, Gar(g))
  <2>1. \A k : InGC(st, k) => k \in 1..Len(st)
    BY DEF InGC
  <2>2. \A k \in 1..Len(st) : \A j \in 1..(k - 1) : j \in 1..Len(st)
    BY <1>1
  <2> QED
    BY <2>1, <2>2 DEF Sealed, ApartOK
<1>8. EmptyOK(al, o, h, g, c2, st, b)
  <2>1. c2.pc = "destroy" => \A i \in Used(g) : ~(i < c2.idx)
    BY <1>1 DEF Used, Globals
  <2> QED
    BY <2>1, <1>0, <1>2 DEF EmptyOK
<1> QED
  BY <1>0, <1>3, <1>4, <1>5, <1>6, <1>7, <1>8 DEF Steady
==============================================================================
