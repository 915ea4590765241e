-------------------------- MODULE OutputLayerProofs --------------------------
(***************************************************************************)
(* The output layer is sound for any number of handlers and writes, as     *)
(* long as the callbacks only write: no handler is used once it is freed,  *)
(* the stack is sound between two calls, and what is written leaves once,  *)
(* in order, and is never lost.                                            *)
(*                                                                         *)
(* The argument follows the data.  At every moment what was written is     *)
(* out, in the buffers, or in flight: in the one piece that the innermost  *)
(* call carries, in a gap of the stack.  Every step of the layer moves a   *)
(* piece across one boundary.                                              *)
(***************************************************************************)
EXTENDS OutputLayer, SequenceFacts

\* Callbacks only write, and no user code runs inside the deprecation notice:
\* otherwise php_output_lock_error frees the handler that is running.
WritesOnly == ~Reenter /\ ~ErrorHandler

Token == 1..MaxWrites
HandlerOrNull == Handler \union {Null}
HandlerType ==
    [kind: {"default", "devnull", "user"}, size: Nat, can: SUBSET Abilities,
     level: Nat, buf: Seq(Token), disabled: BOOLEAN, produced: BOOLEAN]
Ctx == [op: {"write", "flush", "clean", "final"}, in: Seq(Token), out: Seq(Token)]
Res == [status: {"none", "success", "failure", "nodata", "refused", "popped"}, ctx: Ctx]
FrameType ==
    [fn: {"op", "handler", "flush", "clean", "cleanall", "pop", "endall"},
     h: HandlerOrNull, ctx: Ctx, i: Nat,
     at: {"call", "wait", "enter", "callback", "internal", "deprecated", "finish",
          "write", "push", "free", "loop"},
     flags: BOOLEAN, ret: Res]

TypeInv ==
    /\ activated \in BOOLEAN /\ bad \in BOOLEAN /\ phase \in Phases
    /\ active \in HandlerOrNull /\ running \in HandlerOrNull
    /\ handlers \in Seq(Handler) /\ live \in SUBSET Handler
    /\ hd \in [Handler -> HandlerType] /\ calls \in Seq(FrameType) /\ res \in Res
    /\ sink \in Seq(Token) /\ written \in 0..MaxWrites
    /\ \A h \in Handler : hd[h].level < Cardinality(Handler)

-----------------------------------------------------------------------------
(* The calls in progress.                                                  *)

\* Frame g is a call that frame f has made.
Link(f, g) ==
    \/ /\ f.fn \in {"op", "flush", "clean", "pop"} /\ f.at = "wait"
       /\ g.fn = "handler" /\ g.h = f.h
       /\ IF f.fn = "op" THEN g.ctx.op = f.ctx.op ELSE g.ctx.op # "write"
    \/ f.fn = "cleanall" /\ f.at = "wait" /\ g.fn = "handler"
    \/ /\ \/ f.fn = "handler" /\ f.at = "callback"
          \/ f.fn = "flush" /\ f.at = "push"
          \/ f.fn = "pop" /\ f.at = "free"
       /\ g.fn = "op"
    \/ f.fn = "endall" /\ g.fn = "pop"

\* A write from a callback, or a handler it has reached.
Nested(g) ==
    /\ g.fn \in {"op", "handler"} /\ g.ctx.op = "write"
    /\ g.fn = "handler" => g.at = "enter"

\* Inside a callback there are only writes, and no second callback.
CallsOK(c, ph) ==
    /\ \A k \in 1..(Len(c) - 1) : Link(c[k], c[k + 1])
    /\ Len(c) > 0 => c[1].fn # "handler"
    /\ ph = "ending" /\ Len(c) > 0 => c[1].fn = "endall"
    /\ \A j, k \in 1..Len(c) : j < k /\ c[j].fn = "handler" => Nested(c[k])

\* A flush or a pop that has taken a handler off the stack; a handler at work.
Holding(f) == f.fn \in {"flush", "pop"} /\ f.at # "wait"
Busy(f) == f.fn = "handler" /\ f.at # "enter"

\* The innermost call of c is at that place in one of those functions.
Carries(c, fns, at) == c # <<>> /\ c[Len(c)].fn \in fns /\ c[Len(c)].at = at

\* The handler is on the stack, at its level.
OnStack(h) ==
    /\ h \in Handler /\ hd[h].level < Len(handlers)
    /\ handlers[hd[h].level + 1] = h
Prefix(s, t) == Len(s) <= Len(t) /\ \A a \in 1..Len(s) : s[a] = t[a]

OpFrame(f) ==
    /\ f.i <= Len(handlers) /\ (f.flags => f.i <= 1)
    /\ f.at = "wait" => f.i >= 1 /\ handlers[f.i] = f.h
    /\ f.at = "call" /\ f.i > 0 => f.ctx.out = <<>>
HandlerFrame(f) ==
    /\ OnStack(f.h) /\ f.ctx.out = <<>>
    /\ f.at \in {"enter", "callback", "internal", "deprecated", "finish"}
    /\ f.at = "enter" /\ hd[f.h].disabled => f.ctx.in = <<>>
    /\ f.at # "enter" => running = f.h
    /\ f.at \in {"callback", "internal", "finish"} => ~hd[f.h].disabled
    /\ f.at = "callback" => Prefix(f.ctx.in, hd[f.h].buf)
    /\ f.at \in {"deprecated", "finish"} =>
          /\ f.ret.status \in {"success", "failure", "nodata"}
          /\ f.ret.status # "success" => f.ret.ctx.out = <<>>
          /\ Prefix(f.ret.ctx.out, hd[f.h].buf) /\ f.ret.ctx.op = f.ctx.op
\* A flush and a pop take the top handler off the stack and hold it.
TakenFrame(f) ==
    /\ f.at = "wait" => handlers # <<>> /\ f.h = active /\ f.h \in Handler
    /\ f.at # "wait" => /\ f.h \in live /\ hd[f.h].level = Len(handlers)
                        /\ hd[f.h].buf = <<>>
CleanAllFrame(f) == f.i <= Len(handlers) /\ (f.at = "wait" => f.i >= 1)
FrameOK(f) ==
    /\ f.fn = "op" => OpFrame(f)
    /\ f.fn = "handler" => HandlerFrame(f)
    /\ f.fn = "cleanall" => CleanAllFrame(f)
    /\ f.fn = "flush" => TakenFrame(f) /\ f.h = active
    /\ f.fn = "pop" => TakenFrame(f) /\ (f.at # "wait" => f.i = 1)
AllFrames(c) == \A k \in 1..Len(c) : FrameOK(c[k])
\* The handler a flush or a pop has run holds nothing any more.  A result is
\* one of the operation that was asked for.
Returned(c, r) ==
    /\ Carries(c, {"flush", "pop"}, "wait") => hd[c[Len(c)].h].buf = <<>>
    /\ Carries(c, {"op"}, "wait") => r.ctx.op = c[Len(c)].ctx.op

\* Handler h is held by a flush or a pop, the active one by a flush.
Taken(h) == \E k \in 1..Len(calls) : Holding(calls[k]) /\ calls[k].h = h
Cut == \E k \in 1..Len(calls) : Holding(calls[k]) /\ calls[k].fn = "flush"

TableInv ==
    /\ activated
    /\ \A i \in 1..Len(handlers) : handlers[i] \in live /\ hd[handlers[i]].level = i - 1
    /\ \A h \in live : OnStack(h) \/ Taken(h)
    /\ ~Cut => active = TopOf(handlers)
    /\ running # Null => \E k \in 1..Len(calls) : Busy(calls[k]) /\ calls[k].h = running
    /\ res.status \notin {"success", "failure"} => res.ctx.out = <<>>
    /\ \A h \in Handler : hd[h].disabled =>
          hd[h].buf = <<>> \/ (Carries(calls, {"handler"}, "deprecated") /\ Top.h = h)
    /\ phase = "ending" /\ calls = <<>> => active = Null

-----------------------------------------------------------------------------
(* The data.                                                               *)

\* What the innermost call carries, and the gap it is in: above so many
\* handlers.
Flight(c, r) ==
    LET f == c[Len(c)]
    IN  CASE Carries(c, {"op"}, "call") -> IF f.i = 0 THEN f.ctx.out ELSE f.ctx.in
          [] Carries(c, {"handler"}, "enter") -> f.ctx.in
          [] Carries(c, {"op", "flush", "pop"}, "wait") -> r.ctx.out
          [] Carries(c, {"flush", "pop"}, "write") -> f.ctx.out
          [] OTHER -> <<>>
Gap(c) ==
    LET f == c[Len(c)]
    IN  CASE Carries(c, {"op"}, "call") -> f.i
          [] Carries(c, {"handler"}, "enter") -> hd[f.h].level + 1
          [] Carries(c, {"op"}, "wait") -> f.i - 1
          [] Carries(c, {"flush", "pop"}, "wait") -> Len(handlers) - 1
          [] Carries(c, {"flush", "pop"}, "write") -> Len(handlers)
          [] OTHER -> 0
\* What a clean is about to discard.
Doomed(c, r) ==
    IF Carries(c, {"clean", "cleanall"}, "wait") THEN r.ctx.out ELSE <<>>

Inc(s) == \A a, b \in 1..Len(s) : a < b => s[a] < s[b]
Before(s, t) == \A a \in 1..Len(s), b \in 1..Len(t) : s[a] < t[b]
Upto(s, w) == \A a \in 1..Len(s) : s[a] <= w

\* n buffers B above the sink s, with the piece F in gap g: in order, up to w.
InOrder(s, B, n, F, g, w) ==
    /\ Inc(s) /\ Inc(F) /\ Before(s, F) /\ Upto(s, w) /\ Upto(F, w)
    /\ \A i \in 1..n : Inc(B[i]) /\ Before(s, B[i]) /\ Upto(B[i], w)
    /\ \A i, j \in 1..n : i < j => Before(B[i], B[j])
    /\ \A i \in 1..n : i <= g => Before(B[i], F)
    /\ \A i \in 1..n : i > g => Before(F, B[i])
\* And complete, but for what was discarded.
Complete(s, B, n, F, d, w) ==
    \A t \in 1..w : \/ t \in Tokens(s) \/ t \in Tokens(F) \/ t \in d
                    \/ \E i \in 1..n : t \in Tokens(B[i])
Buffers == [i \in 1..Len(handlers) |-> hd[handlers[i]].buf]

Flow(s, B, n, F, g, d, w) ==
    g \in 0..n /\ InOrder(s, B, n, F, g, w) /\ Complete(s, B, n, F, d, w)

DataInv ==
    Flow(sink, Buffers, Len(handlers), Flight(calls, res), Gap(calls),
         dropped \union Tokens(Doomed(calls, res)), written)

-----------------------------------------------------------------------------
(* After a bailout the end of the request finds a handler running: the     *)
(* first handler that is not disabled ends in php_output_lock_error.       *)

AbortCalls ==
    /\ phase = "bailed" => calls = <<>>
    /\ Len(calls) <= 3
    /\ Len(calls) >= 1 => calls[1].fn = "endall"
    /\ Len(calls) >= 2 => calls[2].fn = "pop"
    /\ Len(calls) = 3 =>
          /\ calls[2].at = "wait" /\ calls[3].fn = "handler" /\ calls[3].at = "enter"
          /\ calls[3].ctx.op = "final" /\ calls[3].ctx.out = <<>>
          /\ activated /\ active # Null /\ calls[3].h = active
AbortTable ==
    /\ ~activated => handlers = <<>> /\ active = Null
    /\ activated => running # Null
    /\ activated /\ active # Null =>
          /\ active \in live /\ handlers # <<>>
          /\ \A i \in 1..(Len(handlers) - 1) : handlers[i] # active
    /\ \A i \in 1..Len(handlers) : handlers[i] \in live
    /\ \A i, j \in 1..Len(handlers) : handlers[i] = handlers[j] => i = j
AbortPop ==
    Len(calls) >= 2 => LET f == calls[2] IN
        /\ f.at \in {"wait", "write", "free"}
        /\ f.at = "wait" /\ activated => handlers # <<>> /\ f.h = active /\ active # Null
        /\ f.at = "wait" /\ Len(calls) = 2 => res.ctx.out = <<>>
        /\ f.at = "write" => f.ctx.out = <<>>
        /\ f.at # "wait" => active = TopOf(handlers)
        /\ f.at \in {"write", "free"} /\ f.i = 1 =>
              f.h \in live /\ \A i \in 1..Len(handlers) : handlers[i] # f.h

NormalInv ==
    CallsOK(calls, phase) /\ AllFrames(calls) /\ Returned(calls, res) /\ TableInv /\ DataInv
AbortInv == AbortCalls /\ AbortTable /\ AbortPop
EndInv ==
    /\ calls = <<>>
    /\ phase = "ended" => \A t \in 1..written : t \in Tokens(sink) \/ t \in dropped

Inv ==
    /\ TypeInv /\ ~bad
    /\ phase \in {"run", "ending"} => NormalInv
    /\ phase \in {"bailed", "aborting"} => AbortInv
    /\ phase \in {"ended", "aborted"} => EndInv
-----------------------------------------------------------------------------
(* Sequences of tokens.                                                    *)

\* The empty piece is in order with everything and has no token.
LEMMA EmptyPiece ==
    ASSUME NEW t, NEW w
    PROVE  /\ Inc(<<>>) /\ Before(<<>>, t) /\ Before(t, <<>>) /\ Upto(<<>>, w)
           /\ Tokens(<<>>) = {}
BY DEF Inc, Before, Upto, Tokens

\* The elements of a concatenation, read from either side.
LEMMA ConcatElements ==
    ASSUME NEW s \in Seq(Token), NEW t \in Seq(Token)
    PROVE  /\ s \o t \in Seq(Token) /\ Len(s \o t) = Len(s) + Len(t)
           /\ Len(s) \in Nat /\ Len(t) \in Nat
           /\ \A a \in 1..Len(s) : (s \o t)[a] = s[a] /\ s[a] \in Int
           /\ \A a \in 1..Len(t) : (s \o t)[Len(s) + a] = t[a] /\ t[a] \in Int
           /\ \A a \in 1..Len(s \o t) :
                 \/ a \in 1..Len(s) /\ (s \o t)[a] = s[a]
                 \/ a - Len(s) \in 1..Len(t) /\ (s \o t)[a] = t[a - Len(s)]
BY SizeAssumption DEF Token

(* A piece put behind another one.                                         *)
LEMMA ConcatPieces ==
    ASSUME NEW s \in Seq(Token), NEW t \in Seq(Token), NEW u \in Seq(Token), NEW w \in Nat
    PROVE  /\ Tokens(s \o t) = Tokens(s) \union Tokens(t)
           /\ Inc(s) /\ Inc(t) /\ Before(s, t) => Inc(s \o t)
           /\ Before(s, u) /\ Before(t, u) => Before(s \o t, u)
           /\ Before(u, s) /\ Before(u, t) => Before(u, s \o t)
           /\ Upto(s, w) /\ Upto(t, w) => Upto(s \o t, w)
<1>1. Tokens(s \o t) = Tokens(s) \union Tokens(t)
  <2>1. \A x \in Tokens(s \o t) : x \in Tokens(s) \union Tokens(t)
    BY ConcatElements DEF Tokens
  <2>2. \A x \in Tokens(s) : x \in Tokens(s \o t)
    <3> TAKE x \in Tokens(s)
    <3>1. PICK a \in 1..Len(s) : x = s[a]
      BY DEF Tokens
    <3>2. a \in 1..Len(s \o t) /\ (s \o t)[a] = x
      BY <3>1, ConcatElements
    <3> QED
      BY <3>2 DEF Tokens
  <2>3. \A x \in Tokens(t) : x \in Tokens(s \o t)
    <3> TAKE x \in Tokens(t)
    <3>1. PICK a \in 1..Len(t) : x = t[a]
      BY DEF Tokens
    <3>2. Len(s) + a \in 1..Len(s \o t) /\ (s \o t)[Len(s) + a] = x
      BY <3>1, ConcatElements
    <3> QED
      BY <3>2 DEF Tokens
  <2> QED
    BY <2>1, <2>2, <2>3
<1>2. ASSUME Inc(s), Inc(t), Before(s, t) PROVE Inc(s \o t)
  <2> SUFFICES ASSUME NEW a \in 1..Len(s \o t), NEW b \in 1..Len(s \o t), a < b
               PROVE  (s \o t)[a] < (s \o t)[b]
    BY DEF Inc
  <2>1. CASE b \in 1..Len(s)
    <3>1. a \in 1..Len(s)
      BY <2>1, ConcatElements
    <3> QED
      BY <2>1, <3>1, <1>2, ConcatElements DEF Inc
  <2>2. CASE a \in 1..Len(s) /\ b \notin 1..Len(s)
    <3>1. b - Len(s) \in 1..Len(t) /\ (s \o t)[b] = t[b - Len(s)] /\ (s \o t)[a] = s[a]
      BY <2>2, ConcatElements
    <3> QED
      BY <3>1, <2>2, <1>2 DEF Before
  <2>3. CASE a \notin 1..Len(s) /\ b \notin 1..Len(s)
    <3>1. /\ b - Len(s) \in 1..Len(t) /\ (s \o t)[b] = t[b - Len(s)]
          /\ a - Len(s) \in 1..Len(t) /\ (s \o t)[a] = t[a - Len(s)]
      BY <2>3, ConcatElements
    <3>2. a - Len(s) < b - Len(s)
      BY ConcatElements
    <3> QED
      BY <3>1, <3>2, <1>2 DEF Inc
  <2> QED
    BY <2>1, <2>2, <2>3
<1>3. ASSUME Before(s, u), Before(t, u) PROVE Before(s \o t, u)
  BY <1>3, ConcatElements DEF Before
<1>4. ASSUME Before(u, s), Before(u, t) PROVE Before(u, s \o t)
  BY <1>4, ConcatElements DEF Before
<1>5. ASSUME Upto(s, w), Upto(t, w) PROVE Upto(s \o t, w)
  BY <1>5, ConcatElements DEF Upto
<1> QED
  BY <1>1, <1>2, <1>3, <1>4, <1>5

(* A part of a piece, from its start.                                      *)
LEMMA PrefixPieces ==
    ASSUME NEW s \in Seq(Token), NEW t \in Seq(Token), NEW u \in Seq(Token), NEW w \in Nat,
           Prefix(s, t)
    PROVE  /\ Inc(t) => Inc(s)
           /\ Before(t, u) => Before(s, u)
           /\ Before(u, t) => Before(u, s)
           /\ Upto(t, w) => Upto(s, w)
           /\ \A v \in Seq(Token) : Prefix(s, t \o v)
<1>1. Len(s) \in Nat /\ Len(t) \in Nat /\ Len(s) <= Len(t) /\ \A a \in 1..Len(s) : s[a] = t[a]
  BY DEF Prefix
<1>2. \A v \in Seq(Token) : Prefix(s, t \o v)
  BY <1>1, ConcatElements DEF Prefix
<1>3. \A a \in 1..Len(s) : a \in 1..Len(t) /\ s[a] = t[a]
  BY <1>1
<1>4. Inc(t) => Inc(s)
  BY <1>3 DEF Inc
<1>5. (Before(t, u) => Before(s, u)) /\ (Before(u, t) => Before(u, s))
  BY <1>3 DEF Before
<1>6. Upto(t, w) => Upto(s, w)
  BY <1>3 DEF Upto
<1> QED
  BY <1>2, <1>4, <1>5, <1>6

(* One token, newer than all others.                                       *)
LEMMA NewPiece ==
    ASSUME NEW s \in Seq(Token), NEW w \in Nat, w + 1 \in Token, Upto(s, w)
    PROVE  /\ <<w + 1>> \in Seq(Token) /\ Inc(<<w + 1>>) /\ Before(s, <<w + 1>>)
           /\ Upto(<<w + 1>>, w + 1) /\ Upto(s, w + 1) /\ Tokens(<<w + 1>>) = {w + 1}
<1>1. <<w + 1>> \in Seq(Token) /\ Len(<<w + 1>>) = 1 /\ <<w + 1>>[1] = w + 1
  OBVIOUS
<1>2. \A a \in 1..Len(s) : s[a] \in Int /\ s[a] < w + 1
  BY SizeAssumption DEF Upto, Token
<1>3. 1..1 = {1}
  OBVIOUS
<1> HIDE DEF Token
<1>4. Inc(<<w + 1>>) /\ Upto(<<w + 1>>, w + 1)
  BY <1>1, <1>3 DEF Inc, Upto
<1>5. Before(s, <<w + 1>>)
  BY <1>1, <1>2, <1>3 DEF Before
<1>6. Upto(s, w + 1)
  BY <1>2 DEF Upto
<1>7. Tokens(<<w + 1>>) = {w + 1}
  <2> DEFINE one == <<w + 1>>
  <2>1. Len(one) = 1 /\ one[1] = w + 1
    BY <1>1
  <2> HIDE DEF one
  <2>2. Tokens(one) = {w + 1}
    BY <2>1, <1>3 DEF Tokens
  <2> QED
    BY <2>2 DEF one
<1> QED
  BY <1>1, <1>4, <1>5, <1>6, <1>7
-----------------------------------------------------------------------------
(* How the data moves.                                                     *)

(* Nothing in flight is in any gap.                                        *)
LEMMA FlowAnyGap ==
    ASSUME NEW s \in Seq(Token), NEW n \in Nat, NEW B \in [1..n -> Seq(Token)],
           NEW g, NEW d, NEW w \in Nat, Flow(s, B, n, <<>>, g, d, w), NEW h \in 0..n
    PROVE  Flow(s, B, n, <<>>, h, d, w)
BY EmptyPiece DEF Flow, InOrder, Complete

(* php_output_write: one more token, on top.                               *)
LEMMA FlowNew ==
    ASSUME NEW s \in Seq(Token), NEW n \in Nat, NEW B \in [1..n -> Seq(Token)],
           NEW g, NEW d, NEW w \in Nat, Flow(s, B, n, <<>>, g, d, w), w + 1 \in Token
    PROVE  Flow(s, B, n, <<w + 1>>, n, d, w + 1)
<1>1. /\ Inc(s) /\ Upto(s, w) /\ \A i \in 1..n : Inc(B[i]) /\ Before(s, B[i]) /\ Upto(B[i], w)
      /\ \A i, j \in 1..n : i < j => Before(B[i], B[j])
  BY DEF Flow, InOrder
<1>2. /\ Inc(<<w + 1>>) /\ Before(s, <<w + 1>>) /\ Upto(<<w + 1>>, w + 1) /\ Upto(s, w + 1)
      /\ Tokens(<<w + 1>>) = {w + 1}
  BY <1>1, NewPiece
<1>3. \A i \in 1..n : Before(B[i], <<w + 1>>) /\ Upto(B[i], w + 1)
  BY <1>1, NewPiece
<1>4. \A i \in 1..n : ~(i > n)
  OBVIOUS
<1>5. InOrder(s, B, n, <<w + 1>>, n, w + 1)
  BY <1>1, <1>2, <1>3, <1>4 DEF InOrder
<1>6. Complete(s, B, n, <<w + 1>>, d, w + 1)
  <2>1. Complete(s, B, n, <<>>, d, w)
    BY DEF Flow
  <2>2. \A t \in 1..(w + 1) : t \in 1..w \/ t = w + 1
    OBVIOUS
  <2> QED
    BY <2>1, <2>2, <1>2, EmptyPiece DEF Complete
<1> QED
  BY <1>5, <1>6 DEF Flow

(* php_output_handler_append: the piece joins the buffer below it.         *)
LEMMA FlowStore ==
    ASSUME NEW s \in Seq(Token), NEW n \in Nat, NEW B \in [1..n -> Seq(Token)],
           NEW C \in [1..n -> Seq(Token)], NEW F \in Seq(Token), NEW d, NEW w \in Nat,
           NEW i \in 1..n, Flow(s, B, n, F, i, d, w), C[i] = B[i] \o F,
           \A j \in 1..n : j # i => C[j] = B[j], NEW g \in 0..n
    PROVE  Flow(s, C, n, <<>>, g, d, w)
<1>1. /\ Inc(s) /\ Upto(s, w) /\ Inc(F) /\ Before(s, F) /\ Upto(F, w)
      /\ \A j \in 1..n : Inc(B[j]) /\ Before(s, B[j]) /\ Upto(B[j], w)
      /\ \A j, k \in 1..n : j < k => Before(B[j], B[k])
      /\ \A j \in 1..n : j <= i => Before(B[j], F)
      /\ \A j \in 1..n : j > i => Before(F, B[j])
  BY DEF Flow, InOrder
<1>2. Inc(C[i]) /\ Before(s, C[i]) /\ Upto(C[i], w) /\ Tokens(C[i]) = Tokens(B[i]) \union Tokens(F)
  BY <1>1, ConcatPieces
<1>3. \A j \in 1..n : (j < i => Before(C[j], C[i])) /\ (i < j => Before(C[i], C[j]))
  <2> TAKE j \in 1..n
  <2>1. CASE j < i
    <3>1. Before(B[j], B[i]) /\ Before(B[j], F) /\ C[j] = B[j]
      BY <2>1, <1>1
    <3> QED
      BY <3>1, <2>1, ConcatPieces
  <2>2. CASE i < j
    <3>1. Before(B[i], B[j]) /\ Before(F, B[j]) /\ C[j] = B[j]
      BY <2>2, <1>1
    <3> QED
      BY <3>1, <2>2, ConcatPieces
  <2> QED
    BY <2>1, <2>2
<1>4. \A j, k \in 1..n : j < k => Before(C[j], C[k])
  BY <1>1, <1>3
<1>5. InOrder(s, C, n, <<>>, g, w)
  BY <1>1, <1>2, <1>4, EmptyPiece DEF InOrder
<1>6. Complete(s, C, n, <<>>, d, w)
  BY <1>2 DEF Complete, Flow
<1> QED
  BY <1>5, <1>6 DEF Flow

(* A handler is done with its buffer: a part of it is passed down, and the *)
(* rest is discarded.                                                      *)
LEMMA FlowProcess ==
    ASSUME NEW s \in Seq(Token), NEW n \in Nat, NEW B \in [1..n -> Seq(Token)],
           NEW C \in [1..n -> Seq(Token)], NEW F \in Seq(Token), NEW g, NEW d, NEW e,
           NEW w \in Nat, NEW i \in 1..n, Flow(s, B, n, <<>>, g, d, w), C[i] = <<>>,
           \A j \in 1..n : j # i => C[j] = B[j], Prefix(F, B[i]),
           \A t \in d : t \in e, \A t \in Tokens(B[i]) : t \in Tokens(F) \/ t \in e
    PROVE  Flow(s, C, n, F, i - 1, e, w)
<1>1. /\ Inc(s) /\ Upto(s, w)
      /\ \A j \in 1..n : Inc(B[j]) /\ Before(s, B[j]) /\ Upto(B[j], w)
      /\ \A j, k \in 1..n : j < k => Before(B[j], B[k])
  BY DEF Flow, InOrder
<1>2. Inc(F) /\ Before(s, F) /\ Upto(F, w)
  BY <1>1, PrefixPieces
<1>3. \A j \in 1..n : (j < i => Before(B[j], F)) /\ (i < j => Before(F, B[j]))
  BY <1>1, PrefixPieces
<1>4. \A j, k \in 1..n : j < k => Before(C[j], C[k])
  BY <1>1, EmptyPiece
<1>5. \A j \in 1..n : Inc(C[j]) /\ Before(s, C[j]) /\ Upto(C[j], w)
  BY <1>1, EmptyPiece
<1>6. \A j \in 1..n : j <= i - 1 => Before(C[j], F)
  BY <1>3
<1>7. \A j \in 1..n : j > i - 1 => Before(F, C[j])
  <2>1. \A j \in 1..n : j > i - 1 => j = i \/ i < j
    OBVIOUS
  <2>2. Before(F, C[i])
    BY EmptyPiece
  <2> QED
    BY <1>3, <2>1, <2>2
<1>8. InOrder(s, C, n, F, i - 1, w)
  BY <1>1, <1>2, <1>4, <1>5, <1>6, <1>7 DEF InOrder
<1>9. Complete(s, C, n, F, e, w)
  <2> SUFFICES ASSUME NEW t \in 1..w
               PROVE  \/ t \in Tokens(s) \/ t \in Tokens(F) \/ t \in e
                      \/ \E j \in 1..n : t \in Tokens(C[j])
    BY DEF Complete
  <2>1. t \in Tokens(s) \/ t \in d \/ \E j \in 1..n : t \in Tokens(B[j])
    BY EmptyPiece DEF Flow, Complete
  <2> QED
    BY <2>1
<1> QED
  BY <1>8, <1>9 DEF Flow

(* The piece passes a handler that holds nothing.                          *)
LEMMA FlowPass ==
    ASSUME NEW s \in Seq(Token), NEW n \in Nat, NEW B \in [1..n -> Seq(Token)],
           NEW F \in Seq(Token), NEW d, NEW w \in Nat, NEW i \in 1..n,
           Flow(s, B, n, F, i, d, w), B[i] = <<>>
    PROVE  Flow(s, B, n, F, i - 1, d, w)
<1>1. \A j \in 1..n : j <= i - 1 => j <= i
  OBVIOUS
<1>2. \A j \in 1..n : j > i - 1 => j = i \/ j > i
  OBVIOUS
<1> QED
  BY <1>1, <1>2, EmptyPiece DEF Flow, InOrder

(* php_output_direct: the piece leaves.                                    *)
LEMMA FlowOut ==
    ASSUME NEW s \in Seq(Token), NEW n \in Nat, NEW B \in [1..n -> Seq(Token)],
           NEW F \in Seq(Token), NEW d, NEW w \in Nat, Flow(s, B, n, F, 0, d, w),
           NEW g \in 0..n
    PROVE  Flow(s \o F, B, n, <<>>, g, d, w)
<1>1. /\ Inc(s) /\ Upto(s, w) /\ Inc(F) /\ Before(s, F) /\ Upto(F, w)
      /\ \A j \in 1..n : Inc(B[j]) /\ Before(s, B[j]) /\ Upto(B[j], w)
      /\ \A j, k \in 1..n : j < k => Before(B[j], B[k])
      /\ \A j \in 1..n : j > 0 => Before(F, B[j])
  BY DEF Flow, InOrder
<1>2. Inc(s \o F) /\ Upto(s \o F, w) /\ Tokens(s \o F) = Tokens(s) \union Tokens(F)
  BY <1>1, ConcatPieces
<1>3. \A j \in 1..n : Before(s \o F, B[j])
  BY <1>1, ConcatPieces
<1>4. InOrder(s \o F, B, n, <<>>, g, w)
  BY <1>1, <1>2, <1>3, EmptyPiece DEF InOrder
<1>5. Complete(s \o F, B, n, <<>>, d, w)
  BY <1>2 DEF Flow, Complete
<1> QED
  BY <1>4, <1>5 DEF Flow

(* The piece is discarded.                                                 *)
LEMMA FlowDiscard ==
    ASSUME NEW s \in Seq(Token), NEW n \in Nat, NEW B \in [1..n -> Seq(Token)],
           NEW F \in Seq(Token), NEW f, NEW d, NEW e, NEW w \in Nat,
           Flow(s, B, n, F, f, d, w), \A t \in d : t \in e,
           \A t \in Tokens(F) : t \in e, NEW g \in 0..n
    PROVE  Flow(s, B, n, <<>>, g, e, w)
BY EmptyPiece DEF Flow, InOrder, Complete

(* A handler that holds nothing leaves the top of the stack, or joins it.  *)
LEMMA FlowPop ==
    ASSUME NEW s \in Seq(Token), NEW n \in Nat \ {0}, NEW B \in [1..n -> Seq(Token)],
           NEW C \in [1..(n - 1) -> Seq(Token)], NEW F \in Seq(Token), NEW g, NEW d,
           NEW w \in Nat, Flow(s, B, n, F, g, d, w), g <= n - 1,
           B[n] = <<>>, \A j \in 1..(n - 1) : C[j] = B[j]
    PROVE  Flow(s, C, n - 1, F, g, d, w)
<1>1. \A j \in 1..n : j = n \/ j \in 1..(n - 1)
  OBVIOUS
<1>2. \A j \in 1..(n - 1) : j \in 1..n
  OBVIOUS
<1>3. g \in 0..(n - 1)
  BY DEF Flow
<1>4. InOrder(s, C, n - 1, F, g, w)
  BY <1>2 DEF Flow, InOrder
<1>5. Complete(s, C, n - 1, F, d, w)
  BY <1>1, EmptyPiece DEF Flow, Complete
<1> QED
  BY <1>3, <1>4, <1>5 DEF Flow

\* A new handler with an empty buffer leaves the flow as it was.
LEMMA FlowPush ==
    ASSUME NEW s \in Seq(Token), NEW n \in Nat, NEW B \in [1..n -> Seq(Token)],
           NEW C \in [1..(n + 1) -> Seq(Token)], NEW F \in Seq(Token), NEW g, NEW d,
           NEW w \in Nat, Flow(s, B, n, F, g, d, w),
           C[n + 1] = <<>>, \A j \in 1..n : C[j] = B[j]
    PROVE  Flow(s, C, n + 1, F, g, d, w)
<1>1. \A j \in 1..(n + 1) : j = n + 1 \/ j \in 1..n
  OBVIOUS
<1>2. \A j \in 1..n : j \in 1..(n + 1)
  OBVIOUS
<1>3. g \in 0..(n + 1)
  BY DEF Flow
<1>4. InOrder(s, C, n + 1, F, g, w)
  BY <1>1, EmptyPiece DEF Flow, InOrder
<1>5. Complete(s, C, n + 1, F, d, w)
  BY <1>2 DEF Flow, Complete
<1> QED
  BY <1>3, <1>4, <1>5 DEF Flow
-----------------------------------------------------------------------------
(* The stack of calls.                                                     *)

\* Frame g stands for frame f.
Same(f, g) ==
    g.fn = f.fn /\ g.h = f.h /\ (Holding(f) => Holding(g)) /\ (Busy(f) => Busy(g))
Keeps(c, d) ==
    \A k \in 1..Len(c) : Holding(c[k]) \/ Busy(c[k]) =>
        \E m \in 1..Len(d) : Same(c[k], d[m])

\* Keeping calls is transitive.
LEMMA KeepsTwice ==
    ASSUME NEW c, NEW d, NEW e, Keeps(c, d), Keeps(d, e)
    PROVE  Keeps(c, e)
<1> SUFFICES ASSUME NEW k \in 1..Len(c), Holding(c[k]) \/ Busy(c[k])
             PROVE  \E m \in 1..Len(e) : Same(c[k], e[m])
  BY DEF Keeps
<1>1. PICK m \in 1..Len(d) : Same(c[k], d[m])
  BY DEF Keeps
<1>2. PICK l \in 1..Len(e) : Same(d[m], e[l])
  BY <1>1 DEF Keeps, Same
<1>3. Same(c[k], e[l])
  BY <1>1, <1>2 DEF Same
<1> QED
  BY <1>3

(* A call returns.                                                         *)
LEMMA CallsPop ==
    ASSUME NEW c \in Seq(FrameType), NEW ph, c # <<>>, CallsOK(c, ph),
           NEW d, d = SubSeq(c, 1, Len(c) - 1)
    PROVE  /\ d \in Seq(FrameType) /\ CallsOK(d, ph) /\ (AllFrames(c) => AllFrames(d))
           /\ ~Holding(c[Len(c)]) /\ ~Busy(c[Len(c)]) => Keeps(c, d)
           /\ Len(d) = Len(c) - 1 /\ \A k \in 1..Len(d) : d[k] = c[k]
           /\ d # <<>> => Len(d) \in 1..Len(c) /\ Link(d[Len(d)], c[Len(c)])
<1>1. /\ d \in Seq(FrameType) /\ Len(d) = Len(c) - 1 /\ Len(c) \in Nat \ {0}
      /\ \A k \in 1..Len(d) : d[k] = c[k]
  BY FrontFacts
<1>2. \A k \in 1..Len(d) : k \in 1..Len(c) /\ d[k] = c[k]
  BY <1>1
<1>3. CallsOK(d, ph)
  <2>1. \A k \in 1..(Len(d) - 1) : k \in 1..Len(d) /\ k + 1 \in 1..Len(d) /\ k \in 1..(Len(c) - 1)
    BY <1>1
  <2>2. \A k \in 1..(Len(d) - 1) : Link(d[k], d[k + 1])
    BY <2>1, <1>2 DEF CallsOK
  <2>3. Len(d) > 0 => 1 \in 1..Len(d) /\ Len(c) > 0
    BY <1>1
  <2> QED
    BY <2>2, <2>3, <1>2 DEF CallsOK
<1>4. AllFrames(c) => AllFrames(d)
  BY <1>2 DEF AllFrames
<1>5. ASSUME ~Holding(c[Len(c)]), ~Busy(c[Len(c)]) PROVE Keeps(c, d)
  <2> SUFFICES ASSUME NEW k \in 1..Len(c), Holding(c[k]) \/ Busy(c[k])
               PROVE  \E m \in 1..Len(d) : Same(c[k], d[m])
    BY DEF Keeps
  <2>1. k \in 1..Len(d) /\ d[k] = c[k]
    BY <1>5, <1>1
  <2> QED
    BY <2>1 DEF Same
<1>6. d # <<>> => Len(d) \in 1..Len(c) /\ Link(d[Len(d)], c[Len(c)])
  <2> SUFFICES ASSUME d # <<>> PROVE Len(d) \in 1..Len(c) /\ Link(d[Len(d)], c[Len(c)])
    OBVIOUS
  <2>1. Len(d) # 0
    BY <1>1
  <2>2. Len(d) \in 1..(Len(c) - 1) /\ Len(d) + 1 = Len(c)
    BY <2>1, <1>1
  <2> QED
    BY <2>2, <1>1 DEF CallsOK
<1> QED
  BY <1>1, <1>3, <1>4, <1>5, <1>6

\* g may be called at c.
Callable(c, g, ph) ==
    /\ c # <<>> => Link(c[Len(c)], g)
    /\ c = <<>> => g.fn # "handler" /\ (ph = "ending" => g.fn = "endall")
    /\ (\E j \in 1..Len(c) : c[j].fn = "handler") => Nested(g)

(* A call is made.                                                         *)
LEMMA CallsPush ==
    ASSUME NEW c \in Seq(FrameType), NEW g \in FrameType, NEW ph, CallsOK(c, ph),
           Callable(c, g, ph), NEW d, d = Append(c, g)
    PROVE  /\ d \in Seq(FrameType) /\ CallsOK(d, ph) /\ Keeps(c, d)
           /\ AllFrames(c) /\ FrameOK(g) => AllFrames(d)
           /\ Len(d) = Len(c) + 1 /\ d # <<>> /\ d[Len(d)] = g
           /\ \A k \in 1..Len(c) : d[k] = c[k]
<1>1. /\ d \in Seq(FrameType) /\ Len(d) = Len(c) + 1 /\ Len(c) \in Nat
      /\ \A k \in 1..Len(c) : d[k] = c[k]
      /\ d[Len(d)] = g /\ d[Len(c) + 1] = g
  BY AppendFacts
<1>2. \A k \in 1..Len(d) : (k \in 1..Len(c) /\ d[k] = c[k]) \/ (k = Len(d) /\ d[k] = g)
  <2>1. \A k \in 1..Len(d) : k \in 1..Len(c) \/ k = Len(d)
    BY <1>1
  <2> QED
    BY ONLY <1>1, <2>1
<1>3. AllFrames(c) /\ FrameOK(g) => AllFrames(d)
  BY <1>2 DEF AllFrames
<1>4. Keeps(c, d)
  <2>1. \A k \in 1..Len(c) : k \in 1..Len(d) /\ d[k] = c[k]
    BY <1>1
  <2> QED
    BY <2>1 DEF Keeps, Same
<1>5. \A k \in 1..(Len(d) - 1) : Link(d[k], d[k + 1])
  <2> TAKE k \in 1..(Len(d) - 1)
  <2>1. CASE k = Len(c)
    <3>1. c # <<>> /\ d[k] = c[Len(c)] /\ d[k + 1] = g
      BY <2>1, <1>1
    <3> QED
      BY <3>1 DEF Callable
  <2>2. CASE k # Len(c)
    <3>1. k \in 1..(Len(c) - 1) /\ d[k] = c[k] /\ d[k + 1] = c[k + 1]
      BY <2>2, <1>1
    <3> QED
      BY <3>1 DEF CallsOK
  <2> QED
    BY <2>1, <2>2
<1>6. d[1].fn # "handler" /\ (ph = "ending" => d[1].fn = "endall")
  <2>1. CASE c = <<>>
    BY <2>1, <1>1 DEF Callable
  <2>2. CASE c # <<>>
    <3>1. Len(c) > 0 /\ d[1] = c[1]
      BY <2>2, <1>1
    <3> QED
      BY <3>1 DEF CallsOK
  <2> QED
    BY <2>1, <2>2
<1>7. \A j, k \in 1..Len(d) : j < k /\ d[j].fn = "handler" => Nested(d[k])
  <2> TAKE j, k \in 1..Len(d)
  <2> HAVE j < k /\ d[j].fn = "handler"
  <2>1. j \in 1..Len(c) /\ d[j] = c[j]
    BY <1>1
  <2>2. CASE k \in 1..Len(c)
    BY <2>1, <2>2, <1>1 DEF CallsOK
  <2>3. CASE k \notin 1..Len(c)
    <3>1. d[k] = g
      BY <2>3, <1>2
    <3> QED
      BY <2>1, <3>1 DEF Callable
  <2> QED
    BY <2>2, <2>3
<1>8. CallsOK(d, ph)
  BY <1>5, <1>6, <1>7 DEF CallsOK
<1> QED
  BY <1>1, <1>3, <1>4, <1>8

(* The innermost call goes on.                                             *)
LEMMA CallsReplace ==
    ASSUME NEW c \in Seq(FrameType), NEW f \in FrameType, NEW ph, c # <<>>,
           CallsOK(c, ph), f.fn = c[Len(c)].fn, f.ctx.op = c[Len(c)].ctx.op,
           f.fn = "handler" => f.h = c[Len(c)].h /\
               \A j \in 1..(Len(c) - 1) : c[j].fn # "handler",
           NEW d, d = Append(SubSeq(c, 1, Len(c) - 1), f)
    PROVE  /\ d \in Seq(FrameType) /\ CallsOK(d, ph) /\ (AllFrames(c) /\ FrameOK(f) => AllFrames(d))
           /\ Len(d) = Len(c) /\ d # <<>> /\ d[Len(d)] = f
           /\ \A k \in 1..(Len(c) - 1) : d[k] = c[k]
           /\ (Holding(c[Len(c)]) => Holding(f)) /\ (Busy(c[Len(c)]) => Busy(f))
              /\ (Holding(f) \/ Busy(f) => f.h = c[Len(c)].h) => Keeps(c, d)
<1> DEFINE x == c[Len(c)]
<1>0. PICK b : b = SubSeq(c, 1, Len(c) - 1)
  OBVIOUS
<1>1. /\ b \in Seq(FrameType) /\ CallsOK(b, ph) /\ (AllFrames(c) => AllFrames(b))
      /\ Len(b) = Len(c) - 1 /\ \A k \in 1..Len(b) : b[k] = c[k]
      /\ b # <<>> => Len(b) \in 1..Len(c) /\ Link(b[Len(b)], x)
  BY <1>0, CallsPop
<1>2. Len(c) \in Nat \ {0} /\ Len(b) \in Nat /\ x \in FrameType
  BY <1>0, FrontFacts
<1>3. b # <<>> => Link(b[Len(b)], f)
  BY <1>1 DEF Link
<1>4. b = <<>> => f.fn # "handler" /\ (ph = "ending" => f.fn = "endall")
  <2> SUFFICES ASSUME b = <<>> PROVE f.fn # "handler" /\ (ph = "ending" => f.fn = "endall")
    OBVIOUS
  <2>1. Len(c) = 1
    BY <1>1
  <2> QED
    BY <2>1 DEF CallsOK
<1>5. (\E j \in 1..Len(b) : b[j].fn = "handler") => Nested(f)
  <2> SUFFICES ASSUME NEW j \in 1..Len(b), b[j].fn = "handler" PROVE Nested(f)
    OBVIOUS
  <2>1. j \in 1..Len(c) /\ Len(c) \in 1..Len(c) /\ j < Len(c) /\ c[j].fn = "handler"
    BY <1>1, <1>2
  <2>2. Nested(x) /\ j \in 1..(Len(c) - 1)
    BY <2>1 DEF CallsOK
  <2> QED
    BY <2>1, <2>2 DEF Nested
<1>6. d = Append(b, f) /\ Callable(b, f, ph)
  BY <1>0, <1>3, <1>4, <1>5 DEF Callable
<1>7. /\ d \in Seq(FrameType) /\ CallsOK(d, ph) /\ (AllFrames(c) /\ FrameOK(f) => AllFrames(d))
      /\ Len(d) = Len(b) + 1 /\ d # <<>> /\ d[Len(d)] = f
      /\ \A k \in 1..Len(b) : d[k] = b[k]
  <2>1. d \in Seq(FrameType) /\ CallsOK(d, ph) /\ (AllFrames(c) /\ FrameOK(f) => AllFrames(d))
    BY <1>1, <1>6, CallsPush
  <2>2. Len(d) = Len(b) + 1
    BY <1>1, <1>6, CallsPush
  <2>3. d # <<>>
    BY <1>1, <1>6, CallsPush
  <2>4. d[Len(d)] = f
    BY <1>1, <1>6, CallsPush
  <2>5. \A k \in 1..Len(b) : d[k] = b[k]
    BY <1>1, <1>6, CallsPush
  <2> QED
    BY <2>1, <2>2, <2>3, <2>4, <2>5
<1>8. ASSUME Holding(x) => Holding(f), Busy(x) => Busy(f),
             Holding(f) \/ Busy(f) => f.h = x.h
      PROVE  Keeps(c, d)
  <2> SUFFICES ASSUME NEW k \in 1..Len(c), Holding(c[k]) \/ Busy(c[k])
               PROVE  \E m \in 1..Len(d) : Same(c[k], d[m])
    BY DEF Keeps
  <2>0. Len(d) = Len(c) /\ k \in 1..Len(d) /\ (k = Len(c) \/ k \in 1..Len(b))
    BY <1>1, <1>2, <1>7
  <2>1. CASE k = Len(c)
    <3>1. Same(c[k], d[k])
      BY <2>0, <2>1, <1>7, <1>8 DEF Same
    <3> QED
      BY <3>1, <2>0
  <2>2. CASE k \in 1..Len(b)
    <3>1. d[k] = c[k]
      BY <2>2, <1>1, <1>7
    <3> QED
      BY <3>1, <2>0 DEF Same
  <2> QED
    BY <2>0, <2>1, <2>2
<1> QED
  BY <1>1, <1>2, <1>7, <1>8
-----------------------------------------------------------------------------
(* Steps that leave the handlers and the stack alone.                      *)

\* A step that changes no handler keeps the invariant if the calls that go on
\* are well formed and the data still flow.
LEMMA QuietStep ==
    ASSUME Inv, phase \in {"run", "ending"}, UNCHANGED <<globals, hd, bad>>,
           phase' = phase \/ (calls = <<>> /\ phase' = "ending"),
           NEW d \in Seq(FrameType), calls' = d, NEW r \in Res, res' = r,
           CallsOK(d, phase'), AllFrames(d), Keeps(calls, d), Returned(d, r),
           r.status \notin {"success", "failure"} => r.ctx.out = <<>>,
           ~Carries(calls, {"handler"}, "deprecated"),
           phase' = "ending" /\ d = <<>> => active = Null,
           sink' \in Seq(Token), written' \in 0..MaxWrites,
           Flow(sink', Buffers, Len(handlers), Flight(d, r), Gap(d),
                dropped' \union Tokens(Doomed(d, r)), written')
    PROVE  Inv'
<1> USE DEF globals
<1>1. TypeInv /\ ~bad /\ NormalInv
  BY DEF Inv
<1>2. TypeInv'
  BY <1>1 DEF TypeInv, Phases
<1>3. AllFrames(d)' /\ Returned(d, r)'
  BY DEF AllFrames, Returned, FrameOK, OpFrame, HandlerFrame, TakenFrame, CleanAllFrame, OnStack
<1>4. TableInv'
  <2>1. \A h : OnStack(h)' <=> OnStack(h)
    BY DEF OnStack
  <2>2. ASSUME NEW h \in live, Taken(h) PROVE Taken(h)'
    <3>1. PICK k \in 1..Len(calls) : Holding(calls[k]) /\ calls[k].h = h
      BY <2>2 DEF Taken
    <3>2. PICK m \in 1..Len(d) : Same(calls[k], d[m])
      BY <3>1 DEF Keeps
    <3>3. Holding(d[m]) /\ d[m].h = h
      BY <3>1, <3>2 DEF Same
    <3> QED
      BY <3>3 DEF Taken
  <2>3. ASSUME Cut PROVE Cut'
    <3>1. PICK k \in 1..Len(calls) : Holding(calls[k]) /\ calls[k].fn = "flush"
      BY <2>3 DEF Cut
    <3>2. PICK m \in 1..Len(d) : Same(calls[k], d[m])
      BY <3>1 DEF Keeps
    <3>3. Holding(d[m]) /\ d[m].fn = "flush"
      BY <3>1, <3>2 DEF Same
    <3> QED
      BY <3>3 DEF Cut
  <2>4. ASSUME running # Null PROVE \E m \in 1..Len(d) : Busy(d[m]) /\ d[m].h = running
    <3>1. PICK k \in 1..Len(calls) : Busy(calls[k]) /\ calls[k].h = running
      BY <2>4, <1>1 DEF NormalInv, TableInv
    <3>2. PICK m \in 1..Len(d) : Same(calls[k], d[m])
      BY <3>1 DEF Keeps
    <3>3. Busy(d[m]) /\ d[m].h = running
      BY <3>1, <3>2 DEF Same
    <3> QED
      BY <3>3
  <2>5. \A h \in Handler : hd[h].disabled => hd[h].buf = <<>>
    BY <1>1 DEF NormalInv, TableInv
  <2>6. /\ activated /\ (~Cut => active = TopOf(handlers))
        /\ \A h \in live : OnStack(h) \/ Taken(h)
        /\ \A i \in 1..Len(handlers) : handlers[i] \in live /\ hd[handlers[i]].level = i - 1
    BY <1>1 DEF NormalInv, TableInv
  <2>7. (\A h \in live : OnStack(h) \/ Taken(h))'
    BY <2>1, <2>2, <2>6
  <2>8. (~Cut => active = TopOf(handlers))'
    BY <2>3, <2>6
  <2> QED
    BY <2>4, <2>5, <2>6, <2>7, <2>8 DEF TableInv
<1>5. DataInv'
  BY DEF DataInv, Buffers, Gap
<1>6. CallsOK(calls, phase)' /\ AllFrames(calls)' /\ Returned(calls, res)'
  BY <1>3
<1>7. NormalInv'
  BY <1>4, <1>5, <1>6 DEF NormalInv
<1> QED
  BY <1>1, <1>2, <1>7 DEF Inv
-----------------------------------------------------------------------------
(* What a frame carries.                                                   *)

\* g is the innermost call of c.
OnTop(c, g) == c # <<>> /\ c[Len(c)] = g

\* A frame that carries nothing.
Empty(g) ==
    \/ g.fn = "handler" /\ g.at # "enter"
    \/ g.fn = "flush" /\ g.at = "push"
    \/ g.fn = "pop" /\ g.at = "free"
    \/ g.fn = "endall"
    \/ g.fn = "cleanall" /\ g.at = "call"

\* php_output_op carries its input above the handler it comes to, and below all
\* of them its output.
LEMMA CarriedByOp ==
    ASSUME NEW c, NEW r, NEW g, OnTop(c, g), g.fn = "op", g.at = "call"
    PROVE  Flight(c, r) = (IF g.i = 0 THEN g.ctx.out ELSE g.ctx.in) /\ Gap(c) = g.i /\ Doomed(c, r) = <<>>
BY DEF Flight, Gap, Doomed, Carries, OnTop

\* When a handler has returned to php_output_op, its output is in flight below
\* it.
LEMMA CarriedByOpWait ==
    ASSUME NEW c, NEW r, NEW g, OnTop(c, g), g.fn = "op", g.at = "wait"
    PROVE  Flight(c, r) = r.ctx.out /\ Gap(c) = g.i - 1 /\ Doomed(c, r) = <<>>
BY DEF Flight, Gap, Doomed, Carries, OnTop

\* php_output_handler_op carries its input above its handler.
LEMMA CarriedByEnter ==
    ASSUME NEW c, NEW r, NEW g, OnTop(c, g), g.fn = "handler", g.at = "enter"
    PROVE  Flight(c, r) = g.ctx.in /\ Gap(c) = hd[g.h].level + 1 /\ Doomed(c, r) = <<>>
BY DEF Flight, Gap, Doomed, Carries, OnTop

\* What the top handler returned to flush or pop is in flight below it.
LEMMA CarriedByTaken ==
    ASSUME NEW c, NEW r, NEW g, OnTop(c, g), g.fn \in {"flush", "pop"}, g.at = "wait"
    PROVE  Flight(c, r) = r.ctx.out /\ Gap(c) = Len(handlers) - 1 /\ Doomed(c, r) = <<>>
BY DEF Flight, Gap, Doomed, Carries, OnTop

\* What flush or pop is about to write is in flight above the stack.
LEMMA CarriedByWrite ==
    ASSUME NEW c, NEW r, NEW g, OnTop(c, g), g.fn \in {"flush", "pop"}, g.at = "write"
    PROVE  Flight(c, r) = g.ctx.out /\ Gap(c) = Len(handlers) /\ Doomed(c, r) = <<>>
BY DEF Flight, Gap, Doomed, Carries, OnTop

\* What a handler returned to a clean is about to be discarded.
LEMMA CarriedByClean ==
    ASSUME NEW c, NEW r, NEW g, OnTop(c, g), g.fn \in {"clean", "cleanall"}, g.at = "wait"
    PROVE  Flight(c, r) = <<>> /\ Gap(c) = 0 /\ Doomed(c, r) = r.ctx.out
BY DEF Flight, Gap, Doomed, Carries, OnTop

\* All other frames carry nothing.
LEMMA CarriedByEmpty ==
    ASSUME NEW c, NEW r, NEW g, OnTop(c, g), Empty(g)
    PROVE  Flight(c, r) = <<>> /\ Gap(c) = 0 /\ Doomed(c, r) = <<>>
BY DEF Flight, Gap, Doomed, Carries, OnTop, Empty

\* Without a call nothing is in flight.
LEMMA CarriedByNone ==
    ASSUME NEW r
    PROVE  Flight(<<>>, r) = <<>> /\ Gap(<<>>) = 0 /\ Doomed(<<>>, r) = <<>>
BY DEF Flight, Gap, Doomed, Carries

\* The fields of a new frame.
LEMMA FrameFields ==
    ASSUME NEW fn, NEW h, NEW ctx, NEW i, NEW at, NEW flags,
           NEW f, f = Frame(fn, h, ctx, i, at, flags)
    PROVE  /\ f.fn = fn /\ f.h = h /\ f.ctx = ctx /\ f.i = i /\ f.at = at
           /\ f.flags = flags /\ f.ret = NoResult
BY DEF Frame

\* A new frame has its type.
LEMMA FrameTyped ==
    ASSUME NEW fn \in {"op", "handler", "flush", "clean", "cleanall", "pop", "endall"},
           NEW h \in HandlerOrNull, NEW ctx \in Ctx, NEW i \in Nat, NEW flags \in BOOLEAN,
           NEW at \in {"call", "wait", "enter", "write", "push", "free", "loop"}
    PROVE  Frame(fn, h, ctx, i, at, flags) \in FrameType
<1>1. <<>> \in Seq(Token)
  OBVIOUS
<1>2. NoResult \in Res
  BY <1>1 DEF NoResult, Nothing, Context, Res, Ctx
<1> QED
  BY <1>2 DEF Frame, FrameType

\* The fields of a new context, and of the empty context and result.
LEMMA ContextFields ==
    ASSUME NEW op \in {"write", "flush", "clean", "final"}, NEW in \in Seq(Token)
    PROVE  /\ Context(op, in) \in Ctx /\ Context(op, in).op = op
           /\ Context(op, in).in = in /\ Context(op, in).out = <<>>
           /\ [Context(op, <<>>) EXCEPT !.out = in] \in Ctx
           /\ [Context(op, <<>>) EXCEPT !.out = in].op = op
           /\ [Context(op, <<>>) EXCEPT !.out = in].out = in
           /\ Nothing \in Ctx /\ Nothing.out = <<>> /\ Nothing.in = <<>>
           /\ NoResult \in Res /\ NoResult.status = "none" /\ NoResult.ctx.out = <<>>
<1>1. <<>> \in Seq(Token)
  OBVIOUS
<1>2. /\ Context(op, in) \in Ctx /\ Context(op, in).op = op
      /\ Context(op, in).in = in /\ Context(op, in).out = <<>>
  BY <1>1 DEF Context, Ctx
<1>3. /\ [Context(op, <<>>) EXCEPT !.out = in] \in Ctx
      /\ [Context(op, <<>>) EXCEPT !.out = in].op = op
      /\ [Context(op, <<>>) EXCEPT !.out = in].out = in
  BY <1>1 DEF Context, Ctx
<1>4. Nothing \in Ctx /\ Nothing.out = <<>> /\ Nothing.in = <<>>
  BY <1>1 DEF Context, Ctx, Nothing
<1>5. NoResult \in Res /\ NoResult.status = "none" /\ NoResult.ctx.out = <<>>
  BY <1>4 DEF NoResult, Res
<1> QED
  BY <1>2, <1>3, <1>4, <1>5

\* The fields of a result.
LEMMA ResultFields ==
    ASSUME NEW status, NEW ctx
    PROVE  /\ Result(status, ctx).status = status /\ Result(status, ctx).ctx = ctx
           /\ ctx \in Ctx /\ status \in {"none", "success", "failure", "nodata", "refused", "popped"}
              => Result(status, ctx) \in Res
BY DEF Result, Res

(* What is at hand in a normal state.                                      *)
LEMMA NormalFacts ==
    ASSUME Inv, phase \in {"run", "ending"}
    PROVE  /\ TypeInv /\ ~bad /\ NormalInv
           /\ CallsOK(calls, phase) /\ AllFrames(calls) /\ Returned(calls, res)
           /\ TableInv /\ DataInv
           /\ Len(handlers) \in Nat /\ written \in Nat /\ sink \in Seq(Token)
           /\ Buffers \in [1..Len(handlers) -> Seq(Token)]
           /\ \A i \in 1..Len(handlers) : handlers[i] \in Handler
                                          /\ Buffers[i] = hd[handlers[i]].buf
           /\ \A h \in Handler : hd[h].buf \in Seq(Token) /\ hd[h].level \in Nat
                                 /\ hd[h] \in HandlerType
           /\ Len(calls) \in Nat /\ res.ctx \in Ctx
           /\ calls # <<>> => /\ Len(calls) \in 1..Len(calls) /\ Top \in FrameType
                              /\ FrameOK(Top)
<1>1. TypeInv /\ ~bad /\ NormalInv
  BY DEF Inv
<1>2. \A i \in 1..Len(handlers) : handlers[i] \in Handler
  BY <1>1 DEF TypeInv
<1>3. \A h \in Handler : hd[h].buf \in Seq(Token) /\ hd[h].level \in Nat /\ hd[h] \in HandlerType
  BY <1>1 DEF TypeInv, HandlerType
<1>4. calls # <<>> => Len(calls) \in 1..Len(calls) /\ Top \in FrameType
  BY <1>1 DEF TypeInv, Top
<1>5. calls # <<>> => FrameOK(Top)
  BY <1>1, <1>4 DEF NormalInv, AllFrames, Top
<1>6. Buffers \in [1..Len(handlers) -> Seq(Token)]
  BY <1>2, <1>3 DEF Buffers
<1>7. \A i \in 1..Len(handlers) : Buffers[i] = hd[handlers[i]].buf
  BY DEF Buffers
<1>8. Len(handlers) \in Nat /\ written \in Nat /\ sink \in Seq(Token) /\ Len(calls) \in Nat
      /\ res.ctx \in Ctx
  BY <1>1, SizeAssumption DEF TypeInv, Res
<1> QED
  BY <1>1, <1>2, <1>3, <1>4, <1>5, <1>6, <1>7, <1>8 DEF NormalInv

(* The calls of the program are the outermost ones.                        *)
LEMMA Positions ==
    ASSUME NEW c \in Seq(FrameType), NEW ph, CallsOK(c, ph), NEW k \in 1..Len(c)
    PROVE  /\ c[k].fn \in {"flush", "clean", "cleanall", "endall"} => k = 1
           /\ c[k].fn = "pop" => k = 1 \/ (k = 2 /\ c[1].fn = "endall")
           /\ k # 1 => Link(c[k - 1], c[k])
<1>0. Len(c) \in Nat
  OBVIOUS
<1>1. ASSUME NEW m \in 1..Len(c), m # 1 PROVE Link(c[m - 1], c[m])
  <2>1. m - 1 \in 1..(Len(c) - 1) /\ (m - 1) + 1 = m
    BY <1>0, <1>1
  <2> QED
    BY <2>1 DEF CallsOK
<1>2. \A m \in 1..Len(c) : c[m].fn \in {"flush", "clean", "cleanall", "endall"} => m = 1
  BY <1>1 DEF Link
<1>3. ASSUME c[k].fn = "pop", k # 1 PROVE k = 2 /\ c[1].fn = "endall"
  <2>1. c[k - 1].fn = "endall" /\ k - 1 \in 1..Len(c)
    BY <1>0, <1>1, <1>3 DEF Link
  <2>2. k - 1 = 1
    BY <2>1, <1>2
  <2> QED
    BY <2>1, <2>2
<1> QED
  BY <1>1, <1>2, <1>3

(* A handler returns with result r.                                        *)
LEMMA HandlerReturns ==
    ASSUME Inv, phase \in {"run", "ending"}, calls # <<>>, Top.fn = "handler",
           NEW r, NEW d, d = Pop
    PROVE  /\ d # <<>> /\ OnStack(Top.h)
           /\ \/ /\ Flight(d, r) = r.ctx.out /\ Gap(d) = hd[Top.h].level
                 /\ Doomed(d, r) = <<>>
              \/ Flight(d, r) = <<>> /\ Gap(d) = 0 /\ Doomed(d, r) = r.ctx.out
           /\ Carries(d, {"flush", "pop"}, "wait") => d[Len(d)].h = Top.h
           /\ Carries(d, {"op"}, "wait") => d[Len(d)].ctx.op = Top.ctx.op
           /\ ~Carries(d, {"handler"}, "deprecated")
<1>0. /\ CallsOK(calls, phase) /\ AllFrames(calls) /\ TableInv /\ TypeInv
      /\ calls \in Seq(FrameType) /\ FrameOK(Top) /\ Len(calls) \in Nat
  BY NormalFacts DEF TypeInv
<1>1. /\ d \in Seq(FrameType) /\ Len(d) = Len(calls) - 1 /\ AllFrames(d)
      /\ d # <<>> => Link(d[Len(d)], Top)
  BY <1>0, CallsPop DEF Pop, Top
<1>2. d # <<>>
  <2>1. Len(calls) > 0 /\ calls[1].fn # "handler"
    BY <1>0 DEF CallsOK
  <2>2. Len(calls) # 1
    BY <2>1 DEF Top
  <2> QED
    BY <2>1, <2>2, <1>1, <1>0
<1>3. PICK g : g = d[Len(d)]
  OBVIOUS
<1>4. OnStack(Top.h)
  BY <1>0 DEF FrameOK, HandlerFrame
<1>5. FrameOK(g) /\ Link(g, Top)
  <2>1. Len(d) \in 1..Len(d)
    BY <1>1, <1>2
  <2> QED
    BY <2>1, <1>1, <1>2, <1>3 DEF AllFrames
<1>6. hd[Top.h].level \in Nat /\ Top.h \in Handler
  BY <1>4, NormalFacts DEF OnStack
<1>7. CASE g.fn = "op" /\ g.at = "wait" /\ g.h = Top.h
  <2>1. g.i >= 1 /\ g.i <= Len(handlers) /\ handlers[g.i] = Top.h /\ g.i \in Nat
    <3>1. OpFrame(g) /\ g \in FrameType
      BY <1>5, <1>7, <1>1, <1>2, <1>3 DEF FrameOK
    <3> QED
      BY <3>1, <1>7 DEF OpFrame, FrameType
  <2>2. hd[Top.h].level = g.i - 1
    BY <2>1, <1>0 DEF TableInv
  <2> QED
    <3>1. g.ctx.op = Top.ctx.op
      BY <1>5, <1>7 DEF Link
    <3>2. Flight(d, r) = r.ctx.out /\ Gap(d) = g.i - 1 /\ Doomed(d, r) = <<>>
      BY <1>2, <1>3, <1>7, CarriedByOpWait DEF OnTop
    <3> QED
      BY <2>2, <3>1, <3>2, <1>2, <1>3, <1>4, <1>7 DEF Carries
<1>8. CASE g.fn \in {"flush", "pop"} /\ g.at = "wait" /\ g.h = Top.h
  <2>1. TakenFrame(g)
    BY <1>5, <1>8 DEF FrameOK
  <2>2. handlers # <<>> /\ Top.h = active
    BY <2>1, <1>8 DEF TakenFrame
  <2>3. ~Cut
    <3> SUFFICES ASSUME NEW k \in 1..Len(calls), Holding(calls[k]), calls[k].fn = "flush"
                 PROVE  FALSE
      BY DEF Cut
    <3>1. k = 1
      BY <1>0, Positions
    <3>2. Len(d) \in 1..Len(calls) /\ g = calls[Len(d)]
      BY <1>0, <1>1, <1>2, <1>3, CallsPop DEF Pop
    <3>3. Len(d) = 1 \/ (Len(d) = 2 /\ g.fn = "pop" /\ calls[1].fn = "endall")
      BY <3>2, <1>8, <1>0, Positions
    <3> QED
      BY <3>1, <3>2, <3>3, <1>8 DEF Holding
  <2>4. Top.h = handlers[Len(handlers)] /\ Len(handlers) \in 1..Len(handlers)
    <3>1. active = TopOf(handlers)
      BY <2>3, <1>0 DEF TableInv
    <3>2. handlers \in Seq(Handler)
      BY <1>0 DEF TypeInv
    <3> QED
      BY <3>1, <3>2, <2>2 DEF TopOf, Last
  <2>5. hd[Top.h].level = Len(handlers) - 1
    BY <2>4, <1>0 DEF TableInv
  <2> QED
    BY <2>5, <1>2, <1>3, <1>4, <1>8, CarriedByTaken DEF Carries, OnTop
<1>9. CASE g.fn \in {"clean", "cleanall"} /\ g.at = "wait"
  BY <1>9, <1>2, <1>3, <1>4, CarriedByClean DEF Carries, OnTop
<1> QED
  BY <1>5, <1>7, <1>8, <1>9 DEF Link

(* A flush at work is the outermost call.                                  *)
LEMMA NotCut ==
    ASSUME Inv, phase \in {"run", "ending"}, calls # <<>> => Top.fn \in {"pop", "endall"}
    PROVE  active = TopOf(handlers) /\ (active = Null <=> handlers = <<>>)
           /\ (handlers # <<>> => /\ active = handlers[Len(handlers)] /\ active \in live
                                  /\ Len(handlers) \in 1..Len(handlers)
                                  /\ hd[active].level = Len(handlers) - 1)
<1>0. TypeInv /\ TableInv /\ CallsOK(calls, phase) /\ calls \in Seq(FrameType) /\ Len(calls) \in Nat
  BY NormalFacts DEF TypeInv
<1>1. ~Cut
  <2> SUFFICES ASSUME NEW k \in 1..Len(calls), Holding(calls[k]), calls[k].fn = "flush"
               PROVE  FALSE
    BY DEF Cut
  <2>1. k = 1 /\ Len(calls) \in 1..Len(calls) /\ calls # <<>>
    BY <1>0, Positions
  <2>2. Len(calls) = 1 \/ (Len(calls) = 2 /\ calls[1].fn = "endall")
    BY <2>1, <1>0, Positions DEF Top
  <2> QED
    BY <2>1, <2>2 DEF Top
<1>2. active = TopOf(handlers)
  BY <1>0, <1>1 DEF TableInv
<1>3. handlers \in Seq(Handler) /\ Null \notin Handler
  BY <1>0, HandlerAssumption DEF TypeInv
<1>4. handlers # <<>> => active = handlers[Len(handlers)] /\ Len(handlers) \in 1..Len(handlers)
  BY <1>2, <1>3 DEF TopOf, Last
<1>5. active = Null <=> handlers = <<>>
  BY <1>2, <1>3, <1>4 DEF TopOf
<1> QED
  BY <1>0, <1>2, <1>4, <1>5 DEF TableInv

(* Any other call returns: its caller carries nothing.                     *)
LEMMA PlainReturns ==
    ASSUME Inv, phase \in {"run", "ending"}, calls # <<>>, Top.fn # "handler",
           NEW r, NEW d, d = Pop
    PROVE  /\ Flight(d, r) = <<>> /\ Gap(d) = 0 /\ Doomed(d, r) = <<>> /\ Returned(d, r)
           /\ d \in Seq(FrameType) /\ CallsOK(d, phase) /\ AllFrames(d)
           /\ ~Holding(Top) => Keeps(calls, d)
           /\ d = <<>> \/ Top.fn \in {"op", "pop"}
           /\ d = <<>> /\ phase = "ending" => Top.fn = "endall"
<1>0. /\ CallsOK(calls, phase) /\ AllFrames(calls) /\ calls \in Seq(FrameType)
      /\ Len(calls) \in Nat /\ Len(calls) \in 1..Len(calls)
  BY NormalFacts DEF TypeInv
<1>1. d \in Seq(FrameType) /\ CallsOK(d, phase) /\ AllFrames(d) /\ Len(d) = Len(calls) - 1
  BY <1>0, CallsPop DEF Pop
<1>2. ~Holding(Top) => Keeps(calls, d)
  BY <1>0, CallsPop DEF Pop, Top, Busy
<1>3. d # <<>> => Link(d[Len(d)], Top)
  BY <1>0, CallsPop DEF Pop, Top
<1>4. d = <<>> /\ phase = "ending" => Top.fn = "endall"
  <2> SUFFICES ASSUME d = <<>>, phase = "ending" PROVE Top.fn = "endall"
    OBVIOUS
  <2>1. Len(calls) = 1
    BY <1>0, <1>1
  <2>2. calls[1].fn = "endall"
    BY <2>1, <1>0 DEF CallsOK
  <2> QED
    BY <2>1, <2>2 DEF Top
<1>5. CASE d = <<>>
  BY <1>1, <1>2, <1>4, <1>5, CarriedByNone DEF Returned, Carries
<1>6. CASE d # <<>>
  <2>1. PICK g : g = d[Len(d)]
    OBVIOUS
  <2>2. /\ Empty(g) /\ Top.fn \in {"op", "pop"}
        /\ ~(g.fn \in {"op", "flush", "pop"} /\ g.at = "wait")
    BY <1>3, <1>6, <2>1 DEF Link, Empty
  <2>3. Flight(d, r) = <<>> /\ Gap(d) = 0 /\ Doomed(d, r) = <<>>
    BY <2>1, <2>2, <1>6, CarriedByEmpty DEF OnTop
  <2>4. Returned(d, r)
    BY <2>1, <2>2 DEF Returned, Carries
  <2> QED
    BY <2>2, <2>3, <2>4, <1>1, <1>2, <1>6
<1> QED
  BY <1>5, <1>6
-----------------------------------------------------------------------------
(* Calls that go on, and calls that are made.                              *)

\* The stack of calls d may follow.
Follows(d) ==
    /\ d \in Seq(FrameType) /\ CallsOK(d, phase) /\ AllFrames(d) /\ Keeps(calls, d)

\* The innermost call, not one of a handler, goes on as f.
GoesOn(f) ==
    /\ f \in FrameType /\ FrameOK(f) /\ f.fn = Top.fn /\ f.ctx.op = Top.ctx.op
    /\ f.fn # "handler" /\ (Holding(Top) => Holding(f)) /\ (Holding(f) => f.h = Top.h)

\* If the innermost call goes on with frame f, the calls stay well formed.
LEMMA Continue ==
    ASSUME Inv, phase \in {"run", "ending"}, calls # <<>>, NEW f, GoesOn(f),
           NEW d, d = Becomes(f)
    PROVE  /\ Follows(d) /\ OnTop(d, f) /\ Len(d) = Len(calls)
           /\ \A k \in 1..(Len(calls) - 1) : d[k] = calls[k]
<1>1. calls \in Seq(FrameType) /\ CallsOK(calls, phase) /\ AllFrames(calls)
  BY NormalFacts DEF TypeInv
<1>2. d = Append(SubSeq(calls, 1, Len(calls) - 1), f)
  BY DEF Becomes, Pop
<1>3. /\ f \in FrameType /\ FrameOK(f) /\ f.fn = calls[Len(calls)].fn /\ f.fn # "handler"
      /\ f.ctx.op = calls[Len(calls)].ctx.op
  BY DEF GoesOn, Top
<1>4. /\ d \in Seq(FrameType) /\ CallsOK(d, phase) /\ AllFrames(d)
      /\ Len(d) = Len(calls) /\ OnTop(d, f)
      /\ \A k \in 1..(Len(calls) - 1) : d[k] = calls[k]
  <2>1. d \in Seq(FrameType) /\ CallsOK(d, phase) /\ AllFrames(d)
    BY <1>1, <1>2, <1>3, CallsReplace
  <2>2. Len(d) = Len(calls)
    <3>1. /\ SubSeq(calls, 1, Len(calls) - 1) \in Seq(FrameType)
          /\ Len(SubSeq(calls, 1, Len(calls) - 1)) = Len(calls) - 1 /\ Len(calls) \in Nat
      BY <1>1, FrontFacts
    <3> QED
      BY <3>1, <1>2, <1>3, AppendFacts
  <2>5. d # <<>>
    BY <2>2, <1>1, NoElements
  <2>3. d[Len(d)] = f
    BY <1>1, <1>2, <1>3, CallsReplace
  <2>4. \A k \in 1..(Len(calls) - 1) : d[k] = calls[k]
    BY <1>1, <1>2, <1>3, CallsReplace
  <2> QED
    BY <2>1, <2>2, <2>3, <2>4, <2>5 DEF OnTop
<1>5. Keeps(calls, d)
  <2>1. ~Busy(Top) /\ ~Busy(f)
    BY DEF Busy, GoesOn
  <2> QED
    BY <2>1, <1>1, <1>2, <1>3, CallsReplace DEF GoesOn, Top
<1> QED
  BY <1>4, <1>5 DEF Follows

(* And calls g.                                                            *)
LEMMA ContinueAndCall ==
    ASSUME Inv, phase \in {"run", "ending"}, calls # <<>>, NEW f, GoesOn(f),
           NEW g \in FrameType, FrameOK(g), Link(f, g),
           Top.fn = "op" => g.fn = "handler" /\ g.at = "enter" /\ g.ctx.op = Top.ctx.op,
           NEW d, d = Append(Becomes(f), g)
    PROVE  Follows(d) /\ OnTop(d, g)
<1>1. PICK b : b = Becomes(f)
  OBVIOUS
<1>2. /\ Follows(b) /\ OnTop(b, f) /\ Len(b) = Len(calls)
      /\ \A k \in 1..(Len(calls) - 1) : b[k] = calls[k]
  BY <1>1, Continue
<1>3. /\ calls \in Seq(FrameType) /\ CallsOK(calls, phase) /\ Len(calls) \in Nat
      /\ Len(calls) \in 1..Len(calls)
  BY NormalFacts DEF TypeInv
<1>4. ASSUME NEW j \in 1..Len(b), b[j].fn = "handler" PROVE Nested(g)
  <2>1. j # Len(calls)
    BY <1>2, <1>4 DEF GoesOn, OnTop
  <2>2. j \in 1..(Len(calls) - 1)
    BY <2>1, <1>2, <1>3
  <2>3. j \in 1..Len(calls) /\ j < Len(calls) /\ calls[j].fn = "handler"
    BY <2>2, <1>2, <1>3, <1>4
  <2>4. Nested(Top)
    BY <2>3, <1>3 DEF CallsOK, Top
  <2>5. Top.fn = "op"
    BY <2>4 DEF Nested, GoesOn
  <2> QED
    BY <2>4, <2>5 DEF Nested
<1>5. Callable(b, g, phase)
  BY <1>2, <1>4 DEF Callable, OnTop
<1>6. d = Append(b, g) /\ b \in Seq(FrameType) /\ CallsOK(b, phase) /\ AllFrames(b)
  BY <1>1, <1>2 DEF Follows
<1>7. d \in Seq(FrameType) /\ CallsOK(d, phase) /\ AllFrames(d)
  BY <1>5, <1>6, CallsPush
<1>8. Keeps(b, d)
  BY <1>5, <1>6, CallsPush
<1>9. OnTop(d, g)
  <2>1. d # <<>>
    BY <1>5, <1>6, CallsPush
  <2>2. d[Len(d)] = g
    BY <1>5, <1>6, CallsPush
  <2> QED
    BY <2>1, <2>2 DEF OnTop
<1>10. Keeps(calls, d)
  BY <1>2, <1>8, KeepsTwice DEF Follows
<1> QED
  BY <1>7, <1>9, <1>10 DEF Follows

(* A call g of the program, of a callback, or of the loop of end_all.      *)
LEMMA CallMade ==
    ASSUME Inv, phase \in {"run", "ending"}, NEW g \in FrameType, FrameOK(g),
           \/ calls = <<>> /\ g.fn # "handler" /\ phase = "run"
           \/ calls # <<>> /\ Top.fn = "handler" /\ Link(Top, g) /\ Nested(g)
           \/ calls # <<>> /\ Top.fn \in {"endall", "pop", "flush", "clean"} /\ Link(Top, g),
           NEW d, d = Append(calls, g)
    PROVE  Follows(d) /\ OnTop(d, g)
<1>1. /\ calls \in Seq(FrameType) /\ CallsOK(calls, phase) /\ AllFrames(calls)
      /\ Len(calls) \in Nat /\ (calls # <<>> => Len(calls) \in 1..Len(calls))
  BY NormalFacts DEF TypeInv
<1>2. ASSUME NEW j \in 1..Len(calls), calls[j].fn = "handler" PROVE Nested(g)
  <2>1. calls # <<>>
    OBVIOUS
  <2>2. CASE j = Len(calls)
    BY <2>1, <2>2, <1>2 DEF Top
  <2>3. CASE j # Len(calls)
    <3>1. j < Len(calls) /\ Len(calls) \in 1..Len(calls)
      BY <2>1, <2>3, <1>1
    <3>2. Nested(Top)
      BY <3>1, <1>1, <1>2 DEF CallsOK, Top
    <3> QED
      BY <2>1, <3>2 DEF Nested
  <2> QED
    BY <2>2, <2>3
<1>3. Callable(calls, g, phase)
  <2>1. calls # <<>> => Link(calls[Len(calls)], g)
    BY DEF Top
  <2> QED
    BY <2>1, <1>2 DEF Callable
<1>4. d \in Seq(FrameType) /\ CallsOK(d, phase) /\ AllFrames(d)
  BY <1>1, <1>3, CallsPush
<1>5. Keeps(calls, d)
  BY <1>1, <1>3, CallsPush
<1>6. OnTop(d, g)
  <2>1. d # <<>>
    BY <1>1, <1>3, CallsPush
  <2>2. d[Len(d)] = g
    BY <1>1, <1>3, CallsPush
  <2> QED
    BY <2>1, <2>2 DEF OnTop
<1> QED
  BY <1>4, <1>5, <1>6 DEF Follows

(* A call f of the program or of the loop of end_all that runs a handler.  *)
LEMMA TwoCallsMade ==
    ASSUME Inv, phase \in {"run", "ending"}, NEW f \in FrameType, FrameOK(f),
           NEW g \in FrameType, FrameOK(g), g.fn = "handler", Link(f, g), f.fn # "handler",
           \/ calls = <<>> /\ phase = "run"
           \/ calls # <<>> /\ Top.fn = "endall" /\ Link(Top, f),
           NEW d, d = Append(Append(calls, f), g)
    PROVE  Follows(d) /\ OnTop(d, g)
<1>1. PICK b : b = Append(calls, f)
  OBVIOUS
<1>2. Follows(b) /\ OnTop(b, f)
  BY <1>1, CallMade
<1>3. /\ calls \in Seq(FrameType) /\ CallsOK(calls, phase) /\ Len(calls) \in Nat
      /\ (calls # <<>> => Len(calls) \in 1..Len(calls))
  BY NormalFacts DEF TypeInv
<1>4. ASSUME NEW j \in 1..Len(b) PROVE b[j].fn # "handler"
  <2>1. CASE j = Len(b)
    BY <2>1, <1>2 DEF OnTop
  <2>2. CASE j # Len(b)
    <3>1. j \in 1..Len(calls) /\ b[j] = calls[j] /\ calls # <<>>
      <4>1. Len(b) = Len(calls) + 1 /\ \A k \in 1..Len(calls) : b[k] = calls[k]
        BY <1>1, <1>3, AppendFacts
      <4>2. j \in 1..Len(calls)
        BY <4>1, <2>2, <1>3
      <4> QED
        BY <4>1, <4>2
    <3>2. Len(calls) = 1
      BY <3>1, <1>3, Positions DEF Top
    <3> QED
      BY <3>1, <3>2 DEF Top
  <2> QED
    BY <2>1, <2>2
<1>5. Callable(b, g, phase)
  BY <1>2, <1>4 DEF Callable, OnTop
<1>6. d = Append(b, g) /\ b \in Seq(FrameType) /\ CallsOK(b, phase) /\ AllFrames(b)
  BY <1>1, <1>2 DEF Follows
<1>7. d \in Seq(FrameType) /\ CallsOK(d, phase) /\ AllFrames(d)
  BY <1>5, <1>6, CallsPush
<1>8. Keeps(b, d)
  BY <1>5, <1>6, CallsPush
<1>9. OnTop(d, g)
  <2>1. d # <<>>
    BY <1>5, <1>6, CallsPush
  <2>2. d[Len(d)] = g
    BY <1>5, <1>6, CallsPush
  <2> QED
    BY <2>1, <2>2 DEF OnTop
<1>10. Keeps(calls, d)
  BY <1>2, <1>8, KeepsTwice DEF Follows
<1> QED
  BY <1>7, <1>9, <1>10 DEF Follows

\* The calls go on with d and the result r.
GoesTo(d, r) ==
    /\ calls' = d /\ res' = r /\ Follows(d) /\ r \in Res /\ Returned(d, r)
    /\ r.status \notin {"success", "failure"} => r.ctx.out = <<>>
    /\ phase = "ending" /\ d = <<>> => active = Null
    /\ UNCHANGED <<globals, hd, bad, phase>>
Carried(d, r, F, gap, D) == Flight(d, r) = F /\ Gap(d) = gap /\ Doomed(d, r) = D
FlowsOn(F, gap, D) ==
    /\ sink' \in Seq(Token) /\ written' \in 0..MaxWrites
    /\ Flow(sink', Buffers, Len(handlers), F, gap, dropped' \union Tokens(D), written')

(* A quiet step in these terms.                                            *)
LEMMA QuietCall ==
    ASSUME Inv, phase \in {"run", "ending"}, ~Carries(calls, {"handler"}, "deprecated"),
           NEW d, NEW r, GoesTo(d, r), NEW F, NEW gap, NEW D, Carried(d, r, F, gap, D),
           FlowsOn(F, gap, D)
    PROVE  Inv'
BY QuietStep DEF Follows, GoesTo, Carried, FlowsOn

(* And one that leaves the data where it is.                               *)
LEMMA StillFlows ==
    ASSUME Inv, phase \in {"run", "ending"}, UNCHANGED <<sink, dropped, written>>,
           NEW F, NEW gap, NEW D,
           Flow(sink, Buffers, Len(handlers), F, gap, dropped \union Tokens(D), written)
    PROVE  FlowsOn(F, gap, D)
<1>1. sink \in Seq(Token) /\ written \in 0..MaxWrites
  BY NormalFacts DEF TypeInv
<1> QED
  BY <1>1 DEF FlowsOn

(* The result of a call that has none.                                     *)
LEMMA NoResultFacts ==
    NoResult \in Res /\ NoResult.ctx.out = <<>> /\ NoResult.status = "none"
BY ContextFields, NoElements

\* The empty context carries nothing.
LEMMA NothingFacts ==
    Nothing \in Ctx /\ Nothing.out = <<>> /\ Nothing.in = <<>>
BY ContextFields, NoElements

(* What the invariant says of the data, for the lemmas about it.           *)
LEMMA DataFacts ==
    ASSUME Inv, phase \in {"run", "ending"}
    PROVE  /\ sink \in Seq(Token) /\ Len(handlers) \in Nat /\ written \in Nat
           /\ Buffers \in [1..Len(handlers) -> Seq(Token)]
           /\ 0 \in 0..Len(handlers) /\ Len(handlers) \in 0..Len(handlers)
           /\ Flow(sink, Buffers, Len(handlers), Flight(calls, res), Gap(calls),
                   dropped \union Tokens(Doomed(calls, res)), written)
           /\ written \in 0..MaxWrites /\ res \in Res /\ res.ctx \in Ctx
           /\ res.ctx.out \in Seq(Token) /\ res.ctx.in \in Seq(Token)
           /\ res.status \notin {"success", "failure"} => res.ctx.out = <<>>
<1>1. Len(handlers) \in Nat
  BY NormalFacts
<1> QED
  BY <1>1, NormalFacts DEF TypeInv, TableInv, DataInv, Ctx
-----------------------------------------------------------------------------
(* The walk of php_output_op down the stack.                               *)

\* php_output_op has passed the last handler and writes to the sink.
LEMMA OpEndsStep ==
    ASSUME Inv, phase \in {"run", "ending"}, In("op", "call"), Top.i = 0, OpEnds(Top.ctx)
    PROVE  Inv'
<1>0. calls # <<>> /\ Top.fn = "op" /\ Top.at = "call"
  BY DEF In
<1>1. PICK d : d = Pop
  OBVIOUS
<1>2. /\ calls' = d /\ res' = NoResult /\ sink' = sink \o Top.ctx.out
      /\ UNCHANGED <<globals, hd, rest>>
  BY <1>1 DEF OpEnds
<1>3. /\ Flight(d, NoResult) = <<>> /\ Gap(d) = 0 /\ Doomed(d, NoResult) = <<>>
      /\ Returned(d, NoResult) /\ Follows(d) /\ ~(d = <<>> /\ phase = "ending")
  BY <1>0, <1>1, PlainReturns DEF Holding, Follows
<1>4. Flight(calls, res) = Top.ctx.out /\ Gap(calls) = 0 /\ Doomed(calls, res) = <<>>
  BY <1>0, CarriedByOp DEF Top, OnTop
<1>5. Top.ctx.out \in Seq(Token)
  BY <1>0, NormalFacts DEF FrameType, Ctx
<1>6. Flow(sink \o Top.ctx.out, Buffers, Len(handlers), <<>>, 0, dropped \union Tokens(<<>>), written)
  <2>1. Flow(sink, Buffers, Len(handlers), Top.ctx.out, 0, dropped \union Tokens(<<>>), written)
    BY <1>4, DataFacts
  <2> QED
    BY <2>1, <1>5, DataFacts, FlowOut
<1>7. sink' \in Seq(Token)
  BY <1>2, <1>5, DataFacts, ConcatElements
<1>8. ~Carries(calls, {"handler"}, "deprecated")
  BY <1>0 DEF Carries, Top
<1>9. GoesTo(d, NoResult)
  BY <1>2, <1>3, NoResultFacts DEF GoesTo, rest
<1>10. Carried(d, NoResult, <<>>, 0, <<>>)
  BY <1>3 DEF Carried
<1>11. FlowsOn(<<>>, 0, <<>>)
  BY <1>2, <1>6, <1>7, DataFacts DEF FlowsOn, rest
<1> QED
  BY <1>8, <1>9, <1>10, <1>11, QuietCall

(* The frame on top and the handler it has come to.                        *)
LEMMA OpFacts ==
    ASSUME Inv, phase \in {"run", "ending"}, calls # <<>>, Top.fn = "op"
    PROVE  /\ Top.i \in Nat /\ Top.i <= Len(handlers) /\ Top.ctx \in Ctx /\ Top.flags \in BOOLEAN
           /\ Top.ctx.in \in Seq(Token) /\ Top.ctx.out \in Seq(Token)
           /\ Top.flags => Top.i <= 1
           /\ Top.at = "call" /\ Top.i > 0 => Top.ctx.out = <<>>
           /\ Top.at = "wait" => Top.i >= 1 /\ handlers[Top.i] = Top.h
           /\ Top.i > 0 => /\ Top.i \in 1..Len(handlers) /\ handlers[Top.i] \in Handler
                           /\ handlers[Top.i] \in live /\ hd[handlers[Top.i]].level = Top.i - 1
                           /\ Buffers[Top.i] = hd[handlers[Top.i]].buf
                           /\ OnStack(handlers[Top.i])
<1>1. Top \in FrameType /\ OpFrame(Top) /\ TableInv
  BY NormalFacts DEF FrameOK
<1>2. /\ Top.i \in Nat /\ Top.i <= Len(handlers) /\ Top.ctx \in Ctx /\ Top.flags \in BOOLEAN
      /\ Top.ctx.in \in Seq(Token) /\ Top.ctx.out \in Seq(Token)
  BY <1>1 DEF OpFrame, FrameType, Ctx
<1>3. ASSUME Top.i > 0
      PROVE  /\ Top.i \in 1..Len(handlers) /\ handlers[Top.i] \in Handler
             /\ handlers[Top.i] \in live /\ hd[handlers[Top.i]].level = Top.i - 1
             /\ Buffers[Top.i] = hd[handlers[Top.i]].buf
  <2>1. Top.i \in 1..Len(handlers)
    BY <1>2, <1>3, NormalFacts
  <2> QED
    BY <2>1, <1>1, NormalFacts DEF TableInv
<1>4. Top.i > 0 => OnStack(handlers[Top.i])
  BY <1>2, <1>3, NormalFacts DEF OnStack
<1> QED
  BY <1>1, <1>2, <1>3, <1>4 DEF OpFrame

(* A disabled handler is passed by: it holds nothing.                      *)
LEMMA OpPasses ==
    ASSUME Inv, phase \in {"run", "ending"}, In("op", "call"), Top.i # 0,
           NEW h, h = handlers[Top.i], hd[h].disabled,
           calls' = Becomes([Top EXCEPT !.i = @ - 1,
                               !.ctx = IF Top.flags \/ hd[h].level = 0 THEN Pass(@) ELSE @]),
           UNCHANGED <<globals, hd, res, sink, rest>>
    PROVE  Inv'
<1>0. calls # <<>> /\ Top.fn = "op" /\ Top.at = "call"
  BY DEF In
<1>1. /\ Top.i \in 1..Len(handlers) /\ Top.i \in Nat /\ Top.ctx \in Ctx /\ Top.ctx.in \in Seq(Token)
      /\ Top.flags \in BOOLEAN /\ (Top.flags => Top.i = 1) /\ Top.ctx.out = <<>>
      /\ h \in Handler /\ hd[h].level = Top.i - 1 /\ Buffers[Top.i] = hd[h].buf
  BY <1>0, OpFacts
<1>2. (Top.flags \/ hd[h].level = 0) <=> Top.i = 1
  BY <1>1
<1>3. PICK f : f = [Top EXCEPT !.i = @ - 1,
                      !.ctx = IF Top.flags \/ hd[h].level = 0 THEN Pass(@) ELSE @]
  OBVIOUS
<1>4. Top \in FrameType
  BY <1>0, NormalFacts
<1>5. Pass(Top.ctx) \in Ctx /\ Pass(Top.ctx).op = Top.ctx.op /\ Pass(Top.ctx).out = Top.ctx.in
  BY <1>1, NoElements DEF Pass, Ctx
<1>6. /\ f \in FrameType /\ f.fn = "op" /\ f.at = "call" /\ f.i = Top.i - 1 /\ f.flags = Top.flags
      /\ f.ctx.op = Top.ctx.op
      /\ (f.i = 0 => f.ctx.out = Top.ctx.in) /\ (f.i # 0 => f.ctx = Top.ctx)
  <2>1. f.fn = "op" /\ f.at = "call" /\ f.i = Top.i - 1 /\ f.flags = Top.flags
        /\ f.ctx = IF Top.flags \/ hd[h].level = 0 THEN Pass(Top.ctx) ELSE Top.ctx
    BY <1>0, <1>3, <1>4 DEF FrameType
  <2>2. f.ctx \in Ctx /\ f.i \in Nat
    BY <2>1, <1>1, <1>5
  <2>3. f \in FrameType
    BY <2>1, <2>2, <1>3, <1>4 DEF FrameType
  <2> QED
    BY <2>1, <2>3, <1>1, <1>2, <1>5
<1>7. GoesOn(f)
  <2>1. f.i <= Len(handlers) /\ (f.flags => f.i <= 1) /\ (f.i > 0 => f.ctx.out = <<>>)
    BY <1>1, <1>6, NormalFacts
  <2>2. FrameOK(f)
    BY <1>6, <2>1 DEF FrameOK, OpFrame
  <2> QED
    BY <2>2, <1>0, <1>6 DEF GoesOn, Holding
<1>8. PICK d : d = Becomes(f)
  OBVIOUS
<1>9. Follows(d) /\ OnTop(d, f)
  BY <1>0, <1>7, <1>8, Continue
<1>10. Flight(calls, res) = Top.ctx.in /\ Gap(calls) = Top.i /\ Doomed(calls, res) = <<>>
  BY <1>0, <1>1, CarriedByOp DEF Top, OnTop
<1>11. Flight(d, res) = Top.ctx.in /\ Gap(d) = Top.i - 1 /\ Doomed(d, res) = <<>>
  <2>1. /\ Flight(d, res) = (IF f.i = 0 THEN f.ctx.out ELSE f.ctx.in)
        /\ Gap(d) = f.i /\ Doomed(d, res) = <<>>
    BY <1>6, <1>9, CarriedByOp
  <2> QED
    BY <2>1, <1>6
<1>12. Flow(sink, Buffers, Len(handlers), Top.ctx.in, Top.i - 1, dropped \union Tokens(<<>>), written)
  <2>1. Flow(sink, Buffers, Len(handlers), Top.ctx.in, Top.i, dropped \union Tokens(<<>>), written)
    BY <1>10, DataFacts
  <2>2. Buffers[Top.i] = <<>>
    <3>1. ~Carries(calls, {"handler"}, "deprecated")
      BY <1>0 DEF Carries, Top
    <3> QED
      BY <3>1, <1>1, NormalFacts DEF TableInv
  <2> QED
    BY <2>1, <2>2, <1>1, DataFacts, FlowPass
<1>13. Returned(d, res) /\ ~Carries(calls, {"handler"}, "deprecated")
  BY <1>0, <1>6, <1>9 DEF Returned, Carries, Top, OnTop
<1>14. /\ calls' = d /\ res' = res /\ UNCHANGED <<globals, hd, bad, phase>>
       /\ sink' = sink /\ dropped' = dropped /\ written' = written
  BY <1>3, <1>8 DEF rest
<1>15. GoesTo(d, res)
  BY <1>9, <1>13, <1>14, DataFacts DEF GoesTo, OnTop
<1>16. Carried(d, res, Top.ctx.in, Top.i - 1, <<>>)
  BY <1>11 DEF Carried
<1>17. FlowsOn(Top.ctx.in, Top.i - 1, <<>>)
  BY <1>12, <1>14, StillFlows
<1> QED
  BY <1>13, <1>15, <1>16, <1>17, QuietCall

(* Any other is called.                                                    *)
LEMMA OpCalls ==
    ASSUME Inv, phase \in {"run", "ending"}, In("op", "call"), Top.i # 0,
           NEW h, h = handlers[Top.i], ~hd[h].disabled,
           CallHandlerOp(Becomes([Top EXCEPT !.at = "wait", !.h = h]), h, Top.ctx)
    PROVE  Inv'
<1>0. calls # <<>> /\ Top.fn = "op" /\ Top.at = "call" /\ Top \in FrameType
  BY NormalFacts DEF In
<1>1. /\ Top.i \in 1..Len(handlers) /\ Top.i \in Nat /\ Top.ctx \in Ctx /\ Top.ctx.in \in Seq(Token)
      /\ Top.i <= Len(handlers) /\ (Top.flags => Top.i <= 1) /\ Top.ctx.out = <<>>
      /\ h \in Handler /\ hd[h].level = Top.i - 1 /\ OnStack(h)
  BY <1>0, OpFacts
<1>2. PICK f : f = [Top EXCEPT !.at = "wait", !.h = h]
  OBVIOUS
<1>3. PICK g : g = Frame("handler", h, Top.ctx, 0, "enter", FALSE)
  OBVIOUS
<1>4. PICK d : d = Append(Becomes(f), g)
  OBVIOUS
<1>5. calls' = d /\ UNCHANGED <<globals, hd, res, sink, rest>>
  BY <1>2, <1>3, <1>4 DEF CallHandlerOp
<1>6. /\ f.fn = "op" /\ f.at = "wait" /\ f.h = h /\ f.i = Top.i /\ f.flags = Top.flags
      /\ f.ctx = Top.ctx /\ f \in FrameType
  BY <1>0, <1>1, <1>2 DEF FrameType, HandlerOrNull
<1>7. GoesOn(f)
  <2>1. FrameOK(f)
    BY <1>1, <1>6 DEF FrameOK, OpFrame
  <2> QED
    BY <2>1, <1>0, <1>6 DEF GoesOn, Holding
<1>8. /\ g.fn = "handler" /\ g.h = h /\ g.ctx = Top.ctx /\ g.at = "enter" /\ g \in FrameType
  <2>1. g.fn = "handler" /\ g.h = h /\ g.ctx = Top.ctx /\ g.at = "enter"
    BY <1>3 DEF Frame
  <2>2. h \in HandlerOrNull
    BY <1>1 DEF HandlerOrNull
  <2>3. g \in FrameType
    BY <2>2, <1>1, <1>3, FrameTyped
  <2> QED
    BY <2>1, <2>3
<1>9. FrameOK(g) /\ Link(f, g)
  BY <1>1, <1>6, <1>8 DEF FrameOK, HandlerFrame, Link
<1>10. Follows(d) /\ OnTop(d, g)
  <2>1. g \in FrameType /\ FrameOK(g) /\ Link(f, g) /\ GoesOn(f)
    BY <1>7, <1>8, <1>9
  <2>2. g.fn = "handler" /\ g.at = "enter" /\ g.ctx.op = Top.ctx.op /\ calls # <<>>
    BY <1>0, <1>8
  <2> QED
    BY <2>1, <2>2, <1>4, ContinueAndCall
<1>11. Flight(calls, res) = Top.ctx.in /\ Gap(calls) = Top.i /\ Doomed(calls, res) = <<>>
  BY <1>0, <1>1, CarriedByOp DEF Top, OnTop
<1>12. Flight(d, res) = Top.ctx.in /\ Gap(d) = Top.i /\ Doomed(d, res) = <<>>
  <2>1. Flight(d, res) = g.ctx.in /\ Gap(d) = hd[g.h].level + 1 /\ Doomed(d, res) = <<>>
    BY <1>8, <1>10, CarriedByEnter
  <2> QED
    BY <2>1, <1>8, <1>1
<1>13. Flow(sink, Buffers, Len(handlers), Top.ctx.in, Top.i, dropped \union Tokens(<<>>), written)
  BY <1>11, DataFacts
<1>14. Returned(d, res) /\ ~Carries(calls, {"handler"}, "deprecated")
  BY <1>0, <1>8, <1>10 DEF Returned, Carries, Top, OnTop
<1>15. GoesTo(d, res)
  BY <1>5, <1>10, <1>14, DataFacts DEF GoesTo, OnTop, rest
<1>16. Carried(d, res, Top.ctx.in, Top.i, <<>>)
  BY <1>12 DEF Carried
<1>17. FlowsOn(Top.ctx.in, Top.i, <<>>)
  BY <1>5, <1>13, StillFlows DEF rest
<1> QED
  BY <1>14, <1>15, <1>16, <1>17, QuietCall

(* What a handler returns is the input of the next, unless it kept it.     *)
LEMMA OpReturnsStep ==
    ASSUME Inv, phase \in {"run", "ending"}, OpReturns
    PROVE  Inv'
<1>0. calls # <<>> /\ Top.fn = "op" /\ Top.at = "wait" /\ Top \in FrameType
  BY NormalFacts DEF OpReturns, In
<1>1. /\ Top.i \in 1..Len(handlers) /\ Top.i \in Nat /\ Top.flags \in BOOLEAN
      /\ (Top.flags => Top.i = 1)
      /\ Top.h \in live /\ hd[Top.h].level = Top.i - 1 /\ Top.h = handlers[Top.i]
  BY <1>0, OpFacts
<1>2. (Top.flags \/ res.status = "nodata" \/ hd[Top.h].level = 0)
      <=> (Top.i = 1 \/ res.status = "nodata")
  BY <1>1
<1>3. PICK f : f = [Top EXCEPT !.at = "call",
                 !.i = IF res.status = "nodata" THEN 0 ELSE @ - 1,
                 !.ctx = IF Top.flags \/ res.status = "nodata" \/ hd[Top.h].level = 0
                         THEN res.ctx ELSE Swap(res.ctx)]
  OBVIOUS
<1>4. PICK d : d = Becomes(f)
  OBVIOUS
<1>5. calls' = d /\ res' = NoResult /\ UNCHANGED <<globals, hd, sink, rest>>
  BY <1>1, <1>3, <1>4 DEF OpReturns
<1>6. /\ res.ctx \in Ctx /\ res.ctx.out \in Seq(Token)
      /\ Swap(res.ctx) \in Ctx /\ Swap(res.ctx).in = res.ctx.out /\ Swap(res.ctx).out = <<>>
      /\ Swap(res.ctx).op = res.ctx.op
  BY DataFacts, NoElements DEF Ctx, Swap
<1>7. /\ f.fn = "op" /\ f.at = "call" /\ f.flags = Top.flags
      /\ f.i = (IF res.status = "nodata" THEN 0 ELSE Top.i - 1)
      /\ f.ctx = (IF Top.flags \/ res.status = "nodata" \/ hd[Top.h].level = 0
                  THEN res.ctx ELSE Swap(res.ctx))
  BY <1>0, <1>3 DEF FrameType
<1>8. /\ f.i \in Nat /\ f.i <= Len(handlers) /\ (f.flags => f.i <= 1) /\ f.ctx \in Ctx
      /\ f.ctx.op = res.ctx.op
      /\ (f.i = 0 => f.ctx = res.ctx)
      /\ (f.i > 0 => f.ctx.in = res.ctx.out /\ f.ctx.out = <<>>)
      /\ (res.status # "nodata" => f.i = Top.i - 1)
      /\ (res.status = "nodata" => f.i = 0)
  BY <1>1, <1>2, <1>6, <1>7
<1>9. f \in FrameType
  BY <1>0, <1>3, <1>7, <1>8 DEF FrameType
<1>10. res.ctx.op = Top.ctx.op
  BY <1>0, NormalFacts DEF Returned, Carries, Top, OnTop
<1>11. GoesOn(f)
  <2>1. FrameOK(f)
    BY <1>7, <1>8 DEF FrameOK, OpFrame
  <2> QED
    BY <2>1, <1>0, <1>7, <1>8, <1>9, <1>10 DEF GoesOn, Holding
<1>12. Follows(d) /\ OnTop(d, f)
  BY <1>0, <1>4, <1>11, Continue
<1>13. Flight(calls, res) = res.ctx.out /\ Gap(calls) = Top.i - 1 /\ Doomed(calls, res) = <<>>
  BY <1>0, CarriedByOpWait DEF Top, OnTop
<1>14. Flight(d, NoResult) = res.ctx.out /\ Gap(d) = f.i /\ Doomed(d, NoResult) = <<>>
  <2>1. /\ Flight(d, NoResult) = (IF f.i = 0 THEN f.ctx.out ELSE f.ctx.in)
        /\ Gap(d) = f.i /\ Doomed(d, NoResult) = <<>>
    BY <1>7, <1>12, CarriedByOp
  <2> QED
    BY <2>1, <1>8
<1>15. Flow(sink, Buffers, Len(handlers), res.ctx.out, f.i, dropped \union Tokens(<<>>), written)
  <2>1. Flow(sink, Buffers, Len(handlers), res.ctx.out, Top.i - 1,
             dropped \union Tokens(<<>>), written)
    BY <1>13, DataFacts
  <2>2. CASE res.status # "nodata"
    BY <2>1, <2>2, <1>8
  <2>3. CASE res.status = "nodata"
    <3>1. res.ctx.out = <<>> /\ f.i = 0
      BY <2>3, <1>8, DataFacts
    <3>2. Flow(sink, Buffers, Len(handlers), <<>>, Top.i - 1, dropped \union Tokens(<<>>), written)
      BY <2>1, <3>1
    <3>3. Flow(sink, Buffers, Len(handlers), <<>>, 0, dropped \union Tokens(<<>>), written)
      BY <3>2, DataFacts, FlowAnyGap
    <3> QED
      BY <3>1, <3>3
  <2> QED
    BY <2>2, <2>3
<1>16. Returned(d, NoResult) /\ ~Carries(calls, {"handler"}, "deprecated")
  BY <1>0, <1>7, <1>12 DEF Returned, Carries, Top, OnTop
<1>17. GoesTo(d, NoResult)
  BY <1>5, <1>12, <1>16, NoResultFacts DEF GoesTo, OnTop, rest
<1>18. Carried(d, NoResult, res.ctx.out, f.i, <<>>)
  BY <1>14 DEF Carried
<1>19. FlowsOn(res.ctx.out, f.i, <<>>)
  BY <1>5, <1>15, StillFlows DEF rest
<1> QED
  BY <1>16, <1>17, <1>18, <1>19, QuietCall

\* One iteration of php_output_op keeps the invariant.
LEMMA OpStepStep ==
    ASSUME Inv, phase \in {"run", "ending"}, OpStep
    PROVE  Inv'
<1>0. In("op", "call") /\ calls # <<>> /\ Top.fn = "op"
  BY DEF OpStep, In
<1>1. CASE Top.i = 0
  BY <1>0, <1>1, OpEndsStep DEF OpStep
<1>2. CASE Top.i # 0
  <2>1. ~(Top.i > Len(handlers) \/ handlers[Top.i] \notin live)
    BY <1>0, <1>2, OpFacts
  <2>2. CASE hd[handlers[Top.i]].disabled
    BY <1>0, <1>2, <2>1, <2>2, OpPasses DEF OpStep
  <2>3. CASE ~hd[handlers[Top.i]].disabled
    BY <1>0, <1>2, <2>1, <2>3, OpCalls DEF OpStep
  <2> QED
    BY <2>2, <2>3
<1> QED
  BY <1>1, <1>2
-----------------------------------------------------------------------------
(* Calls that return without a handler's result.                           *)

\* A call that holds no handler returns, and nothing is in flight after it.
LEMMA PlainReturnStep ==
    ASSUME Inv, phase \in {"run", "ending"}, calls # <<>>, Top.fn # "handler", ~Holding(Top),
           Top.fn = "endall" => active = Null, calls' = Pop,
           NEW r, res' = r, r \in Res,
           r.status \notin {"success", "failure"} => r.ctx.out = <<>>,
           UNCHANGED <<globals, hd, bad, phase>>, FlowsOn(<<>>, 0, <<>>)
    PROVE  Inv'
<1>1. PICK d : d = Pop
  OBVIOUS
<1>2. /\ Flight(d, r) = <<>> /\ Gap(d) = 0 /\ Doomed(d, r) = <<>> /\ Returned(d, r)
      /\ Follows(d) /\ (d = <<>> /\ phase = "ending" => Top.fn = "endall")
  BY <1>1, PlainReturns DEF Follows
<1>3. ~Carries(calls, {"handler"}, "deprecated")
  BY DEF Carries, Top
<1>4. GoesTo(d, r)
  BY <1>1, <1>2 DEF GoesTo
<1>5. Carried(d, r, <<>>, 0, <<>>)
  BY <1>2 DEF Carried
<1> QED
  BY <1>3, <1>4, <1>5, QuietCall

(* A step that keeps the data, with nothing in flight.                     *)
LEMMA StillEmpty ==
    ASSUME Inv, phase \in {"run", "ending"}, UNCHANGED <<sink, dropped, written>>,
           Flight(calls, res) = <<>>, Doomed(calls, res) = <<>>, NEW gap \in 0..Len(handlers)
    PROVE  FlowsOn(<<>>, gap, <<>>)
<1>1. Flow(sink, Buffers, Len(handlers), <<>>, Gap(calls), dropped \union Tokens(<<>>), written)
  BY DataFacts
<1>2. Flow(sink, Buffers, Len(handlers), <<>>, gap, dropped \union Tokens(<<>>), written)
  BY <1>1, DataFacts, FlowAnyGap
<1> QED
  BY <1>2, StillFlows

\* php_output_clean discards what its handler returned.
LEMMA CleanReturnsStep ==
    ASSUME Inv, phase \in {"run", "ending"}, CleanReturns
    PROVE  Inv'
<1>0. calls # <<>> /\ Top.fn = "clean" /\ Top.at = "wait" /\ ~Holding(Top)
  BY DEF CleanReturns, In, Holding
<1>1. /\ calls' = Pop /\ res' = NoResult /\ dropped' = dropped \union Tokens(res.ctx.out)
      /\ sink' = sink /\ written' = written /\ UNCHANGED <<globals, hd, bad, phase>>
  BY DEF CleanReturns, Return
<1>2. Flight(calls, res) = <<>> /\ Gap(calls) = 0 /\ Doomed(calls, res) = res.ctx.out
  BY <1>0, CarriedByClean DEF Top, OnTop
<1>3. dropped' \union Tokens(<<>>) = dropped \union Tokens(res.ctx.out)
  BY <1>1, EmptyPiece
<1>4. FlowsOn(<<>>, 0, <<>>)
  BY <1>1, <1>2, <1>3, DataFacts DEF FlowsOn
<1> QED
  BY <1>0, <1>1, <1>4, NoResultFacts, PlainReturnStep

(* A flush that finds nothing to write.                                    *)
LEMMA FlushReturnsEmpty ==
    ASSUME Inv, phase \in {"run", "ending"}, FlushReturns, res.ctx.out = <<>>
    PROVE  Inv'
<1>0. calls # <<>> /\ Top.fn = "flush" /\ Top.at = "wait" /\ ~Holding(Top)
  BY DEF FlushReturns, In, Holding
<1>1. /\ calls' = Pop /\ res' = NoResult /\ UNCHANGED <<sink, dropped, written>>
      /\ UNCHANGED <<globals, hd, bad, phase>>
  BY DEF FlushReturns, Return
<1>2. Flight(calls, res) = <<>> /\ Doomed(calls, res) = <<>>
  BY <1>0, CarriedByTaken DEF Top, OnTop
<1>3. FlowsOn(<<>>, 0, <<>>)
  BY <1>1, <1>2, DataFacts, StillEmpty
<1> QED
  BY <1>0, <1>1, <1>3, NoResultFacts, PlainReturnStep

(* The loops end.                                                          *)
LEMMA LoopEnds ==
    ASSUME Inv, phase \in {"run", "ending"}, calls # <<>>,
           \/ Top.fn = "cleanall" /\ Top.at = "call"
           \/ Top.fn = "endall" /\ active = Null,
           Return(NoResult), UNCHANGED <<globals, hd, sink, rest>>
    PROVE  Inv'
<1>1. ~Holding(Top) /\ Empty(Top)
  BY DEF Holding, Empty
<1>2. /\ calls' = Pop /\ res' = NoResult /\ UNCHANGED <<sink, dropped, written>>
      /\ UNCHANGED <<globals, hd, bad, phase>>
  BY DEF Return, rest
<1>3. Flight(calls, res) = <<>> /\ Doomed(calls, res) = <<>>
  BY <1>1, CarriedByEmpty DEF Top, OnTop
<1>4. FlowsOn(<<>>, 0, <<>>)
  BY <1>2, <1>3, DataFacts, StillEmpty
<1> QED
  BY <1>1, <1>2, <1>4, NoResultFacts, PlainReturnStep

\* php_output_clean_all discards what a handler returned and goes on below it.
LEMMA CleanAllReturnsStep ==
    ASSUME Inv, phase \in {"run", "ending"}, CleanAllReturns
    PROVE  Inv'
<1>0. calls # <<>> /\ Top.fn = "cleanall" /\ Top.at = "wait" /\ Top \in FrameType
  BY NormalFacts DEF CleanAllReturns, In
<1>1. PICK f : f = [Top EXCEPT !.at = "call", !.i = @ - 1]
  OBVIOUS
<1>2. PICK d : d = Becomes(f)
  OBVIOUS
<1>3. /\ calls' = d /\ res' = NoResult /\ dropped' = dropped \union Tokens(res.ctx.out)
      /\ sink' = sink /\ written' = written /\ UNCHANGED <<globals, hd, bad, phase>>
  BY <1>1, <1>2 DEF CleanAllReturns
<1>4. Top.i \in Nat /\ Top.i >= 1 /\ Top.i <= Len(handlers)
  BY <1>0, NormalFacts DEF FrameOK, CleanAllFrame, FrameType
<1>5. f.fn = "cleanall" /\ f.at = "call" /\ f.i = Top.i - 1 /\ f.ctx = Top.ctx /\ f \in FrameType
  <2>1. f.fn = "cleanall" /\ f.at = "call" /\ f.i = Top.i - 1 /\ f.ctx = Top.ctx
    BY <1>0, <1>1 DEF FrameType
  <2>2. f.i \in Nat
    BY <2>1, <1>4
  <2> QED
    BY <2>1, <2>2, <1>0, <1>1 DEF FrameType
<1>6. GoesOn(f)
  <2>1. FrameOK(f)
    BY <1>4, <1>5, NormalFacts DEF FrameOK, CleanAllFrame
  <2> QED
    BY <2>1, <1>0, <1>5 DEF GoesOn, Holding
<1>7. Follows(d) /\ OnTop(d, f)
  BY <1>0, <1>2, <1>6, Continue
<1>8. GoesTo(d, NoResult)
  BY <1>3, <1>5, <1>7, NoResultFacts DEF GoesTo, OnTop, Returned, Carries
<1>9. Carried(d, NoResult, <<>>, 0, <<>>)
  BY <1>5, <1>7, CarriedByEmpty DEF Carried, Empty
<1>10. Flight(calls, res) = <<>> /\ Gap(calls) = 0 /\ Doomed(calls, res) = res.ctx.out
  BY <1>0, CarriedByClean DEF Top, OnTop
<1>11. FlowsOn(<<>>, 0, <<>>)
  <2>1. dropped' \union Tokens(<<>>) = dropped \union Tokens(res.ctx.out)
    BY <1>3, EmptyPiece
  <2> QED
    BY <1>3, <1>10, <2>1, DataFacts DEF FlowsOn
<1>12. ~Carries(calls, {"handler"}, "deprecated")
  BY <1>0 DEF Carries, Top
<1> QED
  BY <1>8, <1>9, <1>11, <1>12, QuietCall
-----------------------------------------------------------------------------
(* php_output_op is called: by the program, a callback, a flush or a pop.  *)

(* A stack that is not empty has an active handler.                        *)
LEMMA ActiveHandler ==
    ASSUME Inv, phase \in {"run", "ending"}, handlers # <<>>
    PROVE  active # Null
<1>0. /\ TypeInv /\ TableInv /\ AllFrames(calls) /\ handlers \in Seq(Handler)
      /\ Null \notin Handler /\ live \in SUBSET Handler
  BY NormalFacts, HandlerAssumption DEF TypeInv
<1>1. CASE ~Cut
  <2>1. active = handlers[Len(handlers)]
    BY <1>0, <1>1 DEF TableInv, TopOf, Last
  <2> QED
    BY <2>1, <1>0
<1>2. CASE Cut
  <2>1. PICK k \in 1..Len(calls) : Holding(calls[k]) /\ calls[k].fn = "flush"
    BY <1>2 DEF Cut
  <2>2. TakenFrame(calls[k]) /\ calls[k].h = active
    BY <2>1, <1>0 DEF AllFrames, FrameOK
  <2>3. active \in live
    BY <2>1, <2>2 DEF Holding, TakenFrame
  <2> QED
    BY <2>3, <1>0
<1> QED
  BY <1>1, <1>2

\* The frame of php_output_op that CallOp makes.
OpCall(op, in) ==
    LET n == IF active = Null THEN 0 ELSE Len(handlers)
        ctx == IF n = 0 THEN [Context(op, <<>>) EXCEPT !.out = in] ELSE Context(op, in)
    IN  Frame("op", Null, ctx, n, "call", n = 1)

\* A new call of php_output_op carries its data above the stack.
LEMMA OpCallFacts ==
    ASSUME Inv, phase \in {"run", "ending"}, NEW op \in {"write", "flush", "clean", "final"},
           NEW in \in Seq(Token), NEW g, g = OpCall(op, in)
    PROVE  /\ g \in FrameType /\ FrameOK(g) /\ g.fn = "op" /\ g.at = "call" /\ g.ctx.op = op
           /\ \A d, r : OnTop(d, g) => Carried(d, r, in, Len(handlers), <<>>) /\ Returned(d, r)
<1>1. PICK n : n = IF active = Null THEN 0 ELSE Len(handlers)
  OBVIOUS
<1>2. PICK ctx : ctx = IF n = 0 THEN [Context(op, <<>>) EXCEPT !.out = in] ELSE Context(op, in)
  OBVIOUS
<1>3. g = Frame("op", Null, ctx, n, "call", n = 1)
  BY <1>1, <1>2 DEF OpCall
<1>4. n = Len(handlers) /\ n \in Nat
  BY <1>1, ActiveHandler, NormalFacts, NoElements
<1>5. /\ ctx \in Ctx /\ ctx.op = op /\ (n = 0 => ctx.out = in)
      /\ (n # 0 => ctx.in = in /\ ctx.out = <<>>)
  BY <1>2, ContextFields
<1>11. PICK b \in BOOLEAN : b = (n = 1)
  OBVIOUS
<1>12. g = Frame("op", Null, ctx, n, "call", b)
  BY <1>3, <1>11
<1>6. g.fn = "op" /\ g.at = "call" /\ g.ctx = ctx /\ g.i = n /\ g.flags = b
  BY <1>12 DEF Frame
<1>7. g \in FrameType
  <2>1. Null \in HandlerOrNull
    BY DEF HandlerOrNull
  <2> QED
    BY <2>1, <1>4, <1>5, <1>12, FrameTyped
<1>8. FrameOK(g)
  <2>1. g.flags => g.i = 1
    BY <1>6, <1>11
  <2> QED
    BY <2>1, <1>4, <1>5, <1>6 DEF FrameOK, OpFrame
<1>9. ASSUME NEW d, NEW r, OnTop(d, g) PROVE Carried(d, r, in, Len(handlers), <<>>)
  <2>1. /\ Flight(d, r) = (IF g.i = 0 THEN g.ctx.out ELSE g.ctx.in) /\ Gap(d) = g.i
        /\ Doomed(d, r) = <<>>
    BY <1>6, <1>9, CarriedByOp
  <2> QED
    BY <2>1, <1>4, <1>5, <1>6 DEF Carried
<1>10. ASSUME NEW d, NEW r, OnTop(d, g) PROVE Returned(d, r)
  BY <1>6, <1>10 DEF Returned, Carries, OnTop
<1> QED
  BY <1>5, <1>6, <1>7, <1>8, <1>9, <1>10

(* The piece in flight enters at the top.                                  *)
LEMMA OpCalled ==
    ASSUME Inv, phase \in {"run", "ending"}, ~Carries(calls, {"handler"}, "deprecated"),
           NEW op \in {"write", "flush", "clean", "final"}, NEW in \in Seq(Token),
           NEW d, Follows(d), OnTop(d, OpCall(op, in)), calls' = d,
           UNCHANGED <<globals, hd, res, bad, phase>>, FlowsOn(in, Len(handlers), <<>>)
    PROVE  Inv'
<1>1. PICK g : g = OpCall(op, in)
  OBVIOUS
<1>2. OnTop(d, g)
  BY <1>1
<1>3. Carried(d, res, in, Len(handlers), <<>>) /\ Returned(d, res)
  BY <1>1, <1>2, OpCallFacts
<1>4. GoesTo(d, res)
  BY <1>2, <1>3, DataFacts DEF GoesTo, OnTop
<1> QED
  BY <1>3, <1>4, QuietCall

(* A flush or a pop writes what the handler returned to the stack below.   *)
LEMMA TakenWrites ==
    ASSUME Inv, phase \in {"run", "ending"}, calls # <<>>, Top.fn \in {"flush", "pop"},
           Top.at = "write", NEW at, at = IF Top.fn = "flush" THEN "push" ELSE "free",
           CallWrite(Becomes([Top EXCEPT !.at = at]), Top.ctx.out), UNCHANGED written
    PROVE  Inv'
<1>0. Top \in FrameType /\ FrameOK(Top) /\ activated /\ Top.ctx.out \in Seq(Token)
  BY NormalFacts DEF TableInv, FrameType, Ctx
<1>1. PICK f : f = [Top EXCEPT !.at = at]
  OBVIOUS
<1>2. PICK g : g = OpCall("write", Top.ctx.out)
  OBVIOUS
<1>3. PICK d : d = Append(Becomes(f), g)
  OBVIOUS
<1>4. /\ calls' = d /\ UNCHANGED <<globals, hd, res, bad, phase>>
      /\ UNCHANGED <<sink, dropped, written>>
  BY <1>0, <1>1, <1>2, <1>3 DEF CallWrite, CallOp, Locked, OpCall
<1>5. /\ f.fn = Top.fn /\ f.at = at /\ f.h = Top.h /\ f.ctx = Top.ctx /\ f.i = Top.i
      /\ f \in FrameType
  BY <1>0, <1>1 DEF FrameType
<1>6. GoesOn(f)
  <2>1. FrameOK(f)
    BY <1>0, <1>5 DEF FrameOK, TakenFrame
  <2> QED
    BY <2>1, <1>5 DEF GoesOn, Holding
<1>7. g \in FrameType /\ FrameOK(g) /\ g.fn = "op"
  BY <1>0, <1>2, OpCallFacts
<1>8. Link(f, g)
  BY <1>5, <1>7 DEF Link
<1>9. Follows(d) /\ OnTop(d, g)
  BY <1>3, <1>6, <1>7, <1>8, ContinueAndCall
<1>10. Flight(calls, res) = Top.ctx.out /\ Gap(calls) = Len(handlers) /\ Doomed(calls, res) = <<>>
  BY CarriedByWrite DEF Top, OnTop
<1>11. FlowsOn(Top.ctx.out, Len(handlers), <<>>)
  BY <1>4, <1>10, DataFacts, StillFlows
<1>12. ~Carries(calls, {"handler"}, "deprecated")
  BY DEF Carries, Top
<1> QED
  BY <1>0, <1>2, <1>4, <1>9, <1>11, <1>12, OpCalled

\* php_output_flush writes to the handlers below its own.
LEMMA FlushWritesStep ==
    ASSUME Inv, phase \in {"run", "ending"}, FlushWrites
    PROVE  Inv'
BY TakenWrites DEF FlushWrites, In

\* php_output_stack_pop writes what the final run of the handler returned.
LEMMA PopWritesStep ==
    ASSUME Inv, phase \in {"run", "ending"}, PopWrites
    PROVE  Inv'
<1>0. calls # <<>> /\ Top.fn = "pop" /\ Top.at = "write"
  BY DEF PopWrites, In
<1>1. CASE ~(Top.flags \/ Top.ctx.out = <<>>)
  BY <1>0, <1>1, TakenWrites DEF PopWrites
<1>2. CASE Top.flags \/ Top.ctx.out = <<>>
  <2>0. Top \in FrameType /\ FrameOK(Top) /\ Top.ctx.out \in Seq(Token)
    BY <1>0, NormalFacts DEF FrameType, Ctx
  <2>1. PICK f : f = [Top EXCEPT !.at = "free"]
    OBVIOUS
  <2>2. PICK d : d = Becomes(f)
    OBVIOUS
  <2>3. /\ calls' = d /\ res' = res /\ dropped' = dropped \union Tokens(Top.ctx.out)
        /\ sink' = sink /\ written' = written /\ UNCHANGED <<globals, hd, bad, phase>>
    BY <1>2, <2>1, <2>2 DEF PopWrites
  <2>4. /\ f.fn = "pop" /\ f.at = "free" /\ f.h = Top.h /\ f.ctx = Top.ctx /\ f.i = Top.i
        /\ f \in FrameType
    BY <1>0, <2>0, <2>1 DEF FrameType
  <2>5. GoesOn(f)
    <3>1. FrameOK(f)
      BY <1>0, <2>0, <2>4 DEF FrameOK, TakenFrame
    <3> QED
      BY <3>1, <1>0, <2>4 DEF GoesOn, Holding
  <2>6. Follows(d) /\ OnTop(d, f)
    BY <1>0, <2>2, <2>5, Continue
  <2>7. GoesTo(d, res)
    BY <2>3, <2>4, <2>6, DataFacts DEF GoesTo, OnTop, Returned, Carries
  <2>8. Carried(d, res, <<>>, 0, <<>>)
    BY <2>4, <2>6, CarriedByEmpty DEF Carried, Empty
  <2>9. Flight(calls, res) = Top.ctx.out /\ Gap(calls) = Len(handlers) /\ Doomed(calls, res) = <<>>
    BY <1>0, CarriedByWrite DEF Top, OnTop
  <2>10. FlowsOn(<<>>, 0, <<>>)
    <3>1. Flow(sink, Buffers, Len(handlers), Top.ctx.out, Len(handlers),
               dropped \union Tokens(<<>>), written)
      BY <2>9, DataFacts
    <3>2. PICK e : e = dropped \union Tokens(Top.ctx.out)
      OBVIOUS
    <3>3. \A t \in dropped \union Tokens(<<>>) : t \in e
      BY <3>2, EmptyPiece
    <3>4. \A t \in Tokens(Top.ctx.out) : t \in e
      BY <3>2
    <3>5. Flow(sink, Buffers, Len(handlers), <<>>, 0, e, written)
      BY <3>1, <3>3, <3>4, <2>0, DataFacts, FlowDiscard
    <3>6. dropped' \union Tokens(<<>>) = e
      BY <2>3, <3>2, EmptyPiece
    <3> QED
      BY <2>3, <3>5, <3>6, DataFacts DEF FlowsOn
  <2>11. ~Carries(calls, {"handler"}, "deprecated")
    BY <1>0 DEF Carries, Top
  <2> QED
    BY <2>7, <2>8, <2>10, <2>11, QuietCall
<1> QED
  BY <1>1, <1>2
-----------------------------------------------------------------------------
(* The calls of the program.                                               *)

(* Between two calls nothing runs and nothing is in flight.                *)
LEMMA IdleFacts ==
    ASSUME Inv, phase \in {"run", "ending"}, calls # <<>> => Top.fn = "endall"
    PROVE  /\ calls = <<>> => running = Null
           /\ Flight(calls, res) = <<>> /\ Doomed(calls, res) = <<>>
           /\ ~Carries(calls, {"handler"}, "deprecated")
           /\ active # Null => /\ handlers # <<>> /\ active \in Handler /\ active \in live
                               /\ hd[active].level = Len(handlers) - 1 /\ OnStack(active)
                               /\ hd[active].level + 1 = Len(handlers)
<1>1. calls = <<>> => running = Null
  BY NormalFacts DEF TableInv
<1>2. Flight(calls, res) = <<>> /\ Doomed(calls, res) = <<>>
  <2>1. CASE calls = <<>>
    BY <2>1, CarriedByNone
  <2>2. CASE calls # <<>>
    BY <2>2, CarriedByEmpty DEF Top, OnTop, Empty
  <2> QED
    BY <2>1, <2>2
<1>3. ~Carries(calls, {"handler"}, "deprecated")
  BY DEF Carries, Top
<1>4. ASSUME active # Null
      PROVE  /\ handlers # <<>> /\ active \in Handler /\ active \in live
             /\ hd[active].level = Len(handlers) - 1 /\ OnStack(active)
             /\ hd[active].level + 1 = Len(handlers)
  <2>1. /\ handlers # <<>> /\ active \in live /\ active = handlers[Len(handlers)]
        /\ hd[active].level = Len(handlers) - 1 /\ Len(handlers) \in 1..Len(handlers)
    BY <1>4, NotCut
  <2>2. active \in Handler
    BY <2>1, NormalFacts DEF TypeInv
  <2>3. Len(handlers) \in Nat /\ Len(handlers) - 1 < Len(handlers) /\ (Len(handlers) - 1) + 1 = Len(handlers)
    BY NormalFacts
  <2> QED
    BY <2>1, <2>2, <2>3 DEF OnStack
<1> QED
  BY <1>1, <1>2, <1>3, <1>4

\* php_output_write, by the program or by a callback, keeps the invariant.
LEMMA WriteStep ==
    ASSUME WritesOnly, Inv, phase \in {"run", "ending"}, php_output_write
    PROVE  Inv'
<1>0. activated /\ written \in Nat /\ written + 1 \in Token /\ written + 1 \in 0..MaxWrites
  BY NormalFacts, SizeAssumption DEF TableInv, TypeInv, Token, php_output_write
<1>1. \/ calls = <<>> /\ phase = "run"
      \/ calls # <<>> /\ Top.fn = "handler" /\ Top.at = "callback"
  BY DEF php_output_write, MayWrite, In, WritesOnly
<1>2. PICK w : w = <<written + 1>>
  OBVIOUS
<1>3. w \in Seq(Token)
  BY <1>0, <1>2
<1>4. PICK g : g = OpCall("write", w)
  OBVIOUS
<1>5. PICK d : d = Append(calls, g)
  OBVIOUS
<1>6. /\ calls' = d /\ UNCHANGED <<globals, hd, res, bad, phase>>
      /\ UNCHANGED <<sink, dropped>> /\ written' = written + 1
  BY <1>0, <1>2, <1>4, <1>5 DEF php_output_write, CallWrite, CallOp, Locked, OpCall
<1>7. g \in FrameType /\ FrameOK(g) /\ g.fn = "op" /\ g.ctx.op = "write"
  BY <1>3, <1>4, OpCallFacts
<1>8. /\ calls # <<>> => Link(Top, g)
      /\ Nested(g)
  BY <1>1, <1>7 DEF Link, Nested
<1>9. Follows(d) /\ OnTop(d, g)
  BY <1>1, <1>5, <1>7, <1>8, CallMade
<1>10. Flight(calls, res) = <<>> /\ Doomed(calls, res) = <<>>
  <2>1. CASE calls = <<>>
    BY <2>1, IdleFacts
  <2>2. CASE calls # <<>>
    <3>1. Empty(Top)
      BY <1>1, <2>2 DEF Empty
    <3> QED
      BY <2>2, <3>1, CarriedByEmpty DEF Top, OnTop
  <2> QED
    BY <2>1, <2>2
<1>11. ~Carries(calls, {"handler"}, "deprecated")
  BY <1>1 DEF Carries, Top
<1>12. FlowsOn(w, Len(handlers), <<>>)
  <2>1. Flow(sink, Buffers, Len(handlers), <<>>, Gap(calls), dropped \union Tokens(<<>>), written)
    BY <1>10, DataFacts
  <2>2. Flow(sink, Buffers, Len(handlers), <<written + 1>>, Len(handlers),
             dropped \union Tokens(<<>>), written + 1)
    BY <1>0, <2>1, DataFacts, FlowNew
  <2> QED
    BY <2>2, <1>0, <1>2, <1>6, DataFacts DEF FlowsOn
<1> QED
  BY <1>3, <1>4, <1>6, <1>9, <1>11, <1>12, OpCalled

\* If callbacks only write, other calls come from the program alone.
LEMMA ProgramAlone ==
    ASSUME WritesOnly, MayCall
    PROVE  calls = <<>> /\ phase = "run"
BY DEF MayCall, MayWrite, WritesOnly, In

\* php_output_flush_all keeps the invariant.
LEMMA FlushAllStep ==
    ASSUME WritesOnly, Inv, phase \in {"run", "ending"}, php_output_flush_all
    PROVE  Inv'
<1>0. calls = <<>> /\ phase = "run"
  BY ProgramAlone DEF php_output_flush_all
<1>1. PICK w \in Seq(Token) : w = <<>>
  BY NoElements
<1>2. PICK g : g = OpCall("flush", w)
  OBVIOUS
<1>3. PICK d : d = Append(calls, g)
  OBVIOUS
<1>4. ~Locked("flush")
  BY <1>0, IdleFacts DEF Locked
<1>5. /\ calls' = d /\ UNCHANGED <<globals, hd, res, bad, phase>>
      /\ UNCHANGED <<sink, dropped, written>>
  BY <1>1, <1>2, <1>3, <1>4 DEF php_output_flush_all, CallOp, OpCall
<1>6. g \in FrameType /\ FrameOK(g) /\ g.fn = "op"
  BY <1>2, OpCallFacts
<1>7. Follows(d) /\ OnTop(d, g)
  BY <1>0, <1>3, <1>6, CallMade
<1>8. FlowsOn(w, Len(handlers), <<>>)
  BY <1>0, <1>1, <1>5, IdleFacts, DataFacts, StillEmpty
<1> QED
  BY <1>0, <1>2, <1>5, <1>7, <1>8, IdleFacts, OpCalled

\* The frame of a handler that is called without data.
EnterCall(h, op) == Frame("handler", h, Context(op, <<>>), 0, "enter", FALSE)

\* A new call of php_output_handler_op for a handler on the stack carries
\* nothing yet.
LEMMA HandlerCallFacts ==
    ASSUME Inv, phase \in {"run", "ending"}, NEW h \in Handler, OnStack(h),
           NEW op \in {"write", "flush", "clean", "final"}, NEW g, g = EnterCall(h, op)
    PROVE  /\ g \in FrameType /\ g.fn = "handler" /\ g.h = h /\ g.at = "enter"
           /\ g.ctx.op = op /\ g.ctx.out = <<>> /\ g.ctx.in = <<>> /\ FrameOK(g)
           /\ \A d, r : OnTop(d, g) => Carried(d, r, <<>>, hd[h].level + 1, <<>>) /\ Returned(d, r)
<1>1. PICK ctx : ctx = Context(op, <<>>)
  OBVIOUS
<1>2. ctx \in Ctx /\ ctx.op = op /\ ctx.out = <<>> /\ ctx.in = <<>>
  <2>1. <<>> \in Seq(Token)
    BY NoElements
  <2> QED
    BY <1>1, <2>1 DEF Context, Ctx
<1>3. g = Frame("handler", h, ctx, 0, "enter", FALSE)
  BY <1>1 DEF EnterCall
<1>4. g.fn = "handler" /\ g.h = h /\ g.at = "enter" /\ g.ctx = ctx
  BY <1>3 DEF Frame
<1>5. g \in FrameType
  <2>1. h \in HandlerOrNull
    BY DEF HandlerOrNull
  <2> QED
    BY <2>1, <1>2, <1>3, FrameTyped
<1>6. FrameOK(g)
  BY <1>2, <1>4 DEF FrameOK, HandlerFrame
<1>7. ASSUME NEW d, NEW r, OnTop(d, g)
      PROVE  Carried(d, r, <<>>, hd[h].level + 1, <<>>) /\ Returned(d, r)
  <2>1. Flight(d, r) = g.ctx.in /\ Gap(d) = hd[g.h].level + 1 /\ Doomed(d, r) = <<>>
    BY <1>4, <1>7, CarriedByEnter
  <2>2. Returned(d, r)
    BY <1>4, <1>7 DEF Returned, Carries, OnTop
  <2> QED
    BY <2>1, <2>2, <1>2, <1>4 DEF Carried
<1> QED
  BY <1>2, <1>4, <1>5, <1>6, <1>7

(* The frame of a flush, a clean or a pop, with the active handler.        *)
LEMMA TakenCallFacts ==
    ASSUME Inv, phase \in {"run", "ending"}, NEW fn \in {"flush", "clean", "pop"},
           active \in Handler, handlers # <<>>, NEW flags \in BOOLEAN,
           NEW f, f = Frame(fn, active, Nothing, 0, "wait", flags)
    PROVE  /\ f \in FrameType /\ f.fn = fn /\ f.at = "wait" /\ f.h = active /\ FrameOK(f)
<1>1. f.fn = fn /\ f.at = "wait" /\ f.h = active
  BY DEF Frame
<1>2. Nothing \in Ctx /\ active \in HandlerOrNull
  BY ContextFields, NoElements DEF HandlerOrNull
<1>3. f \in FrameType
  BY <1>2, FrameTyped
<1>4. FrameOK(f)
  BY <1>1 DEF FrameOK, TakenFrame
<1> QED
  BY <1>1, <1>3, <1>4
\* The program, or the loop of end_all, is about to call.
AtLoop == (calls = <<>> /\ phase = "run") \/ (calls # <<>> /\ Top.fn = "endall")

(* The active handler is run.                                              *)
LEMMA ActiveCalled ==
    ASSUME Inv, phase \in {"run", "ending"}, AtLoop, NEW fn \in {"flush", "clean", "pop"},
           calls # <<>> => fn = "pop", NEW op \in {"flush", "clean", "final"},
           NEW flags \in BOOLEAN, active # Null,
           CallHandlerOp(Append(calls, Frame(fn, active, Nothing, 0, "wait", flags)),
                         active, Context(op, <<>>))
    PROVE  Inv'
<1>1. /\ handlers # <<>> /\ active \in Handler /\ OnStack(active)
      /\ hd[active].level + 1 = Len(handlers)
      /\ Flight(calls, res) = <<>> /\ Doomed(calls, res) = <<>>
      /\ ~Carries(calls, {"handler"}, "deprecated")
  BY IdleFacts DEF AtLoop
<1>2. PICK f : f = Frame(fn, active, Nothing, 0, "wait", flags)
  OBVIOUS
<1>3. PICK g : g = EnterCall(active, op)
  OBVIOUS
<1>4. PICK d : d = Append(Append(calls, f), g)
  OBVIOUS
<1>5. /\ calls' = d /\ res' = res /\ UNCHANGED <<globals, hd, bad, phase>>
      /\ UNCHANGED <<sink, dropped, written>>
  BY <1>2, <1>3, <1>4 DEF CallHandlerOp, EnterCall, rest
<1>6. f \in FrameType /\ FrameOK(f) /\ f.fn = fn /\ f.at = "wait" /\ f.h = active
  BY <1>1, <1>2, TakenCallFacts
<1>7. g \in FrameType /\ FrameOK(g) /\ g.fn = "handler" /\ g.h = active /\ g.ctx.op = op
  BY <1>1, <1>3, HandlerCallFacts
<1>8. \A e, r : OnTop(e, g) => Carried(e, r, <<>>, hd[active].level + 1, <<>>) /\ Returned(e, r)
  BY <1>1, <1>3, HandlerCallFacts
<1>9. Link(f, g) /\ f.fn # "handler" /\ (calls # <<>> => Link(Top, f))
  BY <1>6, <1>7 DEF Link, AtLoop
<1>10. Follows(d) /\ OnTop(d, g)
  BY <1>4, <1>6, <1>7, <1>9, TwoCallsMade DEF AtLoop
<1>11. Carried(d, res, <<>>, Len(handlers), <<>>) /\ Returned(d, res)
  BY <1>1, <1>8, <1>10
<1>12. GoesTo(d, res)
  BY <1>5, <1>10, <1>11, DataFacts DEF GoesTo, OnTop
<1>13. FlowsOn(<<>>, Len(handlers), <<>>)
  BY <1>1, <1>5, DataFacts, StillEmpty
<1> QED
  BY <1>1, <1>11, <1>12, <1>13, QuietCall

\* php_output_flush and php_output_clean enter the active handler.
LEMMA CallActiveStep ==
    ASSUME WritesOnly, Inv, phase \in {"run", "ending"},
           php_output_flush \/ php_output_clean
    PROVE  Inv'
<1>1. PICK fn \in {"flush", "clean"} : \E ability \in Abilities : CallActive(fn, ability)
  BY DEF php_output_flush, php_output_clean, Abilities
<1>2. calls = <<>> /\ phase = "run" /\ active # Null
  BY <1>1, ProgramAlone DEF CallActive
<1>3. active \in live
  BY <1>2, IdleFacts
<1>4. CallHandlerOp(Append(calls, Frame(fn, active, Nothing, 0, "wait", FALSE)),
                    active, Context(fn, <<>>))
  BY <1>1, <1>3 DEF CallActive
<1> QED
  BY <1>2, <1>4, ActiveCalled DEF AtLoop

(* php_output_stack_pop is called.                                         *)
LEMMA CallPopStep ==
    ASSUME Inv, phase \in {"run", "ending"}, AtLoop, active # Null,
           NEW force \in BOOLEAN, NEW discard \in BOOLEAN, calls # <<>> => force,
           CallPop(calls, force, discard)
    PROVE  Inv'
<1>1. /\ handlers # <<>> /\ active \in Handler /\ active \in live /\ OnStack(active)
      /\ hd[active].level + 1 = Len(handlers)
      /\ Flight(calls, res) = <<>> /\ Doomed(calls, res) = <<>>
      /\ ~Carries(calls, {"handler"}, "deprecated")
  BY IdleFacts DEF AtLoop
<1>2. CASE ~force /\ "removable" \notin hd[active].can
  <2>1. PICK r : r = Result("refused", Nothing)
    OBVIOUS
  <2>2. /\ calls' = calls /\ res' = r /\ UNCHANGED <<globals, hd, bad, phase>>
        /\ UNCHANGED <<sink, dropped, written>>
    BY <1>1, <1>2, <2>1 DEF CallPop, rest
  <2>3. calls = <<>> /\ phase = "run"
    BY <1>2 DEF AtLoop
  <2>4. r \in Res /\ r.ctx.out = <<>>
    BY <2>1, NothingFacts, ResultFields
  <2>5. Follows(calls) /\ Returned(calls, r)
    BY <2>3, NormalFacts DEF Follows, TypeInv, Keeps, Returned, Carries
  <2>6. GoesTo(calls, r)
    BY <2>2, <2>3, <2>4, <2>5 DEF GoesTo
  <2>7. Carried(calls, r, <<>>, 0, <<>>)
    BY <2>3, CarriedByNone DEF Carried
  <2>8. FlowsOn(<<>>, 0, <<>>)
    BY <1>1, <2>2, DataFacts, StillEmpty
  <2> QED
    BY <1>1, <2>6, <2>7, <2>8, QuietCall
<1>3. CASE ~(~force /\ "removable" \notin hd[active].can) /\ ~hd[active].disabled
  <2>1. CallHandlerOp(Append(calls, Frame("pop", active, Nothing, 0, "wait", discard)),
                      active, Context("final", <<>>))
    BY <1>1, <1>3 DEF CallPop
  <2> QED
    BY <2>1, ActiveCalled
<1>4. CASE ~(~force /\ "removable" \notin hd[active].can) /\ hd[active].disabled
  <2>1. PICK f : f = Frame("pop", active, Nothing, 0, "wait", discard)
    OBVIOUS
  <2>2. PICK d : d = Append(calls, f)
    OBVIOUS
  <2>3. PICK r : r = Result("failure", Nothing)
    OBVIOUS
  <2>4. /\ calls' = d /\ res' = r /\ UNCHANGED <<globals, hd, bad, phase>>
        /\ UNCHANGED <<sink, dropped, written>>
    BY <1>1, <1>4, <2>1, <2>2, <2>3 DEF CallPop, rest
  <2>5. r \in Res /\ r.ctx.out = <<>>
    BY <2>3, NothingFacts, ResultFields
  <2>6. f \in FrameType /\ FrameOK(f) /\ f.fn = "pop" /\ f.at = "wait" /\ f.h = active
    BY <1>1, <2>1, TakenCallFacts
  <2>7. calls # <<>> => Link(Top, f)
    BY <2>6 DEF Link, AtLoop
  <2>8. Follows(d) /\ OnTop(d, f)
    BY <2>2, <2>6, <2>7, CallMade DEF AtLoop
  <2>9. Returned(d, r)
    <3>1. hd[active].buf = <<>>
      BY <1>1, <1>4, NormalFacts DEF TableInv
    <3> QED
      BY <3>1, <2>6, <2>8 DEF Returned, Carries, OnTop
  <2>10. GoesTo(d, r)
    BY <2>4, <2>5, <2>8, <2>9 DEF GoesTo, OnTop
  <2>11. Carried(d, r, <<>>, Len(handlers) - 1, <<>>)
    BY <2>5, <2>6, <2>8, CarriedByTaken DEF Carried
  <2>12. Len(handlers) - 1 \in 0..Len(handlers)
    BY <1>1, NormalFacts
  <2>13. FlowsOn(<<>>, Len(handlers) - 1, <<>>)
    BY <1>1, <2>4, <2>12, StillEmpty
  <2> QED
    BY <1>1, <2>10, <2>11, <2>13, QuietCall
<1> QED
  BY <1>2, <1>3, <1>4

\* php_output_end and php_output_discard keep the invariant.
LEMMA EndStep ==
    ASSUME WritesOnly, Inv, phase \in {"run", "ending"}, NEW discard \in BOOLEAN,
           php_output_end(discard)
    PROVE  Inv'
<1>1. AtLoop /\ calls = <<>> /\ active # Null /\ CallPop(calls, FALSE, discard)
  BY ProgramAlone DEF php_output_end, AtLoop
<1> QED
  BY <1>1, CallPopStep

\* One iteration of php_output_end_all keeps the invariant.
LEMMA EndAllStepStep ==
    ASSUME Inv, phase \in {"run", "ending"}, EndAllStep
    PROVE  Inv'
<1>0. calls # <<>> /\ Top.fn = "endall" /\ Top.flags \in BOOLEAN
  BY NormalFacts DEF EndAllStep, In, FrameType
<1>1. CASE active = Null
  BY <1>0, <1>1, LoopEnds DEF EndAllStep
<1>2. CASE active # Null
  BY <1>0, <1>2, CallPopStep DEF EndAllStep, AtLoop
<1> QED
  BY <1>1, <1>2
(* A loop over the stack is entered.                                       *)
LEMMA LoopCallFacts ==
    ASSUME Inv, phase \in {"run", "ending"}, calls = <<>>, phase = "run",
           NEW fn, NEW at, NEW flags \in BOOLEAN,
           (fn = "cleanall" /\ at = "call") \/ (fn = "endall" /\ at = "loop"),
           CallLoop(fn, at, flags)
    PROVE  \E d : /\ calls' = d /\ res' = res /\ Follows(d) /\ Carried(d, res, <<>>, 0, <<>>)
                  /\ UNCHANGED <<globals, hd, bad>> /\ FlowsOn(<<>>, 0, <<>>)
                  /\ Returned(d, res) /\ d # <<>> /\ Len(d) = 1 /\ d[1].fn = fn
<1>1. PICK g : g = Frame(fn, Null, Nothing, Len(handlers), at, flags)
  OBVIOUS
<1>2. PICK d : d = Append(calls, g)
  OBVIOUS
<1>3. /\ calls' = d /\ res' = res /\ UNCHANGED <<globals, hd, bad>>
      /\ UNCHANGED <<sink, dropped, written>>
  BY <1>1, <1>2 DEF CallLoop
<1>4. g.fn = fn /\ g.at = at /\ g.i = Len(handlers)
  BY <1>1 DEF Frame
<1>5. g \in FrameType
  <2>1. Null \in HandlerOrNull /\ Len(handlers) \in Nat
    BY NormalFacts DEF HandlerOrNull
  <2> QED
    BY <2>1, <1>1, NothingFacts, FrameTyped
<1>6. FrameOK(g) /\ g.fn # "handler"
  <2>1. Len(handlers) <= Len(handlers)
    BY NormalFacts
  <2> QED
    BY <2>1, <1>4 DEF FrameOK, CleanAllFrame
<1>7. Follows(d) /\ OnTop(d, g)
  BY <1>2, <1>5, <1>6, CallMade
<1>8. Carried(d, res, <<>>, 0, <<>>)
  BY <1>4, <1>7, CarriedByEmpty DEF Carried, Empty
<1>9. Returned(d, res) /\ d # <<>>
  BY <1>4, <1>7 DEF Returned, Carries, OnTop
<1>10. FlowsOn(<<>>, 0, <<>>)
  BY <1>3, IdleFacts, DataFacts, StillEmpty
<1>11. Len(d) = 1 /\ d[1].fn = fn
  <2>1. Len(d) = 1
    BY <1>2, <1>5, AppendFacts, NormalFacts DEF TypeInv
  <2> QED
    BY <2>1, <1>4, <1>7 DEF OnTop
<1> QED
  BY <1>3, <1>7, <1>8, <1>9, <1>10, <1>11

\* A loop over the stack starts with nothing in flight.
LEMMA LoopEntered ==
    ASSUME Inv, calls = <<>>, phase = "run", UNCHANGED phase,
           NEW fn, NEW at, NEW flags \in BOOLEAN,
           (fn = "cleanall" /\ at = "call") \/ (fn = "endall" /\ at = "loop"),
           CallLoop(fn, at, flags)
    PROVE  Inv'
<1>3. PICK d : /\ calls' = d /\ res' = res /\ Follows(d) /\ Carried(d, res, <<>>, 0, <<>>)
               /\ UNCHANGED <<globals, hd, bad>> /\ FlowsOn(<<>>, 0, <<>>)
               /\ Returned(d, res) /\ d # <<>>
  BY LoopCallFacts
<1>4. GoesTo(d, res)
  BY <1>3, DataFacts DEF GoesTo
<1> QED
  BY <1>3, <1>4, IdleFacts, QuietCall

\* The calls of php_output_clean_all and php_output_end_all keep the invariant.
LEMMA LoopStep ==
    ASSUME WritesOnly, Inv,
           php_output_clean_all \/ \E discard \in BOOLEAN : php_output_end_all(discard)
    PROVE  Inv'
<1>1. calls = <<>> /\ phase = "run" /\ UNCHANGED phase
  BY ProgramAlone DEF php_output_clean_all, php_output_end_all
<1>2. CASE php_output_clean_all
  BY <1>1, <1>2, LoopEntered DEF php_output_clean_all
<1>3. CASE \E discard \in BOOLEAN : php_output_end_all(discard)
  BY <1>1, <1>3, LoopEntered DEF php_output_end_all
<1> QED
  BY <1>2, <1>3

(* The end of the request.                                                 *)
LEMMA EndingStep ==
    ASSUME Inv, phase = "run", php_nano_deactivate_core
    PROVE  Inv'
<1>1. calls = <<>> /\ phase' = "ending" /\ CallLoop("endall", "loop", FALSE)
  BY DEF php_nano_deactivate_core
<1>2. PICK d : /\ calls' = d /\ res' = res /\ Follows(d) /\ Carried(d, res, <<>>, 0, <<>>)
               /\ UNCHANGED <<globals, hd, bad>> /\ FlowsOn(<<>>, 0, <<>>)
               /\ Returned(d, res) /\ d # <<>> /\ Len(d) = 1 /\ d[1].fn = "endall"
  BY <1>1, LoopCallFacts
<1>3. CallsOK(d, "ending")
  BY <1>2 DEF Follows, CallsOK
<1>4. d \in Seq(FrameType) /\ AllFrames(d) /\ Keeps(calls, d)
  BY <1>2 DEF Follows
<1>5. ~Carries(calls, {"handler"}, "deprecated")
  BY <1>1 DEF Carries
<1>6. Flow(sink', Buffers, Len(handlers), Flight(d, res), Gap(d),
           dropped' \union Tokens(Doomed(d, res)), written')
      /\ sink' \in Seq(Token) /\ written' \in 0..MaxWrites
  BY <1>2 DEF Carried, FlowsOn
<1> QED
  BY <1>1, <1>2, <1>3, <1>4, <1>5, <1>6, DataFacts, QuietStep
-----------------------------------------------------------------------------
(* A handler at work: its buffer changes.                                  *)

(* A handler that has called is in its callback, and runs.                 *)
LEMMA LowerHandler ==
    ASSUME Inv, phase \in {"run", "ending"}, NEW k \in 1..(Len(calls) - 1),
           calls[k].fn = "handler"
    PROVE  /\ calls[k].at = "callback" /\ HandlerFrame(calls[k])
           /\ running = calls[k].h /\ running # Null /\ Nested(Top)
<1>1. /\ CallsOK(calls, phase) /\ AllFrames(calls) /\ Len(calls) \in Nat
      /\ k \in 1..Len(calls) /\ Len(calls) \in 1..Len(calls) /\ k < Len(calls)
  BY NormalFacts
<1>2. Link(calls[k], calls[k + 1]) /\ Nested(Top)
  BY <1>1 DEF CallsOK, Top
<1>3. calls[k].at = "callback"
  BY <1>2 DEF Link
<1>4. HandlerFrame(calls[k])
  BY <1>1 DEF AllFrames, FrameOK
<1>5. running = calls[k].h /\ calls[k].h \in Handler
  BY <1>3, <1>4 DEF HandlerFrame, OnStack
<1> QED
  BY <1>2, <1>3, <1>4, <1>5, HandlerAssumption

\* C is Buffers with b at i.
BufferSet(C, i, b) ==
    /\ i \in 1..Len(handlers) /\ C \in [1..Len(handlers) -> Seq(Token)] /\ C[i] = b
    /\ \A j \in 1..Len(handlers) : j # i => C[j] = Buffers[j]

(* The handler on the stack and its buffer.                                *)
LEMMA StackBuffers ==
    ASSUME Inv, phase \in {"run", "ending"}, UNCHANGED handlers, NEW h, OnStack(h),
           NEW x \in HandlerType, hd' = [hd EXCEPT ![h] = x],
           NEW i, i = hd[h].level + 1
    PROVE  Buffers[i] = hd[h].buf /\ BufferSet(Buffers', i, x.buf)
<1>1. /\ h \in Handler /\ hd[h].level \in Nat /\ hd[h].level < Len(handlers)
      /\ handlers[i] = h /\ Len(handlers) \in Nat /\ hd \in [Handler -> HandlerType]
      /\ x.buf \in Seq(Token) /\ TableInv
  BY NormalFacts DEF OnStack, HandlerType, TypeInv
<1>2. i \in 1..Len(handlers)
  BY <1>1
<1>3. \A j \in 1..Len(handlers) : handlers[j] \in Handler /\ hd[handlers[j]].level = j - 1
  BY <1>1, NormalFacts DEF TableInv
<1>4. \A j \in 1..Len(handlers) : j # i => handlers[j] # h
  BY <1>1, <1>3
<1>5. \A j \in 1..Len(handlers) : Buffers'[j] = hd'[handlers[j]].buf
  BY DEF Buffers
<1>6. \A j \in 1..Len(handlers) : hd'[handlers[j]] = (IF j = i THEN x ELSE hd[handlers[j]])
  BY <1>1, <1>3, <1>4
<1>7. \A j \in 1..Len(handlers) : Buffers'[j] = (IF j = i THEN x.buf ELSE Buffers[j])
  BY <1>5, <1>6, NormalFacts
<1>8. \A j \in 1..Len(handlers) : Buffers'[j] \in Seq(Token)
  BY <1>1, <1>7, NormalFacts
<1>9. Buffers' \in [1..Len(handlers) -> Seq(Token)]
  <2>1. Buffers' = [j \in 1..Len(handlers) |-> hd'[handlers[j]].buf]
    BY DEF Buffers
  <2> QED
    BY <2>1, <1>5, <1>8
<1>10. BufferSet(Buffers', i, x.buf)
  BY <1>2, <1>7, <1>9 DEF BufferSet
<1> QED
  BY <1>1, <1>2, <1>10, NormalFacts

(* Frames other than those of handlers do not mind.                        *)
LEMMA FrameKept ==
    ASSUME Inv, phase \in {"run", "ending"}, UNCHANGED <<active, handlers, live>>,
           NEW h, OnStack(h), NEW x, hd' = [hd EXCEPT ![h] = x],
           NEW f, FrameOK(f), f.fn # "handler"
    PROVE  FrameOK(f)'
<1>1. /\ h \in Handler /\ hd[h].level \in Nat /\ hd[h].level < Len(handlers)
      /\ hd \in [Handler -> HandlerType] /\ live \in SUBSET Handler /\ Len(handlers) \in Nat
  BY NormalFacts DEF OnStack, TypeInv
<1>2. f.fn = "op" => OpFrame(f)'
  BY DEF FrameOK, OpFrame
<1>3. f.fn = "cleanall" => CleanAllFrame(f)'
  BY DEF FrameOK, CleanAllFrame
<1>4. ASSUME TakenFrame(f) PROVE TakenFrame(f)'
  <2>1. CASE f.at = "wait"
    BY <1>4, <2>1 DEF TakenFrame
  <2>2. CASE f.at # "wait"
    <3>1. f.h \in live /\ hd[f.h].level = Len(handlers) /\ hd[f.h].buf = <<>>
      BY <1>4, <2>2 DEF TakenFrame
    <3>2. f.h # h /\ f.h \in Handler
      BY <3>1, <1>1
    <3>3. hd'[f.h] = hd[f.h]
      BY <3>2, <1>1
    <3> QED
      BY <3>1, <3>3, <2>2 DEF TakenFrame
  <2> QED
    BY <2>1, <2>2
<1> QED
  BY <1>2, <1>3, <1>4 DEF FrameOK

\* Frames that hold a handler are kept.
HeldKept(c, d) ==
    \A k \in 1..Len(c) : Holding(c[k]) => \E m \in 1..Len(d) : Same(c[k], d[m])

\* Handler h becomes x, and the calls go on with d and the result r.
HandlerGoes(h, x, d, r) ==
    /\ UNCHANGED <<activated, active, handlers, live, bad, phase, sink, written>>
    /\ OnStack(h) /\ x \in HandlerType /\ x.level = hd[h].level /\ hd' = [hd EXCEPT ![h] = x]
    /\ Carries(calls, {"handler"}, "deprecated") => Top.h = h
    /\ calls' = d /\ d \in Seq(FrameType) /\ d # <<>> /\ CallsOK(d, phase)
    /\ \A k \in 1..Len(d) : FrameOK(d[k])'
    /\ HeldKept(calls, d) /\ res' = r /\ r \in Res /\ Returned(d, r)'
    /\ r.status \notin {"success", "failure"} => r.ctx.out = <<>>
    /\ running' \in HandlerOrNull
    /\ running' # Null => \E k \in 1..Len(d) : Busy(d[k]) /\ d[k].h = running'
    /\ x.disabled => x.buf = <<>> \/ (Carries(d, {"handler"}, "deprecated") /\ d[Len(d)].h = h)

\* A step that changes one handler h on the stack to x keeps the invariant if
\* the data still flow.
LEMMA HandlerStep ==
    ASSUME Inv, phase \in {"run", "ending"}, NEW h, NEW x, NEW d, NEW r,
           HandlerGoes(h, x, d, r), NEW F, NEW gap, NEW D, Carried(d, r, F, gap, D),
           Flow(sink, Buffers', Len(handlers), F, gap, dropped' \union Tokens(D), written)
    PROVE  Inv'
<1> USE DEF HandlerGoes
<1>1. /\ TypeInv /\ ~bad /\ NormalInv /\ TableInv /\ h \in Handler /\ hd[h].level < Cardinality(Handler)
      /\ hd \in [Handler -> HandlerType]
  BY NormalFacts DEF OnStack, TypeInv
<1>2. \A g \in Handler : hd'[g] = IF g = h THEN x ELSE hd[g]
  BY <1>1
<1>3. \A g \in Handler : hd'[g].level = hd[g].level
  BY <1>2
<1>4. TypeInv'
  <2>1. hd' \in [Handler -> HandlerType]
    BY <1>1
  <2>2. (\A g \in Handler : hd[g].level < Cardinality(Handler))'
    BY <1>1, <1>3 DEF TypeInv
  <2> QED
    BY <2>1, <2>2, <1>1 DEF TypeInv
<1>5. TableInv'
  <2>1. \A g \in Handler : OnStack(g)' <=> OnStack(g)
    BY <1>3 DEF OnStack
  <2>2. ASSUME NEW g \in live, Taken(g) PROVE Taken(g)'
    <3>1. PICK k \in 1..Len(calls) : Holding(calls[k]) /\ calls[k].h = g
      BY <2>2 DEF Taken
    <3>2. PICK m \in 1..Len(d) : Same(calls[k], d[m])
      BY <3>1 DEF HeldKept
    <3>3. Holding(d[m]) /\ d[m].h = g
      BY <3>1, <3>2 DEF Same
    <3> QED
      BY <3>3 DEF Taken
  <2>3. ASSUME Cut PROVE Cut'
    <3>1. PICK k \in 1..Len(calls) : Holding(calls[k]) /\ calls[k].fn = "flush"
      BY <2>3 DEF Cut
    <3>2. PICK m \in 1..Len(d) : Same(calls[k], d[m])
      BY <3>1 DEF HeldKept
    <3>3. Holding(d[m]) /\ d[m].fn = "flush"
      BY <3>1, <3>2 DEF Same
    <3> QED
      BY <3>3 DEF Cut
  <2>4. (\A g \in live : OnStack(g) \/ Taken(g))'
    BY <2>1, <2>2, <1>1 DEF TableInv, TypeInv
  <2>5. (~Cut => active = TopOf(handlers))'
    BY <2>3, <1>1 DEF TableInv
  <2>6. (\A i \in 1..Len(handlers) : handlers[i] \in live /\ hd[handlers[i]].level = i - 1)'
    BY <1>1, <1>3, NormalFacts DEF TableInv
  <2>7. ASSUME NEW g \in Handler, hd'[g].disabled
        PROVE  hd'[g].buf = <<>> \/ (Carries(d, {"handler"}, "deprecated") /\ d[Len(d)].h = g)
    BY <2>7, <1>1, <1>2 DEF TableInv
  <2>8. (\A g \in Handler : hd[g].disabled =>
          hd[g].buf = <<>> \/ (Carries(calls, {"handler"}, "deprecated") /\ Top.h = g))'
    BY <2>7 DEF Top
  <2> QED
    BY <2>4, <2>5, <2>6, <2>8, <1>1 DEF TableInv
<1>6. Gap(d)' = Gap(d)
  <2>1. CASE Carries(d, {"handler"}, "enter")
    <3>1. Len(d) \in 1..Len(d)
      OBVIOUS
    <3>2. FrameOK(d[Len(d)])'
      BY <3>1
    <3>3. d[Len(d)].h \in Handler
      BY <3>2, <2>1 DEF FrameOK, HandlerFrame, OnStack, Carries
    <3> QED
      BY <3>3, <2>1, <1>3 DEF Gap
  <2>2. CASE ~Carries(d, {"handler"}, "enter")
    BY <2>2 DEF Gap
  <2> QED
    BY <2>1, <2>2
<1>7. DataInv'
  <2>1. /\ calls' = d /\ res' = r /\ sink' = sink /\ written' = written /\ handlers' = handlers
        /\ Gap(calls)' = gap
    BY <1>6 DEF Carried
  <2> QED
    BY <2>1 DEF DataInv, Carried
<1>8. CallsOK(calls, phase)' /\ AllFrames(calls)' /\ Returned(calls, res)'
  BY DEF AllFrames
<1>9. NormalInv'
  BY <1>5, <1>7, <1>8 DEF NormalInv
<1> QED
  BY <1>1, <1>4, <1>9 DEF Inv
(* What is at hand when a handler is on top.                               *)
LEMMA HandlerFacts ==
    ASSUME Inv, phase \in {"run", "ending"}, calls # <<>>, Top.fn = "handler"
    PROVE  /\ Top \in FrameType /\ HandlerFrame(Top) /\ OnStack(Top.h) /\ Top.h \in Handler
           /\ Top.h \in live /\ Top.ctx \in Ctx /\ Top.ctx.in \in Seq(Token)
           /\ Top.ctx.out = <<>> /\ hd[Top.h] \in HandlerType /\ hd[Top.h].buf \in Seq(Token)
           /\ hd[Top.h].level \in Nat /\ hd[Top.h].level + 1 \in 1..Len(handlers)
           /\ Buffers[hd[Top.h].level + 1] = hd[Top.h].buf /\ handlers # <<>> /\ active # Null
           /\ hd[Top.h].disabled \in BOOLEAN /\ hd[Top.h].produced \in BOOLEAN
           /\ Top.h \in Range(handlers)
<1>1. Top \in FrameType /\ HandlerFrame(Top) /\ OnStack(Top.h) /\ Top.h \in Handler /\ TableInv
  BY NormalFacts DEF FrameOK, HandlerFrame, OnStack
<1>2. Top.ctx \in Ctx /\ Top.ctx.in \in Seq(Token) /\ Top.ctx.out = <<>>
  BY <1>1 DEF FrameType, Ctx, HandlerFrame
<1>3. /\ hd[Top.h] \in HandlerType /\ hd[Top.h].buf \in Seq(Token) /\ hd[Top.h].level \in Nat
      /\ hd[Top.h].disabled \in BOOLEAN /\ hd[Top.h].produced \in BOOLEAN
  BY <1>1, NormalFacts DEF HandlerType
<1>4. hd[Top.h].level + 1 \in 1..Len(handlers) /\ handlers[hd[Top.h].level + 1] = Top.h
  BY <1>1, <1>3, NormalFacts DEF OnStack
<1>5. Top.h \in live /\ Buffers[hd[Top.h].level + 1] = hd[Top.h].buf
  BY <1>1, <1>4, NormalFacts DEF TableInv
<1>6. handlers # <<>>
  BY <1>4
<1>7. active # Null
  BY <1>6, ActiveHandler
<1>8. Top.h \in Range(handlers)
  <2>1. DOMAIN handlers = 1..Len(handlers)
    BY NormalFacts DEF TypeInv
  <2> QED
    BY <2>1, <1>4 DEF Range
<1> QED
  BY <1>1, <1>2, <1>3, <1>4, <1>5, <1>6, <1>7, <1>8

(* A disabled handler returns at once: it holds nothing.                   *)
LEMMA DisabledReturns ==
    ASSUME Inv, phase \in {"run", "ending"}, In("handler", "enter"), hd[Top.h].disabled,
           Return(Result("failure", Top.ctx)), UNCHANGED <<globals, hd, sink, rest>>
    PROVE  Inv'
<1>0. calls # <<>> /\ Top.fn = "handler" /\ Top.at = "enter"
  BY DEF In
<1>1. PICK r : r = Result("failure", Top.ctx)
  OBVIOUS
<1>2. PICK d : d = Pop
  OBVIOUS
<1>3. /\ calls' = d /\ res' = r /\ UNCHANGED <<globals, hd, bad, phase>>
      /\ UNCHANGED <<sink, dropped, written>>
  BY <1>1, <1>2 DEF Return, rest
<1>4. r \in Res /\ r.status = "failure" /\ r.ctx = Top.ctx /\ r.ctx.out = <<>>
  BY <1>0, <1>1, HandlerFacts, ResultFields
<1>5. /\ d # <<>>
      /\ \/ /\ Flight(d, r) = r.ctx.out /\ Gap(d) = hd[Top.h].level /\ Doomed(d, r) = <<>>
         \/ Flight(d, r) = <<>> /\ Gap(d) = 0 /\ Doomed(d, r) = r.ctx.out
      /\ Carries(d, {"flush", "pop"}, "wait") => d[Len(d)].h = Top.h
      /\ Carries(d, {"op"}, "wait") => d[Len(d)].ctx.op = Top.ctx.op
  BY <1>0, <1>2, HandlerReturns
<1>6. Top.ctx.in = <<>>
  BY <1>0, HandlerFacts DEF HandlerFrame
<1>7. ~Carries(calls, {"handler"}, "deprecated")
  BY <1>0 DEF Carries, Top
<1>8. hd[Top.h].buf = <<>>
  BY <1>0, <1>7, HandlerFacts, NormalFacts DEF TableInv
<1>9. Returned(d, r)
  BY <1>4, <1>5, <1>8 DEF Returned
<1>10. Follows(d)
  <2>1. /\ calls \in Seq(FrameType) /\ CallsOK(calls, phase) /\ AllFrames(calls)
        /\ d = SubSeq(calls, 1, Len(calls) - 1)
    BY <1>2, NormalFacts DEF TypeInv, Pop
  <2>2. d \in Seq(FrameType) /\ CallsOK(d, phase) /\ AllFrames(d)
    BY <2>1, <1>0, CallsPop
  <2>3. Keeps(calls, d)
    BY <2>1, <1>0, CallsPop DEF Holding, Busy, Top
  <2> QED
    BY <2>2, <2>3 DEF Follows
<1>11. GoesTo(d, r)
  BY <1>3, <1>4, <1>5, <1>9, <1>10 DEF GoesTo
<1>12. PICK gap : gap = Gap(d)
  OBVIOUS
<1>13. Carried(d, r, <<>>, gap, <<>>) /\ gap \in 0..Len(handlers)
  <2>1. hd[Top.h].level \in 0..Len(handlers) /\ 0 \in 0..Len(handlers)
    BY <1>0, HandlerFacts, DataFacts
  <2> QED
    BY <2>1, <1>4, <1>5, <1>12 DEF Carried
<1>14. Flight(calls, res) = <<>> /\ Doomed(calls, res) = <<>>
  BY <1>0, <1>6, CarriedByEnter DEF Top, OnTop
<1>15. FlowsOn(<<>>, gap, <<>>)
  BY <1>3, <1>13, <1>14, StillEmpty
<1> QED
  BY <1>7, <1>11, <1>13, <1>15, QuietCall

(* A handler returns, and its buffer has changed.                          *)
LEMMA HandlerLeaves ==
    ASSUME Inv, phase \in {"run", "ending"}, calls # <<>>, Top.fn = "handler",
           NEW x \in HandlerType, x.level = hd[Top.h].level, hd' = [hd EXCEPT ![Top.h] = x],
           UNCHANGED <<activated, active, handlers, live, bad, phase, sink, written>>,
           NEW d, d = Pop, calls' = d, NEW r \in Res, res' = r,
           r.status \notin {"success", "failure"} => r.ctx.out = <<>>,
           r.ctx.op = Top.ctx.op, x.disabled => x.buf = <<>>,
           Top.ctx.op # "write" => x.buf = <<>>,
           \/ running' = Null /\ \A k \in 1..(Len(calls) - 1) : calls[k].fn # "handler"
           \/ /\ running' = running /\ ~Busy(Top) /\ ~x.disabled
              /\ \E s \in Seq(Token) : x.buf = hd[Top.h].buf \o s
    PROVE  HandlerGoes(Top.h, x, d, r)
<1>1. /\ OnStack(Top.h) /\ Top.h \in Handler /\ hd[Top.h].buf \in Seq(Token)
      /\ hd \in [Handler -> HandlerType] /\ TypeInv /\ Len(calls) \in Nat
  BY HandlerFacts, NormalFacts DEF TypeInv
<1>2. /\ d # <<>> /\ d \in Seq(FrameType) /\ CallsOK(d, phase) /\ AllFrames(d)
      /\ Len(d) = Len(calls) - 1 /\ \A k \in 1..Len(d) : d[k] = calls[k]
      /\ Link(d[Len(d)], Top)
  <2>1. /\ calls \in Seq(FrameType) /\ CallsOK(calls, phase) /\ AllFrames(calls)
        /\ d = SubSeq(calls, 1, Len(calls) - 1)
    BY NormalFacts DEF TypeInv, Pop
  <2>2. d # <<>>
    BY HandlerReturns
  <2>3. d \in Seq(FrameType) /\ CallsOK(d, phase) /\ AllFrames(d) /\ Len(d) = Len(calls) - 1
    BY <2>1, CallsPop
  <2>4. (\A k \in 1..Len(d) : d[k] = calls[k]) /\ Link(d[Len(d)], Top)
    BY <2>1, <2>2, CallsPop DEF Top
  <2> QED
    BY <2>2, <2>3, <2>4
<1>3. \A k \in 1..Len(d) : k \in 1..(Len(calls) - 1) /\ FrameOK(d[k]) /\ d[k] = calls[k]
  BY <1>2 DEF AllFrames
<1>4. ASSUME NEW k \in 1..Len(d) PROVE FrameOK(d[k])'
  <2>1. CASE d[k].fn # "handler"
    BY <2>1, <1>1, <1>3, FrameKept
  <2>2. CASE d[k].fn = "handler"
    <3>1. /\ d[k].at = "callback" /\ HandlerFrame(d[k]) /\ running = d[k].h
      BY <2>2, <1>3, LowerHandler
    <3>2. running' = running /\ ~x.disabled
      BY <2>2, <1>3
    <3>3. PICK s \in Seq(Token) : x.buf = hd[Top.h].buf \o s
      BY <2>2, <1>3
    <3>4. /\ OnStack(d[k].h) /\ d[k].ctx.out = <<>> /\ ~hd[d[k].h].disabled
          /\ Prefix(d[k].ctx.in, hd[d[k].h].buf) /\ d[k].h \in Handler
      BY <3>1 DEF HandlerFrame, OnStack
    <3>5. d[k].ctx.in \in Seq(Token)
      <4>1. d[k] \in FrameType
        BY <1>2
      <4> QED
        BY <4>1 DEF FrameType, Ctx
    <3>6. Prefix(d[k].ctx.in, hd'[d[k].h].buf) /\ ~hd'[d[k].h].disabled
          /\ hd'[d[k].h].level = hd[d[k].h].level
      <4>1. CASE d[k].h = Top.h
        <5>1. hd'[d[k].h] = x
          BY <4>1, <1>1
        <5>2. Prefix(d[k].ctx.in, hd[Top.h].buf \o s)
          BY <3>4, <3>5, <4>1, <1>1, PrefixPieces, SizeAssumption
        <5> QED
          BY <5>1, <5>2, <3>2, <3>3, <4>1
      <4>2. CASE d[k].h # Top.h
        BY <4>2, <3>4, <1>1
      <4> QED
        BY <4>1, <4>2
    <3>7. OnStack(d[k].h)'
      BY <3>4, <3>6 DEF OnStack
    <3>8. HandlerFrame(d[k])'
      BY <3>1, <3>2, <3>4, <3>6, <3>7 DEF HandlerFrame
    <3> QED
      BY <2>2, <3>8 DEF FrameOK
  <2> QED
    BY <2>1, <2>2
<1>5. HeldKept(calls, d)
  <2> SUFFICES ASSUME NEW k \in 1..Len(calls), Holding(calls[k])
               PROVE  \E m \in 1..Len(d) : Same(calls[k], d[m])
    BY DEF HeldKept
  <2>1. k # Len(calls)
    BY DEF Holding, Top
  <2>2. k \in 1..Len(d) /\ d[k] = calls[k]
    BY <2>1, <1>1, <1>2
  <2> QED
    BY <2>2 DEF Same
<1>6. Returned(d, r)'
  <2>1. Carries(d, {"op"}, "wait") => r.ctx.op = d[Len(d)].ctx.op
    BY HandlerReturns
  <2>2. ASSUME Carries(d, {"flush", "pop"}, "wait") PROVE hd'[d[Len(d)].h].buf = <<>>
    <3>1. Top.ctx.op # "write" /\ d[Len(d)].h = Top.h
      BY <2>2, <1>2 DEF Link, Carries
    <3> QED
      BY <3>1, <1>1
  <2> QED
    BY <2>1, <2>2 DEF Returned, Carries
<1>7. running' \in HandlerOrNull
  BY <1>1 DEF TypeInv, HandlerOrNull
<1>8. running' # Null => \E k \in 1..Len(d) : Busy(d[k]) /\ d[k].h = running'
  <2> SUFFICES ASSUME running' # Null PROVE \E k \in 1..Len(d) : Busy(d[k]) /\ d[k].h = running'
    OBVIOUS
  <2>1. running' = running /\ ~Busy(Top)
    OBVIOUS
  <2>2. PICK k \in 1..Len(calls) : Busy(calls[k]) /\ calls[k].h = running
    BY <2>1, NormalFacts DEF TableInv
  <2>3. k # Len(calls)
    BY <2>1, <2>2 DEF Top
  <2>4. k \in 1..Len(d) /\ d[k] = calls[k]
    BY <2>3, <1>1, <1>2
  <2> QED
    BY <2>1, <2>2, <2>4
<1> QED
  BY <1>1, <1>2, <1>4, <1>5, <1>6, <1>7, <1>8 DEF HandlerGoes

(* What it returns is in flight below it, or about to be discarded.        *)
LEMMA HandlerFlows ==
    ASSUME Inv, phase \in {"run", "ending"}, calls # <<>>, Top.fn = "handler",
           NEW d, d = Pop, NEW r, r.ctx.out \in Seq(Token),
           Buffers' \in [1..Len(handlers) -> Seq(Token)],
           Flow(sink, Buffers', Len(handlers), r.ctx.out, hd[Top.h].level, dropped', written)
    PROVE  \E F, gap, D : /\ Carried(d, r, F, gap, D)
                          /\ Flow(sink, Buffers', Len(handlers), F, gap,
                                  dropped' \union Tokens(D), written)
<1>0. PICK C : C = Buffers'
  OBVIOUS
<1>1. PICK e : e = dropped'
  OBVIOUS
<1>2. C \in [1..Len(handlers) -> Seq(Token)] /\ sink \in Seq(Token) /\ Len(handlers) \in Nat
      /\ written \in Nat /\ 0 \in 0..Len(handlers)
  BY <1>0, DataFacts
<1>3. Flow(sink, C, Len(handlers), r.ctx.out, hd[Top.h].level, e, written)
  BY <1>0, <1>1
<1>4. CASE Flight(d, r) = r.ctx.out /\ Gap(d) = hd[Top.h].level /\ Doomed(d, r) = <<>>
  <2>1. e \union Tokens(<<>>) = e
    BY EmptyPiece
  <2>2. Flow(sink, C, Len(handlers), r.ctx.out, hd[Top.h].level, e \union Tokens(<<>>), written)
    BY <1>3, <2>1
  <2>3. Carried(d, r, r.ctx.out, hd[Top.h].level, <<>>)
    BY <1>4 DEF Carried
  <2> QED
    BY <2>2, <2>3, <1>0, <1>1
<1>5. CASE Flight(d, r) = <<>> /\ Gap(d) = 0 /\ Doomed(d, r) = r.ctx.out
  <2>1. PICK b : b = e \union Tokens(r.ctx.out)
    OBVIOUS
  <2>2. (\A t \in e : t \in b) /\ \A t \in Tokens(r.ctx.out) : t \in b
    BY <2>1
  <2>3. Flow(sink, C, Len(handlers), <<>>, 0, b, written)
    BY <1>2, <1>3, <2>2, FlowDiscard
  <2>4. Carried(d, r, <<>>, 0, r.ctx.out)
    BY <1>5 DEF Carried
  <2> QED
    BY <2>1, <2>3, <2>4, <1>0, <1>1
<1> QED
  BY <1>4, <1>5, HandlerReturns

(* The piece is appended to the buffer of the handler.                     *)
LEMMA PieceStored ==
    ASSUME Inv, phase \in {"run", "ending"}, In("handler", "enter"), UNCHANGED handlers,
           NEW x \in HandlerType, hd' = [hd EXCEPT ![Top.h] = x],
           x.buf = hd[Top.h].buf \o Top.ctx.in, NEW gap \in 0..Len(handlers)
    PROVE  /\ Flow(sink, Buffers', Len(handlers), <<>>, gap, dropped, written)
           /\ Buffers' \in [1..Len(handlers) -> Seq(Token)]
<1>0. calls # <<>> /\ Top.fn = "handler" /\ Top.at = "enter"
  BY DEF In
<1>1. PICK i : i = hd[Top.h].level + 1
  OBVIOUS
<1>2. PICK C : C = Buffers'
  OBVIOUS
<1>3. OnStack(Top.h) /\ Top.ctx.in \in Seq(Token)
  BY <1>0, HandlerFacts
<1>4. /\ i \in 1..Len(handlers) /\ Buffers[i] = hd[Top.h].buf
      /\ C \in [1..Len(handlers) -> Seq(Token)] /\ C[i] = x.buf
      /\ \A j \in 1..Len(handlers) : j # i => C[j] = Buffers[j]
  <2>1. Buffers[i] = hd[Top.h].buf /\ BufferSet(C, i, x.buf)
    BY <1>1, <1>2, <1>3, StackBuffers
  <2> QED
    BY <2>1 DEF BufferSet
<1>5. Flight(calls, res) = Top.ctx.in /\ Gap(calls) = i /\ Doomed(calls, res) = <<>>
  BY <1>0, <1>1, CarriedByEnter DEF Top, OnTop
<1>6. dropped \union Tokens(<<>>) = dropped
  BY EmptyPiece
<1>7. Flow(sink, Buffers, Len(handlers), Top.ctx.in, i, dropped, written)
  BY <1>5, <1>6, DataFacts
<1>8. C[i] = Buffers[i] \o Top.ctx.in
  BY <1>4
<1>9. Flow(sink, C, Len(handlers), <<>>, gap, dropped, written)
  <2>1. /\ sink \in Seq(Token) /\ Len(handlers) \in Nat /\ written \in Nat
        /\ Buffers \in [1..Len(handlers) -> Seq(Token)]
    BY DataFacts
  <2> QED
    BY <2>1, <1>3, <1>4, <1>7, <1>8, FlowStore
<1> QED
  BY <1>2, <1>4, <1>9

\* The handler of php_output_handler_op with its input appended.
StoredHandler(h, ctx) ==
    [hd[h] EXCEPT !.buf = hd[h].buf \o ctx.in,
                  !.produced = @ \/ (ctx.op = "write" /\ active # Null /\ running # Null)]

\* php_output_handler_append puts the input at the end of the buffer and
\* changes nothing else that the invariant tells apart.
LEMMA StoredFacts ==
    ASSUME Inv, phase \in {"run", "ending"}, In("handler", "enter"),
           NEW x, x = StoredHandler(Top.h, Top.ctx)
    PROVE  /\ x \in HandlerType /\ x.level = hd[Top.h].level
           /\ x.disabled = hd[Top.h].disabled /\ x.buf = hd[Top.h].buf \o Top.ctx.in
<1>1. calls # <<>> /\ Top.fn = "handler"
  BY DEF In
<1>2. PICK b \in BOOLEAN :
          b = (hd[Top.h].produced \/ (Top.ctx.op = "write" /\ active # Null /\ running # Null))
  OBVIOUS
<1>3. PICK s : s = hd[Top.h].buf \o Top.ctx.in
  OBVIOUS
<1>4. s \in Seq(Token)
  BY <1>1, <1>3, HandlerFacts
<1>5. x = [hd[Top.h] EXCEPT !.buf = s, !.produced = b]
  <2>1. hd[Top.h] \in HandlerType
    BY <1>1, HandlerFacts
  <2> QED
    BY <2>1, <1>2, <1>3 DEF StoredHandler, HandlerType
<1>6. hd[Top.h] \in HandlerType
  BY <1>1, HandlerFacts
<1>7. x.level = hd[Top.h].level /\ x.disabled = hd[Top.h].disabled /\ x.buf = s
  BY <1>5, <1>6 DEF HandlerType
<1>8. x \in HandlerType
  BY <1>2, <1>4, <1>5, <1>6 DEF HandlerType
<1> QED
  BY <1>3, <1>7, <1>8

(* The handler on top goes on, running.                                    *)
LEMMA HandlerContinues ==
    ASSUME Inv, phase \in {"run", "ending"}, calls # <<>>, Top.fn = "handler",
           \A k \in 1..(Len(calls) - 1) : calls[k].fn # "handler",
           NEW x \in HandlerType, x.level = hd[Top.h].level, hd' = [hd EXCEPT ![Top.h] = x],
           UNCHANGED <<activated, active, handlers, live, bad, phase, sink, written, res>>,
           NEW f \in FrameType, f.fn = "handler", f.h = Top.h, f.ctx.op = Top.ctx.op,
           f.at # "enter", HandlerFrame(f)', running' = Top.h,
           x.disabled => x.buf = <<>> \/ f.at = "deprecated",
           NEW d, d = Becomes(f), calls' = d
    PROVE  HandlerGoes(Top.h, x, d, res) /\ Carried(d, res, <<>>, 0, <<>>)
<1>1. /\ OnStack(Top.h) /\ Top.h \in Handler /\ hd \in [Handler -> HandlerType]
      /\ Len(calls) \in Nat /\ Len(calls) \in 1..Len(calls)
      /\ calls \in Seq(FrameType) /\ CallsOK(calls, phase) /\ AllFrames(calls)
  BY HandlerFacts, NormalFacts DEF TypeInv
<1>2. /\ d = Append(SubSeq(calls, 1, Len(calls) - 1), f) /\ f.fn = calls[Len(calls)].fn
      /\ f.ctx.op = calls[Len(calls)].ctx.op /\ f.h = calls[Len(calls)].h
  BY DEF Becomes, Pop, Top
<1>3. d \in Seq(FrameType) /\ CallsOK(d, phase)
  BY <1>1, <1>2, CallsReplace
<1>4. Len(d) = Len(calls) /\ \A k \in 1..(Len(calls) - 1) : d[k] = calls[k]
  <2>1. PICK b : b = SubSeq(calls, 1, Len(calls) - 1)
    OBVIOUS
  <2>2. /\ b \in Seq(FrameType) /\ Len(b) = Len(calls) - 1
        /\ \A k \in 1..(Len(calls) - 1) : b[k] = calls[k]
    BY <2>1, <1>1, FrontFacts
  <2>3. Len(d) = Len(b) + 1 /\ \A k \in 1..Len(b) : d[k] = b[k]
    BY <2>1, <2>2, <1>2, AppendFacts
  <2> QED
    BY <2>2, <2>3, <1>1
<1>5. OnTop(d, f)
  <2>1. d[Len(d)] = f
    BY <1>1, <1>2, CallsReplace
  <2>2. d # <<>>
    BY <1>1, <1>4, NoElements
  <2> QED
    BY <2>1, <2>2 DEF OnTop
<1>6. ASSUME NEW k \in 1..Len(d) PROVE FrameOK(d[k])'
  <2>1. CASE k = Len(d)
    <3>1. d[k] = f
      BY <2>1, <1>5 DEF OnTop
    <3>2. FrameOK(f)'
      BY DEF FrameOK
    <3> QED
      BY <3>1, <3>2
  <2>2. CASE k # Len(d)
    <3>1. k \in 1..(Len(calls) - 1) /\ k \in 1..Len(calls) /\ d[k] = calls[k]
      BY <2>2, <1>1, <1>4
    <3>2. FrameOK(d[k]) /\ d[k].fn # "handler"
      BY <3>1, <1>1 DEF AllFrames
    <3> QED
      BY <3>2, <1>1, FrameKept
  <2> QED
    BY <2>1, <2>2
<1>7. HeldKept(calls, d)
  <2> SUFFICES ASSUME NEW k \in 1..Len(calls), Holding(calls[k])
               PROVE  \E m \in 1..Len(d) : Same(calls[k], d[m])
    BY DEF HeldKept
  <2>1. k # Len(calls)
    BY DEF Holding, Top
  <2>2. k \in 1..Len(d) /\ d[k] = calls[k]
    BY <2>1, <1>1, <1>4
  <2> QED
    BY <2>2 DEF Same
<1>8. Returned(d, res)'
  BY <1>5 DEF Returned, Carries, OnTop
<1>9. running' \in HandlerOrNull /\ \E k \in 1..Len(d) : Busy(d[k]) /\ d[k].h = running'
  <2>1. Len(d) \in 1..Len(d) /\ Busy(d[Len(d)]) /\ d[Len(d)].h = running'
    BY <1>1, <1>4, <1>5 DEF Busy, OnTop
  <2> QED
    BY <2>1, <1>1 DEF HandlerOrNull
<1>10. x.disabled => x.buf = <<>> \/ (Carries(d, {"handler"}, "deprecated") /\ d[Len(d)].h = Top.h)
  BY <1>5 DEF Carries, OnTop
<1>11. HandlerGoes(Top.h, x, d, res)
  BY <1>1, <1>3, <1>5, <1>6, <1>7, <1>8, <1>9, <1>10, DataFacts DEF HandlerGoes, OnTop
<1>12. Carried(d, res, <<>>, 0, <<>>)
  BY <1>5, CarriedByEmpty DEF Carried, Empty
<1> QED
  BY <1>11, <1>12

(* php_output_handler_op on a handler that is not disabled.                *)
LEMMA HandlerOpStores ==
    ASSUME Inv, phase \in {"run", "ending"}, In("handler", "enter"), ~hd[Top.h].disabled,
           Top.ctx.op = "write", NEW x, x = StoredHandler(Top.h, Top.ctx),
           hd' = [hd EXCEPT ![Top.h] = x], Return(Result("nodata", Top.ctx)),
           UNCHANGED <<activated, active, running, handlers, live, sink, rest>>
    PROVE  Inv'
<1>0. calls # <<>> /\ Top.fn = "handler" /\ Top.at = "enter"
  BY DEF In
<1>1. PICK r : r = Result("nodata", Top.ctx)
  OBVIOUS
<1>2. PICK d : d = Pop
  OBVIOUS
<1>3. calls' = d /\ res' = r
  BY <1>1, <1>2 DEF Return
<1>4. r \in Res /\ r.status = "nodata" /\ r.ctx = Top.ctx /\ r.ctx.out = <<>>
  BY <1>0, <1>1, HandlerFacts, ResultFields
<1>5. /\ x \in HandlerType /\ x.level = hd[Top.h].level /\ ~x.disabled
      /\ x.buf = hd[Top.h].buf \o Top.ctx.in /\ Top.ctx.in \in Seq(Token)
  BY <1>0, StoredFacts, HandlerFacts
<1>6. HandlerGoes(Top.h, x, d, r)
  <2>1. ~Busy(Top) /\ \E s \in Seq(Token) : x.buf = hd[Top.h].buf \o s
    BY <1>0, <1>5 DEF Busy
  <2>2. UNCHANGED <<activated, active, handlers, live, bad, phase, sink, written>> /\ running' = running
    BY DEF rest
  <2> QED
    BY <2>1, <2>2, <1>0, <1>2, <1>3, <1>4, <1>5, HandlerLeaves
<1>7. hd[Top.h].level \in 0..Len(handlers)
  BY <1>0, HandlerFacts, DataFacts
<1>8. /\ Flow(sink, Buffers', Len(handlers), r.ctx.out, hd[Top.h].level, dropped', written)
      /\ Buffers' \in [1..Len(handlers) -> Seq(Token)]
  <2>1. /\ Flow(sink, Buffers', Len(handlers), <<>>, hd[Top.h].level, dropped, written)
        /\ Buffers' \in [1..Len(handlers) -> Seq(Token)]
    BY <1>5, <1>7, PieceStored
  <2> QED
    BY <2>1, <1>4 DEF rest
<1>9. r.ctx.out \in Seq(Token)
  BY <1>4, NoElements
<1>10. PICK F, gap, D : /\ Carried(d, r, F, gap, D)
                        /\ Flow(sink, Buffers', Len(handlers), F, gap,
                                dropped' \union Tokens(D), written)
  BY <1>0, <1>2, <1>8, <1>9, HandlerFlows
<1> QED
  BY <1>6, <1>10, HandlerStep

\* php_output_handler_op takes the buffer and runs the handler.
LEMMA HandlerOpRuns ==
    ASSUME Inv, phase \in {"run", "ending"}, In("handler", "enter"), ~hd[Top.h].disabled,
           running = Null \/ Top.ctx.op # "write",
           NEW x, x = StoredHandler(Top.h, Top.ctx), hd' = [hd EXCEPT ![Top.h] = x],
           NEW at \in {"callback", "internal"}, running' = Top.h,
           calls' = Becomes([Top EXCEPT !.ctx.in = x.buf, !.at = at]),
           UNCHANGED <<activated, active, handlers, live, sink, res, rest>>
    PROVE  Inv'
<1>0. calls # <<>> /\ Top.fn = "handler" /\ Top.at = "enter"
  BY DEF In
<1>1. PICK f : f = [Top EXCEPT !.ctx.in = x.buf, !.at = at]
  OBVIOUS
<1>2. PICK d : d = Becomes(f)
  OBVIOUS
<1>3. /\ Top \in FrameType /\ HandlerFrame(Top) /\ OnStack(Top.h) /\ Top.h \in Handler
      /\ Top.ctx \in Ctx /\ Top.ctx.out = <<>> /\ hd \in [Handler -> HandlerType]
      /\ hd[Top.h].buf \in Seq(Token) /\ Top.ctx.in \in Seq(Token)
  BY <1>0, HandlerFacts, NormalFacts DEF TypeInv
<1>4. /\ x \in HandlerType /\ x.level = hd[Top.h].level /\ ~x.disabled
      /\ x.buf = hd[Top.h].buf \o Top.ctx.in /\ x.buf \in Seq(Token)
  <2>1. /\ x \in HandlerType /\ x.level = hd[Top.h].level /\ x.disabled = hd[Top.h].disabled
        /\ x.buf = hd[Top.h].buf \o Top.ctx.in
    BY StoredFacts
  <2>2. x.buf \in Seq(Token)
    BY <2>1 DEF HandlerType
  <2> QED
    BY <2>1, <2>2
<1>5. /\ f.fn = "handler" /\ f.h = Top.h /\ f.at = at /\ f.ctx.op = Top.ctx.op
      /\ f.ctx.in = x.buf /\ f.ctx.out = <<>> /\ f.ctx \in Ctx
  BY <1>0, <1>1, <1>3, <1>4 DEF FrameType, Ctx
<1>6. f \in FrameType
  BY <1>1, <1>3, <1>5 DEF FrameType
<1>7. \A k \in 1..(Len(calls) - 1) : calls[k].fn # "handler"
  BY LowerHandler DEF Nested
<1>8. HandlerFrame(f)'
  <2>1. hd'[Top.h] = x
    BY <1>3
  <2>2. OnStack(f.h)'
    BY <2>1, <1>3, <1>4, <1>5 DEF OnStack
  <2>3. Prefix(f.ctx.in, hd'[f.h].buf)
    <3>1. \A s \in Seq(Token) : Prefix(s, s)
      BY DEF Prefix
    <3> QED
      BY <2>1, <3>1, <1>4, <1>5
  <2> QED
    BY <2>1, <2>2, <2>3, <1>4, <1>5 DEF HandlerFrame
<1>9. UNCHANGED <<activated, active, handlers, live, bad, phase, sink, written, res>>
  BY DEF rest
<1>10. HandlerGoes(Top.h, x, d, res) /\ Carried(d, res, <<>>, 0, <<>>)
  BY <1>0, <1>1, <1>2, <1>4, <1>5, <1>6, <1>7, <1>8, <1>9, HandlerContinues
<1>11. Flow(sink, Buffers', Len(handlers), <<>>, 0, dropped' \union Tokens(<<>>), written)
  <2>1. Flow(sink, Buffers', Len(handlers), <<>>, 0, dropped, written)
    BY <1>4, DataFacts, PieceStored
  <2>2. dropped' \union Tokens(<<>>) = dropped
    BY EmptyPiece DEF rest
  <2> QED
    BY <2>1, <2>2
<1> QED
  BY <1>10, <1>11, HandlerStep

(* The frame of a handler that is running is the only one of a handler.    *)
LEMMA RunsAlone ==
    ASSUME Inv, phase \in {"run", "ending"}, calls # <<>>, Top.fn = "handler", Top.at # "enter"
    PROVE  \A k \in 1..(Len(calls) - 1) : calls[k].fn # "handler"
BY LowerHandler DEF Nested

(* The end of php_output_handler_op.                                       *)
LEMMA FinishStep ==
    ASSUME Inv, phase \in {"run", "ending"}, calls # <<>>, Top.fn = "handler",
           Top.at # "enter", NEW ctx \in Ctx, ctx.op = Top.ctx.op,
           Prefix(ctx.out, hd[Top.h].buf), NEW status \in {"success", "failure", "nodata"},
           status # "success" => ctx.out = <<>>, ~hd[Top.h].disabled,
           Finish(Top.h, ctx, status)
    PROVE  Inv'
<1>1. PICK out : out = CASE status = "failure" -> hd[Top.h].buf
                         [] status = "success" -> ctx.out
                         [] OTHER -> <<>>
  OBVIOUS
<1>2. PICK x : x = IF status = "failure" THEN [hd[Top.h] EXCEPT !.disabled = TRUE, !.buf = <<>>]
                   ELSE [hd[Top.h] EXCEPT !.buf = <<>>]
  OBVIOUS
<1>3. PICK r : r = Result(status, IF status = "failure" THEN [ctx EXCEPT !.out = hd[Top.h].buf]
                                  ELSE IF status = "success" THEN ctx
                                  ELSE Context(ctx.op, <<>>))
  OBVIOUS
<1>4. PICK d : d = Pop
  OBVIOUS
<1>5. /\ hd[Top.h] \in HandlerType /\ hd[Top.h].buf \in Seq(Token) /\ OnStack(Top.h)
      /\ Top.h \in Handler /\ hd \in [Handler -> HandlerType] /\ hd[Top.h].level \in Nat
  BY HandlerFacts, NormalFacts DEF TypeInv
<1>6. /\ hd' = [hd EXCEPT ![Top.h] = x] /\ calls' = d /\ res' = r /\ running' = Null
      /\ UNCHANGED <<activated, active, handlers, live, bad, phase, sink, written>>
  <2>1. hd' = [hd EXCEPT ![Top.h] = x]
    BY <1>2, <1>5 DEF Finish, HandlerType
  <2> QED
    BY <2>1, <1>3, <1>4 DEF Finish, Return
<1>7. x \in HandlerType /\ x.level = hd[Top.h].level /\ x.buf = <<>>
  BY <1>2, <1>5, NoElements DEF HandlerType
<1>8. r \in Res /\ r.status = status /\ r.ctx.out = out /\ r.ctx.op = Top.ctx.op /\ out \in Seq(Token)
  <2>1. CASE status = "failure"
    <3>1. PICK c : c = [ctx EXCEPT !.out = hd[Top.h].buf]
      OBVIOUS
    <3>2. c \in Ctx /\ c.out = hd[Top.h].buf /\ c.op = Top.ctx.op
      BY <3>1, <1>5 DEF Ctx
    <3> QED
      BY <2>1, <3>1, <3>2, <1>1, <1>3, <1>5, ResultFields
  <2>2. CASE status = "success"
    <3>1. ctx.out \in Seq(Token)
      BY DEF Ctx
    <3> QED
      BY <2>2, <3>1, <1>1, <1>3, ResultFields
  <2>3. CASE status = "nodata"
    <3>1. PICK c : c = Context(ctx.op, <<>>)
      OBVIOUS
    <3>2. c \in Ctx /\ c.out = <<>> /\ c.op = Top.ctx.op
      BY <3>1, NoElements DEF Ctx, Context
    <3> QED
      BY <2>3, <3>1, <3>2, <1>1, <1>3, NoElements, ResultFields
  <2> QED
    BY <2>1, <2>2, <2>3
<1>9. HandlerGoes(Top.h, x, d, r)
  <2>1. r.status \notin {"success", "failure"} => r.ctx.out = <<>>
    BY <1>1, <1>8
  <2>2. \A k \in 1..(Len(calls) - 1) : calls[k].fn # "handler"
    BY RunsAlone
  <2> QED
    BY <2>1, <2>2, <1>4, <1>6, <1>7, <1>8, HandlerLeaves
<1>10. PICK C : C = Buffers'
  OBVIOUS
<1>11. PICK e : e = dropped'
  OBVIOUS
<1>12. PICK i : i = hd[Top.h].level + 1
  OBVIOUS
<1>13. Buffers[i] = hd[Top.h].buf /\ BufferSet(C, i, <<>>)
  BY <1>5, <1>6, <1>7, <1>10, <1>12, StackBuffers
<1>14. Prefix(out, hd[Top.h].buf)
  <2>1. \A s \in Seq(Token) : Prefix(s, s) /\ Prefix(<<>>, s)
    BY DEF Prefix
  <2> QED
    BY <2>1, <1>1, <1>5
<1>15. (\A t \in dropped : t \in e) /\ \A t \in Tokens(hd[Top.h].buf) : t \in Tokens(out) \/ t \in e
  <2>1. CASE status = "failure"
    BY <2>1, <1>1, <1>11 DEF Finish
  <2>2. CASE status # "failure"
    <3>1. e = dropped \union (Tokens(hd[Top.h].buf) \ Tokens(ctx.out))
      BY <2>2, <1>11 DEF Finish
    <3>2. out = ctx.out
      BY <2>2, <1>1
    <3> QED
      BY <3>1, <3>2
  <2> QED
    BY <2>1, <2>2
<1>16. Flow(sink, C, Len(handlers), out, hd[Top.h].level, e, written)
  <2>1. Flight(calls, res) = <<>> /\ Doomed(calls, res) = <<>>
    BY CarriedByEmpty DEF Top, OnTop, Empty
  <2>2. dropped \union Tokens(<<>>) = dropped
    BY EmptyPiece
  <2>3. Flow(sink, Buffers, Len(handlers), <<>>, Gap(calls), dropped, written)
    BY <2>1, <2>2, DataFacts
  <2>4. /\ sink \in Seq(Token) /\ Len(handlers) \in Nat /\ written \in Nat
        /\ Buffers \in [1..Len(handlers) -> Seq(Token)]
    BY DataFacts
  <2>5. /\ i \in 1..Len(handlers) /\ C \in [1..Len(handlers) -> Seq(Token)] /\ C[i] = <<>>
        /\ \A j \in 1..Len(handlers) : j # i => C[j] = Buffers[j]
    BY <1>13 DEF BufferSet
  <2>6. Flow(sink, C, Len(handlers), out, i - 1, e, written)
    BY <2>3, <2>4, <2>5, <1>8, <1>13, <1>14, <1>15, FlowProcess
  <2>7. i - 1 = hd[Top.h].level
    BY <1>5, <1>12
  <2> QED
    BY <2>6, <2>7
<1>17. Buffers' \in [1..Len(handlers) -> Seq(Token)]
  BY <1>10, <1>13 DEF BufferSet
<1>18. Flow(sink, Buffers', Len(handlers), r.ctx.out, hd[Top.h].level, dropped', written)
  BY <1>8, <1>10, <1>11, <1>16
<1>19. PICK F, gap, D : /\ Carried(d, r, F, gap, D)
                        /\ Flow(sink, Buffers', Len(handlers), F, gap,
                                dropped' \union Tokens(D), written)
  BY <1>4, <1>8, <1>17, <1>18, HandlerFlows
<1> QED
  BY <1>9, <1>19, HandlerStep

(* A change of the handler at work that leaves its buffer alone.           *)
LEMMA SameBuffers ==
    ASSUME Inv, phase \in {"run", "ending"}, calls # <<>>, Top.fn = "handler",
           Top.at # "enter", OnStack(Top.h), NEW x \in HandlerType, x.buf = hd[Top.h].buf,
           hd' = [hd EXCEPT ![Top.h] = x], UNCHANGED <<handlers, dropped>>
    PROVE  Flow(sink, Buffers', Len(handlers), <<>>, 0, dropped' \union Tokens(<<>>), written)
<1>1. PICK i : i = hd[Top.h].level + 1
  OBVIOUS
<1>2. PICK C : C = Buffers'
  OBVIOUS
<1>3. Buffers[i] = hd[Top.h].buf /\ BufferSet(C, i, x.buf)
  BY <1>1, <1>2, StackBuffers
<1>4. Buffers \in [1..Len(handlers) -> Seq(Token)]
  BY DataFacts
<1>5. \A j \in 1..Len(handlers) : C[j] = Buffers[j]
  BY <1>3 DEF BufferSet
<1>6. C = Buffers
  BY <1>3, <1>4, <1>5 DEF BufferSet
<1>7. Flight(calls, res) = <<>> /\ Doomed(calls, res) = <<>>
  BY CarriedByEmpty DEF Top, OnTop, Empty
<1>8. Flow(sink, Buffers, Len(handlers), <<>>, Gap(calls), dropped \union Tokens(<<>>), written)
  BY <1>7, DataFacts
<1>9. Flow(sink, Buffers, Len(handlers), <<>>, 0, dropped \union Tokens(<<>>), written)
  BY <1>8, DataFacts, FlowAnyGap
<1> QED
  BY <1>2, <1>6, <1>9

\* An internal handler passes its input on or swallows it on purpose.
LEMMA InternalStep ==
    ASSUME Inv, phase \in {"run", "ending"}, InternalHandler
    PROVE  Inv'
<1>0. calls # <<>> /\ Top.fn = "handler" /\ Top.at = "internal"
  BY DEF InternalHandler, In
<1>1. PICK out : out = IF hd[Top.h].kind = "default" THEN hd[Top.h].buf ELSE <<>>
  OBVIOUS
<1>2. PICK ctx : ctx = [Top.ctx EXCEPT !.in = <<>>, !.out = out]
  OBVIOUS
<1>3. PICK status : status = IF out = <<>> THEN "nodata" ELSE "success"
  OBVIOUS
<1>4. Finish(Top.h, ctx, status)
  BY <1>1, <1>2, <1>3 DEF InternalHandler
<1>5. Top.ctx \in Ctx /\ hd[Top.h].buf \in Seq(Token) /\ HandlerFrame(Top)
  BY <1>0, HandlerFacts
<1>6. out \in Seq(Token) /\ Prefix(out, hd[Top.h].buf)
  <2>1. \A s \in Seq(Token) : Prefix(s, s) /\ Prefix(<<>>, s)
    BY DEF Prefix
  <2> QED
    BY <2>1, <1>1, <1>5, NoElements
<1>7. ctx \in Ctx /\ ctx.op = Top.ctx.op /\ ctx.out = out
  BY <1>2, <1>5, <1>6, NoElements DEF Ctx
<1>8. ~hd[Top.h].disabled
  BY <1>0, <1>5 DEF HandlerFrame
<1>9. status \in {"success", "failure", "nodata"} /\ (status # "success" => ctx.out = <<>>)
  BY <1>3, <1>7
<1>10. Prefix(ctx.out, hd[Top.h].buf)
  BY <1>6, <1>7
<1> QED
  BY <1>0, <1>4, <1>7, <1>8, <1>9, <1>10, FinishStep

(* What a callback returns: nothing, or what it was given.                 *)
LEMMA CallbackFacts ==
    ASSUME Inv, phase \in {"run", "ending"}, calls # <<>>, Top.fn = "handler",
           Top.at = "callback", NEW ret \in Returns
    PROVE  /\ OutOf(ret) \in Ctx /\ OutOf(ret).op = Top.ctx.op
           /\ Prefix(OutOf(ret).out, hd[Top.h].buf)
           /\ StatusOf(ret) \in {"success", "failure", "nodata"}
           /\ StatusOf(ret) # "success" => OutOf(ret).out = <<>>
<1>1. /\ Top.ctx \in Ctx /\ Top.ctx.out = <<>> /\ Top.ctx.in \in Seq(Token)
      /\ Prefix(Top.ctx.in, hd[Top.h].buf) /\ hd[Top.h].buf \in Seq(Token)
  BY HandlerFacts DEF HandlerFrame
<1>2. StatusOf(ret) \in {"success", "failure", "nodata"}
  <2>1. CASE ret \in {"false", "undef"}
    BY <2>1 DEF StatusOf
  <2>2. CASE ret \notin {"false", "undef"} /\ (ret = "true" \/ Top.ctx.in = <<>>)
    BY <2>2 DEF StatusOf
  <2>3. CASE ret \notin {"false", "undef"} /\ ~(ret = "true" \/ Top.ctx.in = <<>>)
    BY <2>3 DEF StatusOf
  <2> QED
    BY <2>1, <2>2, <2>3
<1>3. CASE StatusOf(ret) = "success"
  <2>1. OutOf(ret) = [Top.ctx EXCEPT !.out = Top.ctx.in]
    BY <1>3 DEF OutOf
  <2>2. OutOf(ret) \in Ctx /\ OutOf(ret).op = Top.ctx.op /\ OutOf(ret).out = Top.ctx.in
    BY <2>1, <1>1 DEF Ctx
  <2> QED
    BY <2>2, <1>1, <1>2, <1>3
<1>4. CASE StatusOf(ret) # "success"
  <2>1. OutOf(ret) = Top.ctx
    BY <1>4 DEF OutOf
  <2>2. \A s \in Seq(Token) : Prefix(<<>>, s)
    BY DEF Prefix
  <2> QED
    BY <2>1, <2>2, <1>1, <1>2
<1> QED
  BY <1>3, <1>4

\* A callback returns with data, with nothing or with a failure.
LEMMA CallbackReturnsStep ==
    ASSUME Inv, phase \in {"run", "ending"}, NEW ret \in Returns, CallbackReturns(ret)
    PROVE  Inv'
<1>0. calls # <<>> /\ Top.fn = "handler" /\ Top.at = "callback"
  BY DEF CallbackReturns, In
<1>1. /\ Top \in FrameType /\ HandlerFrame(Top) /\ OnStack(Top.h) /\ Top.h \in Handler
      /\ Top.h \in live /\ hd[Top.h] \in HandlerType /\ hd \in [Handler -> HandlerType]
      /\ Top.ctx.out = <<>>
  BY <1>0, HandlerFacts, NormalFacts DEF TypeInv
<1>2. ~hd[Top.h].disabled /\ running = Top.h
  BY <1>0, <1>1 DEF HandlerFrame
<1>3. /\ OutOf(ret) \in Ctx /\ OutOf(ret).op = Top.ctx.op
      /\ Prefix(OutOf(ret).out, hd[Top.h].buf)
      /\ StatusOf(ret) \in {"success", "failure", "nodata"}
      /\ StatusOf(ret) # "success" => OutOf(ret).out = <<>>
  BY <1>0, CallbackFacts
<1>4. CASE ret = "undef" \/ ~hd[Top.h].produced
  <2>1. Finish(Top.h, OutOf(ret), StatusOf(ret))
    BY <1>1, <1>4 DEF CallbackReturns
  <2> QED
    BY <2>1, <1>0, <1>2, <1>3, FinishStep
<1>5. CASE ~(ret = "undef" \/ ~hd[Top.h].produced)
  <2>1. PICK x : x = [hd[Top.h] EXCEPT !.disabled = TRUE, !.produced = FALSE]
    OBVIOUS
  <2>2. PICK r : r = Result(StatusOf(ret), OutOf(ret))
    OBVIOUS
  <2>3. PICK f : f = [Top EXCEPT !.at = "deprecated", !.ret = r]
    OBVIOUS
  <2>4. PICK d : d = Becomes(f)
    OBVIOUS
  <2>5. /\ hd' = [hd EXCEPT ![Top.h] = x] /\ calls' = d /\ running' = Top.h /\ dropped' = dropped
        /\ UNCHANGED <<activated, active, handlers, live, bad, phase, sink, written, res>>
    <3>1. hd' = [hd EXCEPT ![Top.h] = x]
      BY <2>1, <1>1, <1>5 DEF CallbackReturns, HandlerType
    <3> QED
      BY <3>1, <2>2, <2>3, <2>4, <1>1, <1>2, <1>5 DEF CallbackReturns, globals, rest
  <2>6. x \in HandlerType /\ x.level = hd[Top.h].level /\ x.buf = hd[Top.h].buf
    BY <2>1, <1>1 DEF HandlerType
  <2>7. r \in Res /\ r.status = StatusOf(ret) /\ r.ctx = OutOf(ret)
    BY <2>2, <1>3, ResultFields
  <2>8. /\ f \in FrameType /\ f.fn = "handler" /\ f.h = Top.h /\ f.ctx = Top.ctx
        /\ f.at = "deprecated" /\ f.ret = r
    BY <2>3, <2>7, <1>0, <1>1 DEF FrameType
  <2>9. HandlerFrame(f)'
    <3>1. hd'[Top.h] = x
      BY <2>5, <1>1
    <3>2. OnStack(f.h)'
      BY <3>1, <2>5, <2>6, <2>8, <1>1 DEF OnStack
    <3> QED
      BY <3>1, <3>2, <2>5, <2>6, <2>7, <2>8, <1>1, <1>3 DEF HandlerFrame
  <2>10. HandlerGoes(Top.h, x, d, res) /\ Carried(d, res, <<>>, 0, <<>>)
    <3>1. \A k \in 1..(Len(calls) - 1) : calls[k].fn # "handler"
      BY <1>0, RunsAlone
    <3> QED
      BY <3>1, <2>4, <2>5, <2>6, <2>8, <2>9, <1>0, HandlerContinues
  <2>11. Flow(sink, Buffers', Len(handlers), <<>>, 0, dropped' \union Tokens(<<>>), written)
    BY <1>0, <1>1, <2>5, <2>6, SameBuffers
  <2> QED
    BY <2>10, <2>11, HandlerStep
<1> QED
  BY <1>4, <1>5

(* The deprecation notice: the handler is still there.                     *)
LEMMA DeprecationStep ==
    ASSUME Inv, phase \in {"run", "ending"}, DeprecationReturns
    PROVE  Inv'
<1>0. calls # <<>> /\ Top.fn = "handler" /\ Top.at = "deprecated"
  BY DEF DeprecationReturns, In
<1>1. /\ Top \in FrameType /\ HandlerFrame(Top) /\ OnStack(Top.h) /\ Top.h \in Handler
      /\ hd[Top.h] \in HandlerType /\ hd \in [Handler -> HandlerType] /\ StillHave(Top.h)
  BY <1>0, HandlerFacts, NormalFacts DEF TypeInv, StillHave
<1>2. running = Top.h
  BY <1>0, <1>1 DEF HandlerFrame
<1>3. PICK x : x = [hd[Top.h] EXCEPT !.disabled = FALSE]
  OBVIOUS
<1>4. PICK f : f = [Top EXCEPT !.at = "finish"]
  OBVIOUS
<1>5. PICK d : d = Becomes(f)
  OBVIOUS
<1>6. /\ hd' = [hd EXCEPT ![Top.h] = x] /\ calls' = d /\ running' = Top.h /\ dropped' = dropped
      /\ UNCHANGED <<activated, active, handlers, live, bad, phase, sink, written, res>>
  <2>1. hd' = [hd EXCEPT ![Top.h] = x]
    BY <1>1, <1>3 DEF DeprecationReturns, HandlerType
  <2> QED
    BY <2>1, <1>1, <1>2, <1>4, <1>5 DEF DeprecationReturns, rest
<1>7. x \in HandlerType /\ x.level = hd[Top.h].level /\ x.buf = hd[Top.h].buf /\ ~x.disabled
  BY <1>1, <1>3 DEF HandlerType
<1>8. /\ f \in FrameType /\ f.fn = "handler" /\ f.h = Top.h /\ f.ctx = Top.ctx
      /\ f.at = "finish" /\ f.ret = Top.ret
  BY <1>0, <1>1, <1>4 DEF FrameType
<1>9. HandlerFrame(f)'
  <2>1. hd'[Top.h] = x
    BY <1>1, <1>6
  <2>2. OnStack(f.h)'
    BY <2>1, <1>1, <1>6, <1>7, <1>8 DEF OnStack
  <2>3. /\ Top.ctx.out = <<>> /\ Top.ret.status \in {"success", "failure", "nodata"}
        /\ Top.ret.status # "success" => Top.ret.ctx.out = <<>>
        /\ Prefix(Top.ret.ctx.out, hd[Top.h].buf) /\ Top.ret.ctx.op = Top.ctx.op
    BY <1>0, <1>1 DEF HandlerFrame
  <2> QED
    BY <2>1, <2>2, <2>3, <1>6, <1>7, <1>8 DEF HandlerFrame
<1>10. HandlerGoes(Top.h, x, d, res) /\ Carried(d, res, <<>>, 0, <<>>)
  <2>1. \A k \in 1..(Len(calls) - 1) : calls[k].fn # "handler"
    BY <1>0, RunsAlone
  <2> QED
    BY <2>1, <1>0, <1>5, <1>6, <1>7, <1>8, <1>9, HandlerContinues
<1>11. Flow(sink, Buffers', Len(handlers), <<>>, 0, dropped' \union Tokens(<<>>), written)
  BY <1>0, <1>1, <1>6, <1>7, SameBuffers
<1> QED
  BY <1>10, <1>11, HandlerStep

\* php_output_handler_op goes on after the deprecation notice.
LEMMA HandlerFinishesStep ==
    ASSUME Inv, phase \in {"run", "ending"}, HandlerFinishes
    PROVE  Inv'
<1>0. calls # <<>> /\ Top.fn = "handler" /\ Top.at = "finish"
  BY DEF HandlerFinishes, In
<1>1. Top \in FrameType /\ HandlerFrame(Top)
  BY <1>0, HandlerFacts
<1>2. /\ Top.ret.status \in {"success", "failure", "nodata"} /\ ~hd[Top.h].disabled
      /\ Top.ret.status # "success" => Top.ret.ctx.out = <<>>
      /\ Prefix(Top.ret.ctx.out, hd[Top.h].buf) /\ Top.ret.ctx.op = Top.ctx.op
  BY <1>0, <1>1 DEF HandlerFrame
<1>3. Top.ret.ctx \in Ctx
  BY <1>1 DEF FrameType, Res
<1> QED
  BY <1>0, <1>2, <1>3, FinishStep DEF HandlerFinishes

(* The layer is not locked: what runs below a callback are writes.         *)
LEMMA NeverLocked ==
    ASSUME Inv, phase \in {"run", "ending"}, In("handler", "enter")
    PROVE  ~Locked(Top.ctx.op)
<1>1. ASSUME running # Null PROVE Top.ctx.op = "write"
  <2>1. PICK k \in 1..Len(calls) : Busy(calls[k])
    BY <1>1, NormalFacts DEF TableInv
  <2>2. k # Len(calls) /\ calls[k].fn = "handler"
    BY <2>1 DEF Busy, In, Top
  <2>3. k \in 1..(Len(calls) - 1)
    BY <2>2, NormalFacts
  <2>4. Nested(Top)
    BY <2>2, <2>3, LowerHandler
  <2> QED
    BY <2>4 DEF Nested
<1> QED
  BY <1>1 DEF Locked

\* Every way through the entry of php_output_handler_op keeps the invariant.
LEMMA HandlerOpStep ==
    ASSUME Inv, phase \in {"run", "ending"}, php_output_handler_op
    PROVE  Inv'
<1>0. In("handler", "enter") /\ calls # <<>> /\ Top.fn = "handler"
  BY DEF php_output_handler_op, In
<1>1. /\ Top.h \in live /\ Top.h \in Handler /\ hd \in [Handler -> HandlerType]
      /\ hd[Top.h] \in HandlerType /\ ~Locked(Top.ctx.op)
  BY <1>0, HandlerFacts, NormalFacts, NeverLocked DEF TypeInv
<1>2. CASE hd[Top.h].disabled
  BY <1>0, <1>1, <1>2, DisabledReturns DEF php_output_handler_op
<1>3. CASE ~hd[Top.h].disabled
  <2>1. PICK x : x = StoredHandler(Top.h, Top.ctx)
    OBVIOUS
  <2>2. PICK buf : buf = hd[Top.h].buf \o Top.ctx.in
    OBVIOUS
  <2>3. /\ hd' = [hd EXCEPT ![Top.h].buf = buf, ![Top.h].produced =
                    @ \/ (Top.ctx.op = "write" /\ active # Null /\ running # Null)]
        /\ IF Storable(Top.h, buf, Top.ctx.in) /\ Top.ctx.op = "write"
           THEN Return(Result("nodata", Top.ctx)) /\ UNCHANGED running
           ELSE /\ running' = Top.h /\ UNCHANGED res
                /\ calls' = Becomes([Top EXCEPT !.ctx.in = buf, !.at =
                     IF hd[Top.h].kind = "user" THEN "callback" ELSE "internal"])
        /\ UNCHANGED <<activated, active, handlers, live, sink, rest>>
    BY <1>1, <1>3, <2>2 DEF php_output_handler_op
  <2>4. hd' = [hd EXCEPT ![Top.h] = x]
    BY <2>1, <2>2, <2>3, <1>1 DEF StoredHandler, HandlerType
  <2>5. x.buf = buf
    BY <2>1, <2>2, <1>0, StoredFacts
  <2>6. CASE Storable(Top.h, buf, Top.ctx.in) /\ Top.ctx.op = "write"
    BY <2>1, <2>3, <2>4, <2>6, <1>0, <1>3, HandlerOpStores
  <2>7. CASE ~(Storable(Top.h, buf, Top.ctx.in) /\ Top.ctx.op = "write")
    <3>1. running = Null \/ Top.ctx.op # "write"
      BY <2>7 DEF Storable
    <3>2. PICK at \in {"callback", "internal"} :
              at = IF hd[Top.h].kind = "user" THEN "callback" ELSE "internal"
      OBVIOUS
    <3>3. /\ running' = Top.h /\ calls' = Becomes([Top EXCEPT !.ctx.in = x.buf, !.at = at])
          /\ UNCHANGED <<activated, active, handlers, live, sink, res, rest>>
      BY <2>3, <2>5, <2>7, <3>2
    <3> QED
      BY <2>1, <2>4, <3>1, <3>3, <1>0, <1>3, HandlerOpRuns
  <2> QED
    BY <2>6, <2>7
<1> QED
  BY <1>2, <1>3

(* php_output_stack_apply_clean empties a handler and calls it.            *)
LEMMA CleanAllCalls ==
    ASSUME Inv, phase \in {"run", "ending"}, CleanAllStep, Top.i # 0
    PROVE  Inv'
<1>0. calls # <<>> /\ Top.fn = "cleanall" /\ Top.at = "call" /\ Top \in FrameType
  BY NormalFacts DEF CleanAllStep, In
<1>1. PICK h : h = handlers[Top.i]
  OBVIOUS
<1>2. /\ Top.i \in 1..Len(handlers) /\ h \in Handler /\ h \in live /\ hd[h].level = Top.i - 1
      /\ Top.i \in Nat /\ Len(handlers) \in Nat /\ Buffers[Top.i] = hd[h].buf
      /\ hd \in [Handler -> HandlerType] /\ hd[h] \in HandlerType /\ hd[h].buf \in Seq(Token)
  <2>1. CleanAllFrame(Top) /\ Top.i \in Nat
    BY <1>0, NormalFacts DEF FrameOK, FrameType
  <2>2. Top.i \in 1..Len(handlers)
    BY <2>1, NormalFacts DEF CleanAllFrame
  <2> QED
    BY <2>1, <2>2, <1>1, NormalFacts DEF TableInv, TypeInv
<1>3. OnStack(h)
  BY <1>1, <1>2 DEF OnStack
<1>4. PICK x : x = [hd[h] EXCEPT !.buf = <<>>]
  OBVIOUS
<1>5. PICK f : f = [Top EXCEPT !.at = "wait"]
  OBVIOUS
<1>6. PICK g : g = EnterCall(h, "clean")
  OBVIOUS
<1>7. PICK d : d = Append(Becomes(f), g)
  OBVIOUS
<1>8. ~(Top.i > Len(handlers) \/ handlers[Top.i] \notin live)
  BY <1>1, <1>2
<1>9. /\ hd' = [hd EXCEPT ![h] = x] /\ calls' = d /\ res' = res
      /\ dropped' = dropped \union Tokens(hd[h].buf)
      /\ UNCHANGED <<activated, active, running, handlers, live, bad, phase, sink, written>>
  <2>1. hd' = [hd EXCEPT ![h] = x]
    BY <1>1, <1>2, <1>4, <1>8 DEF CleanAllStep, HandlerType
  <2> QED
    BY <2>1, <1>1, <1>5, <1>6, <1>7, <1>8 DEF CleanAllStep, EnterCall, globals
<1>10. x \in HandlerType /\ x.level = hd[h].level /\ x.buf = <<>>
  BY <1>2, <1>4, NoElements DEF HandlerType
<1>11. f \in FrameType /\ f.fn = "cleanall" /\ f.at = "wait" /\ f.i = Top.i /\ f.ctx = Top.ctx
  BY <1>0, <1>5 DEF FrameType
<1>12. GoesOn(f)
  <2>1. FrameOK(f)
    BY <1>2, <1>11 DEF FrameOK, CleanAllFrame
  <2> QED
    BY <2>1, <1>0, <1>11 DEF GoesOn, Holding
<1>13. /\ g \in FrameType /\ FrameOK(g) /\ g.fn = "handler" /\ g.h = h /\ g.at = "enter"
       /\ g.ctx.op = "clean" /\ g.ctx.in = <<>> /\ g.ctx.out = <<>>
  BY <1>2, <1>3, <1>6, HandlerCallFacts
<1>14. Follows(d) /\ OnTop(d, g)
  <2>1. Link(f, g)
    BY <1>11, <1>13 DEF Link
  <2> QED
    BY <2>1, <1>0, <1>7, <1>12, <1>13, ContinueAndCall
<1>15. Carried(d, res, <<>>, Top.i, <<>>)
  <2>1. hd[h].level + 1 = Top.i
    BY <1>2
  <2>2. \A e, r : OnTop(e, g) => Carried(e, r, <<>>, hd[h].level + 1, <<>>)
    BY <1>2, <1>3, <1>6, HandlerCallFacts
  <2> QED
    BY <2>1, <2>2, <1>14
<1>16. ASSUME NEW k \in 1..Len(d) PROVE FrameOK(d[k])'
  <2>1. CASE k = Len(d)
    <3>1. d[k] = g /\ hd'[h] = x
      BY <2>1, <1>2, <1>9, <1>14 DEF OnTop
    <3>2. OnStack(h)'
      BY <3>1, <1>3, <1>9, <1>10 DEF OnStack
    <3>3. FrameOK(g)'
      BY <3>2, <1>13 DEF FrameOK, HandlerFrame
    <3> QED
      BY <3>1, <3>3
  <2>2. CASE k # Len(d)
    <3>1. Len(d) \in 1..Len(d) /\ k < Len(d) /\ FrameOK(d[k]) /\ CallsOK(d, phase)
      BY <2>2, <1>14 DEF Follows, AllFrames
    <3>2. d[k].fn # "handler"
      BY <3>1, <1>13, <1>14 DEF CallsOK, Nested, OnTop
    <3> QED
      BY <3>1, <3>2, <1>3, <1>9, FrameKept
  <2> QED
    BY <2>1, <2>2
<1>17. HandlerGoes(h, x, d, res)
  <2>1. HeldKept(calls, d)
    BY <1>14 DEF Follows, Keeps, HeldKept
  <2>2. ASSUME running # Null PROVE \E m \in 1..Len(d) : Busy(d[m]) /\ d[m].h = running
    <3>1. PICK k \in 1..Len(calls) : Busy(calls[k]) /\ calls[k].h = running
      BY <2>2, NormalFacts DEF TableInv
    <3>2. PICK m \in 1..Len(d) : Same(calls[k], d[m])
      BY <3>1, <1>14 DEF Follows, Keeps
    <3>3. Busy(d[m]) /\ d[m].h = running
      BY <3>1, <3>2 DEF Same
    <3> QED
      BY <3>3
  <2>3. Returned(d, res)'
    BY <1>13, <1>14 DEF Returned, Carries, OnTop
  <2>4. ~Carries(calls, {"handler"}, "deprecated")
    BY <1>0 DEF Carries, Top
  <2>5. d \in Seq(FrameType) /\ CallsOK(d, phase) /\ d # <<>> /\ running' \in HandlerOrNull
    BY <1>9, <1>14, NormalFacts DEF Follows, OnTop, TypeInv
  <2> QED
    BY <2>1, <2>2, <2>3, <2>4, <2>5, <1>3, <1>9, <1>10, <1>16, DataFacts DEF HandlerGoes
<1>18. PICK C : C = Buffers'
  OBVIOUS
<1>19. PICK e : e = dropped'
  OBVIOUS
<1>20. BufferSet(C, Top.i, <<>>)
  <2>1. hd[h].level + 1 = Top.i
    BY <1>2
  <2> QED
    BY <2>1, <1>3, <1>9, <1>10, <1>18, StackBuffers
<1>21. Flow(sink, C, Len(handlers), <<>>, Top.i - 1, e, written)
  <2>1. Flight(calls, res) = <<>> /\ Doomed(calls, res) = <<>>
    BY <1>0, CarriedByEmpty DEF Top, OnTop, Empty
  <2>2. dropped \union Tokens(<<>>) = dropped
    BY EmptyPiece
  <2>3. Flow(sink, Buffers, Len(handlers), <<>>, Gap(calls), dropped, written)
    BY <2>1, <2>2, DataFacts
  <2>4. /\ sink \in Seq(Token) /\ Len(handlers) \in Nat /\ written \in Nat
        /\ Buffers \in [1..Len(handlers) -> Seq(Token)]
    BY DataFacts
  <2>5. /\ Top.i \in 1..Len(handlers) /\ C \in [1..Len(handlers) -> Seq(Token)]
        /\ C[Top.i] = <<>> /\ \A j \in 1..Len(handlers) : j # Top.i => C[j] = Buffers[j]
    BY <1>20 DEF BufferSet
  <2>6. Prefix(<<>>, Buffers[Top.i]) /\ <<>> \in Seq(Token)
    <3>1. \A s \in Seq(Token) : Prefix(<<>>, s)
      BY DEF Prefix
    <3> QED
      BY <3>1, <1>2, NoElements
  <2>7. (\A t \in dropped : t \in e) /\ \A t \in Tokens(Buffers[Top.i]) : t \in Tokens(<<>>) \/ t \in e
    BY <1>2, <1>9, <1>19
  <2> QED
    BY <2>3, <2>4, <2>5, <2>6, <2>7, FlowProcess
<1>22. Flow(sink, C, Len(handlers), <<>>, Top.i, e, written)
  <2>1. Top.i \in 0..Len(handlers) /\ C \in [1..Len(handlers) -> Seq(Token)]
    BY <1>2, <1>20 DEF BufferSet
  <2> QED
    BY <2>1, <1>21, DataFacts, FlowAnyGap
<1>23. Flow(sink, Buffers', Len(handlers), <<>>, Top.i, dropped' \union Tokens(<<>>), written)
  <2>1. dropped' \union Tokens(<<>>) = e
    BY <1>19, EmptyPiece
  <2> QED
    BY <2>1, <1>18, <1>22
<1> QED
  BY <1>15, <1>17, <1>23, HandlerStep

\* One iteration of php_output_clean_all keeps the invariant.
LEMMA CleanAllStepStep ==
    ASSUME Inv, phase \in {"run", "ending"}, CleanAllStep
    PROVE  Inv'
<1>0. calls # <<>> /\ Top.fn = "cleanall" /\ Top.at = "call"
  BY DEF CleanAllStep, In
<1>1. CASE Top.i = 0
  BY <1>0, <1>1, LoopEnds DEF CleanAllStep
<1>2. CASE Top.i # 0
  BY <1>2, CleanAllCalls
<1> QED
  BY <1>1, <1>2
-----------------------------------------------------------------------------
(* The stack changes: only under a call of the program.                    *)

(* Around a flush or a pop there is at most the loop of end_all.           *)
LEMMA Outermost ==
    ASSUME Inv, phase \in {"run", "ending"}, calls # <<>>, Top.fn \in {"flush", "pop"}
    PROVE  /\ \A k \in 1..Len(calls) : k = Len(calls) \/ calls[k].fn = "endall"
           /\ Top.fn = "flush" => Len(calls) = 1
           /\ Len(calls) = 1 => phase = "run"
           /\ running = Null /\ ~Carries(calls, {"handler"}, "deprecated")
           /\ \A h : Taken(h) => Holding(Top) /\ h = Top.h
           /\ Cut => Holding(Top) /\ Top.fn = "flush"
           /\ \A h \in Handler : hd[h].disabled => hd[h].buf = <<>>
<1>1. /\ CallsOK(calls, phase) /\ TableInv /\ calls \in Seq(FrameType)
      /\ Len(calls) \in Nat /\ Len(calls) \in 1..Len(calls)
  BY NormalFacts DEF TypeInv
<1>2. /\ Top.fn = "flush" => Len(calls) = 1
      /\ Top.fn = "pop" => Len(calls) = 1 \/ (Len(calls) = 2 /\ calls[1].fn = "endall")
  BY <1>1, Positions DEF Top
<1>3. \A k \in 1..Len(calls) : k = Len(calls) \/ calls[k].fn = "endall"
  <2>1. CASE Len(calls) = 1
    BY <2>1
  <2>2. CASE Len(calls) = 2 /\ calls[1].fn = "endall"
    <3>1. \A k \in 1..Len(calls) : k = 1 \/ k = 2
      BY <2>2
    <3> QED
      BY <3>1, <2>2
  <2> QED
    BY <2>1, <2>2, <1>2
<1>4. Len(calls) = 1 => phase = "run"
  BY <1>1 DEF CallsOK, Top
<1>5. ~Carries(calls, {"handler"}, "deprecated")
  BY DEF Carries, Top
<1>6. running = Null
  <2>1. \A k \in 1..Len(calls) : ~Busy(calls[k])
    BY <1>3 DEF Busy, Top
  <2> QED
    BY <2>1, <1>1 DEF TableInv
<1>7. \A h : Taken(h) => Holding(Top) /\ h = Top.h
  BY <1>3 DEF Taken, Holding, Top
<1>8. Cut => Holding(Top) /\ Top.fn = "flush"
  BY <1>3 DEF Cut, Holding, Top
<1>9. \A h \in Handler : hd[h].disabled => hd[h].buf = <<>>
  BY <1>1, <1>5 DEF TableInv
<1> QED
  BY <1>2, <1>3, <1>4, <1>5, <1>6, <1>7, <1>8, <1>9

(* zend_stack_del_top.                                                     *)
LEMMA DelTopFacts ==
    ASSUME handlers \in Seq(Handler), handlers # <<>>, NEW s, s = DelTop(handlers)
    PROVE  /\ s \in Seq(Handler) /\ Len(s) = Len(handlers) - 1 /\ Len(handlers) \in Nat \ {0}
           /\ \A i \in 1..Len(s) : s[i] = handlers[i] /\ i \in 1..Len(handlers)
<1>1. s = SubSeq(handlers, 1, Len(handlers) - 1)
  BY DEF DelTop, Front
<1>2. /\ s \in Seq(Handler) /\ Len(s) = Len(handlers) - 1 /\ Len(handlers) \in Nat \ {0}
      /\ \A i \in 1..(Len(handlers) - 1) : s[i] = handlers[i]
  BY <1>1, FrontFacts
<1> QED
  BY <1>2
(* The innermost call goes on, around which there is only that loop.       *)
LEMMA OuterGoesOn ==
    ASSUME Inv, phase \in {"run", "ending"}, calls # <<>>, Top.fn \in {"flush", "pop"},
           NEW f \in FrameType, f.fn = Top.fn, NEW d, d = Becomes(f)
    PROVE  /\ d \in Seq(FrameType) /\ CallsOK(d, phase) /\ OnTop(d, f)
           /\ Len(d) \in 1..Len(d)
           /\ \A k \in 1..Len(d) : k = Len(d) \/ d[k].fn = "endall"
<1>0. PICK b : b = Pop
  OBVIOUS
<1>1. CallsOK(calls, phase) /\ calls \in Seq(FrameType) /\ Len(calls) \in Nat
  BY NormalFacts DEF TypeInv
<1>2. /\ b \in Seq(FrameType) /\ CallsOK(b, phase) /\ Len(b) = Len(calls) - 1
      /\ \A k \in 1..Len(b) : b[k] = calls[k]
      /\ b # <<>> => Link(b[Len(b)], Top)
  BY <1>0, <1>1, CallsPop DEF Pop, Top
<1>3. \A k \in 1..Len(b) : b[k].fn = "endall"
  BY <1>1, <1>2, Outermost
<1>4. Callable(b, f, phase)
  <2>1. b # <<>> => Link(b[Len(b)], f)
    BY <1>2 DEF Link
  <2>2. b = <<>> => phase = "run"
    BY <1>1, <1>2, Outermost
  <2> QED
    BY <2>1, <2>2, <1>3 DEF Callable
<1>5. d = Append(b, f)
  BY <1>0 DEF Becomes
<1>6. /\ d \in Seq(FrameType) /\ CallsOK(d, phase)
      /\ Len(d) = Len(b) + 1 /\ d # <<>> /\ d[Len(d)] = f
      /\ \A k \in 1..Len(b) : d[k] = b[k]
  <2>1. d \in Seq(FrameType) /\ CallsOK(d, phase)
    BY <1>2, <1>4, <1>5, CallsPush
  <2>2. Len(d) = Len(b) + 1
    BY <1>2, <1>4, <1>5, CallsPush
  <2>3. d # <<>> /\ d[Len(d)] = f
    BY <1>2, <1>4, <1>5, CallsPush
  <2>4. \A k \in 1..Len(b) : d[k] = b[k]
    BY <1>2, <1>4, <1>5, CallsPush
  <2> QED
    BY <2>1, <2>2, <2>3, <2>4
<1>7. \A k \in 1..Len(d) : k = Len(d) \/ k \in 1..Len(b)
  BY <1>2, <1>6
<1> QED
  BY <1>3, <1>6, <1>7 DEF OnTop

(* The frames after such a step.                                           *)
LEMMA OuterFrames ==
    ASSUME \A k \in 1..Len(calls') : k = Len(calls') \/ calls'[k].fn = "endall",
           calls' # <<>> => FrameOK(Top)'
    PROVE  AllFrames(calls)'
<1> SUFFICES ASSUME NEW k \in 1..Len(calls') PROVE FrameOK(calls[k])'
  BY DEF AllFrames
<1>1. CASE calls'[k].fn = "endall"
  BY <1>1 DEF FrameOK
<1>2. CASE k = Len(calls')
  BY <1>2 DEF Top
<1> QED
  BY <1>1, <1>2

(* The handler on which a flush or a pop waits.                            *)
LEMMA AwaitedHandler ==
    ASSUME Inv, phase \in {"run", "ending"}, calls # <<>>, Top.fn \in {"flush", "pop"},
           Top.at = "wait"
    PROVE  /\ handlers # <<>> /\ handlers \in Seq(Handler) /\ Len(handlers) \in 1..Len(handlers)
           /\ Top.h = active /\ Top.h \in Handler /\ Top.h \in live
           /\ Top.h = handlers[Len(handlers)] /\ hd[Top.h].buf = <<>>
           /\ hd[Top.h].level = Len(handlers) - 1
           /\ \A h \in live : OnStack(h)
           /\ Top.h # Null /\ \E i \in 1..Len(handlers) : handlers[i] = Top.h
<1>1. /\ TableInv /\ handlers \in Seq(Handler) /\ Len(handlers) \in Nat
      /\ Returned(calls, res) /\ FrameOK(Top) /\ Top.at = "wait"
  BY NormalFacts DEF TypeInv
<1>2. TakenFrame(Top)
  BY <1>1 DEF FrameOK
<1>3. handlers # <<>> /\ Top.h = active /\ Top.h \in Handler
  BY <1>1, <1>2 DEF TakenFrame
<1>4. ~Holding(Top)
  BY DEF Holding
<1>5. ~Cut /\ \A h : ~Taken(h)
  BY <1>4, Outermost
<1>6. Len(handlers) \in 1..Len(handlers)
  BY <1>1, <1>3
<1>7. Top.h = handlers[Len(handlers)]
  BY <1>1, <1>3, <1>5 DEF TableInv, TopOf, Last
<1>8. Top.h \in live /\ hd[Top.h].level = Len(handlers) - 1
  BY <1>1, <1>6, <1>7 DEF TableInv
<1>9. hd[Top.h].buf = <<>>
  BY <1>1 DEF Returned, Carries, Top
<1>10. \A h \in live : OnStack(h)
  BY <1>1, <1>5 DEF TableInv
<1> QED
  BY <1>1, <1>3, <1>6, <1>7, <1>8, <1>9, <1>10, HandlerAssumption

(* It leaves the stack, and what it returned goes below it.                *)
LEMMA TakenLeaves ==
    ASSUME Inv, phase \in {"run", "ending"}, calls # <<>>, Top.fn \in {"flush", "pop"},
           Top.at = "wait", handlers' = DelTop(handlers),
           active' = IF Top.fn = "flush" THEN active ELSE TopOf(DelTop(handlers)),
           NEW f \in FrameType, f.fn = Top.fn, f.at = "write", f.ctx = res.ctx,
           f.h = Top.h, f.fn = "pop" => f.i = 1, calls' = Becomes(f), res' = NoResult,
           UNCHANGED <<activated, running, live, hd, sink, rest>>
    PROVE  Inv'
<1> USE DEF rest
<1>1. /\ handlers # <<>> /\ handlers \in Seq(Handler) /\ Len(handlers) \in 1..Len(handlers)
      /\ Top.h = active /\ Top.h \in Handler /\ Top.h \in live
      /\ Top.h = handlers[Len(handlers)] /\ hd[Top.h].buf = <<>>
      /\ hd[Top.h].level = Len(handlers) - 1 /\ \A h \in live : OnStack(h)
  BY AwaitedHandler
<1>2. PICK s : s = DelTop(handlers)
  OBVIOUS
<1>3. /\ s \in Seq(Handler) /\ Len(s) = Len(handlers) - 1 /\ Len(handlers) \in Nat \ {0}
      /\ \A i \in 1..Len(s) : s[i] = handlers[i] /\ i \in 1..Len(handlers)
  BY <1>1, <1>2, DelTopFacts
<1>4. PICK d : d = Becomes(f)
  OBVIOUS
<1>5. /\ d \in Seq(FrameType) /\ CallsOK(d, phase) /\ OnTop(d, f) /\ Len(d) \in 1..Len(d)
      /\ \A k \in 1..Len(d) : k = Len(d) \/ d[k].fn = "endall"
  BY <1>4, OuterGoesOn
<1>6. calls' = d /\ handlers' = s /\ Top' = f /\ d # <<>>
  BY <1>2, <1>4, <1>5 DEF Top, OnTop
<1>7. /\ TypeInv /\ TableInv /\ ~bad
      /\ running = Null /\ \A h \in Handler : hd[h].disabled => hd[h].buf = <<>>
  BY NormalFacts, Outermost
<1>8. active' \in HandlerOrNull
  <2>1. CASE s = <<>>
    BY <2>1, <1>1, <1>2 DEF TopOf, HandlerOrNull
  <2>2. CASE s # <<>>
    <3>1. s[Len(s)] \in Handler
      BY <2>2, <1>3
    <3> QED
      BY <3>1, <2>2, <1>1, <1>2 DEF TopOf, Last, HandlerOrNull
  <2> QED
    BY <2>1, <2>2
<1>9. TypeInv'
  BY <1>3, <1>5, <1>6, <1>7, <1>8, NoResultFacts DEF TypeInv
<1>10. Holding(f)
  BY DEF Holding
<1>11. FrameOK(Top)'
  <2>1. TakenFrame(f)'
    BY <1>1, <1>3, <1>6 DEF TakenFrame
  <2> QED
    BY <2>1, <1>1, <1>6 DEF FrameOK
<1>12. AllFrames(calls)'
  BY <1>5, <1>6, <1>11, OuterFrames
<1>13. Returned(calls, res)'
  BY <1>5, <1>6 DEF Returned, Carries, OnTop
<1>14. \A h \in live : OnStack(h)' \/ Taken(h)'
  <2> TAKE h \in live
  <2>1. h \in Handler /\ hd[h].level < Len(handlers) /\ handlers[hd[h].level + 1] = h
        /\ hd[h].level \in Nat
    BY <1>1, NormalFacts DEF OnStack, TypeInv
  <2>2. CASE hd[h].level = Len(handlers) - 1
    <3>1. h = Top.h
      BY <2>1, <2>2, <1>1, <1>3
    <3> QED
      BY <3>1, <1>5, <1>6, <1>10 DEF Taken, OnTop
  <2>3. CASE hd[h].level # Len(handlers) - 1
    <3>1. hd[h].level < Len(s) /\ hd[h].level + 1 \in 1..Len(s)
      BY <2>1, <2>3, <1>3
    <3>2. s[hd[h].level + 1] = h
      BY <3>1, <2>1, <1>3
    <3> QED
      BY <3>1, <3>2, <2>1, <1>6 DEF OnStack
  <2> QED
    BY <2>2, <2>3
<1>15. (~Cut => active = TopOf(handlers))'
  <2>1. CASE Top.fn = "flush"
    <3>1. Cut'
      BY <2>1, <1>5, <1>6, <1>10 DEF Cut, OnTop
    <3> QED
      BY <3>1
  <2>2. CASE Top.fn # "flush"
    BY <2>2, <1>2, <1>6 DEF TopOf
  <2> QED
    BY <2>1, <2>2
<1>16. \A i \in 1..Len(s) : s[i] \in live /\ hd[s[i]].level = i - 1
  BY <1>3, <1>7 DEF TableInv
<1>17. TableInv'
  <2>1. (\A h \in live : OnStack(h) \/ Taken(h))'
    BY <1>14
  <2>2. (\A i \in 1..Len(handlers) : handlers[i] \in live /\ hd[handlers[i]].level = i - 1)'
    BY <1>6, <1>16
  <2>3. running' = Null /\ activated'
    BY <1>7 DEF TableInv
  <2>4. (\A h \in Handler : hd[h].disabled => hd[h].buf = <<>>)'
    BY <1>7
  <2> QED
    BY <2>1, <2>2, <2>3, <2>4, <1>6, <1>15, NoResultFacts DEF TableInv
<1>18. DataInv'
  <2>1. Flight(d, NoResult) = res.ctx.out /\ Doomed(d, NoResult) = <<>>
    BY <1>5, CarriedByWrite DEF OnTop
  <2>2. Gap(calls)' = Len(s)
    BY <1>5, <1>6 DEF Gap, Carries, OnTop
  <2>3. /\ Flight(calls, res) = res.ctx.out /\ Gap(calls) = Len(handlers) - 1
        /\ Doomed(calls, res) = <<>>
    BY CarriedByTaken DEF Top, OnTop
  <2>4. Flow(sink, Buffers, Len(handlers), res.ctx.out, Len(handlers) - 1,
             dropped \union Tokens(<<>>), written)
    BY <2>3, DataFacts
  <2>5. PICK C : C = Buffers'
    OBVIOUS
  <2>6. C = [i \in 1..Len(s) |-> hd[s[i]].buf]
    BY <2>5, <1>6 DEF Buffers
  <2>7. C \in [1..Len(s) -> Seq(Token)]
    BY <2>6, <1>3, NormalFacts
  <2>8. \A j \in 1..Len(s) : C[j] = Buffers[j]
    BY <2>6, <1>3 DEF Buffers
  <2>9. Buffers[Len(handlers)] = <<>>
    BY <1>1 DEF Buffers
  <2>10. Flow(sink, C, Len(handlers) - 1, res.ctx.out, Len(handlers) - 1,
              dropped \union Tokens(<<>>), written)
    <3>1. C \in [1..(Len(handlers) - 1) -> Seq(Token)]
      BY <2>7, <1>3
    <3>2. \A j \in 1..(Len(handlers) - 1) : C[j] = Buffers[j]
      BY <2>8, <1>3
    <3>3. Len(handlers) - 1 <= Len(handlers) - 1
      BY <1>3
    <3> QED
      BY <2>4, <2>9, <3>1, <3>2, <3>3, <1>3, DataFacts, FlowPop
  <2> QED
    BY <2>1, <2>2, <2>5, <2>10, <1>3, <1>6 DEF DataInv
<1>19. NormalInv'
  BY <1>5, <1>6, <1>12, <1>13, <1>17, <1>18 DEF NormalInv
<1> QED
  BY <1>7, <1>9, <1>19 DEF Inv

\* The handler of php_output_flush has returned.
LEMMA FlushReturnsStep ==
    ASSUME Inv, phase \in {"run", "ending"}, FlushReturns
    PROVE  Inv'
<1>0. calls # <<>> /\ Top.fn = "flush" /\ Top.at = "wait" /\ Top \in FrameType
  BY NormalFacts DEF FlushReturns, In
<1>1. CASE res.ctx.out = <<>>
  BY <1>1, FlushReturnsEmpty
<1>2. CASE res.ctx.out # <<>>
  <2>1. PICK f : f = [Top EXCEPT !.at = "write", !.ctx = res.ctx]
    OBVIOUS
  <2>2. handlers # <<>>
    BY <1>0, AwaitedHandler
  <2>3. /\ handlers' = DelTop(handlers) /\ calls' = Becomes(f) /\ res' = NoResult
        /\ active' = active /\ UNCHANGED <<activated, running, live, hd, sink, rest>>
    BY <1>2, <2>1, <2>2 DEF FlushReturns, rest
  <2>4. f \in FrameType /\ f.fn = Top.fn /\ f.at = "write" /\ f.ctx = res.ctx /\ f.h = Top.h
    BY <1>0, <2>1, DataFacts DEF FrameType
  <2> QED
    BY <1>0, <2>3, <2>4, TakenLeaves
<1> QED
  BY <1>1, <1>2

\* The final run of the handler has returned to php_output_stack_pop.
LEMMA PopReturnsStep ==
    ASSUME Inv, phase \in {"run", "ending"}, PopReturns
    PROVE  Inv'
<1>0. calls # <<>> /\ Top.fn = "pop" /\ Top.at = "wait" /\ Top \in FrameType
  BY NormalFacts DEF PopReturns, In
<1>1. /\ handlers # <<>> /\ handlers \in Seq(Handler) /\ active # Null
      /\ \E i \in 1..Len(handlers) : handlers[i] = Top.h
  BY <1>0, AwaitedHandler
<1>2. StillHave(Top.h)
  BY <1>1 DEF StillHave, Range
<1>3. PICK f : f = [Top EXCEPT !.at = "write", !.ctx = res.ctx, !.i = 1]
  OBVIOUS
<1>4. /\ handlers' = DelTop(handlers) /\ calls' = Becomes(f) /\ res' = NoResult
      /\ active' = TopOf(DelTop(handlers))
      /\ UNCHANGED <<activated, running, live, hd, sink, rest>>
  BY <1>1, <1>2, <1>3 DEF PopReturns
<1>5. f \in FrameType /\ f.fn = Top.fn /\ f.at = "write" /\ f.ctx = res.ctx /\ f.h = Top.h /\ f.i = 1
  BY <1>0, <1>3, DataFacts DEF FrameType
<1> QED
  BY <1>0, <1>4, <1>5, TakenLeaves

(* The stack grows by handler h, which holds nothing, and no call is left. *)
LEMMA HandlerJoins ==
    ASSUME Inv, phase \in {"run", "ending"}, phase = "run", UNCHANGED <<sink, rest>>,
           Flight(calls, res) = <<>>, Doomed(calls, res) = <<>>,
           NEW h \in Handler, handlers' = Append(handlers, h), active' = h,
           UNCHANGED <<activated, running>>, running = Null, calls' = <<>>,
           res' = res \/ res' = NoResult,
           live' \in SUBSET Handler, h \in live', hd' \in [Handler -> HandlerType],
           \A g \in Handler : hd'[g].level < Cardinality(Handler),
           hd'[h].level = Len(handlers), hd'[h].buf = <<>>,
           \A g \in live' : g = h \/ (g \in live /\ OnStack(g)),
           \A g \in live : g \in live',
           \A g \in live : hd'[g] = hd[g],
           \A g \in Handler : hd'[g].disabled => hd'[g].buf = <<>>
    PROVE  Inv'
<1> USE DEF rest
<1>1. /\ TypeInv /\ TableInv /\ ~bad /\ handlers \in Seq(Handler) /\ Len(handlers) \in Nat
      /\ Null \notin Handler /\ live \in SUBSET Handler
  BY NormalFacts, HandlerAssumption DEF TypeInv
<1>2. PICK s : s = Append(handlers, h)
  OBVIOUS
<1>3. /\ s \in Seq(Handler) /\ Len(s) = Len(handlers) + 1 /\ s[Len(handlers) + 1] = h
      /\ \A i \in 1..Len(handlers) : s[i] = handlers[i]
  BY <1>1, <1>2, AppendFacts
<1>4. \A i \in 1..Len(s) : i = Len(handlers) + 1 \/ i \in 1..Len(handlers)
  BY <1>1, <1>3
<1>5. handlers' = s /\ res' \in Res /\ (res'.status \notin {"success", "failure"} => res'.ctx.out = <<>>)
  BY <1>2, DataFacts, NoResultFacts
<1>6. TypeInv'
  <2>1. h \in HandlerOrNull /\ <<>> \in Seq(FrameType)
    BY NoElements DEF HandlerOrNull
  <2> QED
    BY <2>1, <1>1, <1>3, <1>5 DEF TypeInv
<1>7. CallsOK(calls, phase)' /\ AllFrames(calls)' /\ Returned(calls, res)'
  BY DEF CallsOK, AllFrames, Returned, Carries
<1>8. \A i \in 1..Len(s) : s[i] \in live' /\ hd'[s[i]].level = i - 1
  <2> TAKE i \in 1..Len(s)
  <2>1. CASE i = Len(handlers) + 1
    BY <2>1, <1>1, <1>3
  <2>2. CASE i \in 1..Len(handlers)
    <3>1. s[i] = handlers[i] /\ handlers[i] \in live /\ hd[handlers[i]].level = i - 1
      BY <2>2, <1>1, <1>3 DEF TableInv
    <3> QED
      BY <3>1
  <2> QED
    BY <2>1, <2>2, <1>4
<1>9. \A g \in live' : OnStack(g)'
  <2> TAKE g \in live'
  <2>1. CASE g = h
    BY <2>1, <1>1, <1>3, <1>5 DEF OnStack
  <2>2. CASE g \in live /\ OnStack(g)
    <3>1. g \in Handler /\ hd[g].level < Len(handlers) /\ handlers[hd[g].level + 1] = g
          /\ hd[g].level \in Nat /\ hd'[g] = hd[g]
      BY <2>2, <1>1, NormalFacts DEF OnStack
    <3>2. hd[g].level + 1 \in 1..Len(handlers) /\ hd[g].level < Len(s)
      BY <3>1, <1>1, <1>3
    <3>3. s[hd[g].level + 1] = g
      BY <3>1, <3>2, <1>3
    <3> QED
      BY <3>1, <3>2, <3>3, <1>5 DEF OnStack
  <2> QED
    BY <2>1, <2>2
<1>10. active' = TopOf(handlers')
  <2>1. s # <<>> /\ s[Len(s)] = h
    BY <1>1, <1>3
  <2> QED
    BY <2>1, <1>5 DEF TopOf, Last
<1>11. TableInv'
  <2>1. (\A g \in live : OnStack(g) \/ Taken(g))'
    BY <1>9
  <2>2. (\A i \in 1..Len(handlers) : handlers[i] \in live /\ hd[handlers[i]].level = i - 1)'
    BY <1>5, <1>8
  <2>3. running' = Null /\ activated' /\ phase' = "run"
    BY <1>1 DEF TableInv
  <2>4. (\A g \in Handler : hd[g].disabled => hd[g].buf = <<>>)'
    OBVIOUS
  <2> QED
    BY <2>1, <2>2, <2>3, <2>4, <1>5, <1>10 DEF TableInv
<1>12. DataInv'
  <2>1. Flight(<<>>, res') = <<>> /\ Doomed(<<>>, res') = <<>>
    BY CarriedByNone
  <2>2. Gap(calls)' = 0
    BY DEF Gap, Carries
  <2>3. Flow(sink, Buffers, Len(handlers), <<>>, 0, dropped \union Tokens(<<>>), written)
    <3>1. Flow(sink, Buffers, Len(handlers), <<>>, Gap(calls), dropped \union Tokens(<<>>), written)
      BY DataFacts
    <3> QED
      BY <3>1, DataFacts, FlowAnyGap
  <2>4. PICK C : C = Buffers'
    OBVIOUS
  <2>5. C = [i \in 1..Len(s) |-> hd'[s[i]].buf]
    BY <2>4, <1>5 DEF Buffers
  <2>6. C \in [1..Len(s) -> Seq(Token)]
    <3>1. \A g \in Handler : hd'[g].buf \in Seq(Token)
      BY DEF HandlerType
    <3>2. \A i \in 1..Len(s) : s[i] \in Handler
      BY <1>3
    <3> QED
      BY <3>1, <3>2, <2>5
  <2>7. \A j \in 1..Len(handlers) : C[j] = Buffers[j]
    <3> TAKE j \in 1..Len(handlers)
    <3>1. j \in 1..Len(s) /\ s[j] = handlers[j] /\ handlers[j] \in live
      BY <1>1, <1>3 DEF TableInv
    <3> QED
      BY <3>1, <2>5 DEF Buffers
  <2>8. C[Len(handlers) + 1] = <<>>
    <3>1. Len(handlers) + 1 \in 1..Len(s)
      BY <1>1, <1>3
    <3> QED
      BY <3>1, <2>5, <1>3
  <2>9. C \in [1..(Len(handlers) + 1) -> Seq(Token)]
    BY <2>6, <1>3
  <2>10. <<>> \in Seq(Token)
    BY NoElements
  <2>11. Flow(sink, C, Len(handlers) + 1, <<>>, 0, dropped \union Tokens(<<>>), written)
    BY <2>3, <2>7, <2>8, <2>9, <2>10, DataFacts, FlowPush
  <2> QED
    BY <2>1, <2>2, <2>4, <2>11, <1>3, <1>5 DEF DataInv
<1>13. NormalInv'
  BY <1>7, <1>11, <1>12 DEF NormalInv
<1> QED
  BY <1>1, <1>6, <1>13 DEF Inv

\* php_output_flush puts its handler back on the stack.
LEMMA FlushPushesStep ==
    ASSUME Inv, phase \in {"run", "ending"}, FlushPushes
    PROVE  Inv'
<1>0. calls # <<>> /\ Top.fn = "flush" /\ Top.at = "push"
  BY DEF FlushPushes, In
<1>1. TypeInv /\ TableInv /\ FrameOK(Top) /\ calls \in Seq(FrameType)
  BY <1>0, NormalFacts DEF TypeInv
<1>2. Top.h = active /\ active \in live /\ hd[active].level = Len(handlers) /\ hd[active].buf = <<>>
  BY <1>0, <1>1 DEF FrameOK, TakenFrame
<1>3. Len(calls) = 1 /\ phase = "run" /\ running = Null
      /\ \A h \in Handler : hd[h].disabled => hd[h].buf = <<>>
  BY <1>0, Outermost
<1>4. Pop = <<>>
  <2>1. Len(Pop) = 0 /\ Pop \in Seq(FrameType)
    BY <1>0, <1>1, <1>3, FrontFacts DEF Pop
  <2> QED
    BY <2>1
<1>5. /\ handlers' = Append(handlers, active) /\ calls' = <<>> /\ res' = NoResult
      /\ active' = active /\ UNCHANGED <<activated, running>> /\ live' = live /\ hd' = hd
      /\ UNCHANGED <<sink, rest>>
  BY <1>2, <1>4 DEF FlushPushes, Return
<1>6. Flight(calls, res) = <<>> /\ Doomed(calls, res) = <<>>
  BY <1>0, CarriedByEmpty DEF Top, OnTop, Empty
<1>7. \A g \in live : g = active \/ OnStack(g)
  BY <1>0, <1>1, <1>2, Outermost DEF TableInv
<1>8. active \in Handler /\ live \in SUBSET Handler /\ hd \in [Handler -> HandlerType]
      /\ \A g \in Handler : hd[g].level < Cardinality(Handler)
  BY <1>1, <1>2 DEF TypeInv
<1> QED
  BY <1>2, <1>3, <1>5, <1>6, <1>7, <1>8, HandlerJoins
(* A stack without a handler twice is no higher than there are handlers.   *)
LEMMA DistinctHandlers ==
    ASSUME NEW s \in Seq(Handler), \A i, j \in 1..Len(s) : s[i] = s[j] => i = j
    PROVE  /\ Cardinality(Range(s)) = Len(s) /\ Len(s) <= Cardinality(Handler)
           /\ Cardinality(Handler) \in Nat
<1>1. Len(s) \in Nat /\ s \in [1..Len(s) -> Handler] /\ DOMAIN s = 1..Len(s)
  OBVIOUS
<1>2. IsFiniteSet(1..Len(s)) /\ Cardinality(1..Len(s)) = Len(s)
  BY <1>1, IntervalSize
<1>3. IsInjective(s)
  BY <1>1 DEF IsInjective
<1>4. s \in Injection(1..Len(s), Handler)
  BY <1>1, <1>3 DEF Injection
<1>5. Len(s) <= Cardinality(Handler)
  BY <1>2, <1>4, FS_Injection, HandlerAssumption
<1>6. Range(s) = { s[x] : x \in 1..Len(s) }
  BY <1>1 DEF Range
<1>7. s \in [1..Len(s) -> Range(s)] /\ \A t \in Range(s) : \E x \in 1..Len(s) : s[x] = t
  BY <1>1, <1>6
<1>8. s \in Bijection(1..Len(s), Range(s))
  BY <1>3, <1>7 DEF Bijection, Injection, Surjection
<1>9. ExistsBijection(1..Len(s), Range(s))
  BY <1>8 DEF ExistsBijection
<1>10. Cardinality(Range(s)) = Len(s)
  BY <1>2, <1>9, FS_Bijection
<1>11. Cardinality(Handler) \in Nat
  BY FS_CardinalityType, HandlerAssumption
<1> QED
  BY <1>5, <1>10, <1>11

\* No handler is on the stack twice.
LEMMA StackDistinct ==
    ASSUME Inv, phase \in {"run", "ending"}
    PROVE  \A i, j \in 1..Len(handlers) : handlers[i] = handlers[j] => i = j
<1> SUFFICES ASSUME NEW i \in 1..Len(handlers), NEW j \in 1..Len(handlers),
                    handlers[i] = handlers[j]
             PROVE  i = j
  OBVIOUS
<1>1. hd[handlers[i]].level = i - 1 /\ hd[handlers[j]].level = j - 1
  BY NormalFacts DEF TableInv
<1>2. i \in Nat /\ j \in Nat /\ i - 1 = j - 1
  BY <1>1, NormalFacts
<1> QED
  BY <1>2

\* php_output_handler_start pushes a handler above the others.
LEMMA StartStep ==
    ASSUME WritesOnly, Inv, phase \in {"run", "ending"}, NEW h \in Handler, NEW kind \in Kinds,
           NEW size \in ChunkSizes, NEW can \in {{}, Abilities},
           php_output_handler_start(h, kind, size, can)
    PROVE  Inv'
<1>0. calls = <<>> /\ phase = "run" /\ h \notin live
  BY ProgramAlone DEF php_output_handler_start
<1>1. /\ running = Null /\ Flight(calls, res) = <<>> /\ Doomed(calls, res) = <<>>
      /\ ~Carries(calls, {"handler"}, "deprecated")
  BY <1>0, IdleFacts
<1>2. /\ TypeInv /\ TableInv /\ hd \in [Handler -> HandlerType] /\ live \in SUBSET Handler
      /\ handlers \in Seq(Handler) /\ Len(handlers) \in Nat
      /\ \A g \in Handler : hd[g].level < Cardinality(Handler)
  BY NormalFacts DEF TypeInv
<1>3. PICK x : x = [NewHandler(kind, size, can) EXCEPT !.level = Len(handlers)]
  OBVIOUS
<1>4. /\ handlers' = Append(handlers, h) /\ active' = h /\ live' = live \union {h}
      /\ hd' = [hd EXCEPT ![h] = x]
      /\ UNCHANGED <<activated, running>> /\ calls' = <<>> /\ res' = res
      /\ UNCHANGED <<sink, rest>>
  BY <1>0, <1>1, <1>3 DEF php_output_handler_start, Locked
<1>5. x \in HandlerType /\ x.level = Len(handlers) /\ x.buf = <<>> /\ x.disabled = FALSE
  <2>1. kind \in {"default", "devnull", "user"} /\ size \in Nat /\ can \in SUBSET Abilities
        /\ <<>> \in Seq(Token)
    BY KindAssumption, SizeAssumption, NoElements
  <2> QED
    BY <2>1, <1>2, <1>3 DEF NewHandler, HandlerType
<1>6. hd' \in [Handler -> HandlerType] /\ hd'[h] = x /\ \A g \in Handler : g # h => hd'[g] = hd[g]
  BY <1>2, <1>4, <1>5
<1>7. \A g \in live : OnStack(g)
  <2>1. \A g : ~Taken(g)
    BY <1>0 DEF Taken
  <2> QED
    BY <2>1, <1>2 DEF TableInv
<1>8. Len(handlers) < Cardinality(Handler)
  <2>1. PICK s : s = Append(handlers, h)
    OBVIOUS
  <2>2. /\ s \in Seq(Handler) /\ Len(s) = Len(handlers) + 1 /\ s[Len(handlers) + 1] = h
        /\ \A i \in 1..Len(handlers) : s[i] = handlers[i]
    BY <2>1, <1>2, AppendFacts
  <2>3. \A i \in 1..Len(handlers) : handlers[i] # h
    BY <1>0, <1>2 DEF TableInv
  <2>4. \A i, j \in 1..Len(s) : s[i] = s[j] => i = j
    <3> SUFFICES ASSUME NEW i \in 1..Len(s), NEW j \in 1..Len(s), s[i] = s[j] PROVE i = j
      OBVIOUS
    <3>1. /\ i = Len(handlers) + 1 \/ i \in 1..Len(handlers)
          /\ j = Len(handlers) + 1 \/ j \in 1..Len(handlers)
      BY <1>2, <2>2
    <3> QED
      BY <3>1, <2>2, <2>3, StackDistinct
  <2> QED
    BY <2>2, <2>4, <1>2, DistinctHandlers
<1>9. \A g \in Handler : hd'[g].level < Cardinality(Handler)
  BY <1>2, <1>5, <1>6, <1>8
<1>10. \A g \in Handler : hd'[g].disabled => hd'[g].buf = <<>>
  <2>1. \A g \in Handler : hd[g].disabled => hd[g].buf = <<>>
    BY <1>1, <1>2 DEF TableInv
  <2> QED
    BY <2>1, <1>5, <1>6
<1>11. \A g \in live : hd'[g] = hd[g] /\ g \in live'
  BY <1>0, <1>2, <1>4, <1>6
<1>12. /\ live' \in SUBSET Handler /\ h \in live'
       /\ \A g \in live' : g = h \/ (g \in live /\ OnStack(g))
  BY <1>2, <1>4, <1>7
<1>13. hd'[h].level = Len(handlers) /\ hd'[h].buf = <<>>
  BY <1>5, <1>6
<1> QED
  BY <1>0, <1>1, <1>4, <1>6, <1>9, <1>10, <1>11, <1>12, <1>13, HandlerJoins

(* php_output_stack_pop frees the handler it has taken off the stack.      *)
LEMMA PopFreesStep ==
    ASSUME Inv, phase \in {"run", "ending"}, PopFrees
    PROVE  Inv'
<1> USE DEF rest
<1>0. calls # <<>> /\ Top.fn = "pop" /\ Top.at = "free" /\ Holding(Top)
  BY DEF PopFrees, In, Holding
<1>1. /\ TypeInv /\ TableInv /\ ~bad /\ FrameOK(Top) /\ calls \in Seq(FrameType)
      /\ handlers \in Seq(Handler) /\ live \in SUBSET Handler /\ hd \in [Handler -> HandlerType]
      /\ Len(handlers) \in Nat /\ \A g \in Handler : hd[g].level < Cardinality(Handler)
  BY <1>0, NormalFacts DEF TypeInv
<1>2. PICK h : h = Top.h
  OBVIOUS
<1>3. Top.i = 1 /\ h \in live /\ h \in Handler /\ hd[h].level = Len(handlers)
  BY <1>0, <1>1, <1>2 DEF FrameOK, TakenFrame
<1>4. PICK d : d = Pop
  OBVIOUS
<1>5. PICK r : r = Result("popped", Nothing)
  OBVIOUS
<1>6. r \in Res /\ r.status = "popped" /\ r.ctx.out = <<>>
  BY <1>5, NothingFacts, ResultFields
<1>7. /\ live' = live \ {h} /\ hd' = Freed({h}) /\ calls' = d /\ res' = r
      /\ UNCHANGED <<activated, active, running, handlers, sink, written, dropped, bad, phase>>
  BY <1>2, <1>3, <1>4, <1>5 DEF PopFrees, Return
<1>8. PICK x : x = NewHandler("default", 0, {})
  OBVIOUS
<1>9. x \in HandlerType /\ x.level = 0 /\ x.buf = <<>> /\ x.disabled = FALSE
  <2>1. <<>> \in Seq(Token)
    BY NoElements
  <2> QED
    BY <2>1, <1>8 DEF NewHandler, HandlerType
<1>10. hd' \in [Handler -> HandlerType] /\ hd'[h] = x /\ \A g \in Handler : g # h => hd'[g] = hd[g]
  BY <1>1, <1>3, <1>7, <1>8, <1>9 DEF Freed
<1>11. \A g \in Handler : hd'[g].level < Cardinality(Handler)
  <2>1. Cardinality(Handler) \in Nat
    BY FS_CardinalityType, HandlerAssumption
  <2>2. 0 < Cardinality(Handler)
    BY <1>1, <1>3, <2>1
  <2> QED
    BY <2>2, <1>1, <1>9, <1>10
<1>12. \A i \in 1..Len(handlers) : handlers[i] # h /\ handlers[i] \in Handler
                                   /\ handlers[i] \in live /\ hd[handlers[i]].level = i - 1
  <2> TAKE i \in 1..Len(handlers)
  <2>1. handlers[i] \in live /\ hd[handlers[i]].level = i - 1 /\ handlers[i] \in Handler
    BY <1>1 DEF TableInv
  <2>2. i - 1 # Len(handlers)
    BY <1>1
  <2> QED
    BY <2>1, <2>2, <1>3
<1>13. /\ d \in Seq(FrameType) /\ CallsOK(d, phase) /\ Len(d) = Len(calls) - 1
       /\ \A k \in 1..Len(d) : d[k] = calls[k]
  BY <1>0, <1>1, <1>4, CallsPop, NormalFacts DEF Pop
<1>14. /\ Flight(d, r) = <<>> /\ Doomed(d, r) = <<>> /\ Gap(d) = 0
       /\ (d = <<>> /\ phase = "ending" => FALSE)
  BY <1>0, <1>4, PlainReturns
<1>15. \A k \in 1..Len(d) : d[k].fn = "endall"
  <2>1. Len(calls) \in Nat
    BY NormalFacts
  <2> QED
    BY <2>1, <1>0, <1>13, Outermost
<1>16. AllFrames(calls)' /\ Returned(calls, res)'
  <2>1. AllFrames(calls)'
    BY <1>7, <1>15 DEF AllFrames, FrameOK
  <2>2. d # <<>> => d[Len(d)].fn = "endall"
    BY <1>13, <1>15
  <2>3. Returned(calls, res)'
    BY <2>2, <1>7 DEF Returned, Carries
  <2> QED
    BY <2>1, <2>3
<1>17. TypeInv'
  BY <1>1, <1>6, <1>7, <1>10, <1>11, <1>13 DEF TypeInv
<1>18. \A g \in live' : OnStack(g)'
  <2> TAKE g \in live'
  <2>1. g \in live /\ g # h /\ g \in Handler /\ hd'[g] = hd[g]
    BY <1>1, <1>7, <1>10
  <2>2. OnStack(g)
    BY <2>1, <1>0, <1>1, <1>2, Outermost DEF TableInv
  <2> QED
    BY <2>1, <2>2, <1>7 DEF OnStack
<1>19. \A i \in 1..Len(handlers) : handlers[i] \in live' /\ hd'[handlers[i]].level = i - 1
  BY <1>7, <1>10, <1>12
<1>20. running = Null /\ active = TopOf(handlers)
       /\ \A g \in Handler : hd[g].disabled => hd[g].buf = <<>>
  BY <1>0, Outermost, NotCut
<1>21. TableInv'
  <2>1. (\A g \in live : OnStack(g) \/ Taken(g))'
    BY <1>18
  <2>2. (\A i \in 1..Len(handlers) : handlers[i] \in live /\ hd[handlers[i]].level = i - 1)'
    BY <1>7, <1>19
  <2>3. running' = Null /\ activated' /\ active' = TopOf(handlers')
    BY <1>1, <1>7, <1>20 DEF TableInv
  <2>4. \A g \in Handler : hd'[g].disabled => hd'[g].buf = <<>>
    BY <1>9, <1>10, <1>20
  <2> QED
    BY <2>1, <2>2, <2>3, <2>4, <1>6, <1>7, <1>14 DEF TableInv
<1>22. DataInv'
  <2>1. Gap(calls)' = 0
    <3>1. d # <<>> => d[Len(d)].fn = "endall"
      BY <1>13, <1>15
    <3> QED
      BY <3>1, <1>7 DEF Gap, Carries
  <2>2. Flight(calls, res) = <<>> /\ Doomed(calls, res) = <<>>
    BY <1>0, CarriedByEmpty DEF Top, OnTop, Empty
  <2>3. Flow(sink, Buffers, Len(handlers), <<>>, 0, dropped \union Tokens(<<>>), written)
    <3>1. Flow(sink, Buffers, Len(handlers), <<>>, Gap(calls), dropped \union Tokens(<<>>), written)
      BY <2>2, DataFacts
    <3> QED
      BY <3>1, DataFacts, FlowAnyGap
  <2>4. Buffers' = Buffers
    <3>1. \A i \in 1..Len(handlers) : hd'[handlers[i]] = hd[handlers[i]]
      BY <1>10, <1>12
    <3> QED
      BY <3>1, <1>7 DEF Buffers
  <2> QED
    BY <2>1, <2>3, <2>4, <1>7, <1>14 DEF DataInv
<1>23. NormalInv'
  BY <1>7, <1>13, <1>16, <1>21, <1>22 DEF NormalInv
<1> QED
  BY <1>1, <1>7, <1>17, <1>23 DEF Inv
-----------------------------------------------------------------------------
(* The request ends, or is left by a bailout.                              *)

(* php_output_deactivate leaves no stack.                                  *)
LEMMA Deactivated ==
    ASSUME TypeInv, php_output_deactivate
    PROVE  /\ activated' = FALSE /\ active' = Null /\ running' = Null /\ handlers' = <<>>
           /\ live' \in SUBSET Handler /\ hd' \in [Handler -> HandlerType]
           /\ \A h \in Handler : hd'[h].level < Cardinality(Handler)
           /\ Null \in HandlerOrNull /\ <<>> \in Seq(Handler)
<1>1. /\ activated' = FALSE /\ active' = Null /\ running' = Null /\ handlers' = <<>>
      /\ live' = live \ Range(handlers) /\ hd' = Freed(Range(handlers))
  BY DEF php_output_deactivate
<1>2. PICK x : x = NewHandler("default", 0, {})
  OBVIOUS
<1>3. x \in HandlerType /\ x.level = 0
  <2>1. <<>> \in Seq(Token)
    BY NoElements
  <2> QED
    BY <2>1, <1>2 DEF NewHandler, HandlerType
<1>4. /\ live \in SUBSET Handler /\ hd \in [Handler -> HandlerType]
      /\ \A h \in Handler : hd[h].level < Cardinality(Handler) /\ hd[h].level \in Nat
  BY DEF TypeInv, HandlerType
<1>5. hd' = [h \in Handler |-> IF h \in Range(handlers) THEN x ELSE hd[h]]
  BY <1>1, <1>2 DEF Freed
<1>6. hd' \in [Handler -> HandlerType]
  BY <1>3, <1>4, <1>5
<1>7. \A h \in Handler : hd'[h].level < Cardinality(Handler)
  <2> TAKE h \in Handler
  <2>1. Cardinality(Handler) \in Nat
    BY FS_CardinalityType, HandlerAssumption
  <2>2. 0 < Cardinality(Handler)
    BY <2>1, <1>4
  <2>3. hd'[h] = x \/ hd'[h] = hd[h]
    BY <1>5
  <2> QED
    BY <2>2, <2>3, <1>3, <1>4
<1> QED
  BY <1>1, <1>4, <1>6, <1>7, NoElements DEF HandlerOrNull

\* php_output_deactivate, once every handler was finalized, frees what is left.
LEMMA DeactivateStep ==
    ASSUME Inv, Deactivate
    PROVE  Inv'
<1>1. /\ TypeInv /\ ~bad /\ calls = <<>> /\ phase \in {"ending", "aborting"}
      /\ phase' = IF phase = "ending" THEN "ended" ELSE "aborted"
      /\ php_output_deactivate /\ UNCHANGED <<calls, res, sink, written, bad>>
  BY DEF Inv, Deactivate
<1>2. TypeInv'
  BY <1>1, Deactivated DEF TypeInv, Phases
<1>3. phase' \in {"ended", "aborted"}
  BY <1>1
<1>4. EndInv'
  <2>1. CASE phase = "aborting"
    BY <2>1, <1>1 DEF EndInv
  <2>2. CASE phase = "ending"
    <3>1. active = Null
      BY <2>2, <1>1, NormalFacts DEF TableInv
    <3>2. handlers = <<>>
      BY <2>2, <3>1, <1>1, NotCut
    <3>3. Flight(calls, res) = <<>> /\ Doomed(calls, res) = <<>>
      BY <1>1, CarriedByNone
    <3>4. Flow(sink, Buffers, 0, <<>>, Gap(calls), dropped \union Tokens(<<>>), written)
      BY <2>2, <3>2, <3>3, DataFacts
    <3>5. \A t \in 1..written : t \in Tokens(sink) \/ t \in dropped
      BY <3>4, EmptyPiece DEF Flow, Complete
    <3>6. \A t \in dropped : t \in dropped'
      BY <1>1 DEF php_output_deactivate
    <3> QED
      BY <3>5, <3>6, <1>1 DEF EndInv
  <2> QED
    BY <2>1, <2>2, <1>1
<1> QED
  BY <1>1, <1>2, <1>3, <1>4 DEF Inv

(* The active handler of a normal state, also while a flush holds it.      *)
LEMMA ActiveAnywhere ==
    ASSUME Inv, phase \in {"run", "ending"}, handlers # <<>>
    PROVE  active \in live /\ \A i \in 1..(Len(handlers) - 1) : handlers[i] # active
<1>0. /\ TableInv /\ AllFrames(calls) /\ handlers \in Seq(Handler) /\ Len(handlers) \in Nat
      /\ \A i \in 1..Len(handlers) : handlers[i] \in live /\ hd[handlers[i]].level = i - 1
  BY NormalFacts DEF TypeInv, TableInv
<1>1. CASE ~Cut
  <2>1. active = handlers[Len(handlers)] /\ Len(handlers) \in 1..Len(handlers)
    BY <1>0, <1>1 DEF TableInv, TopOf, Last
  <2>2. \A i \in 1..(Len(handlers) - 1) : i \in 1..Len(handlers) /\ i # Len(handlers)
    BY <1>0
  <2> QED
    BY <2>1, <2>2, <1>0, StackDistinct
<1>2. CASE Cut
  <2>1. PICK k \in 1..Len(calls) : Holding(calls[k]) /\ calls[k].fn = "flush"
    BY <1>2 DEF Cut
  <2>2. TakenFrame(calls[k]) /\ calls[k].h = active
    BY <2>1, <1>0 DEF AllFrames, FrameOK
  <2>3. active \in live /\ hd[active].level = Len(handlers)
    BY <2>1, <2>2 DEF Holding, TakenFrame
  <2>4. \A i \in 1..(Len(handlers) - 1) : i \in 1..Len(handlers) /\ i - 1 # Len(handlers)
    BY <1>0
  <2> QED
    BY <2>3, <2>4, <1>0
<1> QED
  BY <1>1, <1>2

\* A bailout abandons every call and leads to the abort mode.
LEMMA BailoutStep ==
    ASSUME Inv, phase \in {"run", "ending"}, Bailout
    PROVE  Inv'
<1> USE DEF globals
<1>0. calls # <<>> /\ Top.fn = "handler" /\ Top.at = "callback"
  BY DEF Bailout, In
<1>1. /\ calls' = <<>> /\ res' = NoResult /\ phase' = "bailed"
      /\ UNCHANGED <<activated, active, running, handlers, live, hd, sink, written, bad>>
  BY DEF Bailout
<1>2. TypeInv /\ TableInv /\ ~bad /\ FrameOK(Top) /\ Null \notin Handler /\ handlers \in Seq(Handler)
  BY <1>0, NormalFacts, HandlerAssumption DEF TypeInv
<1>3. running = Top.h /\ OnStack(Top.h)
  BY <1>0, <1>2 DEF FrameOK, HandlerFrame
<1>4. running # Null /\ handlers # <<>>
  <2>1. Top.h \in Handler /\ hd[Top.h].level < Len(handlers) /\ hd[Top.h].level \in Nat
    BY <1>3, NormalFacts DEF OnStack
  <2>2. Len(handlers) # 0
    BY <2>1
  <2> QED
    BY <2>1, <2>2, <1>2, <1>3
<1>5. TypeInv'
  BY <1>1, <1>2, NoResultFacts, NoElements DEF TypeInv, Phases
<1>6. active \in live /\ \A i \in 1..(Len(handlers) - 1) : handlers[i] # active
  BY <1>4, ActiveAnywhere
<1>7. AbortTable'
  <2>1. activated /\ \A i \in 1..Len(handlers) : handlers[i] \in live
    BY <1>2 DEF TableInv
  <2>2. \A i, j \in 1..Len(handlers) : handlers[i] = handlers[j] => i = j
    BY StackDistinct
  <2> QED
    BY <2>1, <2>2, <1>1, <1>4, <1>6 DEF AbortTable
<1>8. AbortCalls' /\ AbortPop'
  <2>1. Len(calls') = 0
    BY <1>1
  <2> QED
    BY <2>1, <1>1 DEF AbortCalls, AbortPop
<1> QED
  BY <1>1, <1>2, <1>5, <1>7, <1>8 DEF Inv, AbortInv
-----------------------------------------------------------------------------
(* The end of a request that was left by a bailout.                        *)

Aborting == Inv /\ phase \in {"bailed", "aborting"}

\* What the invariant says after a bailout.
LEMMA AbortFacts ==
    ASSUME Aborting
    PROVE  /\ TypeInv /\ ~bad /\ AbortCalls /\ AbortTable /\ AbortPop
           /\ calls \in Seq(FrameType) /\ Len(calls) \in Nat /\ handlers \in Seq(Handler)
           /\ Len(handlers) \in Nat /\ res \in Res /\ Null \notin Handler
           /\ live \in SUBSET Handler
           /\ calls # <<>> => /\ phase = "aborting" /\ Top \in FrameType
                              /\ Top.fn \in {"endall", "pop", "handler"}
                              /\ Top.fn = "endall" => Len(calls) = 1
                              /\ Top.fn = "pop" => Len(calls) = 2 /\ Top = calls[2]
                              /\ Top.fn = "handler" => Len(calls) = 3 /\ Top = calls[3]
                                                       /\ Top.at = "enter"
<1>1. /\ TypeInv /\ ~bad /\ AbortCalls /\ AbortTable /\ AbortPop
      /\ calls \in Seq(FrameType) /\ Len(calls) \in Nat /\ handlers \in Seq(Handler)
      /\ Len(handlers) \in Nat /\ res \in Res /\ Null \notin Handler /\ live \in SUBSET Handler
  BY HandlerAssumption DEF Aborting, Inv, AbortInv, TypeInv
<1>2. ASSUME calls # <<>>
      PROVE  /\ phase = "aborting" /\ Top \in FrameType
             /\ Top.fn \in {"endall", "pop", "handler"}
             /\ Top.fn = "endall" => Len(calls) = 1
             /\ Top.fn = "pop" => Len(calls) = 2 /\ Top = calls[2]
             /\ Top.fn = "handler" => Len(calls) = 3 /\ Top = calls[3] /\ Top.at = "enter"
  <2>1. Len(calls) = 1 \/ Len(calls) = 2 \/ Len(calls) = 3
    <3>1. Len(calls) # 0 /\ Len(calls) <= 3 /\ Len(calls) \in Nat
      BY <1>1, <1>2 DEF AbortCalls
    <3>2. \A n \in Nat : n # 0 /\ n <= 3 => n = 1 \/ n = 2 \/ n = 3
      OBVIOUS
    <3> QED
      BY ONLY <3>1, <3>2
  <2>2. phase = "aborting" /\ Top \in FrameType
    BY <1>1, <1>2 DEF AbortCalls, Top, Aborting
  <2>3. CASE Len(calls) = 1
    BY <2>2, <2>3, <1>1 DEF AbortCalls, Top
  <2>4. CASE Len(calls) = 2
    BY <2>2, <2>4, <1>1 DEF AbortCalls, Top
  <2>5. CASE Len(calls) = 3
    BY <2>2, <2>5, <1>1 DEF AbortCalls, Top
  <2> QED
    BY <2>1, <2>3, <2>4, <2>5
<1> QED
  BY <1>1, <1>2

(* The calls after a step.                                                 *)
LEMMA AbortReturns ==
    ASSUME Aborting, calls # <<>>, NEW d, d = Pop
    PROVE  /\ d \in Seq(FrameType) /\ Len(d) = Len(calls) - 1
           /\ \A k \in 1..Len(d) : d[k] = calls[k]
<1>1. calls \in Seq(FrameType)
  BY AbortFacts
<1> QED
  BY <1>1, FrontFacts DEF Pop

\* If the innermost call goes on with frame f, the others stay.
LEMMA AbortGoesOn ==
    ASSUME Aborting, calls # <<>>, NEW f \in FrameType, NEW d, d = Becomes(f)
    PROVE  /\ d \in Seq(FrameType) /\ Len(d) = Len(calls) /\ d[Len(calls)] = f
           /\ \A k \in 1..(Len(calls) - 1) : d[k] = calls[k]
<1>1. PICK b : b = Pop
  OBVIOUS
<1>2. /\ b \in Seq(FrameType) /\ Len(b) = Len(calls) - 1 /\ Len(calls) \in Nat
      /\ \A k \in 1..Len(b) : b[k] = calls[k]
  BY <1>1, AbortReturns, AbortFacts
<1>3. d = Append(b, f)
  BY <1>1 DEF Becomes
<1>4. /\ d \in Seq(FrameType) /\ Len(d) = Len(b) + 1 /\ d[Len(b) + 1] = f
      /\ \A k \in 1..Len(b) : d[k] = b[k]
  BY <1>2, <1>3, AppendFacts
<1> QED
  BY <1>2, <1>4

\* After a bailout the end of the request enters php_output_end_all.
LEMMA AbortLoopStep ==
    ASSUME Aborting, php_nano_deactivate_core
    PROVE  Inv'
<1> USE DEF globals
<1>1. PICK g : g = Frame("endall", Null, Nothing, Len(handlers), "loop", FALSE)
  OBVIOUS
<1>2. /\ calls = <<>> /\ phase' = "aborting" /\ calls' = Append(<<>>, g)
      /\ UNCHANGED <<activated, active, running, handlers, live, hd, res, sink, written, bad>>
  BY <1>1 DEF php_nano_deactivate_core, CallLoop, Aborting
<1>3. g \in FrameType /\ g.fn = "endall"
  <2>1. g \in FrameType
    BY <1>1, AbortFacts, NothingFacts, FrameTyped DEF HandlerOrNull
  <2> QED
    BY <2>1, <1>1 DEF Frame
<1>4. calls' \in Seq(FrameType) /\ Len(calls') = 1 /\ calls'[1] = g
  BY <1>2, <1>3
<1>5. TypeInv'
  BY <1>2, <1>4, AbortFacts DEF TypeInv, Phases
<1>6. AbortTable'
  BY <1>2, AbortFacts DEF AbortTable
<1>7. AbortCalls' /\ AbortPop'
  BY <1>2, <1>3, <1>4 DEF AbortCalls, AbortPop
<1> QED
  BY <1>2, <1>5, <1>6, <1>7, AbortFacts DEF Inv, AbortInv

\* After a bailout one iteration of php_output_end_all pops a handler or ends.
LEMMA AbortEndAllStep ==
    ASSUME Aborting, EndAllStep
    PROVE  Inv'
<1> USE DEF globals, rest
<1>0. calls # <<>> /\ Top.fn = "endall" /\ Top.flags \in BOOLEAN
  BY AbortFacts DEF EndAllStep, In, FrameType
<1>1. Len(calls) = 1 /\ phase = "aborting"
  BY <1>0, AbortFacts
<1>2. CASE active = Null
  <2>1. /\ calls' = Pop /\ res' = NoResult
        /\ UNCHANGED <<activated, active, running, handlers, live, hd, sink, written, bad, phase>>
    BY <1>2 DEF EndAllStep, Return
  <2>2. calls' \in Seq(FrameType) /\ Len(calls') = 0
    BY <1>0, <1>1, <2>1, AbortReturns
  <2>3. TypeInv'
    BY <2>1, <2>2, AbortFacts, NoResultFacts DEF TypeInv
  <2>4. AbortTable'
    BY <2>1, AbortFacts DEF AbortTable
  <2>5. AbortCalls' /\ AbortPop'
    BY <2>1, <2>2, <1>1 DEF AbortCalls, AbortPop
  <2> QED
    BY <2>1, <2>3, <2>4, <2>5, <1>1, AbortFacts DEF Inv, AbortInv
<1>3. CASE active # Null
  <2>0. activated /\ active \in live /\ handlers # <<>> /\ active \in Handler
    BY <1>3, AbortFacts DEF AbortTable
  <2>1. PICK f : f = Frame("pop", active, Nothing, 0, "wait", Top.flags)
    OBVIOUS
  <2>2. PICK c : c = Append(calls, f)
    OBVIOUS
  <2>3. f \in FrameType /\ f.fn = "pop" /\ f.h = active /\ f.at = "wait"
    BY <1>0, <2>0, <2>1, NothingFacts, FrameTyped, FrameFields DEF HandlerOrNull
  <2>4. c \in Seq(FrameType) /\ Len(c) = 2 /\ c[1] = calls[1] /\ c[2] = f
    <3>1. calls \in Seq(FrameType) /\ 1 \in 1..Len(calls)
      BY <1>1, AbortFacts
    <3>2. /\ c \in Seq(FrameType) /\ Len(c) = Len(calls) + 1
          /\ c[1] = calls[1] /\ c[Len(calls) + 1] = f
      BY <3>1, <2>2, <2>3, AppendFacts
    <3> QED
      BY <3>2, <1>1
  <2>5. calls[1].fn = "endall"
    BY <1>1, AbortFacts DEF AbortCalls
  <2>6. CASE hd[active].disabled
    <3>1. PICK r : r = Result("failure", Nothing)
      OBVIOUS
    <3>2. /\ calls' = c /\ res' = r
          /\ UNCHANGED <<activated, active, running, handlers, live, hd, sink, written, bad, phase>>
      BY <1>3, <2>0, <2>1, <2>2, <2>6, <3>1 DEF EndAllStep, CallPop
    <3>3. r \in Res /\ r.ctx.out = <<>>
      BY <3>1, NothingFacts, ResultFields
    <3>4. TypeInv'
      BY <3>2, <3>3, <2>4, AbortFacts DEF TypeInv
    <3>5. AbortTable'
      BY <3>2, AbortFacts DEF AbortTable
    <3>6. AbortCalls'
      BY <3>2, <2>3, <2>4, <2>5, <1>1 DEF AbortCalls
    <3>7. AbortPop'
      BY <3>2, <3>3, <2>0, <2>3, <2>4, <1>3 DEF AbortPop
    <3> QED
      BY <3>2, <3>4, <3>5, <3>6, <3>7, <1>1, AbortFacts DEF Inv, AbortInv
  <2>7. CASE ~hd[active].disabled
    <3>1. PICK x : x = Context("final", <<>>)
      OBVIOUS
    <3>2. x \in Ctx /\ x.op = "final" /\ x.out = <<>>
      BY <3>1, ContextFields, NoElements
    <3>3. PICK g : g = Frame("handler", active, x, 0, "enter", FALSE)
      OBVIOUS
    <3>4. g \in FrameType /\ g.fn = "handler" /\ g.h = active /\ g.at = "enter" /\ g.ctx = x
      <4>1. g \in FrameType
        BY <2>0, <3>2, <3>3, FrameTyped DEF HandlerOrNull
      <4> QED
        BY <4>1, <3>3 DEF Frame
    <3>5. PICK d : d = Append(c, g)
      OBVIOUS
    <3>6. d \in Seq(FrameType) /\ Len(d) = 3 /\ d[1] = calls[1] /\ d[2] = f /\ d[3] = g
      <4>1. 1 \in 1..Len(c) /\ 2 \in 1..Len(c) /\ Len(c) + 1 = 3
        BY <2>4
      <4>2. /\ d \in Seq(FrameType) /\ Len(d) = Len(c) + 1
            /\ d[1] = c[1] /\ d[2] = c[2] /\ d[Len(c) + 1] = g
        <5>1. d \in Seq(FrameType) /\ Len(d) = Len(c) + 1 /\ d[Len(c) + 1] = g
          BY <2>4, <3>4, <3>5, AppendFacts
        <5>2. \A k \in 1..Len(c) : d[k] = c[k]
          BY <2>4, <3>4, <3>5, AppendFacts
        <5> QED
          BY <4>1, <5>1, <5>2
      <4> QED
        BY <4>1, <4>2, <2>4
    <3>7. /\ calls' = d
          /\ UNCHANGED <<activated, active, running, handlers, live, hd, res, sink, written, bad, phase>>
      BY <1>3, <2>0, <2>1, <2>2, <2>7, <3>1, <3>3, <3>5 DEF EndAllStep, CallPop, CallHandlerOp
    <3>8. TypeInv'
      BY <3>6, <3>7, AbortFacts DEF TypeInv
    <3>9. AbortTable'
      BY <3>7, AbortFacts DEF AbortTable
    <3>10. AbortCalls'
      <4>1. calls'[1].fn = "endall" /\ calls'[2].fn = "pop" /\ calls'[2].at = "wait"
        BY <3>6, <3>7, <2>3, <2>5
      <4>2. /\ calls'[3].fn = "handler" /\ calls'[3].at = "enter" /\ calls'[3].h = active'
            /\ calls'[3].ctx.op = "final" /\ calls'[3].ctx.out = <<>>
        BY <3>2, <3>4, <3>6, <3>7
      <4>3. Len(calls') = 3 /\ phase' = "aborting" /\ activated' /\ active' # Null
        BY <3>6, <3>7, <2>0, <1>1, <1>3
      <4> QED
        BY <4>1, <4>2, <4>3 DEF AbortCalls
    <3>11. AbortPop'
      BY <3>6, <3>7, <2>0, <2>3, <1>3 DEF AbortPop
    <3> QED
      BY <3>7, <3>8, <3>9, <3>10, <3>11, <1>1, AbortFacts DEF Inv, AbortInv
  <2> QED
    BY <2>6, <2>7
<1> QED
  BY <1>2, <1>3

(* A handler that is not disabled ends in php_output_lock_error.           *)
LEMMA AbortHandlerStep ==
    ASSUME Aborting, php_output_handler_op
    PROVE  Inv'
<1> USE DEF globals, rest
<1>0. calls # <<>> /\ Top.fn = "handler"
  BY DEF php_output_handler_op, In
<1>1. Len(calls) = 3 /\ Top = calls[3] /\ phase = "aborting" /\ Top \in FrameType
  BY <1>0, AbortFacts
<1>2. /\ calls[1].fn = "endall" /\ calls[2].fn = "pop" /\ calls[2].at = "wait"
      /\ Top.ctx.op = "final" /\ Top.ctx.out = <<>> /\ Top.ctx \in Ctx
      /\ activated /\ active # Null /\ Top.h = active
  BY <1>1, AbortFacts DEF AbortCalls, FrameType
<1>3. active \in live /\ running # Null /\ handlers # <<>>
  BY <1>2, AbortFacts DEF AbortTable
<1>4. Locked(Top.ctx.op)
  BY <1>2, <1>3 DEF Locked
<1>5. PICK d : d = Pop
  OBVIOUS
<1>6. d \in Seq(FrameType) /\ Len(d) = 2 /\ d[1] = calls[1] /\ d[2] = calls[2]
  BY <1>0, <1>1, <1>5, AbortReturns
<1>7. PICK r : r = Result("failure", Top.ctx)
  OBVIOUS
<1>8. r \in Res /\ r.ctx.out = <<>>
  BY <1>2, <1>7, ResultFields
<1>9. CASE hd[active].disabled
  <2>1. /\ calls' = d /\ res' = r
        /\ UNCHANGED <<activated, active, running, handlers, live, hd, sink, written, bad, phase>>
    BY <1>2, <1>3, <1>5, <1>7, <1>9 DEF php_output_handler_op, Return
  <2>2. TypeInv'
    BY <2>1, <1>6, <1>8, AbortFacts DEF TypeInv
  <2>3. AbortTable'
    BY <2>1, AbortFacts DEF AbortTable
  <2>4. AbortCalls'
    BY <2>1, <1>1, <1>2, <1>6 DEF AbortCalls
  <2>5. AbortPop'
    BY <2>1, <1>1, <1>2, <1>6, <1>8, AbortFacts DEF AbortPop
  <2> QED
    BY <2>1, <2>2, <2>3, <2>4, <2>5, <1>1, AbortFacts DEF Inv, AbortInv
<1>10. CASE ~hd[active].disabled
  <2>1. LockError(d, r)
    BY <1>2, <1>3, <1>4, <1>5, <1>7, <1>10 DEF php_output_handler_op
  <2>2. /\ activated' = FALSE /\ active' = Null /\ running' = Null /\ handlers' = <<>>
        /\ live' \in SUBSET Handler /\ hd' \in [Handler -> HandlerType]
        /\ \A h \in Handler : hd'[h].level < Cardinality(Handler)
        /\ Null \in HandlerOrNull /\ <<>> \in Seq(Handler)
    BY <2>1, AbortFacts, Deactivated DEF LockError
  <2>3. UNCHANGED <<sink, written, bad>>
    BY <2>1 DEF LockError
  <2>4. AbortTable'
    BY <2>2 DEF AbortTable
  <2>5. CASE Fatal
    <3>1. calls' = <<>> /\ res' = NoResult /\ phase' = "bailed"
      BY <2>1, <2>5 DEF LockError
    <3>2. TypeInv'
      BY <2>2, <2>3, <3>1, AbortFacts, NoResultFacts, NoElements DEF TypeInv, Phases
    <3>3. AbortCalls' /\ AbortPop'
      BY <3>1 DEF AbortCalls, AbortPop
    <3> QED
      BY <2>3, <2>4, <3>1, <3>2, <3>3, AbortFacts DEF Inv, AbortInv
  <2>6. CASE ~Fatal
    <3>1. calls' = d /\ res' = r /\ phase' = phase
      BY <2>1, <2>6 DEF LockError
    <3>2. TypeInv'
      BY <2>2, <2>3, <3>1, <1>6, <1>8, AbortFacts DEF TypeInv
    <3>3. AbortCalls'
      BY <3>1, <1>1, <1>2, <1>6 DEF AbortCalls
    <3>4. AbortPop'
      BY <3>1, <2>2, <1>2, <1>6, <1>8 DEF AbortPop
    <3> QED
      BY <2>3, <2>4, <3>1, <3>2, <3>3, <3>4, <1>1, AbortFacts DEF Inv, AbortInv
  <2> QED
    BY <2>5, <2>6
<1> QED
  BY <1>9, <1>10
(* The stack and the active handler after the top has been taken off.      *)
LEMMA AbortTakes ==
    ASSUME Aborting, UNCHANGED <<activated, running, live>>, running # Null \/ ~activated,
           NEW s, s = DelTop(handlers), handlers' = s, active' = TopOf(s)
    PROVE  /\ AbortTable' /\ s \in Seq(Handler) /\ active' \in HandlerOrNull
           /\ \A i \in 1..Len(s) : i \in 1..(Len(handlers) - 1) /\ s[i] = handlers[i]
<1>1. /\ AbortTable /\ handlers \in Seq(Handler) /\ Null \notin Handler
      /\ Len(handlers) \in Nat /\ live \in SUBSET Handler
  BY AbortFacts
<1>2. CASE handlers = <<>>
  <2>1. s = <<>> /\ active' = Null /\ Len(s) = 0
    BY <1>2 DEF DelTop, TopOf
  <2>2. AbortTable'
    BY <2>1 DEF AbortTable
  <2> QED
    BY <2>1, <2>2, NoElements DEF HandlerOrNull
<1>3. CASE handlers # <<>>
  <2>1. /\ s \in Seq(Handler) /\ Len(s) = Len(handlers) - 1 /\ Len(handlers) \in Nat \ {0}
        /\ \A i \in 1..Len(s) : s[i] = handlers[i] /\ i \in 1..Len(handlers)
    BY <1>1, <1>3, DelTopFacts
  <2>2. activated
    BY <1>1, <1>3 DEF AbortTable
  <2>3. /\ \A i \in 1..Len(s) : s[i] \in live /\ s[i] \in Handler
        /\ \A i, j \in 1..Len(s) : s[i] = s[j] => i = j
    BY <1>1, <2>1 DEF AbortTable
  <2>4. s # <<>> => active' = s[Len(s)] /\ Len(s) \in 1..Len(s)
    BY <2>1 DEF TopOf, Last
  <2>5. s = <<>> => active' = Null
    BY DEF TopOf
  <2>6. s # <<>> => active' \in live /\ \A i \in 1..(Len(s) - 1) : s[i] # active'
    <3> SUFFICES ASSUME s # <<>> PROVE active' \in live /\ \A i \in 1..(Len(s) - 1) : s[i] # active'
      OBVIOUS
    <3>1. \A i \in 1..(Len(s) - 1) : i \in 1..Len(s) /\ i # Len(s)
      BY <2>1
    <3> QED
      BY <3>1, <2>3, <2>4
  <2>7. AbortTable'
    BY <2>2, <2>3, <2>5, <2>6 DEF AbortTable
  <2>8. active' \in HandlerOrNull
    BY <2>5, <2>6, <1>1 DEF HandlerOrNull
  <2> QED
    BY <2>1, <2>7, <2>8
<1> QED
  BY <1>2, <1>3

\* After a bailout the final run of a handler returns.
LEMMA AbortPopReturnsStep ==
    ASSUME Aborting, PopReturns
    PROVE  Inv'
<1> USE DEF rest
<1>0. calls # <<>> /\ Top.fn = "pop" /\ Top.at = "wait"
  BY DEF PopReturns, In
<1>1. /\ Len(calls) = 2 /\ Top = calls[2] /\ phase = "aborting" /\ Top \in FrameType
      /\ TypeInv /\ AbortTable /\ ~bad /\ handlers \in Seq(Handler)
  BY <1>0, AbortFacts
<1>2. /\ activated => handlers # <<>> /\ Top.h = active /\ active # Null
      /\ res.ctx.out = <<>> /\ res.ctx \in Ctx
  BY <1>0, <1>1, AbortFacts DEF AbortPop, Res
<1>3. PICK i : i = IF StillHave(Top.h) THEN 1 ELSE 0
  OBVIOUS
<1>4. PICK f : f = [Top EXCEPT !.at = "write", !.ctx = res.ctx, !.i = i]
  OBVIOUS
<1>5. PICK s : s = DelTop(handlers)
  OBVIOUS
<1>6. PICK d : d = Becomes(f)
  OBVIOUS
<1>7. /\ handlers' = s /\ active' = TopOf(s) /\ calls' = d /\ res' = NoResult
      /\ UNCHANGED <<activated, running, live, hd, sink, written, bad, phase>>
  BY <1>2, <1>3, <1>4, <1>5, <1>6 DEF PopReturns
<1>8. f \in FrameType /\ f.fn = "pop" /\ f.at = "write" /\ f.h = Top.h /\ f.i = i /\ f.ctx = res.ctx
  <2>1. i \in Nat
    BY <1>3
  <2> QED
    BY <2>1, <1>0, <1>1, <1>2, <1>4 DEF FrameType
<1>9. d \in Seq(FrameType) /\ Len(d) = 2 /\ d[1] = calls[1] /\ d[2] = f
  <2>1. /\ d \in Seq(FrameType) /\ Len(d) = Len(calls) /\ d[Len(calls)] = f
        /\ \A k \in 1..(Len(calls) - 1) : d[k] = calls[k]
    BY <1>0, <1>6, <1>8, AbortGoesOn
  <2> QED
    BY <2>1, <1>1
<1>10. /\ AbortTable' /\ s \in Seq(Handler) /\ active' \in HandlerOrNull
       /\ \A k \in 1..Len(s) : k \in 1..(Len(handlers) - 1) /\ s[k] = handlers[k]
  <2>1. running # Null \/ ~activated
    BY <1>1 DEF AbortTable
  <2> QED
    BY <2>1, <1>5, <1>7, AbortTakes
<1>11. TypeInv'
  BY <1>1, <1>7, <1>9, <1>10, NoResultFacts DEF TypeInv
<1>12. AbortCalls'
  <2>1. calls[1].fn = "endall"
    BY <1>1, AbortFacts DEF AbortCalls
  <2> QED
    BY <2>1, <1>1, <1>7, <1>8, <1>9 DEF AbortCalls
<1>13. i = 1 => Top.h \in live /\ \A k \in 1..Len(s) : s[k] # Top.h
  <2> SUFFICES ASSUME i = 1 PROVE Top.h \in live /\ \A k \in 1..Len(s) : s[k] # Top.h
    OBVIOUS
  <2>1. StillHave(Top.h)
    BY <1>3
  <2>2. active # Null /\ activated
    BY <2>1, <1>1 DEF StillHave, AbortTable
  <2>3. Top.h = active /\ active \in live /\ \A k \in 1..(Len(handlers) - 1) : handlers[k] # active
    BY <2>2, <1>1, <1>2 DEF AbortTable
  <2> QED
    BY <2>3, <1>10
<1>14. AbortPop'
  BY <1>2, <1>7, <1>8, <1>9, <1>13 DEF AbortPop
<1> QED
  BY <1>1, <1>7, <1>10, <1>11, <1>12, <1>14 DEF Inv, AbortInv

\* After a bailout php_output_stack_pop writes below.
LEMMA AbortPopWritesStep ==
    ASSUME Aborting, PopWrites
    PROVE  Inv'
<1> USE DEF globals
<1>0. calls # <<>> /\ Top.fn = "pop" /\ Top.at = "write"
  BY DEF PopWrites, In
<1>1. /\ Len(calls) = 2 /\ Top = calls[2] /\ phase = "aborting" /\ Top \in FrameType
      /\ TypeInv /\ AbortTable /\ AbortPop /\ ~bad
  BY <1>0, AbortFacts
<1>2. /\ Top.ctx.out = <<>> /\ active = TopOf(handlers)
      /\ Top.i = 1 => Top.h \in live /\ \A i \in 1..Len(handlers) : handlers[i] # Top.h
  BY <1>0, <1>1 DEF AbortPop
<1>3. PICK f : f = [Top EXCEPT !.at = "free"]
  OBVIOUS
<1>4. PICK d : d = Becomes(f)
  OBVIOUS
<1>5. /\ calls' = d
      /\ UNCHANGED <<activated, active, running, handlers, live, hd, res, sink, written, bad, phase>>
  BY <1>2, <1>3, <1>4 DEF PopWrites
<1>6. f \in FrameType /\ f.fn = "pop" /\ f.at = "free" /\ f.h = Top.h /\ f.i = Top.i
  BY <1>0, <1>1, <1>3 DEF FrameType
<1>7. d \in Seq(FrameType) /\ Len(d) = 2 /\ d[1] = calls[1] /\ d[2] = f
  <2>1. /\ d \in Seq(FrameType) /\ Len(d) = Len(calls) /\ d[Len(calls)] = f
        /\ \A k \in 1..(Len(calls) - 1) : d[k] = calls[k]
    BY <1>0, <1>4, <1>6, AbortGoesOn
  <2> QED
    BY <2>1, <1>1
<1>8. TypeInv'
  BY <1>1, <1>5, <1>7 DEF TypeInv
<1>9. AbortTable'
  BY <1>1, <1>5 DEF AbortTable
<1>10. AbortCalls'
  <2>1. calls[1].fn = "endall"
    BY <1>1, AbortFacts DEF AbortCalls
  <2> QED
    BY <2>1, <1>1, <1>5, <1>6, <1>7 DEF AbortCalls
<1>11. AbortPop'
  BY <1>2, <1>5, <1>6, <1>7 DEF AbortPop
<1> QED
  BY <1>1, <1>5, <1>8, <1>9, <1>10, <1>11 DEF Inv, AbortInv

\* After a bailout php_output_stack_pop frees its handler, which is the one on
\* top.
LEMMA AbortPopFreesStep ==
    ASSUME Aborting, PopFrees
    PROVE  Inv'
<1> USE DEF rest
<1>0. calls # <<>> /\ Top.fn = "pop" /\ Top.at = "free"
  BY DEF PopFrees, In
<1>1. /\ Len(calls) = 2 /\ Top = calls[2] /\ phase = "aborting" /\ Top \in FrameType
      /\ TypeInv /\ AbortTable /\ AbortPop /\ ~bad /\ handlers \in Seq(Handler)
      /\ Null \notin Handler /\ live \in SUBSET Handler
  BY <1>0, AbortFacts
<1>2. /\ active = TopOf(handlers)
      /\ Top.i = 1 => Top.h \in live /\ \A i \in 1..Len(handlers) : handlers[i] # Top.h
  BY <1>0, <1>1 DEF AbortPop
<1>3. PICK d : d = Pop
  OBVIOUS
<1>4. PICK r : r = Result("popped", Nothing)
  OBVIOUS
<1>5. /\ live' = (IF Top.i = 1 THEN live \ {Top.h} ELSE live)
      /\ hd' = (IF Top.i = 1 THEN Freed({Top.h}) ELSE hd) /\ calls' = d /\ res' = r
      /\ UNCHANGED <<activated, active, running, handlers, sink, written, bad, phase>>
  BY <1>2, <1>3, <1>4 DEF PopFrees, Return
<1>6. d \in Seq(FrameType) /\ Len(d) = 1 /\ d[1] = calls[1] /\ calls[1].fn = "endall"
  <2>1. /\ d \in Seq(FrameType) /\ Len(d) = Len(calls) - 1
        /\ \A k \in 1..Len(d) : d[k] = calls[k]
    BY <1>0, <1>3, AbortReturns
  <2>2. calls[1].fn = "endall"
    BY <1>1, AbortFacts DEF AbortCalls
  <2> QED
    BY <2>1, <2>2, <1>1
<1>7. r \in Res
  BY <1>4, NothingFacts, ResultFields
<1>8. hd' \in [Handler -> HandlerType] /\ \A g \in Handler : hd'[g].level < Cardinality(Handler)
  <2>0. /\ hd \in [Handler -> HandlerType]
        /\ \A g \in Handler : hd[g].level < Cardinality(Handler) /\ hd[g].level \in Nat
    BY <1>1 DEF TypeInv, HandlerType
  <2>1. PICK x : x = NewHandler("default", 0, {})
    OBVIOUS
  <2>2. x \in HandlerType /\ x.level = 0
    BY <2>1, NoElements DEF NewHandler, HandlerType
  <2>3. \A g \in Handler : hd'[g] = x \/ hd'[g] = hd[g]
    BY <2>1, <1>5 DEF Freed
  <2>4. hd' \in [Handler -> HandlerType]
    BY <2>0, <2>1, <2>2, <1>5 DEF Freed
  <2>5. \A g \in Handler : 0 < Cardinality(Handler)
    BY <2>0, FS_CardinalityType, HandlerAssumption
  <2> QED
    BY <2>0, <2>2, <2>3, <2>4, <2>5
<1>9. TypeInv'
  <2>1. live' \in SUBSET Handler
    BY <1>1, <1>5
  <2> QED
    BY <2>1, <1>1, <1>5, <1>6, <1>7, <1>8 DEF TypeInv
<1>10. \A i \in 1..Len(handlers) : handlers[i] \in live'
  BY <1>1, <1>2, <1>5 DEF AbortTable
<1>11. active # Null => active \in live'
  <2> SUFFICES ASSUME active # Null PROVE active \in live'
    OBVIOUS
  <2>1. handlers # <<>> /\ active = handlers[Len(handlers)] /\ Len(handlers) \in 1..Len(handlers)
    BY <1>1, <1>2 DEF TopOf, Last
  <2> QED
    BY <2>1, <1>10
<1>12. AbortTable'
  BY <1>1, <1>5, <1>10, <1>11 DEF AbortTable
<1>13. AbortCalls' /\ AbortPop'
  BY <1>1, <1>5, <1>6 DEF AbortCalls, AbortPop
<1> QED
  BY <1>1, <1>5, <1>9, <1>12, <1>13 DEF Inv, AbortInv
-----------------------------------------------------------------------------
(* The invariant.                                                          *)

\* The invariant holds before the first call.
LEMMA InvariantHolds == Init => Inv
<1> SUFFICES ASSUME Init PROVE Inv
  OBVIOUS
<1> USE DEF Init
<1>1. PICK x : x = NewHandler("default", 0, {})
  OBVIOUS
<1>2. x \in HandlerType /\ x.level = 0 /\ x.buf = <<>> /\ x.disabled = FALSE
  BY <1>1, NoElements DEF NewHandler, HandlerType
<1>3. hd \in [Handler -> HandlerType] /\ \A h \in Handler : hd[h] = x
  BY <1>1, <1>2
<1>4. \A h \in Handler : hd[h].level < Cardinality(Handler)
  <2> TAKE h \in Handler
  <2>1. Cardinality(Handler) \in Nat /\ Cardinality(Handler) # 0
    BY FS_CardinalityType, FS_EmptySet, HandlerAssumption
  <2> QED
    BY <2>1, <1>2, <1>3
<1>5. /\ <<>> \in Seq(Handler) /\ <<>> \in Seq(FrameType) /\ <<>> \in Seq(Token)
      /\ 0 \in 0..MaxWrites /\ Null \in HandlerOrNull /\ {} \in SUBSET Handler
  BY NoElements, SizeAssumption DEF HandlerOrNull
<1>6. TypeInv
  BY <1>3, <1>4, <1>5, NoResultFacts DEF TypeInv, Phases
<1>7. CallsOK(calls, phase) /\ AllFrames(calls) /\ Returned(calls, res)
  BY DEF CallsOK, AllFrames, Returned, Carries
<1>8. TableInv
  <2>1. \A h \in Handler : ~hd[h].disabled
    BY <1>2, <1>3
  <2>2. active = TopOf(handlers) /\ Len(handlers) = 0
    BY DEF TopOf
  <2> QED
    BY <2>1, <2>2, NoResultFacts DEF TableInv
<1>9. DataInv
  <2>1. Flight(calls, res) = <<>> /\ Gap(calls) = 0 /\ Doomed(calls, res) = <<>> /\ Len(handlers) = 0
    BY CarriedByNone
  <2>2. Flow(<<>>, Buffers, 0, <<>>, 0, dropped \union Tokens(<<>>), 0)
    BY EmptyPiece DEF Flow, InOrder, Complete
  <2> QED
    BY <2>1, <2>2 DEF DataInv
<1> QED
  BY <1>6, <1>7, <1>8, <1>9 DEF Inv, NormalInv

\* A stuttering step keeps the invariant.
LEMMA StutteringStep ==
    ASSUME Inv, UNCHANGED vars
    PROVE  Inv'
BY DEF vars, globals, rest, Inv, TypeInv, NormalInv, AbortInv, EndInv, AbortCalls, AbortTable,
       AbortPop, CallsOK, AllFrames, FrameOK, OpFrame, HandlerFrame, TakenFrame, CleanAllFrame,
       OnStack, Returned, TableInv, Taken, Cut, Top, DataInv, Buffers, Gap

(* While the program or the end of the request runs.                       *)
LEMMA NormalStep ==
    ASSUME WritesOnly, Inv, phase \in {"run", "ending"}, Next
    PROVE  Inv'
<1>1. CASE Layer
  <2>1. CASE php_output_handler_op
    BY <2>1, HandlerOpStep
  <2>2. CASE InternalHandler \/ DeprecationReturns \/ HandlerFinishes
    BY <2>2, InternalStep, DeprecationStep, HandlerFinishesStep
  <2>3. CASE OpStep \/ OpReturns
    BY <2>3, OpStepStep, OpReturnsStep
  <2>4. CASE FlushReturns \/ FlushWrites \/ FlushPushes
    BY <2>4, FlushReturnsStep, FlushWritesStep, FlushPushesStep
  <2>5. CASE CleanReturns \/ CleanAllStep \/ CleanAllReturns
    BY <2>5, CleanReturnsStep, CleanAllStepStep, CleanAllReturnsStep
  <2>6. CASE PopReturns \/ PopWrites \/ PopFrees
    BY <2>6, PopReturnsStep, PopWritesStep, PopFreesStep
  <2>7. CASE EndAllStep \/ Deactivate
    BY <2>7, EndAllStepStep, DeactivateStep
  <2> QED
    BY <1>1, <2>1, <2>2, <2>3, <2>4, <2>5, <2>6, <2>7 DEF Layer
<1>2. CASE UserHandler
  BY <1>2, CallbackReturnsStep DEF UserHandler
<1>3. CASE Bailout
  BY <1>3, BailoutStep
<1>4. CASE Program
  <2>1. CASE php_output_write
    BY <2>1, WriteStep
  <2>2. CASE \E h \in Handler, kind \in Kinds, size \in ChunkSizes, can \in {{}, Abilities} :
                php_output_handler_start(h, kind, size, can)
    BY <2>2, StartStep
  <2>3. CASE php_output_flush \/ php_output_clean \/ php_output_flush_all
    BY <2>3, CallActiveStep, FlushAllStep
  <2>4. CASE php_output_clean_all \/ \E discard \in BOOLEAN : php_output_end_all(discard)
    BY <2>4, LoopStep
  <2>5. CASE \E discard \in BOOLEAN : php_output_end(discard)
    BY <2>5, EndStep
  <2>6. CASE php_nano_deactivate_core
    <3>1. phase = "run"
      BY <2>6 DEF php_nano_deactivate_core
    <3> QED
      BY <2>6, <3>1, EndingStep
  <2> QED
    BY <1>4, <2>1, <2>2, <2>3, <2>4, <2>5, <2>6 DEF Program
<1> QED
  BY <1>1, <1>2, <1>3, <1>4 DEF Next

(* After a bailout no program code runs any more.                          *)
LEMMA AbortStep ==
    ASSUME Aborting, Next
    PROVE  Inv'
<1>0. /\ phase \in {"bailed", "aborting"} /\ Inv
      /\ calls # <<>> => /\ Top.fn \in {"endall", "pop", "handler"}
                         /\ Top.fn = "handler" => Top.at = "enter"
  BY AbortFacts DEF Aborting
<1>1. \A fn, at : In(fn, at) => fn \in {"endall", "pop", "handler"} /\ (fn = "handler" => at = "enter")
  BY <1>0 DEF In
<1>2. ~MayWrite /\ ~MayCall
  BY <1>0, <1>1 DEF MayWrite, MayCall
<1>3. ~UserHandler /\ ~Bailout
  <2>1. ~In("handler", "callback")
    BY <1>1
  <2> QED
    BY <2>1 DEF UserHandler, CallbackReturns, Bailout
<1>4. CASE Layer
  <2>1. ~InternalHandler /\ ~DeprecationReturns /\ ~HandlerFinishes
    BY <1>1 DEF InternalHandler, DeprecationReturns, HandlerFinishes
  <2>2. ~OpStep /\ ~OpReturns /\ ~FlushReturns /\ ~FlushWrites /\ ~FlushPushes
    BY <1>1 DEF OpStep, OpReturns, FlushReturns, FlushWrites, FlushPushes
  <2>3. ~CleanReturns /\ ~CleanAllStep /\ ~CleanAllReturns
    <3>1. ~In("clean", "wait") /\ ~In("cleanall", "call") /\ ~In("cleanall", "wait")
      BY <1>1
    <3> QED
      BY <3>1 DEF CleanReturns, CleanAllStep, CleanAllReturns
  <2>4. \/ php_output_handler_op \/ PopReturns \/ PopWrites \/ PopFrees
        \/ EndAllStep \/ Deactivate
    BY <1>4, <2>1, <2>2, <2>3 DEF Layer
  <2> QED
    BY <2>4, <1>0, AbortHandlerStep, AbortPopReturnsStep, AbortPopWritesStep,
       AbortPopFreesStep, AbortEndAllStep, DeactivateStep
<1>5. CASE Program
  <2>1. ~php_output_write /\ \A h, kind, size, can : ~php_output_handler_start(h, kind, size, can)
    BY <1>2 DEF php_output_write, php_output_handler_start
  <2>2. ~php_output_flush /\ ~php_output_clean /\ ~php_output_flush_all /\ ~php_output_clean_all
    BY <1>2 DEF php_output_flush, php_output_clean, CallActive, php_output_flush_all,
                php_output_clean_all
  <2>3. \A discard : ~php_output_end(discard) /\ ~php_output_end_all(discard)
    BY <1>2 DEF php_output_end, php_output_end_all
  <2>4. php_nano_deactivate_core
    BY <1>5, <2>1, <2>2, <2>3 DEF Program
  <2> QED
    BY <2>4, AbortLoopStep
<1> QED
  BY <1>3, <1>4, <1>5 DEF Next

(* Once the request has ended nothing happens any more.                    *)
LEMMA EndedStep ==
    ASSUME Inv, phase \in {"ended", "aborted"}, Next
    PROVE  FALSE
<1>0. calls = <<>>
  BY DEF Inv, EndInv
<1>1. (\A fn, at : ~In(fn, at)) /\ ~MayWrite /\ ~MayCall
  BY <1>0 DEF In, MayWrite, MayCall
<1>2. ~UserHandler /\ ~Bailout
  BY <1>1 DEF UserHandler, CallbackReturns, Bailout
<1>3. ~Layer
  BY <1>1 DEF Layer, php_output_handler_op, InternalHandler, DeprecationReturns, HandlerFinishes,
              OpStep, OpReturns, FlushReturns, FlushWrites, FlushPushes, CleanReturns,
              CleanAllStep, CleanAllReturns, PopReturns, PopWrites, PopFrees, EndAllStep, Deactivate
<1>4. ~Program
  BY <1>1 DEF Program, php_output_write, php_output_handler_start, php_output_flush,
              php_output_clean, CallActive, php_output_flush_all, php_output_clean_all,
              php_output_end, php_output_end_all, php_nano_deactivate_core
<1> QED
  BY <1>2, <1>3, <1>4 DEF Next

(* The invariant of the layer: every frame, every handler and every piece  *)
(* of output is where the C functions in progress expect it.               *)
THEOREM LayerInvariant == ASSUME WritesOnly PROVE Spec => []Inv
<1>1. ASSUME Inv, [Next]_vars PROVE Inv'
  <2>1. CASE UNCHANGED vars
    BY <1>1, <2>1, StutteringStep
  <2>2. CASE Next
    <3>1. phase \in {"run", "ending"} \/ phase \in {"bailed", "aborting"}
          \/ phase \in {"ended", "aborted"}
      BY <1>1 DEF Inv, TypeInv, Phases
    <3>2. CASE phase \in {"run", "ending"}
      BY <1>1, <2>2, <3>2, NormalStep
    <3>3. CASE phase \in {"bailed", "aborting"}
      BY <1>1, <2>2, <3>3, AbortStep DEF Aborting
    <3>4. CASE phase \in {"ended", "aborted"}
      BY <1>1, <2>2, <3>4, EndedStep
    <3> QED
      BY <3>1, <3>2, <3>3, <3>4
  <2> QED
    BY <1>1, <2>1, <2>2
<1> QED
  BY <1>1, InvariantHolds, PTL DEF Spec

(* No C function of the layer uses a handler that was freed, or a slot of  *)
(* the stack that no longer exists.                                        *)
THEOREM HandlersStayAlive == ASSUME WritesOnly PROVE Spec => []HandlerAlive
<1>1. Inv => HandlerAlive
  BY DEF Inv, HandlerAlive
<1> QED
  BY <1>1, LayerInvariant, PTL

(* Between two calls of the program the stack, OG(active), OG(running) and *)
(* the handlers' levels agree, and every handler not yet freed is on the   *)
(* stack.                                                                  *)
THEOREM StackStaysSound == ASSUME WritesOnly PROVE Spec => []StackSound
<1>1. ASSUME Inv PROVE StackSound
  <2>1. TypeOK
    <3>1. TypeInv
      BY <1>1 DEF Inv
    <3>2. \A h \in Handler :
            /\ hd[h].buf \in Seq(1..MaxWrites) /\ hd[h].level < Cardinality(Handler)
            /\ {hd[h].disabled, hd[h].produced} \subseteq BOOLEAN
      BY <3>1 DEF TypeInv, HandlerType, Token
    <3> QED
      BY <3>1, <3>2 DEF TypeOK, TypeInv, HandlerOrNull
  <2>2. ASSUME Idle
        PROVE  /\ live = Range(handlers) /\ Cardinality(live) = Len(handlers)
               /\ active = TopOf(handlers) /\ running = Null
               /\ \A i \in 1..Len(handlers) : hd[handlers[i]].level = i - 1
    <3>1. calls = <<>> /\ phase \in {"run", "ending"}
      BY <2>2 DEF Idle
    <3>2. /\ TableInv /\ handlers \in Seq(Handler) /\ active = TopOf(handlers)
          /\ running = Null /\ DOMAIN handlers = 1..Len(handlers) /\ Len(handlers) \in Nat
      BY <1>1, <3>1, NormalFacts, NotCut, IdleFacts DEF TypeInv
    <3>3. Range(handlers) = { handlers[i] : i \in 1..Len(handlers) }
      BY <3>2 DEF Range
    <3>4. \A h \in live : h \in Range(handlers)
      <4> TAKE h \in live
      <4>1. OnStack(h)
        BY <3>1, <3>2 DEF TableInv, Taken
      <4>2. hd[h].level \in Nat /\ hd[h].level < Len(handlers) /\ handlers[hd[h].level + 1] = h
        BY <4>1, <1>1, <3>1, NormalFacts DEF OnStack
      <4>3. hd[h].level + 1 \in 1..Len(handlers)
        BY <4>2, <3>2
      <4> QED
        BY <4>2, <4>3, <3>3
    <3>5. \A h \in Range(handlers) : h \in live
      BY <3>2, <3>3 DEF TableInv
    <3>6. live = Range(handlers)
      BY <3>4, <3>5
    <3>7. Cardinality(live) = Len(handlers)
      BY <3>1, <3>2, <3>6, <1>1, StackDistinct, DistinctHandlers
    <3> QED
      BY <3>2, <3>6, <3>7 DEF TableInv
  <2> QED
    BY <2>1, <2>2 DEF StackSound
<1> QED
  BY <1>1, LayerInvariant, PTL
-----------------------------------------------------------------------------
(* FlattenSeq, one buffer after the other.                                 *)

\* g holds the first i sequences of s, one behind the other, for i up to m.
Unfolds(g, s, m) == g = [i \in 1..m |-> IF i = 1 THEN s[i] ELSE g[i - 1] \o s[i]]

\* One step of the unfolding.
LEMMA UnfoldsAt ==
    ASSUME NEW g, NEW s, NEW m \in Nat, Unfolds(g, s, m), NEW i \in 1..m
    PROVE  g[i] = IF i = 1 THEN s[i] ELSE g[i - 1] \o s[i]
<1>1. PICK h : h = [j \in 1..m |-> IF j = 1 THEN s[j] ELSE g[j - 1] \o s[j]]
  OBVIOUS
<1>2. h[i] = IF i = 1 THEN s[i] ELSE g[i - 1] \o s[i]
  BY <1>1
<1>3. g = h
  BY <1>1 DEF Unfolds
<1> QED
  BY <1>2, <1>3

\* The partial concatenations exist for every length: there is no least length
\* without them.
LEMMA Unfolding ==
    ASSUME NEW s, NEW m \in Nat
    PROVE  \E g : Unfolds(g, s, m)
<1> DEFINE S == { k \in Nat : ~\E g : Unfolds(g, s, k) }
<1> SUFFICES ASSUME m \in S PROVE FALSE
  OBVIOUS
<1>1. PICK k \in S : \A j \in S : k <= j
  <2>1. S # {} /\ S \in SUBSET Nat
    OBVIOUS
  <2> HIDE DEF S
  <2> QED
    BY <2>1, LeastElement
<1>2. k # 0
  <2>1. PICK g : g = [i \in {} |-> 0]
    OBVIOUS
  <2>2. 1..0 = {}
    OBVIOUS
  <2>3. Unfolds(g, s, 0)
    BY <2>1, <2>2 DEF Unfolds
  <2> QED
    BY <2>3
<1>3. k - 1 \in Nat /\ k - 1 \notin S
  BY <1>1, <1>2
<1>4. PICK g : Unfolds(g, s, k - 1)
  BY <1>3
<1>5. PICK h : h = [i \in 1..k |-> IF i = 1 THEN s[i] ELSE g[i - 1] \o s[i]]
  OBVIOUS
<1>6. \A i \in 1..(k - 1) : h[i] = g[i]
  <2> TAKE i \in 1..(k - 1)
  <2>1. i \in 1..k /\ g[i] = IF i = 1 THEN s[i] ELSE g[i - 1] \o s[i]
    BY <1>3, <1>4, UnfoldsAt
  <2> QED
    BY <2>1, <1>5
<1>7. \A i \in 1..k : h[i] = IF i = 1 THEN s[i] ELSE h[i - 1] \o s[i]
  <2> TAKE i \in 1..k
  <2>1. i # 1 => i - 1 \in 1..(k - 1)
    BY <1>3
  <2> QED
    BY <2>1, <1>5, <1>6
<1>8. Unfolds(h, s, k)
  <2>1. h = [i \in 1..k |-> h[i]]
    BY <1>5
  <2> QED
    BY <2>1, <1>7 DEF Unfolds
<1> QED
  BY <1>8, <1>1

\* FlattenSeq is the last of the partial concatenations.
LEMMA FlattenUnfolds ==
    ASSUME NEW s, Len(s) \in Nat, Len(s) # 0
    PROVE  \E g : Unfolds(g, s, Len(s)) /\ FlattenSeq(s) = g[Len(s)]
<1>1. PICK g : g = CHOOSE h : Unfolds(h, s, Len(s))
  OBVIOUS
<1>2. Unfolds(g, s, Len(s))
  BY <1>1, Unfolding
<1>3. FlattenSeq(s) = g[Len(s)]
  BY <1>1 DEF FlattenSeq, Unfolds
<1> QED
  BY <1>2, <1>3
\* x holds the first i buffers of B, in order and whole.
Joined(x, s, B, n, i) ==
    /\ x \in Seq(Token) /\ Inc(x) /\ Before(s, x)
    /\ \A j \in 1..n : j > i => Before(x, B[j])
    /\ \A j \in 1..n : j <= i => \A t \in Tokens(B[j]) : t \in Tokens(x)

\* Joining the next buffer keeps the order.
LEMMA JoinedNext ==
    ASSUME NEW n \in Nat, NEW B \in [1..n -> Seq(Token)], NEW s \in Seq(Token), NEW w \in Nat,
           InOrder(s, B, n, <<>>, 0, w), NEW i \in 1..n, i # 1, NEW x, Joined(x, s, B, n, i - 1)
    PROVE  Joined(x \o B[i], s, B, n, i)
<1>1. /\ x \in Seq(Token) /\ Inc(x) /\ Before(s, x) /\ B[i] \in Seq(Token) /\ i \in Nat
      /\ \A j \in 1..n : j > i - 1 => Before(x, B[j])
      /\ \A j \in 1..n : j <= i - 1 => \A t \in Tokens(B[j]) : t \in Tokens(x)
  BY DEF Joined
<1>2. Inc(B[i]) /\ Before(s, B[i]) /\ \A j \in 1..n : i < j => Before(B[i], B[j])
  BY DEF InOrder
<1>3. i > i - 1
  BY <1>1
<1>4. x \o B[i] \in Seq(Token) /\ Inc(x \o B[i]) /\ Before(s, x \o B[i])
      /\ Tokens(x \o B[i]) = Tokens(x) \union Tokens(B[i])
  <2>1. x \o B[i] \in Seq(Token)
    BY <1>1
  <2>2. Before(x, B[i])
    BY <1>1, <1>3
  <2> QED
    BY <2>1, <2>2, <1>1, <1>2, ConcatPieces
<1>5. \A j \in 1..n : j > i => Before(x \o B[i], B[j])
  <2> TAKE j \in 1..n
  <2> HAVE j > i
  <2>1. j > i - 1 /\ i < j /\ B[j] \in Seq(Token)
    BY <1>1
  <2> QED
    BY <2>1, <1>1, <1>2, ConcatPieces
<1>6. \A j \in 1..n : j <= i => \A t \in Tokens(B[j]) : t \in Tokens(x \o B[i])
  <2> TAKE j \in 1..n
  <2> HAVE j <= i
  <2>1. j = i \/ j <= i - 1
    BY <1>1
  <2> QED
    BY <2>1, <1>1, <1>4
<1> QED
  BY <1>4, <1>5, <1>6 DEF Joined

\* The buffers one after the other, the bottom handler first, are in order and
\* hold every token that one of them holds.
LEMMA FlattenJoins ==
    ASSUME NEW n \in Nat, NEW B \in [1..n -> Seq(Token)], NEW s \in Seq(Token), NEW w \in Nat,
           InOrder(s, B, n, <<>>, 0, w)
    PROVE  Joined(FlattenSeq(B), s, B, n, n)
<1>1. B \in Seq(Seq(Token)) /\ Len(B) = n
  OBVIOUS
<1>2. CASE n = 0
  <2>1. B = <<>> /\ FlattenSeq(B) = B
    BY <1>1, <1>2 DEF FlattenSeq
  <2> QED
    <3>1. /\ FlattenSeq(B) = <<>> /\ <<>> \in Seq(Token) /\ Inc(<<>>) /\ Before(s, <<>>)
          /\ 1..n = {}
      BY <2>1, <1>2, NoElements, EmptyPiece
    <3> QED
      BY <3>1 DEF Joined
<1>3. CASE n # 0
  <2>1. PICK g : Unfolds(g, B, n) /\ FlattenSeq(B) = g[n]
    BY <1>1, <1>3, FlattenUnfolds
  <2> DEFINE S == { i \in 1..n : ~Joined(g[i], s, B, n, i) }
  <2>2. S = {}
    <3> SUFFICES ASSUME S # {} PROVE FALSE
      OBVIOUS
    <3>1. PICK i \in S : \A j \in S : i <= j
      <4>1. S \in SUBSET Nat
        OBVIOUS
      <4> HIDE DEF S
      <4> QED
        BY <4>1, LeastElement
    <3>2. i \in 1..n /\ g[i] = IF i = 1 THEN B[i] ELSE g[i - 1] \o B[i]
      BY <2>1, UnfoldsAt
    <3>3. CASE i = 1
      <4>1. g[i] = B[1] /\ B[1] \in Seq(Token) /\ Inc(B[1]) /\ Before(s, B[1])
        BY <3>2, <3>3 DEF InOrder
      <4>2. \A j \in 1..n : j > 1 => Before(B[1], B[j])
        BY <3>2, <3>3 DEF InOrder
      <4>3. \A j \in 1..n : j <= 1 => j = 1
        OBVIOUS
      <4>4. Joined(g[i], s, B, n, i)
        BY <4>1, <4>2, <4>3, <3>3 DEF Joined
      <4> QED
        BY <4>4
    <3>4. CASE i # 1
      <4>1. i - 1 \in 1..n /\ ~(i <= i - 1)
        BY <3>2, <3>4
      <4>2. Joined(g[i - 1], s, B, n, i - 1)
        BY <4>1, <3>1
      <4>3. Joined(g[i - 1] \o B[i], s, B, n, i)
        BY <4>2, <3>2, <3>4, JoinedNext
      <4> QED
        BY <4>3, <3>2, <3>4
    <3> QED
      BY <3>3, <3>4
  <2>3. n \in 1..n
    BY <1>3
  <2> QED
    BY <2>1, <2>2, <2>3
<1> QED
  BY <1>2, <1>3

(* Everything written is out, in a buffer, or was discarded on purpose,    *)
(* output never overtakes output written before it, and none appears       *)
(* twice, whatever the handlers return, and also when they fail or write   *)
(* themselves.                                                             *)
THEOREM OutputStaysExact == ASSUME WritesOnly PROVE Spec => []OutputExact
<1>1. ASSUME Inv PROVE OutputExact
  <2>1. CASE Idle
    <3>1. calls = <<>> /\ phase = "run" /\ phase \in {"run", "ending"}
      BY <2>1 DEF Idle
    <3>2. Flight(calls, res) = <<>> /\ Gap(calls) = 0 /\ Doomed(calls, res) = <<>>
      BY <3>1, CarriedByNone
    <3>3. /\ Flow(sink, Buffers, Len(handlers), <<>>, 0, dropped \union Tokens(<<>>), written)
          /\ sink \in Seq(Token) /\ Len(handlers) \in Nat /\ written \in Nat
          /\ Buffers \in [1..Len(handlers) -> Seq(Token)]
      BY <1>1, <3>1, <3>2, DataFacts
    <3>4. PICK x : x = FlattenSeq(Buffers)
      OBVIOUS
    <3>5. Joined(x, sink, Buffers, Len(handlers), Len(handlers))
      BY <3>3, <3>4, FlattenJoins DEF Flow
    <3>6. Stream = sink \o x
      BY <3>4 DEF Stream, Buffers
    <3>7. x \in Seq(Token) /\ Inc(sink) /\ Inc(x) /\ Before(sink, x)
      BY <3>3, <3>5 DEF Joined, Flow, InOrder
    <3>8. Inc(Stream) /\ Tokens(Stream) = Tokens(sink) \union Tokens(x)
      BY <3>3, <3>6, <3>7, ConcatPieces
    <3>9. \A t \in 1..written : t \in Tokens(Stream) \union dropped
      <4> TAKE t \in 1..written
      <4>1. \/ t \in Tokens(sink) \/ t \in dropped
            \/ \E i \in 1..Len(handlers) : t \in Tokens(Buffers[i])
        BY <3>3, EmptyPiece DEF Flow, Complete
      <4>2. ASSUME NEW i \in 1..Len(handlers), t \in Tokens(Buffers[i]) PROVE t \in Tokens(x)
        <5>1. i <= Len(handlers)
          BY <3>3
        <5> QED
          BY <4>2, <5>1, <3>5 DEF Joined
      <4> QED
        BY <4>1, <4>2, <3>8
    <3> QED
      BY <3>1, <3>8, <3>9 DEF OutputExact, NothingLost, Inc
  <2>2. CASE phase = "ended"
    <3>1. \A t \in 1..written : t \in Tokens(sink) \/ t \in dropped
      BY <1>1, <2>2 DEF Inv, EndInv
    <3> QED
      BY <2>2, <3>1 DEF OutputExact, NothingLost, Idle
  <2>3. CASE ~Idle /\ phase # "ended"
    BY <2>3 DEF OutputExact, NothingLost
  <2> QED
    BY <2>1, <2>2, <2>3
<1> QED
  BY <1>1, LayerInvariant, PTL

===============================================================================
