------------------------------ MODULE OutputLayer ------------------------------
(***************************************************************************)
(* The output layer (main/output.c): a stack of output handlers, each with *)
(* a buffer.  What the program writes enters at the top and leaves at the  *)
(* bottom through php_output_direct.  A user handler is program code: it   *)
(* may write and call the layer again while the C functions that called it *)
(* still hold pointers to handlers and to the stack.                       *)
(*                                                                         *)
(* Output is a sequence of numbered tokens, one per write, so that order   *)
(* and loss can be told.  The C calls in progress form a stack of frames;  *)
(* res is what the innermost one has just returned.                        *)
(***************************************************************************)
EXTENDS Integers, Sequences, FiniteSets, SequencesExt

CONSTANTS
    Handler,        \* addresses of handlers
    Null,           \* no handler
    Kinds,          \* which of "default", "devnull" and "user" are started
    ChunkSizes,     \* chunk sizes given to ob_start; 0 is none
    Fatal,          \* the error callback does not return from E_ERROR
    ErrorHandler,   \* a user error handler sees E_DEPRECATED
    Reenter,        \* user handlers call ob_* functions, and do not only write
    Bails,          \* user handlers end in a bailout
    Returns,        \* what user handlers return; "undef" is an exception
    MaxWrites       \* bound: tokens written

ASSUME KindAssumption == Kinds \subseteq {"default", "devnull", "user"}
ASSUME ReturnsAssumption == Returns \subseteq {"false", "true", "data", "undef"}
ASSUME HandlerAssumption == Null \notin Handler /\ IsFiniteSet(Handler)
ASSUME ConfigAssumption == {Fatal, ErrorHandler, Reenter, Bails} \subseteq BOOLEAN
ASSUME SizeAssumption == ChunkSizes \subseteq Nat /\ MaxWrites \in Nat

VARIABLES
    activated,          \* PHP_OUTPUT_ACTIVATED
    active, running,    \* OG(active), OG(running)
    handlers,           \* OG(handlers), the bottom first
    live,               \* handlers that are allocated
    hd,                 \* the php_output_handler of each address
    calls,              \* C calls in progress, innermost last
    res,                \* what the last call returned
    sink,               \* what php_output_direct has written
    written,            \* tokens written so far
    dropped,            \* history: tokens discarded on purpose
    bad,                \* a freed handler or a dead stack slot was used
    phase               \* of the request: see Phases

globals == <<activated, active, running, handlers, live>>
rest == <<written, dropped, bad, phase>>
vars == <<globals, hd, calls, res, sink, rest>>

Abilities == {"cleanable", "flushable", "removable"}
NewHandler(kind, size, can) ==
    [kind |-> kind, size |-> size, can |-> can, level |-> 0, buf |-> <<>>,
     disabled |-> FALSE, produced |-> FALSE]
\* php_output_handler_dtor leaves the memory zeroed.
Freed(S) == [h \in Handler |-> IF h \in S THEN NewHandler("default", 0, {}) ELSE hd[h]]
Context(op, in) == [op |-> op, in |-> in, out |-> <<>>]
Nothing == Context("write", <<>>)
NoResult == [status |-> "none", ctx |-> Nothing]
Result(status, ctx) == [status |-> status, ctx |-> ctx]

\* A call in progress: its function, the handler it works on, its context, a
\* stack index, where it is, a flag, and what it is about to return.
Frame(fn, h, ctx, i, at, flags) ==
    [fn |-> fn, h |-> h, ctx |-> ctx, i |-> i, at |-> at, flags |-> flags,
     ret |-> NoResult]
Top == calls[Len(calls)]
Pop == SubSeq(calls, 1, Len(calls) - 1)
In(fn, at) == calls # <<>> /\ Top.fn = fn /\ Top.at = at /\ ~bad
Becomes(frame) == Append(Pop, frame)

\* The program runs on its own, in a user handler or in the error handler.
MayWrite ==
    /\ ~bad /\ phase # "bailed"
    /\ \/ calls = <<>> /\ phase = "run"
       \/ In("handler", "callback")
       \/ In("handler", "deprecated") /\ ErrorHandler
MayCall == MayWrite /\ (Reenter \/ ~In("handler", "callback"))
Tokens(s) == { s[k] : k \in 1..Len(s) }

\* zend_stack_top, zend_stack_del_top.
TopOf(hs) == IF hs = <<>> THEN Null ELSE Last(hs)
DelTop(hs) == IF hs = <<>> THEN <<>> ELSE Front(hs)

\* php_output_startup, php_output_activate.
Init ==
    /\ activated = TRUE /\ active = Null /\ running = Null /\ handlers = <<>>
    /\ live = {} /\ hd = [h \in Handler |-> NewHandler("default", 0, {})]
    /\ calls = <<>> /\ res = NoResult /\ sink = <<>> /\ written = 0
    /\ dropped = {} /\ bad = FALSE /\ phase = "run"

-----------------------------------------------------------------------------
\* A freed handler is used: nothing is known of what follows.
UseAfterFree ==
    bad' = TRUE /\ UNCHANGED <<globals, hd, calls, res, sink, written, dropped, phase>>

Return(r) == calls' = Pop /\ res' = r

\* php_output_lock_error: the layer is locked against op.
Locked(op) == op # "write" /\ active # Null /\ running # Null

\* php_output_deactivate releases the handlers on the stack.
php_output_deactivate ==
    /\ activated' = FALSE /\ active' = Null /\ running' = Null /\ handlers' = <<>>
    /\ live' = live \ Range(handlers) /\ hd' = Freed(Range(handlers))
    /\ dropped' = dropped \union UNION { Tokens(hd[h].buf) : h \in Range(handlers) }

\* The fatal error of php_output_lock_error: all calls are left, unless the
\* error callback returns; then the caller fails with result r, at stack c.
LockError(c, r) ==
    /\ php_output_deactivate
    /\ IF Fatal THEN calls' = <<>> /\ res' = NoResult /\ phase' = "bailed"
       ELSE calls' = c /\ res' = r /\ UNCHANGED phase
    /\ UNCHANGED <<sink, written, bad>>

-----------------------------------------------------------------------------
(* php_output_handler_op.                                                  *)

\* Variant: what a disabled or failed handler held is not passed on.
FinishForgets(h, ctx, status) ==
    /\ CASE status = "failure" ->
              /\ hd' = [hd EXCEPT ![h].disabled = TRUE, ![h].buf = <<>>]
              /\ Return(Result(status, ctx)) /\ UNCHANGED dropped
         [] OTHER ->
              /\ hd' = [hd EXCEPT ![h].buf = <<>>]
              /\ Return(Result(status, IF status = "success" THEN ctx
                                       ELSE Context(ctx.op, <<>>)))
              /\ dropped' = dropped \union (Tokens(hd[h].buf) \ Tokens(ctx.out))
    /\ running' = Null
    /\ UNCHANGED <<activated, active, handlers, live, sink, written, bad, phase>>

\* The end, with the status of the handler: a failed handler is disabled and
\* its buffer passed along, any other has processed its buffer.
Finish(h, ctx, status) ==
    /\ CASE status = "failure" ->
              /\ hd' = [hd EXCEPT ![h].disabled = TRUE, ![h].buf = <<>>]
              /\ Return(Result(status, [ctx EXCEPT !.out = hd[h].buf]))
              /\ UNCHANGED dropped
         [] OTHER ->
              /\ hd' = [hd EXCEPT ![h].buf = <<>>]
              /\ Return(Result(status, IF status = "success" THEN ctx
                                       ELSE Context(ctx.op, <<>>)))
              /\ dropped' = dropped \union (Tokens(hd[h].buf) \ Tokens(ctx.out))
    /\ running' = Null
    /\ UNCHANGED <<activated, active, handlers, live, sink, written, bad, phase>>

\* php_output_handler_append: a full chunk is processed, unless a handler is
\* running.
Storable(h, buf, in) ==
    in = <<>> \/ hd[h].size = 0 \/ Len(buf) < hd[h].size \/ running # Null

php_output_handler_op ==
    /\ In("handler", "enter")
    /\ LET h == Top.h
           ctx == Top.ctx
           buf == hd[h].buf \o ctx.in
           nested == ctx.op = "write" /\ active # Null /\ running # Null
           stored == [hd EXCEPT ![h].buf = buf, ![h].produced = @ \/ nested]
       IN  \/ h \notin live /\ UseAfterFree
           \/ /\ h \in live /\ hd[h].disabled
              /\ Return(Result("failure", ctx))
              /\ UNCHANGED <<globals, hd, sink, rest>>
           \/ /\ h \in live /\ ~hd[h].disabled /\ Locked(ctx.op)
              /\ LockError(Pop, Result("failure", ctx))
           \/ /\ h \in live /\ ~hd[h].disabled /\ ~Locked(ctx.op)
              /\ hd' = stored
              /\ IF Storable(h, buf, ctx.in) /\ ctx.op = "write"
                 THEN Return(Result("nodata", ctx)) /\ UNCHANGED running
                 ELSE /\ running' = h /\ UNCHANGED res
                      /\ calls' = Becomes([Top EXCEPT !.ctx.in = buf, !.at =
                           IF hd[h].kind = "user" THEN "callback" ELSE "internal"])
              /\ UNCHANGED <<activated, active, handlers, live, sink, rest>>

\* php_output_handler_default_func, php_output_handler_devnull_func.
InternalHandler ==
    /\ In("handler", "internal")
    /\ LET out == IF hd[Top.h].kind = "default" THEN hd[Top.h].buf ELSE <<>>
       IN  Finish(Top.h, [Top.ctx EXCEPT !.in = <<>>, !.out = out],
                  IF out = <<>> THEN "nodata" ELSE "success")

\* What the value a user handler returned means; the data it returns is here
\* what it was given (ctx.in).
StatusOf(ret) ==
    CASE ret \in {"false", "undef"} -> "failure"
      [] ret = "true" \/ Top.ctx.in = <<>> -> "nodata"
      [] OTHER -> "success"
OutOf(ret) ==
    IF StatusOf(ret) = "success" THEN [Top.ctx EXCEPT !.out = Top.ctx.in] ELSE Top.ctx

CallbackReturns(ret) ==
    /\ In("handler", "callback")
    /\ LET h == Top.h
       IN  \/ h \notin live /\ UseAfterFree
           \/ /\ h \in live /\ (ret = "undef" \/ ~hd[h].produced)
              /\ Finish(h, OutOf(ret), StatusOf(ret))
           \/ /\ h \in live /\ ret # "undef" /\ hd[h].produced
              /\ hd' = [hd EXCEPT ![h].disabled = TRUE, ![h].produced = FALSE]
              /\ calls' = Becomes([Top EXCEPT !.at = "deprecated",
                                 !.ret = Result(StatusOf(ret), OutOf(ret))])
              /\ UNCHANGED <<globals, res, sink, rest>>

\* Is h still on the stack, as php_output_get_level sees it?
StillHave(h) == active # Null /\ h \in Range(handlers)

\* After the deprecation notice: the handler is enabled again if it is still
\* there, and left alone otherwise.
DeprecationReturns ==
    /\ In("handler", "deprecated")
    /\ LET h == Top.h
       IN  IF StillHave(h)
           THEN /\ calls' = Becomes([Top EXCEPT !.at = "finish"])
                /\ hd' = [hd EXCEPT ![h].disabled = FALSE]
                /\ UNCHANGED <<running, res>>
           ELSE Return(Top.ret) /\ running' = Null /\ UNCHANGED hd
    /\ UNCHANGED <<activated, active, handlers, live, sink, rest>>

HandlerFinishes == In("handler", "finish") /\ Finish(Top.h, Top.ret.ctx, Top.ret.status)

\* zend_bailout out of a user handler (exit, a fatal error): the host ends the
\* request; OG(running) stays set.
Bailout ==
    /\ Bails /\ In("handler", "callback")
    /\ calls' = <<>> /\ res' = NoResult /\ phase' = "bailed"
    /\ UNCHANGED <<globals, hd, sink, written, dropped, bad>>

-----------------------------------------------------------------------------
(* php_output_op and php_output_stack_apply_op.                            *)

\* php_output_op is called at call stack c.  It works on index i of the
\* stack, from the top to 0; flags: there is only one handler.
CallOp(c, op, in) ==
    IF Locked(op) THEN LockError(c, NoResult)
    ELSE /\ LET n == IF active = Null THEN 0 ELSE Len(handlers)
                ctx == IF n = 0 THEN [Context(op, <<>>) EXCEPT !.out = in]
                       ELSE Context(op, in)
            IN  calls' = Append(c, Frame("op", Null, ctx, n, "call", n = 1))
         /\ UNCHANGED <<globals, hd, res, sink, dropped, bad, phase>>

\* php_output_write: not through the stack once output is deactivated.
CallWrite(c, in) ==
    IF activated THEN CallOp(c, "write", in)
    ELSE /\ calls' = c /\ sink' = sink \o in
         /\ UNCHANGED <<globals, hd, res, dropped, bad, phase>>

CallHandlerOp(c, h, ctx) ==
    /\ calls' = Append(c, Frame("handler", h, ctx, 0, "enter", FALSE))
    /\ UNCHANGED <<globals, hd, res, sink, rest>>

\* php_output_context_swap, php_output_context_pass.
Swap(ctx) == [ctx EXCEPT !.in = ctx.out, !.out = <<>>]
Pass(ctx) == [ctx EXCEPT !.in = <<>>, !.out = ctx.in]

OpEnds(ctx) ==
    /\ calls' = Pop /\ res' = NoResult /\ sink' = sink \o ctx.out
    /\ UNCHANGED <<globals, hd, rest>>

\* The next handler down: one that is disabled is passed by.
OpStep ==
    /\ In("op", "call")
    /\ IF Top.i = 0 THEN OpEnds(Top.ctx)
       ELSE IF Top.i > Len(handlers) \/ handlers[Top.i] \notin live THEN UseAfterFree
       ELSE LET h == handlers[Top.i]
                last == Top.flags \/ hd[h].level = 0
            IN  IF hd[h].disabled
                THEN /\ calls' = Becomes([Top EXCEPT !.i = @ - 1,
                                     !.ctx = IF last THEN Pass(@) ELSE @])
                     /\ UNCHANGED <<globals, hd, res, sink, rest>>
                ELSE CallHandlerOp(Becomes([Top EXCEPT !.at = "wait", !.h = h]),
                                   h, Top.ctx)

\* A handler returned: one that kept the data ends the walk, the output of any
\* other is the input of the next, unless it was the bottom one.
OpReturns ==
    /\ In("op", "wait")
    /\ IF ~Top.flags /\ res.status # "nodata" /\ Top.h \notin live THEN UseAfterFree
       ELSE /\ calls' = Becomes([Top EXCEPT !.at = "call",
                 !.i = IF res.status = "nodata" THEN 0 ELSE @ - 1,
                 !.ctx = IF Top.flags \/ res.status = "nodata" \/ hd[Top.h].level = 0
                         THEN res.ctx ELSE Swap(res.ctx)])
            /\ res' = NoResult
            /\ UNCHANGED <<globals, hd, sink, rest>>

-----------------------------------------------------------------------------
(* php_output_flush, php_output_clean, php_output_clean_all.               *)

\* The handler has processed its buffer: what it returned is written to the
\* stack below it.
FlushReturns ==
    /\ In("flush", "wait")
    /\ IF res.ctx.out = <<>>
       THEN Return(NoResult) /\ UNCHANGED <<globals, hd, sink, dropped, bad, phase>>
       ELSE IF handlers = <<>> THEN UseAfterFree
       ELSE /\ handlers' = DelTop(handlers)
            /\ calls' = Becomes([Top EXCEPT !.at = "write", !.ctx = res.ctx])
            /\ res' = NoResult
            /\ UNCHANGED <<activated, active, running, live, hd, sink, dropped, bad, phase>>
    /\ UNCHANGED written

FlushWrites ==
    /\ In("flush", "write")
    /\ CallWrite(Becomes([Top EXCEPT !.at = "push"]), Top.ctx.out) /\ UNCHANGED written

\* Variant: the handler is not pushed again.
FlushLeaves ==
    /\ In("flush", "push") /\ Return(NoResult)
    /\ UNCHANGED <<globals, hd, sink, rest>>

FlushPushes ==
    /\ In("flush", "push")
    /\ IF active \notin live THEN UseAfterFree
       ELSE /\ handlers' = Append(handlers, active) /\ Return(NoResult)
            /\ UNCHANGED <<activated, active, running, live, hd, sink, rest>>

\* The context of a clean is destroyed with what the handler returned.
CleanReturns ==
    /\ In("clean", "wait") /\ Return(NoResult)
    /\ dropped' = dropped \union Tokens(res.ctx.out)
    /\ UNCHANGED <<globals, hd, sink, written, bad, phase>>

\* php_output_stack_apply_clean, from the top down.
CleanAllStep ==
    /\ In("cleanall", "call")
    /\ LET i == Top.i
       IN  IF i = 0
           THEN Return(NoResult) /\ UNCHANGED <<globals, hd, sink, rest>>
           ELSE IF i > Len(handlers) \/ handlers[i] \notin live THEN UseAfterFree
           ELSE /\ hd' = [hd EXCEPT ![handlers[i]].buf = <<>>]
                /\ dropped' = dropped \union Tokens(hd[handlers[i]].buf)
                /\ calls' = Append(Becomes([Top EXCEPT !.at = "wait"]),
                     Frame("handler", handlers[i], Context("clean", <<>>), 0,
                           "enter", FALSE))
                /\ UNCHANGED <<globals, res, sink, written, bad, phase>>

CleanAllReturns ==
    /\ In("cleanall", "wait")
    /\ calls' = Becomes([Top EXCEPT !.at = "call", !.i = @ - 1]) /\ res' = NoResult
    /\ dropped' = dropped \union Tokens(res.ctx.out)
    /\ UNCHANGED <<globals, hd, sink, written, bad, phase>>

-----------------------------------------------------------------------------
(* php_output_stack_pop, php_output_end_all, php_output_discard_all.       *)

\* php_output_stack_pop is called at c: without force a handler that is not
\* removable stays.  A disabled handler is not run again.
CallPop(c, force, discard) ==
    IF active \notin live THEN UseAfterFree
    ELSE IF ~force /\ "removable" \notin hd[active].can
    THEN /\ calls' = c /\ res' = Result("refused", Nothing)
         /\ UNCHANGED <<globals, hd, sink, rest>>
    ELSE LET pop == Append(c, Frame("pop", active, Nothing, 0, "wait", discard))
         IN  IF hd[active].disabled
             THEN /\ calls' = pop /\ res' = Result("failure", Nothing)
                  /\ UNCHANGED <<globals, hd, sink, rest>>
             ELSE CallHandlerOp(pop, active, Context("final", <<>>))

\* Variant: OG(active) is left at the handler that was popped.
PopKeepsActive ==
    /\ In("pop", "wait")
    /\ handlers' = DelTop(handlers) /\ res' = NoResult
    /\ calls' = Becomes([Top EXCEPT !.at = "write", !.ctx = res.ctx,
                                    !.i = IF StillHave(Top.h) THEN 1 ELSE 0])
    /\ UNCHANGED <<activated, active, running, live, hd, sink, rest>>

\* The handler has been run: it leaves the stack.  Below an empty stack that
\* is still in use there is no slot to leave; a deactivated stack is no longer
\* looked at.
PopReturns ==
    /\ In("pop", "wait")
    /\ IF activated /\ handlers = <<>> THEN UseAfterFree
       ELSE /\ handlers' = DelTop(handlers) /\ active' = TopOf(DelTop(handlers))
            /\ calls' = Becomes([Top EXCEPT !.at = "write", !.ctx = res.ctx,
                                            !.i = IF StillHave(Top.h) THEN 1 ELSE 0])
            /\ res' = NoResult
            /\ UNCHANGED <<activated, running, live, hd, sink, rest>>

\* What the handler returned goes to the stack below, unless it is discarded.
PopWrites ==
    /\ In("pop", "write")
    /\ LET c == Becomes([Top EXCEPT !.at = "free"])
       IN  IF Top.flags \/ Top.ctx.out = <<>>
           THEN /\ calls' = c /\ dropped' = dropped \union Tokens(Top.ctx.out)
                /\ UNCHANGED <<globals, hd, res, sink, bad, phase>>
           ELSE CallWrite(c, Top.ctx.out)
    /\ UNCHANGED written

PopFrees ==
    /\ In("pop", "free")
    /\ IF Top.i = 1 /\ Top.h \notin live THEN UseAfterFree
       ELSE /\ live' = IF Top.i = 1 THEN live \ {Top.h} ELSE live
            /\ hd' = IF Top.i = 1 THEN Freed({Top.h}) ELSE hd
            /\ Return(Result("popped", Nothing))
            /\ UNCHANGED <<activated, active, running, handlers, sink, rest>>

\* Variant: end_all asks each handler whether it may be removed.
EndAllAsks ==
    /\ In("endall", "loop")
    /\ IF active = Null
       THEN Return(NoResult) /\ UNCHANGED <<globals, hd, sink, rest>>
       ELSE CallPop(calls, FALSE, Top.flags)

\* The loops of php_output_end_all and php_output_discard_all: by force.
EndAllStep ==
    /\ In("endall", "loop")
    /\ IF active = Null
       THEN Return(NoResult) /\ UNCHANGED <<globals, hd, sink, rest>>
       ELSE CallPop(calls, TRUE, Top.flags)

-----------------------------------------------------------------------------
(* The program.                                                            *)

php_output_write ==
    /\ MayWrite /\ written < MaxWrites
    /\ written' = written + 1
    /\ CallWrite(calls, <<written + 1>>)

\* php_output_start_default, php_output_start_devnull, php_output_start_user.
php_output_handler_start(h, kind, size, can) ==
    /\ MayCall /\ activated /\ h \notin live
    /\ IF Locked("start") THEN LockError(calls, NoResult)
       ELSE /\ handlers' = Append(handlers, h) /\ active' = h /\ live' = live \union {h}
            /\ hd' = [hd EXCEPT ![h] =
                 [NewHandler(kind, size, can) EXCEPT !.level = Len(handlers)]]
            /\ UNCHANGED <<activated, running, calls, res, sink, rest>>

\* php_output_flush and php_output_clean start alike.
CallActive(fn, ability) ==
    /\ MayCall /\ active # Null
    /\ IF active \notin live THEN UseAfterFree
       ELSE /\ ability \in hd[active].can
            /\ CallHandlerOp(Append(calls, Frame(fn, active, Nothing, 0, "wait", FALSE)),
                             active, Context(fn, <<>>))
php_output_flush == CallActive("flush", "flushable")
php_output_clean == CallActive("clean", "cleanable")

php_output_flush_all ==
    MayCall /\ active # Null /\ CallOp(calls, "flush", <<>>) /\ UNCHANGED written

\* A loop over the stack is entered.
CallLoop(fn, at, flags) ==
    /\ calls' = Append(calls, Frame(fn, Null, Nothing, Len(handlers), at, flags))
    /\ UNCHANGED <<globals, hd, res, sink, written, dropped, bad>>
php_output_clean_all ==
    MayCall /\ active # Null /\ CallLoop("cleanall", "call", FALSE) /\ UNCHANGED phase
php_output_end_all(discard) ==
    MayCall /\ active # Null /\ CallLoop("endall", "loop", discard) /\ UNCHANGED phase

\* php_output_end, php_output_discard.
php_output_end(discard) ==
    MayCall /\ active # Null /\ CallPop(calls, FALSE, discard)

\* php_nano_deactivate_core, which the host calls when the program has ended.
php_nano_deactivate_core ==
    /\ ~bad /\ calls = <<>> /\ phase \in {"run", "bailed"}
    /\ phase' = IF phase = "run" THEN "ending" ELSE "aborting"
    /\ CallLoop("endall", "loop", FALSE)

Deactivate ==
    /\ ~bad /\ calls = <<>> /\ phase \in {"ending", "aborting"}
    /\ phase' = IF phase = "ending" THEN "ended" ELSE "aborted"
    /\ php_output_deactivate
    /\ UNCHANGED <<calls, res, sink, written, bad>>

-----------------------------------------------------------------------------
Layer ==
    \/ php_output_handler_op \/ InternalHandler \/ DeprecationReturns \/ HandlerFinishes
    \/ OpStep \/ OpReturns \/ FlushReturns \/ FlushWrites \/ FlushPushes
    \/ CleanReturns \/ CleanAllStep \/ CleanAllReturns
    \/ PopReturns \/ PopWrites \/ PopFrees \/ EndAllStep \/ Deactivate

UserHandler == \E ret \in Returns : CallbackReturns(ret)

Program ==
    \/ php_output_write
    \/ \E h \in Handler, kind \in Kinds, size \in ChunkSizes, can \in {{}, Abilities} :
          php_output_handler_start(h, kind, size, can)
    \/ php_output_flush \/ php_output_clean \/ php_output_flush_all
    \/ php_output_clean_all
    \/ \E discard \in BOOLEAN : php_output_end(discard) \/ php_output_end_all(discard)
    \/ php_nano_deactivate_core

Next == Layer \/ UserHandler \/ Bailout \/ Program
Spec == Init /\ [][Next]_vars
FairSpec == Spec /\ WF_vars(Layer) /\ WF_vars(UserHandler)

-----------------------------------------------------------------------------
(* Properties.                                                             *)

Phases == {"run", "bailed", "ending", "aborting", "ended", "aborted"}

\* The types of the output globals and of the handlers (php_output.h).
TypeOK ==
    /\ {activated, bad} \subseteq BOOLEAN /\ phase \in Phases
    /\ {active, running} \subseteq Handler \union {Null}
    /\ handlers \in Seq(Handler) /\ live \subseteq Handler
    /\ written \in 0..MaxWrites
    /\ \A h \in Handler :
         /\ hd[h].buf \in Seq(1..MaxWrites) /\ hd[h].level < Cardinality(Handler)
         /\ {hd[h].disabled, hd[h].produced} \subseteq BOOLEAN

\* No C function of the layer uses a handler that was freed, or a slot of the
\* stack that no longer exists, while user handlers call the layer again.
HandlerAlive == ~bad

Idle == calls = <<>> /\ phase = "run"

\* Between two calls of the program the stack, OG(active), OG(running) and the
\* handlers' levels agree, and every handler not yet freed is on the stack.
StackSound ==
    /\ TypeOK
    /\ Idle => /\ live = Range(handlers) /\ Cardinality(live) = Len(handlers)
               /\ active = TopOf(handlers) /\ running = Null
               /\ \A i \in 1..Len(handlers) : hd[handlers[i]].level = i - 1

\* What is out, and then what is buffered, the bottom handler first.
Stream == sink \o FlattenSeq([i \in 1..Len(handlers) |-> hd[handlers[i]].buf])

\* Everything written is out, in a buffer, or was discarded on purpose, also
\* when handlers fail, are disabled or flush chunks, and once the request has
\* ended (php_output_end_all) it is out.
NothingLost ==
    /\ Idle => 1..written \subseteq Tokens(Stream) \union dropped
    /\ phase = "ended" => 1..written \subseteq Tokens(sink) \union dropped

\* Nothing is lost, output never overtakes output written before it, and none
\* appears twice, whatever handlers do with their buffers (php_output_op).
OutputExact ==
    /\ NothingLost
    /\ Idle => \A i, j \in 1..Len(Stream) : i < j => Stream[i] < Stream[j]

\* The end of the request finalizes every handler and completes, also after a
\* bailout that left a handler running, unless it is left by a bailout itself.
RequestEnds ==
    (phase \in {"ending", "aborting"}) ~> (phase \in {"ended", "aborted", "bailed"})
===============================================================================
