---------------------------- MODULE MonitorLoop ----------------------------
(***************************************************************************)
(* The loop of setupMonitor over any length of time, for its progress.     *)
(*                                                                         *)
(* Monitor numbers the values, the messages and the ticks of the clock, so *)
(* each of its behaviours ends.  Here nothing is numbered: messages may    *)
(* arrive for ever, the read timer may fire for ever, and what can starve  *)
(* what can be asked.  The control is that of main.go again; handleMessage *)
(* is one step, because its records are finitely many.                     *)
(*                                                                         *)
(* Data abstraction.  One update is watched, a value that the handler of   *)
(* one metric converts: the message that carries it is "marked".  A        *)
(* message the loop skips is "skip", any other is "plain".                 *)
(***************************************************************************)
EXTENDS Integers, Sequences

CONSTANT
  Arguments  \* what setupMonitor may be called with

ASSUME ArgumentsAssumption ==
  Arguments \subseteq [bufferSize : Int, readTimeout : Int, maxTimeouts : Int]

VARIABLES
  args,         \* the arguments setupMonitor was called with
  pc,           \* "subscribe", "select", "handle", "cleanup" or "done"
  ch,           \* the channel
  msg,          \* the message in hand
  timer,        \* the read timer of this iteration: "running" or "fired"
  timeoutCount, \* read timeouts so far; not counted without a limit on them
  result,       \* what setupMonitor returned
  update,       \* the watched update: "none", "dropped", "underway" or "shown"
  silent,       \* the server has nothing to report any more
  ctxDone       \* the context is cancelled

hand    == <<msg, update>>
outcome == <<timeoutCount, result>>
outside == <<args, silent, ctxDone>>
vars == <<outside, pc, ch, hand, timer, outcome>>

Looping == pc \in {"select", "handle"}

Init ==
  /\ args \in Arguments
  /\ pc = "subscribe" /\ ch = <<>> /\ msg = "none" /\ timer = "running"
  /\ timeoutCount = 0 /\ result = "none"
  /\ update = "none" /\ silent = FALSE /\ ctxDone = FALSE

-----------------------------------------------------------------------------
(* The loop of setupMonitor.                                               *)

\* The head of the for loop creates the read timer.  With a timeout that is not
\* positive it has fired by the time the select looks at it (as of Go 1.23,
\* which go.mod requires).
NextIteration ==
  /\ pc' = "select"
  /\ timer' = IF args.readTimeout > 0 THEN "running" ELSE "fired"

Leave(how) == pc' = "cleanup" /\ result' = how /\ UNCHANGED timer

Subscribe ==
  /\ pc = "subscribe" /\ args.bufferSize >= 0
  /\ NextIteration
  /\ UNCHANGED <<outside, ch, hand, outcome>>

SubscribeFails ==
  /\ pc = "subscribe"
  /\ pc' = "done" /\ result' = "subscribeError"
  /\ UNCHANGED <<outside, ch, hand, timer, timeoutCount>>

\* make(chan) panics for a negative size.
SubscribePanics ==
  /\ pc = "subscribe" /\ args.bufferSize < 0
  /\ pc' = "done" /\ result' = "panic"
  /\ UNCHANGED <<outside, ch, hand, timer, timeoutCount>>

\* An error or a nil value is only logged and the loop goes round.
Take(x) ==
  \/ x = "skip" /\ NextIteration /\ UNCHANGED msg
  \/ x # "skip" /\ pc' = "handle" /\ msg' = x /\ UNCHANGED timer

\* Mutant: the select looks at the timer first.
ReceiveBeforeTimer ==
  /\ pc = "select" /\ ch # <<>> /\ timer = "running"
  /\ Take(Head(ch)) /\ ch' = Tail(ch)
  /\ UNCHANGED <<outside, update, outcome>>

Receive ==
  /\ pc = "select" /\ ch # <<>>
  /\ Take(Head(ch)) /\ ch' = Tail(ch)
  /\ UNCHANGED <<outside, update, outcome>>

\* The watched update reaches its gauge with the message that carries it.
Shown == IF msg = "marked" THEN "shown" ELSE update

\* The counters and handleMessage.
Handle ==
  /\ pc = "handle"
  /\ NextIteration
  /\ msg' = "none" /\ update' = Shown
  /\ UNCHANGED <<outside, ch, outcome>>

\* A handler panics, before or after the record of the watched metric.
HandlePanics ==
  /\ pc = "handle"
  /\ Leave("panic")
  /\ msg' = "none" /\ update' \in {update, Shown}
  /\ UNCHANGED <<outside, ch, timeoutCount>>

\* The timer of the select fires, whether or not a message is waiting.
TimerFires ==
  /\ pc = "select" /\ timer = "running"
  /\ timer' = "fired"
  /\ UNCHANGED <<outside, pc, ch, hand, outcome>>

Limited == args.maxTimeouts > 0

\* Mutant: the limit applies only when there is none.
CountedInverted == IF Limited THEN 0 ELSE timeoutCount + 1

Counted == IF Limited THEN timeoutCount + 1 ELSE 0

ReadTimesOut ==
  /\ pc = "select" /\ timer = "fired"
  /\ timeoutCount' = Counted
  /\ \/ Limited /\ Counted >= args.maxTimeouts /\ Leave("maxTimeouts")
     \/ ~(Limited /\ Counted >= args.maxTimeouts)
        /\ NextIteration /\ UNCHANGED result
  /\ UNCHANGED <<outside, ch, hand>>

\* Mutant: the context is only looked at when no message is waiting.
ContextDoneWhenIdle ==
  /\ pc = "select" /\ ctxDone /\ ch = <<>>
  /\ Leave("nil")
  /\ UNCHANGED <<outside, ch, hand, timeoutCount>>

\* <-ctx.Done()
ContextDone ==
  /\ pc = "select" /\ ctxDone
  /\ Leave("nil")
  /\ UNCHANGED <<outside, ch, hand, timeoutCount>>

\* The deferred cleanup; see Monitor for what Unsubscribe may leave behind.
Cleanup ==
  /\ pc = "cleanup" /\ pc' = "done"
  /\ UNCHANGED <<outside, ch, hand, timer, outcome>>

-----------------------------------------------------------------------------
(* The client library and the environment.                                 *)

\* What becomes of the watched update when x is delivered, or dropped.
Watch(x, how) == update' = IF x = "marked" THEN how ELSE update

\* The library's non-blocking send, as in Monitor.  What it sends once the loop
\* is left makes no difference.
Send(x) ==
  /\ Looping /\ ~silent
  /\ x = "marked" => update = "none"
  /\ \/ /\ Len(ch) < args.bufferSize
        /\ ch' = Append(ch, x) /\ Watch(x, "underway")
        /\ UNCHANGED <<pc, msg, timer>>
     \/ /\ ch = <<>> /\ pc = "select"
        /\ Take(x) /\ Watch(x, "underway")
        /\ UNCHANGED ch
     \/ /\ Len(ch) >= args.bufferSize
        /\ Watch(x, "dropped")
        /\ UNCHANGED <<pc, ch, msg, timer>>
  /\ UNCHANGED <<outside, outcome>>

FallSilent ==
  /\ ~silent /\ silent' = TRUE
  /\ UNCHANGED <<args, ctxDone, pc, ch, hand, timer, outcome>>

Cancel ==
  /\ ~ctxDone /\ ctxDone' = TRUE
  /\ UNCHANGED <<args, silent, pc, ch, hand, timer, outcome>>

\* The goroutine has returned and the process only waits to exit.
Returned == pc = "done" /\ UNCHANGED vars

-----------------------------------------------------------------------------
LoopStep ==
  \/ Subscribe \/ SubscribeFails \/ SubscribePanics
  \/ Receive \/ Handle \/ HandlePanics
  \/ TimerFires \/ ReadTimesOut \/ ContextDone \/ Cleanup

Next ==
  \/ LoopStep
  \/ \E x \in {"skip", "plain", "marked"} : Send(x)
  \/ FallSilent \/ Cancel \/ Returned

\* The goroutine runs whenever it can, the timer of a select that goes on
\* waiting fires, and select picks uniformly at random among the ready cases: a
\* case that is ready in infinitely many rounds is eventually taken.  Nothing
\* is assumed of the server, of the cancellation or of ChanSubscribe.
Fairness ==
  /\ SF_vars(Receive) /\ SF_vars(ContextDone) /\ SF_vars(ReadTimesOut)
  /\ WF_vars(Handle) /\ WF_vars(TimerFires) /\ WF_vars(Cleanup)

Spec == Init /\ [][Next]_vars /\ Fairness

-----------------------------------------------------------------------------
(* Properties.                                                             *)

\* Without a limit on the timeouts, an update that the library has delivered
\* reaches its gauge, unless the context is cancelled or a handler panics:
\* neither messages that arrive without end nor a read timer that fires in
\* every round, which a --read-timeout of 0 makes it do, starve it.
DeliveredIsShown ==
  ~Limited /\ update = "underway"
    ~> update = "shown" \/ ctxDone \/ result = "panic"

\* Without a limit on the timeouts too, a cancelled context ends the goroutine
\* of a subscribed monitor, even if messages keep arriving without end.
CancelEndsLoop == ~Limited /\ ctxDone /\ Looping ~> pc = "done"

\* With --max-timeouts set, a subscribed monitor whose server falls silent
\* gives up, after whatever traffic and whatever timeouts before.
SilenceEndsLoop == Limited /\ silent /\ Looping ~> pc = "done"
=============================================================================
