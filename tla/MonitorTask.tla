---------------------------- MODULE MonitorTask ----------------------------
(***************************************************************************)
(* What the rest of the process can rely on of setupMonitor, without its   *)
(* channel, its messages and its timers: whether it is running, and why it *)
(* stopped.  Monitor implements this module; AppLifecycle runs it as the   *)
(* body of the monitor goroutine.                                          *)
(***************************************************************************)
EXTENDS Integers

VARIABLES
  task,       \* "start", "loop", or how it ended: "nil", "error" or "panic"
  cancelled,  \* the context is cancelled
  limits      \* the flags it was started with

vars == <<task, cancelled, limits>>

Ends(how) == task' = how /\ UNCHANGED <<cancelled, limits>>

\* make(chan) accepts the buffer size and ChanSubscribe succeeds.
Starts == task = "start" /\ limits.bufferSize >= 0 /\ Ends("loop")

StartFails == task = "start" /\ Ends("error")

\* make(chan) panics for a negative size.
StartPanics == task = "start" /\ limits.bufferSize < 0 /\ Ends("panic")

\* Too many read timeouts: only when there is a limit.
GivesUp == task = "loop" /\ limits.maxTimeouts > 0 /\ Ends("error")

\* The loop ends without an error only when it is told to.
Stops == task = "loop" /\ cancelled /\ Ends("nil")

\* A handler panics.
HandlerPanics == task = "loop" /\ Ends("panic")

Cancel == ~cancelled /\ cancelled' = TRUE /\ UNCHANGED <<task, limits>>

Init == task = "start" /\ cancelled = FALSE

Run ==
  \/ Starts \/ StartFails \/ StartPanics
  \/ GivesUp \/ Stops \/ HandlerPanics

Next == Run \/ Cancel

Spec == Init /\ [][Next]_vars
=============================================================================
