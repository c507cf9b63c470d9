---------------------------- MODULE EventSummary ----------------------------
(***************************************************************************)
(* EventSummaryCounter of internal/handlers/summary.go: the monitor        *)
(* goroutine counts events with Inc while the summary goroutine of Start   *)
(* logs the counts and clears them at every tick.  The two share Counts    *)
(* and Total under a read-write mutex; each statement inside a critical    *)
(* section is a step, so the mutex is what keeps them consistent.          *)
(***************************************************************************)
EXTENDS Integers, FiniteSets, FiniteSetsExt

CONSTANTS
  Channels,    \* the names Inc is called with
  MaxEvents,   \* bound: calls of Inc per channel that are counted
  MaxTicks     \* bound: ticks of the ticker

ASSUME BoundsAssumption == MaxEvents \in Nat /\ MaxTicks \in Nat

\* Inc is called with the names of the configured nodes.
ASSUME ChannelsAssumption == IsFiniteSet(Channels)

VARIABLES
  counts,      \* esc.Counts, 0 for a channel that is not in the map
  total,       \* esc.Total
  writer,      \* who holds esc.mutex for writing: "inc", "reset" or "none"
  reader,      \* logSummary holds it for reading
  inc,         \* the monitor goroutine: "idle", or its place in Inc
  channel,     \* the argument of the current Inc
  pc,          \* the summary goroutine
  tick,        \* a tick waits in ticker.C, a channel of capacity 1
  ticks,       \* ticks so far
  line,        \* the last "Received %d events" line: total and channel lines
  ctxDone,     \* the context is cancelled
  \* history
  events,      \* events[c]: increments of the counter of c
  logged       \* logged[c]: sum of the counts of c in all summaries logged

data    == <<counts, total>>
lock    == <<writer, reader>>
incVars == <<inc, channel, events>>
timer   == <<tick, ticks>>
logVars == <<line, logged>>
vars == <<data, lock, incVars, pc, timer, logVars, ctxDone>>

Zero == [c \in Channels |-> 0]

Init ==
  /\ counts = Zero /\ total = 0
  /\ writer = "none" /\ reader = FALSE
  /\ inc = "idle" /\ channel \in Channels
  /\ pc = "firstReset"
  /\ tick = FALSE /\ ticks = 0
  /\ line = [total |-> 0, perChannel |-> Zero]
  /\ ctxDone = FALSE
  /\ events = Zero /\ logged = Zero

-----------------------------------------------------------------------------
(* Inc, called by the monitor goroutine.                                   *)

\* The calls never stop: those beyond the bound on the events still take the
\* mutex and release it.
IncLock(c) ==
  /\ inc = "idle"
  /\ writer = "none" /\ ~reader
  /\ writer' = "inc"
  /\ inc' = IF events[c] < MaxEvents THEN "count" ELSE "beyond"
  /\ channel' = c
  /\ UNCHANGED <<data, reader, events, pc, timer, logVars, ctxDone>>

IncCount ==
  /\ inc = "count" /\ inc' = "total"
  /\ counts' = [counts EXCEPT ![channel] = @ + 1]
  /\ events' = [events EXCEPT ![channel] = @ + 1]
  /\ UNCHANGED <<total, lock, channel, pc, timer, logVars, ctxDone>>

IncTotal ==
  /\ inc = "total" /\ inc' = "idle"
  /\ total' = total + 1
  /\ writer' = "none"
  /\ UNCHANGED <<counts, reader, channel, events, pc, timer, logVars, ctxDone>>

IncBeyond ==
  /\ inc = "beyond" /\ inc' = "idle"
  /\ writer' = "none"
  /\ UNCHANGED <<data, reader, channel, events, pc, timer, logVars, ctxDone>>

-----------------------------------------------------------------------------
(* The goroutine of Start: Reset once, then logSummary and Reset per tick. *)

Goes(from, to) == pc = from /\ pc' = to /\ UNCHANGED <<incVars, ctxDone>>

ResetLock ==
  /\ \E from \in {"firstReset", "reset"} : Goes(from, "clearCounts")
  /\ writer = "none" /\ ~reader
  /\ writer' = "reset"
  /\ UNCHANGED <<data, reader, timer, logVars>>

\* Mutant: Reset forgets the counts of the channels.
KeptCounts == counts

NoCounts == Zero

ClearCounts ==
  /\ Goes("clearCounts", "clearTotal")
  /\ counts' = NoCounts
  /\ UNCHANGED <<total, lock, timer, logVars>>

ClearTotal ==
  /\ Goes("clearTotal", "select")
  /\ total' = 0
  /\ writer' = "none"
  /\ UNCHANGED <<counts, reader, timer, logVars>>

\* The ticker is created after the first Reset, drops ticks nobody took, and
\* is never stopped.
Tick ==
  /\ pc \in {"firstReset", "clearCounts", "clearTotal"} => ticks > 0
  /\ ticks < MaxTicks
  /\ tick' = TRUE /\ ticks' = ticks + 1
  /\ UNCHANGED <<data, lock, incVars, pc, logVars, ctxDone>>

TakeTick ==
  /\ tick /\ Goes("select", "logLock")
  /\ tick' = FALSE
  /\ UNCHANGED <<data, lock, ticks, logVars>>

\* Mutant: logSummary does not take the mutex.
LogNoLock ==
  Goes("logLock", "logTotal") /\ UNCHANGED <<data, lock, timer, logVars>>

\* Mutant: logSummary only tries the lock and leaves the summary out.
LogTryLock ==
  \/ /\ writer = "none" /\ Goes("logLock", "logTotal")
     /\ reader' = TRUE
     /\ UNCHANGED <<data, writer, timer, logVars>>
  \/ /\ writer # "none" /\ Goes("logLock", "reset")
     /\ UNCHANGED <<data, lock, timer, logVars>>

LogLock ==
  /\ writer = "none" /\ Goes("logLock", "logTotal")
  /\ reader' = TRUE
  /\ UNCHANGED <<data, writer, timer, logVars>>

LogTotal ==
  /\ Goes("logTotal", "logCounts")
  /\ line' = [line EXCEPT !.total = total]
  /\ UNCHANGED <<data, lock, timer, logged>>

\* Mutant: a summary reports the total of each channel so far.
LoggedAgain(c) == logged[c] + events[c]

LoggedWith(c) == logged[c] + counts[c]

\* The loop over esc.Counts and the unlock.
LogCounts ==
  /\ Goes("logCounts", "reset")
  /\ line' = [line EXCEPT !.perChannel = counts]
  /\ logged' = [c \in Channels |-> LoggedWith(c)]
  /\ reader' = FALSE
  /\ UNCHANGED <<data, writer, timer>>

ContextDone ==
  /\ ctxDone /\ Goes("select", "exited")
  /\ UNCHANGED <<data, lock, timer, logVars>>

Cancel ==
  /\ ~ctxDone /\ ctxDone' = TRUE
  /\ UNCHANGED <<data, lock, incVars, pc, timer, logVars>>

Exited == pc = "exited" /\ inc = "idle" /\ UNCHANGED vars

-----------------------------------------------------------------------------
SummaryStep ==
  \/ ResetLock \/ ClearCounts \/ ClearTotal \/ TakeTick
  \/ LogLock \/ LogTotal \/ LogCounts

Next ==
  \/ \E c \in Channels : IncLock(c)
  \/ IncCount \/ IncTotal \/ IncBeyond
  \/ SummaryStep \/ ContextDone
  \/ Tick \/ Cancel \/ Exited

Spec == Init /\ [][Next]_vars

\* Both goroutines run when they can, and nothing is assumed of how often Inc
\* is called.  A Go mutex in starvation mode hands itself to the longest
\* waiter, so a lock that keeps becoming free is eventually acquired, even if
\* the other goroutine takes it back each time; select picks at random among
\* the ready cases.
Fairness ==
  /\ WF_vars(IncCount) /\ WF_vars(IncTotal) /\ WF_vars(IncBeyond)
  /\ SF_vars(ResetLock) /\ SF_vars(LogLock)
  /\ WF_vars(ClearCounts \/ ClearTotal \/ LogTotal \/ LogCounts)
  /\ SF_vars(TakeTick) /\ SF_vars(ContextDone)

FairSpec == Spec /\ Fairness

-----------------------------------------------------------------------------
(* Properties.                                                             *)

\* Type invariant.
TypeOK ==
  /\ counts \in [Channels -> Nat] /\ total \in Nat
  /\ writer \in {"none", "inc", "reset"} /\ reader \in BOOLEAN
  /\ inc \in {"idle", "count", "total", "beyond"} /\ channel \in Channels
  /\ pc \in {"firstReset", "clearCounts", "clearTotal", "select", "logLock",
             "logTotal", "logCounts", "reset", "exited"}
  /\ tick \in BOOLEAN /\ ticks \in Nat
  /\ line \in [total : Nat, perChannel : [Channels -> Nat]]
  /\ ctxDone \in BOOLEAN
  /\ events \in [Channels -> Nat] /\ logged \in [Channels -> Nat]

\* A logged summary is a consistent snapshot: once its last line is out, the
\* total in its first line is the sum of its channel lines, although Inc and
\* Reset update the two in separate statements.
SummaryAddsUp ==
  pc = "reset" =>
    line.total = MapThenSumSet(LAMBDA c : line.perChannel[c], Channels)

\* No event is reported twice: over all summaries a channel is never credited
\* with more events than Inc was called for, and an event still in Counts when
\* the goroutine waits for its tick is in no summary yet.
NeverOverReports ==
  \A c \in Channels :
    /\ logged[c] <= events[c]
    /\ pc \in {"select", "logLock", "logTotal", "logCounts"}
         => logged[c] + counts[c] <= events[c]

\* The event summary implements EventReport: a report only grows, by no more
\* than the events it has not shown yet, although Inc goes on in between the
\* statements of logSummary and Reset.
Report == INSTANCE EventReport WITH reported <- logged
ImplementsReport == Report!Spec

\* A tick is answered with a summary: it is taken, unless the goroutine is told
\* to stop, the lines are written, and the counts are cleared for the next
\* one.  An endless stream of Incs starves neither logSummary nor Reset.
TickIsAnswered ==
  /\ tick ~> ctxDone \/ (~tick /\ pc = "logLock")
  /\ pc = "logLock" ~> pc = "logCounts"
  /\ pc = "logCounts" ~> pc = "select"
=============================================================================
