------------------------- MODULE EventSummaryProofs -------------------------
(***************************************************************************)
(* The counts of EventSummary, for any channels and bounds: no event is    *)
(* reported twice, and the summary implements EventReport.                 *)
(*                                                                         *)
(* What has been logged and what is still counted never exceed the events, *)
(* except between logSummary and the clearing of Counts, when the counts   *)
(* are in the log already; and as Reset holds the mutex while it clears,   *)
(* Inc is in no critical section there.                                    *)
(***************************************************************************)
EXTENDS EventSummary, Induction

\* The mutex: a place inside a critical section and the lock that it holds.
MutexInv ==
  /\ writer = "inc" <=> inc \in {"count", "total", "beyond"}
  /\ writer = "reset" <=> pc \in {"clearCounts", "clearTotal"}
  /\ reader <=> pc \in {"logTotal", "logCounts"}
  /\ reader => writer = "none"

\* After logSummary the counts are part of what is logged; at every other
\* place they come on top of it.
ReportInv ==
  \A c \in Channels :
    /\ logged[c] <= events[c]
    /\ pc \notin {"reset", "clearCounts"}
         => logged[c] + counts[c] <= events[c]

IInv == TypeOK /\ MutexInv /\ ReportInv

-----------------------------------------------------------------------------
\* Nothing is counted or logged at the start.
LEMMA InitIInv == Init => IInv
<1> SUFFICES ASSUME Init PROVE IInv
  OBVIOUS
<1>1. Zero \in [Channels -> Nat] /\ \A c \in Channels : Zero[c] = 0
  BY DEF Zero
<1>2. TypeOK
  BY <1>1 DEF Init, TypeOK
<1>3. MutexInv
  BY DEF Init, MutexInv
<1>4. ReportInv
  BY <1>1 DEF Init, ReportInv
<1>5. QED
  BY <1>2, <1>3, <1>4 DEF IInv

\* Every step of the two goroutines, the ticker and the context keeps the
\* invariant.
LEMMA NextIInv == IInv /\ [Next]_vars => IInv'
<1> SUFFICES ASSUME IInv, [Next]_vars PROVE IInv'
  OBVIOUS
<1> USE BoundsAssumption
    DEF IInv, TypeOK, MutexInv, ReportInv, data, lock, incVars, timer,
        logVars, Goes, NoCounts, LoggedWith
<1>1. ASSUME NEW c \in Channels, IncLock(c) PROVE IInv'
  BY <1>1 DEF IncLock
<1>2. CASE IncCount
  BY <1>2 DEF IncCount
<1>3. CASE IncTotal \/ IncBeyond
  BY <1>3 DEF IncTotal, IncBeyond
<1>4. CASE ResetLock
  BY <1>4 DEF ResetLock
<1>5. CASE ClearCounts
  BY <1>5 DEF ClearCounts, Zero
<1>6. CASE ClearTotal
  BY <1>6 DEF ClearTotal
<1>7. CASE TakeTick
  BY <1>7 DEF TakeTick
<1>8. CASE LogLock
  BY <1>8 DEF LogLock
<1>9. CASE LogTotal
  BY <1>9 DEF LogTotal
<1>10. CASE LogCounts
  <2>1. /\ logged' \in [Channels -> Nat]
        /\ \A c \in Channels : logged'[c] = logged[c] + counts[c]
    BY <1>10 DEF LogCounts
  <2>2. line' \in [total : Nat, perChannel : [Channels -> Nat]]
    BY <1>10 DEF LogCounts
  <2>3. TypeOK' /\ MutexInv'
    BY <1>10, <2>1, <2>2 DEF LogCounts
  <2>4. ReportInv'
    BY <1>10, <2>1 DEF LogCounts
  <2>5. QED
    BY <2>3, <2>4
<1>11. CASE ContextDone
  BY <1>11 DEF ContextDone
<1>12. CASE Tick
  BY <1>12 DEF Tick
<1>13. CASE Cancel
  BY <1>13 DEF Cancel
<1>14. CASE Exited \/ UNCHANGED vars
  BY <1>14 DEF Exited, vars
<1>15. QED
  BY <1>1, <1>2, <1>3, <1>4, <1>5, <1>6, <1>7, <1>8, <1>9, <1>10, <1>11,
     <1>12, <1>13, <1>14 DEF Next, SummaryStep

\* The invariant holds in every reachable state.
LEMMA InvariantCorrect == Spec => []IInv
BY InitIInv, NextIInv, PTL DEF Spec

-----------------------------------------------------------------------------
\* Every step counts an event, adds to the report or concerns neither.
LEMMA StepSimulates ==
  ASSUME IInv, [Next]_vars
  PROVE  [Report!Next]_(Report!vars)
<1> USE DEF data, lock, incVars, timer, logVars, Goes, Report!vars
<1>1. CASE IncCount
  <2>1. channel \in Channels /\ Report!Event(channel)
    BY <1>1 DEF IncCount, IInv, TypeOK, Report!Event
  <2>2. QED
    BY <2>1 DEF Report!Next
<1>2. CASE LogCounts
  <2>1. /\ logged' = [c \in Channels |-> logged[c] + counts[c]]
        /\ UNCHANGED events /\ pc = "logCounts"
    BY <1>2 DEF LogCounts, LoggedWith
  <2>2. /\ logged' \in [Channels -> Nat]
        /\ \A c \in Channels : logged[c] <= logged'[c]
    BY <2>1 DEF IInv, TypeOK
  <2>3. \A c \in Channels : logged'[c] <= events[c]
    BY <2>1 DEF IInv, TypeOK, ReportInv
  <2>4. QED
    BY <2>1, <2>2, <2>3 DEF Report!Next, Report!Report
<1>3. CASE \/ \E c \in Channels : IncLock(c)
           \/ IncTotal \/ IncBeyond
           \/ ResetLock \/ ClearCounts \/ ClearTotal \/ TakeTick
           \/ LogLock \/ LogTotal \/ ContextDone \/ Tick \/ Cancel
  BY <1>3 DEF IncLock, IncTotal, IncBeyond, ResetLock, ClearCounts,
              ClearTotal, TakeTick, LogLock, LogTotal, ContextDone, Tick, Cancel
<1>4. CASE Exited \/ UNCHANGED vars
  BY <1>4 DEF Exited, vars
<1>5. QED
  BY <1>1, <1>2, <1>3, <1>4 DEF Next, SummaryStep

\* The event summary implements EventReport: an event is reported at most once
\* and no report is taken back, however Inc and the summary interleave.
THEOREM ReportCorrect == Spec => ImplementsReport
<1>1. Init => Report!Init
  BY DEF Init, Zero, Report!Init
<1>2. IInv /\ [Next]_vars => [Report!Next]_(Report!vars)
  BY StepSimulates
<1>3. QED
  BY <1>1, <1>2, InvariantCorrect, PTL DEF Spec, ImplementsReport, Report!Spec

\* The type invariant of the event summary, for any channels and bounds.
THEOREM TypeCorrect == Spec => []TypeOK
<1>1. IInv => TypeOK
  BY DEF IInv
<1>2. QED
  BY <1>1, InvariantCorrect, PTL

\* No event is reported twice, however Inc and the summary interleave.
THEOREM NeverOverReportsCorrect == Spec => []NeverOverReports
<1>1. IInv => NeverOverReports
  BY DEF IInv, TypeOK, ReportInv, NeverOverReports
<1>2. QED
  BY <1>1, InvariantCorrect, PTL

-----------------------------------------------------------------------------
(* A summary adds up.                                                      *)

Sum(f) == SumOf(f, Channels)

\* Total is the sum of Counts, but inside the critical sections that change
\* the two one after the other.  The total of a summary is still that of the
\* counts when its channel lines are written, as the lock is held for reading.
SumInv ==
  /\ inc = "total" => Sum(counts) = total + 1
  /\ pc = "clearTotal" => Sum(counts) = 0
  /\ inc # "total" /\ pc # "clearTotal" => Sum(counts) = total
  /\ pc = "logCounts" => line.total = total
  /\ pc = "reset" => line.total = Sum(line.perChannel)

\* The sum of no events, and of one event more.
LEMMA SumOfZero == Sum(Zero) = 0
BY ChannelsAssumption, SumOfZeros DEF Sum, Zero

\* Counting one event of a channel adds one to the sum.
LEMMA SumOfOneMore ==
  ASSUME NEW f \in [Channels -> Nat], NEW c \in Channels
  PROVE  Sum([f EXCEPT ![c] = @ + 1]) = Sum(f) + 1
BY ChannelsAssumption, SumOfIncrement DEF Sum

\* Nothing is counted at the start.
LEMMA InitSum == Init => SumInv
BY SumOfZero DEF Init, SumInv

\* Every step keeps the sum: the steps between those of a critical section
\* belong to the other goroutine, which waits for the lock.
LEMMA NextSum == IInv /\ SumInv /\ [Next]_vars => SumInv'
<1> SUFFICES ASSUME IInv, SumInv, [Next]_vars PROVE SumInv'
  OBVIOUS
<1> USE DEF IInv, MutexInv, SumInv, data, lock, incVars, timer, logVars, Goes,
        NoCounts
<1>1. CASE IncCount
  <2>1. Sum(counts') = Sum(counts) + 1
    BY <1>1, SumOfOneMore DEF IncCount, TypeOK
  <2>2. pc \notin {"clearCounts", "clearTotal", "logTotal", "logCounts"}
    BY <1>1 DEF IncCount
  <2>3. QED
    BY <1>1, <2>1, <2>2 DEF IncCount, TypeOK
<1>2. CASE IncTotal \/ IncBeyond
  BY <1>2 DEF IncTotal, IncBeyond, TypeOK
<1>3. CASE ClearCounts
  BY <1>3, SumOfZero DEF ClearCounts
<1>4. CASE ClearTotal
  BY <1>4 DEF ClearTotal
<1>5. CASE LogTotal
  BY <1>5 DEF LogTotal, TypeOK
<1>6. CASE LogCounts
  <2>1. Sum(counts) = total /\ line.total = total
    BY <1>6 DEF LogCounts
  <2>2. line'.total = line.total /\ line'.perChannel = counts
    BY <1>6 DEF LogCounts, TypeOK
  <2>3. QED
    BY <1>6, <2>1, <2>2 DEF LogCounts
<1>7. ASSUME NEW c \in Channels, IncLock(c) PROVE SumInv'
  BY <1>7 DEF IncLock
<1>8. CASE ResetLock \/ TakeTick \/ LogLock
  BY <1>8 DEF ResetLock, TakeTick, LogLock
<1>9. CASE ContextDone \/ Tick \/ Cancel
  BY <1>9 DEF ContextDone, Tick, Cancel
<1>10. CASE Exited \/ UNCHANGED vars
  BY <1>10 DEF Exited, vars
<1>11. QED
  BY <1>1, <1>2, <1>3, <1>4, <1>5, <1>6, <1>7, <1>8, <1>9, <1>10
     DEF Next, SummaryStep

\* Every summary adds up: its total is the sum of its channel lines, for any
\* number of channels, although events are counted while it is written.
THEOREM SummaryAddsUpCorrect == Spec => []SummaryAddsUp
<1>1. SumInv => SummaryAddsUp
  BY DEF SumInv, SummaryAddsUp, Sum, SumOf
<1>2. QED
  BY <1>1, InitSum, NextSum, InvariantCorrect, PTL DEF Spec
=============================================================================
