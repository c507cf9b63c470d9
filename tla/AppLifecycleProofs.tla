------------------------ MODULE AppLifecycleProofs ------------------------
(***************************************************************************)
(* The safety of the process of AppLifecycle, for any number of scrapes    *)
(* and any configuration.                                                  *)
(*                                                                         *)
(* The invariant ties the place of each goroutine to what it has done:     *)
(* app.client is only set once main is past the connection, the context is *)
(* only done when a goroutine is about to end the process, and the server  *)
(* is only closed by a goroutine that stays in App.shutdown for good.      *)
(***************************************************************************)
EXTENDS AppLifecycle, TLAPS

\* Nothing leaves App.shutdown but the end of the process.
ServerShut == {"sdWait", "sdCancel", "sdExit"}

\* Places of main at which it may still open a session.
BeforeClient == {"load", "mappings", "connect", "setClient"}

\* app.client is set after the connection, and stays set.
ClientInv ==
  /\ appClient => pc["main"] \notin BeforeClient
  /\ \A p \in Proc : late[p] => appClient

\* Before they are started the other goroutines are in no shutdown that their
\* start could undo.
MonitorInv ==
  /\ pc["main"] \in BeforeClient \cup {"register", "goMonitor"}
       => pc["monitor"] = "unborn"
  /\ pc["main"] = "load"
       => pc["signal"] = "unborn" /\ pc["summary"] = "unborn"

\* A late shutdown has closed the session once it is past client.Close.
ClosedInv ==
  /\ LateShutdownClosesSession
  /\ pc["main"] \in {"deferCancel", "return"} => session = "closed"

\* The context is cancelled by the last step before the end of the process,
\* and the monitor ends without an error only after that.
CancelInv ==
  /\ ctxDone => \/ \E p \in Proc : pc[p] = "sdExit"
                \/ pc["main"] = "return"
  /\ pc["monitor"] = "returned" \/ task = "nil" => ctxDone

\* The server is closed by a shutdown that has not ended.
ServerInv ==
  /\ http = "closed" => \E p \in Proc : pc[p] \in ServerShut
  /\ pc["main"] \in {"deferClose", "deferCancel", "return"} => http = "closed"
  /\ exit = "0" => pc["main"] = "return"

IInv == TypeOK /\ ClientInv /\ MonitorInv /\ ClosedInv /\ CancelInv /\ ServerInv

-----------------------------------------------------------------------------
\* The process starts with nothing open, set or cancelled.
LEMMA InitIInv == Init => IInv
<1> SUFFICES ASSUME Init PROVE IInv
  OBVIOUS
<1>1. /\ pc["main"] = "load" /\ pc["signal"] = "unborn"
      /\ pc["monitor"] = "unborn" /\ pc["summary"] = "unborn"
  BY DEF Init, Proc, Callers
<1>2. pc \in [Proc -> {"load", "unborn"}]
  BY DEF Init
<1>3. TypeOK
  <2>1. pc \in [Proc -> ShutdownSteps \cup MainSteps
                    \cup {"waiting", "unborn", "newTicker", "ticking",
                          "monitoring", "returned"}]
    BY <1>2 DEF MainSteps
  <2>2. late \in [Proc -> BOOLEAN]
    BY DEF Init
  <2>3. scrapes \in 0 .. MaxScrapes
    BY MaxScrapesAssumption DEF Init
  <2>4. QED
    BY <2>1, <2>2, <2>3 DEF Init, TypeOK
<1>4. ClientInv /\ MonitorInv /\ ClosedInv /\ CancelInv /\ ServerInv
  BY <1>1 DEF Init, ClientInv, MonitorInv, ClosedInv, CancelInv,
     ServerInv, LateShutdownClosesSession, Proc, Callers
<1>5. QED
  BY <1>3, <1>4 DEF IInv

\* Every step through App.shutdown keeps the invariant.
LEMMA ShutdownIInv ==
  ASSUME IInv, NEW p \in Callers, Shutdown(p)
  PROVE  IInv'
<1> USE DEF IInv, TypeOK, Move, Step, EndProcess, CallShutdown,
        CancelContext, Proc, Callers, ShutdownSteps, MainSteps, client,
        server, ending, ClientInv, BeforeClient, MonitorInv, ClosedInv,
        CancelInv, ServerInv, ServerShut, LateShutdownClosesSession
<1>1. CASE SdReadClient(p)
  BY <1>1 DEF SdReadClient
<1>2. CASE SdCloseClient(p)
  BY <1>2 DEF SdCloseClient
<1>3. CASE SdNoServer(p)
  BY <1>3 DEF SdNoServer
<1>4. CASE SdServer(p)
  BY <1>4 DEF SdServer
<1>5. CASE SdDrained(p)
  BY <1>5 DEF SdDrained
<1>6. CASE SdTimeout(p)
  BY <1>6 DEF SdTimeout
<1>7. CASE SdCancel(p)
  BY <1>7 DEF SdCancel
<1>8. CASE SdExit(p)
  BY <1>8 DEF SdExit
<1>9. QED
  BY <1>1, <1>2, <1>3, <1>4, <1>5, <1>6, <1>7, <1>8 DEF Shutdown

\* Every step of main keeps the invariant.
LEMMA MainIInv ==
  ASSUME IInv, Main
  PROVE  IInv'
<1> USE DEF IInv, TypeOK, Move, Step, EndProcess, CallShutdown,
        CancelContext, Proc, Callers, ShutdownSteps, MainSteps, client,
        server, ending, ClientInv, BeforeClient, MonitorInv, ClosedInv,
        CancelInv, ServerInv, ServerShut, LateShutdownClosesSession
<1>1. CASE LoadFails
  BY <1>1 DEF LoadFails
<1>2. CASE Loaded
  BY <1>2 DEF Loaded
<1>3. CASE HasMappings
  BY <1>3 DEF HasMappings
<1>4. CASE StartFails
  BY <1>4 DEF StartFails
<1>5. CASE Connected
  BY <1>5 DEF Connected
<1>6. CASE SetClient
  BY <1>6 DEF SetClient
<1>7. CASE Registered
  BY <1>7 DEF Registered
<1>8. CASE StartMonitor
  BY <1>8 DEF StartMonitor
<1>9. CASE SetServer
  BY <1>9 DEF SetServer
<1>10. CASE Listen
  BY <1>10 DEF Listen
<1>11. CASE ServeFails
  BY <1>11 DEF ServeFails, ServePlaces
<1>12. CASE ServerClosed
  BY <1>12 DEF ServerClosed, ServePlaces
<1>13. CASE DeferredClose
  BY <1>13 DEF DeferredClose
<1>14. CASE DeferredCancel
  BY <1>14 DEF DeferredCancel
<1>15. CASE MainReturns
  BY <1>15 DEF MainReturns
<1>16. QED
  BY <1>1, <1>2, <1>3, <1>4, <1>5, <1>6, <1>7, <1>8, <1>9, <1>10,
     <1>11, <1>12, <1>13, <1>14, <1>15
     DEF Main

\* Every step of the other goroutines and the environment keeps it.
LEMMA NextIInv == IInv /\ [Next]_vars => IInv'
<1> SUFFICES ASSUME IInv, [Next]_vars PROVE IInv'
  OBVIOUS
<1>1. CASE Main
  BY <1>1, MainIInv
<1>2. ASSUME NEW p \in Callers, Shutdown(p) PROVE IInv'
  BY <1>2, ShutdownIInv
<1> USE DEF IInv, TypeOK, Move, Step, EndProcess, CallShutdown,
        CancelContext, Proc, Callers, ShutdownSteps, MainSteps, client,
        server, ending, ClientInv, BeforeClient, MonitorInv, ClosedInv,
        CancelInv, ServerInv, ServerShut, LateShutdownClosesSession
<1>3. CASE Killed
  BY <1>3 DEF Killed
<1>4. CASE Signal
  BY <1>4 DEF Signal
<1>5. CASE SignalReceived
  BY <1>5 DEF SignalReceived
<1>6. CASE SummaryTicks
  BY <1>6 DEF SummaryTicks
<1>7. CASE SummaryPanics
  BY <1>7 DEF SummaryPanics
<1>8. CASE SummaryEnds
  BY <1>8 DEF SummaryEnds
<1>9. CASE Monitoring
  BY <1>9 DEF Monitoring, MonitorTask!Run, MonitorTask!Starts,
     MonitorTask!StartFails, MonitorTask!StartPanics, MonitorTask!GivesUp,
     MonitorTask!Stops, MonitorTask!HandlerPanics, MonitorTask!Ends
<1>10. CASE MonitorFails
  BY <1>10 DEF MonitorFails
<1>11. CASE MonitorPanics
  BY <1>11 DEF MonitorPanics
<1>12. CASE MonitorEnds
  BY <1>12 DEF MonitorEnds
<1>13. CASE ScrapeBegins
  BY <1>13, MaxScrapesAssumption DEF ScrapeBegins
<1>14. CASE ScrapeEnds
  BY <1>14, MaxScrapesAssumption DEF ScrapeEnds
<1>15. CASE Exited
  BY <1>15 DEF Exited, vars
<1>16. CASE UNCHANGED vars
  BY <1>16 DEF vars
<1>17. QED
  BY <1>1, <1>2, <1>3, <1>4, <1>5, <1>6, <1>7, <1>8, <1>9, <1>10,
     <1>11, <1>12, <1>13, <1>14, <1>15, <1>16
     DEF Next

\* The invariant holds in every reachable state.
LEMMA InvariantCorrect == Spec => []IInv
BY InitIInv, NextIInv, PTL DEF Spec

-----------------------------------------------------------------------------
\* The type invariant of the process, for any number of scrapes.
THEOREM TypeCorrect == Spec => []TypeOK
<1>1. IInv => TypeOK
  BY DEF IInv
<1>2. QED
  BY <1>1, InvariantCorrect, PTL

\* A shutdown that began with app.client set never ends the process with the
\* session open, however the goroutines interleave.
THEOREM LateShutdownCorrect == Spec => []LateShutdownClosesSession
<1>1. IInv => LateShutdownClosesSession
  BY DEF IInv, ClosedInv
<1>2. QED
  BY <1>1, InvariantCorrect, PTL

\* The monitor goroutine ends without an error only when the process is about
\* to end.
THEOREM MonitorEndsCorrect == Spec => []MonitorEndsOnlyAtExit
<1>1. IInv => MonitorEndsOnlyAtExit
  BY DEF IInv, CancelInv, MonitorEndsOnlyAtExit
<1>2. QED
  BY <1>1, InvariantCorrect, PTL

\* The exit code is 0 only while another goroutine is shutting down, with the
\* server and the session closed.
THEOREM ZeroExitCorrect == Spec => []ZeroExitMeansShutdown
<1>1. IInv => ZeroExitMeansShutdown
  BY DEF IInv, ServerInv, ServerShut, ClosedInv, ZeroExitMeansShutdown, Proc,
     Callers
<1>2. QED
  BY <1>1, InvariantCorrect, PTL
=============================================================================
