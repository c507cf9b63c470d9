---------------------------- MODULE AppLifecycle ----------------------------
(***************************************************************************)
(* The life of the process: main, the signal, summary and monitor          *)
(* goroutines and App.shutdown of cmd/opcua_exporter/main.go, with the     *)
(* HTTP server that answers the scrapes.                                   *)
(*                                                                         *)
(* main, the signal and the monitor goroutine may call App.shutdown, also  *)
(* at once.  main writes app.client and app.server without synchronisation *)
(* while the others may read them; a read of the pointer sees what was     *)
(* written when it happens (nil, or the value), so interleaving the reads  *)
(* and writes gives every outcome of that race.                            *)
(*                                                                         *)
(* os.Exit, a panic in any goroutine and the return of main end the        *)
(* process at once, whatever the other goroutines were doing.              *)
(***************************************************************************)
EXTENDS Integers

CONSTANTS
  MaxScrapes,  \* bound: scrapes in flight at a time
  Configs      \* the sizes and limits a configuration may carry

ASSUME MaxScrapesAssumption == MaxScrapes \in Nat

\* Nothing in config.Load or the flags bounds these numbers from below.
ASSUME ConfigsAssumption ==
  Configs \subseteq [bufferSize : Int, interval : Int, maxTimeouts : Int]

Callers == {"main", "signal", "monitor"}   \* of App.shutdown
Proc == Callers \cup {"summary"}

VARIABLES
  config,      \* the loaded configuration
  pc,          \* pc[p]: where goroutine p is
  task,        \* the body of the monitor goroutine: see MonitorTask
  session,     \* the OPC UA session: "none", "open" or "closed"
  appClient,   \* app.client # nil
  appServer,   \* app.server # nil
  http,        \* the http.Server: "new", "listening" or "closed"
  scrapes,     \* scrapes in flight
  graceOver,   \* a call of server.Shutdown ran into shutdownTimeout
  ctxDone,     \* the context is cancelled
  signalled,   \* SIGINT or SIGTERM arrived
  exit,        \* "running", or how the process ended: the exit code
  late         \* late[p]: p called shutdown when app.client was set already

client == <<session, appClient>>
server == <<appServer, http, scrapes, graceOver>>
ending == <<ctxDone, signalled, exit, late>>
vars == <<config, pc, task, client, server, ending>>

\* What App.shutdown does, in order: read app.client and close it, read
\* app.server and shut it down, wait for the scrapes, cancel, exit.
ShutdownSteps == {"sdClient", "sdClose", "sdServer", "sdWait", "sdCancel",
                  "sdExit"}
MainSteps == {"load", "mappings", "connect", "setClient", "register",
              "goMonitor", "setServer", "listen", "serving", "deferClose",
              "deferCancel", "return"}

InShutdown(p) == pc[p] \in ShutdownSteps
Running == exit = "running"

Init ==
  /\ config \in Configs
  /\ pc = [p \in Proc |-> IF p = "main" THEN "load" ELSE "unborn"]
  /\ task = "start"
  /\ session = "none" /\ appClient = FALSE /\ appServer = FALSE
  /\ http = "new" /\ scrapes = 0 /\ graceOver = FALSE
  /\ ctxDone = FALSE /\ signalled = FALSE /\ exit = "running"
  /\ late = [p \in Proc |-> FALSE]

\* Goroutine p goes on from one place to the next.
Move(p, from, to) ==
  /\ Running /\ pc[p] = from
  /\ pc' = [pc EXCEPT ![p] = to]
  /\ UNCHANGED config

\* A step of p that only changes its place.
Step(p, from, to) ==
  Move(p, from, to) /\ UNCHANGED <<task, client, server, ending>>

\* Goroutine p ends the process.
EndProcess(p, from, code) ==
  /\ Running /\ pc[p] = from
  /\ exit' = code
  /\ UNCHANGED <<config, pc, task, client, server, ctxDone, signalled, late>>

-----------------------------------------------------------------------------
(* App.shutdown, called by goroutine p.                                    *)

CallShutdown(p, from) ==
  /\ Move(p, from, "sdClient")
  /\ late' = [late EXCEPT ![p] = appClient]
  /\ UNCHANGED <<task, client, server, ctxDone, signalled, exit>>

\* Mutant: the wrong pointer is tested.
SdReadClientWrong(p) ==
  Step(p, "sdClient", IF appServer THEN "sdClose" ELSE "sdServer")

SdReadClient(p) ==
  Step(p, "sdClient", IF appClient THEN "sdClose" ELSE "sdServer")

\* Mutant: the context is cancelled first.
SdCancelFirst(p) ==
  /\ Move(p, "sdClose", "sdServer")
  /\ session' = "closed" /\ ctxDone' = TRUE
  /\ UNCHANGED <<task, appClient, server, signalled, exit, late>>

\* client.Close: it talks to the server and may never return.
SdCloseClient(p) ==
  /\ Move(p, "sdClose", "sdServer")
  /\ session' = "closed"
  /\ UNCHANGED <<task, appClient, server, ending>>

SdNoServer(p) == ~appServer /\ Step(p, "sdServer", "sdCancel")

\* server.Shutdown closes the listeners at once, which makes ListenAndServe
\* return ErrServerClosed, and then waits for the requests in flight.
SdServer(p) ==
  /\ appServer /\ Move(p, "sdServer", "sdWait")
  /\ http' = "closed"
  /\ UNCHANGED <<task, client, appServer, scrapes, graceOver, ending>>

SdDrained(p) == scrapes = 0 /\ Step(p, "sdWait", "sdCancel")

\* Mutant: server.Shutdown is given a context without a timeout.
SdNoTimeout(p) == scrapes > 0 /\ Step(p, "sdWait", "sdWait")

SdTimeout(p) ==
  /\ scrapes > 0 /\ Move(p, "sdWait", "sdCancel")
  /\ graceOver' = TRUE
  /\ UNCHANGED <<task, client, appServer, http, scrapes, ending>>

CancelContext(p, from, to) ==
  /\ Move(p, from, to)
  /\ ctxDone' = TRUE
  /\ UNCHANGED <<task, client, server, signalled, exit, late>>

SdCancel(p) == CancelContext(p, "sdCancel", "sdExit")

SdExit(p) == EndProcess(p, "sdExit", "1")

Shutdown(p) ==
  \/ SdReadClient(p) \/ SdCloseClient(p) \/ SdNoServer(p) \/ SdServer(p)
  \/ SdDrained(p) \/ SdTimeout(p) \/ SdCancel(p) \/ SdExit(p)

-----------------------------------------------------------------------------
(* main.                                                                   *)

\* log.Fatalf: the configuration cannot be loaded.
LoadFails == EndProcess("main", "load", "1")

\* signal.Notify, and the goroutines of the signals and of the summary.
Loaded ==
  /\ Running /\ pc["main"] = "load"
  /\ pc' = [pc EXCEPT !["main"] = "mappings", !["signal"] = "waiting",
                      !["summary"] = "newTicker"]
  /\ UNCHANGED <<config, task, client, server, ending>>

HasMappings == Step("main", "mappings", "connect")

\* No node mappings, no connection (also because the context was cancelled)
\* or a metric refused.
StartFails ==
  \E from \in {"mappings", "connect", "register"} : CallShutdown("main", from)

Connected ==
  /\ Move("main", "connect", "setClient")
  /\ session' = "open"
  /\ UNCHANGED <<task, appClient, server, ending>>

SetClient ==
  /\ Move("main", "setClient", "register")
  /\ appClient' = TRUE
  /\ UNCHANGED <<task, session, server, ending>>

Registered == Step("main", "register", "goMonitor")

\* The monitor goroutine is started before app.server is assigned.
StartMonitor ==
  /\ Running /\ pc["main"] = "goMonitor"
  /\ pc' = [pc EXCEPT !["main"] = "setServer", !["monitor"] = "monitoring"]
  /\ UNCHANGED <<config, task, client, server, ending>>

SetServer ==
  /\ Move("main", "setServer", "listen")
  /\ appServer' = TRUE
  /\ UNCHANGED <<task, client, http, scrapes, graceOver, ending>>

\* ListenAndServe: the port is bound, unless Shutdown was called already.
Listen ==
  /\ http = "new" /\ Move("main", "listen", "serving")
  /\ http' = "listening"
  /\ UNCHANGED <<task, client, appServer, scrapes, graceOver, ending>>

ServePlaces == {"listen", "serving"}

\* Mutant: every error of ListenAndServe makes main return.
ServeFailsSilently ==
  http # "closed" /\ \E from \in ServePlaces : Step("main", from, "deferClose")

\* The port cannot be bound, or accepting a connection fails for good.
ServeFails ==
  http # "closed" /\ \E from \in ServePlaces : CallShutdown("main", from)

\* ErrServerClosed: main returns and its deferred calls run.
ServerClosed ==
  http = "closed" /\ \E from \in ServePlaces : Step("main", from, "deferClose")

DeferredClose ==
  /\ Move("main", "deferClose", "deferCancel")
  /\ session' = "closed"
  /\ UNCHANGED <<task, appClient, server, ending>>

DeferredCancel == CancelContext("main", "deferCancel", "return")

MainReturns == EndProcess("main", "return", "0")

Main ==
  \/ LoadFails \/ Loaded \/ HasMappings \/ StartFails \/ Connected
  \/ SetClient \/ Registered \/ StartMonitor \/ SetServer \/ Listen
  \/ ServeFails \/ ServerClosed \/ DeferredClose \/ DeferredCancel
  \/ MainReturns

-----------------------------------------------------------------------------
(* The other goroutines and the environment.                               *)

\* Before signal.Notify a signal kills the process.
Killed == EndProcess("main", "load", "killed")

Signal ==
  /\ Running /\ ~signalled /\ pc["main"] # "load"
  /\ signalled' = TRUE
  /\ UNCHANGED <<config, pc, task, client, server, ctxDone, exit, late>>

SignalReceived == signalled /\ CallShutdown("signal", "waiting")

SummaryTicks == config.interval > 0 /\ Step("summary", "newTicker", "ticking")

\* Mutant: a ticker that cannot be made is skipped.
SummaryGivesUp ==
  config.interval <= 0 /\ Step("summary", "newTicker", "returned")

\* time.NewTicker panics for an interval that is not positive.
SummaryPanics ==
  config.interval <= 0 /\ EndProcess("summary", "newTicker", "2")

SummaryEnds == ctxDone /\ Step("summary", "ticking", "returned")

MonitorTask == INSTANCE MonitorTask WITH cancelled <- ctxDone, limits <- config

\* A step of setupMonitor.
Monitoring ==
  /\ Running /\ pc["monitor"] = "monitoring"
  /\ MonitorTask!Run
  /\ UNCHANGED <<pc, client, server, signalled, exit, late>>

MonitorFails == task = "error" /\ CallShutdown("monitor", "monitoring")

MonitorPanics == task = "panic" /\ EndProcess("monitor", "monitoring", "2")

MonitorEnds == task = "nil" /\ Step("monitor", "monitoring", "returned")

ScrapeBegins ==
  /\ Running /\ http = "listening" /\ scrapes < MaxScrapes
  /\ scrapes' = scrapes + 1
  /\ UNCHANGED <<config, pc, task, client, appServer, http, graceOver, ending>>

ScrapeEnds ==
  /\ Running /\ scrapes > 0
  /\ scrapes' = scrapes - 1
  /\ UNCHANGED <<config, pc, task, client, appServer, http, graceOver, ending>>

Exited == ~Running /\ UNCHANGED vars

Next ==
  \/ Main \/ \E p \in Callers : Shutdown(p)
  \/ Killed \/ Signal \/ SignalReceived
  \/ SummaryTicks \/ SummaryPanics \/ SummaryEnds
  \/ Monitoring \/ MonitorFails \/ MonitorPanics \/ MonitorEnds
  \/ ScrapeBegins \/ ScrapeEnds \/ Exited

Spec == Init /\ [][Next]_vars

\* The Go scheduler runs every goroutine that can run, and server.Shutdown
\* returns at the latest after shutdownTimeout.  Nothing is assumed of
\* client.Close, of main, nor of a loop that could go on.
Fairness ==
  /\ WF_vars(SignalReceived) /\ WF_vars(SummaryPanics)
  /\ WF_vars(Monitoring /\ task = "start")
  /\ WF_vars(MonitorFails) /\ WF_vars(MonitorPanics)
  /\ \A p \in Callers :
       /\ WF_vars(SdReadClient(p)) /\ WF_vars(SdNoServer(p) \/ SdServer(p))
       /\ WF_vars(SdDrained(p) \/ SdTimeout(p))
       /\ WF_vars(SdCancel(p)) /\ WF_vars(SdExit(p))

FairSpec == Spec /\ Fairness

-----------------------------------------------------------------------------
(* Properties.                                                             *)

\* Type invariant of the process.
TypeOK ==
  /\ config \in Configs
  /\ pc \in [Proc -> ShutdownSteps \cup MainSteps
                     \cup {"waiting", "unborn", "newTicker", "ticking",
                           "monitoring", "returned"}]
  /\ task \in {"start", "loop", "nil", "error", "panic"}
  /\ session \in {"none", "open", "closed"}
  /\ appClient \in BOOLEAN /\ appServer \in BOOLEAN
  /\ http \in {"new", "listening", "closed"}
  /\ scrapes \in 0 .. MaxScrapes
  /\ graceOver \in BOOLEAN /\ ctxDone \in BOOLEAN /\ signalled \in BOOLEAN
  /\ exit \in {"running", "0", "1", "2", "killed"}
  /\ late \in [Proc -> BOOLEAN]

\* A shutdown that began once app.client was set never ends the process with
\* the OPC UA session still open, whichever goroutine calls it, whatever other
\* shutdowns run and even when main returns first: past the call of
\* client.Close nothing reopens the session.
LateShutdownClosesSession ==
  \A p \in Proc :
    (late[p] /\ pc[p] \in {"sdServer", "sdWait", "sdCancel", "sdExit"})
      => session = "closed"

\* The monitor goroutine ends without an error, and so without shutting down
\* the process, only when the process is on its way out: the exporter never
\* keeps serving gauges that nobody updates.
MonitorEndsOnlyAtExit ==
  pc["monitor"] = "returned" =>
    \/ \E p \in Proc : pc[p] = "sdExit"
    \/ pc["main"] = "return"

\* main returns normally, with exit code 0, only while some other goroutine
\* is inside App.shutdown, on its way to exit with code 1, and the HTTP server
\* no longer accepts connections; the session is closed by then.
ZeroExitMeansShutdown ==
  exit = "0" =>
    /\ \E p \in Proc \ {"main"} : pc[p] \in {"sdWait", "sdCancel", "sdExit"}
    /\ http = "closed" /\ session = "closed"

\* A call of client.Close that never returns.
CloseHangs == \E p \in Callers : [](pc[p] = "sdClose")

\* A signal, and any failure that reaches App.shutdown, ends the process: the
\* only thing that can hold it is a client.Close that never returns, and the
\* scrapes in flight, a second shutdown or a main that is still connecting
\* cannot.
ShutdownEndsProcess ==
  (signalled \/ \E p \in Callers : InShutdown(p)) ~> (~Running \/ CloseHangs)

\* The exporter does not keep running with a part missing: a monitor that
\* failed or panicked, a buffer size that make(chan) refuses and a summary
\* interval that NewTicker refuses, which config.Load lets through, all end
\* the process (unless client.Close hangs).
NoHalfRunningExporter ==
  (\/ task \in {"error", "panic"}
   \/ pc["monitor"] # "unborn" /\ config.bufferSize < 0
   \/ pc["summary"] # "unborn" /\ config.interval <= 0)
    ~> (~Running \/ CloseHangs)

\* "shutdown performs graceful shutdown of the application": the process does
\* not end with scrapes in flight unless they outlived the grace period.
GracefulShutdown ==
  exit \in {"0", "1"} /\ http = "closed" => scrapes = 0 \/ graceOver
=============================================================================
