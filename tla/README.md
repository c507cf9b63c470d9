# TLA+ models of the OPC UA exporter

The exporter connects to an OPC UA server, subscribes to a list of nodes and
mirrors their values in Prometheus gauges that it serves over HTTP. This
directory holds TLA+ modules for the parts of it that keep state or decide
something, TLC configurations that check them on small instances, and TLAPS
proofs of the central results for all instances. `PROJECT.json` maps every
definition to the lines it models and lists runs, mutants, hazards, findings
and theorems.

Paths are relative to `src/`; `main.go` is `cmd/opcua_exporter/main.go`.

## The system

| Component | State | Operations | Hard behaviour | Correct when |
|---|---|---|---|---|
| Subscription loop (`main.go:407-492`) | message channel, timeout count, gauges, counters | select over message, read timer and context; handle; unsubscribe | three-way select, drop-newest channel, handlers that fail or panic one by one | gauges mirror the nodes, never go back, lose nothing but drops |
| Process (`main.go:95-115`, `318-396`) | client, HTTP server, context, four goroutines | start in order, `App.shutdown` from any goroutine, deferred calls | unsynchronised pointers, concurrent shutdowns, `os.Exit` against the return of `main`, panics of single goroutines, a `Close` that hangs | a shutdown closes the session, waits for scrapes and ends the process, and no part of the process is missing while the rest runs |
| Event summary (`internal/handlers/summary.go`) | counts per channel and in total, a mutex | `Inc`, `Reset`, `logSummary`, the ticker goroutine | critical sections of two goroutines, a ticker that drops ticks | summaries add up, no event is reported twice |
| Node mappings (`internal/config/config.go`, flags in `main.go`) | the list of mappings | `Load`, `AddNodeMapping`, time node | four sources with precedence, validation of only some | what is served is what the precedence promises |
| Metrics registry (`internal/metrics/registry.go`) | registered names, handler map | `CreateFromNodeMappings` | failure half way | one writer per gauge, no gauge without a writer |
| Scalar settings (`internal/config/config.go`, `main.go:194-284`) | the configuration | read file, unmarshal, two rounds of defaults, flags | empty and zero values, errors | a value comes from its best source |
| Connection manager (`internal/connection/manager.go`) | clients, backoff, context | `Connect`, `Close` | six steps that fail, retries, limit, cancellation | no leak, no late attempt, no endless retry |
| Security (`internal/security/auth.go`) | none | two validations, endpoint selection, client options | a server's arbitrary list of endpoints | the session is as secure as configured |
| Certificate files (`internal/security/certificates.go`) | the file system | check, load | files change between the two | part of the above |
| Handlers (`internal/handlers/opc*.go`) | one gauge each | `Handle` | variants of every type, bit positions, signs, rounding, a null that panics | a gauge shows its last convertible value |

How they interact: `main` loads the settings (Config) and the mappings
(NodeMappings), starts the event summary, connects (ConnectionManager using
Security), registers the mappings (Startup), then runs the loop (Monitor) in a
goroutine and the HTTP server in its own. The loop calls the handlers
(Handlers) and `EventSummaryCounter.Inc`; the process (AppLifecycle) ends by
`App.shutdown`, which cancels the context that the loop, the summary and
`Connect` look at. How the modules build on one another: AppLifecycle runs
MonitorTask as the body of its monitor goroutine, and Monitor implements
MonitorTask, so what the process relies on of the loop is proved of the loop.
ConnectOutcome is what `main` relies on of `Connect`, EventReport what the log
promises, and both are implemented likewise. Monitor's `OneRecordPerMetric` on
its constant `HandlerMap` is what Startup establishes (`HandlerMapFitsMonitor`
proves it for all sources), `Accepts` and `Panics` stand for what Handlers defines, and the `Cancel`
actions of Monitor, EventSummary and ConnectionManager stand for `app.cancel()`
of AppLifecycle.

## The modules

There are four abstract specifications, each the view that one reader has of a
component:

- **Mirror**, for whoever scrapes: nodes change, and a metric moves on to some
  value its node has had, never back. No channel, no timer, no goroutine.
- **MonitorTask**, for the process: the loop has not started, runs, or ended
  with nil, with an error or with a panic, and under which conditions.
- **EventReport**, for whoever reads the log: a report only grows, and by no
  more than the events that were not reported yet.
- **ConnectOutcome**, for `main`: `Connect` gives one answer, an error with no
  session left or a session with the configured mode and token, which stays
  open until `Close`.

**Monitor** is the subscription loop. Node values are numbered; a gauge is the
number it shows. `pc` is the place of the goroutine: one action per statement
that a scrape or the library could observe in between (`CountMessage`,
`CountEvent`, one `HandleRecord` per handler, or `HandlePanics`). `Send` is the library's
non-blocking send, with the drop of the newest message and the hand-over of an
unbuffered channel. `NextIteration` is the head of the loop: the uptime gauge
is set and a new read timer made. `args` are the command line's numbers, which
no code bounds: `SubscribePanics` is `make(chan)` with a negative size.
`Cleanup` may or may not end the subscription, because `Unsubscribe` gets the
context of the loop and its error is ignored. `HandlerMap` is keyed by the configured
spelling and looked up by the printed node id, as in the code.

**MonitorLoop** is the same loop again, translated from the same lines for what
has to happen eventually. Monitor numbers values, messages and ticks, so each
of its behaviours comes to an end, and a loop that loses a message or never
looks at its context could hide behind that end. Here nothing is numbered: the
library may send for ever, the read timer may fire for ever, and only one
marked update is followed to its gauge. The two are not related by a
refinement: where an update is, is a matter of Monitor's history and not of its
state.

**AppLifecycle** has one place `pc[p]` per goroutine: main, signal, summary and
monitor. `App.shutdown` is a sequence of steps that any of its three callers may
be in. Reads of `app.client` and `app.server` see whatever was written at that
moment, which gives every outcome of the data race on those two pointers. The
body of the monitor goroutine is `MonitorTask!Run` with the context and the
configuration of the process; `config` carries the three numbers that no code
bounds from below. `exit` freezes the system, whoever sets it, and a panic of
any goroutine sets it.

**EventSummary** has the two goroutines and the mutex. `events` and `logged`
are history variables. Calls of `Inc` never end; beyond `MaxEvents` they take
the mutex and release it without being counted (`IncBeyond`). The panic for an interval that is not positive is
AppLifecycle's `SummaryPanics`, since it takes the process with it.

**NodeMappings** has the pure functions on lists of mappings. **Startup** puts
them in the order of `main` and adds the registry; every early end is a state
of `pc` (`fatal`, `noMappings`, `refused`, `badBit`).

**Config** follows one setting of each kind (number, number with a default for
zero, text, required text, duration) from file, environment and flags through
`Load` and the overrides. A value is its origin, or `zero`, `empty`,
`malformed`. `Load` can fail at three places: at the file, at a value that does
not convert, and at a node mapping that is not valid (which mappings are is
Startup's subject).

**Security** is a module of operators only. The policy of an endpoint is its URI,
any URI, as a sequence of the pieces that policies' names are made of, and
`PolicyMatch` is the code's test for a part of it. **ConnectionManager** is `Connect`
with `backoff.Retry`: the steps of an attempt, then `Retryable`, the stops and
the wait. Time is counted in tenths of the initial interval, so the jitter of
10% is exact. Both paths, with and without discovery, make their options from
Security's operators and share the steps after that. `MakeOptions`
records who the user is and which certificates were loaded, from the files as
they are then, and the session has what the options have. `FilesChange` lets the
certificate files change at any moment between two steps, though not between the two
loads of one `CreateSecureClientOptions`.
`FallbackMatches` of Security cannot contribute to a session: the code takes
the fallback only for an anonymous session without security, which never goes
through discovery. It is kept because `SelectEndpoint` has it.

**Handlers** offers a sequence of variants to a value handler and to bit
handlers of one node. Encodings are real bytes, little-endian and two's
complement. `Rounded` is the conversion to `float64`, to the nearest and halfway
to the even, for a significand of `Precision` bits; a floating-point value is a whole number
here, so no exponent is below 0. `IsVariant` says which variants there are, with
integers of 8 to 64 bits. Status codes, byte strings and arrays of booleans and
numbers have an encoding, which the bit handlers take bits from, but are no
numbers for the value handler: they are `Encoded`. A null variant has the value
nil, for which `binary.Write` panics while it makes its error (`WritePanics`).

**Powers** has the powers of two that the backoff and the handlers share.

The MC modules instantiate these for TLC, the Proofs modules hold the theorems,
and **Induction** the lemmas on induction and recursion that they share. Definitions marked "Mutant" are faulty versions that a plausible bug
would make of the definition next to them; each property is checked to fail
for one of them.

## Runs

| Run | Question | Answer |
|---|---|---|
| MCMonitor | Do gauges, channel and counters stay consistent, does the loop give up only after full timeouts, and does it implement Mirror and MonitorTask? | yes |
| MCMonitorLoop | Is what is delivered shown, does a cancellation end the loop, does silence, under traffic and timeouts without end? | yes |
| MCMonitorAlias | Is every configured name updated? | no, finding 1 |
| MCAppLifecycle | Do shutdowns close the session and end the process, in every interleaving, and does no exporter go on without one of its goroutines? | yes |
| MCAppLifecycleGraceful | Are scrapes in flight waited for? | no, finding 2 |
| MCEventSummary | Do summaries add up without reporting an event twice, is EventReport implemented, does each tick become a summary under endless Incs? | yes |
| MCStartup | Are precedence and uniqueness kept, is the handler map complete, is only a node flag unvalidated? | yes |
| MCConnection | Do waits and attempts keep to the backoff and the limit, and does `Connect` return soon after the limit? | yes |
| MCConnectionSecurity | Do attempts clean up, are sessions as configured, does a cancellation end `Connect`, is ConnectOutcome implemented? | yes |
| MCConfig | Does the best source win, and are the security settings filled? | yes |
| MCHandlers | Do gauges show the last number, rounded as little as possible, and the right bit? | yes |
| MCHandlersNull | Does a handler return for every variant? | no, finding 3 |

### Bounds, and why they are enough

- *Monitor*: a buffer of 2 overflows with 3 messages, drains and refills; an
  unbuffered channel hands over or drops; two nodes, one with two metrics, are
  what "metrics of one node" and "another node" need. Values are convertible, a
  null that one handler panics on, or nil (in MCMonitorAlias also not
  convertible). Two versions of a value are an older and a newer one. A limit of
  two timeouts of one tick is interrupted by messages, and two ticks of the
  clock reach it. `MaxVersion`, `MaxMessages` and `MaxTime` bound the
  environment, never the loop.
- *MonitorLoop* has no bound but the capacity of the channel. The numbers of
  the command line are each on both sides of their edge: a buffer of -1, 0 and
  2, a read timeout that fires at once or not, a limit of two timeouts or none,
  the default. `DeliveredIsShown` and `CancelEndsLoop` speak of the loops without
  a limit, in which nothing else ends the loop.
- *AppLifecycle*: all four goroutines; one scrape, since `server.Shutdown` only
  asks whether there is one; each of the unbounded numbers at its edge, one at
  a time (a buffer size of 0 and of -1, an interval of 1 and of 0, a limit of 1
  and none).
- *EventSummary*: two channels, up to two counted events each, calls of `Inc`
  without end and three ticks: events before, during and after two summaries, a
  tick that is dropped, and a mutex that is taken back again and again. The run
  checks liveness, so it uses no symmetry.
- *Startup*: lists of up to two from each source, with clashing names across
  sources, gaps, each kind of `extractBit` and a malformed flag; two mappings
  are what an override or a clash takes.
- *Connection*: the timed run (MCConnection) uses intervals 10 (with jitter 1)
  up to the maximum of 30, reached at the third wait, calls that are instant or
  take 30, and a limit of 90 that stops the loop before the bound on attempts
  does. The security run crosses fourteen configurations with all lists of up
  to two of eight endpoints, one with a policy that no standard names but whose
  URI contains `Basic256`: selection compares endpoints one by one and takes
  the first, so two show an earlier one that must be skipped. It has no limit,
  so that only the cancellation can end its retries.
- *Config*: one setting of each kind, since no rule relates two settings.
- *Handlers*: 8- and 16-bit types have one byte and more than one, with and
  without sign; TLC's integers have 32 bits, and the theorems cover the wider types.
  `Precision` is 12, so
  16-bit integers are to this float what 64-bit integers are to a `float64`
  with its 53 bits, and 8-bit ones what those up to 32 bits are. The values are
  each single bit, patterns, the ends of the ranges, and integers that are
  rounded up, down and halfway. The node has no bit handler, so that a null
  does no harm, or twelve. The runs do not check for deadlock: after the panic
  the process is gone.

### Fairness

- *MonitorLoop*: Go's `select` picks uniformly among the ready cases, so a case
  that is ready in infinitely many rounds is taken: strong fairness of
  `Receive`, `ContextDone` and `ReadTimesOut`. Statements of the goroutine and
  the timer of a select that goes on waiting are weakly fair. Nothing is assumed
  of server or cancellation; `Subscribe` is a call of the network and may never
  return, so `CancelEndsLoop` and `SilenceEndsLoop` speak of a subscribed loop.
  Monitor itself is checked for safety and has no fairness.
- *AppLifecycle*: the steps of `App.shutdown` are weakly fair, except
  `client.Close`, which talks to the server and may hang: the liveness
  properties name that as the one way out. `server.Shutdown` returns at the
  latest after its timeout, so "drained or timed out" is one fair step. A
  goroutine whose panic or failure is due gets to it. `main`'s own steps are not
  fair: a shutdown must not depend on them.
- *EventSummary*: a Go mutex in starvation mode hands itself to the longest
  waiter, hence strong fairness of the two locks of the summary goroutine; with
  weak fairness the endless `Inc`s of the run starve it. A call of `Inc` that
  has begun ends; nothing says that there is one.
- *ConnectionManager*: weak fairness of an attempt's steps rests on the
  timeouts that `Connect` passes to the session's client and on the library's
  defaults for the discovery client; that of `Retry` on timers.

## What is proved

Every safety invariant, action property and refinement that a passing run checks
is a theorem of one of the seven Proofs modules, for all values of the constants
that satisfy the named assumptions. The assumptions:
`NodesAssumption`, `NumbersAssumption` (types, the three numbers of the command
line being any integers; a handler does not both convert and panic) and `OneRecordPerMetric` (a metric has one record) for Monitor;
`ConnectionAssumption` (types, with any URI as a policy, and a positive initial
interval that is at most the maximum) for ConnectionManager; `ConfigAssumption` (each setting has a kind and
one of the three groups); `ConfigsAssumption` (three integers) and
`MaxScrapesAssumption` for AppLifecycle; `BoundsAssumption` and
`ChannelsAssumption` for EventSummary (bounds that are natural numbers, finitely
many channels, since a total is a sum over them); `SourcesAssumption` for Startup
(the sources are lists of mappings, and a flag's bit is an integer, since
`parseNodeFlag` reads one); `HandlersAssumption` for Handlers (the values are
variants, bits are integers, and a `float64` is large enough for every number).

- *Monitor*. `TypeOK` is inductive, and `CountersAgree` is with it.
  `VersionsOrdered` is inductive given those two: it speaks of all places a
  version can be (gauge, hand, channel, server), because a gauge alone says
  nothing about what is about to be written to it. With it each step refines
  `Mirror`: the only steps that change `gauge` are `HandleRecord`, and there the
  version in hand is at least the gauge's and at most the server's
  (`StepSimulates`). `MonitorTask` needs no more than `ResultInv`:
  the result is set exactly where the goroutine leaves the loop (`TaskStep`).
  `NothingLost` is inductive given `VersionsOrdered`: a
  convertible value is shown, in the channel or in hand before its handler,
  and each step moves it at most one place on. `MetricsOfNodeAgree`
  follows from `AgreeInv`, which says that while a message is handled the
  records before `idx` show what it carries, if they convert it, and all the
  others still agree; that a metric has one record (`RecordUnique`) makes
  "before" a property of the metric. `GivesUpAfterTimeouts` needs
  `TimeoutInv`: the timer starts with `uptime`, so `timeoutCount * ReadTimeout`
  never exceeds it.
- *AppLifecycle*. The invariant ties places to deeds. `ClientInv`: the pointer is
  set only past the connection, so nothing reopens a session that a late
  shutdown closed. `MonitorInv`: before it is started the monitor goroutine is
  nowhere, so its start undoes no shutdown. `CancelInv`: the context is done
  only when a goroutine is one step from the end of the process. `ServerInv`:
  the server is closed by a goroutine that never leaves `App.shutdown`.
- *EventSummary*. `MutexInv` says who holds the mutex where. `ReportInv` is
  `NeverOverReports` for every place of the goroutine: between `logSummary` and
  the clearing of `Counts` the counts are part of what is logged, elsewhere they
  come on top of it. `SumInv` compares `Total` with the sum of the counts at
  every place, also inside the critical sections that change one after the
  other, and follows the sum into the line that is logged. `EventReport` is implemented since `LogCounts` is the only step
  that changes `logged`, and there `ReportInv` bounds it by the events
  (`StepSimulates`).
- *Startup*. `RegistryInv`: the records have distinct metrics and are
  registered; `Register` adds a name that is not taken. With the laws of `Keep`
  it gives `HandlerMapFitsMonitor`. `AcceptedInv` says where each
  mapping in the lists may come from, which leaves a flag as the only way past
  `Validate`. `PrecedenceInv` gives the result of the first k flags without
  the order in which they were applied (`Outcome`): the last flag of a metric
  counts, and hides the sourced mappings of that metric. One more flag
  changes it as `AddNodeMapping` does (`ParsedFlag`), as keeping twice is
  keeping what is in both sets (`KeepTwice`).
- *ConnectionManager*. `IInv` is the type invariant with which client is open
  where (`ClientsInv`), that a wait begins uncancelled (`CancelInv`: so the one
  late attempt is followed by a stop), that a wait ends within the limit
  (`LimitInv`) and that a never valid configuration is at its first attempt
  (`InvalidInv`). `OvershootInv` adds how far past the limit each place of an
  attempt may be: an attempt starts within it and makes at most three calls, so
  the place bounds the time, for any bound on the duration of one call.
  `SecuredInv` is separate: the selected endpoint suits the configuration
  (`SelectedSuits`, from the definition of the selection), the options made for
  it have the token and the certificates that the configuration asks for
  (`OptionsFit`), whatever the files were at the validation, and the
  configuration was valid before it. ConnectOutcome follows from the two
  invariants (`OutcomeStep`): the session is set in one step only, and there it
  has the mode and token that were asked for. The first match exists by
  `LeastElement`. `BackoffKept` follows from `BackoffInv`, which knows the
  interval at every place: doubling and capping at each wait is doubling as
  often as there were waits and capping once (`DoubledOnce`).

- *Config*. `SettingInv` follows one setting from `Unmarshal` on: once its group's
  flags were applied a flag that was set is its value; else the value is the
  best source's, converted. It is inductive because no later step touches
  another group and the defaults touch other kinds only, but for the zeros of
  the port and the buffer size, which `WithDefault` accounts for.

- *Handlers*. `ShowsLastBit` is about the number, `extractBit` about a byte and a
  shift: `BitOfByte` says that bit b of a number is bit b mod 8 of its byte b div
  8, and `BitOfLow` that cutting a number off at its width, as two's complement
  does, leaves the bits below alone. `ShowsLastNumber` needs that `Rounded` gives
  one of the two multiples of `Ulp` around the number and never the farther one
  (`RoundedIsNeighbour`), and that no `float64` lies between those two
  (`NoneBetween`): one with a smaller exponent is smaller than the number, one
  with a larger exponent is a multiple as well.

The prover cannot apply induction theorems that take an operator. Module
Induction states them with a set in its place, the set of what a statement holds
for: `LeastElement` comes from the well-foundedness of the naturals, and from it
induction over naturals, sequences and the subsets of a finite set, and that a
recursive function exists (`RecursionOnNat`, `RecursionOnSubsets`). From there
`Pow2`, the loop of `Keep` and the sum over the channels are what their
definitions say.

Only model-checked: the eight liveness properties (`DeliveredIsShown`,
`CancelEndsLoop`, `SilenceEndsLoop`, `ShutdownEndsProcess`,
`NoHalfRunningExporter`, `TickIsAnswered`, `LimitReturns`, `CancelReturns`),
which rest on fairness and are out of the prover's reach. The findings are
counterexamples and need no proof.

## Findings

Each is a run with a counterexample, see `PROJECT.json` for the quotes.

1. A node name in another spelling than the library prints (`ns=0;i=2258`) is
   subscribed and counted, and never updates its metric (`main.go:480`).
2. `ListenAndServe` returns as soon as `Shutdown` begins, so `main` returns and
   the process ends while scrapes are being answered (`main.go:393`).
3. A null variant makes the handler of a bit panic, and the process with it,
   although a value that is no integer is meant to be an error
   (`opcua_bitvector_handler.go:73`).

Other disagreements between code and docs, or surprises, met while modelling.
They have no run of their own; the modules model what the code does, and where
a property states the exact extent it is named.

- An event counted between `logSummary` and `Reset` is never logged
  (`summary.go:56`). `NeverOverReports` is therefore an inequality.
- `extractBit: 3.0` passes `Validate` and is refused by the registry
  (`registry.go:52`); the place `badBit` of Startup.
- The last attempt to connect may end after the retry time (`manager.go:79`);
  `OvershootBounded` says by how much.
- Policy `Basic256` accepts an endpoint whose policy URI contains that name
  anywhere, such as `Basic256Sha256`, even when one with `Basic256` comes later
  (`auth.go:193`); `SecuredAsConfigured` says so.
- The README's user name example on a signed channel is refused, as it names
  no certificate (`auth.go:132`).
- `OPCUA_EXPORTER_PORT=0` (or a buffer size of 0) holds without a file and is
  replaced by the default with one (`config.go:204`); `BestSourceWins` has the
  exception.
- `OPCUA_EXPORTER_CONFIG` is not read (`main.go:162`).
- The check for an expired certificate compares `NotAfter` with `NotBefore`, not
  with the clock (`certificates.go:76`); Security's "good" files include
  expired ones.
- Certificate authentication without files passes the validation
  (`certificates.go:148`) and is then retried until the limit;
  `SecuredAsConfigured` says that it never reaches a session.
- A negative buffer size and a summary interval that is not positive pass every
  check and end the process with a panic; `NoHalfRunningExporter` says that they
  do end it.
- A file with a list of mappings at its top level ends the program
  (`config.go:171`: viper reads maps only), although the repository's README
  shows such a file as one for `--config` (`README.md:215-225`, `277-289`);
  `ReadFails` of Config.
- Bits are taken out of floating-point numbers, status codes, byte strings and
  arrays (`opcua_bitvector_handler.go:73`).
- `cleanup` unsubscribes with the context of the loop, which is cancelled when
  the loop ends by it (`main.go:462`); `Cleanup` of Monitor leaves it open
  whether the subscription stays.

## Not modelled

- `internal/errors` (wrappers without state), logging, `getClient` and
  `LoadCertificateFromPEM` (not called), `logSecurityIssues`.
- `e2e/`, `Makefile`, `Dockerfile`, `.github/`: not part of the program.
- The dates and key usages of X.509 certificates: the files are missing,
  unusable or good.
- viper's parsing of numbers, booleans and durations beyond whether it succeeds.
- The client library's own reconnection: the exporter does nothing about it but
  log (`handleError`), and what the library then sends are the same messages.
- Fractions, infinities and NaN: a floating-point value only passes through, and
  the conversions to one start from integers.

## What could come next

The plan of the first version is carried out: the core modules, the composition
of the monitor with the process, the abstract specifications and their
refinements, and the proofs that the prover can reach. Left are

1. the start as one refinement of "starts or ends with an error", which would
   join Config, Startup and ConnectOutcome in AppLifecycle's `load`, `connect`
   and `register`, now free choices there;
2. X.509 dates, with the clock, in Security;
3. the liveness properties, should the prover learn `ENABLED`.
