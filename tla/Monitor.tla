------------------------------ MODULE Monitor ------------------------------
(***************************************************************************)
(* The subscription loop of the exporter: setupMonitor and handleMessage   *)
(* of cmd/opcua_exporter/main.go.                                          *)
(*                                                                         *)
(* The OPC UA client library publishes the data changes of the subscribed  *)
(* nodes into a buffered Go channel; when the channel is full it drops the *)
(* NEWEST message.  One goroutine selects between the channel, a read      *)
(* timer and the cancellation of the context, counts every value it        *)
(* receives and hands it to the handlers of the node, each of which sets   *)
(* one Prometheus gauge.  HTTP scrapes read the gauges between any two     *)
(* steps.  Module MonitorLoop looks at the same loop over any length of    *)
(* time, for its progress.                                                 *)
(*                                                                         *)
(* Data abstraction.  The values a node takes are numbered: version k of a *)
(* node is its k-th value.  A gauge is represented by the version of the   *)
(* node whose conversion it shows (0: never set).  Which values a handler  *)
(* can convert is the constant Accepts, on which it panics the constant    *)
(* Panics; module Handlers defines both.                                   *)
(***************************************************************************)
EXTENDS Integers, Sequences

CONSTANTS
  Names,        \* the keys of handlerMap: node names as the user spelled them
  Nodes,        \* the node ids of the server, as NodeID.String() prints them
  NodeID,       \* NodeID[n]: the node id that the configured name n parses to
  Metrics,      \* the metrics, one gauge each
  HandlerMap,   \* HandlerMap[n]: the metrics fed by name n, in order
  Values,       \* what a data change can carry, the nil variant included
  NilValue,     \* the member of Values without a value (msg.Value == nil)
  Accepts,      \* Accepts[m]: the values that the handler of m converts
  Panics,       \* Panics[m]: the values that the handler of m panics on
  Arguments,    \* what setupMonitor may be called with; nothing bounds it
  MaxVersion,   \* bound: values a node takes in a behaviour
  MaxMessages,  \* bound: messages the library publishes in a behaviour
  MaxTime       \* bound: clock ticks in a behaviour

\* The metrics of the handlers that a message of node id nd reaches.  The map
\* is keyed by the configured spelling and looked up by the printed node id.
Handlers(nd) == IF nd \in Names THEN HandlerMap[nd] ELSE <<>>
MetricsOf(nd) == {Handlers(nd)[k] : k \in DOMAIN Handlers(nd)}

ASSUME NodesAssumption ==
  /\ NodeID \in [Names -> Nodes]
  /\ HandlerMap \in [Names -> Seq(Metrics)]
  /\ NilValue \in Values
  /\ Accepts \in [Metrics -> SUBSET (Values \ {NilValue})]
  /\ Panics \in [Metrics -> SUBSET Values]
  /\ \A m \in Metrics : Accepts[m] \cap Panics[m] = {}

\* prometheus.Register refuses a second gauge of the same name, so a metric
\* has one record in the whole map.
ASSUME OneRecordPerMetric ==
  \A n1, n2 \in Names :
    \A i \in DOMAIN HandlerMap[n1], j \in DOMAIN HandlerMap[n2] :
      HandlerMap[n1][i] = HandlerMap[n2][j] => n1 = n2 /\ i = j

ASSUME NumbersAssumption ==
  /\ Arguments \subseteq
       [bufferSize : Int, readTimeout : Int, maxTimeouts : Int]
  /\ MaxVersion \in Nat
  /\ MaxMessages \in Nat
  /\ MaxTime \in Nat

VARIABLES
  \* the server and the client library
  latest,       \* latest[nd]: version of the node's current value
  value,        \* value[nd]: its current value
  sent,         \* sent[n]: last version published for the monitored item of n
  subscribed,   \* ChanSubscribe succeeded and Unsubscribe was not called
  ch,           \* the channel of data change messages
  delivered,    \* sub.Delivered()
  dropped,      \* sub.Dropped()
  \* the goroutine of setupMonitor
  pc,           \* where it is
  msg,          \* the message in hand
  idx,          \* index of the next handler record for it
  timeoutCount, \* read timeouts so far
  result,       \* what setupMonitor returned
  \* the metrics it maintains
  gauge,        \* gauge[m]: version whose conversion the gauge of m shows
  messageCount, \* the message_count metric
  eventCount,   \* calls of eventSummaryCounter.Inc
  uptime,       \* the uptime metric; the read timer is created with it
  \* the environment
  args,         \* the arguments setupMonitor was called with
  now,          \* the clock
  ctxDone       \* the context is cancelled

serverVars == <<latest, value, sent>>
chanVars   == <<ch, delivered, dropped>>
hand       == <<msg, idx>>
outcome    == <<timeoutCount, result>>
loopVars   == <<pc, hand, outcome, subscribed, uptime>>
gaugeVars  == <<gauge, messageCount, eventCount>>
envVars    == <<args, now, ctxDone>>
outside    == <<serverVars, chanVars, envVars>>
vars == <<outside, loopVars, gaugeVars>>

BufferSize == args.bufferSize    \* --buffer-size: capacity of the channel
ReadTimeout == args.readTimeout  \* --read-timeout, in clock ticks
MaxTimeouts == args.maxTimeouts  \* --max-timeouts, 0 to disable

NoMessage == [kind |-> "none"]
ErrorMessage == [kind |-> "error"]   \* msg.Error != nil: unknown handle
DataMessages == [kind : {"data"}, node : Nodes, ver : Nat, val : Values]
Messages == DataMessages \cup {ErrorMessage}

DataMessage(nd) ==
  [kind |-> "data", node |-> nd, ver |-> latest[nd], val |-> value[nd]]

Handling == pc \in {"count", "summary", "handle"}

Init ==
  /\ args \in Arguments
  /\ latest = [nd \in Nodes |-> 1]
  /\ value \in [Nodes -> Values]
  /\ sent = [n \in Names |-> 0]
  /\ subscribed = FALSE
  /\ ch = <<>> /\ delivered = 0 /\ dropped = 0
  /\ pc = "subscribe" /\ msg = NoMessage /\ idx = 1
  /\ timeoutCount = 0 /\ result = "none"
  /\ gauge = [m \in Metrics |-> 0]
  /\ messageCount = 0 /\ eventCount = 0
  /\ uptime = 0 /\ now = 0 /\ ctxDone = FALSE

-----------------------------------------------------------------------------
(* The loop of setupMonitor.                                               *)

\* Mutant: the read timer is created once, outside of the loop.
NextIterationOneTimer == pc' = "select" /\ UNCHANGED uptime

\* The head of the for loop: set the uptime gauge, create the read timer and
\* block in the select.
NextIteration == pc' = "select" /\ uptime' = now

\* The function returns: the deferred cleanup is next.
Leave(how) == pc' = "cleanup" /\ result' = how /\ UNCHANGED uptime

\* make(chan) panics for a negative size, before there is anything to clean up.
SubscribePanics ==
  /\ pc = "subscribe" /\ BufferSize < 0
  /\ pc' = "done" /\ result' = "panic"
  /\ UNCHANGED <<outside, gaugeVars, hand, timeoutCount, subscribed, uptime>>

\* ChanSubscribe creates the subscription and all its items, or fails; before
\* the channel is made NewNodeMonitor may fail as well.
Subscribe ==
  /\ pc = "subscribe" /\ BufferSize >= 0
  /\ subscribed' = TRUE
  /\ NextIteration
  /\ UNCHANGED <<outside, gaugeVars, hand, outcome>>

SubscribeFails ==
  /\ pc = "subscribe"
  /\ pc' = "done" /\ result' = "subscribeError"
  /\ UNCHANGED <<outside, gaugeVars, hand, timeoutCount, subscribed, uptime>>

\* An error or a nil value is only logged and the loop goes round.
Skip(x) == x.kind = "data" => x.val = NilValue

\* Mutant: the iteration over the handlers is not started afresh.
SameRecord == UNCHANGED idx

FirstRecord == idx' = 1

\* What the loop does with the message x it receives.
Take(x) ==
  /\ \/ Skip(x) /\ NextIteration /\ UNCHANGED hand
     \/ /\ ~Skip(x)
        /\ pc' = "count" /\ msg' = x /\ FirstRecord
        /\ UNCHANGED uptime
  /\ UNCHANGED <<outcome, subscribed>>

\* Mutant: the newest message first.
ReceiveNewest ==
  /\ pc = "select" /\ ch # <<>>
  /\ Take(ch[Len(ch)])
  /\ ch' = SubSeq(ch, 1, Len(ch) - 1)
  /\ UNCHANGED <<serverVars, delivered, dropped, gaugeVars, envVars>>

Receive ==
  /\ pc = "select" /\ ch # <<>>
  /\ Take(Head(ch))
  /\ ch' = Tail(ch)
  /\ UNCHANGED <<serverVars, delivered, dropped, gaugeVars, envVars>>

\* messageCounter.Inc()
CountMessage ==
  /\ pc = "count" /\ pc' = "summary"
  /\ messageCount' = messageCount + 1
  /\ UNCHANGED <<outside, hand, outcome, subscribed, uptime, gauge, eventCount>>

\* Mutant: the event summary is not told of the message.
CountNoEvent ==
  /\ pc = "summary" /\ pc' = "handle"
  /\ UNCHANGED <<outside, hand, outcome, subscribed, uptime, gaugeVars>>

\* eventSummaryCounter.Inc(nodeID)
CountEvent ==
  /\ pc = "summary" /\ pc' = "handle"
  /\ eventCount' = eventCount + 1
  /\ UNCHANGED <<outside, hand, outcome, subscribed, uptime, gauge,
                 messageCount>>

\* The metric of the handler record that is next, if there is one.
HasRecord == idx \in DOMAIN Handlers(msg.node)
Record == Handlers(msg.node)[idx]

\* Mutant: a handler that fails clears its gauge.
ShownOrCleared(m) == IF msg.val \in Accepts[m] THEN msg.ver ELSE 0

\* A handler that cannot convert the value returns an error, which is logged;
\* the gauge keeps its value.
Shown(m) == IF msg.val \in Accepts[m] THEN msg.ver ELSE gauge[m]

\* Mutant: a handler that fails is tried again.
NextRecordIfShown ==
  idx' = IF msg.val \in Accepts[Record] THEN idx + 1 ELSE idx

NextRecord == idx' = idx + 1

\* One round of the loop of handleMessage.
HandleRecord ==
  /\ pc = "handle" /\ HasRecord /\ msg.val \notin Panics[Record]
  /\ gauge' = [gauge EXCEPT ![Record] = Shown(Record)]
  /\ NextRecord
  /\ UNCHANGED <<outside, pc, msg, outcome, subscribed, uptime, messageCount,
                 eventCount>>

\* A handler panics: the deferred cleanup runs, then the process is gone.
HandlePanics ==
  /\ pc = "handle" /\ HasRecord /\ msg.val \in Panics[Record]
  /\ Leave("panic")
  /\ UNCHANGED <<outside, hand, timeoutCount, subscribed, gaugeVars>>

\* Mutant: handleMessage may stop after the first record.
HandledOne == idx > 1 \/ ~HasRecord

HandledAll == ~HasRecord

HandleDone ==
  /\ pc = "handle" /\ HandledAll
  /\ NextIteration
  /\ UNCHANGED <<outside, gaugeVars, hand, outcome, subscribed>>

\* Mutant: the limit applies only when it is 0.
LimitInverted(n) == MaxTimeouts = 0 /\ n >= MaxTimeouts

LimitReached(n) == MaxTimeouts > 0 /\ n >= MaxTimeouts

\* The read timer fires.  The select chooses at random among the cases that
\* are ready, so this may happen with messages in the channel.
ReadTimesOut ==
  /\ pc = "select" /\ now - uptime >= ReadTimeout
  /\ timeoutCount' = timeoutCount + 1
  /\ \/ LimitReached(timeoutCount + 1) /\ Leave("maxTimeouts")
     \/ ~LimitReached(timeoutCount + 1) /\ NextIteration /\ UNCHANGED result
  /\ UNCHANGED <<outside, gaugeVars, hand, subscribed>>

\* <-ctx.Done()
ContextDone ==
  /\ pc = "select" /\ ctxDone
  /\ Leave("nil")
  /\ UNCHANGED <<outside, gaugeVars, hand, timeoutCount, subscribed>>

\* The deferred cleanup: log the statistics and unsubscribe.  The request is
\* sent with the context of the loop, which may be cancelled by now, over a
\* connection that may be lost, and its error is ignored: the subscription may
\* well stay, and the library keep filling the channel.
Cleanup ==
  /\ pc = "cleanup" /\ pc' = "done"
  /\ subscribed' \in BOOLEAN
  /\ UNCHANGED <<outside, gaugeVars, hand, outcome, uptime>>

-----------------------------------------------------------------------------
(* The client library, as the exporter relies on it, and the environment.  *)

\* The library's non-blocking send.  A loop that is parked in its select with
\* an empty channel gets the message in hand: the only way through an
\* unbuffered channel.
Send(x) ==
  \/ /\ Len(ch) < BufferSize
     /\ ch' = Append(ch, x) /\ delivered' = delivered + 1
     /\ UNCHANGED <<dropped, loopVars>>
  \/ /\ ch = <<>> /\ pc = "select"
     /\ Take(x)
     /\ delivered' = delivered + 1
     /\ UNCHANGED <<ch, dropped>>
  \/ /\ Len(ch) >= BufferSize
     /\ dropped' = dropped + 1
     /\ UNCHANGED <<ch, delivered, loopVars>>

CanPublish == subscribed /\ delivered + dropped < MaxMessages

\* The server reports the current value of the item of n; values between two
\* reports are not seen by the client.
Publish(n) ==
  /\ CanPublish
  /\ sent[n] < latest[NodeID[n]]
  /\ sent' = [sent EXCEPT ![n] = latest[NodeID[n]]]
  /\ Send(DataMessage(NodeID[n]))
  /\ UNCHANGED <<latest, value, gaugeVars, envVars>>

PublishError ==
  /\ CanPublish
  /\ Send(ErrorMessage)
  /\ UNCHANGED <<serverVars, gaugeVars, envVars>>

\* The node changes its value on the server.
Change(nd) ==
  /\ latest[nd] < MaxVersion
  /\ latest' = [latest EXCEPT ![nd] = @ + 1]
  /\ \E v \in Values : value' = [value EXCEPT ![nd] = v]
  /\ UNCHANGED <<sent, chanVars, loopVars, gaugeVars, envVars>>

\* A read timer that has fired makes no difference by waiting longer.
Tick ==
  /\ now < MaxTime /\ now - uptime < ReadTimeout
  /\ now' = now + 1
  /\ UNCHANGED <<serverVars, chanVars, loopVars, gaugeVars, args, ctxDone>>

Cancel ==
  /\ ~ctxDone
  /\ ctxDone' = TRUE
  /\ UNCHANGED <<serverVars, chanVars, loopVars, gaugeVars, args, now>>

\* The goroutine has returned and the process only waits to exit.
Returned == pc = "done" /\ UNCHANGED vars

-----------------------------------------------------------------------------
LoopStep ==
  \/ Subscribe \/ SubscribeFails \/ SubscribePanics \/ Receive
  \/ CountMessage \/ CountEvent \/ HandleRecord \/ HandlePanics \/ HandleDone
  \/ ReadTimesOut \/ ContextDone \/ Cleanup

Next ==
  \/ LoopStep
  \/ \E n \in Names : Publish(n)
  \/ PublishError
  \/ \E nd \in Nodes : Change(nd)
  \/ Tick \/ Cancel \/ Returned

Spec == Init /\ [][Next]_vars

-----------------------------------------------------------------------------
(* Properties.                                                             *)

\* Type invariant of the loop, its channel and its metrics.
TypeOK ==
  /\ args \in Arguments
  /\ latest \in [Nodes -> Nat]
  /\ value \in [Nodes -> Values]
  /\ sent \in [Names -> Nat]
  /\ subscribed \in BOOLEAN
  /\ ch \in Seq(Messages)
  /\ delivered \in Nat /\ dropped \in Nat
  /\ pc \in {"subscribe", "select", "count", "summary", "handle",
             "cleanup", "done"}
  /\ msg \in DataMessages \cup {NoMessage}
  /\ Handling => msg \in DataMessages
  /\ idx \in Nat \ {0}
  /\ timeoutCount \in Nat
  /\ result \in {"none", "nil", "subscribeError", "maxTimeouts", "panic"}
  /\ gauge \in [Metrics -> Nat]
  /\ messageCount \in Nat /\ eventCount \in Nat
  /\ uptime \in Nat /\ now \in Nat
  /\ ctxDone \in BOOLEAN

\* x is a data message of node nd.
IsOf(x, nd) == x.kind = "data" /\ x.node = nd

\* The messages of a node reach its gauges in the order of its values: in the
\* channel, between the channel and the message in hand, and between that and
\* the gauges, versions never decrease towards the server's.
VersionsOrdered ==
  /\ \A n \in Names : sent[n] <= latest[NodeID[n]]
  /\ \A nd \in Nodes :
       /\ \A m \in MetricsOf(nd) : gauge[m] <= latest[nd]
       /\ \A i \in DOMAIN ch : IsOf(ch[i], nd) =>
            /\ ch[i].ver <= latest[nd]
            /\ \A m \in MetricsOf(nd) : gauge[m] <= ch[i].ver
            /\ \A j \in DOMAIN ch :
                 i < j /\ IsOf(ch[j], nd) => ch[i].ver <= ch[j].ver
       /\ Handling /\ IsOf(msg, nd) =>
            /\ msg.ver <= latest[nd]
            /\ \A m \in MetricsOf(nd) : gauge[m] <= msg.ver
            /\ \A i \in DOMAIN ch : IsOf(ch[i], nd) => msg.ver <= ch[i].ver

\* The message in hand has yet to reach the handler of m.
Pending(m) ==
  /\ Handling
  /\ \E k \in DOMAIN Handlers(msg.node) : k >= idx /\ Handlers(msg.node)[k] = m

\* As long as nothing was dropped, a metric shows the current value of its
\* node, or the message that carries that value is in the channel or in hand,
\* unless the value is not convertible or was not reported yet: no sequence
\* of receptions, timeouts and failed conversions loses an update.  Only the
\* panic that ends the process does.
NothingLost ==
  dropped = 0 /\ result # "panic" =>
    \A n \in Names : \A m \in MetricsOf(NodeID[n]) :
      LET nd == NodeID[n] IN
      (sent[n] = latest[nd] /\ value[nd] \in Accepts[m]) =>
        \/ gauge[m] = latest[nd]
        \/ \E i \in DOMAIN ch : ch[i] = DataMessage(nd)
        \/ msg = DataMessage(nd) /\ Pending(m)

\* The monitor implements Mirror: whatever is dropped, skipped, not convertible
\* or handled late, a scrape never sees a metric go back to an older value of
\* its node nor a value its node never had, and a reception that moves several
\* metrics moves them one at a time.
Abstract == INSTANCE Mirror
ImplementsMirror == Abstract!Spec

\* Metrics of the same node that convert the same values agree, except for the
\* one message that handleMessage is distributing: then the records before
\* idx show it and the others still agree with each other.  Whoever scrapes
\* the process while a panic takes it down may see the gap for good.
MetricsOfNodeAgree ==
  \A nd \in Nodes : \A m1, m2 \in MetricsOf(nd) :
    Accepts[m1] = Accepts[m2] =>
      \/ gauge[m1] = gauge[m2]
      \/ result = "panic"
      \/ Handling /\ msg.node = nd /\ (Pending(m1) <=> ~Pending(m2))

\* Conservation of messages: what the library counted as delivered is in the
\* channel, in hand, counted, or was skipped as an error or a nil value; the
\* summary counter and the message counter differ by the message in hand.
CountersAgree ==
  /\ messageCount + Len(ch) + (IF pc = "count" THEN 1 ELSE 0) <= delivered
  /\ eventCount = messageCount - (IF pc = "summary" THEN 1 ELSE 0)
  /\ ch # <<>> => Len(ch) <= BufferSize

\* The loop gives up only with --max-timeouts set, and only after that many
\* full read timeouts have gone by: receptions in between restart the timer.
GivesUpAfterTimeouts ==
  /\ timeoutCount * ReadTimeout <= uptime \/ result = "maxTimeouts"
  /\ result = "maxTimeouts" =>
       /\ MaxTimeouts > 0
       /\ timeoutCount = MaxTimeouts
       /\ now >= MaxTimeouts * ReadTimeout

Ended == pc \in {"cleanup", "done"}

\* How setupMonitor ends, for its caller.
Outcome == IF result \in {"nil", "panic"} THEN result ELSE "error"
Task == INSTANCE MonitorTask WITH
  task <- IF pc = "subscribe" THEN "start"
          ELSE IF pc = "done" THEN Outcome ELSE "loop",
  cancelled <- ctxDone,
  limits <- [bufferSize |-> BufferSize, maxTimeouts |-> MaxTimeouts]

\* The monitor implements MonitorTask, the view of it that the process has:
\* it returns an error only without a subscription or with a limit on the
\* timeouts, and it ends without one only when the context was cancelled.
ImplementsMonitorTask == Task!Spec

\* "Subscribe to all the nodes and update the appropriate prometheus metrics
\* on change": a value that was handled reaches the metrics of the configured
\* name it was subscribed under.
EveryNameIsUpdated ==
  \A n \in Names :
    (/\ dropped = 0 /\ sent[n] = latest[NodeID[n]]
     /\ pc = "select" /\ ch = <<>>)
      => \A k \in DOMAIN HandlerMap[n] :
           value[NodeID[n]] \in Accepts[HandlerMap[n][k]] =>
             gauge[HandlerMap[n][k]] = latest[NodeID[n]]
=============================================================================
