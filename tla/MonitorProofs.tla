---------------------------- MODULE MonitorProofs ----------------------------
(***************************************************************************)
(* Proofs about Monitor, for every configuration, buffer size and bound:   *)
(* the type invariant, that the monitor implements Mirror, that no update  *)
(* is lost while nothing is dropped, and when the loop gives up.           *)
(***************************************************************************)
EXTENDS Monitor, TLAPS

\* The abbreviations of Monitor, visible in every proof.
USE DEF outside, hand, outcome, Leave, Skip, FirstRecord, HasRecord, Record,
        Shown, NextRecord, HandledAll, LimitReached,
        BufferSize, ReadTimeout, MaxTimeouts

-----------------------------------------------------------------------------
(* The constant operators.                                                 *)

\* The records that a node id reaches are metrics.
LEMMA HandlersType ==
  ASSUME NEW nd
  PROVE  /\ Handlers(nd) \in Seq(Metrics)
         /\ MetricsOf(nd) \subseteq Metrics
BY NodesAssumption DEF Handlers, MetricsOf

\* A metric has one record: it belongs to one node id, at one index.
LEMMA RecordUnique ==
  ASSUME NEW n1, NEW n2,
         NEW i \in DOMAIN Handlers(n1), NEW j \in DOMAIN Handlers(n2),
         Handlers(n1)[i] = Handlers(n2)[j]
  PROVE  n1 = n2 /\ i = j
BY OneRecordPerMetric DEF Handlers

\* So a metric belongs to one node id.
LEMMA MetricUnique ==
  ASSUME NEW n1, NEW n2, NEW m \in MetricsOf(n1), m \in MetricsOf(n2)
  PROVE  n1 = n2
BY RecordUnique DEF MetricsOf

\* The arguments are numbers, of either sign.
LEMMA ArgsType ==
  ASSUME TypeOK
  PROVE  /\ args.bufferSize \in Int /\ args.readTimeout \in Int
         /\ args.maxTimeouts \in Int
BY NumbersAssumption DEF TypeOK

\* The message that carries the current value of a node.
LEMMA DataMessageType ==
  ASSUME TypeOK, NEW nd \in Nodes
  PROVE  DataMessage(nd) \in DataMessages
BY DEF TypeOK, DataMessage, DataMessages

-----------------------------------------------------------------------------
(* Type correctness.                                                       *)

LEMMA TakeType ==
  ASSUME TypeOK, NEW x \in Messages, Take(x)
  PROVE  /\ pc' \in {"select", "count"}
         /\ msg' \in DataMessages \cup {NoMessage}
         /\ pc' = "count" => msg' \in DataMessages
         /\ idx' \in Nat \ {0}
         /\ uptime' \in Nat
         /\ UNCHANGED <<timeoutCount, result, subscribed>>
BY DEF TypeOK, Take, Messages, DataMessages, ErrorMessage, NextIteration

\* Whether the message fits the channel or is dropped, the types are kept.
LEMMA SendType ==
  ASSUME TypeOK, NEW x \in Messages, Send(x), CanPublish,
         latest' \in [Nodes -> Nat], value' \in [Nodes -> Values],
         sent' \in [Names -> Nat], UNCHANGED <<gaugeVars, envVars>>
  PROVE  TypeOK'
<1>1. CASE Len(ch) < BufferSize /\ ch' = Append(ch, x)
           /\ delivered' = delivered + 1 /\ UNCHANGED <<dropped, loopVars>>
  BY <1>1 DEF TypeOK, Handling, loopVars, gaugeVars, envVars
<1>2. CASE /\ ch = <<>> /\ pc = "select" /\ Take(x)
           /\ delivered' = delivered + 1 /\ UNCHANGED <<ch, dropped>>
  BY <1>2, TakeType DEF TypeOK, Handling, gaugeVars, envVars
<1>3. CASE /\ Len(ch) >= BufferSize /\ dropped' = dropped + 1
           /\ UNCHANGED <<ch, delivered, loopVars>>
  BY <1>3 DEF TypeOK, Handling, loopVars, gaugeVars, envVars
<1>4. QED
  BY <1>1, <1>2, <1>3 DEF Send

\* The state setupMonitor starts in is well typed.
LEMMA InitType == Init => TypeOK
<1> SUFFICES ASSUME Init PROVE TypeOK
  OBVIOUS
<1>1. ch \in Seq(Messages)
  BY DEF Init
<1>2. ~Handling
  BY DEF Init, Handling
<1>3. /\ latest \in [Nodes -> Nat] /\ sent \in [Names -> Nat]
      /\ gauge \in [Metrics -> Nat]
  BY DEF Init
<1>4. subscribed \in BOOLEAN /\ ctxDone \in BOOLEAN
  BY DEF Init
<1>5. msg \in DataMessages \cup {NoMessage}
  BY DEF Init
<1>6. value \in [Nodes -> Values]
  BY DEF Init
<1>7. /\ delivered \in Nat /\ dropped \in Nat /\ idx \in Nat \ {0}
      /\ timeoutCount \in Nat /\ messageCount \in Nat /\ eventCount \in Nat
      /\ uptime \in Nat /\ now \in Nat
  BY DEF Init
<1>8. /\ pc \in {"subscribe", "select", "count", "summary", "handle",
                "cleanup", "done"}
      /\ result \in {"none", "nil", "subscribeError", "maxTimeouts", "panic"}
  BY DEF Init
<1>9. QED
  BY <1>1, <1>2, <1>3, <1>4, <1>5, <1>6, <1>7, <1>8 DEF Init, TypeOK

\* Every step keeps the state well typed.
LEMMA NextType ==
  ASSUME TypeOK, [Next]_vars
  PROVE  TypeOK'
<1> USE DEF serverVars, chanVars, gaugeVars, envVars
<1>1. CASE Subscribe
  BY <1>1 DEF TypeOK, Subscribe, NextIteration, Handling
<1>2. CASE SubscribeFails
  BY <1>2 DEF TypeOK, SubscribeFails, Handling
<1>3. CASE Receive
  <2>1. Head(ch) \in Messages /\ Tail(ch) \in Seq(Messages)
    BY <1>3 DEF TypeOK, Receive
  <2>2. Take(Head(ch))
    BY <1>3 DEF Receive
  <2>3. QED
    BY <1>3, <2>1, <2>2, TakeType DEF TypeOK, Receive, Handling
<1>4. CASE CountMessage
  BY <1>4 DEF TypeOK, CountMessage, Handling
<1>5. CASE CountEvent
  BY <1>5 DEF TypeOK, CountEvent, Handling
<1>6. CASE HandleRecord
  <2>1. gauge' \in [Metrics -> Nat]
    <3>1. msg.ver \in Nat
      BY <1>6 DEF TypeOK, HandleRecord, Handling, DataMessages
    <3>2. Handlers(msg.node)[idx] \in Metrics
      BY <1>6, HandlersType DEF HandleRecord
    <3>3. QED
      BY <1>6, <3>1, <3>2 DEF TypeOK, HandleRecord
  <2>2. QED
    BY <1>6, <2>1 DEF TypeOK, HandleRecord, Handling
<1>7. CASE HandleDone
  BY <1>7 DEF TypeOK, HandleDone, NextIteration, Handling
<1>8. CASE ReadTimesOut
  BY <1>8 DEF TypeOK, ReadTimesOut, NextIteration, Handling
<1>9. CASE ContextDone
  BY <1>9 DEF TypeOK, ContextDone, Handling
<1>10. CASE Cleanup
  BY <1>10 DEF TypeOK, Cleanup, Handling
<1>11. CASE \E n \in Names : Publish(n)
  <2> PICK n \in Names : Publish(n)
    BY <1>11
  <2>1. NodeID[n] \in Nodes
    BY NodesAssumption
  <2>2. DataMessage(NodeID[n]) \in Messages
    BY <2>1, DataMessageType DEF Messages
  <2>3. sent' \in [Names -> Nat]
    BY <2>1 DEF TypeOK, Publish
  <2>4. QED
    BY <2>2, <2>3, SendType DEF Publish, TypeOK
<1>12. CASE PublishError
  <2>1. ErrorMessage \in Messages
    BY DEF Messages
  <2>2. QED
    BY <1>12, <2>1, SendType DEF PublishError, TypeOK
<1>13. CASE \E nd \in Nodes : Change(nd)
  BY <1>13 DEF TypeOK, Change, loopVars, Handling
<1>14. CASE Tick
  BY <1>14 DEF TypeOK, Tick, loopVars, Handling
<1>15. CASE Cancel
  BY <1>15 DEF TypeOK, Cancel, loopVars, Handling
<1>16. CASE UNCHANGED vars
  BY <1>16 DEF TypeOK, vars, loopVars, Handling
<1>17. CASE HandlePanics
  BY <1>17 DEF TypeOK, HandlePanics, Handling
<1>18. CASE SubscribePanics
  BY <1>18 DEF TypeOK, SubscribePanics, Handling
<1>19. QED
  BY <1>1, <1>2, <1>3, <1>4, <1>5, <1>6, <1>7, <1>8, <1>9, <1>10, <1>11,
     <1>12, <1>13, <1>14, <1>15, <1>16, <1>17, <1>18 DEF Next, LoopStep, Returned

\* The type invariant holds in every behaviour.
THEOREM TypeCorrect == Spec => []TypeOK
<1>1. Init => TypeOK
  BY InitType
<1>2. TypeOK /\ [Next]_vars => TypeOK'
  BY NextType
<1>3. QED
  BY <1>1, <1>2, PTL DEF Spec

-----------------------------------------------------------------------------
(* Conservation of messages.                                               *)

\* What a reception does to the counters of CountersAgree.
LEMMA SendCounters ==
  ASSUME TypeOK, CountersAgree, NEW x \in Messages, Send(x),
         UNCHANGED <<gaugeVars, envVars>>
  PROVE  CountersAgree'
<1> USE ArgsType DEF TypeOK, CountersAgree, envVars
<1>1. CASE Len(ch) < BufferSize /\ ch' = Append(ch, x)
           /\ delivered' = delivered + 1 /\ UNCHANGED <<dropped, loopVars>>
  BY <1>1 DEF loopVars, gaugeVars
<1>2. CASE /\ ch = <<>> /\ pc = "select" /\ Take(x)
           /\ delivered' = delivered + 1 /\ UNCHANGED <<ch, dropped>>
  BY <1>2, TakeType DEF gaugeVars
<1>3. CASE /\ Len(ch) >= BufferSize /\ dropped' = dropped + 1
           /\ UNCHANGED <<ch, delivered, loopVars>>
  BY <1>3 DEF loopVars, gaugeVars
<1>4. QED
  BY <1>1, <1>2, <1>3 DEF Send

\* Every step keeps the two sides of the count equal.
LEMMA NextCounters ==
  ASSUME TypeOK, CountersAgree, [Next]_vars
  PROVE  CountersAgree'
<1> USE DEF CountersAgree, serverVars, chanVars, gaugeVars, envVars
<1> USE ArgsType
<1>1. CASE Subscribe \/ SubscribeFails \/ SubscribePanics
  BY <1>1 DEF TypeOK, Subscribe, SubscribeFails, SubscribePanics, NextIteration
<1>2. CASE Receive
  <2>1. Head(ch) \in Messages /\ Take(Head(ch))
    BY <1>2 DEF TypeOK, Receive
  <2>2. Len(ch') = Len(ch) - 1
    BY <1>2 DEF TypeOK, Receive
  <2>3. Len(ch) \in Nat
    BY DEF TypeOK
  <2>4. QED
    BY <1>2, <2>1, <2>2, <2>3, TakeType DEF TypeOK, Receive
<1>3. CASE CountMessage \/ CountEvent
  BY <1>3 DEF TypeOK, CountMessage, CountEvent
<1>4. CASE HandleRecord \/ HandlePanics \/ HandleDone
  BY <1>4 DEF TypeOK, HandleRecord, HandlePanics, HandleDone, NextIteration
<1>5. CASE ReadTimesOut \/ ContextDone \/ Cleanup
  BY <1>5 DEF TypeOK, ReadTimesOut, ContextDone, Cleanup, NextIteration
<1>6. CASE \E n \in Names : Publish(n)
  <2> PICK n \in Names : Publish(n)
    BY <1>6
  <2>1. DataMessage(NodeID[n]) \in Messages
    BY NodesAssumption, DataMessageType DEF Messages
  <2>2. QED
    BY <2>1, SendCounters DEF Publish
<1>7. CASE PublishError
  <2>1. ErrorMessage \in Messages
    BY DEF Messages
  <2>2. QED
    BY <1>7, <2>1, SendCounters DEF PublishError
<1>8. CASE \E nd \in Nodes : Change(nd)
  BY <1>8 DEF Change, loopVars
<1>9. CASE Tick \/ Cancel \/ UNCHANGED vars
  BY <1>9 DEF Tick, Cancel, vars, loopVars
<1>10. QED
  BY <1>1, <1>2, <1>3, <1>4, <1>5, <1>6, <1>7, <1>8, <1>9
     DEF Next, LoopStep, Returned

\* Every delivered message is in the channel, in hand, counted or skipped.
THEOREM CountersCorrect == Spec => []CountersAgree
<1>1. Init => CountersAgree
  BY DEF Init, CountersAgree
<1>2. TypeOK /\ CountersAgree /\ [Next]_vars => CountersAgree'
  BY NextCounters
<1>3. QED
  BY <1>1, <1>2, TypeCorrect, PTL DEF Spec

-----------------------------------------------------------------------------
(* Order of the versions.                                                  *)

\* Taking a message x that is older than what stays in the channel keeps the
\* order: the channel is q afterwards.
LEMMA TakeOrdered ==
  ASSUME TypeOK, NEW x \in Messages, Take(x),
         NEW nd \in Nodes,
         IsOf(x, nd) =>
           /\ x.ver <= latest[nd]
           /\ \A m \in MetricsOf(nd) : gauge[m] <= x.ver
           /\ \A i \in DOMAIN ch' : IsOf(ch'[i], nd) => x.ver <= ch'[i].ver,
         pc = "select", UNCHANGED <<latest, gauge>>
  PROVE  (Handling /\ IsOf(msg, nd))' =>
           /\ msg'.ver <= latest'[nd]
           /\ \A m \in MetricsOf(nd) : gauge'[m] <= msg'.ver
           /\ \A i \in DOMAIN ch' : IsOf(ch'[i], nd) => msg'.ver <= ch'[i].ver
BY DEF Take, NextIteration, Handling, IsOf

\* A new message carries the latest version, so it is last in order.
LEMMA SendOrdered ==
  ASSUME TypeOK, CountersAgree, VersionsOrdered,
         NEW x \in Messages, Send(x),
         \A nd \in Nodes : IsOf(x, nd) => x.ver = latest[nd],
         UNCHANGED <<latest, gauge>>,
         \A n \in Names : sent'[n] <= latest[NodeID[n]]
  PROVE  VersionsOrdered'
<1>1. CASE Len(ch) < BufferSize /\ ch' = Append(ch, x)
           /\ UNCHANGED <<dropped, loopVars>>
  <2> SUFFICES ASSUME NEW nd \in Nodes
               PROVE  /\ \A m \in MetricsOf(nd) : gauge[m] <= latest[nd]
                      /\ \A i \in DOMAIN ch' : IsOf(ch'[i], nd) =>
                           /\ ch'[i].ver <= latest[nd]
                           /\ \A m \in MetricsOf(nd) : gauge[m] <= ch'[i].ver
                           /\ \A j \in DOMAIN ch' :
                                i < j /\ IsOf(ch'[j], nd)
                                  => ch'[i].ver <= ch'[j].ver
                      /\ Handling /\ IsOf(msg, nd) =>
                           /\ msg.ver <= latest[nd]
                           /\ \A m \in MetricsOf(nd) : gauge[m] <= msg.ver
                           /\ \A i \in DOMAIN ch' :
                                IsOf(ch'[i], nd) => msg.ver <= ch'[i].ver
    BY <1>1 DEF VersionsOrdered, Handling, loopVars
  <2>1. /\ DOMAIN ch' = DOMAIN ch \cup {Len(ch) + 1}
        /\ \A i \in DOMAIN ch : ch'[i] = ch[i] /\ i < Len(ch) + 1
        /\ ch'[Len(ch) + 1] = x
    BY <1>1 DEF TypeOK
  <2>2. latest[nd] \in Nat
    BY DEF TypeOK
  <2>3. Len(ch) + 1 \in Int /\ \A i \in DOMAIN ch : i \in Int
    BY DEF TypeOK
  <2>4. QED
    BY <2>1, <2>2, <2>3 DEF VersionsOrdered
<1>2. CASE /\ ch = <<>> /\ pc = "select" /\ Take(x)
           /\ UNCHANGED <<ch, dropped>>
  <2>1. DOMAIN ch' = {}
    BY <1>2
  <2> SUFFICES ASSUME NEW nd \in Nodes
               PROVE  (Handling /\ IsOf(msg, nd))' =>
                           /\ msg'.ver <= latest[nd]
                           /\ \A m \in MetricsOf(nd) : gauge[m] <= msg'.ver
                           /\ \A i \in DOMAIN ch' :
                                IsOf(ch'[i], nd) => msg'.ver <= ch'[i].ver
    BY <1>2 DEF VersionsOrdered
  <2>2. latest[nd] \in Nat
    BY DEF TypeOK
  <2>3. IsOf(x, nd) =>
           /\ x.ver <= latest[nd]
           /\ \A m \in MetricsOf(nd) : gauge[m] <= x.ver
    BY <2>2 DEF VersionsOrdered
  <2>4. QED
    BY <1>2, <2>1, <2>3, TakeOrdered
<1>3. CASE UNCHANGED <<ch, delivered, loopVars>>
  BY <1>3 DEF VersionsOrdered, Handling, loopVars
<1>4. QED
  BY <1>1, <1>2, <1>3 DEF Send

\* Every step keeps the versions in order.
LEMMA NextOrdered ==
  ASSUME TypeOK, CountersAgree, VersionsOrdered, [Next]_vars
  PROVE  VersionsOrdered'
<1> USE DEF serverVars, chanVars, gaugeVars, envVars
<1>1. CASE Subscribe \/ SubscribeFails \/ SubscribePanics
  BY <1>1 DEF VersionsOrdered, Subscribe, SubscribeFails, SubscribePanics,
              NextIteration,
              Handling
<1>2. CASE Receive
  <2>1. /\ Head(ch) = ch[1] /\ 1 \in DOMAIN ch
        /\ DOMAIN ch' = 1 .. Len(ch) - 1
        /\ \A i \in DOMAIN ch' : ch'[i] = ch[i + 1] /\ i + 1 \in DOMAIN ch
        /\ Head(ch) \in Messages /\ Take(Head(ch))
    BY <1>2 DEF TypeOK, Receive
  <2>2. \A i, j \in DOMAIN ch' : i < j => 1 < i + 1 /\ i + 1 < j + 1
    BY <2>1 DEF TypeOK
  <2>3. \A i \in DOMAIN ch' : 1 < i + 1
    BY <2>1 DEF TypeOK
  <2>4. ASSUME NEW nd \in Nodes
        PROVE  \A i \in DOMAIN ch' : IsOf(ch'[i], nd) =>
                 /\ ch'[i].ver <= latest[nd]
                 /\ \A m \in MetricsOf(nd) : gauge[m] <= ch'[i].ver
                 /\ \A j \in DOMAIN ch' :
                      i < j /\ IsOf(ch'[j], nd) => ch'[i].ver <= ch'[j].ver
    BY <2>1, <2>2, <2>4 DEF VersionsOrdered
  <2>5. ASSUME NEW nd \in Nodes
        PROVE  (Handling /\ IsOf(msg, nd))' =>
                 /\ msg'.ver <= latest'[nd]
                 /\ \A m \in MetricsOf(nd) : gauge'[m] <= msg'.ver
                 /\ \A i \in DOMAIN ch' :
                      IsOf(ch'[i], nd) => msg'.ver <= ch'[i].ver
    <3>1. IsOf(Head(ch), nd) =>
           /\ Head(ch).ver <= latest[nd]
           /\ \A m \in MetricsOf(nd) : gauge[m] <= Head(ch).ver
           /\ \A i \in DOMAIN ch' :
                IsOf(ch'[i], nd) => Head(ch).ver <= ch'[i].ver
      BY <2>1, <2>3, <2>5 DEF VersionsOrdered
    <3>2. pc = "select" /\ UNCHANGED <<latest, gauge>>
      BY <1>2 DEF Receive
    <3>3. QED
      BY <2>1, <2>5, <3>1, <3>2, TakeOrdered
  <2>6. UNCHANGED <<latest, gauge, sent>>
    BY <1>2 DEF Receive
  <2>7. QED
    BY <2>4, <2>5, <2>6 DEF VersionsOrdered
<1>3. CASE CountMessage \/ CountEvent
  BY <1>3 DEF VersionsOrdered, CountMessage, CountEvent, Handling
<1>4. CASE HandleRecord
  <2> DEFINE m0 == Handlers(msg.node)[idx]
             nd0 == msg.node
  <2>1. /\ msg \in DataMessages /\ nd0 \in Nodes /\ IsOf(msg, nd0)
        /\ msg.ver \in Nat /\ Handling /\ Handling'
    BY <1>4 DEF TypeOK, HandleRecord, Handling, DataMessages, IsOf
  <2>2. m0 \in MetricsOf(nd0) /\ m0 \in Metrics
    BY <1>4, HandlersType DEF HandleRecord, MetricsOf
  <2>3. \/ gauge' = gauge
        \/ gauge' = [gauge EXCEPT ![m0] = msg.ver]
    BY <1>4, <2>2 DEF HandleRecord, TypeOK
  <2>4. ASSUME NEW nd \in Nodes, NEW m \in MetricsOf(nd)
        PROVE  gauge'[m] = gauge[m] \/ (nd = nd0 /\ gauge'[m] = msg.ver)
    <3>1. m \in Metrics
      BY HandlersType
    <3>2. m = m0 => nd = nd0
      BY <2>2, <2>4, MetricUnique
    <3>3. QED
      BY <2>2, <2>3, <3>1, <3>2 DEF TypeOK
  <2>5. UNCHANGED <<latest, sent, ch, msg>>
    BY <1>4 DEF HandleRecord
  <2>6. ASSUME NEW nd \in Nodes
        PROVE  /\ \A m \in MetricsOf(nd) : gauge'[m] <= latest[nd]
               /\ \A i \in DOMAIN ch : IsOf(ch[i], nd) =>
                    \A m \in MetricsOf(nd) : gauge'[m] <= ch[i].ver
               /\ IsOf(msg, nd) =>
                    \A m \in MetricsOf(nd) : gauge'[m] <= msg.ver
    <3>1. /\ msg.ver <= latest[nd0] /\ msg.ver <= msg.ver
          /\ \A i \in DOMAIN ch : IsOf(ch[i], nd0) => msg.ver <= ch[i].ver
      BY <2>1 DEF VersionsOrdered
    <3>2. /\ \A m \in MetricsOf(nd) : gauge[m] <= latest[nd]
          /\ \A i \in DOMAIN ch : IsOf(ch[i], nd) =>
               \A m \in MetricsOf(nd) : gauge[m] <= ch[i].ver
          /\ IsOf(msg, nd) => \A m \in MetricsOf(nd) : gauge[m] <= msg.ver
      BY <2>1, <2>6 DEF VersionsOrdered
    <3>3. QED
      BY <2>4, <3>1, <3>2
  <2>7. QED
    BY <2>1, <2>5, <2>6 DEF VersionsOrdered
<1>5. CASE HandlePanics \/ HandleDone \/ ReadTimesOut \/ ContextDone \/ Cleanup
  BY <1>5 DEF VersionsOrdered, HandlePanics, HandleDone, ReadTimesOut, ContextDone, Cleanup,
              NextIteration, Handling
<1>6. CASE \E n \in Names : Publish(n)
  <2> PICK n \in Names : Publish(n)
    BY <1>6
  <2>1. /\ NodeID[n] \in Nodes
        /\ DataMessage(NodeID[n]) \in Messages
    BY NodesAssumption, DataMessageType DEF Messages
  <2>2. \A nd \in Nodes : IsOf(DataMessage(NodeID[n]), nd)
                            => DataMessage(NodeID[n]).ver = latest[nd]
    BY DEF IsOf, DataMessage
  <2>3. \A k \in Names : sent'[k] <= latest[NodeID[k]]
    BY <2>1 DEF Publish, VersionsOrdered, TypeOK
  <2>4. QED
    BY <2>1, <2>2, <2>3, SendOrdered DEF Publish
<1>7. CASE PublishError
  <2>1. ErrorMessage \in Messages /\ \A nd \in Nodes : ~IsOf(ErrorMessage, nd)
    BY DEF Messages, ErrorMessage, IsOf
  <2>2. Send(ErrorMessage) /\ UNCHANGED <<latest, gauge, sent>>
    BY <1>7 DEF PublishError
  <2>3. QED
    BY <2>1, <2>2, SendOrdered DEF VersionsOrdered
<1>8. CASE \E nd \in Nodes : Change(nd)
  <2> PICK nd \in Nodes : Change(nd)
    BY <1>8
  <2>1. \A n \in Nodes : latest'[n] \in Nat /\ latest[n] \in Nat
                          /\ latest[n] <= latest'[n]
    BY DEF Change, TypeOK
  <2>2. UNCHANGED <<gauge, ch, msg, pc, sent>>
    BY DEF Change, loopVars
  <2>3. \A n \in Names : sent[n] \in Nat /\ NodeID[n] \in Nodes
    BY NodesAssumption DEF TypeOK
  <2>4. \A n \in Names : sent[n] <= latest'[NodeID[n]]
    BY <2>1, <2>3 DEF VersionsOrdered
  <2>5. \A n \in Nodes : \A m \in MetricsOf(n) :
          gauge[m] \in Nat /\ gauge[m] <= latest'[n]
    BY <2>1, HandlersType DEF VersionsOrdered, TypeOK
  <2>6. \A n \in Nodes : \A i \in DOMAIN ch :
          IsOf(ch[i], n) => ch[i].ver <= latest'[n]
    <3>1. \A i \in DOMAIN ch : ch[i].kind = "data" => ch[i].ver \in Nat
      BY DEF TypeOK, Messages, DataMessages, ErrorMessage
    <3>2. QED
      BY <2>1, <3>1 DEF VersionsOrdered, IsOf
  <2>7. \A n \in Nodes : Handling /\ IsOf(msg, n) => msg.ver <= latest'[n]
    <3>1. Handling => msg.ver \in Nat
      BY DEF TypeOK, DataMessages
    <3>2. QED
      BY <2>1, <3>1 DEF VersionsOrdered
  <2>8. QED
    BY <2>2, <2>4, <2>5, <2>6, <2>7 DEF VersionsOrdered, Handling
<1>9. CASE Tick \/ Cancel \/ UNCHANGED vars
  BY <1>9 DEF Tick, Cancel, vars, loopVars, VersionsOrdered, Handling
<1>10. QED
  BY <1>1, <1>2, <1>3, <1>4, <1>5, <1>6, <1>7, <1>8, <1>9
     DEF Next, LoopStep, Returned

\* In the initial state every version is 0.
LEMMA InitOrdered == Init => VersionsOrdered
BY NodesAssumption, HandlersType DEF Init, VersionsOrdered, Handling

\* Versions never decrease from the gauges to the server.
THEOREM OrderCorrect == Spec => []VersionsOrdered
<1>1. Init => VersionsOrdered
  BY InitOrdered
<1>2. TypeOK /\ CountersAgree /\ VersionsOrdered /\ [Next]_vars
        => VersionsOrdered'
  BY NextOrdered
<1>3. QED
  BY <1>1, <1>2, TypeCorrect, CountersCorrect, PTL DEF Spec

-----------------------------------------------------------------------------
(* The monitor implements Mirror.                                          *)

LEMMA StepSimulates ==
  ASSUME TypeOK, VersionsOrdered, [Next]_vars
  PROVE  [Abstract!Next]_(Abstract!vars)
<1> USE DEF serverVars, chanVars, gaugeVars, envVars, loopVars
<1>1. CASE HandleRecord
  <2> DEFINE m == Handlers(msg.node)[idx]
             nd == msg.node
  <2>1. nd \in Nodes /\ msg.ver \in Nat /\ Handling /\ IsOf(msg, nd)
    BY <1>1 DEF TypeOK, HandleRecord, Handling, DataMessages, IsOf
  <2>2. m \in MetricsOf(nd) /\ m \in Metrics
    BY <1>1, HandlersType DEF HandleRecord, MetricsOf
  <2>3. gauge[m] <= msg.ver /\ msg.ver <= latest[nd]
    BY <2>1, <2>2 DEF VersionsOrdered
  <2>4. gauge \in [Metrics -> Nat] /\ latest[nd] \in Nat
    BY <2>1 DEF TypeOK
  <2>5. UNCHANGED latest
    BY <1>1 DEF HandleRecord
  <2>6. CASE gauge' = gauge
    BY <2>5, <2>6 DEF Abstract!vars
  <2>7. CASE gauge' = [gauge EXCEPT ![m] = msg.ver] /\ gauge' # gauge
    <3>1. gauge[m] # msg.ver
      BY <2>2, <2>4, <2>7
    <3>2. gauge[m] < msg.ver /\ msg.ver \in 1 .. latest[nd]
      BY <2>1, <2>2, <2>3, <2>4, <3>1
    <3>3. Abstract!Show(nd, m, msg.ver)
      BY <2>5, <2>7, <3>2 DEF Abstract!Show
    <3>4. QED
      BY <2>1, <2>2, <3>2, <3>3 DEF Abstract!Next
  <2>8. QED
    BY <1>1, <2>2, <2>4, <2>6, <2>7 DEF HandleRecord
<1>2. CASE \E nd \in Nodes : Change(nd)
  <2> PICK nd \in Nodes : Change(nd)
    BY <1>2
  <2>1. Abstract!Change(nd)
    BY DEF Change, Abstract!Change
  <2>2. QED
    BY <2>1 DEF Abstract!Next
<1>3. CASE \/ Subscribe \/ SubscribeFails \/ SubscribePanics \/ Receive
           \/ CountMessage \/ CountEvent \/ HandlePanics \/ HandleDone
           \/ ReadTimesOut \/ ContextDone \/ Cleanup
  BY <1>3 DEF Subscribe, SubscribeFails, SubscribePanics, Receive,
       CountMessage, CountEvent,
              HandlePanics, HandleDone, ReadTimesOut, ContextDone, Cleanup,
              Abstract!vars
<1>4. CASE \/ \E n \in Names : Publish(n)
           \/ PublishError \/ Tick \/ Cancel \/ UNCHANGED vars
  BY <1>4 DEF Publish, PublishError, Tick, Cancel, vars, Abstract!vars
<1>5. QED
  BY <1>1, <1>2, <1>3, <1>4 DEF Next, LoopStep, Returned

\* The monitor implements Mirror: gauges only move on to newer values that
\* their node has had, one at a time.
THEOREM MirrorCorrect == Spec => ImplementsMirror
<1>1. Init => Abstract!Init
  BY DEF Init, Abstract!Init
<1>2. TypeOK /\ VersionsOrdered /\ [Next]_vars
        => [Abstract!Next]_(Abstract!vars)
  BY StepSimulates
<1>3. QED
  BY <1>1, <1>2, TypeCorrect, OrderCorrect, PTL
     DEF Spec, ImplementsMirror, Abstract!Spec

-----------------------------------------------------------------------------
(* The monitor implements MonitorTask.                                     *)

\* There is a result from the moment the loop is left, and it is nil only if
\* the context was cancelled, an exceeded limit only if there is one.
ResultInv ==
  /\ result = "none" <=> ~Ended
  /\ result = "nil" => ctxDone
  /\ result = "maxTimeouts" => MaxTimeouts > 0
  /\ result = "subscribeError" => pc = "done"

LEMMA NextResult ==
  ASSUME TypeOK, ResultInv, [Next]_vars
  PROVE  ResultInv'
<1> USE DEF serverVars, chanVars, gaugeVars, envVars, ResultInv, Ended
<1>1. CASE LoopStep
  BY <1>1 DEF LoopStep, Subscribe, SubscribeFails, SubscribePanics,
     Receive, Take,
     CountMessage, CountEvent, HandleRecord, HandlePanics, HandleDone,
     ReadTimesOut, ContextDone, Cleanup, NextIteration
<1>2. CASE (\E n \in Names : Publish(n)) \/ PublishError
  <2>1. PICK x : Send(x) /\ UNCHANGED <<args, ctxDone>>
    BY <1>2 DEF Publish, PublishError
  <2>2. QED
    BY <2>1 DEF Send, Take, NextIteration, loopVars
<1>3. CASE \/ \E nd \in Nodes : Change(nd)
           \/ Tick \/ Cancel \/ UNCHANGED vars
  BY <1>3 DEF Change, Tick, Cancel, vars, loopVars
<1>4. QED
  BY <1>1, <1>2, <1>3 DEF Next, Returned

LEMMA ResultCorrect == Spec => []ResultInv
<1>1. Init => ResultInv
  BY DEF Init, ResultInv, Ended
<1>2. TypeOK /\ ResultInv /\ [Next]_vars => ResultInv'
  BY NextResult
<1>3. QED
  BY <1>1, <1>2, TypeCorrect, PTL DEF Spec

LEMMA TaskStep ==
  ASSUME TypeOK, ResultInv, [Next]_vars
  PROVE  [Task!Next]_(Task!vars)
<1> USE ArgsType DEF serverVars, chanVars, gaugeVars, envVars,
        Outcome, Task!vars, Task!Next, Task!Run, Task!Ends
<1>1. CASE Subscribe
  BY <1>1 DEF Subscribe, NextIteration, Task!Starts
<1>2. CASE SubscribeFails
  BY <1>2 DEF SubscribeFails, Task!StartFails
<1>3. CASE SubscribePanics
  BY <1>3 DEF SubscribePanics, Task!StartPanics
<1>4. CASE Cleanup
  <2>1. CASE result = "nil"
    BY <1>4, <2>1 DEF Cleanup, ResultInv, Task!Stops
  <2>2. CASE result = "maxTimeouts"
    BY <1>4, <2>2 DEF Cleanup, ResultInv, Task!GivesUp
  <2>3. CASE result = "panic"
    BY <1>4, <2>3 DEF Cleanup, Task!HandlerPanics
  <2>4. QED
    BY <1>4, <2>1, <2>2, <2>3 DEF Cleanup, ResultInv, Ended, TypeOK
<1>5. CASE \/ Receive \/ CountMessage \/ CountEvent \/ HandleRecord
           \/ HandlePanics \/ HandleDone \/ ReadTimesOut \/ ContextDone
  <2>1. /\ pc \notin {"subscribe", "done"} /\ pc' \notin {"subscribe", "done"}
        /\ UNCHANGED <<args, ctxDone>>
    BY <1>5 DEF Receive, Take, CountMessage, CountEvent, HandleRecord,
       HandlePanics, HandleDone, ReadTimesOut, ContextDone, NextIteration
  <2>2. QED
    BY <2>1
<1>6. CASE (\E n \in Names : Publish(n)) \/ PublishError
  <2>1. PICK x : Send(x) /\ UNCHANGED <<args, ctxDone>>
    BY <1>6 DEF Publish, PublishError
  <2>2. \/ UNCHANGED <<pc, result>>
        \/ pc = "select" /\ pc' \in {"select", "count"}
    BY <2>1 DEF Send, Take, NextIteration, loopVars
  <2>3. QED
    BY <2>1, <2>2
<1>7. CASE Cancel
  BY <1>7 DEF Cancel, loopVars, Task!Cancel
<1>8. CASE (\E nd \in Nodes : Change(nd)) \/ Tick \/ UNCHANGED vars
  <2>1. UNCHANGED <<pc, result, args, ctxDone>>
    BY <1>8 DEF Change, Tick, vars, loopVars
  <2>2. QED
    BY <2>1
<1>9. QED
  BY <1>1, <1>2, <1>3, <1>4, <1>5, <1>6, <1>7, <1>8 DEF Next, LoopStep, Returned

\* The monitor implements MonitorTask, which AppLifecycle runs in its place:
\* it ends without an error only when it was told to, and gives up only with
\* a limit.
THEOREM MonitorTaskCorrect == Spec => ImplementsMonitorTask
<1>1. Init => Task!Init
  BY DEF Init, Task!Init, Outcome
<1>2. TypeOK /\ ResultInv /\ [Next]_vars => [Task!Next]_(Task!vars)
  BY TaskStep
<1>3. QED
  BY <1>1, <1>2, TypeCorrect, ResultCorrect, PTL
     DEF Spec, ImplementsMonitorTask, Task!Spec

-----------------------------------------------------------------------------
(* Nothing is lost while nothing is dropped.                               *)

\* The update of metric m of node nd to its current value is shown, in the
\* channel or in hand.
Underway(nd, m) ==
  \/ gauge[m] = latest[nd]
  \/ \E i \in DOMAIN ch : ch[i] = DataMessage(nd)
  \/ msg = DataMessage(nd) /\ Pending(m)

\* A message that is taken goes to every handler of its node.
LEMMA TakePending ==
  ASSUME NEW nd \in Nodes, NEW m \in MetricsOf(nd), TypeOK,
         Take(DataMessage(nd)), value[nd] \in Accepts[m],
         UNCHANGED <<latest, value>>
  PROVE  (msg = DataMessage(nd) /\ Pending(m))'
<1>1. m \in Metrics
  BY HandlersType
<1>2. value[nd] # NilValue
  BY <1>1, NodesAssumption
<1>3. msg' = DataMessage(nd) /\ idx' = 1 /\ pc' = "count"
  BY <1>2 DEF Take, DataMessage
<1>4. msg'.node = nd
  BY <1>3 DEF DataMessage
<1>5. \A k \in DOMAIN Handlers(nd) : k >= 1
  BY HandlersType
<1>6. \E k \in DOMAIN Handlers(nd) : k >= 1 /\ Handlers(nd)[k] = m
  BY <1>5 DEF MetricsOf
<1>7. DataMessage(nd)' = DataMessage(nd)
  BY DEF DataMessage
<1>8. QED
  BY <1>3, <1>4, <1>6, <1>7 DEF Pending, Handling

\* What is on its way stays so when another message is put behind it.
LEMMA SendUnderway ==
  ASSUME TypeOK, NEW x \in Messages, Send(x),
         UNCHANGED <<latest, value, gauge>>,
         NEW nd \in Nodes, NEW m \in MetricsOf(nd), value[nd] \in Accepts[m],
         dropped' = 0, Underway(nd, m) \/ x = DataMessage(nd)
  PROVE  Underway(nd, m)'
<1>1. DataMessage(nd)' = DataMessage(nd)
  BY DEF DataMessage
<1>2. CASE Len(ch) < BufferSize /\ ch' = Append(ch, x)
           /\ UNCHANGED <<dropped, loopVars>>
  <2>1. /\ DOMAIN ch' = DOMAIN ch \cup {Len(ch) + 1}
        /\ \A i \in DOMAIN ch : ch'[i] = ch[i]
        /\ ch'[Len(ch) + 1] = x
    BY <1>2 DEF TypeOK
  <2>2. QED
    BY <1>1, <1>2, <2>1 DEF Underway, Pending, Handling, loopVars
<1>3. CASE /\ ch = <<>> /\ pc = "select" /\ Take(x)
           /\ UNCHANGED <<ch, dropped>>
  <2>1. CASE x = DataMessage(nd)
    BY <1>3, <2>1, TakePending DEF Underway
  <2>2. CASE Underway(nd, m)
    BY <1>1, <1>3, <2>2 DEF Underway, Pending, Handling
  <2>3. QED
    BY <2>1, <2>2
<1>4. CASE dropped' = dropped + 1
  BY <1>4 DEF TypeOK
<1>5. QED
  BY <1>2, <1>3, <1>4 DEF Send

\* Without a drop, every step keeps the last value shown or on its way.
LEMMA NextNothingLost ==
  ASSUME TypeOK, VersionsOrdered, ResultInv, NothingLost, [Next]_vars
  PROVE  NothingLost'
<1> USE DEF serverVars, chanVars, gaugeVars, envVars
<1> SUFFICES ASSUME dropped' = 0, result' # "panic",
                    NEW n \in Names, NEW m \in MetricsOf(NodeID[n]),
                    sent'[n] = latest'[NodeID[n]],
                    value'[NodeID[n]] \in Accepts[m]
             PROVE  Underway(NodeID[n], m)'
  BY DEF NothingLost, Underway
<1> DEFINE nd == NodeID[n]
<1>1. nd \in Nodes /\ m \in Metrics
  BY NodesAssumption, HandlersType
<1>0. result # "panic"
  <2>1. CASE LoopStep
    BY <2>1 DEF LoopStep, Subscribe, SubscribeFails, SubscribePanics,
     Receive, Take,
       CountMessage, CountEvent, HandleRecord, HandlePanics, HandleDone,
       ReadTimesOut, ContextDone, Cleanup, NextIteration, ResultInv, Ended
  <2>2. CASE (\E k \in Names : Publish(k)) \/ PublishError
    <3>1. PICK x : Send(x)
      BY <2>2 DEF Publish, PublishError
    <3>2. QED
      BY <3>1 DEF Send, Take, loopVars
  <2>3. CASE \/ \E d \in Nodes : Change(d)
             \/ Tick \/ Cancel \/ UNCHANGED vars
    BY <2>3 DEF Change, Tick, Cancel, vars, loopVars
  <2>4. QED
    BY <2>1, <2>2, <2>3 DEF Next, Returned
<1>2. ASSUME UNCHANGED <<latest, value, sent, dropped>>
      PROVE  Underway(nd, m) /\ DataMessage(nd)' = DataMessage(nd)
  BY <1>0, <1>2 DEF NothingLost, Underway, DataMessage
<1>3. CASE \/ Subscribe \/ SubscribeFails \/ SubscribePanics
           \/ ReadTimesOut \/ ContextDone
           \/ Cleanup
  <2>1. UNCHANGED <<latest, value, sent, dropped, gauge, ch>> /\ ~Handling
    BY <1>3 DEF Subscribe, SubscribeFails, SubscribePanics, ReadTimesOut, ContextDone, Cleanup,
                Handling
  <2>2. QED
    BY <1>2, <2>1 DEF Underway, Pending
<1>4. CASE Receive
  <2>1. /\ Head(ch) = ch[1] /\ 1 \in DOMAIN ch
        /\ DOMAIN ch' = 1 .. Len(ch) - 1
        /\ \A i \in DOMAIN ch' : ch'[i] = ch[i + 1]
        /\ \A i \in DOMAIN ch :
             i = 1 \/ (i - 1 \in DOMAIN ch' /\ ch[i] = ch'[i - 1])
    BY <1>4 DEF TypeOK, Receive
  <2>2. /\ UNCHANGED <<latest, value, sent, dropped, gauge>>
        /\ Take(Head(ch)) /\ ~Handling
    BY <1>4 DEF Receive, Handling
  <2>3. CASE Head(ch) = DataMessage(nd)
    BY <1>1, <2>2, <2>3, TakePending DEF Underway
  <2>4. CASE Head(ch) # DataMessage(nd)
    BY <1>2, <2>1, <2>2, <2>4 DEF Underway, Pending
  <2>5. QED
    BY <2>3, <2>4
<1>5. CASE CountMessage \/ CountEvent
  <2>1. /\ UNCHANGED <<latest, value, sent, dropped, gauge, ch, msg, idx>>
        /\ Handling'
    BY <1>5 DEF CountMessage, CountEvent, Handling
  <2>2. QED
    BY <1>2, <2>1 DEF Underway, Pending
<1>6. CASE HandleRecord
  <2> DEFINE m0 == Handlers(msg.node)[idx]
  <2>1. /\ UNCHANGED <<latest, value, sent, dropped, ch, msg>>
        /\ Handling /\ Handling'
    BY <1>6 DEF HandleRecord, Handling
  <2>2. /\ msg \in DataMessages /\ msg.node \in Nodes /\ IsOf(msg, msg.node)
        /\ msg.ver \in Nat /\ idx \in Nat /\ idx' = idx + 1
    BY <1>6, <2>1 DEF TypeOK, HandleRecord, DataMessages, IsOf
  <2>3. m0 \in MetricsOf(msg.node) /\ m0 \in Metrics
    BY <1>6, HandlersType DEF HandleRecord, MetricsOf
  <2>5. gauge \in [Metrics -> Nat]
    BY DEF TypeOK
  <2>4. gauge' = IF msg.val \in Accepts[m0]
                 THEN [gauge EXCEPT ![m0] = msg.ver] ELSE gauge
    BY <1>6, <2>3, <2>5 DEF HandleRecord
  <2>6. CASE gauge[m] = latest[nd]
    <3>1. m = m0 => msg.node = nd
      BY <2>3, MetricUnique
    <3>2. m = m0 => gauge[m] <= msg.ver /\ msg.ver <= latest[nd]
      BY <2>1, <2>2, <2>3, <3>1 DEF VersionsOrdered
    <3>3. m = m0 => msg.ver = latest[nd]
      BY <1>1, <2>2, <2>5, <2>6, <3>2
    <3>4. gauge'[m] = latest[nd]
      BY <1>1, <2>4, <2>5, <2>6, <3>3
    <3>5. QED
      BY <2>1, <3>4 DEF Underway
  <2>7. CASE \E i \in DOMAIN ch : ch[i] = DataMessage(nd)
    BY <1>2, <2>1, <2>7 DEF Underway
  <2>8. CASE msg = DataMessage(nd) /\ Pending(m)
    <3>1. msg.val = value[nd] /\ msg.ver = latest[nd] /\ msg.node = nd
      BY <2>8 DEF DataMessage
    <3>2. PICK k \in DOMAIN Handlers(msg.node) :
            k >= idx /\ Handlers(msg.node)[k] = m
      BY <2>8 DEF Pending
    <3>3. k \in Nat
      BY HandlersType
    <3>4. CASE k = idx
      <4>1. gauge'[m] = latest[nd]
        BY <1>1, <2>1, <2>4, <2>5, <3>1, <3>2, <3>4
      <4>2. QED
        BY <2>1, <4>1 DEF Underway
    <3>5. CASE k >= idx + 1
      BY <1>2, <2>1, <2>2, <2>8, <3>2, <3>5 DEF Underway, Pending
    <3>6. QED
      BY <2>2, <3>2, <3>3, <3>4, <3>5
  <2>9. QED
    BY <1>2, <2>1, <2>6, <2>7, <2>8 DEF Underway
<1>7. CASE HandleDone
  <2>1. UNCHANGED <<latest, value, sent, dropped, gauge, ch>> /\ pc = "handle"
        /\ idx \notin DOMAIN Handlers(msg.node)
    BY <1>7 DEF HandleDone
  <2>2. ~Pending(m)
    <3>1. idx \in Nat \ {0}
      BY DEF TypeOK
    <3>2. DOMAIN Handlers(msg.node) = 1 .. Len(Handlers(msg.node))
          /\ Len(Handlers(msg.node)) \in Nat
      BY HandlersType
    <3>3. QED
      BY <2>1, <3>1, <3>2 DEF Pending
  <2>3. QED
    BY <1>2, <2>1, <2>2 DEF Underway
<1>8. CASE \E k \in Names : Publish(k)
  <2> PICK k \in Names : Publish(k)
    BY <1>8
  <2>1. NodeID[k] \in Nodes /\ DataMessage(NodeID[k]) \in Messages
    BY NodesAssumption, DataMessageType DEF Messages
  <2>2. UNCHANGED <<latest, value, gauge>> /\ Send(DataMessage(NodeID[k]))
    BY DEF Publish
  <2>3. dropped = 0
    BY <2>2 DEF Send, TypeOK, loopVars
  <2>4. Underway(nd, m) \/ DataMessage(NodeID[k]) = DataMessage(nd)
    <3>1. CASE n = k
      BY <3>1
    <3>2. CASE n # k
      <4>1. sent[n] = latest[nd]
        BY <2>2, <3>2 DEF Publish, TypeOK
      <4>2. QED
        BY <1>0, <2>2, <2>3, <4>1 DEF NothingLost, Underway
    <3>3. QED
      BY <3>1, <3>2
  <2>5. value[nd] \in Accepts[m]
    BY <2>2
  <2>6. QED
    BY <1>1, <2>1, <2>2, <2>4, <2>5, SendUnderway
<1>9. CASE PublishError
  <2>1. /\ UNCHANGED <<latest, value, gauge, sent>> /\ Send(ErrorMessage)
        /\ ErrorMessage \in Messages
    BY <1>9 DEF PublishError, Messages
  <2>2. dropped = 0
    BY <2>1 DEF Send, TypeOK, loopVars
  <2>3. Underway(nd, m) /\ value[nd] \in Accepts[m]
    BY <1>0, <2>1, <2>2 DEF NothingLost, Underway
  <2>4. QED
    BY <1>1, <2>1, <2>3, SendUnderway
<1>10. CASE \E d \in Nodes : Change(d)
  <2> PICK d \in Nodes : Change(d)
    BY <1>10
  <2>1. UNCHANGED <<sent, dropped, gauge, ch, msg, pc, idx>>
    BY DEF Change, loopVars
  <2>2. d # nd
    <3>1. sent[n] <= latest[nd] /\ sent[n] \in Nat /\ latest[nd] \in Nat
      BY <1>1 DEF VersionsOrdered, TypeOK
    <3>2. d = nd => latest'[nd] = latest[nd] + 1
      BY <1>1 DEF Change, TypeOK
    <3>3. QED
      BY <2>1, <3>1, <3>2
  <2>3. latest'[nd] = latest[nd] /\ value'[nd] = value[nd]
    BY <1>1, <2>2 DEF Change, TypeOK
  <2>4. QED
    BY <1>0, <2>1, <2>3 DEF NothingLost, Underway, DataMessage, Pending, Handling
<1>11. CASE Tick \/ Cancel \/ UNCHANGED vars
  <2>1. UNCHANGED <<latest, value, sent, dropped, gauge, ch, msg, pc, idx>>
    BY <1>11 DEF Tick, Cancel, vars, loopVars
  <2>2. QED
    BY <1>2, <2>1 DEF Underway, Pending, Handling
<1>12. CASE HandlePanics
  BY <1>12 DEF HandlePanics
<1>13. QED
  BY <1>3, <1>4, <1>5, <1>6, <1>7, <1>8, <1>9, <1>10, <1>11, <1>12
     DEF Next, LoopStep, Returned

\* Unless the library dropped a message, every metric shows the current value
\* of its node or that value is on its way through the channel and the loop.
THEOREM NothingLostCorrect == Spec => []NothingLost
<1>1. Init => NothingLost
  BY NodesAssumption DEF Init, NothingLost
<1>2. TypeOK /\ VersionsOrdered /\ ResultInv /\ NothingLost /\ [Next]_vars
        => NothingLost'
  BY NextNothingLost
<1>3. QED
  BY <1>1, <1>2, TypeCorrect, OrderCorrect, ResultCorrect, PTL DEF Spec

-----------------------------------------------------------------------------
(* Metrics of one node agree.                                              *)

\* MetricsOfNodeAgree made inductive: metrics differ only while an accepted
\* message is distributed, and a record that had its turn shows it.
AgreeInv ==
  /\ \A nd \in Nodes : \A m1, m2 \in MetricsOf(nd) :
       Accepts[m1] = Accepts[m2] =>
         \/ gauge[m1] = gauge[m2]
         \/ result = "panic"
         \/ /\ Handling /\ msg.node = nd /\ msg.val \in Accepts[m1]
            /\ Pending(m1) <=> ~Pending(m2)
  /\ Handling => \A m \in MetricsOf(msg.node) :
       ~Pending(m) /\ msg.val \in Accepts[m] => gauge[m] = msg.ver

\* A message that is taken is pending at every record of its node.
LEMMA TakeAllPending ==
  ASSUME TypeOK, NEW x \in Messages, Take(x), pc' = "count", pc = "select",
         NEW m \in MetricsOf(x.node)
  PROVE  Pending(m)' /\ msg'.node = x.node
<1>1. msg' = x /\ idx' = 1
  BY DEF Take, NextIteration
<1>2. \A k \in DOMAIN Handlers(x.node) : k >= 1
  BY HandlersType
<1>3. \E k \in DOMAIN Handlers(x.node) : k >= 1 /\ Handlers(x.node)[k] = m
  BY <1>2 DEF MetricsOf
<1>4. QED
  BY <1>1, <1>3 DEF Pending, Handling

\* Taking a message changes no gauge, so they agree as before.
LEMMA TakeAgrees ==
  ASSUME TypeOK, AgreeInv, NEW x \in Messages, Take(x), pc = "select",
         UNCHANGED gauge
  PROVE  AgreeInv'
<1>1. ~Handling /\ UNCHANGED result /\ pc' \in {"select", "count"}
  BY DEF Handling, Take, NextIteration
<1>2. Handling' => pc' = "count" /\ msg' = x
  BY DEF Handling, Take, NextIteration
<1>3. QED
  BY <1>1, <1>2, TakeAllPending DEF AgreeInv

LEMMA NextAgrees ==
  ASSUME TypeOK, ResultInv, AgreeInv, [Next]_vars
  PROVE  AgreeInv'
<1> USE DEF serverVars, chanVars, gaugeVars, envVars
<1>1. CASE HandleRecord
  <2>0. PICK m0, nd0 : nd0 = msg.node /\ m0 = Handlers(nd0)[idx]
    OBVIOUS
  <2>1. /\ UNCHANGED <<msg, pc, result>> /\ Handling /\ Handling'
        /\ result # "panic"
    BY <1>1 DEF HandleRecord, Handling, ResultInv, Ended
  <2>2. idx \in Nat /\ idx' = idx + 1 /\ idx \in DOMAIN Handlers(nd0)
    BY <1>1, <2>0 DEF TypeOK, HandleRecord
  <2>3. m0 \in MetricsOf(nd0) /\ m0 \in Metrics
    BY <1>1, <2>0, HandlersType DEF HandleRecord, MetricsOf
  <2>4. gauge \in [Metrics -> Nat]
    BY DEF TypeOK
  <2>5. gauge' = [gauge EXCEPT ![m0] =
                    IF msg.val \in Accepts[m0] THEN msg.ver ELSE gauge[m0]]
    BY <1>1, <2>0 DEF HandleRecord
  <2>6. Pending(m0) /\ ~Pending(m0)'
    <3>1. \A k \in DOMAIN Handlers(nd0) : k \in Nat /\ (Handlers(nd0)[k] = m0 => k = idx)
      BY <2>0, <2>2, RecordUnique, HandlersType
    <3>2. QED
      BY <2>0, <2>1, <2>2, <3>1 DEF Pending
  <2>7. \A m \in Metrics : m # m0 =>
          (Pending(m)' <=> Pending(m)) /\ gauge'[m] = gauge[m]
    <3>1. \A k \in DOMAIN Handlers(nd0) : k \in Nat
      BY HandlersType
    <3>2. \A k \in DOMAIN Handlers(nd0) : k >= idx + 1 <=> k >= idx /\ k # idx
      BY <2>2, <3>1
    <3>3. QED
      BY <2>0, <2>1, <2>2, <2>4, <2>5, <3>2 DEF Pending
  <2>8. \A nd \in Nodes : \A m \in MetricsOf(nd) :
          m \in Metrics /\ (m = m0 => nd = nd0)
    BY <2>3, HandlersType, MetricUnique
  <2>9. \A m \in MetricsOf(nd0) : m \in Metrics
    BY HandlersType
  <2>10. gauge'[m0] = IF msg.val \in Accepts[m0] THEN msg.ver ELSE gauge[m0]
    BY <2>3, <2>4, <2>5
  <2>11. ASSUME NEW nd \in Nodes, NEW m1 \in MetricsOf(nd),
                NEW m2 \in MetricsOf(nd), Accepts[m1] = Accepts[m2],
                gauge'[m1] # gauge'[m2]
         PROVE  /\ msg.node = nd /\ msg.val \in Accepts[m1]
                /\ Pending(m1)' <=> ~Pending(m2)'
    <3>1. CASE m1 # m0 /\ m2 # m0
      BY <2>0, <2>1, <2>7, <2>8, <2>11, <3>1 DEF AgreeInv
    <3>2. CASE m1 = m0 /\ m2 # m0
      <4>1. nd = nd0 /\ m2 \in Metrics /\ gauge'[m2] = gauge[m2]
        BY <2>7, <2>8, <3>2
      <4>2. msg.val \in Accepts[m1]
        BY <2>0, <2>1, <2>6, <2>10, <2>11, <3>2, <4>1 DEF AgreeInv
      <4>3. Pending(m2)
        BY <2>0, <2>1, <2>10, <2>11, <3>2, <4>1, <4>2 DEF AgreeInv
      <4>4. QED
        BY <2>0, <2>6, <2>7, <3>2, <4>1, <4>2, <4>3
    <3>3. CASE m2 = m0 /\ m1 # m0
      <4>1. nd = nd0 /\ m1 \in Metrics /\ gauge'[m1] = gauge[m1]
        BY <2>7, <2>8, <3>3
      <4>2. msg.val \in Accepts[m2]
        BY <2>0, <2>1, <2>6, <2>10, <2>11, <3>3, <4>1 DEF AgreeInv
      <4>3. Pending(m1)
        BY <2>0, <2>1, <2>10, <2>11, <3>3, <4>1, <4>2 DEF AgreeInv
      <4>4. QED
        BY <2>0, <2>6, <2>7, <2>11, <3>3, <4>1, <4>2, <4>3
    <3>4. QED
      BY <2>11, <3>1, <3>2, <3>3
  <2>12. ASSUME NEW m \in MetricsOf(nd0), ~Pending(m)', msg.val \in Accepts[m]
         PROVE  gauge'[m] = msg.ver
    BY <2>0, <2>1, <2>7, <2>9, <2>10, <2>12 DEF AgreeInv
  <2>13. QED
    BY <2>0, <2>1, <2>11, <2>12 DEF AgreeInv
<1>2. CASE HandleDone
  <2>1. UNCHANGED <<gauge, result>> /\ ~Handling' /\ pc = "handle"
    BY <1>2 DEF HandleDone, NextIteration, Handling
  <2>2. \A m : ~Pending(m)
    <3>1. idx \in Nat \ {0} /\ idx \notin DOMAIN Handlers(msg.node)
      BY <1>2 DEF TypeOK, HandleDone
    <3>2. DOMAIN Handlers(msg.node) = 1 .. Len(Handlers(msg.node))
          /\ Len(Handlers(msg.node)) \in Nat
      BY HandlersType
    <3>3. \A k \in DOMAIN Handlers(msg.node) : k \in Nat /\ k <= Len(Handlers(msg.node))
      BY <3>2
    <3>4. idx > Len(Handlers(msg.node))
      BY <3>1, <3>2
    <3>5. QED
      BY <3>1, <3>2, <3>3, <3>4 DEF Pending
  <2>3. QED
    BY <2>1, <2>2 DEF AgreeInv
<1>3. CASE HandlePanics
  BY <1>3 DEF HandlePanics, AgreeInv, Handling
<1>4. CASE CountMessage \/ CountEvent
  <2>1. UNCHANGED <<gauge, msg, idx, result>> /\ Handling /\ Handling'
    BY <1>4 DEF CountMessage, CountEvent, Handling
  <2>2. QED
    BY <2>1 DEF AgreeInv, Pending
<1>5. CASE \/ Subscribe \/ SubscribeFails \/ SubscribePanics
           \/ ReadTimesOut \/ ContextDone \/ Cleanup
  <2>1. /\ UNCHANGED gauge /\ ~Handling /\ ~Handling'
        /\ result = "panic" => result' = "panic"
    BY <1>5 DEF Subscribe, SubscribeFails, SubscribePanics, ReadTimesOut, ContextDone, Cleanup,
       NextIteration, Handling, ResultInv, Ended
  <2>2. QED
    BY <2>1 DEF AgreeInv
<1>6. CASE Receive
  <2>1. /\ Head(ch) \in Messages /\ Take(Head(ch)) /\ pc = "select"
        /\ UNCHANGED gauge
    BY <1>6 DEF TypeOK, Receive
  <2>2. QED
    BY <2>1, TakeAgrees
<1>7. CASE (\E n \in Names : Publish(n)) \/ PublishError
  <2>1. PICK x \in Messages : Send(x) /\ UNCHANGED gauge
    <3>1. ErrorMessage \in Messages
      BY DEF Messages
    <3>2. \A n \in Names : DataMessage(NodeID[n]) \in Messages
      BY NodesAssumption, DataMessageType DEF Messages
    <3>3. QED
      BY <1>7, <3>1, <3>2 DEF Publish, PublishError
  <2>2. CASE UNCHANGED loopVars
    BY <2>1, <2>2 DEF loopVars, AgreeInv, Pending, Handling
  <2>3. CASE pc = "select" /\ Take(x)
    BY <2>1, <2>3, TakeAgrees
  <2>4. QED
    BY <2>1, <2>2, <2>3 DEF Send
<1>8. CASE \/ \E nd \in Nodes : Change(nd)
           \/ Tick \/ Cancel \/ UNCHANGED vars
  BY <1>8 DEF Change, Tick, Cancel, vars, loopVars, AgreeInv, Pending, Handling
<1>9. QED
  BY <1>1, <1>2, <1>3, <1>4, <1>5, <1>6, <1>7, <1>8
     DEF Next, LoopStep, Returned

\* Metrics of the same node that convert the same values agree, but for the
\* message that is being distributed.
THEOREM AgreeCorrect == Spec => []MetricsOfNodeAgree
<1>1. Init => AgreeInv
  BY HandlersType DEF Init, AgreeInv, Handling
<1>2. TypeOK /\ ResultInv /\ AgreeInv /\ [Next]_vars => AgreeInv'
  BY NextAgrees
<1>3. AgreeInv => MetricsOfNodeAgree
  BY DEF AgreeInv, MetricsOfNodeAgree
<1>4. QED
  BY <1>1, <1>2, <1>3, TypeCorrect, ResultCorrect, PTL DEF Spec

-----------------------------------------------------------------------------
(* When the loop gives up.                                                 *)

\* GivesUpAfterTimeouts made inductive: the loop is still short of its limit
\* while it runs, and the uptime gauge is not ahead of the clock.
TimeoutInv ==
  /\ uptime <= now
  /\ result = "maxTimeouts" =>
       /\ pc \in {"cleanup", "done"}
       /\ MaxTimeouts > 0 /\ timeoutCount = MaxTimeouts
       /\ MaxTimeouts * ReadTimeout <= now
  /\ result # "maxTimeouts" => timeoutCount * ReadTimeout <= uptime
  /\ pc \notin {"cleanup", "done"} /\ MaxTimeouts > 0 =>
       timeoutCount < MaxTimeouts

\* Every step keeps the count of timeouts in step with the clock.
LEMMA NextTimeoutInv ==
  ASSUME TypeOK, TimeoutInv, [Next]_vars
  PROVE  TimeoutInv'
<1> USE ArgsType DEF serverVars, chanVars, gaugeVars, envVars
<1>0. /\ timeoutCount * ReadTimeout \in Int
      /\ MaxTimeouts * ReadTimeout \in Int
      /\ (timeoutCount + 1) * ReadTimeout
           = timeoutCount * ReadTimeout + ReadTimeout
  BY DEF TypeOK
<1> DEFINE t == timeoutCount * ReadTimeout
           M == MaxTimeouts * ReadTimeout
<1> HIDE DEF t, M
<1>a. ASSUME UNCHANGED <<timeoutCount, result, args, now>>,
             uptime' \in {uptime, now},
             pc \notin {"cleanup", "done"}, result # "maxTimeouts"
      PROVE  TimeoutInv'
  <2>1. t <= uptime /\ uptime <= now /\ t \in Int
    BY <1>0, <1>a DEF TimeoutInv, t
  <2>2. t <= uptime' /\ uptime' <= now
    BY <1>a, <2>1 DEF TypeOK
  <2>3. QED
    BY <1>a, <2>2 DEF TimeoutInv, t
<1>b. pc \notin {"cleanup", "done"} => result # "maxTimeouts"
  BY DEF TimeoutInv
<1>1. CASE Subscribe \/ CountMessage \/ CountEvent \/ HandleRecord \/ HandleDone
  BY <1>1, <1>a, <1>b DEF Subscribe, CountMessage, CountEvent, HandleRecord,
                          HandleDone, NextIteration
<1>2. CASE \/ SubscribeFails \/ SubscribePanics \/ HandlePanics
           \/ ContextDone \/ Cleanup
  BY <1>2 DEF SubscribeFails, SubscribePanics, HandlePanics, ContextDone, Cleanup, TimeoutInv
<1>3. CASE Receive
  BY <1>3, <1>a, <1>b DEF Receive, Take, NextIteration
<1>4. CASE ReadTimesOut
  <2>1. t <= uptime /\ uptime + ReadTimeout <= now /\ uptime <= now
    BY <1>4, <1>b DEF ReadTimesOut, TimeoutInv, TypeOK, t
  <2>2. t + ReadTimeout <= now
    BY <1>0, <2>1 DEF TypeOK, t
  <2>3. timeoutCount' = timeoutCount + 1 /\ timeoutCount' * ReadTimeout <= now
    BY <1>0, <1>4, <2>2 DEF ReadTimesOut, t
  <2>4. CASE MaxTimeouts > 0 /\ timeoutCount' >= MaxTimeouts
    <3>1. timeoutCount' = MaxTimeouts
      BY <1>4, <2>3, <2>4 DEF ReadTimesOut, TimeoutInv, TypeOK
    <3>2. QED
      BY <1>4, <2>1, <2>3, <2>4, <3>1 DEF ReadTimesOut, TimeoutInv
  <2>5. CASE ~(MaxTimeouts > 0 /\ timeoutCount' >= MaxTimeouts)
    <3>1. MaxTimeouts > 0 => timeoutCount' < MaxTimeouts
      BY <2>3, <2>5 DEF TypeOK
    <3>2. uptime' = now /\ now' = now /\ result' = result /\ now <= now
      BY <1>4, <2>5 DEF ReadTimesOut, NextIteration, TypeOK
    <3>3. pc' = "select"
      BY <1>4, <2>5 DEF ReadTimesOut, NextIteration
    <3>4. result # "maxTimeouts" /\ args' = args
      BY <1>4, <1>b DEF ReadTimesOut
    <3>5. QED
      BY <2>3, <3>1, <3>2, <3>3, <3>4 DEF TimeoutInv
  <2>6. QED
    BY <2>4, <2>5
<1>5. CASE (\E n \in Names : Publish(n)) \/ PublishError
  <2>1. PICK x : Send(x) /\ CanPublish /\ UNCHANGED <<args, now>>
    BY <1>5 DEF Publish, PublishError
  <2>2. CASE UNCHANGED loopVars
    <3>1. UNCHANGED <<uptime, now, args, result, pc, timeoutCount>>
      BY <2>1, <2>2 DEF loopVars
    <3>2. QED
      BY <3>1 DEF TimeoutInv
  <2>3. CASE pc = "select" /\ Take(x)
    BY <1>a, <1>b, <2>1, <2>3 DEF Take, NextIteration
  <2>4. QED
    BY <2>1, <2>2, <2>3 DEF Send
<1>6. CASE Tick
  <2>1. /\ UNCHANGED <<timeoutCount, uptime, pc, result, args>> /\ now' = now + 1
    BY <1>6 DEF Tick, loopVars
  <2>2. uptime <= now' /\ (M <= now => M <= now')
    BY <1>0, <2>1 DEF TimeoutInv, TypeOK, M
  <2>3. QED
    BY <2>1, <2>2 DEF TimeoutInv, M
<1>7. CASE (\E nd \in Nodes : Change(nd)) \/ Cancel \/ UNCHANGED vars
  BY <1>7 DEF Change, Cancel, vars, loopVars, TimeoutInv
<1>8. QED
  BY <1>1, <1>2, <1>3, <1>4, <1>5, <1>6, <1>7 DEF Next, LoopStep, Returned

\* The loop gives up only after --max-timeouts full read timeouts.
THEOREM GivesUpCorrect == Spec => []GivesUpAfterTimeouts
<1>1. Init => TimeoutInv
  BY NumbersAssumption DEF Init, TimeoutInv
<1>2. TypeOK /\ TimeoutInv /\ [Next]_vars => TimeoutInv'
  BY NextTimeoutInv
<1>3. TypeOK /\ TimeoutInv => GivesUpAfterTimeouts
  BY ArgsType DEF TypeOK, TimeoutInv, GivesUpAfterTimeouts
<1>4. QED
  BY <1>1, <1>2, <1>3, TypeCorrect, PTL DEF Spec
=============================================================================
