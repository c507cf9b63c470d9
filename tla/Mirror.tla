------------------------------- MODULE Mirror -------------------------------
(***************************************************************************)
(* What the exporter promises whoever scrapes it, without the channel, the *)
(* timers and the goroutines: a metric mirrors its node with a delay.  It  *)
(* shows one of the values the node has had, possibly skipping some, and   *)
(* never goes back to an older one.                                        *)
(***************************************************************************)
EXTENDS Integers

CONSTANTS
  Nodes,        \* the nodes of the server
  Metrics,      \* the metrics of the exporter
  MetricsOf(_)  \* MetricsOf(nd): the metrics that mirror node nd

VARIABLES
  latest,       \* latest[nd]: how many values node nd has had
  gauge         \* gauge[m]: which of them metric m shows, 0 before the first

vars == <<latest, gauge>>

Init ==
  /\ latest = [nd \in Nodes |-> 1]
  /\ gauge = [m \in Metrics |-> 0]

\* The node takes a new value.
Change(nd) ==
  /\ latest' = [latest EXCEPT ![nd] = @ + 1]
  /\ UNCHANGED gauge

\* One metric moves on to the value with number v.
Show(nd, m, v) ==
  /\ gauge[m] < v
  /\ gauge' = [gauge EXCEPT ![m] = v]
  /\ UNCHANGED latest

Next ==
  \E nd \in Nodes :
    \/ Change(nd)
    \/ \E m \in MetricsOf(nd) : \E v \in 1 .. latest[nd] : Show(nd, m, v)

Spec == Init /\ [][Next]_vars
=============================================================================
