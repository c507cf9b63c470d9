---------------------------- MODULE EventReport ----------------------------
(***************************************************************************)
(* What the event summary promises whoever reads the log, without its      *)
(* mutex, its maps and its ticker: an event may be reported late or never, *)
(* but it is reported at most once and a report is never taken back.       *)
(***************************************************************************)
EXTENDS Integers

CONSTANT Channels

VARIABLES
  events,    \* events[c]: events of channel c so far
  reported   \* reported[c]: how many of them the log shows

vars == <<events, reported>>

Init ==
  /\ events = [c \in Channels |-> 0]
  /\ reported = [c \in Channels |-> 0]

Event(c) ==
  /\ events' = [events EXCEPT ![c] = @ + 1]
  /\ UNCHANGED reported

Report ==
  /\ reported' \in [Channels -> Nat]
  /\ \A c \in Channels :
       reported[c] <= reported'[c] /\ reported'[c] <= events[c]
  /\ UNCHANGED events

Next == (\E c \in Channels : Event(c)) \/ Report

Spec == Init /\ [][Next]_vars
=============================================================================
