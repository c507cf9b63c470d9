--------------------------- MODULE MCEventSummary ---------------------------
(* Instances of EventSummary, with two channels.                            *)
EXTENDS EventSummary

CONSTANTS c1, c2
MCChannels == {c1, c2}
=============================================================================
