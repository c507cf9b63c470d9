--------------------------- MODULE MCAppLifecycle ---------------------------
(* Instances of AppLifecycle: each number around the value where it bites,  *)
(* one at a time.                                                           *)
EXTENDS AppLifecycle

Sane == [bufferSize |-> 0, interval |-> 1, maxTimeouts |-> 1]
SaneConfig == {Sane}
MCConfigs == {Sane, [Sane EXCEPT !.bufferSize = -1],
              [Sane EXCEPT !.interval = 0, !.maxTimeouts = 0]}
=============================================================================
