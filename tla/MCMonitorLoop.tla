--------------------------- MODULE MCMonitorLoop ---------------------------
(***************************************************************************)
(* An instance of MonitorLoop: without a buffer and with one of two, with  *)
(* a read timer that fires at once and one that does not, without a limit  *)
(* on the timeouts (the default) and with a limit of two, and the negative *)
(* buffer size that make(chan) panics for.                                 *)
(***************************************************************************)
EXTENDS MonitorLoop

MCArguments ==
  [bufferSize : {-1, 0, 2}, readTimeout : {0, 1}, maxTimeouts : {0, 2}]
=============================================================================
