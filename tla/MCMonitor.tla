----------------------------- MODULE MCMonitor -----------------------------
(***************************************************************************)
(* Instances of Monitor.  Node "a" feeds two metrics (say a plain one and  *)
(* one bit of it), node "b" feeds one.  "int" is converted by every        *)
(* handler, "text" by none; "null" is a null variant, which a handler of a *)
(* bit panics on; "nil" is a message without a variant.                    *)
(***************************************************************************)
EXTENDS Monitor

MCNames == {"a", "b"}
MCMetrics == {"a_value", "a_bit", "b_value"}
MCHandlerMap == [n \in MCNames |->
                   IF n = "a" THEN <<"a_value", "a_bit">> ELSE <<"b_value">>]
MCNodeID == [n \in MCNames |-> n]

\* A name that the server's node id does not print as: "ns=0;i=2258" is
\* parsed to the node id that prints as "i=2258".
AliasNames == {"ns=0;i=2258", "ns=2;s=x"}
AliasNodes == {"i=2258", "ns=2;s=x"}
AliasMetrics == {"time", "x"}
AliasHandlerMap == [n \in AliasNames |->
                      IF n = "ns=0;i=2258" THEN <<"time">> ELSE <<"x">>]
AliasNodeID == [n \in AliasNames |->
                  IF n = "ns=0;i=2258" THEN "i=2258" ELSE n]

\* The flags: a buffer without a limit on the timeouts (the default), no
\* buffer with a limit of two, and a size that make(chan) panics for.
MCArguments ==
  {[bufferSize |-> 2, readTimeout |-> 1, maxTimeouts |-> 0],
   [bufferSize |-> 0, readTimeout |-> 1, maxTimeouts |-> 2],
   [bufferSize |-> -1, readTimeout |-> 1, maxTimeouts |-> 0]}
AliasArguments == {[bufferSize |-> 2, readTimeout |-> 1, maxTimeouts |-> 0]}

MCValues == {"int", "null", "nil"}
AliasValues == {"int", "text", "nil"}
MCAccepts == [m \in MCMetrics |-> {"int"}]
MCPanics == [m \in MCMetrics |-> IF m = "a_bit" THEN {"null"} ELSE {}]
AliasPanics == [m \in AliasMetrics |-> {}]
AliasAccepts == [m \in AliasMetrics |-> {"int"}]

=============================================================================
