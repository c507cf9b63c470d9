------------------------------ MODULE Startup ------------------------------
(***************************************************************************)
(* From the configuration to the handler map: the node mappings of Load,   *)
(* the node flags, the time node (main.go) and the registration of every   *)
(* mapping as a Prometheus gauge with a handler (metrics/registry.go).     *)
(*                                                                         *)
(* The metric prefix is left out: it is the same for all mappings, so two  *)
(* prefixed names are equal exactly when the names are.                    *)
(***************************************************************************)
EXTENDS NodeMappings, FiniteSets

CONSTANTS
  YamlLists,    \* the lists of mappings a YAML file may hold
  EnvLists,     \* what the OPCUA_EXPORTER_NODES_<i>_* variables may hold
  FlagLists,    \* the lists of --node flags, Malformed or a mapping each
  Builtin,      \* names Register refuses from the start: those of the
                \* built-in metrics and those Prometheus finds invalid
  TimeMapping   \* the mapping of the server's time node

\* A YAML file may hold any mapping; the bit of a flag is an integer.
ASSUME SourcesAssumption ==
  /\ YamlLists \subseteq Seq(Mappings) /\ EnvLists \subseteq Seq(Mappings)
  /\ FlagLists \subseteq
       Seq({m \in Mappings :
              m.bit \in {"none", "int", "negInt"} \/ m = Malformed})
  /\ TimeMapping \in Mappings /\ Valid(TimeMapping)
  /\ TimeMapping.bit = "none"

VARIABLES
  yaml, env, flags,  \* the three sources
  timeNode,          \* --subscribe-to-time-node
  pc,                \* where main is
  todo,              \* the flags, then the mappings, not handled yet
  mappings,          \* cfg.NodeMappings, later the list "nodes" of main
  registered,        \* Builtin and the names registered so far
  records            \* the handler records in the order of registration

inputs == <<yaml, env, flags, timeNode>>
vars == <<inputs, pc, todo, mappings, registered, records>>

Init ==
  /\ yaml \in YamlLists /\ env \in EnvLists /\ flags \in FlagLists
  /\ timeNode \in BOOLEAN
  /\ pc = "load" /\ todo = <<>> /\ mappings = <<>>
  /\ registered = Builtin /\ records = <<>>

\* handlerMap[node]: the records of a node, in order.
HandlerMap(node) ==
  Keep(records, {r \in Elements(records) : r.node = node})

-----------------------------------------------------------------------------
(* config.Load, as far as the node mappings are concerned.                 *)

\* Environment variables replace the whole list of the YAML file.
Sourced == IF EnvMappings(env) # <<>> THEN EnvMappings(env) ELSE yaml

\* Mutant: nothing is validated.
LoadUnchecked ==
  /\ pc = "load"
  /\ mappings' = Filter(Sourced)
  /\ pc' = "flags" /\ todo' = flags
  /\ UNCHANGED <<inputs, registered, records>>

Load ==
  /\ pc = "load"
  /\ \A i \in DOMAIN Sourced : Valid(Sourced[i])
  /\ mappings' = Filter(Sourced)
  /\ pc' = "flags" /\ todo' = flags
  /\ UNCHANGED <<inputs, registered, records>>

\* One invalid mapping makes Load fail, and main ends with log.Fatalf.
LoadFails ==
  /\ pc = "load"
  /\ \E i \in DOMAIN Sourced : ~Valid(Sourced[i])
  /\ pc' = "fatal"
  /\ UNCHANGED <<inputs, todo, mappings, registered, records>>

-----------------------------------------------------------------------------
(* main.                                                                   *)

\* applyNodeFlagOverrides: a flag that does not parse is logged and skipped;
\* the others are added without the validation that Load does.
ApplyFlag ==
  /\ pc = "flags" /\ todo # <<>>
  /\ mappings' = IF Head(todo) = Malformed THEN mappings
                 ELSE AddNodeMapping(mappings, Head(todo))
  /\ todo' = Tail(todo)
  /\ UNCHANGED <<inputs, pc, registered, records>>

NoMappings ==
  /\ pc = "flags" /\ todo = <<>> /\ mappings = <<>>
  /\ pc' = "noMappings"
  /\ UNCHANGED <<inputs, todo, mappings, registered, records>>

\* The time node comes last, after the flags and without a look at whether a
\* mapping already uses its metric name.
AddTimeNode ==
  /\ pc = "flags" /\ todo = <<>> /\ mappings # <<>>
  /\ mappings' = IF timeNode THEN Append(mappings, TimeMapping) ELSE mappings
  /\ pc' = "register" /\ todo' = mappings'
  /\ UNCHANGED <<inputs, registered, records>>

-----------------------------------------------------------------------------
(* Registry.CreateFromNodeMappings: RegisterNodeMapping for one mapping.   *)

\* Mutant: the error of prometheus.Register is ignored.
RegisterAnyName ==
  /\ pc = "register" /\ todo # <<>>
  /\ LET m == Head(todo) IN
       /\ m.metric # ""
       /\ registered' = registered \cup {m.metric}
       /\ m.bit \in {"none", "int", "negInt"}
       /\ records' = Append(records, m)
  /\ todo' = Tail(todo)
  /\ UNCHANGED <<inputs, pc, mappings>>

Register ==
  /\ pc = "register" /\ todo # <<>>
  /\ LET m == Head(todo) IN
       /\ m.metric # "" /\ m.metric \notin registered
       /\ registered' = registered \cup {m.metric}
       /\ m.bit \in {"none", "int", "negInt"}
       /\ records' = Append(records, m)
  /\ todo' = Tail(todo)
  /\ UNCHANGED <<inputs, pc, mappings>>

\* No name, or a name that is taken.
RegisterRefused ==
  /\ pc = "register" /\ todo # <<>>
  /\ LET m == Head(todo) IN m.metric = "" \/ m.metric \in registered
  /\ pc' = "refused"
  /\ UNCHANGED <<inputs, todo, mappings, registered, records>>

\* Mutant: registration goes on after a failure.
RegisterBadBitGoesOn ==
  /\ pc = "register" /\ todo # <<>>
  /\ LET m == Head(todo) IN
       /\ m.metric # "" /\ m.metric \notin registered
       /\ m.bit \notin {"none", "int", "negInt"}
       /\ registered' = registered \cup {m.metric}
  /\ todo' = Tail(todo)
  /\ UNCHANGED <<inputs, pc, mappings, records>>

\* The type of extractBit is looked at after the gauge was registered.
RegisterBadBit ==
  /\ pc = "register" /\ todo # <<>>
  /\ LET m == Head(todo) IN
       /\ m.metric # "" /\ m.metric \notin registered
       /\ m.bit \notin {"none", "int", "negInt"}
       /\ registered' = registered \cup {m.metric}
  /\ pc' = "badBit"
  /\ UNCHANGED <<inputs, todo, mappings, records>>

AllRegistered ==
  /\ pc = "register" /\ todo = <<>>
  /\ pc' = "serving"
  /\ UNCHANGED <<inputs, todo, mappings, registered, records>>

Ended == pc \in {"fatal", "noMappings", "refused", "badBit", "serving"}
Finished == Ended /\ UNCHANGED vars

Next ==
  \/ Load \/ LoadFails \/ ApplyFlag \/ NoMappings \/ AddTimeNode
  \/ Register \/ RegisterRefused \/ RegisterBadBit \/ AllRegistered
  \/ Finished

Spec == Init /\ [][Next]_vars

-----------------------------------------------------------------------------
(* Properties.                                                             *)

\* Type invariant, with the place of the loop over the mappings.
TypeOK ==
  /\ pc \in {"load", "fatal", "flags", "noMappings", "register", "refused",
             "badBit", "serving"}
  /\ mappings \in Seq(Mappings) /\ todo \in Seq(Mappings)
  /\ records \in Seq(Mappings)
  /\ pc = "register" => Len(records) + Len(todo) = Len(mappings)

\* A metric has at most one handler record in the whole handler map, so two
\* nodes never write the same gauge; module Monitor builds on this.
OneRecordPerMetric ==
  \A i, j \in DOMAIN records : records[i].metric = records[j].metric => i = j

\* A gauge that is visible to scrapes has a handler that can set it: only a
\* registration that fails, and ends the start, leaves one without.
GaugesHaveHandlers ==
  pc # "badBit" =>
    registered = Builtin \cup {records[i].metric : i \in DOMAIN records}

\* The node flags that count: the last one for each metric, in their order.
Parsed(i) == flags[i] # Malformed
Counts(i) ==
  Parsed(i) /\ \A j \in i + 1 .. Len(flags) :
                 Parsed(j) => flags[j].metric # flags[i].metric
FlagMappings ==
  LET last == Keep([i \in DOMAIN flags |-> i], {i \in DOMAIN flags : Counts(i)})
  IN [k \in DOMAIN last |-> flags[last[k]]]
OverriddenByFlag(m) ==
  \E i \in DOMAIN flags : Parsed(i) /\ flags[i].metric = m.metric

\* What is registered, in this order, is what the order of precedence
\* promises: the nodes of the environment, or else of the YAML file, except
\* for the metrics that a flag defines; then the last flag of each metric;
\* then the time node.  A start that succeeds has left none of them out.
PrecedenceKept ==
  LET nodes == IF EnvMappings(env) # <<>> THEN EnvMappings(env) ELSE yaml IN
  pc \in {"register", "serving"} =>
    records \o todo =
      Keep(nodes, {m \in Elements(nodes) : ~OverriddenByFlag(m)})
      \o FlagMappings
      \o (IF timeNode THEN <<TimeMapping>> ELSE <<>>)

\* Only a node flag gets a handler without having passed Validate: one for a
\* negative bit or for an empty node name.  And of what passed, the registry
\* refuses no bit but a float64 of the YAML file, about which it disagrees
\* with Validate.
ValidatedUnlessFlag ==
  /\ \A i \in DOMAIN records :
       Valid(records[i]) \/ \E j \in DOMAIN flags : flags[j] = records[i]
  /\ pc = "badBit" =>
       /\ Valid(Head(todo)) /\ Head(todo).bit = "float"
       /\ \E i \in DOMAIN yaml : yaml[i] = Head(todo)
=============================================================================
