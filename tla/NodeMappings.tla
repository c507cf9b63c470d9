---------------------------- MODULE NodeMappings ----------------------------
(***************************************************************************)
(* Node mappings and what internal/config/config.go and parseNodeFlag do   *)
(* with them.  A mapping says which metric mirrors which node and, with    *)
(* extractBit, which bit of it.  Of extractBit only the dynamic type and   *)
(* the sign matter: "none" (nil), "int", "negInt", "float" (a float64 that *)
(* is a non-negative integer), "fraction" (any other float64) and "text".  *)
(***************************************************************************)
EXTENDS Integers, Sequences

Mapping(node, metric, bit) == [node |-> node, metric |-> metric, bit |-> bit]

Bits == {"none", "int", "negInt", "float", "fraction", "text"}
Mappings == [node : STRING, metric : STRING, bit : Bits]

\* The elements of s that are in S, in their order: what a loop over s copies
\* into a new slice.
Keep(s, S) ==
  LET kept[i \in 0 .. Len(s)] ==
        IF i = 0 THEN <<>>
        ELSE IF s[i] \in S THEN Append(kept[i - 1], s[i])
        ELSE kept[i - 1]
  IN kept[Len(s)]
Elements(s) == {s[i] : i \in DOMAIN s}

\* A node flag that parseNodeFlag refuses: no comma, or a bit that is not a
\* number.
Malformed == Mapping("malformed", "malformed", "text")

\* NodeMapping.Validate
Valid(m) == m.node # "" /\ m.metric # "" /\ m.bit \in {"none", "int", "float"}

\* parseEnvNodeMappings: env[i] holds the variables of index i, "" for one
\* that is not set.  Reading stops at the first index without both names, and
\* an extractBit that is not a number is dropped.
EnvMapping(slot) ==
  Mapping(slot.node, slot.metric,
          IF slot.bit \in {"int", "negInt"} THEN slot.bit ELSE "none")

EnvMappings(env) ==
  LET Missing(i) == i > Len(env) \/ env[i].node = "" \/ env[i].metric = ""
      count == CHOOSE k \in 0 .. Len(env) :
                 Missing(k + 1) /\ \A i \in 1 .. k : ~Missing(i)
  IN [i \in 1 .. count |-> EnvMapping(env[i])]

\* filterValidNodeMappings
Filter(ms) == Keep(ms, {m \in Elements(ms) : m.node # "" /\ m.metric # ""})

\* Mutant: nothing is removed.
AddNodeMappingOnly(ms, m) == Append(ms, m)

\* AddNodeMapping: the mapping of a flag takes the place, at the end of the
\* list, of every mapping with its metric name.
AddNodeMapping(ms, m) ==
  Append(Keep(ms, {x \in Elements(ms) : x.metric # m.metric}), m)
=============================================================================
