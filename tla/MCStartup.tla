----------------------------- MODULE MCStartup -----------------------------
(***************************************************************************)
(* Instance of Startup.  Node "n" and metric "b" appear in every source,   *)
(* so that flags override, names clash and a node feeds several metrics;   *)
(* "t" is the metric of the time node and "up" a built-in one.             *)
(***************************************************************************)
EXTENDS Startup

UpTo(S, k) == UNION {[1 .. i -> S] : i \in 0 .. k}

YamlMappings == {Mapping("n", "a", "none"), Mapping("n", "b", "int"),
                 Mapping("p", "b", "float"), Mapping("p", "t", "fraction"),
                 Mapping("", "c", "none")}
MCYamlLists == UpTo(YamlMappings, 2)

Slots == {Mapping("p", "b", "text"), Mapping("n", "c", "int"),
          Mapping("n", "", "none"), Mapping("n", "d", "negInt")}
MCEnvLists == UpTo(Slots, 2)

Flags == {Mapping("f", "b", "none"), Mapping("n", "b", "negInt"),
          Mapping("f", "up", "none"), Mapping("f", "", "none"),
          Mapping("f", "e", "int")}
MCFlagLists == UpTo(Flags, 2) \cup {<<Malformed, f>> : f \in Flags}

MCBuiltin == {"up"}
MCTimeMapping == Mapping("i=2258", "t", "none")
=============================================================================
