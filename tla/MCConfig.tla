------------------------------ MODULE MCConfig ------------------------------
(***************************************************************************)
(* Instance of Config with one setting of each kind, each with the values  *)
(* that tell its rules apart in each of its sources.                       *)
(***************************************************************************)
EXTENDS Config

MCKeys == {"port", "maxTimeouts", "endpoint", "authMode", "dialTimeout"}
MCKind == [port |-> "defaultedNumber", maxTimeouts |-> "number",
           endpoint |-> "text", authMode |-> "requiredText",
           dialTimeout |-> "duration"]
MCGroup == [port |-> "basic", maxTimeouts |-> "basic", endpoint |-> "basic",
            authMode |-> "security", dialTimeout |-> "timeouts"]

MCYaml == [port : {Absent, "zero", "yaml"}, maxTimeouts : {Absent, "zero"},
           endpoint : {Absent, "yaml"},
           authMode : {Absent, "empty", "yaml"},
           dialTimeout : {Absent, "yaml", "malformed"}]
MCEnv == [port : {Absent, "zero", "empty", "env"},
          maxTimeouts : {Absent, "empty"}, endpoint : {Absent, "empty"},
          authMode : {Absent, "empty", "env"},
          dialTimeout : {Absent, "empty", "env"}]
MCFlags == [port : {Absent, "zero"}, maxTimeouts : {Absent},
            endpoint : {Absent},
            authMode : {Absent, "empty", "flag"},
            dialTimeout : {Absent, "flag"}]
=============================================================================
