------------------------------- MODULE Config -------------------------------
(***************************************************************************)
(* Where the scalar settings come from: config.Load and the overrides by   *)
(* command-line flags in main.go.  The node mappings follow rules of their *)
(* own, in modules NodeMappings and Startup; here they only may make Load  *)
(* fail.                                                                   *)
(*                                                                         *)
(* Of a value only its origin matters and whether it is a zero value or    *)
(* cannot be converted.  "number" stands for booleans too.                 *)
(***************************************************************************)

CONSTANTS
  Keys,           \* settings
  Kind,           \* Kind[k]: "number", "defaultedNumber", "text",
                  \* "requiredText" or "duration"
  Group,          \* Group[k]: "basic", "security" or "timeouts"
  YamlSettings,   \* what a YAML file may hold: functions on Keys
  EnvSettings,    \* what the environment may hold
  FlagSettings    \* what the command line may hold

Groups == {"basic", "security", "timeouts"}

ASSUME ConfigAssumption ==
  Group \in [Keys -> Groups] /\ Kind \in [Keys -> STRING]

Absent == "absent"
Default == "default"

VARIABLES
  fileFlag,   \* the file that --config names, if any
  yaml, env, flag,   \* the sources
  mappings,   \* whether the node mappings of file and environment are valid
  pc,
  loaded,     \* configFileLoaded
  cfg         \* the configuration

inputs == <<fileFlag, yaml, env, flag, mappings>>
vars == <<inputs, pc, loaded, cfg>>

\* A file may be missing, unreadable, a list of mappings or a proper map of
\* settings; only the last has settings.  The README of the exporter documents
\* a list as a file that --config accepts, but viper reads maps only.
Files == {"none", "missing", "unreadable", "list", "map"}

Init ==
  /\ fileFlag \in Files
  /\ yaml \in YamlSettings /\ env \in EnvSettings /\ flag \in FlagSettings
  /\ mappings \in {"valid", "invalid"}
  /\ fileFlag # "map" => \A k \in Keys : yaml[k] = Absent
  /\ pc = "read" /\ loaded = FALSE /\ cfg = [k \in Keys |-> Default]

-----------------------------------------------------------------------------
(* config.Load.                                                            *)

\* The path comes from the flag only.  A missing file is no error.
ReadFile ==
  /\ pc = "read" /\ fileFlag \notin {"unreadable", "list"}
  /\ loaded' = (fileFlag = "map") /\ pc' = "unmarshal"
  /\ UNCHANGED <<inputs, cfg>>

\* Any other error of viper's is one of Load: a file that cannot be read or is
\* not YAML, and a list.
ReadFails ==
  /\ pc = "read" /\ fileFlag \in {"unreadable", "list"}
  /\ pc' = "fatal"
  /\ UNCHANGED <<inputs, loaded, cfg>>

\* Mutant: without AllowEmptyEnv.
SourcedNotEmpty(k) ==
  IF env[k] \notin {Absent, "empty"} THEN env[k]
  ELSE IF loaded /\ yaml[k] # Absent THEN yaml[k] ELSE Default

\* viper: the environment, also an empty variable, beats the file.
Sourced(k) ==
  IF env[k] # Absent THEN env[k]
  ELSE IF loaded /\ yaml[k] # Absent THEN yaml[k] ELSE Default

\* viper's conversion: empty text is the number 0 but not a duration.
Converts(k, v) ==
  v # "malformed" /\ (Kind[k] = "duration" => v # "empty")
Converted(k, v) ==
  IF v = "empty" /\ Kind[k] \in {"number", "defaultedNumber"} THEN "zero"
  ELSE v

Unmarshal ==
  /\ pc = "unmarshal" /\ \A k \in Keys : Converts(k, Sourced(k))
  /\ cfg' = [k \in Keys |-> Converted(k, Sourced(k))]
  /\ pc' = "securityDefaults"
  /\ UNCHANGED <<inputs, loaded>>

UnmarshalFails ==
  /\ pc = "unmarshal" /\ \E k \in Keys : ~Converts(k, Sourced(k))
  /\ pc' = "fatal"
  /\ UNCHANGED <<inputs, loaded, cfg>>

\* Mutant: an empty mode is left empty.
SkipSecurityDefaults ==
  /\ pc = "securityDefaults" /\ pc' = "zeroDefaults"
  /\ UNCHANGED <<inputs, loaded, cfg>>

ApplySecurityDefaults ==
  /\ pc = "securityDefaults"
  /\ cfg' = [k \in Keys |->
               IF Kind[k] = "requiredText" /\ cfg[k] = "empty"
               THEN Default ELSE cfg[k]]
  /\ pc' = "zeroDefaults"
  /\ UNCHANGED <<inputs, loaded>>

\* Mutant: every zero becomes the default.
ZeroDefaultsForAll ==
  /\ pc = "zeroDefaults"
  /\ cfg' = [k \in Keys |-> IF cfg[k] = "zero" THEN Default ELSE cfg[k]]
  /\ pc' = "mappings"
  /\ UNCHANGED <<inputs, loaded>>

\* Mutant: with or without a file.
ZeroDefaultsAlways ==
  /\ pc = "zeroDefaults"
  /\ cfg' = [k \in Keys |->
               IF Kind[k] = "defaultedNumber" /\ cfg[k] = "zero"
               THEN Default ELSE cfg[k]]
  /\ pc' = "mappings"
  /\ UNCHANGED <<inputs, loaded>>

\* Only with a file, but then for values of the environment too.
ApplyZeroValueDefaults ==
  /\ pc = "zeroDefaults"
  /\ cfg' = [k \in Keys |->
               IF loaded /\ Kind[k] = "defaultedNumber" /\ cfg[k] = "zero"
               THEN Default ELSE cfg[k]]
  /\ pc' = "mappings"
  /\ UNCHANGED <<inputs, loaded>>

\* The node mappings are validated last.
MappingsValid ==
  /\ pc = "mappings" /\ mappings = "valid"
  /\ pc' = "basic"
  /\ UNCHANGED <<inputs, loaded, cfg>>

MappingsFail ==
  /\ pc = "mappings" /\ mappings = "invalid"
  /\ pc' = "fatal"
  /\ UNCHANGED <<inputs, loaded, cfg>>

-----------------------------------------------------------------------------
(* main: the flags that were set on the command line, group by group.      *)

After == [basic |-> "security", security |-> "timeouts", timeouts |-> "done"]

\* Mutant: an empty flag does not count.
ApplyFilledFlags(g) ==
  /\ pc = g
  /\ cfg' = [k \in Keys |->
               IF Group[k] = g /\ flag[k] \notin {Absent, "empty"}
               THEN flag[k] ELSE cfg[k]]
  /\ pc' = After[g]
  /\ UNCHANGED <<inputs, loaded>>

ApplyFlags(g) ==
  /\ pc = g
  /\ cfg' = [k \in Keys |-> IF Group[k] = g /\ flag[k] # Absent
                            THEN flag[k] ELSE cfg[k]]
  /\ pc' = After[g]
  /\ UNCHANGED <<inputs, loaded>>

Finished == pc \in {"done", "fatal"} /\ UNCHANGED vars

Next ==
  \/ ReadFile \/ ReadFails \/ Unmarshal \/ UnmarshalFails
  \/ ApplySecurityDefaults \/ ApplyZeroValueDefaults
  \/ MappingsValid \/ MappingsFail
  \/ \E g \in Groups : ApplyFlags(g)
  \/ Finished

Spec == Init /\ [][Next]_vars

-----------------------------------------------------------------------------
(* Properties.                                                             *)

\* The source that counts when there is no flag.
BelowFlags(k) ==
  IF env[k] # Absent THEN env[k]
  ELSE IF fileFlag = "map" /\ yaml[k] # Absent THEN yaml[k] ELSE Default

\* A flag that was set wins, whatever the other sources and the two rounds of
\* defaults did before.  Without one, a setting without rules of its own has
\* the value of its best source, and an empty variable or a zero is a value
\* like any other.  The port and the buffer size have a rule of their own: as
\* soon as a file was loaded, and only then, a zero gives way to the default,
\* also one that comes from the environment and the file says nothing about.
BestSourceWins ==
  pc = "done" =>
    \A k \in Keys :
      LET best == Converted(k, BelowFlags(k)) IN
      IF flag[k] # Absent THEN cfg[k] = flag[k]
      ELSE /\ Kind[k] \in {"number", "text", "duration"} => cfg[k] = best
           /\ Kind[k] = "defaultedNumber" =>
                cfg[k] = IF best = "zero" /\ fileFlag = "map" THEN Default
                         ELSE best

\* The security mode, policy and authentication mode are empty only if a flag
\* says so: the connection is refused for none of the other sources' blanks.
RequiredTextFilled ==
  pc = "done" =>
    \A k \in Keys :
      Kind[k] = "requiredText" /\ cfg[k] = "empty" => flag[k] = "empty"
=============================================================================
