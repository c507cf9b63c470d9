---------------------------- MODULE ConfigProofs ----------------------------
(***************************************************************************)
(* Proofs about Config, for any settings, kinds, groups and contents of    *)
(* the three sources.                                                      *)
(***************************************************************************)
EXTENDS Config, TLAPS

USE DEF inputs, Absent, Default

Loading == {"read", "unmarshal"}

\* The steps that are behind once group g is done with.
Past == [basic |-> {"security", "timeouts", "done"},
         security |-> {"timeouts", "done"}, timeouts |-> {"done"}]

\* A number with a default after applyZeroValueDefaults.
WithDefault(v) == IF v = "zero" /\ fileFlag = "map" THEN Default ELSE v

\* What is known of the setting k from Unmarshal on: a flag that was applied
\* stays; without one the best source counts, but for the defaults.
SettingInv(k) ==
  IF pc \in Past[Group[k]] /\ flag[k] # Absent THEN cfg[k] = flag[k]
  ELSE /\ Kind[k] \in {"number", "text", "duration"} =>
            cfg[k] = Converted(k, BelowFlags(k))
       /\ Kind[k] = "defaultedNumber" =>
            cfg[k] = IF pc \in {"securityDefaults", "zeroDefaults"}
                     THEN Converted(k, BelowFlags(k))
                     ELSE WithDefault(Converted(k, BelowFlags(k)))
       /\ Kind[k] = "requiredText" /\ cfg[k] = "empty" =>
            pc = "securityDefaults"

IInv ==
  /\ pc \in Loading \cup Groups \cup
            {"securityDefaults", "zeroDefaults", "mappings", "done", "fatal"}
  /\ pc \notin {"read", "fatal"} => loaded = (fileFlag = "map")
  /\ pc \notin Loading \cup {"fatal"} => \A k \in Keys : SettingInv(k)

\* Nothing is read yet.
LEMMA InitInv == Init => IInv
BY DEF Init, IInv, Loading

\* After the file was read, Sourced is the best source below the flags.
LEMMA SourcedIsBest ==
  ASSUME NEW k, loaded = (fileFlag = "map")
  PROVE  Sourced(k) = BelowFlags(k)
BY DEF Sourced, BelowFlags

\* One group of flags: the settings of the group are those of the flags, the
\* others stay.
LEMMA FlagsInv ==
  ASSUME IInv, NEW g \in Groups, ApplyFlags(g)
  PROVE  IInv'
<1> USE ConfigAssumption
<1>1. /\ pc = g /\ pc' = After[g] /\ UNCHANGED <<inputs, loaded>>
      /\ After[g] \in Groups \cup {"done"}
  BY DEF ApplyFlags, After, Groups
<1>2. pc \notin {"securityDefaults", "zeroDefaults"}
      /\ pc' \notin {"securityDefaults", "zeroDefaults"}
  BY <1>1 DEF Groups
<1>3. ASSUME NEW k \in Keys
      PROVE  SettingInv(k)'
  <2>1. /\ SettingInv(k) /\ Group[k] \in Groups
        /\ BelowFlags(k)' = BelowFlags(k) /\ flag'[k] = flag[k]
    BY <1>1 DEF IInv, Loading, Groups, BelowFlags
  <2>2. /\ Converted(k, BelowFlags(k))' = Converted(k, BelowFlags(k))
        /\ WithDefault(Converted(k, BelowFlags(k)))'
             = WithDefault(Converted(k, BelowFlags(k)))
    BY <1>1, <2>1 DEF Converted, WithDefault
  <2>3. cfg'[k] = IF Group[k] = g /\ flag[k] # Absent THEN flag[k] ELSE cfg[k]
    BY DEF ApplyFlags
  <2>4. CASE Group[k] = g
    <3>1. pc \notin Past[g] /\ pc' \in Past[g]
      BY <1>1 DEF Past, After, Groups
    <3>2. QED
      BY <1>1, <1>2, <2>1, <2>2, <2>3, <2>4, <3>1 DEF SettingInv, Groups
  <2>5. CASE Group[k] # g
    <3>1. pc \in Past[Group[k]] <=> pc' \in Past[Group[k]]
      BY <1>1, <2>1, <2>5 DEF Past, After, Groups
    <3>2. cfg'[k] = cfg[k]
      BY <2>3, <2>5
    <3>3. QED
      BY <1>1, <1>2, <2>1, <2>2, <3>1, <3>2 DEF SettingInv, Groups
  <2>6. QED
    BY <2>4, <2>5
<1>4. QED
  BY <1>1, <1>3 DEF IInv, Loading, Groups

\* No step of Load or of main breaks the invariant.
LEMMA NextInv ==
  ASSUME IInv, [Next]_vars
  PROVE  IInv'
<1> USE ConfigAssumption
<1>1. CASE ReadFile
  BY <1>1 DEF ReadFile, IInv, Loading
<1>2. CASE ReadFails
  BY <1>2 DEF ReadFails, IInv, Loading
<1>3. CASE Unmarshal
  <2>1. loaded = (fileFlag = "map")
    BY <1>3 DEF Unmarshal, IInv
  <2>2. \A k \in Keys : Sourced(k) = BelowFlags(k)
    BY <2>1, SourcedIsBest
  <2>3. pc' = "securityDefaults" /\ UNCHANGED <<inputs, loaded>>
    BY <1>3 DEF Unmarshal
  <2>5. ASSUME NEW k \in Keys
        PROVE  SettingInv(k)'
    <3>1. cfg'[k] = Converted(k, BelowFlags(k))
      BY <1>3, <2>2 DEF Unmarshal
    <3>2. Converted(k, BelowFlags(k))' = Converted(k, BelowFlags(k))
      BY <2>3 DEF Converted, BelowFlags
    <3>3. pc' \notin Past[Group[k]]
      BY <2>3 DEF Past, Groups
    <3>4. QED
      BY <2>3, <3>1, <3>2, <3>3 DEF SettingInv
  <2>6. QED
    BY <2>1, <2>3, <2>5 DEF IInv, Loading, Groups
<1>4. CASE UnmarshalFails \/ MappingsFail
  BY <1>4 DEF UnmarshalFails, MappingsFail, IInv, Loading
<1>5. CASE ApplySecurityDefaults \/ ApplyZeroValueDefaults \/ MappingsValid
  <2>1. /\ \/ pc = "securityDefaults" /\ pc' = "zeroDefaults"
           \/ pc = "zeroDefaults" /\ pc' = "mappings"
           \/ pc = "mappings" /\ pc' = "basic"
        /\ UNCHANGED <<inputs, loaded>>
    BY <1>5 DEF ApplySecurityDefaults, ApplyZeroValueDefaults, MappingsValid
  <2>2. loaded = (fileFlag = "map")
    BY <2>1 DEF IInv
  <2>3. ASSUME NEW k \in Keys
        PROVE  SettingInv(k)'
    <3>1. /\ SettingInv(k) /\ Group[k] \in Groups
          /\ Converted(k, BelowFlags(k))' = Converted(k, BelowFlags(k))
          /\ WithDefault(Converted(k, BelowFlags(k)))'
               = WithDefault(Converted(k, BelowFlags(k)))
      BY <2>1 DEF IInv, Loading, Converted, BelowFlags, WithDefault
    <3>2. pc \notin Past[Group[k]] /\ pc' \notin Past[Group[k]]
      BY <2>1, <3>1 DEF Past, Groups
    <3>3. CASE ApplySecurityDefaults
      BY <2>1, <3>1, <3>2, <3>3 DEF SettingInv, ApplySecurityDefaults
    <3>4. CASE ApplyZeroValueDefaults
      BY <2>1, <2>2, <3>1, <3>2, <3>4
         DEF SettingInv, ApplyZeroValueDefaults, WithDefault
    <3>5. CASE MappingsValid
      BY <2>1, <3>1, <3>2, <3>5 DEF SettingInv, MappingsValid
    <3>6. QED
      BY <1>5, <3>3, <3>4, <3>5
  <2>4. QED
    BY <2>1, <2>2, <2>3 DEF IInv, Loading, Groups
<1>6. CASE \E g \in Groups : ApplyFlags(g)
  BY <1>6, FlagsInv
<1>7. CASE Finished \/ UNCHANGED vars
  <2>1. UNCHANGED <<inputs, pc, loaded, cfg>>
    BY <1>7 DEF Finished, vars
  <2>2. QED
    BY <2>1 DEF IInv, SettingInv, Converted, BelowFlags, WithDefault
<1>8. QED
  BY <1>1, <1>2, <1>3, <1>4, <1>5, <1>6, <1>7 DEF Next

\* So the invariant always holds.
LEMMA Invariance == Spec => []IInv
BY InitInv, NextInv, PTL DEF Spec

\* When all is done, a setting is that of its flag, or of its best source, but
\* for a zero of the port or the buffer size once a file was loaded.
THEOREM BestSourceCorrect == Spec => []BestSourceWins
<1>1. ASSUME IInv, pc = "done", NEW k \in Keys
      PROVE  SettingInv(k) /\ pc \in Past[Group[k]]
  BY <1>1, ConfigAssumption DEF IInv, Loading, Groups, Past
<1>2. IInv => BestSourceWins
  BY <1>1 DEF BestSourceWins, SettingInv, WithDefault
<1>3. QED
  BY <1>2, Invariance, PTL

\* Only a flag can leave a mode or a policy empty.
THEOREM RequiredTextCorrect == Spec => []RequiredTextFilled
<1>1. IInv => RequiredTextFilled
  BY ConfigAssumption
     DEF IInv, RequiredTextFilled, SettingInv, Past, Groups, Loading
<1>2. QED
  BY <1>1, Invariance, PTL
=============================================================================
