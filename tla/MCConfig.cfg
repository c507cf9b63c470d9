SPECIFICATION Spec
CONSTANTS
  Keys <- MCKeys
  Kind <- MCKind
  Group <- MCGroup
  YamlSettings <- MCYaml
  EnvSettings <- MCEnv
  FlagSettings <- MCFlags
INVARIANTS
  BestSourceWins
  RequiredTextFilled
