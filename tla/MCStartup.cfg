SPECIFICATION Spec
CONSTANTS
  YamlLists <- MCYamlLists
  EnvLists <- MCEnvLists
  FlagLists <- MCFlagLists
  Builtin <- MCBuiltin
  TimeMapping <- MCTimeMapping
INVARIANTS
  TypeOK
  OneRecordPerMetric
  GaugesHaveHandlers
  PrecedenceKept
  ValidatedUnlessFlag
