SPECIFICATION Spec
CONSTANT
  Arguments <- MCArguments
PROPERTIES
  DeliveredIsShown
  CancelEndsLoop
  SilenceEndsLoop
