SPECIFICATION Spec
CONSTANTS
  NoFrame = NoFrame
  EmptyFrame = EmptyFrame
  pid_field = pid_field
  cpu_field = cpu_field
  Fields <- MCFields
  DefaultField <- pid_field
  ThreadMayFail = FALSE
  ProcMayFail = FALSE
  ProcMayBeEmpty = FALSE
PROPERTIES
  SampledEveryCycle
