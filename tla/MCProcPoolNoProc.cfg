SPECIFICATION Spec
CONSTANTS
  NoFrame = NoFrame
  EmptyFrame = EmptyFrame
  pid_field = pid_field
  cpu_field = cpu_field
  Fields <- MCFields
  DefaultField <- pid_field
  ThreadMayFail = FALSE
  ProcMayFail = FALSE
  ProcMayBeEmpty = TRUE
PROPERTIES
  StopTerminates
CHECK_DEADLOCK FALSE
