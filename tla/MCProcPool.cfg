SPECIFICATION Spec
CONSTANTS
  NoFrame = NoFrame
  EmptyFrame = EmptyFrame
  pid_field = pid_field
  cpu_field = cpu_field
  Fields <- MCFields
  DefaultField <- pid_field
  ThreadMayFail = TRUE
  ProcMayFail = TRUE
  ProcMayBeEmpty = FALSE
INVARIANTS
  OneOwner
  NoTokenLost
  PoolOutlivesThread
  OrderSettles
  StatsOfLastFrames
PROPERTIES
  HandoffSpec
  StopTerminates
  FramesKeepComing
