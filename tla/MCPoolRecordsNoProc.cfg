SPECIFICATION Spec
CONSTANTS
  b1 = b1
  b2 = b2
  b3 = b3
  b4 = b4
  Pids <- MCPids
  Self <- MCSelf
  Blocks <- MCBlocks
  NULL = NULL
  MaxIncarnation = 1
  Slack = 1
  ProcMayFail = TRUE
  FilesMayFail = FALSE
INVARIANTS
  NoDanglingRow
