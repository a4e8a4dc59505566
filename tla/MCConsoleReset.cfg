CONSTANTS
  NEVER = 99
  Horizon = 6
  Period <- MCPeriod
  LinesPerFrame = 3
  VisibleLines = 2
  CpuCycles = {1, 3}
  DmaHolds = {0, 2}
  DmaGaps = {0}
  RetryCycles = 1
  AckDelays = {2}
  HostOps = {"reset"}
  Watched = {}
SPECIFICATION Spec
INVARIANT ResetIsPowerOn
