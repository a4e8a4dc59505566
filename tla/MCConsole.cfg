CONSTANTS
  NEVER = 99
  Horizon = 5
  Period <- MCPeriod
  LinesPerFrame = 3
  VisibleLines = 2
  CpuCycles = {1, 3}
  DmaHolds = {0, 2}
  DmaGaps = {0}
  RetryCycles = 1
  AckDelays = {2}
  HostOps = {"reset", "save", "load"}
  Watched = {"VBlank"}
SPECIFICATION Spec
INVARIANTS TypeOK OnRate Chronological NothingOverdue BeamFollowsClock
PROPERTY DispatchAdvances
