CONSTANTS
  Wrap = 4
  Tick = 3
  Overshoot = 1
  Scanline = 3
  HblankWidths = {1, 3}
  LinesPerFrame = 2
  VisibleLines = 1
  Eighth = 2
  DotModes = {4, 5}
  Indexes = {0, 1, 2}
  Modes <- SyncModes
  Targets = {2}
  Values = {3}
  Horizon = 8
SPECIFICATION TimersSpec
INVARIANTS ValueExact TargetNotInvented
