CONSTANTS
  Channels = {2, 6}
  Paced = {2}
  Syncs = {"Manual", "Request", "LinkedList"}
  MaxWords = 1
  MaxBlocks = 1
  FullSize = 2
  ChopWords = 1
  Gap = 1
  ListHolds = {1}
  Backlogs = {0, 2}
  RetryCycles = 1
  CpuCycles = {1}
  Priorities <- MCPriorities
  MaxStores = 3
SPECIFICATION FairSpec
INVARIANTS TypeOK ArmedIsScheduled TransferIsWhole
PROPERTIES InterruptOnEdge TransfersFinish
