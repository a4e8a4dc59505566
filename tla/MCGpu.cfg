CONSTANTS
  Commands <- MCCommands
  Cluts = {"p", "q"}
  Width = 2
  Height = 2
  Sizes <- MCSizes
  Costs <- MCCosts
  CostScale = 1
  FifoWords = 1
  MaxBehind = 1
SPECIFICATION FairSpec
INVARIANTS InStep PaletteWhole
PROPERTY SyncReturns
