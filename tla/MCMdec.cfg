CONSTANTS
  Size = 3
  Runs = {0, 1}
  Blocks = 2
  Words <- MCWords
  OutBlock = 2
  Amounts = {1, 3}
  Bursts = {2}
  Lengths = {0, 1, 2}
  TableWords = 1
  CountMod = 8
  MaxBlocks = 1
  MaxWaiting = 3
SPECIFICATION FairSpec
INVARIANTS StreamFollowed BlocksTogether NoZeroesTaken
PROPERTY NeitherStarves
