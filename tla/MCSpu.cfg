CONSTANTS
  Blocks = 2
  Samples = 2
  Flags <- MCFlags
  PitchUnit = 2
  Pitches = {3, 7}
  EnvelopeMax = 15
  Knee = 12
  SustainUnit = 1
  ShiftBase = 1
  Patches <- MCPatches
  Levels = {1, 15}
  MaxTravel = 20
  MaxStores = 2
  SectorFrames = 2
  AudioCapacity = 5
  AudioPrime = 4
  AudioHold = 1
  OutputFrames = 2
  CountMod = 4
  Batches = {1, 2}
  MaxSectors = 4
SPECIFICATION FairSpec
INVARIANT NoteFollowed
PROPERTIES FramesInOrder NoteEnds
