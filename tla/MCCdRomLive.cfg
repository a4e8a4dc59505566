CONSTANTS
  TickCycles = 2
  AcknowledgeCycles = 3
  SecondAnswerCycles = 1
  InitCycles = 4
  PauseCycles = 5
  SeekCycles = 4
  SectorCycles = 3
  SpinDownCycles = 4
  QueueCapacity = 2
  DiscEnd = 1
  SeekLimit = 1
  MaxLba = 1
  SoundLbas = {}
  SectorPieces = 1
  SoundCapacity = 1
  SoundPrime = 1
  Commands = {"Getstat", "Mute", "unknown", "GetlocP", "GetlocL", "GetTN", "Setloc", "Pause", "ReadN", "ReadTOC", "GetID"}
  Modes <- NoModes
  Patient = TRUE
  HostOps = {"lid"}
SPECIFICATION FairSpec
PROPERTIES LidReported AnswersArrive
