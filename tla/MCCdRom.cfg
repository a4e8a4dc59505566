CONSTANTS
  TickCycles = 2
  AcknowledgeCycles = 3
  SecondAnswerCycles = 1
  InitCycles = 3
  PauseCycles = 3
  SeekCycles = 2
  SectorCycles = 3
  SpinDownCycles = 3
  QueueCapacity = 2
  DiscEnd = 1
  SeekLimit = 1
  MaxLba = 2
  SoundLbas = {0}
  SectorPieces = 1
  SoundCapacity = 1
  SoundPrime = 1
  Commands = {"Getstat", "Setloc", "Setmode", "Init", "Stop", "Pause", "ReadN", "SeekL"}
  Modes <- AllModes
  Patient = TRUE
  HostOps = {"lid", "reset"}
SPECIFICATION Spec
INVARIANTS StatusHonest LidSeen
PROPERTY HeldUntilAcknowledged
