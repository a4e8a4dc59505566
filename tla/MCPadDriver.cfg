CONSTANTS
  Buttons = {start, cross}
  LowButtons = {start}
  Delays = {8}
  ResetDelay = 8
  CpuCycles = {1, 2}
  Patience = 8
SPECIFICATION FairDriverSpec
INVARIANTS PadIsRead SocketsToldApart ExchangeShape
PROPERTY ConversationsEnd
