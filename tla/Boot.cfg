SPECIFICATION Spec
CONSTANTS
  ACK_LEN = 3
  HEADER_LEN = 2
  PAYLOAD_LEN = 2
  wait_to_ms = 2
  Sectors = {0, 1}
  Data = {"new"}
  Bauds = {1, 2}
  None = None
  IPC_CHANNELS = 4
  IPC_WITH_LOAD_CHANNELS = 2
  Pieces = 3
INVARIANTS
  SessionInv
  LoopIsInStep
  BurnedAsAnswered
  ChannelForEachAnswer
  UserCodeInv
PROPERTIES
  RequestIsAnswered
  StartCompletes
CHECK_DEADLOCK FALSE
