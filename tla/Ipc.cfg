SPECIFICATION Spec
CONSTANTS
  p1 = p1
  p2 = p2
  p3 = p3
  n1 = n1
  n2 = n2
  d1 = d1
  None = None
  IPC_CHANNELS = 4
  IPC_WITH_LOAD_CHANNELS = 2
  ipc_buffer_offset <- OptBuffers
  Cells = {0, 1, 2, 3}
  Messages = {p2, p3, n1, n2, d1}
  Length <- ShortPayloads
  Direct = {d1}
  RxChannels = {0}
INVARIANTS
  DriverInv
  ChannelOwnership
  CallbackOwnership
  NothingStranded
  PayloadIntact
  NoLostInterrupt
PROPERTIES
  DeliveredExactlyOnce
  DeliveredEventually
  RequestsServed
