SPECIFICATION SafeSpec
CONSTANTS
  p1 = p1
  p2 = p2
  p3 = p3
  n1 = n1
  n2 = n2
  d1 = d1
  None = None
  IPC_CHANNELS = 4
  IPC_WITH_LOAD_CHANNELS = 2
  ipc_buffer_offset <- OptBuffers
  Cells = {0, 1, 2, 3, 4, 5}
  Messages = {p1, p2, n1}
  Length <- LongPayloads
  Direct = {}
  RxChannels = {0}
INVARIANT PayloadIntact
