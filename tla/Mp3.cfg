SPECIFICATION Spec
CONSTANTS
  MP3_DECODER_BUFFER_SIZE = 12
  MP3_DECODER_REQUEST_DATA_THD = 4
  MP3_DECODER_BUFFERING_LIMIT = 6
  Unit = 2
  ui_inp_size = 3
  SBC_A2DP_SUB_FRAME_COUNT = 2
  MaxFrame = 4
  MaxOutput = 2
  SongLength = 16
  EarlyAnswer = FALSE
INVARIANTS
  StreamInv
  RingNeverOverflows
  AllRequestDataReceived
  NoFlood
PROPERTIES
  SongPlays
  MoreIsRequested
