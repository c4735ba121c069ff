SPECIFICATION Spec
CONSTANTS
  MP3_DECODER_BUFFER_SIZE = 8
  MP3_DECODER_REQUEST_DATA_THD = 2
  MP3_DECODER_BUFFERING_LIMIT = 4
  Unit = 2
  ui_inp_size = 2
  SBC_A2DP_SUB_FRAME_COUNT = 2
  MaxFrame = 2
  MaxOutput = 2
  SongLength = 9
  EarlyAnswer = TRUE
PROPERTY MoreIsRequested
