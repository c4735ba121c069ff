SPECIFICATION Spec
CONSTANTS
  Elements = {1, 2, 3, 4, 5}
  NULL = NULL
  MaxFrames = 3
  MaxDecodings = 2
  MaxTasks = 1
  FRAME = 3
  AEC_SIZE = 16
  AEC_FRAMES = 6
  PLC_FRAMES = 30
  SHIFT = 24
  SETTLE = 2
  NeededLength = 2
  DecoderThd = 4
  Lengths = {2, 3}
  Positions = 10
INVARIANTS
  AudioInv
  CallInv
  PcmInv
  NoSilenceInTheSong
  TheRightHandlers
PROPERTIES
  CallIsReleased
  SongGoesOn
