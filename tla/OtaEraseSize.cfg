SPECIFICATION SafeSpec
CONSTANTS
  FlashSize = 20
  SectorSize = 4
  PageSize = 2
  ImageLength = 5
  Run = 0
  Backup = 8
  TestSector = 16
  MaxFrame = 3
  EraseSizes = {0, 4, 8}
  IPC_CHANNELS = 2
  OthersSend = FALSE
  Erased = Erased
  Garbled = Garbled
  Old = Old
  Test = Test
PROPERTY NothingElseIsTouched
