CONSTANTS
  BlockSize = 3
  HdrSize = 1
  MaxFrameBlks = 2
  CacheSize = 36
  ImgSize = 12
  IdMod = 6
  SeqMod = 16
  Window = 8
  MaxLoss = 1
  MaxRepeat = 0
  Overtake = TRUE
  OneFrameBlks = 4
  MaxFilePictures = 4
  FaultyImgSize = 10
  FaultyCacheSize = 24
  FaultyWindow = 4
  FaultyPictures = 4
  Faults = 2
  FileSizes <- MCFileSizes
SPECIFICATION MCSpec
INVARIANTS IntactIfReordered FaultsBounded EndPacketOfOneFrame
PROPERTY ArriveIfReordered
CHECK_DEADLOCK FALSE
