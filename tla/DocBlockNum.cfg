CONSTANTS
  BlockSize = 3
  HdrSize = 1
  MaxFrameBlks = 2
  CacheSize = 24
  ImgSize = 12
  IdMod = 8
  SeqMod = 16
  FileSizes <- MCFileSizes
SPECIFICATION MCSpec
INVARIANT AnnouncedBlocksSent
CHECK_DEADLOCK FALSE
