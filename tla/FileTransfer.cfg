CONSTANTS
  BlockSize = 3
  HdrSize = 1
  MaxFrameBlks = 2
  CacheSize = 24
  ImgSize = 7
  IdMod = 8
  SeqMod = 16
  FileSizes <- MCFileSizes
SPECIFICATION MCSpec
INVARIANTS TypeOK PktIdxConsecutive CopiesKept SlotsFree SizesAgree
PROPERTY Copies
CHECK_DEADLOCK FALSE
