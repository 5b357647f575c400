CONSTANTS
  GroupSize = 2
  PicSize = 2
  FrameSize = 2
  BlockSize = 3
  HdrSize = 1
  RawOpen = TRUE
  MaxPictures = 2
  MaxStarts = 2
  Groups = {0, 1}
  ImgBlocks <- MCBlocks
  Packets <- MCPackets
SPECIFICATION Spec
CHECK_DEADLOCK FALSE
INVARIANTS TypeOK NumsCount NoFullPictureHeld TotalsAccount
PROPERTY BlockKept
