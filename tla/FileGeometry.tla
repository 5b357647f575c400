---------------------------- MODULE FileGeometry ----------------------------
(***************************************************************************)
(* How call_test (source/file_rtp.c) cuts a file into groups, pictures,    *)
(* frames and blocks before anything is sent, and how raw2pkt cuts one     *)
(* frame into the payloads of its packets.  All quantities are bytes or    *)
(* counts; the constants are the literals of the code, shrunk for TLC.     *)
(***************************************************************************)
EXTENDS Integers

CONSTANTS BlockSize,     \* mtu_size: payload bytes of a full packet (1100)
          HdrSize,       \* RTP header + extension header (12 + 32)
          MaxFrameBlks,  \* most blocks in a frame (256)
          CacheSize,     \* rObj.cache_size (100 MB)
          ImgSize        \* img_size, the size of one picture

ASSUME GeometryAssumption ==
  /\ BlockSize \in Nat \ {0}
  /\ HdrSize \in Nat \ {0}
  /\ MaxFrameBlks \in Nat \ {0}
  /\ CacheSize \in Nat \ {0}
  /\ ImgSize \in Nat \ {0}

\* (a / b) + ((a % b) != 0)
CeilDiv(a, b) == (a \div b) + (IF a % b = 0 THEN 0 ELSE 1)

\* blocks in a full frame: info.frame_size
FrameBlks == LET n == CeilDiv(ImgSize, BlockSize)
             IN  IF n > MaxFrameBlks THEN MaxFrameBlks ELSE n

\* bytes of a full frame: the local frame_size
FrameBytes == FrameBlks * BlockSize

\* frames in a picture: info.pic_size
PicBlks == CeilDiv(ImgSize, FrameBytes)

\* picture slots in the cache: info.group_size
GroupBlks == CeilDiv(CacheSize, PicBlks * FrameBytes)

FrameId == 0 .. PicBlks - 1
BlkId   == 0 .. FrameBlks - 1
SlotId  == 0 .. GroupBlks - 1

\* Mutant of FrameData: the remainder of the division for the last frame.
FrameDataRest(j) == IF j = PicBlks - 1 THEN ImgSize % FrameBytes ELSE FrameBytes

\* rObj.data_size: the bytes raw2pkt is given for frame j
FrameData(j) == IF j = PicBlks - 1
                  THEN ImgSize - (PicBlks - 1) * FrameBytes
                  ELSE FrameBytes

\* iterations of the data branch of raw2pkt's loop for frame j
FramePkts(j) == CeilDiv(FrameData(j), BlockSize)

\* payload_size of block b of frame j: a block, or the tail of the frame
Payload(j, b) == LET tail == FrameData(j) - b * BlockSize
                 IN  IF tail >= BlockSize THEN BlockSize ELSE tail

\* the blocks of a picture that raw2pkt turns into packets
SentBlocks == {c \in FrameId \X BlkId : c[2] < FramePkts(c[1])}

\* where get_picture copies block b of frame j: its running offset
Offset(j, b) == (j * FrameBlks + b) * BlockSize

\* the blocks get_picture visits before its running offset passes img_size
ImgBlocks == {c \in FrameId \X BlkId : Offset(c[1], c[2]) < ImgSize}

\* max_buf_size: the buffer the packets of the cached pictures are built in
OutBufSize == ((BlockSize + HdrSize) * CacheSize) \div BlockSize
                + BlockSize + HdrSize

=============================================================================
