---------------------------- MODULE GeometryCheck ----------------------------
(***************************************************************************)
(* FileGeometry against what it is for, over many picture, cache, block    *)
(* and header sizes: sizes is one choice of them.                          *)
(***************************************************************************)
EXTENDS Integers, FiniteSets

CONSTANTS ImgSizes, CacheSizes, BlockSizes, HdrSizes, FrameLimits

VARIABLE sizes

AllSizes == {s \in [img : ImgSizes, cache : CacheSizes, block : BlockSizes,
                    hdr : HdrSizes, limit : FrameLimits] : s.img <= s.cache}

G == INSTANCE FileGeometry WITH
       ImgSize <- sizes.img, CacheSize <- sizes.cache, BlockSize <- sizes.block,
       HdrSize <- sizes.hdr, MaxFrameBlks <- sizes.limit

-----------------------------------------------------------------------------
Covers(jb, x) == LET start == G!Offset(jb[1], jb[2])
                 IN  start <= x /\ x < start + G!Payload(jb[1], jb[2])

\* the packets of one picture with their headers
PicturePktBytes == sizes.img + sizes.hdr * Cardinality(G!SentBlocks)

\* call_test, raw2pkt and get_picture agree on where a picture is cut, whatever
\* the sizes: the payloads raw2pkt cuts tile the picture, so that get_picture,
\* which copies each block to its running offset, writes every byte exactly
\* once and none beyond; it visits exactly the blocks that were sent; no frame
\* has more packets than the receiver has allocated blocks for; and pictures
\* of whole blocks fit in out_buf for as long as read_buf is not rewound, which
\* those with a short block, a header more for each, need not (file_rtp.c:376,
\* 461, file_raw2pkt.c:107, file_pkt2raw.c:233).
SizesAgree ==
  /\ \A x \in 0 .. sizes.img - 1 :
        Cardinality({jb \in G!SentBlocks : Covers(jb, x)}) = 1
  /\ \A jb \in G!SentBlocks :
        LET size == G!Payload(jb[1], jb[2])
        IN  size > 0 /\ G!Offset(jb[1], jb[2]) + size <= sizes.img
  /\ G!ImgBlocks = G!SentBlocks
  /\ \A j \in G!FrameId : G!FramePkts(j) \in 1 .. G!FrameBlks
  /\ sizes.img % sizes.block = 0 =>
       (sizes.cache \div sizes.img) * PicturePktBytes <= G!OutBufSize

=============================================================================
