--------------------------- MODULE MCFileTransfer ---------------------------
(***************************************************************************)
(* call_test on every file of up to MaxFileSize bytes, cut in one way; and *)
(* on an empty file, cut in all the ways of GeometryCheck, which call_test *)
(* reckons out before it looks at the file.                                *)
(***************************************************************************)
EXTENDS FileTransfer

VARIABLE sizes

MaxFileSize == 72

MCFileSizes == 0 .. MaxFileSize

INSTANCE GeometryCheck WITH ImgSizes <- 1 .. 20, CacheSizes <- {20, 37, 60},
  BlockSizes <- {1, 3, 4}, HdrSizes <- {1, 2}, FrameLimits <- {1, 2, 3}

\* the sizes this module's constants stand for
OneSize == [img |-> ImgSize, cache |-> CacheSize, block |-> BlockSize,
            hdr |-> HdrSize, limit |-> MaxFrameBlks]

MCInit == /\ Init
          /\ IF total = 0 THEN sizes \in AllSizes ELSE sizes = OneSize

MCSpec == /\ MCInit /\ [][Next /\ UNCHANGED sizes]_<<vars, sizes>>
          /\ WF_<<vars, sizes>>(Next /\ UNCHANGED sizes)
=============================================================================
