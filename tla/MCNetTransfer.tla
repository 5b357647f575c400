---------------------------- MODULE MCNetTransfer ----------------------------
(***************************************************************************)
(* Three networks.  One lets packets overtake each other, and loses one or *)
(* lets it outrun the start packet; the pictures are of whole blocks.  One *)
(* keeps the order but loses and repeats packets, and the last packet of a *)
(* picture is a short one.  The third keeps the order and loses nothing,   *)
(* and a picture is one frame, which is when there is an end packet.  The  *)
(* files are of whole pictures, or end with a partial one.                 *)
(***************************************************************************)
EXTENDS NetTransfer

CONSTANTS FaultyImgSize, FaultyCacheSize, FaultyWindow, FaultyPictures,
          OneFrameBlks,      \* MaxFrameBlks for which a picture is one frame
          MaxFilePictures,   \* bound: pictures in the file
          Faults             \* bound: losses, and repetitions

\* The sizes of the second and the third network.  That FileGeometry is
\* instantiated here also keeps TLC from working out its definitions once, with
\* the constants of the first network, and using them for all three.
FaultySizes == INSTANCE FileGeometry WITH
  ImgSize <- FaultyImgSize, CacheSize <- FaultyCacheSize

OneFrameSizes == INSTANCE FileGeometry WITH MaxFrameBlks <- OneFrameBlks

\* A file of the second network may have several groups; a picture of the third
\* is one frame.
ASSUME MCNetAssumption == /\ FaultySizes!GroupBlks < FaultyPictures
                          /\ OneFrameSizes!PicBlks = 1

VARIABLE net    \* the network of this behaviour

mcVars == <<allVars, net>>

SizesOfFiles(num, size) == {n * size + rest : n \in 1 .. num, rest \in {0, 1}}

MCFileSizes == SizesOfFiles(MaxFilePictures, ImgSize)

Faulty == INSTANCE NetTransfer WITH
  ImgSize <- FaultyImgSize, CacheSize <- FaultyCacheSize, Window <- FaultyWindow,
  FileSizes <- SizesOfFiles(FaultyPictures, FaultyImgSize),
  MaxLoss <- Faults, MaxRepeat <- Faults, Overtake <- FALSE

OneFrame == INSTANCE NetTransfer WITH
  MaxFrameBlks <- OneFrameBlks, MaxLoss <- 0, MaxRepeat <- 0, Overtake <- FALSE

MCInit == \/ net = "overtaking" /\ NetInit
          \/ net = "faulty" /\ Faulty!NetInit
          \/ net = "one frame" /\ OneFrame!NetInit

MCNext == /\ \/ net = "overtaking" /\ NetNext
             \/ net = "faulty" /\ Faulty!NetNext
             \/ net = "one frame" /\ OneFrame!NetNext
          /\ UNCHANGED net

MCSpec == /\ MCInit /\ [][MCNext]_mcVars
          /\ WF_mcVars(net = "overtaking" /\ (NetSend \/ NetDeliver) /\ UNCHANGED net)

-----------------------------------------------------------------------------
\* AllIntact, of pictures of whole blocks under any reordering in which no
\* data outruns the start packet: the picture comes out with the block that
\* arrives last, whichever it is.
IntactIfReordered == net = "overtaking" /\ lost = 0 => AllIntact

\* AllButLostArrive under any reordering, data that outruns the start packet
\* and is dropped (file_pkt2raw.c:600) included: it costs one picture at most.
ArriveIfReordered == net = "overtaking" => AllButLostArrive

\* LossOnlyInLastFrame and PictureCount, with two losses and two repetitions
\* at any places (file_pkt2raw.c:600-666).
FaultsBounded ==
  net = "faulty" => Faulty!LossOnlyInLastFrame /\ Faulty!PictureCount

\* Of pictures of one frame the end packet is built: PktIdxConsecutive and
\* EndPacketLast, with a sender that is a picture or two ahead.
EndPacketOfOneFrame ==
  net = "one frame" => OneFrame!PktIdxConsecutive /\ OneFrame!EndPacketLast
=============================================================================
