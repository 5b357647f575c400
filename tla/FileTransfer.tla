---------------------------- MODULE FileTransfer ----------------------------
(***************************************************************************)
(* call_test as it is: the sender rObj and the receiver wObj in one        *)
(* process, each packet of a frame handed to pkt2cache in the order        *)
(* raw2pkt made it, before the next frame is packetised.  The receiver is  *)
(* PktCache with the geometry that the start packet carries.               *)
(***************************************************************************)
EXTENDS FileSender, FiniteSets

VARIABLES ready, item, frameNum, complete, picNum, completeNum, groupNum,
          pktNum, starts, ended, pictures, rawFile

\* wObj.raw_fp: wfp has been closed and cleared before it is assigned
RawFpOpen == FALSE

Recv == INSTANCE PktCache WITH GroupSize <- GroupBlks, PicSize <- PicBlks,
          FrameSize <- FrameBlks, RawOpen <- RawFpOpen, Packets <- {},
          MaxPictures <- 0, MaxStarts <- 0

cacheVars == <<ready, item, frameNum, complete, picNum, completeNum,
               groupNum, pktNum, starts, ended, pictures, rawFile>>
vars == <<sendVars, wire, cacheVars>>

-----------------------------------------------------------------------------
\* fread of the next picture, or of what is left of one.
Read == wire = <<>> /\ (ReadPicture \/ ReadShort) /\ UNCHANGED cacheVars

\* raw2pkt of the next frame; the last frame's packets have been received.
Packetise == wire = <<>> /\ SendFrame /\ UNCHANGED cacheVars

\* pkt2cache of the next packet.
Deliver == /\ wire # <<>>
           /\ wire' = Tail(wire)
           /\ Recv!Receive(Head(wire))
           /\ UNCHANGED sendVars

Init == SenderInit /\ Recv!Init

Next == Read \/ Packetise \/ Deliver

Spec == Init /\ [][Next]_vars /\ WF_vars(Next)

-----------------------------------------------------------------------------
\* Everything read has been sent and received.
Finished == phase = "done" /\ wire = <<>>

\* The last packet of a picture completes its frame: the frame is full, or
\* the packet is short even with its headers.
TailCompletes == \/ FramePkts(PicBlks - 1) = FrameBlks
                 \/ Payload(PicBlks - 1, FramePkts(PicBlks - 1) - 1) + HdrSize
                      < BlockSize

\* The pictures of which every frame is sent.  A file that ends with a whole
\* picture of several frames loses that picture's later frames, because the
\* end of the file is seen after its first one; a partial picture is not sent.
SentPictures == IF total % ImgSize = 0 /\ total > 0 /\ PicBlks > 1
                  THEN (total \div ImgSize) - 1
                  ELSE total \div ImgSize

Copy == INSTANCE FileCopy WITH Blocks <- ImgBlocks, out <- pictures,
          n <- IF TailCompletes THEN SentPictures ELSE 0

-----------------------------------------------------------------------------
\* The variables have their types: the pictures read fit in read_buf, and what
\* raw2pkt packs for them fits in out_buf (file_rtp.c:372-380).
TypeOK ==
  /\ total \in FileSizes
  /\ phase \in {"picture", "frame", "done"}
  /\ sumsize \in 0 .. total
  /\ i \in SlotId /\ j \in FrameId
  /\ frameId \in 0 .. IdMod - 1 /\ picId \in 0 .. IdMod - 1
  /\ groupId \in Nat /\ pktIdx \in Nat
  /\ seqNo \in 0 .. SeqMod - 1
  /\ sndSize \in 0 .. total
  /\ offset \in 0 .. CacheSize /\ offset3 \in 0 .. OutBufSize
  /\ Recv!TypeOK

\* The pictures sent in full come out whole, once, in the order of the file,
\* and all of them do; none does when the last frame cannot complete.  The
\* transfer ends either way.
Copies == Copy!Spec /\ <>[]Finished

\* pkt_idx numbers the packets of the whole file without a gap, the start and
\* the end packet included (file_raw2pkt.c:76, 125).
PktIdxConsecutive ==
  /\ \A n \in 1 .. Len(wire) - 1 :
        wire[n + 1].size > 0 => wire[n + 1].idx = wire[n].idx + 1
  /\ wire # <<>> /\ wire[Len(wire)].size > 0 =>
        pktIdx = wire[Len(wire)].idx + 1

\* The end packet is built exactly when every byte of the file has been
\* packetised (file_raw2pkt.c:179), and who takes it has got all there is: no
\* packet is behind it, and all pictures have come out.  In the end one has
\* been taken if the file is whole pictures of one frame; for every other file
\* call_test hands over a fileTail that was never built.
EndPacketLast ==
  /\ fileTail # Blank <=> sndSize = total /\ total > 0
  /\ ended => /\ sndSize = total /\ wire = <<>>
              /\ TailCompletes => Len(pictures) = SentPictures
  /\ Finished => (ended <=> total > 0 /\ total % ImgSize = 0 /\ PicBlks = 1)

\* Frame f of picture s has been packetised.
Packetised(s, f) ==
  s < Source \/ (s = Source /\ (f < j \/ (f = j /\ phase # "frame")))

\* What the sender has kept of the pictures of one round of its slots: under
\* the ids of every packet it has made for them (the slot and the group number
\* that call_test's counters give the picture) there is a copy that begins
\* with the packet's payload, cut where get_picture will put it back, and no
\* later picture has overwritten it.  The copy is no packet: it has the
\* packet's size but not its headers (file_raw2pkt.c:158-161), so it could be
\* sent again only with headers made anew.
CopiesKept ==
  \A s \in 0 .. Source, f \in FrameId :
    s + GroupBlks > Source /\ Packetised(s, f) =>
      \A b \in 0 .. FramePkts(f) - 1 :
        sndCache[s % GroupBlks][f][b]
          = [group |-> s \div GroupBlks, src |-> s, at |-> Offset(f, b),
             size |-> Payload(f, b) + HdrSize]

\* A picture goes to the slot of its place in the group, and finds it free.
\* The place: obj->pic_id, which is never set back at a new group and wraps at
\* 2^9, still names it ("[0, group_blks)", says the comment at the field), as
\* long as the wrap falls on a multiple of group_blks.  Free: when the receiver
\* has taken all packets of the pictures before, it holds no block of them.
SlotsFree ==
  /\ phase = "frame" => PicSlot = i
  /\ TailCompletes /\ wire = <<>> /\ phase = "picture" =>
       \A p \in SlotId, f \in FrameId, b \in BlkId : ~Recv!Held(item[p][f][b])

-----------------------------------------------------------------------------
(* What comments of the source say of call_test, and the code does not do. *)

\* block_num, the number of blocks that the start packet announces, is the
\* number of blocks sent (for a file that is cut into whole blocks).
AnnouncedBlocksSent ==
  Finished /\ total % ImgSize = 0 /\ ImgSize % BlockSize = 0 =>
    sndSize = BlockSize * CeilDiv(total, BlockSize)

\* "safe transfer in bounded time": without any loss every picture sent in
\* full is assembled, whatever the size of a picture.
SentPicturesArrive == <>[](Finished /\ Len(pictures) = SentPictures)

=============================================================================
