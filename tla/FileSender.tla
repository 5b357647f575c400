----------------------------- MODULE FileSender -----------------------------
(***************************************************************************)
(* The sender: call_test's loops over groups, pictures and frames          *)
(* (source/file_rtp.c) and raw2pkt (source/file_raw2pkt.c), which turns    *)
(* one frame into packets and keeps a copy of its bytes.  ReadPicture is   *)
(* the fread of one picture, SendFrame one call of raw2pkt with the        *)
(* bookkeeping call_test does around it.  The packets go to the sequence   *)
(* wire; who takes them from there is another module's business.           *)
(***************************************************************************)
EXTENDS FileGeometry, Sequences

CONSTANTS IdMod,     \* 2^9: width of obj->frame_id, obj->pic_id
          SeqMod,    \* 2^16: seq_no wraps after MAX_USHORT
          FileSizes  \* the sizes of the files that are sent

\* A picture fits the read buffer: call_test reads it there unchecked.
ASSUME SenderAssumption ==
  /\ ImgSize <= CacheSize
  /\ IdMod \in Nat \ {0}
  /\ SeqMod \in Nat \ {0}
  /\ FileSizes \subseteq Nat

VARIABLES total,      \* total_size, info.filesize
          phase,      \* where call_test is: "picture", "frame" or "done"
          sumsize,    \* bytes read from the file
          i,          \* picture of the group, the loop variable of call_test
          j,          \* frame of the picture, the loop variable of call_test
          frameId,    \* rObj.frame_id
          picId,      \* rObj.pic_id
          groupId,    \* rObj.group_id
          seqNo,      \* rObj.seq_no
          pktIdx,     \* rObj.pkt_idx
          sndSize,    \* rObj.snd_size
          fileHead,   \* rObj.fileHead: the start packet, once built
          fileTail,   \* rObj.fileTail: the end packet, once built
          offset,     \* where in read_buf the next picture is read
          offset3,    \* where in out_buf the next frame is packetised
          sndCache,   \* the copies kept in rObj.groupVector
          wire        \* packets handed over and not yet received

sendVars == <<total, phase, sumsize, i, j, frameId, picId, groupId, seqNo,
              pktIdx, sndSize, fileHead, fileTail, offset, offset3, sndCache>>

-----------------------------------------------------------------------------
\* A fileHead or fileTail that raw2pkt has not filled: no bytes.
Blank == [data_type |-> 0, len |-> 0, size |-> 0, pic |-> 0, frame |-> 0,
          blk |-> 0, group |-> 0, seq |-> 0, idx |-> 0, src |-> 0]

\* sizeof(FileInfo), the payload of a start or an end packet: its value plays
\* no part, it need only differ from no payload
InfoLen == 1

\* the picture in read_buf: pictures are numbered from 0 as they are read
Source == (sumsize \div ImgSize) - 1

\* the ids raw2pkt puts in the headers
PicSlot == picId % GroupBlks

\* raw2pkt builds the start packet when everything counted is still zero
BuildsHead == /\ seqNo = 0 /\ frameId % PicBlks = 0
              /\ PicSlot = 0 /\ groupId = 0

InfoPkt(type, idx, seq) ==
  [data_type |-> type, len |-> InfoLen, size |-> InfoLen + HdrSize,
   pic |-> PicSlot, frame |-> frameId % PicBlks, blk |-> 0, group |-> groupId,
   seq |-> seq, idx |-> idx, src |-> 0]

\* the packet of block b; every packet of one call carries obj->seq_no
DataPkt(b, idx) ==
  [data_type |-> 0, len |-> Payload(j, b), size |-> Payload(j, b) + HdrSize,
   pic |-> PicSlot, frame |-> frameId, blk |-> b, group |-> groupId,
   seq |-> seqNo, idx |-> idx, src |-> Source]

\* Mutant of FirstIdx: the start packet takes no index.
FirstIdxShared == pktIdx

\* the index of the first data packet of this call
FirstIdx == IF BuildsHead THEN pktIdx + 1 ELSE pktIdx

DataPkts == [n \in 1 .. FramePkts(j) |-> DataPkt(n - 1, FirstIdx + n - 1)]

\* snd_size after the call; raw2pkt compares it with the file's size
NewSndSize == sndSize + FrameData(j)

\* Mutant of BuildsTail: snd_size is compared before the frame is counted.
BuildsTailLate == sndSize = total

\* the end packet goes with the packet that carries the last byte
BuildsTail == NewSndSize = total

\* headers and payloads this call builds in out_buf
PktBytes == FrameData(j) + FramePkts(j) * HdrSize

\* A calloc'ed PktItem of the sender.  One in use holds size bytes of picture
\* src, the first of them at byte "at" of the picture.
NoCopy == [group |-> 0, src |-> 0, at |-> 0, size |-> 0]

\* What raw2pkt copies for block b of frame j: not the packet it has built, but
\* as many bytes as the packet has with its headers, of the picture in
\* read_buf, from the first byte of the block on.  The copy has no headers
\* therefore, and its last HdrSize bytes lie behind the block: they are the
\* next block's, or, at the end of the picture, whatever is behind it.
CopyOf(b) == [group |-> groupId, src |-> Source,
              at |-> FrameBytes * j + BlockSize * b,
              size |-> Payload(j, b) + HdrSize]

\* Mutant of KeepCopies: the last frame of a picture is not kept.
KeepCopiesButLast ==
  sndCache' =
    IF frameId < PicBlks - 1
      THEN [sndCache EXCEPT ![PicSlot][frameId] =
              [b \in BlkId |-> IF b < FramePkts(j) THEN CopyOf(b) ELSE @[b]]]
      ELSE sndCache

\* the copies raw2pkt keeps, in place of those of the slot's last picture
KeepCopies ==
  sndCache' =
    IF frameId < PicBlks
      THEN [sndCache EXCEPT ![PicSlot][frameId] =
              [b \in BlkId |-> IF b < FramePkts(j) THEN CopyOf(b) ELSE @[b]]]
      ELSE sndCache

\* raw2pkt: the packets of frame j, and all it changes in rObj
Raw2Pkt ==
  /\ fileHead' = IF BuildsHead THEN InfoPkt(1, 0, seqNo) ELSE fileHead
  /\ fileTail' = IF BuildsTail
                   THEN InfoPkt(2, FirstIdx + FramePkts(j), seqNo) ELSE fileTail
  /\ pktIdx' = FirstIdx + FramePkts(j) + (IF BuildsTail THEN 1 ELSE 0)
  /\ seqNo' = (seqNo + FramePkts(j) + (IF BuildsHead THEN 1 ELSE 0)
                     + (IF BuildsTail THEN 1 ELSE 0)) % SeqMod
  /\ sndSize' = NewSndSize
  /\ KeepCopies

-----------------------------------------------------------------------------
\* Mutant of LastOfGroup: a group is taken to have a picture more.
LastOfGroupLate == i = GroupBlks

\* the picture in hand is the last one the group has a slot for
LastOfGroup == i + 1 = GroupBlks

\* The end of the loop body over the pictures: on to the next picture, to the
\* next group, or out of all loops when status is set or the file is read.
EndPicture(status) ==
  /\ picId' = (picId + 1) % IdMod
  /\ offset' = offset + ImgSize
  /\ groupId' = IF status \/ LastOfGroup THEN groupId + 1 ELSE groupId
  /\ i' = IF status \/ LastOfGroup THEN 0 ELSE i + 1
  /\ phase' = IF status THEN "done" ELSE "picture"

\* Mutant of Rewinds: read_buf is never started anew.
RewindsNever == FALSE

\* Where in the buffers a picture is read: the start, when the rest of
\* read_buf is too short for it.
Rewinds == offset + ImgSize > CacheSize

\* fread of a whole picture.
ReadPicture ==
  /\ phase = "picture"
  /\ sumsize + ImgSize <= total
  /\ sumsize' = sumsize + ImgSize
  /\ offset' = IF Rewinds THEN 0 ELSE offset
  /\ offset3' = IF Rewinds THEN 0 ELSE offset3
  /\ j' = 0
  /\ frameId' = 0
  /\ phase' = "frame"
  /\ UNCHANGED <<total, i, picId, groupId, seqNo, pktIdx, sndSize, fileHead,
                 fileTail, sndCache, wire>>

\* fread of less than a picture: status is set and nothing of it is sent.
ReadShort ==
  /\ phase = "picture"
  /\ sumsize < total
  /\ sumsize + ImgSize > total
  /\ sumsize' = total
  /\ picId' = (picId + 1) % IdMod
  /\ offset' = (IF Rewinds THEN 0 ELSE offset) + ImgSize
  /\ offset3' = IF Rewinds THEN 0 ELSE offset3
  /\ groupId' = groupId + 1
  /\ frameId' = 0
  /\ phase' = "done"
  /\ UNCHANGED <<total, i, j, seqNo, pktIdx, sndSize, fileHead, fileTail,
                 sndCache, wire>>

\* One frame.  The start packet goes before the frame of i = j = k = 0, the
\* end packet, built or not, after the frame in which sumsize >= total_size
\* is first seen; that leaves the loops at once.
SendFrame ==
  /\ phase = "frame"
  /\ Raw2Pkt
  /\ wire' = wire \o (IF i = 0 /\ j = 0 /\ groupId = 0 THEN <<fileHead'>> ELSE <<>>)
                  \o DataPkts
                  \o (IF sumsize >= total THEN <<fileTail'>> ELSE <<>>)
  /\ offset3' = offset3 + PktBytes
  /\ frameId' = (frameId + 1) % IdMod
  /\ \/ sumsize >= total /\ EndPicture(TRUE) /\ j' = j
     \/ sumsize < total /\ j + 1 = PicBlks /\ EndPicture(FALSE) /\ j' = j
     \/ /\ sumsize < total /\ j + 1 < PicBlks
        /\ j' = j + 1
        /\ UNCHANGED <<i, picId, groupId, offset, phase>>
  /\ UNCHANGED <<total, sumsize>>

SenderInit ==
  /\ total \in FileSizes
  /\ phase = IF total = 0 THEN "done" ELSE "picture"
  /\ sumsize = 0 /\ i = 0 /\ j = 0
  /\ frameId = 0 /\ picId = 0 /\ groupId = 0
  /\ seqNo = 0 /\ pktIdx = 0 /\ sndSize = 0
  /\ fileHead = Blank /\ fileTail = Blank
  /\ offset = 0 /\ offset3 = 0
  /\ sndCache = [p \in SlotId |-> [f \in FrameId |-> [b \in BlkId |-> NoCopy]]]
  /\ wire = <<>>

=============================================================================
