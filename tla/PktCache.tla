------------------------------ MODULE PktCache ------------------------------
(***************************************************************************)
(* The receiver: pkt2cache and what it calls (source/file_pkt2raw.c).      *)
(* A picture slot holds PicSize frames of FrameSize blocks.  A data packet *)
(* is stored under the ids of its header; the frame it completes, if any,  *)
(* is counted in its picture, and the picture that has PicSize completed   *)
(* frames is assembled by get_picture and its slot freed.  The network is  *)
(* not part of this module: a packet of Packets may arrive at any time, so *)
(* that lost, repeated and reordered packets are all covered.              *)
(***************************************************************************)
EXTENDS Integers, Sequences, FiniteSets

CONSTANTS GroupSize,   \* info.group_size: picture slots
          PicSize,     \* info.pic_size: frames of a picture
          FrameSize,   \* info.frame_size: blocks of a frame
          BlockSize,   \* info.block_size
          HdrSize,     \* bytes of the two headers of a packet
          ImgBlocks,   \* the <<frame, block>> pairs that lie inside the image
          RawOpen,     \* obj->raw_fp is not NULL
          Packets,     \* the packets that may arrive
          MaxPictures, \* bound: pictures assembled before the model stops
          MaxStarts    \* bound: start packets taken

Pics   == 0 .. GroupSize - 1
Frames == 0 .. PicSize - 1
Blks   == 0 .. FrameSize - 1

(***************************************************************************)
(* A packet is a record with at least these fields: data_type, len (the    *)
(* rtp_pkt_size of its header), size (the bytes received), pic, frame,     *)
(* blk, group, and src, which stands for the bytes of its payload.         *)
(***************************************************************************)
ASSUME CacheAssumption ==
  /\ GroupSize \in Nat \ {0}
  /\ PicSize \in Nat \ {0}
  /\ FrameSize \in Nat \ {0}
  /\ BlockSize \in Nat
  /\ HdrSize \in Nat \ {0}
  /\ ImgBlocks \subseteq Frames \X Blks
  /\ RawOpen \in BOOLEAN
  /\ MaxPictures \in Nat
  /\ MaxStarts \in Nat
  /\ \A pkt \in Packets :
        /\ pkt.data_type \in 0 .. 2
        /\ pkt.len \in Nat /\ pkt.size \in Nat
        /\ pkt.pic \in Nat /\ pkt.frame \in Nat /\ pkt.blk \in Blks
        /\ pkt.group \in Nat /\ pkt.src \in Nat

VARIABLES ready,        \* groupVector.max_num is set: create_vector has run
          item,         \* pktItem of every block of every slot
          frameNum,     \* FrameVector.num
          complete,     \* FrameVector.complete
          picNum,       \* PicVector.num
          completeNum,  \* PicVector.complete_num
          groupNum,     \* GroupVector.num
          pktNum,       \* lrCount.pkt_num
          starts,       \* how many start packets were taken (fileHead)
          ended,        \* an end packet was taken (fileTail)
          pictures,     \* the images get_picture assembled, oldest first
          rawFile       \* what my_fwrite put in raw_fp

cacheVars == <<ready, item, frameNum, complete, picNum, completeNum,
               groupNum, pktNum, starts, ended, pictures, rawFile>>

-----------------------------------------------------------------------------
\* A calloc'ed or freed PktItem: size 0.
NoItem == [size |-> 0, group |-> 0, src |-> 0]
Items  == [size : Nat, group : Nat, src : Nat]

Held(it) == it.size > 0

\* FrameVector.complete is a signed field of two bits: the 2 that pkt2cache
\* assigns reads back as -2, so no test for complete > 0 ever succeeds.
Marked == -2

\* what get_picture leaves in the calloc'ed image for a block it does not have
Hole == -1

EmptyPic == [f \in Frames |-> [b \in Blks |-> NoItem]]

\* the image get_picture assembles from the blocks of one slot
Image(pic) == [fb \in ImgBlocks |->
                 LET it == pic[fb[1]][fb[2]]
                 IN  IF Held(it) THEN it.src ELSE Hole]

\* pkt2cache's checks on the headers against the number of bytes received
WellFormed(pkt) == pkt.size = pkt.len + HdrSize

\* the packet names a slot and a frame that create_vector has allocated
InRange(pkt) == ready /\ pkt.pic < GroupSize /\ pkt.frame < PicSize

\* Mutant of TooFast: a block of another group is overwritten.
TooFastNever(pkt) == FALSE

\* "too fast": the block is still held for another group
TooFast(pkt) == LET it == item[pkt.pic][pkt.frame][pkt.blk]
                IN  Held(it) /\ it.group # pkt.group

\* a data packet that pkt2cache stores
Storable(pkt) == /\ pkt.data_type = 0 /\ WellFormed(pkt)
                 /\ InRange(pkt) /\ ~TooFast(pkt)

-----------------------------------------------------------------------------
\* The slot's blocks once the packet is stored.
StoredPic(pkt) ==
  [item[pkt.pic] EXCEPT ![pkt.frame][pkt.blk] =
      [size |-> pkt.size, group |-> pkt.group, src |-> pkt.src]]

\* Mutant of NotRtx: a retransmission counts like a new block.
NotRtxAlways(pkt) == 1

\* not_rtx: 1 for a block that was not held, 0 for a retransmission
NotRtx(pkt) == IF Held(item[pkt.pic][pkt.frame][pkt.blk]) THEN 0 ELSE 1

NewFrameNum(pkt) == frameNum[pkt.pic][pkt.frame] + NotRtx(pkt)

\* Mutants of FrameDone: one block more, or one less, than the frame has.
FrameDoneLate(pkt) == NewFrameNum(pkt) > FrameSize
FrameDoneEarly(pkt) == NewFrameNum(pkt) >= FrameSize - 1 \/ pkt.size < BlockSize

\* the frame counts as complete: it is full, or the packet is a short one
FrameDone(pkt) == NewFrameNum(pkt) >= FrameSize \/ pkt.size < BlockSize

NewCompleteNum(pkt) == completeNum[pkt.pic] + (IF FrameDone(pkt) THEN 1 ELSE 0)

\* Mutant of PicDone: one frame less than the picture has.
PicDoneEarly(pkt) == NewCompleteNum(pkt) >= PicSize - 1

\* the packet completes the last frame its picture waits for
PicDone(pkt) == NewCompleteNum(pkt) >= PicSize

\* the packet is the first one of its frame
OpensFrame(pkt) == frameNum[pkt.pic][pkt.frame] = 0

\* the packet is the first one of its picture
OpensPic(pkt) == OpensFrame(pkt) /\ picNum[pkt.pic] = 0

\* Mutant of CountPkt: pkt_num counts retransmissions too.
CountPktEach(pkt) ==
  /\ groupNum' = IF OpensPic(pkt) THEN groupNum + 1 ELSE groupNum
  /\ pktNum' = pktNum + 1

\* what every stored packet does to the receiver's totals
CountPkt(pkt) ==
  /\ groupNum' = IF OpensPic(pkt) THEN groupNum + 1 ELSE groupNum
  /\ pktNum' = pktNum + NotRtx(pkt)

\* A data packet that does not complete its picture.
StoreBlock(pkt) ==
  /\ Storable(pkt)
  /\ ~PicDone(pkt)
  /\ item' = [item EXCEPT ![pkt.pic] = StoredPic(pkt)]
  /\ frameNum' = [frameNum EXCEPT ![pkt.pic][pkt.frame] = NewFrameNum(pkt)]
  /\ complete' = [complete EXCEPT ![pkt.pic][pkt.frame] =
                    IF FrameDone(pkt) THEN Marked ELSE 0]
  /\ picNum' = [picNum EXCEPT ![pkt.pic] =
                  IF OpensFrame(pkt) THEN @ + 1 ELSE @]
  /\ completeNum' = [completeNum EXCEPT ![pkt.pic] = NewCompleteNum(pkt)]
  /\ CountPkt(pkt)
  /\ UNCHANGED <<ready, starts, ended, pictures, rawFile>>

\* Mutants of FreePicture: complete_num is lowered by max_num instead of
\* cleared, or stays.
FreePictureLowers(p) ==
  /\ item' = [item EXCEPT ![p] = EmptyPic]
  /\ frameNum' = [frameNum EXCEPT ![p] = [f \in Frames |-> 0]]
  /\ complete' = [complete EXCEPT ![p] = [f \in Frames |-> 0]]
  /\ picNum' = [picNum EXCEPT ![p] = 0]
  /\ completeNum' = [completeNum EXCEPT ![p] = @ - PicSize]

FreePictureCounted(p) ==
  /\ item' = [item EXCEPT ![p] = EmptyPic]
  /\ frameNum' = [frameNum EXCEPT ![p] = [f \in Frames |-> 0]]
  /\ complete' = [complete EXCEPT ![p] = [f \in Frames |-> 0]]
  /\ picNum' = [picNum EXCEPT ![p] = 0]
  /\ UNCHANGED completeNum

\* free_picture: the slot is as create_vector made it
FreePicture(p) ==
  /\ item' = [item EXCEPT ![p] = EmptyPic]
  /\ frameNum' = [frameNum EXCEPT ![p] = [f \in Frames |-> 0]]
  /\ complete' = [complete EXCEPT ![p] = [f \in Frames |-> 0]]
  /\ picNum' = [picNum EXCEPT ![p] = 0]
  /\ completeNum' = [completeNum EXCEPT ![p] = 0]

\* A data packet that completes its picture: get_picture assembles the image
\* with the packet's block in it, writes it out and frees the slot.
CompletePicture(pkt) ==
  /\ Storable(pkt)
  /\ PicDone(pkt)
  /\ pictures' = Append(pictures, Image(StoredPic(pkt)))
  /\ rawFile' = IF RawOpen THEN Append(rawFile, Image(StoredPic(pkt)))
                           ELSE rawFile
  /\ FreePicture(pkt.pic)
  /\ CountPkt(pkt)
  /\ UNCHANGED <<ready, starts, ended>>

\* data_type 1: the file's info, and new, empty vectors.  The totals in
\* groupVector.num and lrCount are left as they are.
StartInfo(pkt) ==
  /\ pkt.data_type = 1 /\ WellFormed(pkt)
  /\ ready' = TRUE
  /\ starts' = starts + 1
  /\ item' = [p \in Pics |-> EmptyPic]
  /\ frameNum' = [p \in Pics |-> [f \in Frames |-> 0]]
  /\ complete' = [p \in Pics |-> [f \in Frames |-> 0]]
  /\ picNum' = [p \in Pics |-> 0]
  /\ completeNum' = [p \in Pics |-> 0]
  /\ UNCHANGED <<groupNum, pktNum, ended, pictures, rawFile>>

\* data_type 2: the packet is kept in fileTail and nothing else happens.
EndInfo(pkt) ==
  /\ pkt.data_type = 2 /\ WellFormed(pkt)
  /\ ended' = TRUE
  /\ UNCHANGED <<ready, item, frameNum, complete, picNum, completeNum,
                 groupNum, pktNum, starts, pictures, rawFile>>

\* Everything pkt2cache drops: bad headers, data before the start packet,
\* ids without a slot, and a block still held for another group.
Discard(pkt) ==
  /\ \/ ~WellFormed(pkt)
     \/ pkt.data_type = 0 /\ ~InRange(pkt)
     \/ pkt.data_type = 0 /\ InRange(pkt) /\ TooFast(pkt)
  /\ UNCHANGED cacheVars

\* pkt2cache
Receive(pkt) == \/ StoreBlock(pkt)
                \/ CompletePicture(pkt)
                \/ StartInfo(pkt)
                \/ EndInfo(pkt)
                \/ Discard(pkt)

Init == /\ ready = FALSE
        /\ item = [p \in Pics |-> EmptyPic]
        /\ frameNum = [p \in Pics |-> [f \in Frames |-> 0]]
        /\ complete = [p \in Pics |-> [f \in Frames |-> 0]]
        /\ picNum = [p \in Pics |-> 0]
        /\ completeNum = [p \in Pics |-> 0]
        /\ groupNum = 0
        /\ pktNum = 0
        /\ starts = 0
        /\ ended = FALSE
        /\ pictures = <<>>
        /\ rawFile = <<>>

Next == /\ Len(pictures) < MaxPictures
        /\ \E pkt \in Packets :
             /\ pkt.data_type = 1 => starts < MaxStarts
             /\ Receive(pkt)

Spec == Init /\ [][Next]_cacheVars

-----------------------------------------------------------------------------
(* Properties.  They hold whatever packets arrive, and in whatever order.  *)

\* The variables have their types: no counter of pkt2cache goes below 0, and an
\* assembled image has exactly the blocks get_picture visits.
TypeOK ==
  /\ ready \in BOOLEAN
  /\ item \in [Pics -> [Frames -> [Blks -> Items]]]
  /\ frameNum \in [Pics -> [Frames -> Nat]]
  /\ complete \in [Pics -> [Frames -> {0, Marked}]]
  /\ picNum \in [Pics -> Nat]
  /\ completeNum \in [Pics -> Nat]
  /\ groupNum \in Nat
  /\ pktNum \in Nat
  /\ starts \in Nat
  /\ ended \in BOOLEAN
  /\ pictures \in Seq([ImgBlocks -> Nat \cup {Hole}])
  /\ rawFile \in Seq([ImgBlocks -> Nat \cup {Hole}])

HeldBlks(p, f)    == {b \in Blks : Held(item[p][f][b])}
OpenFrames(p)     == {f \in Frames : frameNum[p][f] > 0}
CompleteFrames(p) == {f \in Frames : complete[p][f] = Marked}

FrameNumCounts ==
  \A p \in Pics, f \in Frames : frameNum[p][f] = Cardinality(HeldBlks(p, f))

PicNumCounts ==
  \A p \in Pics : picNum[p] = Cardinality(OpenFrames(p))

CompleteNumBounds ==
  \A p \in Pics : /\ completeNum[p] < PicSize
                  /\ Cardinality(CompleteFrames(p)) <= completeNum[p]

\* p2->num is the number of blocks the frame holds and p1->num that of the
\* frames with some block, however often a block was retransmitted: not_rtx
\* is what keeps them equal.  Between two packets p1->complete_num is below
\* p1->max_num, and every frame marked complete has been counted in it; the
\* converse fails, as a retransmission counts a complete frame again.
NumsCount == FrameNumCounts /\ PicNumCounts /\ CompleteNumBounds

\* A picture of which every block has arrived is never left in its slot:
\* the packet that brought the last block made pkt2cache call get_picture.
NoFullPictureHeld ==
  \A p \in Pics : \E f \in Frames : HeldBlks(p, f) # Blks

\* The totals account for everything, as long as no second start packet has
\* thrown the slots away: p0->num counts the pictures ever opened, those
\* assembled and those in a slot, and lrCount.pkt_num counts each block once,
\* the blocks held and those of the assembled images, holes not counted.
TotalsAccount ==
  starts <= 1 =>
    /\ groupNum = Len(pictures) + Cardinality({p \in Pics : picNum[p] > 0})
    /\ pktNum = Cardinality({c \in Pics \X Frames \X Blks :
                                Held(item[c[1]][c[2]][c[3]])})
              + Cardinality({c \in (DOMAIN pictures) \X ImgBlocks :
                                pictures[c[1]][c[2]] # Hole})

\* A held block stays what it is for its group until its bytes are in an
\* image just assembled, and then no other slot changes; only a start packet
\* discards blocks.
BlockKept ==
  [][\A p \in Pics, f \in Frames, b \in Blks :
        Held(item[p][f][b]) =>
          \/ starts' > starts
          \/ Held(item'[p][f][b]) /\ item'[p][f][b].group = item[p][f][b].group
          \/ /\ Len(pictures') = Len(pictures) + 1
             /\ \A q \in Pics \ {p} : item'[q] = item[q]
             /\ <<f, b>> \in ImgBlocks =>
                  pictures'[Len(pictures')][<<f, b>>] # Hole]_cacheVars

=============================================================================
