--------------------------- MODULE PktCacheProofs ---------------------------
(***************************************************************************)
(* The receiver's counters, for every geometry and whatever packets        *)
(* arrive.  IInv is the inductive invariant: the numbers of blocks and     *)
(* frames are counted right, and a full frame is marked complete, which is *)
(* what ties complete_num to the blocks that are there.                    *)
(***************************************************************************)
EXTENDS PktCache, FiniteSetTheorems, TLAPS

\* A frame that holds all its blocks is marked complete: the packet that
\* filled it marked it, and later ones to it leave it full.
FullIsComplete ==
  \A p \in Pics, f \in Frames : frameNum[p][f] >= FrameSize => complete[p][f] = Marked

IInv == /\ TypeOK
        /\ FrameNumCounts
        /\ PicNumCounts
        /\ CompleteNumBounds
        /\ FullIsComplete

-----------------------------------------------------------------------------
\* The packets that may arrive have the fields pkt2cache reads.
LEMMA PacketType ==
  ASSUME NEW pkt \in Packets
  PROVE  /\ pkt.size \in Nat /\ pkt.len \in Nat
         /\ pkt.pic \in Nat /\ pkt.frame \in Nat /\ pkt.blk \in Blks
         /\ pkt.group \in Nat /\ pkt.src \in Nat
BY CacheAssumption

\* A packet pkt2cache stores names a slot, a frame and a block that exist,
\* and has bytes.
LEMMA StorableType ==
  ASSUME NEW pkt \in Packets, Storable(pkt)
  PROVE  /\ pkt.pic \in Pics /\ pkt.frame \in Frames /\ pkt.blk \in Blks
         /\ pkt.size \in Nat /\ pkt.size > 0
         /\ [size |-> pkt.size, group |-> pkt.group, src |-> pkt.src] \in Items
<1>1. /\ pkt.size \in Nat /\ pkt.len \in Nat
      /\ pkt.pic \in Nat /\ pkt.frame \in Nat /\ pkt.blk \in Blks
      /\ pkt.group \in Nat /\ pkt.src \in Nat
  BY PacketType
<1>2. pkt.size = pkt.len + HdrSize /\ pkt.pic < GroupSize /\ pkt.frame < PicSize
  BY DEF Storable, WellFormed, InRange
<1>3. HdrSize \in Nat \ {0} /\ GroupSize \in Nat \ {0} /\ PicSize \in Nat \ {0}
  BY CacheAssumption
<1> QED BY <1>1, <1>2, <1>3 DEF Pics, Frames, Items

\* The slot with the packet's block in it is a picture's worth of items.
LEMMA StoredPicType ==
  ASSUME NEW pkt \in Packets, Storable(pkt), TypeOK
  PROVE  StoredPic(pkt) \in [Frames -> [Blks -> Items]]
<1>1. item[pkt.pic] \in [Frames -> [Blks -> Items]]
  BY StorableType DEF TypeOK
<1> QED BY <1>1, StorableType DEF StoredPic

\* get_picture's image has a source or a hole in every block.
LEMMA ImageType ==
  ASSUME NEW pic \in [Frames -> [Blks -> Items]]
  PROVE  Image(pic) \in [ImgBlocks -> Nat \cup {Hole}]
<1>1. ASSUME NEW fb \in ImgBlocks PROVE pic[fb[1]][fb[2]].src \in Nat
  <2>1. fb[1] \in Frames /\ fb[2] \in Blks  BY CacheAssumption
  <2> QED BY <2>1 DEF Items
<1> QED BY <1>1 DEF Image

\* The slots of a new or freed picture.
LEMMA EmptyPicType ==
  /\ EmptyPic \in [Frames -> [Blks -> Items]]
  /\ \A f \in Frames, b \in Blks : ~Held(EmptyPic[f][b])
BY DEF EmptyPic, NoItem, Items, Held

LEMMA FramesBlksFinite ==
  /\ IsFiniteSet(Frames) /\ Cardinality(Frames) = PicSize
  /\ IsFiniteSet(Blks) /\ Cardinality(Blks) = FrameSize
  /\ Frames # {}
<1>1. PicSize \in Nat \ {0} /\ FrameSize \in Nat \ {0}  BY CacheAssumption
<1>2. 0 \in Int /\ PicSize - 1 \in Int /\ FrameSize - 1 \in Int  BY <1>1
<1>3. /\ IsFiniteSet(0 .. PicSize - 1)
      /\ Cardinality(0 .. PicSize - 1) = PicSize - 1 - 0 + 1
  BY <1>1, <1>2, FS_Interval
<1>4. /\ IsFiniteSet(0 .. FrameSize - 1)
      /\ Cardinality(0 .. FrameSize - 1) = FrameSize - 1 - 0 + 1
  BY <1>1, <1>2, FS_Interval
<1>5. 0 \in Frames  BY <1>1 DEF Frames
<1> QED BY <1>1, <1>3, <1>4, <1>5 DEF Frames, Blks

-----------------------------------------------------------------------------
LEMMA InitTypeOK == Init => TypeOK
<1> SUFFICES ASSUME Init PROVE TypeOK  OBVIOUS
<1>1. item \in [Pics -> [Frames -> [Blks -> Items]]]
  BY EmptyPicType DEF Init
<1>2. <<>> \in Seq([ImgBlocks -> Nat \cup {Hole}])  OBVIOUS
<1> QED BY <1>1, <1>2 DEF Init, TypeOK

LEMMA StepTypeOK == TypeOK /\ [Next]_cacheVars => TypeOK'
<1> SUFFICES ASSUME TypeOK, [Next]_cacheVars PROVE TypeOK'  OBVIOUS
<1> USE DEF TypeOK
<1>1. ASSUME NEW pkt \in Packets, StoreBlock(pkt) PROVE TypeOK'
  <2>1. Storable(pkt)  BY <1>1 DEF StoreBlock
  <2>2. StoredPic(pkt) \in [Frames -> [Blks -> Items]]
    BY <2>1, StoredPicType
  <2>3. item' \in [Pics -> [Frames -> [Blks -> Items]]]
    BY <1>1, <2>2 DEF StoreBlock
  <2>4. /\ pkt.pic \in Pics /\ pkt.frame \in Frames  BY <2>1, StorableType
  <2>5. NotRtx(pkt) \in {0, 1} /\ NewFrameNum(pkt) \in Nat /\ NewCompleteNum(pkt) \in Nat
    BY <2>4, SMTT(30) DEF NotRtx, NewFrameNum, NewCompleteNum
  <2>6. frameNum' \in [Pics -> [Frames -> Nat]]
    BY <1>1, <2>4, <2>5 DEF StoreBlock
  <2>7. complete' \in [Pics -> [Frames -> {0, Marked}]]
    BY <1>1, <2>4 DEF StoreBlock
  <2>8. picNum' \in [Pics -> Nat] /\ completeNum' \in [Pics -> Nat]
    BY <1>1, <2>4, <2>5 DEF StoreBlock
  <2>9. groupNum' \in Nat /\ pktNum' \in Nat
    BY <1>1, <2>5 DEF StoreBlock, CountPkt
  <2> QED BY <1>1, <2>3, <2>6, <2>7, <2>8, <2>9 DEF StoreBlock
<1>2. ASSUME NEW pkt \in Packets, CompletePicture(pkt) PROVE TypeOK'
  <2>1. Storable(pkt)  BY <1>2 DEF CompletePicture
  <2>2. Image(StoredPic(pkt)) \in [ImgBlocks -> Nat \cup {Hole}]
    BY <2>1, StoredPicType, ImageType
  <2>3. pictures' \in Seq([ImgBlocks -> Nat \cup {Hole}])
    BY <1>2, <2>2 DEF CompletePicture
  <2>4. rawFile' \in Seq([ImgBlocks -> Nat \cup {Hole}])
    BY <1>2, <2>2 DEF CompletePicture
  <2>5. item' \in [Pics -> [Frames -> [Blks -> Items]]]
    BY <1>2, EmptyPicType DEF CompletePicture, FreePicture
  <2>6. /\ frameNum' \in [Pics -> [Frames -> Nat]]
        /\ complete' \in [Pics -> [Frames -> {0, Marked}]]
        /\ picNum' \in [Pics -> Nat] /\ completeNum' \in [Pics -> Nat]
    BY <1>2 DEF CompletePicture, FreePicture
  <2>7. groupNum' \in Nat /\ pktNum' \in Nat
    BY <1>2 DEF CompletePicture, CountPkt, NotRtx
  <2> QED BY <1>2, <2>3, <2>4, <2>5, <2>6, <2>7 DEF CompletePicture
<1>3. ASSUME NEW pkt \in Packets, StartInfo(pkt) PROVE TypeOK'
  BY <1>3, EmptyPicType DEF StartInfo
<1>4. ASSUME NEW pkt \in Packets, EndInfo(pkt) PROVE TypeOK'
  BY <1>4 DEF EndInfo
<1>5. ASSUME NEW pkt \in Packets, Discard(pkt) PROVE TypeOK'
  BY <1>5 DEF Discard, cacheVars
<1>6. CASE UNCHANGED cacheVars
  BY <1>6 DEF cacheVars
<1> QED BY <1>1, <1>2, <1>3, <1>4, <1>5, <1>6 DEF Next, Receive

\* Whatever packets arrive, every variable of the receiver keeps its type.
THEOREM TypeCorrect == Spec => []TypeOK
<1> QED BY InitTypeOK, StepTypeOK, PTL DEF Spec

-----------------------------------------------------------------------------
\* How one stored packet changes a frame: its block is held afterwards, every
\* other block is held as before, and the count follows.
LEMMA StoredFrame ==
  ASSUME TypeOK, FrameNumCounts, NEW pkt \in Packets, Storable(pkt)
  PROVE  LET B == {b \in Blks : Held(StoredPic(pkt)[pkt.frame][b])}
         IN  /\ B = HeldBlks(pkt.pic, pkt.frame) \cup {pkt.blk}
             /\ Cardinality(B) = NewFrameNum(pkt)
             /\ NewFrameNum(pkt) \in Nat /\ NewFrameNum(pkt) > 0
             /\ NewFrameNum(pkt) >= frameNum[pkt.pic][pkt.frame]
<1> DEFINE B == {b \in Blks : Held(StoredPic(pkt)[pkt.frame][b])}
           H == HeldBlks(pkt.pic, pkt.frame)
<1>1. /\ pkt.pic \in Pics /\ pkt.frame \in Frames /\ pkt.blk \in Blks
      /\ pkt.size \in Nat /\ pkt.size > 0
  BY StorableType
<1>2. item[pkt.pic] \in [Frames -> [Blks -> Items]]  BY <1>1 DEF TypeOK
<1>3. ASSUME NEW b \in Blks
      PROVE  StoredPic(pkt)[pkt.frame][b] =
               IF b = pkt.blk THEN [size |-> pkt.size, group |-> pkt.group, src |-> pkt.src]
                              ELSE item[pkt.pic][pkt.frame][b]
  BY <1>1, <1>2 DEF StoredPic
<1>4. B = H \cup {pkt.blk}
  BY <1>1, <1>3 DEF Held, HeldBlks
<1>5. IsFiniteSet(H)
  BY FramesBlksFinite, FS_Subset DEF HeldBlks
<1>6. Cardinality(B) = IF pkt.blk \in H THEN Cardinality(H) ELSE Cardinality(H) + 1
  BY <1>4, <1>5, FS_AddElement
<1>7. Cardinality(H) = frameNum[pkt.pic][pkt.frame] /\ Cardinality(H) \in Nat
  BY <1>1, <1>5, FS_CardinalityType DEF FrameNumCounts
<1>8. pkt.blk \in H <=> Held(item[pkt.pic][pkt.frame][pkt.blk])
  BY <1>1 DEF HeldBlks
<1>9. Cardinality(B) = NewFrameNum(pkt)
  BY <1>6, <1>7, <1>8 DEF NewFrameNum, NotRtx
<1>10. pkt.blk \in H => Cardinality(H) > 0
  <2> SUFFICES ASSUME pkt.blk \in H PROVE Cardinality(H) # 0  BY <1>7
  <2> QED BY <1>5, FS_EmptySet
<1>11. Cardinality(B) \in Nat /\ Cardinality(B) > 0 /\ Cardinality(B) >= Cardinality(H)
  BY <1>6, <1>7, <1>10
<1> QED BY <1>4, <1>7, <1>9, <1>11

\* An empty slot is counted right, and far from complete.
LEMMA EmptyCounts ==
  /\ {b \in Blks : FALSE} = {} /\ {f \in Frames : FALSE} = {}
  /\ Cardinality({}) = 0
  /\ 0 < PicSize /\ 0 < FrameSize
  /\ PicSize \in Nat /\ FrameSize \in Nat
BY FS_EmptySet, CacheAssumption

\* p2->num: each frame after a step.
LEMMA StepFrameNum ==
  ASSUME TypeOK, FrameNumCounts, [Next]_cacheVars
  PROVE  FrameNumCounts'
<1>1. ASSUME NEW pkt \in Packets, StoreBlock(pkt),
             NEW p \in Pics, NEW f \in Frames
      PROVE  frameNum'[p][f] = Cardinality(HeldBlks(p, f)')
  <2>1. Storable(pkt)  BY <1>1 DEF StoreBlock
  <2>2. pkt.pic \in Pics /\ pkt.frame \in Frames /\ pkt.blk \in Blks
    BY <2>1, StorableType
  <2>3. CASE p = pkt.pic /\ f = pkt.frame
    <3>1. HeldBlks(p, f)' = {b \in Blks : Held(StoredPic(pkt)[pkt.frame][b])}
      BY <1>1, <2>2, <2>3 DEF StoreBlock, HeldBlks, TypeOK
    <3>2. frameNum'[p][f] = NewFrameNum(pkt)
      BY <1>1, <2>2, <2>3 DEF StoreBlock, TypeOK
    <3> QED BY <3>1, <3>2, <2>1, StoredFrame
  <2>4. CASE p # pkt.pic \/ f # pkt.frame
    <3>1. item'[p][f] = item[p][f]
      BY <1>1, <2>2, <2>4 DEF StoreBlock, StoredPic, TypeOK
    <3>2. frameNum'[p][f] = frameNum[p][f]
      BY <1>1, <2>2, <2>4 DEF StoreBlock, TypeOK
    <3> QED BY <3>1, <3>2 DEF HeldBlks, FrameNumCounts
  <2> QED BY <2>3, <2>4
<1>2. ASSUME NEW pkt \in Packets, CompletePicture(pkt),
             NEW p \in Pics, NEW f \in Frames
      PROVE  frameNum'[p][f] = Cardinality(HeldBlks(p, f)')
  <2>1. CASE p = pkt.pic
    <3>1. item'[p] = EmptyPic /\ frameNum'[p][f] = 0
      BY <1>2, <2>1 DEF CompletePicture, FreePicture, TypeOK
    <3>2. HeldBlks(p, f)' = {}  BY <3>1, EmptyPicType DEF HeldBlks
    <3> QED BY <3>1, <3>2, EmptyCounts
  <2>2. CASE p # pkt.pic
    <3>1. item'[p] = item[p] /\ frameNum'[p] = frameNum[p]
      BY <1>2, <2>2 DEF CompletePicture, FreePicture, TypeOK
    <3> QED BY <3>1 DEF HeldBlks, FrameNumCounts
  <2> QED BY <2>1, <2>2
<1>3. ASSUME NEW pkt \in Packets, StartInfo(pkt),
             NEW p \in Pics, NEW f \in Frames
      PROVE  frameNum'[p][f] = Cardinality(HeldBlks(p, f)')
  <2>1. item'[p] = EmptyPic /\ frameNum'[p][f] = 0  BY <1>3 DEF StartInfo
  <2>2. HeldBlks(p, f)' = {}  BY <2>1, EmptyPicType DEF HeldBlks
  <2> QED BY <2>1, <2>2, EmptyCounts
<1>4. ASSUME NEW pkt \in Packets, EndInfo(pkt) \/ Discard(pkt) PROVE FrameNumCounts'
  BY <1>4 DEF EndInfo, Discard, cacheVars, FrameNumCounts, HeldBlks
<1>5. CASE UNCHANGED cacheVars
  BY <1>5 DEF cacheVars, FrameNumCounts, HeldBlks
<1> QED BY <1>1, <1>2, <1>3, <1>4, <1>5 DEF Next, Receive, FrameNumCounts

-----------------------------------------------------------------------------
\* p1->num: a slot's open frames after one stored packet are those before it
\* and the packet's own, which is new exactly when the packet opens it.
LEMMA StoredOpenFrames ==
  ASSUME TypeOK, FrameNumCounts, NEW pkt \in Packets, StoreBlock(pkt)
  PROVE  OpenFrames(pkt.pic)' = OpenFrames(pkt.pic) \cup {pkt.frame}
<1>1. Storable(pkt)  BY DEF StoreBlock
<1>2. pkt.pic \in Pics /\ pkt.frame \in Frames  BY <1>1, StorableType
<1>3. NewFrameNum(pkt) > 0  BY <1>1, StoredFrame
<1>4. ASSUME NEW f \in Frames
      PROVE  frameNum'[pkt.pic][f] = IF f = pkt.frame THEN NewFrameNum(pkt)
                                                      ELSE frameNum[pkt.pic][f]
  BY <1>2 DEF StoreBlock, TypeOK
<1> QED BY <1>2, <1>3, <1>4 DEF OpenFrames

LEMMA StepPicNum ==
  ASSUME TypeOK, FrameNumCounts, PicNumCounts, [Next]_cacheVars
  PROVE  PicNumCounts'
<1>1. ASSUME NEW pkt \in Packets, StoreBlock(pkt), NEW p \in Pics
      PROVE  picNum'[p] = Cardinality(OpenFrames(p)')
  <2>1. pkt.pic \in Pics /\ pkt.frame \in Frames
    BY <1>1, StorableType DEF StoreBlock
  <2>2. CASE p = pkt.pic
    <3>1. OpenFrames(p)' = OpenFrames(p) \cup {pkt.frame}
      BY <1>1, <2>2, StoredOpenFrames
    <3>2. IsFiniteSet(OpenFrames(p))
      BY FramesBlksFinite, FS_Subset DEF OpenFrames
    <3>3. Cardinality(OpenFrames(p)') =
            IF pkt.frame \in OpenFrames(p) THEN Cardinality(OpenFrames(p))
                                           ELSE Cardinality(OpenFrames(p)) + 1
      BY <3>1, <3>2, FS_AddElement
    <3>4. pkt.frame \in OpenFrames(p) <=> ~OpensFrame(pkt)
      BY <2>1, <2>2 DEF OpenFrames, OpensFrame, TypeOK
    <3>5. picNum'[p] = IF OpensFrame(pkt) THEN picNum[p] + 1 ELSE picNum[p]
      BY <1>1, <2>1, <2>2 DEF StoreBlock, TypeOK
    <3> QED BY <3>3, <3>4, <3>5 DEF PicNumCounts
  <2>3. CASE p # pkt.pic
    <3>1. frameNum'[p] = frameNum[p] /\ picNum'[p] = picNum[p]
      BY <1>1, <2>1, <2>3 DEF StoreBlock, TypeOK
    <3> QED BY <3>1 DEF OpenFrames, PicNumCounts
  <2> QED BY <2>2, <2>3
<1>2. ASSUME NEW pkt \in Packets, CompletePicture(pkt), NEW p \in Pics
      PROVE  picNum'[p] = Cardinality(OpenFrames(p)')
  <2>1. CASE p = pkt.pic
    <3>1. picNum'[p] = 0 /\ \A f \in Frames : frameNum'[p][f] = 0
      BY <1>2, <2>1 DEF CompletePicture, FreePicture, TypeOK
    <3>2. OpenFrames(p)' = {}  BY <3>1 DEF OpenFrames
    <3> QED BY <3>1, <3>2, EmptyCounts
  <2>2. CASE p # pkt.pic
    <3>1. frameNum'[p] = frameNum[p] /\ picNum'[p] = picNum[p]
      BY <1>2, <2>2 DEF CompletePicture, FreePicture, TypeOK
    <3> QED BY <3>1 DEF OpenFrames, PicNumCounts
  <2> QED BY <2>1, <2>2
<1>3. ASSUME NEW pkt \in Packets, StartInfo(pkt), NEW p \in Pics
      PROVE  picNum'[p] = Cardinality(OpenFrames(p)')
  <2>1. picNum'[p] = 0 /\ \A f \in Frames : frameNum'[p][f] = 0
    BY <1>3 DEF StartInfo
  <2>2. OpenFrames(p)' = {}  BY <2>1 DEF OpenFrames
  <2> QED BY <2>1, <2>2, EmptyCounts
<1>4. ASSUME NEW pkt \in Packets, EndInfo(pkt) \/ Discard(pkt) PROVE PicNumCounts'
  BY <1>4 DEF EndInfo, Discard, cacheVars, PicNumCounts, OpenFrames
<1>5. CASE UNCHANGED cacheVars
  BY <1>5 DEF cacheVars, PicNumCounts, OpenFrames
<1> QED BY <1>1, <1>2, <1>3, <1>4, <1>5 DEF Next, Receive, PicNumCounts

-----------------------------------------------------------------------------
\* p1->complete_num: a stored packet marks at most its own frame complete,
\* and only if it also counts it.
LEMMA StepCompleteNum ==
  ASSUME TypeOK, CompleteNumBounds, [Next]_cacheVars
  PROVE  CompleteNumBounds'
<1> DEFINE Bounds(p) == /\ completeNum[p] < PicSize
                        /\ Cardinality(CompleteFrames(p)) <= completeNum[p]
<1>1. ASSUME NEW pkt \in Packets, StoreBlock(pkt), NEW p \in Pics
      PROVE  Bounds(p)'
  <2>1. pkt.pic \in Pics /\ pkt.frame \in Frames
    BY <1>1, StorableType DEF StoreBlock
  <2>2. CASE p = pkt.pic
    <3> DEFINE C == CompleteFrames(p)
    <3>1. IsFiniteSet(C) /\ Cardinality(C) \in Nat /\ completeNum[p] \in Nat
      BY FramesBlksFinite, FS_Subset, FS_CardinalityType DEF CompleteFrames, TypeOK
    <3>2. completeNum'[p] = NewCompleteNum(pkt) /\ NewCompleteNum(pkt) < PicSize
      <4>1. NewCompleteNum(pkt) \in Nat
        BY <2>2, <3>1 DEF NewCompleteNum
      <4>2. completeNum'[p] = NewCompleteNum(pkt) /\ ~PicDone(pkt)
        BY <1>1, <2>1, <2>2 DEF StoreBlock, TypeOK
      <4> QED BY <4>1, <4>2, EmptyCounts DEF PicDone
    <3>3. ASSUME NEW f \in Frames
          PROVE  complete'[p][f] = IF f = pkt.frame
                                   THEN IF FrameDone(pkt) THEN Marked ELSE 0
                                   ELSE complete[p][f]
      BY <1>1, <2>1, <2>2 DEF StoreBlock, TypeOK
    <3>4. CASE FrameDone(pkt)
      <4>1. C' = C \cup {pkt.frame}
        BY <2>1, <3>3, <3>4 DEF CompleteFrames
      <4>2. Cardinality(C') = IF pkt.frame \in C THEN Cardinality(C)
                                                 ELSE Cardinality(C) + 1
        BY <3>1, <4>1, FS_AddElement
      <4>3. completeNum'[p] = completeNum[p] + 1
        BY <2>2, <3>2, <3>4 DEF NewCompleteNum
      <4>4. IsFiniteSet(C') /\ Cardinality(C') \in Nat
        BY <3>1, <4>1, FS_AddElement, FS_CardinalityType, SMTT(30)
      <4> QED BY <3>1, <3>2, <4>2, <4>3, <4>4 DEF CompleteNumBounds
    <3>5. CASE ~FrameDone(pkt)
      <4>1. C' \subseteq C
        BY <3>3, <3>5 DEF Marked, CompleteFrames
      <4>2. IsFiniteSet(C') /\ Cardinality(C') <= Cardinality(C)
        BY <3>1, <4>1, FS_Subset
      <4>3. completeNum'[p] = completeNum[p]
        BY <2>2, <3>1, <3>2, <3>5 DEF NewCompleteNum
      <4>4. Cardinality(C') \in Nat
        BY <4>2, FS_CardinalityType
      <4> QED BY <3>1, <3>2, <4>2, <4>3, <4>4 DEF CompleteNumBounds
    <3> QED BY <3>4, <3>5
  <2>3. CASE p # pkt.pic
    <3>1. complete'[p] = complete[p] /\ completeNum'[p] = completeNum[p]
      BY <1>1, <2>1, <2>3 DEF StoreBlock, TypeOK
    <3> QED BY <3>1 DEF CompleteFrames, CompleteNumBounds
  <2> QED BY <2>2, <2>3
<1>2. ASSUME NEW pkt \in Packets, CompletePicture(pkt), NEW p \in Pics
      PROVE  Bounds(p)'
  <2>1. CASE p = pkt.pic
    <3>1. completeNum'[p] = 0 /\ \A f \in Frames : complete'[p][f] = 0
      BY <1>2, <2>1 DEF CompletePicture, FreePicture, TypeOK
    <3>2. CompleteFrames(p)' = {}  BY <3>1 DEF Marked, CompleteFrames
    <3> QED BY <3>1, <3>2, EmptyCounts
  <2>2. CASE p # pkt.pic
    <3>1. complete'[p] = complete[p] /\ completeNum'[p] = completeNum[p]
      BY <1>2, <2>2 DEF CompletePicture, FreePicture, TypeOK
    <3> QED BY <3>1 DEF CompleteFrames, CompleteNumBounds
  <2> QED BY <2>1, <2>2
<1>3. ASSUME NEW pkt \in Packets, StartInfo(pkt), NEW p \in Pics
      PROVE  Bounds(p)'
  <2>1. completeNum'[p] = 0 /\ \A f \in Frames : complete'[p][f] = 0
    BY <1>3 DEF StartInfo
  <2>2. CompleteFrames(p)' = {}  BY <2>1 DEF Marked, CompleteFrames
  <2> QED BY <2>1, <2>2, EmptyCounts
<1>4. ASSUME NEW pkt \in Packets, EndInfo(pkt) \/ Discard(pkt)
      PROVE  CompleteNumBounds'
  BY <1>4 DEF EndInfo, Discard, cacheVars, CompleteNumBounds, CompleteFrames
<1>5. CASE UNCHANGED cacheVars
  BY <1>5 DEF cacheVars, CompleteNumBounds, CompleteFrames
<1> QED BY <1>1, <1>2, <1>3, <1>4, <1>5 DEF Next, Receive, CompleteNumBounds

\* A frame is full only after the packet that filled it, which marked it, and
\* a later packet to a full frame marks it again.
LEMMA StepFullIsComplete ==
  ASSUME TypeOK, FullIsComplete, [Next]_cacheVars
  PROVE  FullIsComplete'
<1>1. ASSUME NEW pkt \in Packets, StoreBlock(pkt), NEW p \in Pics, NEW f \in Frames,
             frameNum'[p][f] >= FrameSize
      PROVE  complete'[p][f] = Marked
  <2>1. pkt.pic \in Pics /\ pkt.frame \in Frames
    BY <1>1, StorableType DEF StoreBlock
  <2>2. CASE p = pkt.pic /\ f = pkt.frame
    <3>1. frameNum'[p][f] = NewFrameNum(pkt)
      BY <1>1, <2>1, <2>2 DEF StoreBlock, TypeOK
    <3>2. FrameDone(pkt)  BY <1>1, <3>1 DEF FrameDone
    <3> QED BY <1>1, <2>1, <2>2, <3>2 DEF StoreBlock, TypeOK
  <2>3. CASE p # pkt.pic \/ f # pkt.frame
    <3>1. frameNum'[p][f] = frameNum[p][f] /\ complete'[p][f] = complete[p][f]
      BY <1>1, <2>1, <2>3 DEF StoreBlock, TypeOK
    <3> QED BY <1>1, <3>1 DEF FullIsComplete
  <2> QED BY <2>2, <2>3
<1>2. ASSUME NEW pkt \in Packets, CompletePicture(pkt), NEW p \in Pics, NEW f \in Frames,
             frameNum'[p][f] >= FrameSize
      PROVE  complete'[p][f] = Marked
  <2>1. CASE p = pkt.pic
    <3>1. frameNum'[p][f] = 0
      BY <1>2, <2>1 DEF CompletePicture, FreePicture, TypeOK
    <3> QED BY <1>2, <3>1, EmptyCounts
  <2>2. CASE p # pkt.pic
    <3>1. frameNum'[p] = frameNum[p] /\ complete'[p] = complete[p]
      BY <1>2, <2>2 DEF CompletePicture, FreePicture, TypeOK
    <3> QED BY <1>2, <3>1 DEF FullIsComplete
  <2> QED BY <2>1, <2>2
<1>3. ASSUME NEW pkt \in Packets, StartInfo(pkt) PROVE FullIsComplete'
  BY <1>3, EmptyCounts DEF StartInfo, FullIsComplete
<1>4. ASSUME NEW pkt \in Packets, EndInfo(pkt) \/ Discard(pkt) PROVE FullIsComplete'
  BY <1>4 DEF EndInfo, Discard, cacheVars, FullIsComplete
<1>5. CASE UNCHANGED cacheVars
  BY <1>5 DEF cacheVars, FullIsComplete
<1> QED BY <1>1, <1>2, <1>3, <1>4, <1>5 DEF Next, Receive, FullIsComplete

-----------------------------------------------------------------------------
LEMMA InitIInv == Init => IInv
<1> SUFFICES ASSUME Init PROVE IInv  OBVIOUS
<1>1. TypeOK  BY InitTypeOK
<1>2. ASSUME NEW p \in Pics
      PROVE  /\ \A f \in Frames : /\ HeldBlks(p, f) = {} /\ frameNum[p][f] = 0
                                  /\ complete[p][f] = 0
             /\ picNum[p] = 0 /\ completeNum[p] = 0
  BY EmptyPicType DEF Init, HeldBlks
<1>3. \A p \in Pics : OpenFrames(p) = {} /\ CompleteFrames(p) = {}
  BY <1>2 DEF Marked, OpenFrames, CompleteFrames
<1>4. FrameNumCounts  BY <1>2, EmptyCounts DEF FrameNumCounts
<1>5. PicNumCounts  BY <1>2, <1>3, EmptyCounts DEF PicNumCounts
<1>6. CompleteNumBounds  BY <1>2, <1>3, EmptyCounts DEF CompleteNumBounds
<1>7. FullIsComplete  BY <1>2, EmptyCounts DEF FullIsComplete
<1> QED BY <1>1, <1>4, <1>5, <1>6, <1>7 DEF IInv

LEMMA StepIInv == IInv /\ [Next]_cacheVars => IInv'
BY StepTypeOK, StepFrameNum, StepPicNum, StepCompleteNum, StepFullIsComplete DEF IInv

\* The counters of pkt2cache agree with the blocks that are in the slots.
THEOREM Counts == Spec => []IInv
<1> QED BY InitIInv, StepIInv, PTL DEF Spec

\* p2->num is the number of blocks the frame holds, p1->num the number of
\* frames of which some block is held; p1->complete_num is below p1->max_num
\* between packets, and no smaller than the number of frames marked complete.
THEOREM NumsCorrect == Spec => []NumsCount
<1>1. IInv => NumsCount  BY DEF IInv, NumsCount
<1> QED BY <1>1, Counts, PTL

\* If every frame of a slot were full, every frame would be marked complete,
\* and complete_num, which is no smaller, would have reached max_num.
LEMMA FullPictureLeaves == IInv => NoFullPictureHeld
<1> SUFFICES ASSUME IInv, NEW p \in Pics, \A f \in Frames : HeldBlks(p, f) = Blks
             PROVE  FALSE
  BY DEF NoFullPictureHeld
<1>1. \A f \in Frames : frameNum[p][f] = FrameSize
  BY FramesBlksFinite DEF IInv, FrameNumCounts
<1>2. FrameSize >= FrameSize  BY EmptyCounts
<1>3. CompleteFrames(p) = Frames
  BY <1>1, <1>2 DEF IInv, FullIsComplete, CompleteFrames
<1>4. Cardinality(CompleteFrames(p)) = PicSize
  BY <1>3, FramesBlksFinite
<1>5. PicSize <= completeNum[p] /\ completeNum[p] < PicSize /\ completeNum[p] \in Nat
  BY <1>4 DEF IInv, CompleteNumBounds, TypeOK
<1> QED BY <1>5, EmptyCounts

\* A picture of which every block has arrived does not stay in its slot.
THEOREM FullPictureEmitted == Spec => []NoFullPictureHeld
<1> QED BY Counts, FullPictureLeaves, PTL

-----------------------------------------------------------------------------
\* The block a packet is stored in, and every other held block of its slot,
\* is still held for the group it was held for ("too fast" saw to it).
LEMMA StoredPicKeeps ==
  ASSUME TypeOK, NEW pkt \in Packets, Storable(pkt),
         NEW f \in Frames, NEW b \in Blks, Held(item[pkt.pic][f][b])
  PROVE  /\ Held(StoredPic(pkt)[f][b])
         /\ StoredPic(pkt)[f][b].group = item[pkt.pic][f][b].group
         /\ StoredPic(pkt)[f][b].src \in Nat
<1>1. /\ pkt.pic \in Pics /\ pkt.frame \in Frames /\ pkt.blk \in Blks
      /\ pkt.size \in Nat /\ pkt.size > 0
      /\ [size |-> pkt.size, group |-> pkt.group, src |-> pkt.src] \in Items
  BY StorableType
<1>2. item[pkt.pic] \in [Frames -> [Blks -> Items]]  BY <1>1 DEF TypeOK
<1>3. CASE f = pkt.frame /\ b = pkt.blk
  <2>1. item[pkt.pic][f][b].group = pkt.group
    BY <1>3 DEF Storable, TooFast
  <2>2. StoredPic(pkt)[f][b] = [size |-> pkt.size, group |-> pkt.group, src |-> pkt.src]
    BY <1>1, <1>2, <1>3 DEF StoredPic
  <2> QED BY <1>1, <2>1, <2>2 DEF Held, Items
<1>4. CASE f # pkt.frame \/ b # pkt.blk
  <2>1. StoredPic(pkt)[f][b] = item[pkt.pic][f][b]
    BY <1>1, <1>2, <1>4 DEF StoredPic
  <2>2. item[pkt.pic][f][b] \in Items  BY <1>2
  <2> QED BY <2>1, <2>2 DEF Items
<1> QED BY <1>3, <1>4

\* What may become of a held block in one step: the body of BlockKept.
KeptOrEmitted ==
  \A p \in Pics, f \in Frames, b \in Blks :
     Held(item[p][f][b]) =>
       \/ starts' > starts
       \/ Held(item'[p][f][b]) /\ item'[p][f][b].group = item[p][f][b].group
       \/ /\ Len(pictures') = Len(pictures) + 1
          /\ \A q \in Pics \ {p} : item'[q] = item[q]
          /\ <<f, b>> \in ImgBlocks =>
               pictures'[Len(pictures')][<<f, b>>] # Hole

LEMMA StepBlockKept ==
  ASSUME TypeOK, [Next]_cacheVars
  PROVE  KeptOrEmitted
<1> DEFINE Kept(p, f, b) ==
      \/ starts' > starts
      \/ Held(item'[p][f][b]) /\ item'[p][f][b].group = item[p][f][b].group
      \/ /\ Len(pictures') = Len(pictures) + 1
         /\ \A q \in Pics \ {p} : item'[q] = item[q]
         /\ <<f, b>> \in ImgBlocks =>
              pictures'[Len(pictures')][<<f, b>>] # Hole
<1> SUFFICES ASSUME NEW p \in Pics, NEW f \in Frames, NEW b \in Blks,
                    Held(item[p][f][b])
             PROVE  Kept(p, f, b)
  BY DEF KeptOrEmitted
<1>1. ASSUME NEW pkt \in Packets, StoreBlock(pkt) PROVE Kept(p, f, b)
  <2>1. Storable(pkt) /\ pkt.pic \in Pics
    BY <1>1, StorableType DEF StoreBlock
  <2>2. CASE p = pkt.pic
    <3>1. item'[p] = StoredPic(pkt)
      BY <1>1, <2>1, <2>2 DEF StoreBlock, TypeOK
    <3> QED BY <3>1, <2>1, <2>2, StoredPicKeeps
  <2>3. CASE p # pkt.pic
    <3>1. item'[p] = item[p]
      BY <1>1, <2>1, <2>3 DEF StoreBlock, TypeOK
    <3> QED BY <3>1
  <2> QED BY <2>2, <2>3
<1>2. ASSUME NEW pkt \in Packets, CompletePicture(pkt) PROVE Kept(p, f, b)
  <2>1. Storable(pkt) /\ pkt.pic \in Pics
    BY <1>2, StorableType DEF CompletePicture
  <2>2. CASE p = pkt.pic
    <3> DEFINE new == Image(StoredPic(pkt))
    <3>1. pictures' = Append(pictures, new)  BY <1>2 DEF CompletePicture
    <3>2. new \in [ImgBlocks -> Nat \cup {Hole}]
      BY <2>1, StoredPicType, ImageType
    <3>3. Len(pictures') = Len(pictures) + 1 /\ pictures'[Len(pictures')] = new
      BY <3>1, <3>2 DEF TypeOK
    <3>4. ASSUME <<f, b>> \in ImgBlocks PROVE new[<<f, b>>] # Hole
      <4>1. Held(StoredPic(pkt)[f][b]) /\ StoredPic(pkt)[f][b].src \in Nat
        BY <2>1, <2>2, StoredPicKeeps
      <4>2. new[<<f, b>>] = StoredPic(pkt)[f][b].src
        BY <3>4, <4>1 DEF Image
      <4> QED BY <4>1, <4>2 DEF Hole
    <3>5. \A q \in Pics \ {p} : item'[q] = item[q]
      BY <1>2, <2>2 DEF CompletePicture, FreePicture, TypeOK
    <3> QED BY <3>3, <3>4, <3>5
  <2>3. CASE p # pkt.pic
    <3>1. item'[p] = item[p]
      BY <1>2, <2>3 DEF CompletePicture, FreePicture, TypeOK
    <3> QED BY <3>1
  <2> QED BY <2>2, <2>3
<1>3. ASSUME NEW pkt \in Packets, StartInfo(pkt) PROVE Kept(p, f, b)
  BY <1>3 DEF StartInfo, TypeOK
<1>4. ASSUME NEW pkt \in Packets, EndInfo(pkt) \/ Discard(pkt) PROVE Kept(p, f, b)
  BY <1>4 DEF EndInfo, Discard, cacheVars
<1>5. CASE UNCHANGED cacheVars
  BY <1>5 DEF cacheVars
<1> QED BY <1>1, <1>2, <1>3, <1>4, <1>5 DEF Next, Receive

\* A held block stays for its group until its bytes are in an image, whatever
\* packets arrive; only a start packet discards it.
THEOREM BlocksAreKept == Spec => BlockKept
<1>1. TypeOK /\ [Next]_cacheVars => [KeptOrEmitted]_cacheVars  BY StepBlockKept
<1> QED BY <1>1, TypeCorrect, PTL DEF Spec, BlockKept, KeptOrEmitted

-----------------------------------------------------------------------------
(* The totals. *)

\* No packet is for a block that get_picture does not visit: raw2pkt makes none
\* (PayloadsTile, in FileTransferProofs).
PacketsInside ==
  \A pkt \in Packets : pkt.data_type = 0 /\ pkt.frame < PicSize =>
    <<pkt.frame, pkt.blk>> \in ImgBlocks

AllHeld  == {c \in Pics \X Frames \X Blks : Held(item[c[1]][c[2]][c[3]])}
AllOut   == {c \in (DOMAIN pictures) \X ImgBlocks : pictures[c[1]][c[2]] # Hole}
OpenPics == {p \in Pics : picNum[p] > 0}

\* Nothing is stored before the start packet.
NothingBefore ==
  /\ starts = 0 => ~ready
  /\ ~ready => /\ groupNum = 0 /\ pktNum = 0 /\ pictures = <<>>
               /\ AllHeld = {} /\ OpenPics = {}

HeldInside ==
  \A p \in Pics, f \in Frames, b \in Blks :
    Held(item[p][f][b]) => <<f, b>> \in ImgBlocks

TotalsInv == NothingBefore /\ HeldInside /\ TotalsAccount

LEMMA FiniteTotals ==
  ASSUME TypeOK
  PROVE  /\ IsFiniteSet(AllHeld) /\ IsFiniteSet(AllOut) /\ IsFiniteSet(OpenPics)
         /\ IsFiniteSet(ImgBlocks)
<1>1. IsFiniteSet(Pics) /\ IsFiniteSet(Frames) /\ IsFiniteSet(Blks)
  BY CacheAssumption, FS_Interval, FramesBlksFinite DEF Pics
<1>2. IsFiniteSet(Pics \X Frames \X Blks)
  <2> DEFINE S == (Pics \X Frames) \X Blks  T == Pics \X Frames \X Blks
             g == [c \in S |-> <<c[1][1], c[1][2], c[2]>>]
  <2>1. IsFiniteSet(S)  BY <1>1, FS_Product
  <2>2. g \in Surjection(S, T)
    <3>1. ASSUME NEW t \in T PROVE \E c \in S : g[c] = t
      <4>1. <<<<t[1], t[2]>>, t[3]>> \in S /\ g[<<<<t[1], t[2]>>, t[3]>>] = t
        OBVIOUS
      <4> QED BY <4>1
    <3>2. g \in [S -> T]  OBVIOUS
    <3> QED BY <3>1, <3>2 DEF Surjection
  <2> QED BY <2>1, <2>2, FS_Surjection
<1>3. IsFiniteSet(ImgBlocks)
  BY <1>1, CacheAssumption, FS_Product, FS_Subset
<1>4. IsFiniteSet(DOMAIN pictures)
  <2>1. DOMAIN pictures = 1 .. Len(pictures) /\ Len(pictures) \in Nat
    BY DEF TypeOK
  <2> QED BY <2>1, FS_Interval
<1>5. IsFiniteSet((DOMAIN pictures) \X ImgBlocks)  BY <1>3, <1>4, FS_Product
<1> QED BY <1>1, <1>2, <1>3, <1>5, FS_Subset DEF AllHeld, AllOut, OpenPics

\* The blocks of one slot are as many among all blocks held as they are among
\* those of one image.
OfSlot(p, S)  == {<<p, c[1], c[2]>> : c \in S}
OfImage(n, S) == {<<n, c>> : c \in S}

LEMMA SameNumber ==
  ASSUME NEW S, IsFiniteSet(S), \A c \in S : c = <<c[1], c[2]>>, NEW p, NEW n
  PROVE  /\ IsFiniteSet(OfSlot(p, S)) /\ Cardinality(OfSlot(p, S)) = Cardinality(S)
         /\ IsFiniteSet(OfImage(n, S)) /\ Cardinality(OfImage(n, S)) = Cardinality(S)
<1> DEFINE T == {<<p, c[1], c[2]>> : c \in S}  U == {<<n, c>> : c \in S}
<1>1. ExistsBijection(S, T)
  <2> DEFINE g == [c \in S |-> <<p, c[1], c[2]>>]
  <2>1. g \in [S -> T] /\ \A t \in T : \E c \in S : g[c] = t  OBVIOUS
  <2>2. ASSUME NEW c \in S, NEW d \in S, g[c] = g[d] PROVE c = d
    <3>1. c[1] = d[1] /\ c[2] = d[2]  BY <2>2
    <3> QED BY <3>1
  <2>3. g \in Bijection(S, T)
    BY <2>1, <2>2 DEF Bijection, Injection, Surjection, IsInjective
  <2> QED BY <2>3 DEF ExistsBijection
<1>2. ExistsBijection(S, U)
  <2> DEFINE g == [c \in S |-> <<n, c>>]
  <2>1. g \in [S -> U] /\ \A t \in U : \E c \in S : g[c] = t  OBVIOUS
  <2>2. ASSUME NEW c \in S, NEW d \in S, g[c] = g[d] PROVE c = d  BY <2>2
  <2>3. g \in Bijection(S, U)
    BY <2>1, <2>2 DEF Bijection, Injection, Surjection, IsInjective
  <2> QED BY <2>3 DEF ExistsBijection
<1>3. T = OfSlot(p, S) /\ U = OfImage(n, S)  BY DEF OfSlot, OfImage
<1> HIDE DEF T, U
<1> QED BY <1>1, <1>2, <1>3, FS_Bijection

\* The packet's block counts in lrCount.pkt_num if it is not held yet, and its
\* slot in p0->num if no block of it is.
LEMMA CountedOnce ==
  ASSUME TypeOK, FrameNumCounts, PicNumCounts, NEW pkt \in Packets, Storable(pkt)
  PROVE  /\ Cardinality(AllHeld \cup {<<pkt.pic, pkt.frame, pkt.blk>>})
              = Cardinality(AllHeld) + NotRtx(pkt)
         /\ Cardinality(OpenPics \cup {pkt.pic})
              = Cardinality(OpenPics) + (IF OpensPic(pkt) THEN 1 ELSE 0)
         /\ Cardinality(AllHeld) \in Nat /\ Cardinality(OpenPics) \in Nat
         /\ OpensPic(pkt) <=> pkt.pic \notin OpenPics
<1>1. pkt.pic \in Pics /\ pkt.frame \in Frames /\ pkt.blk \in Blks
  BY StorableType
<1>2. <<pkt.pic, pkt.frame, pkt.blk>> \in AllHeld
        <=> Held(item[pkt.pic][pkt.frame][pkt.blk])
  BY <1>1 DEF AllHeld
<1>3. Cardinality(AllHeld) \in Nat /\ Cardinality(OpenPics) \in Nat
  BY FiniteTotals, FS_CardinalityType
<1>4. Cardinality(AllHeld \cup {<<pkt.pic, pkt.frame, pkt.blk>>})
        = Cardinality(AllHeld) + NotRtx(pkt)
  <2> DEFINE c0 == <<pkt.pic, pkt.frame, pkt.blk>>
  <2>1. IsFiniteSet(AllHeld)  BY FiniteTotals
  <2>2. Cardinality(AllHeld \cup {c0}) =
          IF c0 \in AllHeld THEN Cardinality(AllHeld) ELSE Cardinality(AllHeld) + 1
    BY <2>1, FS_AddElement
  <2> HIDE DEF c0
  <2>3. Cardinality(AllHeld \cup {c0}) = Cardinality(AllHeld) + NotRtx(pkt)
    BY <1>2, <1>3, <2>2 DEF NotRtx, c0
  <2> QED BY <2>3 DEF c0
<1>5. OpensPic(pkt) <=> pkt.pic \notin OpenPics
  <2>1. picNum[pkt.pic] \in Nat  BY <1>1 DEF TypeOK
  <2>2. ASSUME picNum[pkt.pic] = 0 PROVE frameNum[pkt.pic][pkt.frame] = 0
    <3>1. OpenFrames(pkt.pic) = {}
      <4>1. Cardinality(OpenFrames(pkt.pic)) = 0
        BY <1>1, <2>2 DEF PicNumCounts
      <4>2. IsFiniteSet(OpenFrames(pkt.pic))
        BY FramesBlksFinite, FS_Subset DEF OpenFrames
      <4> QED BY <4>1, <4>2, FS_EmptySet
    <3>2. frameNum[pkt.pic][pkt.frame] \in Nat  BY <1>1 DEF TypeOK
    <3> QED BY <1>1, <3>1, <3>2 DEF OpenFrames
  <2>3. pkt.pic \in OpenPics <=> picNum[pkt.pic] > 0  BY <1>1 DEF OpenPics
  <2> QED BY <2>1, <2>2, <2>3 DEF OpensPic, OpensFrame
<1>6. Cardinality(OpenPics \cup {pkt.pic})
        = Cardinality(OpenPics) + (IF OpensPic(pkt) THEN 1 ELSE 0)
  <2>1. IsFiniteSet(OpenPics)  BY FiniteTotals
  <2>2. Cardinality(OpenPics \cup {pkt.pic}) =
          IF pkt.pic \in OpenPics THEN Cardinality(OpenPics)
                                  ELSE Cardinality(OpenPics) + 1
    BY <2>1, FS_AddElement
  <2> QED BY <1>3, <1>5, <2>2
<1> QED BY <1>3, <1>4, <1>5, <1>6

\* The blocks held once the packet is stored, in its slot and in the others.
LEMMA StoredHeld ==
  ASSUME TypeOK, NEW pkt \in Packets, Storable(pkt),
         NEW p \in Pics, NEW f \in Frames, NEW b \in Blks
  PROVE  LET it == IF p = pkt.pic THEN StoredPic(pkt)[f][b] ELSE item[p][f][b]
         IN  Held(it) <=> \/ Held(item[p][f][b])
                          \/ p = pkt.pic /\ f = pkt.frame /\ b = pkt.blk
<1>1. /\ pkt.pic \in Pics /\ pkt.frame \in Frames /\ pkt.blk \in Blks
      /\ pkt.size \in Nat /\ pkt.size > 0
  BY StorableType
<1>2. item[pkt.pic] \in [Frames -> [Blks -> Items]]  BY <1>1 DEF TypeOK
<1>3. StoredPic(pkt)[f][b] =
        IF f = pkt.frame /\ b = pkt.blk
          THEN [size |-> pkt.size, group |-> pkt.group, src |-> pkt.src]
          ELSE item[pkt.pic][f][b]
  BY <1>1, <1>2 DEF StoredPic
<1> QED BY <1>1, <1>3 DEF Held

LEMMA StoreTotals ==
  ASSUME IInv, TotalsInv, PacketsInside, NEW pkt \in Packets, StoreBlock(pkt)
  PROVE  TotalsInv'
<1>1. /\ Storable(pkt) /\ TypeOK /\ FrameNumCounts /\ PicNumCounts /\ ready
      /\ pkt.pic \in Pics /\ pkt.frame \in Frames /\ pkt.blk \in Blks
      /\ starts' = starts /\ ready' = ready /\ pictures' = pictures
  BY StorableType DEF StoreBlock, IInv, Storable, InRange
<1>2. starts # 0  BY <1>1 DEF TotalsInv, NothingBefore
<1>3. ASSUME NEW p \in Pics, NEW f \in Frames, NEW b \in Blks
      PROVE  Held(item'[p][f][b]) <=> \/ Held(item[p][f][b])
                                      \/ p = pkt.pic /\ f = pkt.frame /\ b = pkt.blk
  <2>1. item' = [item EXCEPT ![pkt.pic] = StoredPic(pkt)]  BY DEF StoreBlock
  <2>2. item'[p] = IF p = pkt.pic THEN StoredPic(pkt) ELSE item[p]
    BY <1>1, <2>1 DEF TypeOK
  <2> QED BY <1>1, <2>2, StoredHeld
<1>4. AllHeld' = AllHeld \cup {<<pkt.pic, pkt.frame, pkt.blk>>}
  BY <1>1, <1>3 DEF AllHeld
<1>5. OpenPics' = IF OpensFrame(pkt) THEN OpenPics \cup {pkt.pic} ELSE OpenPics
  <2>1. picNum' = [picNum EXCEPT ![pkt.pic] =
                     IF OpensFrame(pkt) THEN @ + 1 ELSE @]
    BY DEF StoreBlock
  <2>2. \A p \in Pics : picNum[p] \in Nat /\ picNum'[p] =
          IF p = pkt.pic /\ OpensFrame(pkt) THEN picNum[p] + 1 ELSE picNum[p]
    BY <1>1, <2>1 DEF TypeOK
  <2>3. \A p \in Pics : picNum'[p] > 0 <=>
          picNum[p] > 0 \/ (p = pkt.pic /\ OpensFrame(pkt))
    BY <2>2
  <2> QED BY <1>1, <2>3 DEF OpenPics
<1>6. AllOut' = AllOut  BY <1>1 DEF AllOut
<1>7. /\ groupNum' = IF OpensPic(pkt) THEN groupNum + 1 ELSE groupNum
      /\ pktNum' = pktNum + NotRtx(pkt)
  BY DEF StoreBlock, CountPkt
<1>8. Cardinality(OpenPics') = Cardinality(OpenPics) + (IF OpensPic(pkt) THEN 1 ELSE 0)
  <2>1. CASE OpensFrame(pkt)  BY <1>1, <1>5, <2>1, CountedOnce
  <2>2. CASE ~OpensFrame(pkt)
    BY <1>1, <1>5, <2>2, CountedOnce DEF OpensPic
  <2> QED BY <2>1, <2>2
<1>9. Cardinality(AllHeld') = Cardinality(AllHeld) + NotRtx(pkt)
  BY <1>1, <1>4, CountedOnce
<1>10. TotalsAccount'
  <2>1. SUFFICES ASSUME starts <= 1
                 PROVE  /\ groupNum' = Len(pictures') + Cardinality(OpenPics')
                        /\ pktNum' = Cardinality(AllHeld') + Cardinality(AllOut')
    BY <1>1 DEF TotalsAccount, OpenPics, AllHeld, AllOut
  <2>2. /\ groupNum = Len(pictures) + Cardinality(OpenPics)
        /\ pktNum = Cardinality(AllHeld) + Cardinality(AllOut)
    BY <2>1 DEF TotalsInv, TotalsAccount, OpenPics, AllHeld, AllOut
  <2>3. Cardinality(AllHeld) \in Nat /\ Cardinality(OpenPics) \in Nat
    BY <1>1, CountedOnce
  <2>4. Cardinality(AllOut) \in Nat /\ Len(pictures) \in Nat
    BY <1>1, FiniteTotals, FS_CardinalityType DEF TypeOK
  <2>5. NotRtx(pkt) \in Nat  BY DEF NotRtx
  <2>6. pktNum' = Cardinality(AllHeld') + Cardinality(AllOut')
    <3>1. PICK h \in Nat, o \in Nat, x \in Nat :
            /\ h = Cardinality(AllHeld) /\ o = Cardinality(AllOut)
            /\ x = NotRtx(pkt)
      BY <2>3, <2>4, <2>5
    <3>2. pktNum' = (h + o) + x  BY <1>7, <2>2, <3>1
    <3>3. Cardinality(AllHeld') = h + x /\ Cardinality(AllOut') = o
      BY <1>6, <1>9, <3>1
    <3>4. (h + o) + x = (h + x) + o  OBVIOUS
    <3> QED BY <3>2, <3>3, <3>4
  <2>7. groupNum' = Len(pictures') + Cardinality(OpenPics')
    <3>1. PICK o \in Nat, l \in Nat :
            /\ o = Cardinality(OpenPics) /\ l = Len(pictures)
      BY <2>3, <2>4
    <3>2. Len(pictures') = l  BY <1>1, <3>1
    <3> QED BY <1>7, <1>8, <2>2, <3>1, <3>2
  <2> QED BY <2>6, <2>7
<1>11. HeldInside'
  <2>1. <<pkt.frame, pkt.blk>> \in ImgBlocks
    BY <1>1 DEF PacketsInside, Storable, InRange
  <2> QED BY <1>3, <2>1 DEF TotalsInv, HeldInside
<1>12. NothingBefore'  BY <1>1, <1>2 DEF NothingBefore
<1> QED BY <1>10, <1>11, <1>12 DEF TotalsInv

\* The blocks that get_picture finds, the packet's among them, leave the slot
\* and are in the image.
LEMMA CompleteTotals ==
  ASSUME IInv, TotalsInv, PacketsInside, NEW pkt \in Packets, CompletePicture(pkt)
  PROVE  TotalsInv'
<1>1. /\ Storable(pkt) /\ TypeOK /\ FrameNumCounts /\ PicNumCounts /\ ready
      /\ pkt.pic \in Pics /\ pkt.frame \in Frames /\ pkt.blk \in Blks
      /\ starts' = starts /\ ready' = ready
  BY StorableType DEF CompletePicture, IInv, Storable, InRange
<1>2. starts # 0  BY <1>1 DEF TotalsInv, NothingBefore
<1> DEFINE img  == Image(StoredPic(pkt))
           n    == Len(pictures) + 1
           S    == {c \in ImgBlocks : Held(StoredPic(pkt)[c[1]][c[2]])}
           Slot == OfSlot(pkt.pic, S)
           Came == OfImage(n, S)
           c0   == <<pkt.pic, pkt.frame, pkt.blk>>
<1>3. /\ \A c \in ImgBlocks : c[1] \in Frames /\ c[2] \in Blks /\ c = <<c[1], c[2]>>
      /\ S \subseteq ImgBlocks
  BY CacheAssumption
<1>4. <<pkt.frame, pkt.blk>> \in ImgBlocks
  BY <1>1 DEF PacketsInside, Storable, InRange
<1>5. ASSUME NEW p \in Pics, NEW f \in Frames, NEW b \in Blks
      PROVE  /\ Held(item'[p][f][b]) <=> p # pkt.pic /\ Held(item[p][f][b])
             /\ Held(StoredPic(pkt)[f][b]) <=>
                  Held(item[pkt.pic][f][b]) \/ (f = pkt.frame /\ b = pkt.blk)
  <2>1. item' = [item EXCEPT ![pkt.pic] = EmptyPic]
    BY DEF CompletePicture, FreePicture
  <2>2. item'[p] = IF p = pkt.pic THEN EmptyPic ELSE item[p]
    BY <1>1, <2>1 DEF TypeOK
  <2>3. ~Held(EmptyPic[f][b])  BY EmptyPicType
  <2>4. Held(StoredPic(pkt)[f][b]) <=>
          Held(item[pkt.pic][f][b]) \/ (f = pkt.frame /\ b = pkt.blk)
    BY <1>1, StoredHeld
  <2> QED BY <2>2, <2>3, <2>4
<1>6. AllHeld \cup {c0} = AllHeld' \cup Slot /\ AllHeld' \cap Slot = {}
  <2>1. ASSUME NEW c \in AllHeld \cup {c0} PROVE c \in AllHeld' \cup Slot
    <3>1. /\ c[1] \in Pics /\ c[2] \in Frames /\ c[3] \in Blks
          /\ c = <<c[1], c[2], c[3]>>
          /\ c = c0 \/ Held(item[c[1]][c[2]][c[3]])
      BY <1>1, <2>1 DEF AllHeld
    <3>2. CASE c[1] # pkt.pic
      <4>1. Held(item'[c[1]][c[2]][c[3]])  BY <1>5, <3>1, <3>2
      <4>2. c \in Pics \X Frames \X Blks  BY <3>1
      <4> QED BY <4>1, <4>2 DEF AllHeld
    <3>3. CASE c[1] = pkt.pic
      <4>1. <<c[2], c[3]>> \in ImgBlocks
        <5>1. CASE c = c0  BY <1>4, <5>1
        <5>2. CASE c # c0  BY <3>1, <5>2 DEF TotalsInv, HeldInside
        <5> QED BY <5>1, <5>2
      <4>2. Held(StoredPic(pkt)[c[2]][c[3]])
        <5>1. c = c0 => c[2] = pkt.frame /\ c[3] = pkt.blk  OBVIOUS
        <5> QED BY <1>5, <3>1, <3>3, <5>1
      <4>3. <<c[2], c[3]>> \in S  BY <4>1, <4>2
      <4>4. c = <<pkt.pic, <<c[2], c[3]>>[1], <<c[2], c[3]>>[2]>>  BY <3>1, <3>3
      <4> QED BY <4>3, <4>4 DEF OfSlot
    <3> QED BY <3>2, <3>3
  <2>2. ASSUME NEW c \in Slot PROVE c \in AllHeld \cup {c0} /\ c \notin AllHeld'
    <3>1. PICK d \in S : c = <<pkt.pic, d[1], d[2]>>  BY DEF OfSlot
    <3>2. d[1] \in Frames /\ d[2] \in Blks /\ Held(StoredPic(pkt)[d[1]][d[2]])
      BY <1>3
    <3>3. c \in Pics \X Frames \X Blks /\ c[1] = pkt.pic /\ c[2] = d[1] /\ c[3] = d[2]
      BY <1>1, <3>1, <3>2
    <3>4. Held(item[c[1]][c[2]][c[3]]) \/ c = c0
      BY <1>1, <1>5, <3>1, <3>2, <3>3
    <3>5. ~Held(item'[c[1]][c[2]][c[3]])  BY <1>1, <1>5, <3>2, <3>3
    <3> QED BY <3>3, <3>4, <3>5 DEF AllHeld
  <2>3. ASSUME NEW c \in AllHeld' PROVE c \in AllHeld
    <3>1. /\ c \in Pics \X Frames \X Blks /\ Held(item'[c[1]][c[2]][c[3]])
          /\ c[1] \in Pics /\ c[2] \in Frames /\ c[3] \in Blks
      BY <2>3 DEF AllHeld
    <3>2. Held(item[c[1]][c[2]][c[3]])  BY <1>5, <3>1
    <3> QED BY <3>1, <3>2 DEF AllHeld
  <2> QED BY <2>1, <2>2, <2>3
<1>7. AllOut' = AllOut \cup Came /\ AllOut \cap Came = {}
  <2>1. /\ pictures' = Append(pictures, img) /\ Len(pictures) \in Nat
        /\ DOMAIN pictures = 1 .. Len(pictures)
        /\ pictures \in Seq([ImgBlocks -> Nat \cup {Hole}])
        /\ img \in [ImgBlocks -> Nat \cup {Hole}]
    <3>1. StoredPic(pkt) \in [Frames -> [Blks -> Items]]  BY <1>1, StoredPicType
    <3>2. img \in [ImgBlocks -> Nat \cup {Hole}]  BY <3>1, ImageType
    <3>3. pictures' = Append(pictures, img)  BY DEF CompletePicture
    <3> HIDE DEF img
    <3>4. pictures \in Seq([ImgBlocks -> Nat \cup {Hole}])  BY <1>1 DEF TypeOK
    <3> QED BY <3>2, <3>3, <3>4
  <2> HIDE DEF img
  <2>2. /\ DOMAIN pictures' = (DOMAIN pictures) \cup {n} /\ n \notin DOMAIN pictures
        /\ pictures'[n] = img /\ \A k \in DOMAIN pictures : pictures'[k] = pictures[k]
    BY <2>1
  <2>3. \A c \in ImgBlocks : img[c] # Hole <=> c \in S
    <3>1. ASSUME NEW c \in ImgBlocks PROVE img[c] # Hole <=> c \in S
      <4>1. StoredPic(pkt)[c[1]][c[2]].src \in Nat
        <5>1. StoredPic(pkt) \in [Frames -> [Blks -> Items]]
          BY <1>1, StoredPicType
        <5> QED BY <1>3, <5>1 DEF Items
      <4> QED BY <4>1 DEF img, Image, Hole
    <3> QED BY <3>1
  <2> HIDE DEF n, S
  <2>4. AllOut' = {c \in ((DOMAIN pictures) \cup {n}) \X ImgBlocks :
                     pictures'[c[1]][c[2]] # Hole}
    BY <2>2 DEF AllOut
  <2>5. ASSUME NEW c \in AllOut' PROVE c \in AllOut \cup Came
    <3>1. /\ c[1] \in (DOMAIN pictures) \cup {n} /\ c[2] \in ImgBlocks
          /\ c = <<c[1], c[2]>> /\ pictures'[c[1]][c[2]] # Hole
      BY <2>4
    <3>2. CASE c[1] = n  BY <2>2, <2>3, <3>1, <3>2 DEF OfImage
    <3>3. CASE c[1] \in DOMAIN pictures
      BY <2>2, <3>1, <3>3 DEF AllOut
    <3> QED BY <3>1, <3>2, <3>3
  <2>6. ASSUME NEW c \in AllOut PROVE c \in AllOut' /\ c[1] # n
    BY <2>2, <2>4 DEF AllOut
  <2>7. ASSUME NEW c \in Came PROVE c \in AllOut' /\ c[1] = n
    <3>1. PICK d \in S : c = <<n, d>>  BY DEF OfImage
    <3>2. d \in ImgBlocks  BY <1>3 DEF S
    <3>3. pictures'[n][d] # Hole  BY <2>2, <2>3, <3>1, <3>2
    <3> QED BY <2>4, <3>1, <3>2, <3>3
  <2> QED BY <2>5, <2>6, <2>7
<1>8. OpenPics' = OpenPics \ {pkt.pic}
  <2>1. picNum' = [picNum EXCEPT ![pkt.pic] = 0]
    BY DEF CompletePicture, FreePicture
  <2>2. \A p \in Pics : picNum'[p] = IF p = pkt.pic THEN 0 ELSE picNum[p]
    BY <1>1, <2>1 DEF TypeOK
  <2>3. \A p \in Pics : picNum'[p] > 0 <=> p # pkt.pic /\ picNum[p] > 0
    BY <2>2
  <2> QED BY <2>3 DEF OpenPics
<1>9. Len(pictures') = Len(pictures) + 1
  BY <1>1 DEF CompletePicture, TypeOK
<1>10. /\ IsFiniteSet(S) /\ IsFiniteSet(Slot) /\ IsFiniteSet(Came)
       /\ Cardinality(Slot) = Cardinality(S) /\ Cardinality(Came) = Cardinality(S)
       /\ Cardinality(S) \in Nat
  <2>1. IsFiniteSet(S)  BY <1>1, FiniteTotals, FS_Subset
  <2>2. \A c \in S : c = <<c[1], c[2]>>  BY <1>3
  <2>3. Cardinality(S) \in Nat  BY <2>1, FS_CardinalityType
  <2> HIDE DEF S, n
  <2> QED BY <2>1, <2>2, <2>3, SameNumber
<1> HIDE DEF S, Slot, Came, c0, n, img
<1>11. Cardinality(AllHeld') + Cardinality(S) = Cardinality(AllHeld) + NotRtx(pkt)
  <2>1. AllHeld' \subseteq AllHeld \cup {c0}  BY <1>6
  <2>2. IsFiniteSet(AllHeld \cup {c0})  BY <1>1, FiniteTotals, FS_AddElement
  <2>3. IsFiniteSet(AllHeld')  BY <2>1, <2>2, FS_Subset
  <2>4. Cardinality(AllHeld' \cup Slot)
          = Cardinality(AllHeld') + Cardinality(Slot) - Cardinality(AllHeld' \cap Slot)
    BY <1>10, <2>3, FS_Union
  <2>5. Cardinality(AllHeld' \cap Slot) = 0  BY <1>6, FS_EmptySet
  <2>6. Cardinality(AllHeld') \in Nat  BY <2>3, FS_CardinalityType
  <2>7. Cardinality(AllHeld \cup {c0}) = Cardinality(AllHeld) + NotRtx(pkt)
    BY <1>1, CountedOnce DEF c0
  <2>8. Cardinality(AllHeld) \in Nat  BY <1>1, CountedOnce
  <2>9. Cardinality(AllHeld' \cup Slot) = Cardinality(AllHeld) + NotRtx(pkt)
    BY <1>6, <2>7
  <2>10. NotRtx(pkt) \in Nat  BY DEF NotRtx
  <2> QED BY <1>10, <2>4, <2>5, <2>6, <2>8, <2>9, <2>10
<1>12. Cardinality(AllOut') = Cardinality(AllOut) + Cardinality(S)
  <2>1. IsFiniteSet(AllOut)  BY <1>1, FiniteTotals
  <2>2. Cardinality(AllOut \cup Came)
          = Cardinality(AllOut) + Cardinality(Came) - Cardinality(AllOut \cap Came)
    BY <1>10, <2>1, FS_Union
  <2>3. Cardinality(AllOut \cap Came) = 0  BY <1>7, FS_EmptySet
  <2>4. Cardinality(AllOut) \in Nat  BY <2>1, FS_CardinalityType
  <2> QED BY <1>7, <1>10, <2>2, <2>3, <2>4
<1>13. Cardinality(OpenPics') + 1
         = Cardinality(OpenPics) + (IF OpensPic(pkt) THEN 1 ELSE 0)
  <2>1. IsFiniteSet(OpenPics)  BY <1>1, FiniteTotals
  <2>2. Cardinality(OpenPics \ {pkt.pic}) =
          IF pkt.pic \in OpenPics THEN Cardinality(OpenPics) - 1
                                  ELSE Cardinality(OpenPics)
    BY <2>1, FS_RemoveElement
  <2>3. /\ Cardinality(OpenPics) \in Nat
        /\ OpensPic(pkt) <=> pkt.pic \notin OpenPics
    BY <1>1, CountedOnce
  <2> QED BY <1>8, <2>2, <2>3
<1>14. TotalsAccount'
  <2>1. SUFFICES ASSUME starts <= 1
                 PROVE  /\ groupNum' = Len(pictures') + Cardinality(OpenPics')
                        /\ pktNum' = Cardinality(AllHeld') + Cardinality(AllOut')
    BY <1>1 DEF TotalsAccount, OpenPics, AllHeld, AllOut
  <2>2. /\ groupNum = Len(pictures) + Cardinality(OpenPics)
        /\ pktNum = Cardinality(AllHeld) + Cardinality(AllOut)
    BY <2>1 DEF TotalsInv, TotalsAccount, OpenPics, AllHeld, AllOut
  <2>3. /\ groupNum' = IF OpensPic(pkt) THEN groupNum + 1 ELSE groupNum
        /\ pktNum' = pktNum + NotRtx(pkt)
    BY DEF CompletePicture, CountPkt
  <2>4. Cardinality(AllHeld) \in Nat /\ Cardinality(OpenPics) \in Nat
    BY <1>1, CountedOnce
  <2>5. Cardinality(AllOut) \in Nat /\ Len(pictures) \in Nat
    BY <1>1, FiniteTotals, FS_CardinalityType DEF TypeOK
  <2>6. NotRtx(pkt) \in Nat  BY DEF NotRtx
  <2>7. Cardinality(AllHeld') \in Nat /\ Cardinality(OpenPics') \in Nat
    <3>1. IsFiniteSet(OpenPics')  BY <1>1, <1>8, FiniteTotals, FS_RemoveElement
    <3>2. AllHeld' \subseteq AllHeld \cup {c0}  BY <1>6
    <3>3. IsFiniteSet(AllHeld \cup {c0})  BY <1>1, FiniteTotals, FS_AddElement
    <3>4. IsFiniteSet(AllHeld')  BY <3>2, <3>3, FS_Subset
    <3> QED BY <3>1, <3>4, FS_CardinalityType
  <2>8. groupNum' = Len(pictures') + Cardinality(OpenPics')
    <3>1. PICK o \in Nat, c \in Nat, l \in Nat :
            /\ o = Cardinality(OpenPics) /\ c = Cardinality(OpenPics')
            /\ l = Len(pictures)
      BY <2>4, <2>5, <2>7
    <3>2. Len(pictures') = l + 1  BY <1>9, <3>1
    <3>3. CASE OpensPic(pkt)
      <4>1. c + 1 = o + 1 /\ groupNum' = (l + o) + 1
        BY <1>13, <2>2, <2>3, <3>1, <3>3
      <4>2. (l + o) + 1 = (l + 1) + c  BY <4>1
      <4> QED BY <3>1, <3>2, <4>1, <4>2
    <3>4. CASE ~OpensPic(pkt)
      <4>1. c + 1 = o + 0 /\ groupNum' = l + o
        BY <1>13, <2>2, <2>3, <3>1, <3>4
      <4>2. l + o = (l + 1) + c  BY <4>1
      <4> QED BY <3>1, <3>2, <4>1, <4>2
    <3> QED BY <3>3, <3>4
  <2>9. pktNum' = Cardinality(AllHeld') + Cardinality(AllOut')
    <3>1. PICK h \in Nat, g \in Nat, o \in Nat, s \in Nat, x \in Nat :
            /\ h = Cardinality(AllHeld) /\ g = Cardinality(AllHeld')
            /\ o = Cardinality(AllOut) /\ s = Cardinality(S) /\ x = NotRtx(pkt)
      BY <1>10, <2>4, <2>5, <2>6, <2>7
    <3>2. g + s = h + x /\ Cardinality(AllOut') = o + s  BY <1>11, <1>12, <3>1
    <3>3. pktNum' = (h + o) + x  BY <2>2, <2>3, <3>1
    <3>4. (h + o) + x = g + (o + s)  BY <3>2
    <3> QED BY <3>1, <3>2, <3>3, <3>4
  <2> QED BY <2>8, <2>9
<1>15. HeldInside'  BY <1>5 DEF TotalsInv, HeldInside
<1>16. NothingBefore'  BY <1>1, <1>2 DEF NothingBefore
<1> QED BY <1>14, <1>15, <1>16 DEF TotalsInv

\* The first start packet finds nothing to throw away.
LEMMA StartTotals ==
  ASSUME TypeOK, TotalsInv, NEW pkt \in Packets, StartInfo(pkt)
  PROVE  TotalsInv'
<1>1. /\ ready' = TRUE /\ starts' = starts + 1 /\ starts \in Nat
      /\ pictures' = pictures /\ groupNum' = groupNum /\ pktNum' = pktNum
  BY DEF StartInfo, TypeOK
<1>2. \A p \in Pics : item'[p] = EmptyPic /\ picNum'[p] = 0  BY DEF StartInfo
<1>3. \A p \in Pics, f \in Frames, b \in Blks : ~Held(item'[p][f][b])
  BY <1>2, EmptyPicType
<1>4. AllHeld' = {}  BY <1>3 DEF AllHeld
<1>5. OpenPics' = {}  BY <1>2 DEF OpenPics
<1>6. TotalsAccount'
  <2>1. SUFFICES ASSUME starts = 0
                 PROVE  /\ groupNum' = Len(pictures') + Cardinality(OpenPics')
                        /\ pktNum' = Cardinality(AllHeld') + Cardinality(AllOut')
    BY <1>1 DEF TotalsAccount, OpenPics, AllHeld, AllOut
  <2>2. pictures = <<>> /\ groupNum = 0 /\ pktNum = 0
    BY <2>1 DEF TotalsInv, NothingBefore
  <2>3. AllOut' = {}  BY <1>1, <2>2 DEF AllOut
  <2>4. Len(pictures') = 0  BY <1>1, <2>2
  <2> QED BY <1>1, <1>4, <1>5, <2>2, <2>3, <2>4, FS_EmptySet
<1>7. HeldInside'  BY <1>3 DEF HeldInside
<1>8. NothingBefore'  BY <1>1 DEF NothingBefore
<1> QED BY <1>6, <1>7, <1>8 DEF TotalsInv

LEMMA InitTotals == Init => TotalsInv
<1> SUFFICES ASSUME Init PROVE TotalsInv  OBVIOUS
<1>1. \A p \in Pics, f \in Frames, b \in Blks : ~Held(item[p][f][b])
  BY EmptyPicType DEF Init
<1>2. AllHeld = {}  BY <1>1 DEF AllHeld
<1>3. OpenPics = {}  BY DEF Init, OpenPics
<1>4. AllOut = {}  BY DEF Init, AllOut
<1>5. pictures = <<>> /\ Len(pictures) = 0 /\ groupNum = 0 /\ pktNum = 0 /\ ~ready
  BY DEF Init
<1>6. TotalsAccount
  <2>1. /\ groupNum = Len(pictures) + Cardinality(OpenPics)
        /\ pktNum = Cardinality(AllHeld) + Cardinality(AllOut)
    BY <1>2, <1>3, <1>4, <1>5, FS_EmptySet
  <2> QED BY <2>1 DEF TotalsAccount, OpenPics, AllHeld, AllOut
<1> QED BY <1>1, <1>2, <1>3, <1>5, <1>6 DEF TotalsInv, NothingBefore, HeldInside

LEMMA StepTotals ==
  PacketsInside /\ IInv /\ TotalsInv /\ [Next]_cacheVars => TotalsInv'
<1> SUFFICES ASSUME PacketsInside, IInv, TotalsInv, [Next]_cacheVars
             PROVE  TotalsInv'
  OBVIOUS
<1>1. /\ UNCHANGED <<ready, item, picNum, groupNum, pktNum, starts, pictures>>
         => TotalsInv'
  <2>1. SUFFICES ASSUME UNCHANGED <<ready, item, picNum, groupNum, pktNum, starts,
                                    pictures>>
                 PROVE  TotalsInv'
    OBVIOUS
  <2>2. NothingBefore'  BY <2>1 DEF TotalsInv, NothingBefore, AllHeld, OpenPics
  <2>3. HeldInside'  BY <2>1 DEF TotalsInv, HeldInside
  <2>4. TotalsAccount'  BY <2>1 DEF TotalsInv, TotalsAccount
  <2> QED BY <2>2, <2>3, <2>4 DEF TotalsInv
<1>2. ASSUME NEW pkt \in Packets, Receive(pkt) PROVE TotalsInv'
  <2>1. CASE StoreBlock(pkt)  BY <2>1, StoreTotals
  <2>2. CASE CompletePicture(pkt)  BY <2>2, CompleteTotals
  <2>3. CASE StartInfo(pkt)  BY <2>3, StartTotals DEF IInv
  <2>4. CASE EndInfo(pkt)  BY <1>1, <2>4 DEF EndInfo
  <2>5. CASE Discard(pkt)  BY <1>1, <2>5 DEF Discard, cacheVars
  <2> QED BY <1>2, <2>1, <2>2, <2>3, <2>4, <2>5 DEF Receive
<1>3. CASE UNCHANGED cacheVars  BY <1>1, <1>3 DEF cacheVars
<1> QED BY <1>2, <1>3 DEF Next

\* The totals account for every block and every picture, once each, whatever
\* arrives of what raw2pkt makes, and however often.
THEOREM TotalsCorrect == PacketsInside => (Spec => []TotalsAccount)
<1> SUFFICES ASSUME PacketsInside PROVE Spec => []TotalsAccount  OBVIOUS
<1>1. Init => TotalsInv  BY InitTotals
<1>2. IInv /\ TotalsInv /\ [Next]_cacheVars => TotalsInv'  BY StepTotals
<1>3. TotalsInv => TotalsAccount  BY DEF TotalsInv
<1> QED BY <1>1, <1>2, <1>3, Counts, PTL DEF Spec

=============================================================================
