------------------------- MODULE FileTransferProofs -------------------------
(***************************************************************************)
(* call_test for every geometry and every file: what raw2pkt makes of a    *)
(* file, what copies it keeps, and what comes out.                           *)
(***************************************************************************)
EXTENDS MCNetTransfer, FiniteSetTheorems, SequenceTheorems, TLAPS

-----------------------------------------------------------------------------
(* Rounding up. *)

LEMMA DivMod ==
  ASSUME NEW a \in Nat, NEW b \in Nat \ {0}
  PROVE  /\ a \div b \in Nat /\ a % b \in 0 .. b - 1
         /\ a = (b * (a \div b)) + (a % b)
OBVIOUS

\* The multiple of b that CeilDiv finds is the first one that is not below a.
LEMMA CeilDivBounds ==
  ASSUME NEW a \in Nat, NEW b \in Nat \ {0}
  PROVE  /\ CeilDiv(a, b) \in Nat
         /\ a <= b * CeilDiv(a, b) /\ b * CeilDiv(a, b) < a + b
<1> DEFINE d == a \div b  r == a % b
<1>1. d \in Nat /\ r \in 0 .. b - 1 /\ a = (b * d) + r  BY DivMod
<1>2. CeilDiv(a, b) = d + (IF r = 0 THEN 0 ELSE 1)  BY DEF CeilDiv
<1> HIDE DEF d, r
<1>3. CASE r = 0  BY <1>1, <1>2, <1>3
<1>4. CASE r # 0
  <2>1. CeilDiv(a, b) = d + 1  BY <1>2, <1>4
  <2>2. b * (d + 1) = (b * d) + b  BY <1>1
  <2> QED BY <1>1, <1>4, <2>1, <2>2
<1> QED BY <1>3, <1>4

\* Fewer times b do not reach a.
LEMMA CeilDivLeast ==
  ASSUME NEW a \in Nat, NEW b \in Nat \ {0}, NEW k \in Nat, a <= b * k
  PROVE  CeilDiv(a, b) <= k
<1> DEFINE c == CeilDiv(a, b)
<1>1. c \in Nat /\ b * c < a + b  BY CeilDivBounds
<1> HIDE DEF c
<1>2. ASSUME c >= k + 1 PROVE FALSE
  <2>1. b * (k + 1) = (b * k) + b  OBVIOUS
  <2>2. c - (k + 1) \in Nat  BY <1>1, <1>2
  <2>3. b * (c - (k + 1)) \in Nat  BY <2>2
  <2>4. b * (c - (k + 1)) = (b * c) - (b * (k + 1))  BY <1>1
  <2> QED BY <1>1, <2>1, <2>3, <2>4
<1> QED BY <1>1, <1>2 DEF c

LEMMA MulMonotonic ==
  ASSUME NEW b \in Nat, NEW x \in Int, NEW y \in Int, x <= y
  PROVE  b * x <= b * y
<1>1. y - x \in Nat  OBVIOUS
<1>2. b * (y - x) \in Nat  BY <1>1
<1>3. b * (y - x) = (b * y) - (b * x)  OBVIOUS
<1> QED BY <1>2, <1>3

\* There is one way only to divide with a rest.
LEMMA DivModOnce ==
  ASSUME NEW b \in Nat \ {0}, NEW k \in Nat, NEW r \in 0 .. b - 1,
         NEW m \in Nat, NEW q \in 0 .. b - 1, (b * k) + r = (b * m) + q
  PROVE  k = m /\ r = q
<1>1. b * k \in Nat /\ b * m \in Nat  OBVIOUS
<1>2. ASSUME k < m PROVE FALSE
  <2>1. b * (k + 1) <= b * m  BY <1>2, MulMonotonic
  <2>2. b * (k + 1) = (b * k) + b  OBVIOUS
  <2> QED BY <1>1, <2>1, <2>2
<1>3. ASSUME m < k PROVE FALSE
  <2>1. b * (m + 1) <= b * k  BY <1>3, MulMonotonic
  <2>2. b * (m + 1) = (b * m) + b  OBVIOUS
  <2> QED BY <1>1, <2>1, <2>2
<1>4. k = m  BY <1>2, <1>3
<1>5. b * k = b * m  BY <1>4
<1> QED BY <1>1, <1>4, <1>5

\* A whole number of times b fits exactly.
LEMMA CeilDivExact ==
  ASSUME NEW b \in Nat \ {0}, NEW k \in Nat
  PROVE  CeilDiv(b * k, b) = k
<1> DEFINE c == CeilDiv(b * k, b)
<1>1. b * k \in Nat  OBVIOUS
<1>2. c \in Nat /\ b * k <= b * c  BY <1>1, CeilDivBounds
<1>3. c <= k  BY <1>1, CeilDivLeast
<1> HIDE DEF c
<1>4. ASSUME c < k PROVE FALSE
  <2>1. c + 1 <= k  BY <1>2, <1>4
  <2>2. b * (c + 1) <= b * k  BY <1>2, <2>1, MulMonotonic
  <2>3. b * (c + 1) = (b * c) + b  BY <1>2
  <2> QED BY <1>2, <2>2, <2>3
<1> QED BY <1>2, <1>3, <1>4 DEF c

-----------------------------------------------------------------------------
(* How a file is cut. *)

\* There are blocks in a frame, frames in a picture and pictures in a group;
\* the last frame of a picture begins inside the picture, and no later one does.
LEMMA Cut ==
  /\ FrameBlks \in Nat \ {0} /\ FrameBytes \in Nat \ {0}
  /\ PicBlks \in Nat \ {0} /\ GroupBlks \in Nat \ {0}
  /\ FrameBytes * (PicBlks - 1) < ImgSize /\ ImgSize <= FrameBytes * PicBlks
<1> USE GeometryAssumption
<1>1. FrameBlks \in Nat \ {0}
  <2>1. /\ CeilDiv(ImgSize, BlockSize) \in Nat
        /\ ImgSize <= BlockSize * CeilDiv(ImgSize, BlockSize)
    BY CeilDivBounds
  <2>2. CeilDiv(ImgSize, BlockSize) # 0  BY <2>1
  <2> QED BY <2>1, <2>2 DEF FrameBlks
<1>2. FrameBytes \in Nat \ {0}
  <2>1. FrameBlks * BlockSize \in Nat /\ FrameBlks * BlockSize # 0  BY <1>1
  <2> QED BY <2>1 DEF FrameBytes
<1>3. /\ PicBlks \in Nat /\ ImgSize <= FrameBytes * PicBlks
      /\ FrameBytes * PicBlks < ImgSize + FrameBytes
  BY <1>2, CeilDivBounds DEF PicBlks
<1>4. PicBlks # 0  BY <1>2, <1>3
<1>5. FrameBytes * (PicBlks - 1) = (FrameBytes * PicBlks) - FrameBytes  BY <1>2, <1>3
<1>6. GroupBlks \in Nat \ {0}
  <2>1. PicBlks * FrameBytes \in Nat /\ PicBlks * FrameBytes # 0  BY <1>2, <1>3, <1>4
  <2>2. /\ GroupBlks \in Nat
        /\ CacheSize <= (PicBlks * FrameBytes) * GroupBlks
    BY <2>1, CeilDivBounds DEF GroupBlks
  <2>3. GroupBlks # 0  BY <2>1, <2>2
  <2> QED BY <2>2, <2>3
<1> QED BY <1>1, <1>2, <1>3, <1>4, <1>5, <1>6

\* Every frame but the last one of a picture is full, and none is empty.
LEMMA FrameCut ==
  ASSUME NEW f \in FrameId
  PROVE  /\ FrameData(f) \in 1 .. FrameBytes /\ FramePkts(f) \in 1 .. FrameBlks
         /\ BlockSize * (FramePkts(f) - 1) < FrameData(f)
         /\ FrameData(f) <= BlockSize * FramePkts(f)
         /\ f # PicBlks - 1 => /\ FrameData(f) = FrameBytes
                               /\ FramePkts(f) = FrameBlks
<1> USE GeometryAssumption
<1>1. f \in Nat /\ f <= PicBlks - 1  BY Cut DEF FrameId
<1>2. FrameData(f) \in 1 .. FrameBytes
  <2>1. CASE f = PicBlks - 1
    <3>1. (PicBlks - 1) * FrameBytes = FrameBytes * (PicBlks - 1)  BY Cut
    <3>2. FrameBytes * (PicBlks - 1) \in Int  BY Cut
    <3>3. FrameBytes * PicBlks = (FrameBytes * (PicBlks - 1)) + FrameBytes  BY Cut
    <3> QED BY <2>1, <3>1, <3>2, <3>3, Cut DEF FrameData
  <2>2. CASE f # PicBlks - 1  BY <2>2, Cut DEF FrameData
  <2> QED BY <2>1, <2>2
<1>3. /\ FramePkts(f) \in Nat
      /\ FrameData(f) <= BlockSize * FramePkts(f)
      /\ BlockSize * FramePkts(f) < FrameData(f) + BlockSize
  <2>1. FrameData(f) \in Nat  BY <1>2, Cut
  <2> QED BY <2>1, CeilDivBounds DEF FramePkts
<1>4. FramePkts(f) # 0  BY <1>2, <1>3
<1>5. BlockSize * (FramePkts(f) - 1) = (BlockSize * FramePkts(f)) - BlockSize  BY <1>3
<1>6. FrameBytes = BlockSize * FrameBlks  BY Cut DEF FrameBytes
<1>7. FramePkts(f) <= FrameBlks
  <2>1. FrameData(f) \in Nat /\ FrameData(f) <= BlockSize * FrameBlks
    BY <1>2, <1>6, Cut
  <2> QED BY <2>1, Cut, CeilDivLeast DEF FramePkts
<1>8. ASSUME f # PicBlks - 1
      PROVE  FrameData(f) = FrameBytes /\ FramePkts(f) = FrameBlks
  <2>1. FrameData(f) = BlockSize * FrameBlks  BY <1>6, <1>8 DEF FrameData
  <2> QED BY <1>6, <2>1, Cut, CeilDivExact DEF FramePkts
<1>9. /\ FrameData(f) \in Nat /\ BlockSize * FramePkts(f) \in Nat  BY <1>2, <1>3, Cut
<1> QED BY <1>2, <1>3, <1>4, <1>5, <1>7, <1>8, <1>9, Cut

\* The frames before the last one and the last one make a picture.
LEMMA LastFrameEnds ==
  /\ PicBlks - 1 \in FrameId
  /\ FrameBytes * (PicBlks - 1) + FrameData(PicBlks - 1) = ImgSize
<1>1. (PicBlks - 1) * FrameBytes = FrameBytes * (PicBlks - 1)  BY Cut
<1>2. FrameBytes * (PicBlks - 1) \in Int  BY Cut
<1> QED BY <1>1, <1>2, Cut, GeometryAssumption DEF FrameData, FrameId

\* Every block that get_picture visits is one that raw2pkt sends.
LEMMA ImgBlocksSent == ImgBlocks \subseteq SentBlocks
<1> USE GeometryAssumption
<1>1. SUFFICES ASSUME NEW c \in FrameId \X BlkId, Offset(c[1], c[2]) < ImgSize
               PROVE  c[2] < FramePkts(c[1])
  BY DEF ImgBlocks, SentBlocks
<1> DEFINE f == c[1]  b == c[2]
<1>2. f \in FrameId /\ b \in BlkId  OBVIOUS
<1>3. ((f * FrameBlks) + b) * BlockSize < ImgSize  BY <1>1 DEF Offset
<1> HIDE DEF f, b
<1>4. b \in Nat /\ b < FrameBlks /\ f \in Nat  BY <1>2, Cut DEF BlkId, FrameId
<1>5. b < FramePkts(f)
  <2>1. CASE f # PicBlks - 1  BY <1>2, <1>4, <2>1, FrameCut
  <2>2. CASE f = PicBlks - 1
    <3>1. ((f * FrameBlks) + b) * BlockSize = (FrameBytes * f) + (BlockSize * b)
      BY <1>4, Cut DEF FrameBytes
    <3>2. FrameBytes * f \in Int /\ BlockSize * b \in Int  BY <1>4, Cut
    <3>3. FrameData(f) \in Int /\ FrameData(f) <= BlockSize * FramePkts(f)
          /\ FramePkts(f) \in Int
      BY <1>2, FrameCut, Cut
    <3>4. BlockSize * b < FrameData(f)
      BY <1>3, <2>2, <3>1, <3>2, <3>3, LastFrameEnds
    <3>5. ASSUME FramePkts(f) <= b PROVE FALSE
      <4>1. BlockSize * FramePkts(f) <= BlockSize * b
        BY <1>4, <3>3, <3>5, MulMonotonic
      <4>2. BlockSize * FramePkts(f) \in Int  BY <3>3
      <4> QED BY <3>2, <3>3, <3>4, <4>1, <4>2
    <3> QED BY <1>4, <3>3, <3>5
  <2> QED BY <2>1, <2>2
<1> QED BY <1>5 DEF f, b

\* Every packet carries something, and only the last one of a picture less
\* than a block.
LEMMA PayloadCut ==
  ASSUME NEW f \in FrameId, NEW b \in 0 .. FramePkts(f) - 1
  PROVE  /\ Payload(f, b) \in 1 .. BlockSize
         /\ f # PicBlks - 1 \/ b # FramePkts(f) - 1 => Payload(f, b) = BlockSize
<1> USE GeometryAssumption
<1>1. /\ FrameData(f) \in Nat /\ FramePkts(f) \in Nat /\ b \in Nat /\ b < FramePkts(f)
      /\ BlockSize * (FramePkts(f) - 1) < FrameData(f)
  BY FrameCut, Cut
<1>2. BlockSize * b \in Nat /\ b * BlockSize = BlockSize * b  BY <1>1
<1>3. BlockSize * b <= BlockSize * (FramePkts(f) - 1)  BY <1>1, MulMonotonic
<1>4. BlockSize * (FramePkts(f) - 1) \in Int  BY <1>1
<1>5. Payload(f, b) \in 1 .. BlockSize
  BY <1>1, <1>2, <1>3, <1>4 DEF Payload
<1>6. ASSUME b # FramePkts(f) - 1 PROVE Payload(f, b) = BlockSize
  <2>1. BlockSize * (b + 1) <= BlockSize * (FramePkts(f) - 1)
    BY <1>1, <1>6, MulMonotonic
  <2>2. BlockSize * (b + 1) = (BlockSize * b) + BlockSize  BY <1>1
  <2> QED BY <1>1, <1>2, <1>4, <2>1, <2>2 DEF Payload
<1>7. ASSUME f # PicBlks - 1, b = FramePkts(f) - 1 PROVE Payload(f, b) = BlockSize
  <2>1. FrameData(f) = BlockSize * FrameBlks /\ FramePkts(f) = FrameBlks
    BY <1>7, FrameCut, Cut DEF FrameBytes
  <2>2. BlockSize * (b + 1) = (BlockSize * b) + BlockSize  BY <1>1
  <2>3. b + 1 = FrameBlks  BY <1>1, <1>7, <2>1
  <2> QED BY <1>1, <1>2, <2>1, <2>2, <2>3 DEF Payload
<1> QED BY <1>5, <1>6, <1>7

\* byte x of a picture travels in block c
InBlock(c, x) == LET start == Offset(c[1], c[2])
                 IN  start <= x /\ x < start + Payload(c[1], c[2])

\* A block lies inside its picture, a number of blocks from its beginning.
LEMMA BlockInside ==
  ASSUME NEW f \in FrameId, NEW b \in 0 .. FramePkts(f) - 1
  PROVE  /\ Offset(f, b) = BlockSize * ((FrameBlks * f) + b)
         /\ Offset(f, b) = (FrameBytes * f) + (BlockSize * b)
         /\ Offset(f, b) + Payload(f, b) <= ImgSize
         /\ b \in BlkId
<1>1. /\ f \in Nat /\ f <= PicBlks - 1 /\ b \in Nat /\ b < FramePkts(f)
      /\ FramePkts(f) <= FrameBlks /\ BlockSize \in Nat /\ FrameData(f) \in Nat
      /\ FrameData(f) <= FrameBytes
  BY FrameCut, Cut, GeometryAssumption DEF FrameId
<1>2. /\ Offset(f, b) = BlockSize * ((FrameBlks * f) + b)
      /\ Offset(f, b) = (FrameBytes * f) + (BlockSize * b)
  BY <1>1, Cut DEF Offset, FrameBytes
<1>3. FrameBytes * f \in Nat /\ BlockSize * b \in Nat /\ ImgSize \in Nat
  BY <1>1, Cut, GeometryAssumption
<1>4. Payload(f, b) <= FrameData(f) - (BlockSize * b)
  <2>1. b * BlockSize = BlockSize * b  BY <1>1
  <2> QED BY <1>1, <1>3, <2>1 DEF Payload
<1>5. Payload(f, b) \in Int  BY PayloadCut, <1>1
<1>6. (FrameBytes * f) + FrameData(f) <= ImgSize
  <2>1. CASE f = PicBlks - 1  BY <1>1, <1>3, <2>1, LastFrameEnds
  <2>2. CASE f # PicBlks - 1
    <3>1. FrameBytes * (f + 1) <= FrameBytes * (PicBlks - 1)
      BY <1>1, <2>2, Cut, MulMonotonic
    <3>2. FrameBytes * (f + 1) = (FrameBytes * f) + FrameBytes  BY <1>1, Cut
    <3>3. FrameBytes * (PicBlks - 1) \in Int  BY Cut
    <3> QED BY <1>1, <1>3, <3>1, <3>2, <3>3, Cut
  <2> QED BY <2>1, <2>2
<1>7. b \in BlkId
  <2>1. FrameBlks \in Nat /\ FramePkts(f) \in Nat  BY FrameCut, Cut
  <2> QED BY <1>1, <2>1 DEF BlkId
<1> QED BY <1>1, <1>2, <1>3, <1>4, <1>5, <1>6, <1>7

LEMMA ByteInBlock ==
  ASSUME NEW x \in 0 .. ImgSize - 1
  PROVE  \E c \in SentBlocks : InBlock(c, x)
<1> DEFINE f == x \div FrameBytes  y == x % FrameBytes
           b == y \div BlockSize   r == y % BlockSize
<1>1. x \in Nat /\ x < ImgSize /\ ImgSize \in Nat /\ BlockSize \in Nat \ {0}
  BY GeometryAssumption
<1>2. f \in Nat /\ y \in 0 .. FrameBytes - 1 /\ x = (FrameBytes * f) + y
  BY <1>1, Cut, DivMod
<1>3. y \in Nat /\ y < FrameBytes /\ FrameBytes * f \in Nat  BY <1>2, Cut
<1>4. b \in Nat /\ r \in 0 .. BlockSize - 1 /\ y = (BlockSize * b) + r
  BY <1>1, <1>3, DivMod
<1> HIDE DEF f, y, b, r
<1>5. f \in FrameId
  <2>1. ASSUME PicBlks <= f PROVE FALSE
    <3>1. FrameBytes * PicBlks <= FrameBytes * f  BY <1>2, <2>1, Cut, MulMonotonic
    <3>2. FrameBytes * PicBlks \in Nat  BY Cut
    <3> QED BY <1>1, <1>2, <1>3, <3>1, <3>2, Cut
  <2> QED BY <1>2, <2>1, Cut DEF FrameId
<1>6. /\ FrameData(f) \in Nat /\ FramePkts(f) \in Nat
      /\ FrameData(f) <= BlockSize * FramePkts(f) /\ FramePkts(f) <= FrameBlks
  BY <1>5, FrameCut, Cut
<1>7. y < FrameData(f)
  <2>1. CASE f = PicBlks - 1  BY <1>1, <1>2, <1>3, <1>6, <2>1, LastFrameEnds
  <2>2. CASE f # PicBlks - 1  BY <1>3, <1>5, <2>2, FrameCut
  <2> QED BY <2>1, <2>2
<1>8. BlockSize * b \in Nat /\ BlockSize * FramePkts(f) \in Nat  BY <1>1, <1>4, <1>6
<1>9. b \in 0 .. FramePkts(f) - 1
  <2>1. ASSUME FramePkts(f) <= b PROVE FALSE
    <3>1. BlockSize * FramePkts(f) <= BlockSize * b
      BY <1>1, <1>4, <1>6, <2>1, MulMonotonic
    <3> QED BY <1>3, <1>4, <1>6, <1>7, <1>8, <3>1
  <2> QED BY <1>4, <1>6, <2>1
<1>10. Offset(f, b) = (FrameBytes * f) + (BlockSize * b)
  BY <1>5, <1>9, BlockInside
<1>11. Offset(f, b) <= x /\ x < Offset(f, b) + Payload(f, b)
  <2>1. b * BlockSize = BlockSize * b  BY <1>1, <1>4
  <2> QED BY <1>1, <1>2, <1>3, <1>4, <1>6, <1>7, <1>8, <1>10, <2>1 DEF Payload
<1>12. <<f, b>> \in SentBlocks
  BY <1>4, <1>5, <1>9, <1>6, BlockInside DEF SentBlocks
<1> QED BY <1>11, <1>12 DEF InBlock

LEMMA ByteInOneBlock ==
  ASSUME NEW x \in 0 .. ImgSize - 1, NEW c \in SentBlocks, NEW d \in SentBlocks,
         InBlock(c, x), InBlock(d, x)
  PROVE  c = d
<1>1. x \in Nat /\ BlockSize \in Nat \ {0} /\ FrameBlks \in Nat \ {0}
  BY Cut, GeometryAssumption
<1>2. ASSUME NEW e \in SentBlocks, InBlock(e, x)
      PROVE  /\ e[1] \in Nat /\ e[2] \in 0 .. FrameBlks - 1 /\ e = <<e[1], e[2]>>
             /\ (FrameBlks * e[1]) + e[2] = x \div BlockSize
  <2> DEFINE f == e[1]  b == e[2]
  <2>1. f \in FrameId /\ b \in BlkId /\ b < FramePkts(f) /\ e = <<f, b>>
    BY DEF SentBlocks
  <2>2. /\ Offset(f, b) <= x /\ x < Offset(f, b) + Payload(f, b)
    BY <1>2 DEF InBlock
  <2> HIDE DEF f, b
  <2>3. f \in Nat /\ b \in 0 .. FrameBlks - 1 /\ b \in Nat /\ FramePkts(f) \in Nat
    BY <2>1, Cut, FrameCut DEF FrameId, BlkId
  <2>4. b \in 0 .. FramePkts(f) - 1  BY <2>1, <2>3
  <2>5. Payload(f, b) \in Nat /\ Payload(f, b) <= BlockSize
    BY <1>1, <2>1, <2>4, PayloadCut
  <2>6. PICK n \in Nat : n = (FrameBlks * f) + b  BY <1>1, <2>3
  <2>7. Offset(f, b) = BlockSize * n /\ BlockSize * n \in Nat
    BY <1>1, <2>1, <2>4, <2>6, BlockInside
  <2>8. PICK r \in 0 .. BlockSize - 1 : x = (BlockSize * n) + r
    <3>1. x - (BlockSize * n) \in 0 .. BlockSize - 1
      BY <1>1, <2>2, <2>5, <2>7
    <3>2. x = (BlockSize * n) + (x - (BlockSize * n))  BY <1>1, <2>7
    <3> QED BY <3>1, <3>2
  <2>9. n = x \div BlockSize
    <3>1. /\ x \div BlockSize \in Nat /\ x % BlockSize \in 0 .. BlockSize - 1
          /\ x = (BlockSize * (x \div BlockSize)) + (x % BlockSize)
      BY <1>1, DivMod
    <3>2. PICK m \in Nat, q \in 0 .. BlockSize - 1 :
            m = x \div BlockSize /\ (BlockSize * n) + r = (BlockSize * m) + q
      BY <2>8, <3>1
    <3>3. n = m  BY <1>1, <3>2, DivModOnce
    <3> QED BY <3>2, <3>3
  <2> QED BY <2>1, <2>3, <2>6, <2>9 DEF f, b
<1>3. (FrameBlks * c[1]) + c[2] = (FrameBlks * d[1]) + d[2]  BY <1>2
<1>4. c[1] = d[1] /\ c[2] = d[2]  BY <1>1, <1>2, <1>3, DivModOnce
<1> QED BY <1>2, <1>4

\* call_test, raw2pkt and get_picture agree on where a picture is cut: the
\* blocks sent are those get_picture visits, none goes beyond the picture, and
\* every byte is in exactly one of them.
THEOREM PayloadsTile ==
  /\ ImgBlocks = SentBlocks
  /\ \A c \in SentBlocks : /\ Payload(c[1], c[2]) \in 1 .. BlockSize
                           /\ Offset(c[1], c[2]) + Payload(c[1], c[2]) <= ImgSize
  /\ \A x \in 0 .. ImgSize - 1 : \E c \in SentBlocks :
       \A d \in SentBlocks : InBlock(d, x) <=> d = c
<1>1. ASSUME NEW c \in SentBlocks
      PROVE  /\ Payload(c[1], c[2]) \in 1 .. BlockSize
             /\ Offset(c[1], c[2]) + Payload(c[1], c[2]) <= ImgSize
             /\ c \in ImgBlocks
  <2>1. /\ c[1] \in FrameId /\ c[2] \in 0 .. FramePkts(c[1]) - 1
        /\ c \in FrameId \X BlkId
    <3>1. /\ c \in FrameId \X BlkId /\ c[1] \in FrameId /\ c[2] \in BlkId
          /\ c[2] < FramePkts(c[1])
      BY DEF SentBlocks
    <3>2. FramePkts(c[1]) \in Nat /\ c[2] \in Nat  BY <3>1, FrameCut, Cut DEF BlkId
    <3> QED BY <3>1, <3>2
  <2>2. /\ Payload(c[1], c[2]) \in 1 .. BlockSize
        /\ Offset(c[1], c[2]) + Payload(c[1], c[2]) <= ImgSize
        /\ Offset(c[1], c[2]) = (FrameBytes * c[1]) + (BlockSize * c[2])
    BY <2>1, PayloadCut, BlockInside
  <2>3. Offset(c[1], c[2]) \in Int
    <3>1. c[1] \in Nat /\ c[2] \in Nat  BY <2>1, Cut, FrameCut DEF FrameId
    <3> QED BY <2>2, <3>1, Cut, GeometryAssumption
  <2>4. Offset(c[1], c[2]) < ImgSize  BY <2>2, <2>3, GeometryAssumption
  <2> QED BY <2>1, <2>2, <2>4 DEF ImgBlocks
<1>2. ImgBlocks = SentBlocks  BY <1>1, ImgBlocksSent
<1> QED BY <1>1, <1>2, ByteInBlock, ByteInOneBlock

-----------------------------------------------------------------------------
(* The sender. *)

Packet == [data_type : 0 .. 2, len : Nat, size : Nat, pic : Nat, frame : Nat,
           blk : BlkId, group : Nat, seq : Nat, idx : Nat, src : Nat]

CopyItems == [group : Nat, src : Nat, at : Nat, size : Nat]

\* An id of obj->frame_id stands for one frame of a picture only.
FramesNumbered == PicBlks <= IdMod

SendTypes ==
  /\ total \in FileSizes /\ phase \in {"picture", "frame", "done"}
  /\ sumsize \in 0 .. total /\ sndSize \in 0 .. total
  /\ i \in SlotId /\ j \in FrameId
  /\ frameId \in 0 .. IdMod - 1 /\ picId \in 0 .. IdMod - 1
  /\ groupId \in Nat /\ pktIdx \in Nat /\ seqNo \in 0 .. SeqMod - 1
  /\ fileHead \in Packet /\ fileTail \in Packet /\ wire \in Seq(Packet)
  /\ sndCache \in [SlotId -> [FrameId -> [BlkId -> CopyItems]]]

\* Between two pictures all that was read has been sent; within one, the
\* frames before frame j.
SentSoFar ==
  /\ phase = "picture" => sndSize = sumsize /\ sumsize < total
  /\ phase = "frame" => /\ frameId = j
                        /\ sndSize = (sumsize - ImgSize) + (FrameBytes * j)
  /\ phase # "done" => sumsize = ImgSize * (sumsize \div ImgSize)

\* Before the first frame of the file nothing has been numbered.
NothingNumbered ==
  groupId = 0 /\ i = 0 /\ (phase = "picture" \/ (phase = "frame" /\ j = 0)) =>
    seqNo = 0 /\ pktIdx = 0 /\ picId = 0

\* What is in fileHead and fileTail, and where there is an end packet.
InfoPackets ==
  /\ fileHead = Blank \/ fileHead.data_type = 1
  /\ fileTail = Blank \/ fileTail.data_type = 2
  /\ fileTail # Blank <=> sndSize = total /\ total > 0
  /\ \A n \in DOMAIN wire : wire[n].data_type = 2 => sndSize = total
  /\ ended => sndSize = total

Counted == SendTypes /\ SentSoFar /\ NothingNumbered

SendInv == Counted /\ InfoPackets

LEMMA ConcatOf ==
  ASSUME NEW S, NEW a \in Seq(S), NEW b \in Seq(S), NEW w, w = a \o b
  PROVE  /\ w \in Seq(S) /\ Len(w) = Len(a) + Len(b)
         /\ \A n \in 1 .. Len(a) : w[n] = a[n]
         /\ \A n \in 1 .. Len(b) : w[Len(a) + n] = b[n]
<1>1. Len(a) \in Nat /\ Len(b) \in Nat  BY LenProperties
<1>2. /\ w \in Seq(S) /\ Len(w) = Len(a) + Len(b)
      /\ \A n \in 1 .. Len(a) + Len(b) :
           w[n] = IF n <= Len(a) THEN a[n] ELSE b[n - Len(a)]
  BY ConcatProperties
<1>3. ASSUME NEW n \in 1 .. Len(b) PROVE w[Len(a) + n] = b[n]
  <2>1. /\ Len(a) + n \in 1 .. Len(a) + Len(b) /\ ~(Len(a) + n <= Len(a))
        /\ (Len(a) + n) - Len(a) = n
    BY <1>1
  <2> QED BY <1>2, <2>1
<1> QED BY <1>1, <1>2, <1>3

LEMMA Concat4 ==
  ASSUME NEW S, NEW x \in Seq(S), NEW a \in Seq(S), NEW b \in Seq(S), NEW c \in Seq(S),
         NEW w, w = ((x \o a) \o b) \o c
  PROVE  /\ w \in Seq(S) /\ Len(w) = Len(x) + Len(a) + Len(b) + Len(c)
         /\ \A n \in 1 .. Len(x) : w[n] = x[n]
         /\ \A n \in 1 .. Len(a) : w[Len(x) + n] = a[n]
         /\ \A n \in 1 .. Len(b) : w[Len(x) + Len(a) + n] = b[n]
         /\ \A n \in 1 .. Len(c) : w[Len(x) + Len(a) + Len(b) + n] = c[n]
<1>1. Len(x) \in Nat /\ Len(a) \in Nat /\ Len(b) \in Nat /\ Len(c) \in Nat
  BY LenProperties
<1> DEFINE xa == x \o a
           xab == xa \o b
<1>2. /\ xa \in Seq(S) /\ Len(xa) = Len(x) + Len(a)
      /\ \A n \in 1 .. Len(x) : xa[n] = x[n]
      /\ \A n \in 1 .. Len(a) : xa[Len(x) + n] = a[n]
  BY ConcatOf
<1>3. xab = xa \o b /\ w = xab \o c  OBVIOUS
<1> HIDE DEF xa, xab
<1>a. xa \in Seq(S)  BY <1>2
<1>4. /\ xab \in Seq(S) /\ Len(xab) = Len(xa) + Len(b)
      /\ \A n \in 1 .. Len(xa) : xab[n] = xa[n]
      /\ \A n \in 1 .. Len(b) : xab[Len(xa) + n] = b[n]
  BY <1>3, <1>a, ConcatOf
<1>b. xab \in Seq(S)  BY <1>4
<1>5. /\ w \in Seq(S) /\ Len(w) = Len(xab) + Len(c)
      /\ \A n \in 1 .. Len(xab) : w[n] = xab[n]
      /\ \A n \in 1 .. Len(c) : w[Len(xab) + n] = c[n]
  BY <1>3, <1>b, ConcatOf
<1>6. \A n \in 1 .. Len(x) : n \in 1 .. Len(xa) /\ n \in 1 .. Len(xab)
  BY <1>1, <1>2, <1>4
<1>7. \A n \in 1 .. Len(a) :
        Len(x) + n \in 1 .. Len(xa) /\ Len(x) + n \in 1 .. Len(xab)
  BY <1>1, <1>2, <1>4
<1>8. \A n \in 1 .. Len(b) : Len(xa) + n \in 1 .. Len(xab)
  BY <1>1, <1>2, <1>4
<1> QED BY <1>2, <1>4, <1>5, <1>6, <1>7, <1>8

LEMMA ConstTypes ==
  /\ BlockSize \in Nat \ {0} /\ HdrSize \in Nat \ {0} /\ ImgSize \in Nat \ {0}
  /\ IdMod \in Nat \ {0} /\ SeqMod \in Nat \ {0}
  /\ FileSizes \subseteq Nat /\ Blank \in Packet
BY GeometryAssumption, SenderAssumption, Cut DEF Blank, Packet, BlkId

LEMMA SlotType ==
  ASSUME SendTypes
  PROVE  PicSlot \in SlotId /\ PicSlot \in Nat
<1>1. picId \in Nat /\ GroupBlks \in Nat \ {0}  BY Cut, ConstTypes DEF SendTypes
<1> QED BY <1>1, DivMod DEF PicSlot, SlotId

LEMMA InfoPktType ==
  ASSUME SendTypes, NEW t \in {1, 2}, NEW x \in Nat, NEW s \in Nat
  PROVE  /\ InfoPkt(t, x, s) \in Packet /\ InfoPkt(t, x, s).size > 0
         /\ InfoPkt(t, x, s).data_type = t /\ InfoPkt(t, x, s).idx = x
         /\ InfoPkt(t, x, s).size = InfoPkt(t, x, s).len + HdrSize
<1>1. frameId \in Nat /\ PicBlks \in Nat \ {0} /\ groupId \in Nat
  BY Cut, ConstTypes DEF SendTypes
<1>2. frameId % PicBlks \in Nat  BY <1>1, DivMod
<1>3. InfoPkt(t, x, s)
        = [data_type |-> t, len |-> InfoLen, size |-> InfoLen + HdrSize,
           pic |-> PicSlot, frame |-> frameId % PicBlks, blk |-> 0,
           group |-> groupId, seq |-> s, idx |-> x, src |-> 0]
  BY DEF InfoPkt
<1>4. PicSlot \in Nat  BY SlotType
<1>5. 0 \in BlkId  BY Cut DEF BlkId
<1> QED BY <1>1, <1>2, <1>3, <1>4, <1>5, ConstTypes DEF Packet, InfoLen

\* While a picture is in hand it has a number.
LEMMA SourceType ==
  ASSUME Counted, phase = "frame"
  PROVE  /\ Source \in Nat /\ sumsize = ImgSize * (Source + 1)
         /\ sumsize <= total /\ sumsize \in Nat /\ total \in Nat
<1>1. sumsize \in Nat /\ sndSize \in Nat /\ total \in Nat /\ sumsize <= total
  BY ConstTypes DEF Counted, SendTypes
<1>2. /\ sumsize = ImgSize * (sumsize \div ImgSize)
      /\ sndSize = (sumsize - ImgSize) + (FrameBytes * j)
  BY DEF Counted, SentSoFar
<1>3. FrameBytes * j \in Nat /\ FrameBytes * j < ImgSize
  <2>1. j \in Nat /\ j <= PicBlks - 1  BY Cut DEF Counted, SendTypes, FrameId
  <2>2. FrameBytes * j <= FrameBytes * (PicBlks - 1)  BY <2>1, Cut, MulMonotonic
  <2>3. FrameBytes * j \in Nat /\ FrameBytes * (PicBlks - 1) \in Int  BY <2>1, Cut
  <2> QED BY <2>2, <2>3, Cut, ConstTypes
<1>4. sumsize > 0  BY <1>1, <1>2, <1>3, ConstTypes
<1>5. sumsize \div ImgSize \in Nat  BY <1>1, ConstTypes, DivMod
<1>6. sumsize \div ImgSize # 0  BY <1>2, <1>4, ConstTypes
<1> QED BY <1>1, <1>2, <1>5, <1>6 DEF Source

LEMMA DataPktType ==
  ASSUME Counted, phase = "frame", NEW b \in 0 .. FramePkts(j) - 1, NEW x \in Nat
  PROVE  DataPkt(b, x) \in Packet /\ DataPkt(b, x).size > 0
<1>1. j \in FrameId  BY DEF Counted, SendTypes
<1>2. Payload(j, b) \in 1 .. BlockSize  BY <1>1, PayloadCut
<1>3. b \in Nat /\ b < FrameBlks  BY <1>1, FrameCut, Cut
<1>4. /\ frameId \in Nat /\ groupId \in Nat /\ seqNo \in Nat /\ PicSlot \in Nat
  BY SlotType, ConstTypes DEF Counted, SendTypes
<1> QED BY <1>2, <1>3, <1>4, SourceType, ConstTypes, Cut DEF DataPkt, Packet, BlkId

\* What a call of raw2pkt counts: the bytes of one frame more, and all of the
\* picture with its last frame.
LEMMA SendNumbers ==
  ASSUME Counted, phase = "frame"
  PROVE  /\ frameId = j /\ j \in FrameId /\ sndSize \in Nat /\ sndSize < total
         /\ NewSndSize \in Nat /\ NewSndSize <= sumsize
         /\ j = PicBlks - 1 <=> NewSndSize = sumsize
         /\ j # PicBlks - 1 =>
              NewSndSize = (sumsize - ImgSize) + (FrameBytes * (j + 1))
         /\ FirstIdx \in Nat /\ FramePkts(j) \in Nat \ {0}
<1>1. /\ frameId = j /\ sndSize = (sumsize - ImgSize) + (FrameBytes * j)
      /\ j \in FrameId /\ pktIdx \in Nat
  BY DEF Counted, SentSoFar, SendTypes
<1>2. sumsize \in Nat /\ sumsize <= total /\ total \in Nat /\ ImgSize <= sumsize
  <2>1. sumsize = (ImgSize * Source) + ImgSize  BY SourceType, ConstTypes
  <2>2. ImgSize * Source \in Nat  BY SourceType, ConstTypes
  <2> QED BY <2>1, <2>2, SourceType, ConstTypes
<1>3. j \in Nat /\ j <= PicBlks - 1  BY <1>1, Cut DEF FrameId
<1>4. /\ FrameData(j) \in Nat /\ FrameData(j) > 0 /\ FramePkts(j) \in Nat \ {0}
      /\ j # PicBlks - 1 => FrameData(j) = FrameBytes
  BY <1>1, FrameCut, Cut
<1>5. FrameBytes * j \in Nat /\ FrameBytes * (j + 1) = (FrameBytes * j) + FrameBytes
  BY <1>3, Cut
<1>6. NewSndSize = (sumsize - ImgSize) + (FrameBytes * j) + FrameData(j)
  BY <1>1 DEF NewSndSize
<1>7. CASE j = PicBlks - 1
  <2>1. NewSndSize = sumsize
    BY <1>2, <1>4, <1>5, <1>6, <1>7, LastFrameEnds, ConstTypes
  <2> QED BY <1>1, <1>2, <1>4, <1>5, <1>6, <1>7, <2>1, ConstTypes DEF FirstIdx
<1>8. CASE j # PicBlks - 1
  <2>1. FrameBytes * (j + 1) <= FrameBytes * (PicBlks - 1)
    BY <1>3, <1>8, Cut, MulMonotonic
  <2>2. FrameBytes * (j + 1) \in Nat /\ FrameBytes * (PicBlks - 1) \in Int
    BY <1>3, Cut
  <2>3. NewSndSize = (sumsize - ImgSize) + (FrameBytes * (j + 1))
    BY <1>2, <1>4, <1>5, <1>6, <1>8, ConstTypes, Cut
  <2>4. NewSndSize < sumsize /\ NewSndSize \in Nat
    BY <1>2, <2>1, <2>2, <2>3, Cut, ConstTypes
  <2>5. sndSize < NewSndSize /\ sndSize \in Nat
    BY <1>1, <1>2, <1>4, <1>5, <1>6, ConstTypes
  <2> QED BY <1>1, <1>2, <1>4, <1>8, <2>3, <2>4, <2>5 DEF FirstIdx
<1> QED BY <1>7, <1>8

\* The start packet goes before the frame, the end packet after it.
HeadLen == IF i = 0 /\ j = 0 /\ groupId = 0 THEN 1 ELSE 0
TailLen == IF sumsize >= total THEN 1 ELSE 0

\* The packets that raw2pkt hands over for a frame, behind those on the wire.
FrameBehind ==
  /\ wire' \in Seq(Packet)
  /\ Len(wire') = Len(wire) + HeadLen + FramePkts(j) + TailLen
  /\ \A n \in 1 .. Len(wire) : wire'[n] = wire[n]
  /\ HeadLen = 1 => BuildsHead /\ wire'[Len(wire) + 1] = InfoPkt(1, 0, seqNo)
  /\ \A n \in 1 .. FramePkts(j) :
       wire'[Len(wire) + HeadLen + n] = DataPkt(n - 1, FirstIdx + n - 1)
  /\ TailLen = 1 => wire'[Len(wire) + HeadLen + FramePkts(j) + 1] = fileTail'

\* The same on a wire that was empty.
FrameOnWire ==
  /\ wire' \in Seq(Packet)
  /\ Len(wire') = HeadLen + FramePkts(j) + TailLen
  /\ HeadLen = 1 => BuildsHead /\ wire'[1] = InfoPkt(1, 0, seqNo)
  /\ \A n \in 1 .. FramePkts(j) :
       wire'[HeadLen + n] = DataPkt(n - 1, FirstIdx + n - 1)
  /\ TailLen = 1 => wire'[HeadLen + FramePkts(j) + 1] = fileTail'

LEMMA FrameSent ==
  ASSUME Counted, phase = "frame", SendFrame
  PROVE  fileHead' \in Packet /\ fileTail' \in Packet /\ FrameBehind
<1> DEFINE hd == IF i = 0 /\ j = 0 /\ groupId = 0 THEN <<fileHead'>> ELSE <<>>
           tl == IF sumsize >= total THEN <<fileTail'>> ELSE <<>>
<1>1. SendTypes /\ seqNo \in Nat  BY ConstTypes DEF Counted, SendTypes
<1>2. FirstIdx \in Nat /\ FramePkts(j) \in Nat \ {0}  BY SendNumbers
<1>3. fileHead' \in Packet
  BY <1>1, InfoPktType DEF SendFrame, Raw2Pkt, SendTypes
<1>4. fileTail' \in Packet
  <2>1. FirstIdx + FramePkts(j) \in Nat  BY <1>2
  <2> QED BY <1>1, <2>1, InfoPktType DEF SendFrame, Raw2Pkt, SendTypes
<1>5. /\ hd \in Seq(Packet) /\ Len(hd) = HeadLen
      /\ HeadLen = 1 => hd[1] = fileHead'
  BY <1>3 DEF HeadLen
<1>6. /\ tl \in Seq(Packet) /\ Len(tl) = TailLen
      /\ TailLen = 1 => tl[1] = fileTail'
  BY <1>4 DEF TailLen
<1>7. /\ DataPkts \in Seq(Packet) /\ Len(DataPkts) = FramePkts(j)
      /\ \A n \in 1 .. FramePkts(j) : DataPkts[n] = DataPkt(n - 1, FirstIdx + n - 1)
  <2>1. \A n \in 1 .. FramePkts(j) :
          DataPkts[n] = DataPkt(n - 1, FirstIdx + n - 1)
    BY DEF DataPkts
  <2>2. ASSUME NEW n \in 1 .. FramePkts(j) PROVE DataPkts[n] \in Packet
    <3>1. n - 1 \in 0 .. FramePkts(j) - 1 /\ FirstIdx + n - 1 \in Nat  BY <1>2
    <3> QED BY <2>1, <3>1, DataPktType
  <2>3. DataPkts \in [1 .. FramePkts(j) -> Packet]  BY <2>2 DEF DataPkts
  <2> QED BY <1>2, <2>1, <2>3
<1>8. wire' = ((wire \o hd) \o DataPkts) \o tl  BY DEF SendFrame
<1>9. HeadLen = 1 => BuildsHead /\ fileHead' = InfoPkt(1, 0, seqNo)
  <2>1. HeadLen = 1 => seqNo = 0 /\ picId = 0 /\ frameId = 0 /\ groupId = 0
    BY SendNumbers DEF HeadLen, Counted, NothingNumbered
  <2>2. 0 % PicBlks = 0 /\ 0 % GroupBlks = 0  BY Cut
  <2> QED BY <2>1, <2>2 DEF BuildsHead, PicSlot, SendFrame, Raw2Pkt
<1> HIDE DEF hd, tl
<1> DEFINE dt == DataPkts
<1>10. dt \in Seq(Packet) /\ Len(dt) = FramePkts(j) /\ wire' = ((wire \o hd) \o dt) \o tl
  BY <1>7, <1>8
<1>11. \A n \in 1 .. FramePkts(j) : dt[n] = DataPkt(n - 1, FirstIdx + n - 1)
  BY <1>7
<1> HIDE DEF dt
<1>12. /\ wire' \in Seq(Packet)
       /\ Len(wire') = Len(wire) + Len(hd) + Len(dt) + Len(tl)
       /\ \A n \in 1 .. Len(wire) : wire'[n] = wire[n]
       /\ \A n \in 1 .. Len(hd) : wire'[Len(wire) + n] = hd[n]
       /\ \A n \in 1 .. Len(dt) : wire'[Len(wire) + Len(hd) + n] = dt[n]
       /\ \A n \in 1 .. Len(tl) : wire'[Len(wire) + Len(hd) + Len(dt) + n] = tl[n]
  <2>1. wire \in Seq(Packet) /\ hd \in Seq(Packet) /\ tl \in Seq(Packet)
    BY <1>1, <1>5, <1>6 DEF SendTypes
  <2> DEFINE w == wire'
  <2>2. w = ((wire \o hd) \o dt) \o tl  BY <1>10
  <2>3. dt \in Seq(Packet)  BY <1>10
  <2> HIDE DEF w
  <2> DEFINE v == wire
  <2>4. v \in Seq(Packet) /\ w = ((v \o hd) \o dt) \o tl  BY <2>1, <2>2
  <2> HIDE DEF v
  <2>5. /\ w \in Seq(Packet) /\ Len(w) = Len(v) + Len(hd) + Len(dt) + Len(tl)
        /\ \A n \in 1 .. Len(v) : w[n] = v[n]
        /\ \A n \in 1 .. Len(hd) : w[Len(v) + n] = hd[n]
        /\ \A n \in 1 .. Len(dt) : w[Len(v) + Len(hd) + n] = dt[n]
        /\ \A n \in 1 .. Len(tl) : w[Len(v) + Len(hd) + Len(dt) + n] = tl[n]
    BY <2>1, <2>3, <2>4, Concat4, SMTT(20)
  <2> QED BY <2>5 DEF v, w
<1>13. HeadLen = 1 => BuildsHead /\ wire'[Len(wire) + 1] = InfoPkt(1, 0, seqNo)
  <2>1. HeadLen = 1 => 1 \in 1 .. Len(hd)  BY <1>5
  <2> QED BY <1>5, <1>9, <1>12, <2>1
<1>14. TailLen = 1 =>
         wire'[Len(wire) + HeadLen + FramePkts(j) + 1] = fileTail'
  <2>1. TailLen = 1 => 1 \in 1 .. Len(tl)  BY <1>6
  <2> QED BY <1>5, <1>6, <1>10, <1>12, <2>1
<1>15. \A n \in 1 .. FramePkts(j) :
         wire'[Len(wire) + HeadLen + n] = DataPkt(n - 1, FirstIdx + n - 1)
  BY <1>5, <1>10, <1>11, <1>12
<1> QED BY <1>3, <1>4, <1>5, <1>6, <1>10, <1>12, <1>13, <1>14, <1>15 DEF FrameBehind

LEMMA FrameWire ==
  ASSUME Counted, phase = "frame", wire = <<>>, SendFrame
  PROVE  FrameOnWire
<1>1. FrameBehind /\ Len(wire) = 0  BY FrameSent
<1>2. FramePkts(j) \in Nat /\ HeadLen \in {0, 1} /\ TailLen \in {0, 1}
  BY SendNumbers DEF HeadLen, TailLen
<1>3. \A n \in 1 .. FramePkts(j) : 0 + HeadLen + n = HeadLen + n  BY <1>2
<1>4. 0 + HeadLen + FramePkts(j) + TailLen = HeadLen + FramePkts(j) + TailLen
      /\ 0 + 1 = 1 /\ 0 + HeadLen + FramePkts(j) + 1 = HeadLen + FramePkts(j) + 1
  BY <1>2
<1> QED BY <1>1, <1>3, <1>4 DEF FrameBehind, FrameOnWire

LEMMA DivExact ==
  ASSUME NEW b \in Nat \ {0}, NEW k \in Nat
  PROVE  (b * k) \div b = k
<1>1. b * k \in Nat /\ b * k = (b * k) + 0 /\ 0 \in 0 .. b - 1  OBVIOUS
<1> QED BY <1>1, DivMod, DivModOnce

LEMMA InitSend == Init => SendInv
<1> SUFFICES ASSUME Init PROVE SendInv  OBVIOUS
<1> USE DEF Init, SenderInit
<1>1. total \in FileSizes /\ total \in Nat  BY ConstTypes
<1>2. 0 \in SlotId /\ 0 \in FrameId /\ 0 \in 0 .. IdMod - 1 /\ 0 \in 0 .. SeqMod - 1
  BY Cut, ConstTypes DEF SlotId, FrameId
<1>3. <<>> \in Seq(Packet) /\ DOMAIN wire = {}  OBVIOUS
<1>4. sndCache \in [SlotId -> [FrameId -> [BlkId -> CopyItems]]]
  BY DEF NoCopy, CopyItems
<1>5. SendTypes  BY <1>1, <1>2, <1>3, <1>4, ConstTypes DEF SendTypes
<1>6. SentSoFar
  <2>1. 0 = ImgSize * 0 /\ 0 \div ImgSize = 0  BY ConstTypes, DivExact
  <2> QED BY <1>1, <2>1 DEF SentSoFar
<1>7. ended = FALSE  BY DEF Recv!Init
<1>8. InfoPackets  BY <1>1, <1>3, <1>7 DEF InfoPackets
<1> QED BY <1>5, <1>6, <1>8 DEF SendInv, Counted, NothingNumbered

\* Reading counts no more than what is read.
LEMMA ReadCounted ==
  ASSUME Counted, ReadPicture \/ ReadShort
  PROVE  Counted'
<1> USE DEF Counted
<1>1. /\ total \in Nat /\ sumsize \in Nat /\ sumsize <= total /\ sndSize \in Nat
      /\ picId \in Nat /\ groupId \in Nat /\ 0 \in FrameId /\ 0 \in 0 .. IdMod - 1
  BY ConstTypes, Cut DEF SendTypes, FrameId
<1>2. UNCHANGED <<total, seqNo, pktIdx, sndSize, fileHead, fileTail, sndCache, wire, i>>
  BY DEF ReadPicture, ReadShort
<1>3. CASE ReadPicture
  <2>1. SendTypes'  BY <1>1, <1>2, <1>3, ConstTypes DEF SendTypes, ReadPicture
  <2>2. SentSoFar'
    <3>1. /\ sumsize = ImgSize * (sumsize \div ImgSize) /\ sndSize = sumsize
          /\ sumsize \div ImgSize \in Nat
      BY <1>1, <1>3, ConstTypes, DivMod DEF SentSoFar, ReadPicture
    <3> DEFINE k == sumsize \div ImgSize
    <3>2. sumsize' = ImgSize * k + ImgSize /\ k \in Nat
      BY <1>3, <3>1 DEF ReadPicture
    <3> HIDE DEF k
    <3>3. ImgSize * (k + 1) = ImgSize * k + ImgSize  BY <3>2, ConstTypes
    <3>4. sumsize' = ImgSize * (k + 1) /\ sumsize' \div ImgSize = k + 1
      BY <3>2, <3>3, ConstTypes, DivExact
    <3>5. FrameBytes * 0 = 0  BY Cut
    <3> QED BY <1>1, <1>3, <3>1, <3>4, <3>5, ConstTypes DEF SentSoFar, ReadPicture
  <2>3. NothingNumbered'
    <3>1. /\ phase = "picture" /\ i' = i /\ picId' = picId /\ groupId' = groupId
          /\ seqNo' = seqNo /\ pktIdx' = pktIdx
      BY <1>3 DEF ReadPicture
    <3> QED BY <3>1 DEF NothingNumbered
  <2> QED BY <2>1, <2>2, <2>3
<1>4. CASE ReadShort
  <2>1. picId' \in 0 .. IdMod - 1
    BY <1>1, <1>4, ConstTypes, DivMod DEF ReadShort
  <2>2. SendTypes'  BY <1>1, <1>2, <1>4, <2>1, ConstTypes DEF SendTypes, ReadShort
  <2>3. SentSoFar' /\ NothingNumbered'
    BY <1>4 DEF SentSoFar, NothingNumbered, ReadShort
  <2> QED BY <2>2, <2>3
<1> QED BY <1>3, <1>4

LEMMA ReadSend ==
  ASSUME SendInv, Read
  PROVE  SendInv'
<1>1. Counted'  BY ReadCounted DEF SendInv, Read
<1>2. UNCHANGED <<cacheVars, total, sndSize, fileHead, fileTail, sndCache, wire>>
  BY DEF Read, ReadPicture, ReadShort
<1>3. InfoPackets'
  <2>1. UNCHANGED ended  BY <1>2 DEF cacheVars
  <2> QED BY <1>2, <2>1 DEF SendInv, InfoPackets
<1> QED BY <1>1, <1>3 DEF SendInv

\* Only an end packet sets ended.
LEMMA EndedBy ==
  ASSUME NEW pkt, Recv!Receive(pkt)
  PROVE  ended' = ended \/ pkt.data_type = 2
BY DEF Recv!Receive, Recv!StoreBlock, Recv!CompletePicture, Recv!StartInfo,
       Recv!EndInfo, Recv!Discard, Recv!cacheVars

LEMMA TailOf ==
  ASSUME NEW S, NEW s \in Seq(S), s # <<>>
  PROVE  /\ Tail(s) \in Seq(S) /\ Len(Tail(s)) = Len(s) - 1
         /\ \A n \in 1 .. Len(s) - 1 : Tail(s)[n] = s[n + 1] /\ n + 1 \in 1 .. Len(s)
         /\ Head(s) = s[1] /\ 1 \in 1 .. Len(s) /\ Len(s) \in Nat
<1>1. /\ Tail(s) \in Seq(S) /\ Len(Tail(s)) = Len(s) - 1
      /\ \A n \in 1 .. Len(Tail(s)) : Tail(s)[n] = s[n + 1]
  BY HeadTailProperties
<1>2. Len(s) \in Nat \ {0}  BY EmptySeq
<1> QED BY <1>1, <1>2

LEMMA DeliverSend ==
  ASSUME SendInv, Deliver
  PROVE  SendInv'
<1> USE DEF SendInv, Counted
<1>1. /\ wire \in Seq(Packet) /\ wire # <<>> /\ wire' = Tail(wire)
      /\ UNCHANGED sendVars /\ Recv!Receive(Head(wire))
  BY DEF Deliver, SendTypes
<1>2. /\ wire' \in Seq(Packet) /\ Len(wire') = Len(wire) - 1
      /\ \A n \in 1 .. Len(wire) - 1 :
           wire'[n] = wire[n + 1] /\ n + 1 \in 1 .. Len(wire)
      /\ Head(wire) = wire[1] /\ 1 \in 1 .. Len(wire)
  BY <1>1, TailOf
<1>3. SendTypes' /\ SentSoFar' /\ NothingNumbered'
  BY <1>1, <1>2 DEF SendTypes, SentSoFar, NothingNumbered, sendVars
<1>4. InfoPackets'
  <2>1. DOMAIN wire = 1 .. Len(wire) /\ DOMAIN wire' = 1 .. Len(wire) - 1
    BY <1>1, <1>2, LenProperties
  <2>2. \A n \in DOMAIN wire' : wire'[n].data_type = 2 => sndSize = total
    BY <1>2, <2>1 DEF InfoPackets
  <2>3. ended' => sndSize = total
    BY <1>1, <1>2, <2>1, EndedBy DEF InfoPackets
  <2> QED BY <1>1, <2>2, <2>3 DEF InfoPackets, sendVars
<1> QED BY <1>3, <1>4

\* After the call the copies of a frame's blocks are in the sender's cache, and
\* nothing else there has changed.
LEMMA KeptCopies ==
  ASSUME FramesNumbered, Counted, phase = "frame", KeepCopies
  PROVE  /\ sndCache' \in [SlotId -> [FrameId -> [BlkId -> CopyItems]]]
         /\ \A b \in 0 .. FramePkts(j) - 1 : sndCache'[PicSlot][frameId][b] = CopyOf(b)
         /\ \A p \in SlotId, f \in FrameId :
              p # PicSlot \/ f # frameId => sndCache'[p][f] = sndCache[p][f]
<1> DEFINE row == [b \in BlkId |-> IF b < FramePkts(j) THEN CopyOf(b)
                                   ELSE sndCache[PicSlot][frameId][b]]
<1>1. /\ frameId = j /\ j \in FrameId /\ PicSlot \in SlotId
      /\ sndCache \in [SlotId -> [FrameId -> [BlkId -> CopyItems]]]
  BY SendNumbers, SlotType DEF Counted, SendTypes
<1>2. frameId < PicBlks  BY <1>1, Cut DEF FrameId
<1>3. sndCache' = [sndCache EXCEPT ![PicSlot][frameId] = row]
  BY <1>2 DEF KeepCopies
<1>4. FramePkts(j) \in Nat /\ FramePkts(j) <= FrameBlks  BY <1>1, FrameCut, Cut
<1>5. \A b \in BlkId : b < FramePkts(j) => CopyOf(b) \in CopyItems
  <2>1. SUFFICES ASSUME NEW b \in BlkId, b < FramePkts(j) PROVE CopyOf(b) \in CopyItems
    OBVIOUS
  <2>2. b \in Nat /\ b \in 0 .. FramePkts(j) - 1  BY <1>4, <2>1, Cut DEF BlkId
  <2>3. Payload(j, b) \in 1 .. BlockSize  BY <1>1, <2>2, PayloadCut
  <2>4. groupId \in Nat /\ Source \in Nat  BY SourceType DEF Counted, SendTypes
  <2>5. FrameBytes * j + BlockSize * b \in Nat
    <3>1. /\ FrameBytes \in Nat /\ BlockSize \in Nat /\ j \in Nat
          /\ FrameBytes * j \in Nat /\ BlockSize * b \in Nat
      BY <1>1, <2>2, Cut, ConstTypes DEF FrameId
    <3> QED BY <3>1
  <2>6. Payload(j, b) + HdrSize \in Nat  BY <2>3, ConstTypes
  <2> QED BY <2>4, <2>5, <2>6 DEF CopyOf, CopyItems
<1>6. row \in [BlkId -> CopyItems]  BY <1>1, <1>5
<1>7. \A b \in 0 .. FramePkts(j) - 1 : row[b] = CopyOf(b)
  <2>1. \A b \in 0 .. FramePkts(j) - 1 : b \in BlkId /\ b < FramePkts(j)
    BY <1>4, Cut DEF BlkId
  <2> QED BY <2>1
<1> HIDE DEF row
<1>8. sndCache' \in [SlotId -> [FrameId -> [BlkId -> CopyItems]]]
  BY <1>1, <1>3, <1>6
<1>9. sndCache'[PicSlot][frameId] = row  BY <1>1, <1>3
<1>10. \A p \in SlotId, f \in FrameId :
         p # PicSlot \/ f # frameId => sndCache'[p][f] = sndCache[p][f]
  BY <1>1, <1>3
<1> QED BY <1>7, <1>8, <1>9, <1>10

LEMMA SendFrameTypes ==
  ASSUME FramesNumbered, Counted, phase = "frame", SendFrame
  PROVE  Counted'
<1> USE DEF Counted
<1>1. /\ frameId = j /\ j \in FrameId /\ j \in Nat /\ j <= PicBlks - 1
      /\ FirstIdx \in Nat /\ FramePkts(j) \in Nat \ {0}
      /\ NewSndSize \in Nat /\ NewSndSize <= sumsize /\ sumsize <= total
      /\ sumsize \in Nat /\ total \in Nat /\ total \in FileSizes
      /\ i \in SlotId /\ i \in Nat /\ groupId \in Nat /\ picId \in Nat /\ seqNo \in Nat
      /\ sumsize = ImgSize * (sumsize \div ImgSize)
  <2>1. /\ frameId = j /\ j \in FrameId /\ NewSndSize \in Nat /\ NewSndSize <= sumsize
        /\ FirstIdx \in Nat /\ FramePkts(j) \in Nat \ {0}
    BY SendNumbers
  <2>2. sumsize <= total /\ sumsize \in Nat /\ total \in Nat  BY SourceType
  <2>3. i \in Nat /\ j \in Nat /\ j <= PicBlks - 1  BY <2>1, Cut DEF SendTypes, FrameId, SlotId
  <2> QED BY <2>1, <2>2, <2>3, ConstTypes DEF SendTypes, SentSoFar
<1>2. /\ fileHead' \in Packet /\ fileTail' \in Packet /\ wire' \in Seq(Packet)
  BY FrameSent DEF FrameBehind
<1>3. /\ pktIdx' \in Nat /\ seqNo' \in 0 .. SeqMod - 1
      /\ sndSize' = NewSndSize /\ total' = total /\ sumsize' = sumsize
  <2> DEFINE more == (IF BuildsHead THEN 1 ELSE 0) + (IF BuildsTail THEN 1 ELSE 0)
             sum == seqNo + FramePkts(j) + (IF BuildsHead THEN 1 ELSE 0)
                          + (IF BuildsTail THEN 1 ELSE 0)
  <2>1. sum \in Nat  BY <1>1
  <2>2. sum % SeqMod \in 0 .. SeqMod - 1  BY <2>1, ConstTypes, DivMod
  <2>3. seqNo' = sum % SeqMod  BY DEF SendFrame, Raw2Pkt
  <2>4. pktIdx' \in Nat
    <3>1. pktIdx' = FirstIdx + FramePkts(j) + (IF BuildsTail THEN 1 ELSE 0)
      BY DEF SendFrame, Raw2Pkt
    <3> QED BY <1>1, <3>1
  <2> QED BY <2>2, <2>3, <2>4 DEF SendFrame, Raw2Pkt
<1>4. sndCache' \in [SlotId -> [FrameId -> [BlkId -> CopyItems]]]
  BY KeptCopies DEF SendFrame, Raw2Pkt
<1>5. frameId' = (j + 1) % IdMod /\ frameId' \in 0 .. IdMod - 1
  BY <1>1, ConstTypes, DivMod DEF SendFrame
<1>6. (picId + 1) % IdMod \in 0 .. IdMod - 1  BY <1>1, ConstTypes, DivMod
<1>7. ASSUME NEW status \in BOOLEAN, EndPicture(status)
      PROVE  /\ i' \in SlotId /\ picId' \in 0 .. IdMod - 1 /\ groupId' \in Nat
             /\ phase' = IF status THEN "done" ELSE "picture"
             /\ ~(groupId' = 0 /\ i' = 0)
  <2>1. CASE status \/ LastOfGroup
    BY <1>1, <1>6, <1>7, <2>1, Cut DEF EndPicture, SlotId
  <2>2. CASE ~(status \/ LastOfGroup)
    <3>1. i + 1 < GroupBlks  BY <1>1, <2>2, Cut DEF LastOfGroup, SlotId
    <3> QED BY <1>1, <1>6, <1>7, <2>2, <3>1, Cut DEF EndPicture, SlotId
  <2> QED BY <2>1, <2>2
<1>12. sndSize' \in 0 .. total' /\ sumsize' \in 0 .. total'  BY <1>1, <1>3
<1>8. CASE sumsize >= total /\ EndPicture(TRUE) /\ j' = j
  <2>1. /\ phase' = "done" /\ i' \in SlotId /\ picId' \in 0 .. IdMod - 1
        /\ groupId' \in Nat
    BY <1>7, <1>8
  <2>2. SendTypes'  BY <1>1, <1>2, <1>3, <1>4, <1>5, <1>8, <1>12, <2>1 DEF SendTypes
  <2> QED BY <2>1, <2>2 DEF SentSoFar, NothingNumbered
<1>9. CASE sumsize < total /\ j + 1 = PicBlks /\ EndPicture(FALSE) /\ j' = j
  <2>1. phase' = "picture" /\ ~(groupId' = 0 /\ i' = 0)  BY <1>7, <1>9
  <2>2. NewSndSize = sumsize  BY <1>1, <1>9, SendNumbers, Cut
  <2>3. SentSoFar' /\ NothingNumbered'
    BY <1>1, <1>3, <1>9, <2>1, <2>2 DEF SentSoFar, NothingNumbered
  <2>4. i' \in SlotId /\ picId' \in 0 .. IdMod - 1 /\ groupId' \in Nat
    BY <1>7, <1>9
  <2>5. SendTypes'
    BY <1>1, <1>2, <1>3, <1>4, <1>5, <1>9, <1>12, <2>1, <2>4, SMTT(30) DEF SendTypes
  <2> QED BY <2>3, <2>5
<1>10. CASE /\ sumsize < total /\ j + 1 < PicBlks /\ j' = j + 1
            /\ UNCHANGED <<i, picId, groupId, offset, phase>>
  <2>1. j' \in FrameId /\ j' # 0  BY <1>1, <1>10, Cut DEF FrameId
  <2>2. frameId' = j'
    <3>1. j + 1 \in Nat /\ j + 1 < IdMod
      BY <1>1, <1>10, Cut, ConstTypes DEF FramesNumbered
    <3>2. (j + 1) % IdMod = j + 1  BY <3>1, ConstTypes
    <3> QED BY <1>5, <1>10, <3>2
  <2>3. NewSndSize = (sumsize - ImgSize) + (FrameBytes * (j + 1))
    BY <1>1, <1>10, Cut, SendNumbers
  <2>4. SentSoFar' /\ NothingNumbered'
    BY <1>1, <1>3, <1>10, <2>1, <2>2, <2>3 DEF SentSoFar, NothingNumbered
  <2>5. SendTypes'
    BY <1>1, <1>2, <1>3, <1>4, <1>5, <1>10, <2>1, SMTT(30) DEF SendTypes
  <2> QED BY <2>4, <2>5
<1>11. \/ sumsize >= total /\ EndPicture(TRUE) /\ j' = j
       \/ sumsize < total /\ j + 1 = PicBlks /\ EndPicture(FALSE) /\ j' = j
       \/ /\ sumsize < total /\ j + 1 < PicBlks /\ j' = j + 1
          /\ UNCHANGED <<i, picId, groupId, offset, phase>>
  BY DEF SendFrame
<1> QED BY <1>8, <1>9, <1>10, <1>11

\* A packet of a frame is the start packet, one of the data or the end packet.
LEMMA WirePlaces ==
  ASSUME Counted, phase = "frame", FrameOnWire, NEW n \in 1 .. Len(wire')
  PROVE  \/ n = 1 /\ HeadLen = 1 /\ BuildsHead /\ wire'[n] = InfoPkt(1, 0, seqNo)
         \/ \E m \in 1 .. FramePkts(j) :
              n = HeadLen + m /\ wire'[n] = DataPkt(m - 1, FirstIdx + m - 1)
         \/ n = Len(wire') /\ TailLen = 1 /\ wire'[n] = fileTail'
<1>1. FramePkts(j) \in Nat \ {0} /\ HeadLen \in {0, 1} /\ TailLen \in {0, 1}
  BY SendNumbers DEF HeadLen, TailLen
<1>2. Len(wire') = HeadLen + FramePkts(j) + TailLen  BY DEF FrameOnWire
<1>3. CASE n <= HeadLen
  <2>1. n = 1 /\ HeadLen = 1  BY <1>1, <1>3
  <2> QED BY <2>1 DEF FrameOnWire
<1>4. CASE ~(n <= HeadLen) /\ n <= HeadLen + FramePkts(j)
  <2>1. n - HeadLen \in 1 .. FramePkts(j) /\ n = HeadLen + (n - HeadLen)
    BY <1>1, <1>4
  <2>2. wire'[HeadLen + (n - HeadLen)]
          = DataPkt((n - HeadLen) - 1, FirstIdx + (n - HeadLen) - 1)
    BY <2>1 DEF FrameOnWire
  <2> QED BY <2>1, <2>2
<1>5. CASE n > HeadLen + FramePkts(j)
  <2>1. n = HeadLen + FramePkts(j) + 1 /\ TailLen = 1 /\ n = Len(wire')
    BY <1>1, <1>2, <1>5
  <2> QED BY <2>1 DEF FrameOnWire
<1> QED BY <1>1, <1>3, <1>4, <1>5

LEMMA SendFrameSend ==
  ASSUME FramesNumbered, SendInv, phase = "frame", wire = <<>>, SendFrame,
         UNCHANGED cacheVars
  PROVE  SendInv'
<1>0. Counted  BY DEF SendInv
<1>1. Counted' /\ SendTypes'  BY <1>0, SendFrameTypes DEF Counted
<1>2. FrameOnWire  BY <1>0, FrameWire
<1>3. /\ sndSize \in Nat /\ sndSize < total /\ total \in Nat
      /\ NewSndSize \in Nat /\ NewSndSize <= sumsize
      /\ FirstIdx \in Nat /\ FramePkts(j) \in Nat \ {0}
      /\ SendTypes /\ InfoPackets /\ seqNo \in Nat
      /\ sndSize' = NewSndSize /\ total' = total /\ ended' = ended
  BY SendNumbers, SourceType, ConstTypes
     DEF SendInv, Counted, SendTypes, SendFrame, Raw2Pkt, cacheVars
<1>4. FrameData(j) \in Nat \ {0}
  BY FrameCut, Cut DEF SendInv, Counted, SendTypes
<1>5. /\ BuildsTail => /\ fileTail' # Blank /\ fileTail'.data_type = 2
                       /\ sndSize' = total' /\ total' > 0
      /\ ~BuildsTail => fileTail' = Blank /\ sndSize' # total'
  <2>1. CASE BuildsTail
    <3>1. FirstIdx + FramePkts(j) \in Nat  BY <1>3
    <3>2. fileTail' = InfoPkt(2, FirstIdx + FramePkts(j), seqNo)
      BY <2>1 DEF SendFrame, Raw2Pkt
    <3>3. fileTail'.data_type = 2  BY <1>3, <3>1, <3>2, InfoPktType
    <3>4. Blank.data_type = 0  BY DEF Blank
    <3> QED BY <1>3, <2>1, <3>3, <3>4 DEF BuildsTail
  <2>2. CASE ~BuildsTail
    <3>1. fileTail' = fileTail  BY <2>2 DEF SendFrame, Raw2Pkt
    <3> QED BY <1>3, <2>2, <3>1 DEF BuildsTail, InfoPackets
  <2> QED BY <2>1, <2>2
<1>6. \A b \in 0 .. FramePkts(j) - 1, x \in Nat : DataPkt(b, x).data_type = 0
  BY DEF DataPkt
<1>7. Blank.data_type = 0  BY DEF Blank
<1>8. InfoPackets'
  <2>1. fileHead' = Blank \/ fileHead'.data_type = 1
    BY <1>3, InfoPktType DEF SendFrame, Raw2Pkt, InfoPackets
  <2>2. ASSUME NEW n \in DOMAIN wire', wire'[n].data_type = 2
        PROVE  sndSize' = total'
    <3>1. n \in 1 .. Len(wire')  BY <1>1 DEF SendTypes
    <3>2. CASE wire'[n] = InfoPkt(1, 0, seqNo)
      <4>1. InfoPkt(1, 0, seqNo).data_type = 1  BY DEF InfoPkt
      <4> QED BY <2>2, <3>2, <4>1
    <3>3. ASSUME NEW m \in 1 .. FramePkts(j),
                 wire'[n] = DataPkt(m - 1, FirstIdx + m - 1)
          PROVE  FALSE
      <4>1. m - 1 \in 0 .. FramePkts(j) - 1 /\ FirstIdx + m - 1 \in Nat  BY <1>3
      <4> QED BY <1>6, <2>2, <3>3, <4>1
    <3>4. CASE wire'[n] = fileTail'  BY <1>5, <1>7, <2>2, <3>4
    <3> QED BY <1>0, <1>2, <3>1, <3>2, <3>3, <3>4, WirePlaces
  <2>3. ended' => sndSize' = total'  BY <1>3 DEF InfoPackets
  <2> QED BY <1>5, <2>1, <2>2, <2>3 DEF InfoPackets
<1> QED BY <1>1, <1>8 DEF SendInv

LEMMA StepSend == FramesNumbered /\ SendInv /\ [Next]_vars => SendInv'
<1> SUFFICES ASSUME FramesNumbered, SendInv, [Next]_vars PROVE SendInv'  OBVIOUS
<1>1. CASE Read  BY <1>1, ReadSend
<1>2. CASE Packetise
  <2>1. wire = <<>> /\ SendFrame /\ phase = "frame" /\ UNCHANGED cacheVars
    BY <1>2 DEF Packetise, SendFrame
  <2> QED BY <2>1, SendFrameSend
<1>3. CASE Deliver  BY <1>3, DeliverSend
<1>4. CASE UNCHANGED vars
  BY <1>4 DEF vars, sendVars, cacheVars, SendInv, Counted, SendTypes, SentSoFar,
              NothingNumbered, InfoPackets
<1> QED BY <1>1, <1>2, <1>3, <1>4 DEF Next

\* What the sender's counters say of the file, for every file and geometry.
THEOREM SenderInvariant == FramesNumbered => (Spec => []SendInv)
<1> SUFFICES ASSUME FramesNumbered PROVE Spec => []SendInv  OBVIOUS
<1>1. Init => SendInv  BY InitSend
<1>2. SendInv /\ [Next]_vars => SendInv'  BY StepSend
<1> QED BY <1>1, <1>2, PTL DEF Spec

-----------------------------------------------------------------------------
(* The numbers of the packets. *)

\* An id of obj->pic_id stands for one picture of the first group only.
PicturesNumbered == GroupBlks <= IdMod

\* In the first group pic_id counts the pictures, so that raw2pkt takes no
\* other frame for the first one of the file.
FirstGroup == groupId = 0 => picId = i

NumInv == FirstGroup /\ PktIdxConsecutive

LEMMA HeadIsFirst ==
  ASSUME SendInv, FirstGroup, phase = "frame", BuildsHead
  PROVE  HeadLen = 1
<1>1. /\ groupId = 0 /\ picId = i /\ i \in 0 .. GroupBlks - 1 /\ j \in 0 .. PicBlks - 1
      /\ i % GroupBlks = 0 /\ j % PicBlks = 0
  BY SendNumbers DEF BuildsHead, PicSlot, FirstGroup, SendInv, Counted, SendTypes, SlotId, FrameId
<1>2. i % GroupBlks = i /\ j % PicBlks = j  BY <1>1, Cut
<1> QED BY <1>1, <1>2 DEF HeadLen

LEMMA SendFrameNum ==
  ASSUME FramesNumbered, PicturesNumbered, SendInv, SendInv', NumInv,
         phase = "frame", wire = <<>>, SendFrame, UNCHANGED cacheVars
  PROVE  NumInv'
<1>1. FrameOnWire  BY FrameWire DEF SendInv
<1>2. /\ FirstIdx \in Nat /\ FramePkts(j) \in Nat \ {0} /\ seqNo \in Nat
      /\ i \in 0 .. GroupBlks - 1 /\ groupId \in Nat /\ picId \in Nat /\ pktIdx \in Nat
      /\ SendTypes /\ FirstGroup /\ InfoPackets
      /\ NewSndSize <= sumsize /\ NewSndSize \in Nat
      /\ sumsize \in Nat /\ sumsize <= total /\ total \in Nat /\ sndSize < total
  <2>1. SendTypes /\ InfoPackets /\ FirstGroup  BY DEF SendInv, Counted, NumInv
  <2>2. /\ FirstIdx \in Nat /\ FramePkts(j) \in Nat \ {0}
        /\ NewSndSize <= sumsize /\ NewSndSize \in Nat /\ sndSize < total
    BY SendNumbers DEF SendInv
  <2>3. sumsize \in Nat /\ sumsize <= total /\ total \in Nat  BY SourceType DEF SendInv
  <2>4. /\ seqNo \in Nat /\ i \in 0 .. GroupBlks - 1 /\ groupId \in Nat
        /\ picId \in Nat /\ pktIdx \in Nat
    BY <2>1, ConstTypes DEF SendTypes, SlotId
  <2> QED BY <2>1, <2>2, <2>3, <2>4
<1>3. HeadLen \in {0, 1} /\ TailLen \in {0, 1} /\ (HeadLen = 1 <=> BuildsHead)
  BY <1>1, <1>2, HeadIsFirst DEF HeadLen, TailLen, FrameOnWire
<1>4. Len(wire') = HeadLen + FramePkts(j) + TailLen  BY <1>1 DEF FrameOnWire
<1>5. HeadLen = 1 => wire'[1].idx = 0 /\ FirstIdx = 1
  <2>1. HeadLen = 1 => pktIdx = 0
    BY DEF HeadLen, SendInv, Counted, NothingNumbered
  <2>2. InfoPkt(1, 0, seqNo).idx = 0  BY <1>2, InfoPktType
  <2> QED BY <1>1, <1>3, <2>1, <2>2 DEF FrameOnWire, FirstIdx
<1>6. \A m \in 1 .. FramePkts(j) : wire'[HeadLen + m].idx = FirstIdx + m - 1
  <2>1. \A b, x : DataPkt(b, x).idx = x  BY DEF DataPkt
  <2> QED BY <1>1, <2>1 DEF FrameOnWire
<1>7. fileTail'.size > 0 => BuildsTail
  <2>1. CASE ~BuildsTail
    <3>1. fileTail' = Blank
      BY <1>2, <2>1 DEF InfoPackets, SendFrame, Raw2Pkt
    <3> QED BY <3>1 DEF Blank
  <2> QED BY <2>1
<1>8. BuildsTail => /\ fileTail'.idx = FirstIdx + FramePkts(j) /\ TailLen = 1
                    /\ fileTail'.size > 0
  <2>1. FirstIdx + FramePkts(j) \in Nat  BY <1>2
  <2>2. BuildsTail => fileTail' = InfoPkt(2, FirstIdx + FramePkts(j), seqNo)
    BY DEF SendFrame, Raw2Pkt
  <2>3. BuildsTail => sumsize >= total  BY <1>2 DEF BuildsTail
  <2> QED BY <1>2, <2>1, <2>2, <2>3, InfoPktType DEF TailLen
<1>9. pktIdx' = FirstIdx + FramePkts(j) + (IF BuildsTail THEN 1 ELSE 0)
  BY DEF SendFrame, Raw2Pkt
<1> DEFINE w == wire'
<1>10. TailLen = 1 => w[HeadLen + FramePkts(j) + 1] = fileTail'
  BY <1>1 DEF FrameOnWire
<1>11. w # <<>>
  <2>1. Len(w) > 0  BY <1>2, <1>3, <1>4
  <2> QED BY <2>1
<1>12. w = wire'  OBVIOUS
<1> HIDE DEF w
<1>13. ASSUME NEW n \in 1 .. Len(w) - 1, w[n + 1].size > 0
       PROVE  w[n + 1].idx = w[n].idx + 1
  <2>1. CASE n <= HeadLen
    <3>1. n = 1 /\ HeadLen = 1 /\ 1 \in 1 .. FramePkts(j)  BY <1>2, <1>3, <2>1
    <3>2. w[HeadLen + 1].idx = FirstIdx + 1 - 1  BY <1>6, <1>12, <3>1
    <3> QED BY <1>5, <1>12, <3>1, <3>2
  <2>2. CASE ~(n <= HeadLen) /\ n < HeadLen + FramePkts(j)
    <3> DEFINE m == n - HeadLen
    <3>1. /\ m \in 1 .. FramePkts(j) /\ m + 1 \in 1 .. FramePkts(j)
          /\ n = HeadLen + m /\ n + 1 = HeadLen + (m + 1)
      BY <1>2, <1>3, <2>2
    <3> HIDE DEF m
    <3>2. w[n].idx = FirstIdx + m - 1 /\ w[n + 1].idx = FirstIdx + (m + 1) - 1
      BY <1>6, <1>12, <3>1
    <3> QED BY <1>2, <3>1, <3>2
  <2>3. CASE n >= HeadLen + FramePkts(j)
    <3>1. /\ TailLen = 1 /\ n = HeadLen + FramePkts(j)
          /\ FramePkts(j) \in 1 .. FramePkts(j)
      BY <1>2, <1>3, <1>4, <1>12, <2>3
    <3>2. w[n].idx = FirstIdx + FramePkts(j) - 1  BY <1>6, <1>12, <3>1
    <3>3. w[n + 1] = fileTail'  BY <1>10, <3>1
    <3>4. w[n + 1].idx = FirstIdx + FramePkts(j)  BY <1>7, <1>8, <1>13, <3>3
    <3> QED BY <1>2, <3>2, <3>4
  <2> QED BY <1>2, <1>3, <2>1, <2>2, <2>3
<1>14. ASSUME w[Len(w)].size > 0 PROVE pktIdx' = w[Len(w)].idx + 1
  <2>1. CASE TailLen = 1
    <3>1. w[Len(w)] = fileTail'  BY <1>4, <1>10, <1>12, <2>1
    <3> QED BY <1>2, <1>7, <1>8, <1>9, <1>14, <3>1
  <2>2. CASE TailLen = 0
    <3>1. FramePkts(j) \in 1 .. FramePkts(j) /\ Len(w) = HeadLen + FramePkts(j)
      BY <1>2, <1>3, <1>4, <1>12, <2>2
    <3>2. w[Len(w)].idx = FirstIdx + FramePkts(j) - 1  BY <1>6, <1>12, <3>1
    <3> QED BY <1>2, <1>8, <1>9, <2>2, <3>2
  <2> QED BY <1>3, <2>1, <2>2
<1>15. PktIdxConsecutive'
  BY <1>11, <1>12, <1>13, <1>14 DEF PktIdxConsecutive
<1>16. FirstGroup'
  <2>1. ASSUME NEW status \in BOOLEAN, EndPicture(status) PROVE FirstGroup'
    <3>1. CASE status \/ LastOfGroup
      <4>1. groupId' # 0  BY <1>2, <2>1, <3>1 DEF EndPicture
      <4> QED BY <4>1 DEF FirstGroup
    <3>2. CASE ~(status \/ LastOfGroup)
      <4>1. i + 1 < GroupBlks  BY <1>2, <3>2, Cut DEF LastOfGroup
      <4>2. i + 1 \in Nat /\ i + 1 < IdMod
        BY <1>2, <4>1, Cut, ConstTypes DEF PicturesNumbered
      <4>3. (i + 1) % IdMod = i + 1  BY <4>2, ConstTypes
      <4>4. groupId' = groupId /\ i' = i + 1 /\ picId' = (picId + 1) % IdMod
        BY <2>1, <3>2 DEF EndPicture
      <4> QED BY <1>2, <4>3, <4>4 DEF FirstGroup
    <3> QED BY <3>1, <3>2
  <2>2. CASE UNCHANGED <<i, picId, groupId, offset, phase>>
    BY <1>2, <2>2 DEF FirstGroup
  <2> QED BY <2>1, <2>2 DEF SendFrame
<1> QED BY <1>15, <1>16 DEF NumInv

LEMMA StepNum ==
  ASSUME FramesNumbered, PicturesNumbered, SendInv, SendInv', NumInv, [Next]_vars
  PROVE  NumInv'
<1> USE DEF NumInv
<1>1. CASE Read
  <2>1. UNCHANGED <<wire, pktIdx, fileTail, sndSize, total>> /\ UNCHANGED ended
    BY <1>1 DEF Read, ReadPicture, ReadShort, cacheVars
  <2>2. PktIdxConsecutive'  BY <2>1 DEF PktIdxConsecutive
  <2>3. CASE ReadPicture  BY <2>2, <2>3 DEF ReadPicture, FirstGroup
  <2>4. CASE ReadShort
    <3>1. groupId' # 0  BY <2>4 DEF ReadShort, SendInv, Counted, SendTypes
    <3> QED BY <2>2, <3>1 DEF FirstGroup
  <2> QED BY <1>1, <2>3, <2>4 DEF Read
<1>2. CASE Packetise
  <2>1. wire = <<>> /\ SendFrame /\ phase = "frame" /\ UNCHANGED cacheVars
    BY <1>2 DEF Packetise, SendFrame
  <2> QED BY <2>1, SendFrameNum
<1>3. CASE Deliver
  <2>1. /\ wire \in Seq(Packet) /\ wire # <<>> /\ wire' = Tail(wire)
        /\ UNCHANGED sendVars
    BY <1>3 DEF Deliver, SendInv, Counted, SendTypes
  <2>2. /\ wire' \in Seq(Packet) /\ Len(wire') = Len(wire) - 1 /\ Len(wire) \in Nat
        /\ \A n \in 1 .. Len(wire) - 1 : wire'[n] = wire[n + 1]
    BY <2>1, TailOf
  <2>3. \A n \in 1 .. Len(wire') - 1 :
          wire'[n + 1].size > 0 => wire'[n + 1].idx = wire'[n].idx + 1
    <3>1. SUFFICES ASSUME NEW n \in 1 .. Len(wire) - 2, wire'[n + 1].size > 0
                   PROVE  wire'[n + 1].idx = wire'[n].idx + 1
      BY <2>2
    <3>2. n \in 1 .. Len(wire) - 1 /\ n + 1 \in 1 .. Len(wire) - 1  BY <2>2
    <3>3. wire'[n] = wire[n + 1] /\ wire'[n + 1] = wire[(n + 1) + 1]  BY <2>2, <3>2
    <3> QED BY <3>1, <3>2, <3>3 DEF PktIdxConsecutive
  <2>4. ASSUME wire' # <<>>, wire'[Len(wire')].size > 0
        PROVE  pktIdx' = wire'[Len(wire')].idx + 1
    <3>1. Len(wire') \in Nat \ {0}  BY <2>2, <2>4, EmptySeq
    <3>2. Len(wire') \in 1 .. Len(wire) - 1 /\ Len(wire') + 1 = Len(wire)
      BY <2>2, <3>1
    <3>3. wire'[Len(wire')] = wire[Len(wire)]  BY <2>2, <3>2
    <3> QED BY <2>1, <2>4, <3>3 DEF PktIdxConsecutive, sendVars
  <2>5. FirstGroup'  BY <2>1 DEF FirstGroup, sendVars
  <2> QED BY <2>3, <2>4, <2>5 DEF PktIdxConsecutive
<1>4. CASE UNCHANGED vars
  BY <1>4 DEF vars, sendVars, cacheVars, FirstGroup, PktIdxConsecutive
<1> QED BY <1>1, <1>2, <1>3, <1>4 DEF Next

\* pkt_idx numbers the packets of the whole file without a gap, the start and
\* the end packet included.
THEOREM PacketsNumbered ==
  FramesNumbered /\ PicturesNumbered => (Spec => []PktIdxConsecutive)
<1> SUFFICES ASSUME FramesNumbered, PicturesNumbered
             PROVE  Spec => []PktIdxConsecutive
  OBVIOUS
<1>1. Init => NumInv
  <2>1. SUFFICES ASSUME Init PROVE NumInv  OBVIOUS
  <2>2. wire = <<>> /\ Len(wire) = 0 /\ picId = 0 /\ i = 0
    BY <2>1 DEF Init, SenderInit
  <2> QED BY <2>2 DEF NumInv, FirstGroup, PktIdxConsecutive
<1>2. SendInv /\ SendInv' /\ NumInv /\ [Next]_vars => NumInv'  BY StepNum
<1>3. NumInv => PktIdxConsecutive  BY DEF NumInv
<1>4. Spec => []SendInv  BY SenderInvariant
<1> QED BY <1>1, <1>2, <1>3, <1>4, PTL DEF Spec

-----------------------------------------------------------------------------
(* The receiver. *)

LEMMA RecvSets ==
  /\ Recv!Pics = SlotId /\ Recv!Frames = FrameId /\ Recv!Blks = BlkId
  /\ ImgBlocks \subseteq FrameId \X BlkId
BY DEF Recv!Pics, Recv!Frames, Recv!Blks, SlotId, FrameId, BlkId, ImgBlocks

LEMMA EmptyPicType ==
  /\ Recv!EmptyPic \in [FrameId -> [BlkId -> Recv!Items]]
  /\ \A x \in FrameId, y \in BlkId : ~Recv!Held(Recv!EmptyPic[x][y])
BY RecvSets DEF Recv!EmptyPic, Recv!NoItem, Recv!Items, Recv!Held

\* What pkt2cache does with a packet leaves its counters and slots what they
\* are for.
LEMMA ReceiveType ==
  ASSUME Recv!TypeOK, NEW pkt \in Packet, Recv!Receive(pkt)
  PROVE  Recv!TypeOK'
<1> USE RecvSets DEF Recv!TypeOK
<1>1. /\ pkt.size \in Nat /\ pkt.pic \in Nat /\ pkt.frame \in Nat /\ pkt.blk \in BlkId
      /\ pkt.group \in Nat /\ pkt.src \in Nat
  BY DEF Packet
<1>2. ASSUME Recv!Storable(pkt)
      PROVE  /\ pkt.pic \in SlotId /\ pkt.frame \in FrameId
             /\ Recv!StoredPic(pkt) \in [FrameId -> [BlkId -> Recv!Items]]
  <2>1. pkt.pic \in SlotId /\ pkt.frame \in FrameId
    <3>1. pkt.pic < GroupBlks /\ pkt.frame < PicBlks
      BY <1>2 DEF Recv!Storable, Recv!InRange
    <3>2. \A p \in Nat : p < GroupBlks => p \in SlotId  BY Cut DEF SlotId
    <3>3. \A f \in Nat : f < PicBlks => f \in FrameId  BY Cut DEF FrameId
    <3> QED BY <1>1, <3>1, <3>2, <3>3
  <2>2. item[pkt.pic] \in [FrameId -> [BlkId -> Recv!Items]]  BY <2>1
  <2>3. [size |-> pkt.size, group |-> pkt.group, src |-> pkt.src] \in Recv!Items
    BY <1>1 DEF Recv!Items
  <2> QED BY <1>1, <2>1, <2>2, <2>3 DEF Recv!StoredPic
<1>3. ASSUME Recv!CountPkt(pkt) PROVE groupNum' \in Nat /\ pktNum' \in Nat
  <2>1. Recv!NotRtx(pkt) \in Nat  BY DEF Recv!NotRtx
  <2> QED BY <1>3, <2>1 DEF Recv!CountPkt
<1>4. CASE Recv!StoreBlock(pkt)
  <2>1. /\ pkt.pic \in SlotId /\ pkt.frame \in FrameId
        /\ Recv!StoredPic(pkt) \in [FrameId -> [BlkId -> Recv!Items]]
        /\ groupNum' \in Nat /\ pktNum' \in Nat
    BY <1>2, <1>3, <1>4 DEF Recv!StoreBlock
  <2>2. Recv!NewFrameNum(pkt) \in Nat /\ Recv!NewCompleteNum(pkt) \in Nat
    <3>1. Recv!NotRtx(pkt) \in Nat  BY DEF Recv!NotRtx
    <3>2. frameNum[pkt.pic][pkt.frame] \in Nat /\ completeNum[pkt.pic] \in Nat
      BY <2>1
    <3>3. (IF Recv!FrameDone(pkt) THEN 1 ELSE 0) \in Nat  OBVIOUS
    <3> HIDE DEF Recv!TypeOK
    <3>4. Recv!NewFrameNum(pkt) \in Nat  BY <3>1, <3>2 DEF Recv!NewFrameNum
    <3>5. Recv!NewCompleteNum(pkt) \in Nat
      BY <3>2, <3>3 DEF Recv!NewCompleteNum
    <3> QED BY <3>4, <3>5
  <2>3. item' \in [SlotId -> [FrameId -> [BlkId -> Recv!Items]]]
    BY <1>4, <2>1 DEF Recv!StoreBlock
  <2>4. frameNum' \in [SlotId -> [FrameId -> Nat]]
    BY <1>4, <2>1, <2>2 DEF Recv!StoreBlock
  <2>5. complete' \in [SlotId -> [FrameId -> {0, Recv!Marked}]]
    BY <1>4, <2>1 DEF Recv!StoreBlock
  <2>6. picNum' \in [SlotId -> Nat] /\ completeNum' \in [SlotId -> Nat]
    BY <1>4, <2>1, <2>2, SMTT(30) DEF Recv!StoreBlock
  <2> QED BY <1>4, <2>1, <2>3, <2>4, <2>5, <2>6 DEF Recv!StoreBlock
<1>5. CASE Recv!CompletePicture(pkt)
  <2>1. /\ pkt.pic \in SlotId /\ pkt.frame \in FrameId
        /\ Recv!StoredPic(pkt) \in [FrameId -> [BlkId -> Recv!Items]]
        /\ groupNum' \in Nat /\ pktNum' \in Nat
    BY <1>2, <1>3, <1>5 DEF Recv!CompletePicture
  <2>2. Recv!Image(Recv!StoredPic(pkt)) \in [ImgBlocks -> Nat \cup {Recv!Hole}]
    <3> DEFINE P == Recv!StoredPic(pkt)
    <3>1. ASSUME NEW c \in ImgBlocks PROVE P[c[1]][c[2]].src \in Nat
      <4>1. c[1] \in FrameId /\ c[2] \in BlkId  OBVIOUS
      <4> QED BY <2>1, <4>1 DEF Recv!Items
    <3> HIDE DEF P
    <3>2. Recv!Image(P) \in [ImgBlocks -> Nat \cup {Recv!Hole}]
      BY <3>1 DEF Recv!Image
    <3> QED BY <3>2 DEF P
  <2>3. /\ pictures' \in Seq([ImgBlocks -> Nat \cup {Recv!Hole}])
        /\ rawFile' \in Seq([ImgBlocks -> Nat \cup {Recv!Hole}])
    BY <1>5, <2>2 DEF Recv!CompletePicture
  <2>4. Recv!FreePicture(pkt.pic) /\ UNCHANGED <<ready, starts, ended>>
    BY <1>5 DEF Recv!CompletePicture
  <2>5. item' \in [SlotId -> [FrameId -> [BlkId -> Recv!Items]]]
    BY <2>1, <2>4, EmptyPicType DEF Recv!FreePicture
  <2>6. /\ frameNum' \in [SlotId -> [FrameId -> Nat]]
        /\ complete' \in [SlotId -> [FrameId -> {0, Recv!Marked}]]
        /\ picNum' \in [SlotId -> Nat] /\ completeNum' \in [SlotId -> Nat]
    BY <2>1, <2>4 DEF Recv!FreePicture
  <2> QED BY <2>1, <2>3, <2>4, <2>5, <2>6
<1>6. CASE Recv!StartInfo(pkt)
  <2>1. item' \in [SlotId -> [FrameId -> [BlkId -> Recv!Items]]]
    BY <1>6, EmptyPicType DEF Recv!StartInfo
  <2> QED BY <1>6, <2>1 DEF Recv!StartInfo
<1>7. CASE Recv!EndInfo(pkt)  BY <1>7 DEF Recv!EndInfo
<1>8. CASE Recv!Discard(pkt)  BY <1>8 DEF Recv!Discard, Recv!cacheVars
<1> QED BY <1>4, <1>5, <1>6, <1>7, <1>8 DEF Recv!Receive

LEMMA InitReceiver == Recv!Init => Recv!TypeOK
<1> SUFFICES ASSUME Recv!Init PROVE Recv!TypeOK  OBVIOUS
<1>1. item \in [SlotId -> [FrameId -> [BlkId -> Recv!Items]]]
  BY RecvSets, EmptyPicType DEF Recv!Init
<1>2. <<>> \in Seq([ImgBlocks -> Nat \cup {Recv!Hole}])  OBVIOUS
<1> QED BY <1>1, <1>2, RecvSets DEF Recv!Init, Recv!TypeOK

-----------------------------------------------------------------------------
(* The copy.  Every packet of a frame arrives before the next frame is     *)
(* sent: what is on the wire tells what is in the slots.                   *)

\* A slot as create_vector made it, as far as pkt2cache looks at it.
Vacant(q) ==
  /\ \A x \in FrameId, y \in BlkId : ~Recv!Held(item[q][x][y])
  /\ \A x \in FrameId : frameNum[q][x] = 0
  /\ completeNum[q] = 0

\* Slot p has the frames before f and b blocks of frame f, all of picture s.
Filled(p, f, b, s) ==
  /\ \A x \in FrameId, y \in BlkId :
       /\ Recv!Held(item[p][x][y]) <=> (x < f \/ (x = f /\ y < b))
       /\ Recv!Held(item[p][x][y]) => item[p][x][y].src = s
  /\ \A x \in FrameId : x > f => frameNum[p][x] = 0
  /\ frameNum[p][f] = b /\ completeNum[p] = f

CacheAt(p, f, b, s) == Filled(p, f, b, s) /\ \A q \in SlotId \ {p} : Vacant(q)

IsBlock(pkt, p, f, b, s) ==
  /\ pkt.data_type = 0 /\ pkt.size = pkt.len + HdrSize /\ pkt.len = Payload(f, b)
  /\ pkt.pic = p /\ pkt.frame = f /\ pkt.blk = b /\ pkt.src = s

IsStart(pkt) == pkt.data_type = 1 /\ pkt.size = pkt.len + HdrSize

IsEnd(pkt) == pkt = Blank \/ pkt.data_type = 2

\* The wire brings h start packets, then the blocks of frame f from b on.
Carries(h, p, f, b, s) ==
  /\ h + (FramePkts(f) - b) <= Len(wire)
  /\ h = 1 => IsStart(wire[1]) /\ f = 0 /\ b = 0
  /\ \A m \in 1 .. FramePkts(f) - b : IsBlock(wire[h + m], p, f, (b + m) - 1, s)
  /\ \A n \in DOMAIN wire : n > h + (FramePkts(f) - b) =>
       IsEnd(wire[n]) /\ phase = "done"

\* What call_test goes on with once frame f of picture s is received.
GoesOn(p, f, s) ==
  \/ phase = "frame" /\ j = f + 1 /\ PicSlot = p /\ Source = s
  \/ phase = "picture" /\ f = PicBlks - 1 /\ sumsize = ImgSize * (s + 1)
  \/ phase = "done"

\* Some blocks of the picture in hand are still on the wire.
OnItsWay ==
  \E h \in {0, 1}, p \in SlotId, f \in FrameId, b \in BlkId :
    /\ b < FramePkts(f)
    /\ Carries(h, p, f, b, Len(pictures))
    /\ CacheAt(p, f, b, Len(pictures)) /\ (h = 0 => ready)
    /\ GoesOn(p, f, Len(pictures))
    /\ f = PicBlks - 1 => Len(pictures) + 1 <= SentPictures

\* The first frame of the file has not been packetised.
NothingSent ==
  groupId = 0 /\ i = 0 /\ (phase = "picture" \/ (phase = "frame" /\ j = 0))

AllReceived ==
  /\ \A n \in DOMAIN wire : IsEnd(wire[n]) /\ phase = "done"
  /\ phase = "picture" =>
       (\A q \in SlotId : Vacant(q)) /\ sumsize = ImgSize * Len(pictures)
  /\ phase = "frame" =>
       CacheAt(PicSlot, j, 0, Len(pictures)) /\ Len(pictures) = Source
  /\ phase # "done" => ready \/ NothingSent

CopyInv ==
  /\ Recv!TypeOK
  /\ phase = "frame" /\ j > 0 => sumsize < total
  /\ \A k \in DOMAIN pictures : pictures[k] = Copy!Picture(k - 1)
  /\ OnItsWay \/ AllReceived

\* A start packet makes every slot new.
LEMMA StartReceived ==
  ASSUME NEW pkt \in Packet, IsStart(pkt), Recv!Receive(pkt)
  PROVE  /\ ready' /\ pictures' = pictures
         /\ (\A q \in SlotId : Vacant(q))'
<1>1. Recv!StartInfo(pkt)
  BY DEF IsStart, Recv!Receive, Recv!StoreBlock, Recv!CompletePicture,
         Recv!Storable, Recv!EndInfo, Recv!Discard, Recv!WellFormed
<1>2. /\ item' = [q \in SlotId |-> Recv!EmptyPic]
      /\ frameNum' = [q \in SlotId |-> [x \in FrameId |-> 0]]
      /\ completeNum' = [q \in SlotId |-> 0]
      /\ ready' /\ pictures' = pictures
  BY <1>1, RecvSets DEF Recv!StartInfo
<1>3. ASSUME NEW q \in SlotId PROVE Vacant(q)'
  <2>1. /\ item'[q] = Recv!EmptyPic /\ completeNum'[q] = 0
        /\ frameNum'[q] = [x \in FrameId |-> 0]
    BY <1>2
  <2> QED BY <2>1, EmptyPicType DEF Vacant, Recv!Held
<1> QED BY <1>2, <1>3

\* An end packet, built or not, changes nothing in the slots.
LEMMA EndReceived ==
  ASSUME NEW pkt \in Packet, IsEnd(pkt), Recv!Receive(pkt)
  PROVE  /\ item' = item /\ frameNum' = frameNum /\ completeNum' = completeNum
         /\ pictures' = pictures /\ ready' = ready
<1>1. pkt = Blank => pkt.data_type = 0 /\ pkt.size = 0 /\ pkt.len = 0
  BY DEF Blank
<1>2. 0 # 0 + HdrSize  BY ConstTypes
<1>3. ~Recv!StoreBlock(pkt) /\ ~Recv!CompletePicture(pkt) /\ ~Recv!StartInfo(pkt)
  BY <1>1, <1>2 DEF IsEnd, Recv!StoreBlock, Recv!CompletePicture, Recv!Storable,
                    Recv!StartInfo, Recv!WellFormed
<1> QED BY <1>3 DEF Recv!Receive, Recv!EndInfo, Recv!Discard, Recv!cacheVars

\* The last block of a frame, and no earlier one, completes it.
LEMMA FrameDoneWhen ==
  ASSUME TailCompletes, NEW f \in FrameId, NEW b \in Nat, b < FramePkts(f)
  PROVE  (b + 1 >= FrameBlks \/ Payload(f, b) + HdrSize < BlockSize)
           <=> b + 1 = FramePkts(f)
<1>1. /\ FramePkts(f) \in Nat /\ FramePkts(f) <= FrameBlks /\ FrameBlks \in Nat
      /\ f # PicBlks - 1 => FramePkts(f) = FrameBlks
  BY FrameCut, Cut
<1>2. b \in 0 .. FramePkts(f) - 1  BY <1>1
<1>3. /\ Payload(f, b) \in Nat
      /\ f # PicBlks - 1 \/ b # FramePkts(f) - 1 => Payload(f, b) = BlockSize
  BY <1>2, PayloadCut, ConstTypes
<1>4. CASE b + 1 = FramePkts(f)
  <2>1. b = FramePkts(f) - 1  BY <1>1, <1>4
  <2>2. CASE f # PicBlks - 1  BY <1>1, <1>4, <2>2
  <2>3. CASE f = PicBlks - 1 /\ FramePkts(f) = FrameBlks  BY <1>1, <1>4, <2>3
  <2>4. CASE f = PicBlks - 1 /\ FramePkts(f) # FrameBlks
    BY <1>4, <2>1, <2>4 DEF TailCompletes
  <2> QED BY <2>2, <2>3, <2>4
<1>5. CASE b + 1 # FramePkts(f)
  <2>1. b # FramePkts(f) - 1 /\ ~(b + 1 >= FrameBlks)  BY <1>1, <1>5
  <2>2. ~(Payload(f, b) + HdrSize < BlockSize)  BY <1>3, <2>1, ConstTypes
  <2> QED BY <1>5, <2>1, <2>2
<1> QED BY <1>4, <1>5

\* The next block in order is stored; with the last one of a picture the
\* picture comes out, whole, and its slot is free.
LEMMA BlockReceived ==
  ASSUME TailCompletes, Recv!TypeOK, ready, NEW pkt \in Packet,
         NEW p \in SlotId, NEW f \in FrameId, NEW b \in BlkId, b < FramePkts(f),
         NEW s \in Nat, IsBlock(pkt, p, f, b, s), CacheAt(p, f, b, s),
         Recv!Receive(pkt)
  PROVE  /\ ready'
         /\ b + 1 < FramePkts(f) => CacheAt(p, f, b + 1, s)' /\ pictures' = pictures
         /\ b + 1 = FramePkts(f) /\ f # PicBlks - 1 =>
              CacheAt(p, f + 1, 0, s)' /\ pictures' = pictures
         /\ b + 1 = FramePkts(f) /\ f = PicBlks - 1 =>
              /\ (\A q \in SlotId : Vacant(q))'
              /\ pictures' = Append(pictures, Copy!Picture(s))
<1> DEFINE rec == [size |-> pkt.size, group |-> pkt.group, src |-> pkt.src]
           done == b + 1 = FramePkts(f)
           stored == Recv!StoredPic(pkt)
<1>1. /\ pkt.data_type = 0 /\ pkt.size = pkt.len + HdrSize /\ pkt.len = Payload(f, b)
      /\ pkt.pic = p /\ pkt.frame = f /\ pkt.blk = b /\ pkt.src = s
      /\ pkt.size \in Nat /\ pkt.len \in Nat
  BY DEF IsBlock, Packet
<1>2. /\ b \in Nat /\ f \in Nat /\ f <= PicBlks - 1 /\ p \in Nat /\ p < GroupBlks
      /\ b < FrameBlks
  BY Cut DEF BlkId, FrameId, SlotId
<1>3. /\ item \in [SlotId -> [FrameId -> [BlkId -> Recv!Items]]]
      /\ frameNum \in [SlotId -> [FrameId -> Nat]]
      /\ completeNum \in [SlotId -> Nat]
  BY RecvSets DEF Recv!TypeOK
<1>4. /\ ~Recv!Held(item[p][f][b]) /\ frameNum[p][f] = b /\ completeNum[p] = f
      /\ \A x \in FrameId : x > f => frameNum[p][x] = 0
      /\ \A q \in SlotId \ {p} : Vacant(q)
  BY <1>2 DEF CacheAt, Filled
<1>5. /\ Recv!NewFrameNum(pkt) = b + 1
      /\ Recv!FrameDone(pkt) <=> done
      /\ Recv!NewCompleteNum(pkt) = f + (IF done THEN 1 ELSE 0)
      /\ Recv!PicDone(pkt) <=> done /\ f = PicBlks - 1
  <2>1. Recv!NewFrameNum(pkt) = b + 1
    BY <1>1, <1>4 DEF Recv!NewFrameNum, Recv!NotRtx
  <2>2. Recv!FrameDone(pkt) <=> done
    BY <1>1, <1>2, <2>1, FrameDoneWhen DEF Recv!FrameDone
  <2>3. Recv!NewCompleteNum(pkt) = f + (IF done THEN 1 ELSE 0)
    BY <1>1, <1>4, <2>2 DEF Recv!NewCompleteNum
  <2> QED BY <1>2, <2>1, <2>2, <2>3, Cut DEF Recv!PicDone
<1>6. Recv!Storable(pkt)
  BY <1>1, <1>2, <1>4, Cut
     DEF Recv!Storable, Recv!WellFormed, Recv!InRange, Recv!TooFast
<1>7. \/ Recv!StoreBlock(pkt) /\ ~(done /\ f = PicBlks - 1)
      \/ Recv!CompletePicture(pkt) /\ done /\ f = PicBlks - 1
  <2>1. ~Recv!StartInfo(pkt) /\ ~Recv!EndInfo(pkt)
    BY <1>1 DEF Recv!StartInfo, Recv!EndInfo
  <2>2. ~Recv!Discard(pkt)  BY <1>6 DEF Recv!Discard, Recv!Storable
  <2>3. Recv!StoreBlock(pkt) \/ Recv!CompletePicture(pkt)
    BY <2>1, <2>2 DEF Recv!Receive
  <2>4. Recv!StoreBlock(pkt) => ~Recv!PicDone(pkt)  BY DEF Recv!StoreBlock
  <2>5. Recv!CompletePicture(pkt) => Recv!PicDone(pkt)  BY DEF Recv!CompletePicture
  <2> QED BY <1>5, <2>3, <2>4, <2>5
<1>8. Recv!Held(rec) /\ rec.src = s
  <2>1. pkt.size > 0  BY <1>1, ConstTypes
  <2> QED BY <1>1, <2>1 DEF Recv!Held
<1>9. stored = [item[p] EXCEPT ![f][b] = rec]
  BY <1>1 DEF Recv!StoredPic
<1> HIDE DEF rec, stored
<1>10. ASSUME NEW x \in FrameId, NEW y \in BlkId
       PROVE  /\ Recv!Held(stored[x][y]) <=> (x < f \/ (x = f /\ y < b + 1))
              /\ Recv!Held(stored[x][y]) => stored[x][y].src = s
  <2>1. x \in Nat /\ y \in Nat  BY Cut DEF FrameId, BlkId
  <2>2. item[p] \in [FrameId -> [BlkId -> Recv!Items]]  BY <1>3
  <2>3. stored[x][y] = IF x = f /\ y = b THEN rec ELSE item[p][x][y]
    BY <1>9, <2>2
  <2>4. /\ Recv!Held(item[p][x][y]) <=> (x < f \/ (x = f /\ y < b))
        /\ Recv!Held(item[p][x][y]) => item[p][x][y].src = s
    BY DEF CacheAt, Filled
  <2>5. CASE x = f /\ y = b  BY <1>2, <1>8, <2>3, <2>5
  <2>6. CASE ~(x = f /\ y = b)
    <3>1. (x < f \/ (x = f /\ y < b)) <=> (x < f \/ (x = f /\ y < b + 1))
      BY <1>2, <2>1, <2>6
    <3> QED BY <2>3, <2>4, <2>6, <3>1
  <2> QED BY <2>5, <2>6
<1>11. CASE Recv!StoreBlock(pkt) /\ ~(done /\ f = PicBlks - 1)
  <2>1. /\ item' = [item EXCEPT ![p] = stored]
        /\ frameNum' = [frameNum EXCEPT ![p][f] = b + 1]
        /\ completeNum' = [completeNum EXCEPT ![p] = f + (IF done THEN 1 ELSE 0)]
        /\ ready' /\ pictures' = pictures
    BY <1>1, <1>5, <1>11 DEF Recv!StoreBlock, stored
  <2>2. /\ item'[p] = stored /\ completeNum'[p] = f + (IF done THEN 1 ELSE 0)
        /\ frameNum'[p] = [frameNum[p] EXCEPT ![f] = b + 1]
        /\ frameNum'[p][f] = b + 1
        /\ \A q \in SlotId \ {p} : /\ item'[q] = item[q] /\ frameNum'[q] = frameNum[q]
                                   /\ completeNum'[q] = completeNum[q]
    BY <1>3, <2>1
  <2>3. (\A q \in SlotId \ {p} : Vacant(q))'
    BY <1>4, <2>2 DEF Vacant
  <2>4. ASSUME NEW x \in FrameId, x > f PROVE frameNum'[p][x] = 0
    <3>1. x # f  BY <1>2, <2>4
    <3> QED BY <1>3, <1>4, <2>2, <2>4, <3>1
  <2>5. CASE ~done
    <3>1. Filled(p, f, b + 1, s)'
      BY <1>2, <1>10, <2>2, <2>4, <2>5 DEF Filled
    <3> QED BY <1>2, <2>1, <2>3, <2>5, <3>1 DEF CacheAt
  <2>6. CASE done /\ f # PicBlks - 1
    <3>1. FramePkts(f) = FrameBlks  BY <2>6, FrameCut
    <3>2. ASSUME NEW x \in FrameId, NEW y \in BlkId
          PROVE  (x < f \/ (x = f /\ y < b + 1)) <=> (x < f + 1 \/ (x = f + 1 /\ y < 0))
      <4>1. x \in Nat /\ y \in Nat /\ y < FrameBlks  BY Cut DEF FrameId, BlkId
      <4> QED BY <1>2, <2>6, <3>1, <4>1
    <3>3. \A x \in FrameId, y \in BlkId :
            /\ Recv!Held(item'[p][x][y]) <=> (x < f + 1 \/ (x = f + 1 /\ y < 0))
            /\ Recv!Held(item'[p][x][y]) => item'[p][x][y].src = s
      BY <1>10, <2>2, <3>2
    <3>4. /\ f + 1 \in FrameId /\ f + 1 > f
          /\ \A x \in FrameId : x > f + 1 => x > f
      BY <1>2, <2>6, Cut DEF FrameId
    <3>5. Filled(p, f + 1, 0, s)'
      BY <2>2, <2>4, <2>6, <3>3, <3>4 DEF Filled
    <3> QED BY <1>2, <2>1, <2>3, <2>6, <3>5 DEF CacheAt
  <2> QED BY <1>11, <2>5, <2>6
<1>12. CASE Recv!CompletePicture(pkt) /\ done /\ f = PicBlks - 1
  <2>1. /\ item' = [item EXCEPT ![p] = Recv!EmptyPic]
        /\ frameNum' = [frameNum EXCEPT ![p] = [x \in FrameId |-> 0]]
        /\ completeNum' = [completeNum EXCEPT ![p] = 0]
        /\ ready' /\ pictures' = Append(pictures, Recv!Image(stored))
    BY <1>1, <1>12, RecvSets DEF Recv!CompletePicture, Recv!FreePicture, stored
  <2>2. (\A q \in SlotId : Vacant(q))'
    <3>1. SUFFICES ASSUME NEW q \in SlotId PROVE Vacant(q)'  OBVIOUS
    <3>2. CASE q = p
      <4>1. /\ item'[q] = Recv!EmptyPic /\ completeNum'[q] = 0
            /\ frameNum'[q] = [x \in FrameId |-> 0]
        BY <1>3, <2>1, <3>2
      <4> QED BY <4>1, EmptyPicType DEF Vacant, Recv!Held
    <3>3. CASE q # p
      <4>1. /\ item'[q] = item[q] /\ completeNum'[q] = completeNum[q]
            /\ frameNum'[q] = frameNum[q]
        BY <1>3, <2>1, <3>3
      <4> QED BY <1>4, <3>3, <4>1 DEF Vacant
    <3> QED BY <3>2, <3>3
  <2>3. Recv!Image(stored) = Copy!Picture(s)
    <3>1. ASSUME NEW c \in ImgBlocks
          PROVE  /\ Recv!Held(stored[c[1]][c[2]])
                 /\ stored[c[1]][c[2]].src = s
      <4>1. c[1] \in FrameId /\ c[2] \in BlkId  BY RecvSets
      <4>2. c[2] < FramePkts(c[1])  BY ImgBlocksSent DEF SentBlocks
      <4>3. c[1] \in Nat /\ c[1] <= PicBlks - 1  BY <4>1, Cut DEF FrameId
      <4>4. c[1] < f \/ (c[1] = f /\ c[2] < b + 1)  BY <1>2, <1>12, <4>2, <4>3, Cut
      <4> QED BY <1>10, <4>1, <4>4
    <3> QED BY <3>1 DEF Recv!Image, Copy!Picture
  <2> QED BY <1>2, <1>12, <2>1, <2>2, <2>3
<1> QED BY <1>7, <1>11, <1>12

LEMMA VacantCache ==
  ASSUME \A q \in SlotId : Vacant(q), NEW p \in SlotId, NEW s
  PROVE  CacheAt(p, 0, 0, s)
<1>1. /\ 0 \in FrameId /\ \A x \in FrameId : x \in Nat /\ ~(x < 0)
      /\ \A y \in BlkId : y \in Nat /\ ~(y < 0)
  BY Cut DEF FrameId, BlkId
<1>2. Vacant(p)  OBVIOUS
<1> QED BY <1>1, <1>2 DEF CacheAt, Filled, Vacant

LEMMA InitCopy == Init => CopyInv
<1> SUFFICES ASSUME Init PROVE CopyInv  OBVIOUS
<1>1. Recv!TypeOK /\ Recv!Init  BY InitReceiver DEF Init
<1>2. /\ wire = <<>> /\ groupId = 0 /\ i = 0 /\ j = 0 /\ sumsize = 0
      /\ phase \in {"picture", "done"}
  BY DEF Init, SenderInit
<1>3. pictures = <<>> /\ Len(pictures) = 0 /\ DOMAIN pictures = {}
  BY <1>1 DEF Recv!Init
<1>4. \A q \in SlotId : Vacant(q)
  BY <1>1, RecvSets, EmptyPicType DEF Recv!Init, Vacant, Recv!Held
<1>5. 0 = ImgSize * 0 /\ DOMAIN wire = {}  BY <1>2, ConstTypes
<1> QED BY <1>1, <1>2, <1>3, <1>4, <1>5 DEF CopyInv, AllReceived, NothingSent

\* With nothing on the wire everything has been received.
LEMMA NothingOnWire ==
  ASSUME CopyInv, wire = <<>>
  PROVE  AllReceived
<1>1. SUFFICES ASSUME OnItsWay PROVE FALSE  BY DEF CopyInv
<1>2. PICK h \in {0, 1}, p \in SlotId, f \in FrameId, b \in BlkId :
        b < FramePkts(f) /\ Carries(h, p, f, b, Len(pictures))
  BY <1>1 DEF OnItsWay
<1>3. FramePkts(f) \in Nat /\ b \in Nat /\ Len(wire) = 0
  BY FrameCut, Cut DEF BlkId
<1> QED BY <1>2, <1>3 DEF Carries

LEMMA ReadCopy ==
  ASSUME SendInv, CopyInv, Read
  PROVE  CopyInv'
<1>1. AllReceived /\ wire = <<>> /\ wire' = wire /\ UNCHANGED cacheVars
  BY NothingOnWire DEF Read, ReadPicture, ReadShort
<1>2. /\ ready' = ready /\ item' = item /\ frameNum' = frameNum
      /\ completeNum' = completeNum /\ pictures' = pictures
  BY <1>1 DEF cacheVars
<1>3. Recv!TypeOK'  BY <1>1 DEF CopyInv, Recv!TypeOK, cacheVars
<1>4. (\A k \in DOMAIN pictures : pictures[k] = Copy!Picture(k - 1))'
  BY <1>2 DEF CopyInv, Copy!Picture
<1>5. DOMAIN wire' = {}  BY <1>1
<1>6. CASE ReadShort
  <2>1. phase' = "done"  BY <1>6 DEF ReadShort
  <2>2. AllReceived'  BY <1>5, <2>1 DEF AllReceived
  <2> QED BY <1>3, <1>4, <2>1, <2>2 DEF CopyInv
<1>7. CASE ReadPicture
  <2>1. /\ phase = "picture" /\ phase' = "frame" /\ j' = 0 /\ i' = i
        /\ groupId' = groupId /\ picId' = picId /\ sumsize' = sumsize + ImgSize
    BY <1>7 DEF ReadPicture
  <2>2. /\ \A q \in SlotId : Vacant(q)
        /\ sumsize = ImgSize * Len(pictures) /\ (ready \/ NothingSent)
    BY <1>1, <2>1 DEF AllReceived
  <2>3. PicSlot \in SlotId  BY SlotType DEF SendInv, Counted
  <2>4. \A p \in SlotId : CacheAt(p, 0, 0, Len(pictures))  BY <2>2, VacantCache
  <2>5. PicSlot' \in SlotId  BY <2>1, <2>3 DEF PicSlot
  <2>6. CacheAt(PicSlot, j, 0, Len(pictures))'
    BY <1>2, <2>1, <2>4, <2>5 DEF CacheAt, Filled, Vacant
  <2>7. (Len(pictures) = Source)'
    <3>1. Len(pictures) \in Nat  BY DEF CopyInv, Recv!TypeOK
    <3>2. sumsize' = ImgSize * (Len(pictures) + 1)
      <4> DEFINE l == Len(pictures)
      <4>1. sumsize' = (ImgSize * l) + ImgSize /\ l \in Nat  BY <2>1, <2>2, <3>1
      <4> HIDE DEF l
      <4>2. ImgSize * (l + 1) = (ImgSize * l) + ImgSize  BY <4>1, ConstTypes
      <4> QED BY <4>1, <4>2 DEF l
    <3>3. sumsize' \div ImgSize = Len(pictures) + 1
      BY <3>1, <3>2, ConstTypes, DivExact
    <3> QED BY <1>2, <3>1, <3>3 DEF Source
  <2>8. ready' \/ NothingSent'  BY <1>2, <2>1, <2>2 DEF NothingSent
  <2>9. AllReceived'  BY <1>5, <2>1, <2>6, <2>7, <2>8 DEF AllReceived
  <2> QED BY <1>3, <1>4, <2>1, <2>9 DEF CopyInv
<1> QED BY <1>6, <1>7 DEF Read

\* A picture whose last frame is sent is one of those that are sent in full.
LEMMA SentEnough ==
  ASSUME Counted, phase = "frame", j = PicBlks - 1, j > 0 => sumsize < total
  PROVE  Source + 1 <= SentPictures
<1> DEFINE k == Source + 1  d == total \div ImgSize  r == total % ImgSize
<1>1. /\ k \in Nat /\ sumsize = ImgSize * k /\ sumsize <= total
      /\ sumsize \in Nat /\ total \in Nat
  BY SourceType
<1>2. d \in Nat /\ r \in 0 .. ImgSize - 1 /\ total = (ImgSize * d) + r
  BY <1>1, ConstTypes, DivMod
<1>3. SentPictures = IF r = 0 /\ total > 0 /\ PicBlks > 1 THEN d - 1 ELSE d
  BY DEF SentPictures
<1>4. k = Source + 1  OBVIOUS
<1> HIDE DEF k, d, r
<1>5. ImgSize * k \in Nat /\ ImgSize * d \in Nat  BY <1>1, <1>2, ConstTypes
<1>6. k <= d
  <2>1. ASSUME d + 1 <= k PROVE FALSE
    <3>1. ImgSize * (d + 1) <= ImgSize * k  BY <1>1, <1>2, <2>1, ConstTypes, MulMonotonic
    <3>2. ImgSize * (d + 1) = (ImgSize * d) + ImgSize  BY <1>2, ConstTypes
    <3> QED BY <1>1, <1>2, <1>5, <3>1, <3>2, ConstTypes
  <2> QED BY <1>1, <1>2, <2>1
<1>7. ASSUME r = 0, PicBlks > 1 PROVE k <= d - 1
  <2>1. ImgSize * k < ImgSize * d  BY <1>1, <1>2, <1>5, <1>7, Cut
  <2>2. k # d  BY <1>5, <2>1
  <2> QED BY <1>1, <1>2, <1>6, <2>2
<1> QED BY <1>3, <1>4, <1>6, <1>7

LEMMA SendFrameCopy ==
  ASSUME FramesNumbered, SendInv, SendInv', CopyInv, phase = "frame", wire = <<>>,
         SendFrame, UNCHANGED cacheVars
  PROVE  CopyInv'
<1>1. FrameOnWire  BY FrameWire DEF SendInv
<1>2. /\ CacheAt(PicSlot, j, 0, Len(pictures)) /\ Len(pictures) = Source
      /\ ready \/ NothingSent
  BY NothingOnWire DEF AllReceived
<1>3. /\ ready' = ready /\ item' = item /\ frameNum' = frameNum
      /\ completeNum' = completeNum /\ pictures' = pictures
  BY DEF cacheVars
<1>4. Recv!TypeOK'  BY DEF CopyInv, Recv!TypeOK, cacheVars
<1>5. (\A k \in DOMAIN pictures : pictures[k] = Copy!Picture(k - 1))'
  BY <1>3 DEF CopyInv, Copy!Picture
<1>6. /\ frameId = j /\ j \in FrameId /\ FramePkts(j) \in Nat \ {0} /\ FirstIdx \in Nat
      /\ PicSlot \in SlotId /\ seqNo \in Nat /\ j \in Nat /\ j <= PicBlks - 1
      /\ HeadLen \in {0, 1} /\ TailLen \in {0, 1} /\ Source \in Nat
      /\ FramePkts(j) <= FrameBlks
  <2>1. /\ frameId = j /\ j \in FrameId /\ FramePkts(j) \in Nat \ {0} /\ FirstIdx \in Nat
    BY SendNumbers DEF SendInv
  <2>2. PicSlot \in SlotId /\ seqNo \in Nat /\ Source \in Nat
    <3>1. PicSlot \in SlotId  BY SlotType DEF SendInv, Counted
    <3>2. seqNo \in Nat  BY ConstTypes DEF SendInv, Counted, SendTypes
    <3>3. Source \in Nat  BY SourceType DEF SendInv
    <3> QED BY <3>1, <3>2, <3>3
  <2>3. j \in Nat /\ j <= PicBlks - 1  BY <2>1, Cut DEF FrameId
  <2>4. FramePkts(j) <= FrameBlks  BY <2>1, FrameCut, Cut
  <2> QED BY <2>1, <2>2, <2>3, <2>4 DEF HeadLen, TailLen
<1>7. /\ total' = total /\ sumsize' = sumsize
      /\ \/ sumsize >= total /\ phase' = "done"
         \/ sumsize < total /\ j = PicBlks - 1 /\ phase' = "picture"
         \/ /\ sumsize < total /\ j' = j + 1 /\ phase' = "frame" /\ picId' = picId
  BY <1>6, Cut DEF SendFrame, EndPicture
<1>8. (phase = "frame" /\ j > 0 => sumsize < total)'  BY <1>7
<1>9. PICK h \in {0, 1}, p \in SlotId, f \in FrameId, s \in Nat :
        h = HeadLen /\ p = PicSlot /\ f = j /\ s = Len(pictures)
  BY <1>2, <1>6
<1>10. Len(wire') = h + FramePkts(f) + TailLen  BY <1>1, <1>9 DEF FrameOnWire
<1>11. h = 1 => IsStart(wire'[1]) /\ f = 0
  <2>1. h = 1 => j = 0 /\ wire'[1] = InfoPkt(1, 0, seqNo)
    BY <1>1, <1>9 DEF FrameOnWire, HeadLen
  <2>2. IsStart(InfoPkt(1, 0, seqNo))
    BY <1>6, InfoPktType DEF IsStart, SendInv, Counted
  <2> QED BY <1>9, <2>1, <2>2
<1>12. ASSUME NEW m \in 1 .. FramePkts(f)
       PROVE  IsBlock(wire'[h + m], p, f, (0 + m) - 1, s)
  <2>1. wire'[h + m] = DataPkt(m - 1, FirstIdx + m - 1)
    BY <1>1, <1>9 DEF FrameOnWire
  <2>2. (0 + m) - 1 = m - 1  BY <1>6, <1>9
  <2>3. \A x, y : IsBlock(DataPkt(y, x), PicSlot, j, y, Source)
    BY <1>6 DEF IsBlock, DataPkt
  <2> QED BY <1>2, <1>9, <2>1, <2>2, <2>3
<1>13. ASSUME NEW n \in DOMAIN wire', n > h + FramePkts(f)
       PROVE  IsEnd(wire'[n]) /\ phase' = "done"
  <2>1. n \in 1 .. Len(wire')  BY <1>1, LenProperties DEF FrameOnWire
  <2>2. TailLen = 1 /\ n = h + FramePkts(f) + 1
    BY <1>6, <1>9, <1>10, <1>13, <2>1
  <2>3. wire'[n] = fileTail'  BY <1>1, <1>9, <2>2 DEF FrameOnWire
  <2>4. IsEnd(fileTail')  BY DEF SendInv, Counted, InfoPackets, IsEnd
  <2>5. sumsize >= total /\ sumsize \in Nat /\ total \in Nat
    BY <2>2, SourceType DEF TailLen, SendInv
  <2> QED BY <1>7, <2>3, <2>4, <2>5
<1>14. Carries(h, p, f, 0, s)'
  <2>1. FramePkts(f) - 0 = FramePkts(f) /\ h + FramePkts(f) <= Len(wire')
    BY <1>6, <1>9, <1>10
  <2> QED BY <1>11, <1>12, <1>13, <2>1 DEF Carries
<1>15. CacheAt(p, f, 0, s)'
  BY <1>2, <1>3, <1>9 DEF CacheAt, Filled, Vacant
<1>16. h = 0 => ready'
  BY <1>2, <1>3, <1>9 DEF NothingSent, HeadLen
<1>17. GoesOn(p, f, s)'
  <2>1. sumsize = ImgSize * (s + 1)  BY <1>2, <1>9, SourceType DEF SendInv
  <2> QED BY <1>2, <1>7, <1>9, <2>1 DEF GoesOn, PicSlot, Source
<1>18. (f = PicBlks - 1 => Len(pictures) + 1 <= SentPictures)'
  <2>1. f = PicBlks - 1 => s + 1 <= SentPictures
    BY <1>2, <1>9, SentEnough DEF SendInv, CopyInv
  <2>2. SentPictures' = SentPictures  BY <1>7 DEF SentPictures
  <2> QED BY <1>3, <1>9, <2>1, <2>2
<1>19. OnItsWay'
  <2>1. 0 \in BlkId /\ 0 < FramePkts(f)  BY <1>6, <1>9, Cut DEF BlkId
  <2>2. s = Len(pictures')  BY <1>3, <1>9
  <2> QED BY <1>14, <1>15, <1>16, <1>17, <1>18, <2>1, <2>2 DEF OnItsWay
<1> QED BY <1>4, <1>5, <1>8, <1>19 DEF CopyInv

LEMMA AppendPicture ==
  ASSUME NEW S, NEW o \in Seq(S), NEW q, q = Append(o, Copy!Picture(Len(o))),
         \A k \in DOMAIN o : o[k] = Copy!Picture(k - 1)
  PROVE  /\ Len(q) = Len(o) + 1
         /\ \A k \in DOMAIN q : q[k] = Copy!Picture(k - 1)
<1>1. /\ Len(q) = Len(o) + 1 /\ Len(o) \in Nat /\ DOMAIN o = 1 .. Len(o)
      /\ DOMAIN q = 1 .. Len(o) + 1 /\ q[Len(o) + 1] = Copy!Picture(Len(o))
      /\ \A k \in 1 .. Len(o) : q[k] = o[k]
  OBVIOUS
<1>2. ASSUME NEW k \in 1 .. Len(o) + 1 PROVE q[k] = Copy!Picture(k - 1)
  <2>1. CASE k \in 1 .. Len(o)  BY <1>1, <2>1
  <2>2. CASE k = Len(o) + 1
    <3>1. k - 1 = Len(o)  BY <1>1, <2>2
    <3> QED BY <1>1, <2>2, <3>1
  <2> QED BY <1>1, <2>1, <2>2
<1> QED BY <1>1, <1>2

LEMMA DeliverCopy ==
  ASSUME TailCompletes, SendInv, CopyInv, Deliver
  PROVE  CopyInv'
<1>1. /\ wire \in Seq(Packet) /\ wire # <<>> /\ wire' = Tail(wire)
      /\ UNCHANGED sendVars /\ Recv!Receive(Head(wire))
  BY DEF Deliver, SendInv, Counted, SendTypes
<1>2. /\ wire' \in Seq(Packet) /\ Len(wire') = Len(wire) - 1 /\ Len(wire) \in Nat
      /\ \A n \in 1 .. Len(wire) - 1 :
           wire'[n] = wire[n + 1] /\ n + 1 \in 1 .. Len(wire)
      /\ Head(wire) = wire[1] /\ 1 \in 1 .. Len(wire) /\ wire[1] \in Packet
      /\ DOMAIN wire = 1 .. Len(wire) /\ DOMAIN wire' = 1 .. Len(wire) - 1
  <2>1. /\ wire' \in Seq(Packet) /\ Len(wire') = Len(wire) - 1 /\ Len(wire) \in Nat
        /\ \A n \in 1 .. Len(wire) - 1 :
             wire'[n] = wire[n + 1] /\ n + 1 \in 1 .. Len(wire)
        /\ Head(wire) = wire[1] /\ 1 \in 1 .. Len(wire)
    BY <1>1, TailOf
  <2>2. DOMAIN wire = 1 .. Len(wire) /\ DOMAIN wire' = 1 .. Len(wire')
    BY <1>1, <2>1, LenProperties
  <2>3. wire[1] \in Packet  BY <1>1, <2>1, ElementOfSeq
  <2> QED BY <2>1, <2>2, <2>3
<1>3. Recv!TypeOK'  BY <1>1, <1>2, ReceiveType DEF CopyInv
<1>4. /\ total' = total /\ phase' = phase /\ sumsize' = sumsize /\ i' = i /\ j' = j
      /\ picId' = picId /\ groupId' = groupId
      /\ PicSlot' = PicSlot /\ Source' = Source /\ SentPictures' = SentPictures
  BY <1>1 DEF sendVars, PicSlot, Source, SentPictures
<1>5. (phase = "frame" /\ j > 0 => sumsize < total)'  BY <1>4 DEF CopyInv
<1>6. ASSUME pictures' = pictures
      PROVE  (\A k \in DOMAIN pictures : pictures[k] = Copy!Picture(k - 1))'
  BY <1>6 DEF CopyInv, Copy!Picture
<1>7. CASE AllReceived
  <2>1. IsEnd(wire[1]) /\ phase = "done"  BY <1>2, <1>7 DEF AllReceived
  <2>2. pictures' = pictures  BY <1>1, <1>2, <2>1, EndReceived
  <2>3. AllReceived'  BY <1>2, <1>4, <1>7, <2>1 DEF AllReceived, IsEnd
  <2> QED BY <1>3, <1>5, <1>6, <2>2, <2>3 DEF CopyInv
<1>8. CASE OnItsWay
  <2>1. PICK h \in {0, 1}, p \in SlotId, f \in FrameId, b \in BlkId :
          /\ b < FramePkts(f) /\ Carries(h, p, f, b, Len(pictures))
          /\ CacheAt(p, f, b, Len(pictures)) /\ (h = 0 => ready)
          /\ GoesOn(p, f, Len(pictures))
          /\ f = PicBlks - 1 => Len(pictures) + 1 <= SentPictures
    BY <1>8 DEF OnItsWay
  <2>2. PICK s \in Nat : s = Len(pictures)  BY DEF CopyInv, Recv!TypeOK
  <2>3. /\ b \in Nat /\ f \in Nat /\ FramePkts(f) \in Nat /\ FramePkts(f) <= FrameBlks
        /\ f <= PicBlks - 1
    BY FrameCut, Cut DEF BlkId, FrameId
  <2> DEFINE left == FramePkts(f) - b
  <2>4. left \in Nat \ {0}  BY <2>1, <2>3
  <2>5. /\ h + left <= Len(wire)
        /\ h = 1 => IsStart(wire[1]) /\ f = 0 /\ b = 0
        /\ \A m \in 1 .. left : IsBlock(wire[h + m], p, f, (b + m) - 1, s)
        /\ \A n \in 1 .. Len(wire) : n > h + left => IsEnd(wire[n]) /\ phase = "done"
    BY <1>2, <2>1, <2>2 DEF Carries
  <2>6. GoesOn(p, f, s)'  BY <1>4, <2>1, <2>2 DEF GoesOn
  <2> HIDE DEF left
  <2>7. CASE h = 1
    <3>1. IsStart(wire[1]) /\ f = 0 /\ b = 0  BY <2>5, <2>7
    <3>2. ready' /\ pictures' = pictures /\ (\A q \in SlotId : Vacant(q))'
      BY <1>1, <1>2, <3>1, StartReceived
    <3>3. CacheAt(p, f, b, s)'
      <4>1. /\ 0 \in FrameId /\ \A x \in FrameId : x \in Nat /\ ~(x < 0)
            /\ \A y \in BlkId : y \in Nat /\ ~(y < 0)
        BY Cut DEF FrameId, BlkId
      <4> QED BY <3>1, <3>2, <4>1 DEF CacheAt, Filled, Vacant
    <3>4. \A m \in 1 .. left : wire'[0 + m] = wire[h + m]
      <4>1. ASSUME NEW m \in 1 .. left PROVE wire'[0 + m] = wire[h + m]
        <5>1. m \in 1 .. Len(wire) - 1 /\ 0 + m = m /\ h + m = m + 1
          BY <1>2, <2>4, <2>5, <2>7
        <5> QED BY <1>2, <5>1
      <4> QED BY <4>1
    <3>5. \A n \in 1 .. Len(wire) - 1 :
            n > 0 + left => IsEnd(wire'[n]) /\ phase' = "done"
      <4>1. ASSUME NEW n \in 1 .. Len(wire) - 1, n > 0 + left
            PROVE  IsEnd(wire'[n]) /\ phase' = "done"
        <5>1. n + 1 \in 1 .. Len(wire) /\ n + 1 > h + left /\ wire'[n] = wire[n + 1]
          BY <1>2, <2>4, <2>7, <4>1
        <5> QED BY <1>4, <2>5, <5>1
      <4> QED BY <4>1
    <3>6. Carries(0, p, f, b, s)'
      <4>1. 0 + left <= Len(wire')  BY <1>2, <2>4, <2>5, <2>7
      <4> QED BY <1>2, <2>5, <3>4, <3>5, <4>1 DEF Carries, left, IsBlock, IsEnd
    <3>7. OnItsWay'
      BY <1>4, <2>1, <2>2, <2>6, <3>2, <3>3, <3>6 DEF OnItsWay
    <3> QED BY <1>3, <1>5, <1>6, <3>2, <3>7 DEF CopyInv
  <2>8. CASE h = 0
    <3>1. /\ ready /\ IsBlock(wire[1], p, f, b, s)
      <4>1. 1 \in 1 .. left /\ h + 1 = 1 /\ (b + 1) - 1 = b  BY <2>3, <2>4, <2>8
      <4> QED BY <2>1, <2>5, <2>8, <4>1
    <3>2. /\ ready'
          /\ b + 1 < FramePkts(f) => CacheAt(p, f, b + 1, s)' /\ pictures' = pictures
          /\ b + 1 = FramePkts(f) /\ f # PicBlks - 1 =>
               CacheAt(p, f + 1, 0, s)' /\ pictures' = pictures
          /\ b + 1 = FramePkts(f) /\ f = PicBlks - 1 =>
               /\ (\A q \in SlotId : Vacant(q))'
               /\ pictures' = Append(pictures, Copy!Picture(s))
      BY <1>1, <1>2, <2>1, <2>2, <3>1, BlockReceived DEF CopyInv
    <3>3. ASSUME b + 1 = FramePkts(f), NEW n \in 1 .. Len(wire) - 1
          PROVE  IsEnd(wire'[n]) /\ phase' = "done"
      <4>1. n + 1 \in 1 .. Len(wire) /\ n + 1 > h + left /\ wire'[n] = wire[n + 1]
        BY <1>2, <2>3, <2>8, <3>3 DEF left
      <4> QED BY <1>4, <2>5, <4>1
    <3>4. CASE b + 1 < FramePkts(f)
      <4>1. /\ b + 1 \in BlkId /\ FramePkts(f) - (b + 1) = left - 1
        BY <2>3, <3>4, Cut DEF BlkId, left
      <4>2. ASSUME NEW m \in 1 .. left - 1
            PROVE  IsBlock(wire'[0 + m], p, f, ((b + 1) + m) - 1, s)
        <5>1. /\ m + 1 \in 1 .. left /\ m \in 1 .. Len(wire) - 1 /\ 0 + m = m
              /\ h + (m + 1) = m + 1 /\ (b + (m + 1)) - 1 = ((b + 1) + m) - 1
          BY <1>2, <2>3, <2>4, <2>5, <2>8
        <5>2. wire'[0 + m] = wire[h + (m + 1)]  BY <1>2, <5>1
        <5> QED BY <2>5, <5>1, <5>2
      <4>3. ASSUME NEW n \in 1 .. Len(wire) - 1, n > 0 + (left - 1)
            PROVE  IsEnd(wire'[n]) /\ phase' = "done"
        <5>1. n + 1 \in 1 .. Len(wire) /\ n + 1 > h + left /\ wire'[n] = wire[n + 1]
          BY <1>2, <2>4, <2>8, <4>3
        <5> QED BY <1>4, <2>5, <5>1
      <4>4. 0 + (left - 1) <= Len(wire')  BY <1>2, <2>4, <2>5, <2>8
      <4>5. Carries(0, p, f, b + 1, s)'
        BY <1>2, <4>1, <4>2, <4>3, <4>4 DEF Carries, IsBlock, IsEnd
      <4>6. OnItsWay'
        BY <1>4, <2>1, <2>2, <2>6, <3>2, <3>4, <4>1, <4>5 DEF OnItsWay
      <4> QED BY <1>3, <1>5, <1>6, <3>2, <3>4, <4>6 DEF CopyInv
    <3>5. CASE b + 1 = FramePkts(f) /\ f # PicBlks - 1
      <4>1. phase' = "frame" => j' = f + 1 /\ PicSlot' = p /\ Source' = s
        BY <2>6, <3>5 DEF GoesOn
      <4>2. phase' # "picture"  BY <2>6, <3>5 DEF GoesOn
      <4>3. phase' = "frame" => CacheAt(PicSlot, j, 0, Len(pictures))'
        BY <2>2, <3>2, <3>5, <4>1 DEF CacheAt, Filled, Vacant
      <4>4. AllReceived'
        BY <1>2, <2>2, <3>2, <3>3, <3>5, <4>1, <4>2, <4>3 DEF AllReceived
      <4> QED BY <1>3, <1>5, <1>6, <3>2, <3>5, <4>4 DEF CopyInv
    <3>6. CASE b + 1 = FramePkts(f) /\ f = PicBlks - 1
      <4>1. /\ (\A q \in SlotId : Vacant(q))' /\ ready'
            /\ pictures' = Append(pictures, Copy!Picture(s))
        BY <3>2, <3>6
      <4>2. /\ Len(pictures') = s + 1
            /\ \A k \in DOMAIN pictures' : pictures'[k] = Copy!Picture(k - 1)
        BY <2>2, <4>1, AppendPicture DEF CopyInv, Recv!TypeOK
      <4>3. phase' # "frame"
        <5>1. j \in 0 .. PicBlks - 1  BY DEF SendInv, Counted, SendTypes, FrameId
        <5> QED BY <1>4, <2>3, <2>6, <3>6, <5>1, Cut DEF GoesOn
      <4>4. phase' = "picture" => sumsize' = ImgSize * (s + 1)
        BY <2>6 DEF GoesOn
      <4>5. AllReceived'
        BY <1>2, <3>3, <3>6, <4>1, <4>2, <4>3, <4>4 DEF AllReceived
      <4>6. (\A k \in DOMAIN pictures : pictures[k] = Copy!Picture(k - 1))'
        BY <4>2 DEF Copy!Picture
      <4> QED BY <1>3, <1>5, <4>5, <4>6 DEF CopyInv
    <3> QED BY <2>1, <2>3, <3>4, <3>5, <3>6
  <2> QED BY <2>7, <2>8
<1> QED BY <1>7, <1>8 DEF CopyInv

LEMMA StepCopy ==
  FramesNumbered /\ TailCompletes /\ SendInv /\ SendInv' /\ CopyInv /\ [Next]_vars
    => CopyInv'
<1> SUFFICES ASSUME FramesNumbered, TailCompletes, SendInv, SendInv', CopyInv,
                    [Next]_vars
             PROVE  CopyInv'
  OBVIOUS
<1>1. CASE Read  BY <1>1, ReadCopy
<1>2. CASE Packetise
  <2>1. wire = <<>> /\ SendFrame /\ phase = "frame" /\ UNCHANGED cacheVars
    BY <1>2 DEF Packetise, SendFrame
  <2> QED BY <2>1, SendFrameCopy
<1>3. CASE Deliver  BY <1>3, DeliverCopy
<1>4. CASE UNCHANGED vars
  <2>1. OnItsWay => OnItsWay'
    <3>1. /\ wire' = wire /\ phase' = phase /\ sumsize' = sumsize /\ total' = total
          /\ j' = j /\ picId' = picId /\ ready' = ready /\ pictures' = pictures
          /\ item' = item /\ frameNum' = frameNum /\ completeNum' = completeNum
      BY <1>4 DEF vars, sendVars, cacheVars
    <3>2. ASSUME NEW p, NEW f, NEW b, NEW s
          PROVE  CacheAt(p, f, b, s)' = CacheAt(p, f, b, s)
      BY <3>1 DEF CacheAt, Filled, Vacant
    <3>3. ASSUME NEW h, NEW p, NEW f, NEW b, NEW s
          PROVE  Carries(h, p, f, b, s)' = Carries(h, p, f, b, s)
      BY <3>1 DEF Carries
    <3>4. ASSUME NEW p, NEW f, NEW s PROVE GoesOn(p, f, s)' = GoesOn(p, f, s)
      BY <3>1 DEF GoesOn, PicSlot, Source
    <3> QED BY <3>1, <3>2, <3>3, <3>4 DEF OnItsWay, SentPictures
  <2>2. AllReceived => AllReceived'
    BY <1>4 DEF AllReceived, CacheAt, Filled, Vacant, PicSlot, Source, NothingSent,
                vars, sendVars, cacheVars
  <2>3. Recv!TypeOK'  BY <1>4 DEF CopyInv, Recv!TypeOK, vars, cacheVars
  <2>4. (/\ phase = "frame" /\ j > 0 => sumsize < total
         /\ \A k \in DOMAIN pictures : pictures[k] = Copy!Picture(k - 1))'
    BY <1>4 DEF CopyInv, Copy!Picture, vars, sendVars, cacheVars
  <2> QED BY <2>1, <2>2, <2>3, <2>4 DEF CopyInv
<1> QED BY <1>1, <1>2, <1>3, <1>4 DEF Next

\* What is on the wire and in the slots says which pictures have come out, for
\* every file and every geometry whose tails complete their frames.
THEOREM CopyInvariant == FramesNumbered /\ TailCompletes => (Spec => []CopyInv)
<1> SUFFICES ASSUME FramesNumbered, TailCompletes PROVE Spec => []CopyInv
  OBVIOUS
<1>1. Init => CopyInv  BY InitCopy
<1>2. SendInv /\ SendInv' /\ CopyInv /\ [Next]_vars => CopyInv'  BY StepCopy
<1>3. Spec => []SendInv  BY SenderInvariant
<1> QED BY <1>1, <1>2, <1>3, PTL DEF Spec

LEMMA SentCount == ASSUME Counted PROVE SentPictures \in Nat
<1> DEFINE d == total \div ImgSize
<1>1. total \in Nat /\ d \in Nat  BY ConstTypes, DivMod DEF Counted, SendTypes
<1>2. total = (ImgSize * d) + (total % ImgSize)  BY <1>1, ConstTypes, DivMod
<1>3. total % ImgSize = 0 /\ total > 0 => d # 0  BY <1>1, <1>2, ConstTypes
<1> QED BY <1>1, <1>3 DEF SentPictures

LEMMA SentType == ASSUME SendInv PROVE SentPictures \in Nat
BY SentCount DEF SendInv

\* A step that brings out something brings out the next picture of the file.
LEMMA DeliverNext ==
  ASSUME TailCompletes, SendInv, CopyInv, Deliver
  PROVE  pictures' = pictures \/ Copy!Copy
<1>1. /\ wire \in Seq(Packet) /\ wire # <<>> /\ UNCHANGED sendVars
      /\ Recv!Receive(Head(wire))
  BY DEF Deliver, SendInv, Counted, SendTypes
<1>2. /\ Head(wire) = wire[1] /\ wire[1] \in Packet /\ Len(wire) \in Nat \ {0}
      /\ DOMAIN wire = 1 .. Len(wire)
  BY <1>1, TailOf, ElementOfSeq, LenProperties, EmptySeq
<1>3. SentPictures' = SentPictures  BY <1>1 DEF sendVars, SentPictures
<1>4. CASE AllReceived
  <2>1. IsEnd(wire[1])  BY <1>2, <1>4 DEF AllReceived
  <2> QED BY <1>1, <1>2, <2>1, EndReceived
<1>5. CASE OnItsWay
  <2>1. PICK h \in {0, 1}, p \in SlotId, f \in FrameId, b \in BlkId :
          /\ b < FramePkts(f) /\ Carries(h, p, f, b, Len(pictures))
          /\ CacheAt(p, f, b, Len(pictures)) /\ (h = 0 => ready)
          /\ f = PicBlks - 1 => Len(pictures) + 1 <= SentPictures
    BY <1>5 DEF OnItsWay
  <2>2. PICK s \in Nat : s = Len(pictures)  BY DEF CopyInv, Recv!TypeOK
  <2>3. b \in Nat /\ FramePkts(f) \in Nat  BY FrameCut, Cut DEF BlkId
  <2>4. CASE h = 1
    <3>1. IsStart(wire[1])  BY <2>1, <2>4 DEF Carries
    <3> QED BY <1>1, <1>2, <3>1, StartReceived
  <2>5. CASE h = 0
    <3>1. ready /\ IsBlock(wire[1], p, f, b, s)
      <4>1. 1 \in 1 .. FramePkts(f) - b /\ h + 1 = 1 /\ (b + 1) - 1 = b
        BY <2>1, <2>3, <2>5
      <4> QED BY <2>1, <2>2, <2>5, <4>1 DEF Carries
    <3>2. /\ b + 1 < FramePkts(f) => pictures' = pictures
          /\ b + 1 = FramePkts(f) /\ f # PicBlks - 1 => pictures' = pictures
          /\ b + 1 = FramePkts(f) /\ f = PicBlks - 1 =>
               pictures' = Append(pictures, Copy!Picture(s))
      BY <1>1, <1>2, <2>1, <2>2, <3>1, BlockReceived DEF CopyInv
    <3>3. CASE b + 1 = FramePkts(f) /\ f = PicBlks - 1
      <4>1. Len(pictures) < SentPictures
        <5>1. SentPictures \in Int  BY SentType
        <5> QED BY <2>1, <2>2, <3>3, <5>1
      <4> QED BY <1>3, <2>2, <3>2, <3>3, <4>1 DEF Copy!Copy
    <3> QED BY <2>1, <2>3, <3>2, <3>3
  <2> QED BY <2>4, <2>5
<1> QED BY <1>4, <1>5 DEF CopyInv

\* call_test's loopback does what FileCopy promises, but for that it does it in
\* the end: one by one, each whole, in the order of the file, the pictures sent
\* in full come out, and nothing else does.
THEOREM CopiesInOrder == FramesNumbered /\ TailCompletes => (Spec => Copy!Safety)
<1> SUFFICES ASSUME FramesNumbered, TailCompletes PROVE Spec => Copy!Safety
  OBVIOUS
<1>1. Init => Copy!Init
  <2>1. SUFFICES ASSUME Init PROVE Copy!Init  OBVIOUS
  <2>2. pictures = <<>>  BY <2>1 DEF Init, Recv!Init
  <2>3. SentPictures \in Nat  BY <2>1, InitSend, SentType
  <2> QED BY <2>2, <2>3 DEF Copy!Init
<1>2. SendInv /\ CopyInv /\ [Next]_vars =>
        [Copy!Copy]_<<IF TailCompletes THEN SentPictures ELSE 0, pictures>>
  <2>1. SUFFICES ASSUME SendInv, CopyInv, [Next]_vars
                 PROVE  \/ Copy!Copy
                        \/ pictures' = pictures /\ SentPictures' = SentPictures
    OBVIOUS
  <2>2. total' = total
    BY <2>1 DEF Next, Read, ReadPicture, ReadShort, Packetise, SendFrame, Deliver,
                vars, sendVars
  <2>3. SentPictures' = SentPictures  BY <2>2 DEF SentPictures
  <2>4. CASE Deliver  BY <2>1, <2>3, <2>4, DeliverNext
  <2>5. CASE ~Deliver
    <3>1. pictures' = pictures
      BY <2>1, <2>5 DEF Next, Read, Packetise, vars, cacheVars
    <3> QED BY <2>3, <3>1
  <2> QED BY <2>4, <2>5
<1>3. Spec => []SendInv /\ []CopyInv  BY SenderInvariant, CopyInvariant, PTL
<1> QED BY <1>1, <1>2, <1>3, PTL DEF Spec, Copy!Safety

-----------------------------------------------------------------------------
(* The slots. *)

\* pic_id wraps where a group does.
GroupsWrap == IdMod % GroupBlks = 0

LEMMA ModOf ==
  ASSUME NEW b \in Nat \ {0}, NEW k \in Nat, NEW r \in 0 .. b - 1
  PROVE  ((b * k) + r) % b = r
<1>1. (b * k) + r \in Nat  OBVIOUS
<1> QED BY <1>1, DivMod, DivModOnce

\* The next id takes the next place of the group, or the first one of the next.
LEMMA NextPlace ==
  ASSUME GroupsWrap, NEW x \in 0 .. IdMod - 1
  PROVE  ((x + 1) % IdMod) % GroupBlks
           = IF (x % GroupBlks) + 1 = GroupBlks THEN 0 ELSE (x % GroupBlks) + 1
<1> DEFINE g == GroupBlks  q == x \div GroupBlks  y == x % GroupBlks
           w == IdMod \div GroupBlks
<1>1. g \in Nat \ {0} /\ IdMod \in Nat \ {0} /\ x \in Nat /\ x < IdMod
  BY Cut, ConstTypes
<1>2. q \in Nat /\ y \in 0 .. g - 1 /\ x = (g * q) + y  BY <1>1, DivMod
<1>3. w \in Nat /\ IdMod = (g * w)
  <2>1. w \in Nat /\ IdMod = (g * w) + (IdMod % g)  BY <1>1, DivMod
  <2>2. IdMod % g = 0 /\ g * w \in Nat  BY <1>1, <2>1 DEF GroupsWrap
  <2> QED BY <2>1, <2>2
<1> HIDE DEF g, q, y, w
<1>4. 0 % g = 0  BY <1>1
<1>5. (g * q) \in Nat /\ g * (q + 1) = (g * q) + g  BY <1>1, <1>2
<1>6. CASE x + 1 < IdMod
  <2>1. (x + 1) % IdMod = x + 1  BY <1>1, <1>6
  <2>2. CASE y + 1 = g
    <3>1. x + 1 = (g * (q + 1)) + 0  BY <1>1, <1>2, <1>5, <2>2
    <3>2. (x + 1) % g = 0
      <4>1. q + 1 \in Nat /\ 0 \in 0 .. g - 1  BY <1>1, <1>2
      <4> QED BY <1>1, <3>1, <4>1, ModOf
    <3> QED BY <2>1, <2>2, <3>2 DEF g, y
  <2>3. CASE y + 1 # g
    <3>1. x + 1 = (g * q) + (y + 1) /\ y + 1 \in 0 .. g - 1
      BY <1>1, <1>2, <1>5, <2>3
    <3>2. (x + 1) % g = y + 1  BY <1>1, <1>2, <3>1, ModOf
    <3> QED BY <2>1, <2>3, <3>2 DEF g, y
  <2> QED BY <2>2, <2>3
<1>7. CASE x + 1 = IdMod
  <2>1. (x + 1) % IdMod = 0  BY <1>1, <1>7
  <2>2. y + 1 = g
    <3>1. w # 0  BY <1>1, <1>3
    <3>2. PICK v \in Nat : w = v + 1  BY <1>3, <3>1
    <3>3. g * w = (g * v) + g /\ g * v \in Nat  BY <1>1, <3>2
    <3>4. x = (g * v) + (g - 1) /\ g - 1 \in 0 .. g - 1
      BY <1>1, <1>3, <1>7, <3>3
    <3>5. x % g = g - 1  BY <1>1, <3>2, <3>4, ModOf
    <3> QED BY <1>1, <3>5 DEF g, y
  <2> QED BY <1>4, <2>1, <2>2 DEF g, y
<1> QED BY <1>1, <1>6, <1>7

\* obj->pic_id names the place of the picture in its group.
InPlace == phase # "done" => PicSlot = i

LEMMA StepInPlace ==
  ASSUME GroupsWrap, SendInv, InPlace, [Next]_vars
  PROVE  InPlace'
<1>1. picId \in 0 .. IdMod - 1 /\ i \in SlotId  BY DEF SendInv, Counted, SendTypes
<1>2. CASE Read
  BY <1>2 DEF Read, ReadPicture, ReadShort, InPlace, PicSlot
<1>3. CASE Packetise
  <2>1. phase = "frame"  BY <1>3 DEF Packetise, SendFrame
  <2>2. picId % GroupBlks = i  BY <2>1 DEF InPlace, PicSlot
  <2>3. \/ phase' = "done"
        \/ /\ picId' = (picId + 1) % IdMod
           /\ i' = IF i + 1 = GroupBlks THEN 0 ELSE i + 1
        \/ i' = i /\ picId' = picId
    BY <1>3 DEF Packetise, SendFrame, EndPicture, LastOfGroup
  <2>4. ((picId + 1) % IdMod) % GroupBlks
           = IF i + 1 = GroupBlks THEN 0 ELSE i + 1
    BY <1>1, <2>2, NextPlace
  <2> QED BY <2>2, <2>3, <2>4 DEF InPlace, PicSlot
<1>4. CASE Deliver  BY <1>4 DEF Deliver, sendVars, InPlace, PicSlot
<1>5. CASE UNCHANGED vars  BY <1>5 DEF vars, sendVars, InPlace, PicSlot
<1> QED BY <1>2, <1>3, <1>4, <1>5 DEF Next

\* A picture goes to the slot of its place in the group, however often pic_id
\* has wrapped, and finds no block of an earlier picture there.
THEOREM SlotsAreFree == FramesNumbered /\ GroupsWrap => (Spec => []SlotsFree)
<1> SUFFICES ASSUME FramesNumbered, GroupsWrap PROVE Spec => []SlotsFree
  OBVIOUS
<1>1. Init => InPlace
  <2>1. SUFFICES ASSUME Init PROVE InPlace  OBVIOUS
  <2>2. picId = 0 /\ i = 0 /\ 0 % GroupBlks = 0
    BY <2>1, Cut DEF Init, SenderInit
  <2> QED BY <2>2 DEF InPlace, PicSlot
<1>2. SendInv /\ InPlace /\ [Next]_vars => InPlace'  BY StepInPlace
<1>3. Spec => []SendInv  BY SenderInvariant
<1>4. Spec => []InPlace  BY <1>1, <1>2, <1>3, PTL DEF Spec
<1>5. CASE TailCompletes
  <2>1. Spec => []CopyInv  BY <1>5, CopyInvariant
  <2>2. InPlace /\ CopyInv => SlotsFree
    <3>1. SUFFICES ASSUME InPlace, CopyInv, wire = <<>>, phase = "picture"
                   PROVE  \A q \in SlotId : Vacant(q)
      BY DEF InPlace, SlotsFree, Vacant
    <3> QED BY <3>1, NothingOnWire DEF AllReceived
  <2> QED BY <1>4, <2>1, <2>2, PTL
<1>6. CASE ~TailCompletes
  <2>1. InPlace => SlotsFree  BY <1>6 DEF InPlace, SlotsFree
  <2> QED BY <1>4, <2>1, PTL
<1> QED BY <1>5, <1>6

-----------------------------------------------------------------------------
(* The copies that the sender keeps. *)

\* What call_test's counters say of the file: between two pictures, how many
\* have been sent, each of them with all its frames, and within one, its number.
Placed ==
  /\ phase = "picture" => /\ sumsize \div ImgSize = (GroupBlks * groupId) + i
                          /\ sumsize > 0 => j = PicBlks - 1
  /\ phase = "frame" => Source = (GroupBlks * groupId) + i

\* A picture read is one picture more, a part of one is none.
LEMMA ReadCount ==
  ASSUME Counted
  PROVE  /\ sumsize \div ImgSize \in Nat
         /\ ReadPicture => sumsize' \div ImgSize = (sumsize \div ImgSize) + 1
         /\ ReadShort => sumsize' \div ImgSize = sumsize \div ImgSize
<1> DEFINE k == sumsize \div ImgSize
<1>1. sumsize \in Nat /\ total \in Nat /\ ImgSize \in Nat \ {0}
  BY ConstTypes DEF Counted, SendTypes
<1>2. k \in Nat  BY <1>1, DivMod
<1>3. phase = "picture" => sumsize = (ImgSize * k)  BY DEF Counted, SentSoFar
<1> HIDE DEF k
<1>4. ImgSize * (k + 1) = (ImgSize * k) + ImgSize  BY <1>1, <1>2
<1>5. ASSUME ReadPicture PROVE sumsize' \div ImgSize = k + 1
  <2>1. sumsize' = (ImgSize * (k + 1))  BY <1>3, <1>4, <1>5 DEF ReadPicture
  <2> QED BY <1>1, <1>2, <2>1, DivExact
<1>6. ASSUME ReadShort PROVE sumsize' \div ImgSize = k
  <2>1. /\ sumsize' = total /\ sumsize < total /\ total < sumsize + ImgSize
        /\ sumsize = (ImgSize * k)
    BY <1>1, <1>3, <1>6 DEF ReadShort
  <2> DEFINE r == total - sumsize
  <2>2. r \in 0 .. ImgSize - 1 /\ total = (ImgSize * k) + r  BY <1>1, <2>1
  <2> HIDE DEF r
  <2>3. /\ total \div ImgSize \in Nat /\ total % ImgSize \in 0 .. ImgSize - 1
        /\ total = (ImgSize * (total \div ImgSize)) + (total % ImgSize)
    BY <1>1, DivMod
  <2>4. k = total \div ImgSize  BY <1>1, <1>2, <2>2, <2>3, DivModOnce
  <2> QED BY <2>1, <2>4
<1> QED BY <1>2, <1>5, <1>6 DEF k

LEMMA StepPlaced ==
  ASSUME SendInv, Placed, [Next]_vars
  PROVE  Placed'
<1>1. /\ Counted /\ i \in Nat /\ groupId \in Nat /\ sumsize \in Nat
      /\ GroupBlks \in Nat \ {0}
  BY Cut, ConstTypes DEF SendInv, Counted, SendTypes, SlotId
<1>2. CASE Read
  <2>1. CASE ReadPicture
    <3>1. sumsize' \div ImgSize = (sumsize \div ImgSize) + 1
          /\ sumsize \div ImgSize \in Nat
      BY <1>1, <2>1, ReadCount
    <3>2. Source' = sumsize \div ImgSize  BY <3>1 DEF Source
    <3> QED BY <2>1, <3>2 DEF Placed, ReadPicture
  <2>2. CASE ReadShort  BY <2>2 DEF Placed, ReadShort
  <2> QED BY <1>2, <2>1, <2>2 DEF Read
<1>3. CASE Packetise
  <2>1. phase = "frame" /\ sumsize' = sumsize
    BY <1>3 DEF Packetise, SendFrame
  <2>2. Source = (GroupBlks * groupId) + i /\ Source \in Nat
    BY <1>1, <2>1, SourceType DEF Placed
  <2>3. CASE EndPicture(TRUE)  BY <2>3 DEF EndPicture, Placed
  <2>4. CASE j + 1 = PicBlks /\ EndPicture(FALSE) /\ j' = j
    <3>1. sumsize' \div ImgSize = Source + 1
      <4>1. sumsize \div ImgSize \in Nat  BY <1>1, ReadCount
      <4> QED BY <2>1, <4>1 DEF Source
    <3>2. j' = PicBlks - 1
      BY <2>4, Cut DEF SendInv, Counted, SendTypes, FrameId
    <3>3. (GroupBlks * groupId') + i' = (GroupBlks * groupId) + i + 1
      <4>1. CASE LastOfGroup
        <5>1. groupId' = groupId + 1 /\ i' = 0 /\ i + 1 = GroupBlks
          BY <2>4, <4>1 DEF EndPicture, LastOfGroup
        <5>2. GroupBlks * (groupId + 1) = (GroupBlks * groupId) + GroupBlks
          BY <1>1
        <5> QED BY <1>1, <5>1, <5>2
      <4>2. CASE ~LastOfGroup
        <5>1. groupId' = groupId /\ i' = i + 1  BY <2>4, <4>2 DEF EndPicture
        <5> QED BY <1>1, <5>1
      <4> QED BY <4>1, <4>2
    <3>4. phase' = "picture"  BY <2>4 DEF EndPicture
    <3> QED BY <2>2, <3>1, <3>2, <3>3, <3>4 DEF Placed
  <2>5. CASE UNCHANGED <<i, picId, groupId, offset, phase>>
    BY <2>1, <2>2, <2>5 DEF Placed, Source
  <2> QED BY <1>3, <2>3, <2>4, <2>5 DEF Packetise, SendFrame
<1>4. CASE Deliver  BY <1>4 DEF Deliver, sendVars, Placed, Source
<1>5. CASE UNCHANGED vars  BY <1>5 DEF vars, sendVars, Placed, Source
<1> QED BY <1>2, <1>3, <1>4, <1>5 DEF Next

\* The copies of frame f of picture s, as CopiesKept describes them.
CopiesOf(s, f) ==
  \A b \in 0 .. FramePkts(f) - 1 :
    sndCache[s % GroupBlks][f][b]
      = [group |-> s \div GroupBlks, src |-> s, at |-> Offset(f, b),
         size |-> Payload(f, b) + HdrSize]

LEMMA ReadKept ==
  ASSUME SendInv, Placed, CopiesKept, Read
  PROVE  CopiesKept'
<1> DEFINE k == sumsize \div ImgSize
<1>1. k \in Nat /\ sumsize \in Nat /\ Source = k - 1 /\ sndCache' = sndCache
  BY ReadCount, ConstTypes
     DEF SendInv, Counted, SendTypes, Source, Read, ReadPicture, ReadShort
<1>2. phase = "picture" /\ (k > 0 => j = PicBlks - 1)
  <2>1. phase = "picture"  BY DEF Read, ReadPicture, ReadShort
  <2>2. sumsize = (ImgSize * k)  BY <2>1 DEF SendInv, Counted, SentSoFar
  <2>3. ImgSize * 0 = 0 /\ (k > 0 => k # 0)  BY ConstTypes
  <2>4. k > 0 => sumsize > 0  BY <1>1, <2>2, ConstTypes
  <2> QED BY <2>1, <2>4 DEF Placed
<1>3. SUFFICES ASSUME NEW s \in 0 .. Source', NEW f \in FrameId,
                      s + GroupBlks > Source', Packetised(s, f)'
               PROVE  CopiesOf(s, f)
  BY <1>1 DEF CopiesKept, CopiesOf
<1>4. f \in Nat /\ f <= PicBlks - 1 /\ GroupBlks \in Nat  BY Cut DEF FrameId
<1>5. CASE ReadPicture
  <2>1. Source' = k /\ j' = 0 /\ phase' = "frame"
    <3>1. sumsize' \div ImgSize = k + 1  BY <1>5, ReadCount DEF SendInv
    <3> QED BY <1>1, <1>5, <3>1 DEF Source, ReadPicture
  <2>2. s < k  BY <1>4, <2>1, <1>3 DEF Packetised
  <2>3. s \in 0 .. Source /\ s + GroupBlks > Source  BY <1>1, <1>3, <1>4, <2>1, <2>2
  <2>4. k > 0  BY <1>1, <1>3, <2>1, <2>2
  <2>5. s < Source \/ (s = Source /\ f <= j)  BY <1>1, <1>2, <1>4, <2>2, <2>3, <2>4
  <2>6. Packetised(s, f)
    <3>1. j \in Nat  BY Cut DEF SendInv, Counted, SendTypes, FrameId
    <3> QED BY <1>2, <1>4, <2>5, <3>1 DEF Packetised
  <2> QED BY <2>3, <2>6 DEF CopiesKept, CopiesOf
<1>6. CASE ReadShort
  <2>1. Source' = Source /\ j' = j /\ phase' = "done"
    BY <1>6, ReadCount DEF SendInv, Source, ReadShort
  <2>2. Packetised(s, f)  BY <1>2, <1>3, <2>1 DEF Packetised
  <2> QED BY <1>3, <2>1, <2>2 DEF CopiesKept, CopiesOf
<1> QED BY <1>5, <1>6 DEF Read

\* The slot of a frame is that of no other picture of the round.
LEMMA SendKept ==
  ASSUME FramesNumbered, SendInv, Placed, InPlace, CopiesKept,
         phase = "frame", SendFrame
  PROVE  CopiesKept'
<1>1. /\ Counted /\ j \in FrameId /\ j \in Nat /\ frameId = j
      /\ i \in SlotId /\ i \in 0 .. GroupBlks - 1 /\ i \in Nat /\ groupId \in Nat
      /\ GroupBlks \in Nat \ {0} /\ PicSlot = i /\ Source \in Nat
      /\ Source = (GroupBlks * groupId) + i
  <2>1. Counted  BY DEF SendInv
  <2>2. j \in FrameId /\ frameId = j /\ i \in SlotId /\ groupId \in Nat
    BY <2>1, SendNumbers DEF Counted, SendTypes
  <2>3. j \in Nat /\ i \in 0 .. GroupBlks - 1 /\ i \in Nat /\ GroupBlks \in Nat \ {0}
    BY <2>2, Cut DEF FrameId, SlotId
  <2> QED BY <2>1, <2>2, <2>3, SourceType DEF InPlace, Placed
<1>2. Source % GroupBlks = i /\ Source \div GroupBlks = groupId
  <2>1. /\ Source \div GroupBlks \in Nat /\ Source % GroupBlks \in 0 .. GroupBlks - 1
        /\ Source = (GroupBlks * (Source \div GroupBlks)) + (Source % GroupBlks)
    BY <1>1, DivMod
  <2> QED BY <1>1, <2>1, DivModOnce
<1>3. /\ \A b \in 0 .. FramePkts(j) - 1 : sndCache'[i][j][b] = CopyOf(b)
      /\ \A p \in SlotId, f \in FrameId :
           p # i \/ f # j => sndCache'[p][f] = sndCache[p][f]
  BY <1>1, KeptCopies DEF SendFrame, Raw2Pkt
<1>4. Source' = Source  BY DEF SendFrame, Source
<1>5. SUFFICES ASSUME NEW s \in 0 .. Source, NEW f \in FrameId,
                      s + GroupBlks > Source, Packetised(s, f)'
               PROVE  CopiesOf(s, f)'
  BY <1>4 DEF CopiesKept, CopiesOf
<1>6. s \in Nat /\ f \in Nat  BY <1>1, Cut DEF FrameId
<1>7. s < Source \/ (s = Source /\ f <= j)
  <2>1. \/ j' = j
        \/ j' = j + 1 /\ phase' = "frame"
    BY DEF SendFrame
  <2>2. s < Source \/ (s = Source /\ (f < j' \/ (f = j' /\ phase' # "frame")))
    BY <1>4, <1>5 DEF Packetised
  <2> QED BY <1>1, <1>6, <2>1, <2>2
<1>8. CASE s = Source /\ f = j
  <2>1. SUFFICES ASSUME NEW b \in 0 .. FramePkts(j) - 1
                 PROVE  sndCache'[i][j][b]
                          = [group |-> groupId, src |-> Source, at |-> Offset(j, b),
                             size |-> Payload(j, b) + HdrSize]
    BY <1>2, <1>8 DEF CopiesOf
  <2>2. Offset(j, b) = FrameBytes * j + BlockSize * b  BY <1>1, BlockInside
  <2> QED BY <1>3, <2>2 DEF CopyOf
<1>9. CASE ~(s = Source /\ f = j)
  <2>1. Packetised(s, f)  BY <1>1, <1>6, <1>7, <1>9 DEF Packetised
  <2>2. CopiesOf(s, f)  BY <1>5, <2>1 DEF CopiesKept, CopiesOf
  <2>3. s % GroupBlks \in SlotId  BY <1>1, <1>6, DivMod DEF SlotId
  <2>4. s % GroupBlks # i \/ f # j
    <3>1. SUFFICES ASSUME s < Source, s % GroupBlks = i PROVE FALSE
      BY <1>7, <1>9
    <3> DEFINE q == s \div GroupBlks
    <3>2. q \in Nat /\ s = (GroupBlks * q) + i  BY <1>1, <1>6, <3>1, DivMod
    <3> HIDE DEF q
    <3>3. GroupBlks * q \in Nat /\ GroupBlks * groupId \in Nat  BY <1>1, <3>2
    <3>4. CASE q >= groupId
      <4>1. GroupBlks * groupId <= GroupBlks * q
        BY <1>1, <3>2, <3>4, MulMonotonic
      <4> QED BY <1>1, <3>1, <3>2, <3>3, <4>1
    <3>5. CASE q + 1 <= groupId
      <4>1. GroupBlks * (q + 1) <= GroupBlks * groupId
        BY <1>1, <3>2, <3>5, MulMonotonic
      <4>2. GroupBlks * (q + 1) = (GroupBlks * q) + GroupBlks  BY <1>1, <3>2
      <4> QED BY <1>1, <1>5, <3>2, <3>3, <4>1, <4>2
    <3> QED BY <1>1, <3>2, <3>4, <3>5
  <2>5. sndCache'[s % GroupBlks][f] = sndCache[s % GroupBlks][f]
    BY <1>3, <2>3, <2>4
  <2> QED BY <2>2, <2>5 DEF CopiesOf
<1> QED BY <1>8, <1>9

\* Of the pictures of one round of its slots the sender keeps a copy for every
\* packet it has made, under the ids that name the picture, cut where the
\* packet's payload is and with the size of the packet, whatever the geometry
\* and however often pic_id has wrapped.
THEOREM CopiesAreKept == FramesNumbered /\ GroupsWrap => (Spec => []CopiesKept)
<1> SUFFICES ASSUME FramesNumbered, GroupsWrap PROVE Spec => []CopiesKept
  OBVIOUS
<1>1. Init => Placed /\ InPlace /\ CopiesKept
  <2>1. SUFFICES ASSUME Init PROVE Placed /\ InPlace /\ CopiesKept  OBVIOUS
  <2>2. /\ sumsize = 0 /\ groupId = 0 /\ i = 0 /\ picId = 0
        /\ phase # "frame"
    BY <2>1 DEF Init, SenderInit
  <2>3. 0 \div ImgSize = 0 /\ 0 % GroupBlks = 0 /\ GroupBlks * 0 = 0
    <3>1. ImgSize * 0 = 0  BY ConstTypes
    <3> QED BY <3>1, ConstTypes, Cut, DivExact
  <2>4. Source = -1  BY <2>2, <2>3 DEF Source
  <2>5. Placed  BY <2>2, <2>3 DEF Placed
  <2>6. InPlace  BY <2>2, <2>3 DEF InPlace, PicSlot
  <2>7. CopiesKept  BY <2>4 DEF CopiesKept
  <2> QED BY <2>5, <2>6, <2>7
<1>2. SendInv /\ Placed /\ InPlace /\ CopiesKept /\ [Next]_vars
        => Placed' /\ InPlace' /\ CopiesKept'
  <2>1. SUFFICES ASSUME SendInv, Placed, InPlace, CopiesKept, [Next]_vars
                 PROVE  Placed' /\ InPlace' /\ CopiesKept'
    OBVIOUS
  <2>2. Placed' /\ InPlace'  BY <2>1, StepPlaced, StepInPlace
  <2>3. Read => CopiesKept'  BY <2>1, ReadKept
  <2>4. Packetise => CopiesKept'  BY <2>1, SendKept DEF Packetise, SendFrame
  <2>5. Deliver \/ UNCHANGED vars => CopiesKept'
    BY <2>1 DEF Deliver, vars, sendVars, CopiesKept, Packetised, Source
  <2> QED BY <2>1, <2>2, <2>3, <2>4, <2>5 DEF Next
<1>3. Spec => []SendInv  BY SenderInvariant
<1> QED BY <1>1, <1>2, <1>3, PTL DEF Spec

-----------------------------------------------------------------------------
(* The end packet. *)

\* The file is whole pictures, and each of them is one frame.
WholeFrames == total > 0 /\ total % ImgSize = 0 /\ PicBlks = 1

\* Where the end packet is while the rest of the file goes out: nowhere, until
\* all is sent; then behind all that is on the wire; and with the receiver last.
EndInv ==
  /\ \A n \in DOMAIN wire : wire[n].data_type = 2 =>
       /\ n = Len(wire) /\ wire[n].size = wire[n].len + HdrSize
       /\ phase = "done" /\ WholeFrames
  /\ ended => wire = <<>> /\ phase = "done" /\ WholeFrames
  /\ phase = "frame" /\ j > 0 => sumsize < total
  /\ phase = "done" /\ WholeFrames =>
       ended \/ (wire # <<>> /\ wire[Len(wire)].data_type = 2)

\* The last byte of the file goes out with a call of raw2pkt only if there is
\* no frame behind the first one of the last picture.
LEMMA LastByte ==
  ASSUME Counted, phase = "frame", j > 0 => sumsize < total
  PROVE  /\ BuildsTail <=> sumsize >= total /\ PicBlks = 1
         /\ sumsize >= total => /\ total > 0 /\ total % ImgSize = 0
                                /\ total \div ImgSize = Source + 1
<1>1. /\ Source \in Nat /\ sumsize = ImgSize * (Source + 1)
      /\ sumsize <= total /\ sumsize \in Nat /\ total \in Nat
  BY SourceType
<1>2. /\ NewSndSize \in Nat /\ NewSndSize <= sumsize
      /\ j = PicBlks - 1 <=> NewSndSize = sumsize
      /\ j \in Nat /\ PicBlks \in Nat \ {0} /\ j <= PicBlks - 1
  BY SendNumbers, Cut DEF FrameId
<1>3. BuildsTail <=> sumsize >= total /\ PicBlks = 1
  BY <1>1, <1>2 DEF BuildsTail
<1>4. ASSUME sumsize >= total
      PROVE  total > 0 /\ total % ImgSize = 0 /\ total \div ImgSize = Source + 1
  <2> DEFINE k == Source + 1
  <2>1. k \in Nat /\ k >= 1 /\ total = (ImgSize * k)  BY <1>1, <1>4
  <2> HIDE DEF k
  <2>2. total = (ImgSize * k) + 0 /\ 0 \in 0 .. ImgSize - 1  BY <1>1, <2>1, ConstTypes
  <2>3. /\ total \div ImgSize \in Nat /\ total % ImgSize \in 0 .. ImgSize - 1
        /\ total = (ImgSize * (total \div ImgSize)) + (total % ImgSize)
    BY <1>1, ConstTypes, DivMod
  <2>4. total \div ImgSize = k /\ total % ImgSize = 0
    BY <2>1, <2>2, <2>3, ConstTypes, DivModOnce
  <2>5. total > 0
    <3>1. ImgSize * 1 <= ImgSize * k  BY <2>1, ConstTypes, MulMonotonic
    <3> QED BY <2>1, <3>1, ConstTypes
  <2> QED BY <2>4, <2>5 DEF k
<1> QED BY <1>3, <1>4

LEMMA ReadEnd ==
  ASSUME SendInv, EndInv, Read
  PROVE  EndInv'
<1>1. /\ phase = "picture" /\ wire = <<>> /\ wire' = wire /\ total' = total
      /\ ended' = ended
  BY DEF Read, ReadPicture, ReadShort, cacheVars
<1>2. ~ended' /\ DOMAIN wire' = {}  BY <1>1 DEF EndInv
<1>3. CASE ReadPicture
  <2>1. phase' = "frame" /\ j' = 0  BY <1>3 DEF ReadPicture
  <2> QED BY <1>2, <2>1 DEF EndInv
<1>4. CASE ReadShort
  <2>1. phase' = "done"  BY <1>4 DEF ReadShort
  <2>2. total % ImgSize # 0
    <3> DEFINE k == sumsize \div ImgSize
    <3>1. /\ k \in Nat /\ sumsize \in Nat /\ total \in Nat /\ sumsize < total
          /\ total < sumsize + ImgSize /\ ImgSize \in Nat \ {0}
      BY <1>4, ReadCount, ConstTypes DEF SendInv, Counted, SendTypes, ReadShort
    <3>2. sumsize = (ImgSize * k)  BY <1>1 DEF SendInv, Counted, SentSoFar
    <3> HIDE DEF k
    <3> DEFINE r == total - sumsize
    <3>3. r \in 0 .. ImgSize - 1 /\ r # 0 /\ total = (ImgSize * k) + r
      BY <3>1, <3>2
    <3> HIDE DEF r
    <3>4. total % ImgSize = r  BY <3>1, <3>3, ModOf
    <3> QED BY <3>3, <3>4
  <2>3. ~WholeFrames'  BY <1>1, <2>2 DEF WholeFrames
  <2> QED BY <1>2, <2>1, <2>3 DEF EndInv
<1> QED BY <1>3, <1>4 DEF Read

LEMMA SendEnd ==
  ASSUME SendInv, EndInv, phase = "frame", wire = <<>>, SendFrame,
         UNCHANGED cacheVars
  PROVE  EndInv'
<1>1. Counted /\ FrameOnWire /\ ~ended' /\ total' = total /\ sumsize' = sumsize
  BY FrameWire DEF SendInv, EndInv, cacheVars, SendFrame
<1>2. /\ sndSize < total /\ SendTypes /\ InfoPackets /\ seqNo \in Nat
      /\ FirstIdx \in Nat /\ FramePkts(j) \in Nat \ {0} /\ HeadLen \in {0, 1}
      /\ sumsize \in Nat /\ total \in Nat
  BY SendNumbers, SourceType, ConstTypes
     DEF SendInv, Counted, SendTypes, HeadLen
<1>3. /\ BuildsTail <=> sumsize >= total /\ PicBlks = 1
      /\ sumsize >= total => total > 0 /\ total % ImgSize = 0
  BY <1>1, LastByte DEF EndInv
<1>4. /\ BuildsTail => /\ fileTail'.data_type = 2
                       /\ fileTail'.size = fileTail'.len + HdrSize
      /\ ~BuildsTail => fileTail'.data_type = 0
  <2>1. FirstIdx + FramePkts(j) \in Nat  BY <1>2
  <2>2. BuildsTail => fileTail' = InfoPkt(2, FirstIdx + FramePkts(j), seqNo)
    BY DEF SendFrame, Raw2Pkt
  <2>3. ~BuildsTail => fileTail' = Blank
    BY <1>2 DEF InfoPackets, SendFrame, Raw2Pkt
  <2> QED BY <1>2, <2>1, <2>2, <2>3, InfoPktType DEF Blank
<1>5. /\ phase' = "done" <=> sumsize >= total
      /\ phase' = "frame" => sumsize < total
  BY <1>2 DEF SendFrame, EndPicture
<1>6. ASSUME NEW n \in DOMAIN wire', wire'[n].data_type = 2
      PROVE  /\ n = Len(wire') /\ wire'[n].size = wire'[n].len + HdrSize
             /\ phase' = "done" /\ WholeFrames'
  <2>1. n \in 1 .. Len(wire')  BY <1>1, LenProperties DEF FrameOnWire
  <2>2. wire'[n] # InfoPkt(1, 0, seqNo)
    <3>1. InfoPkt(1, 0, seqNo).data_type = 1  BY DEF InfoPkt
    <3> QED BY <1>6, <3>1
  <2>3. \A m \in 1 .. FramePkts(j) : wire'[n] # DataPkt(m - 1, FirstIdx + m - 1)
    <3>1. \A b, x : DataPkt(b, x).data_type = 0  BY DEF DataPkt
    <3> QED BY <1>6, <3>1
  <2>4. n = Len(wire') /\ wire'[n] = fileTail'
    BY <1>1, <2>1, <2>2, <2>3, WirePlaces
  <2>5. BuildsTail  BY <1>4, <1>6, <2>4
  <2> QED BY <1>1, <1>3, <1>4, <1>5, <2>4, <2>5 DEF WholeFrames
<1>7. ASSUME phase' = "done", WholeFrames'
      PROVE  wire' # <<>> /\ wire'[Len(wire')].data_type = 2
  <2>1. BuildsTail /\ TailLen = 1
    BY <1>1, <1>3, <1>5, <1>7 DEF WholeFrames, TailLen
  <2>2. /\ Len(wire') = HeadLen + FramePkts(j) + 1
        /\ wire'[HeadLen + FramePkts(j) + 1] = fileTail'
    BY <1>1, <2>1 DEF FrameOnWire
  <2>3. Len(wire') # 0  BY <1>2, <2>2
  <2> QED BY <1>4, <2>1, <2>2, <2>3
<1> QED BY <1>1, <1>5, <1>6, <1>7 DEF EndInv

\* The receiver takes note of an end packet with its headers.
LEMMA EndTaken ==
  ASSUME NEW pkt, pkt.data_type = 2, pkt.size = pkt.len + HdrSize, Recv!Receive(pkt)
  PROVE  ended'
BY DEF Recv!Receive, Recv!StoreBlock, Recv!CompletePicture, Recv!StartInfo,
       Recv!EndInfo, Recv!Discard, Recv!Storable, Recv!WellFormed

LEMMA DeliverEnd ==
  ASSUME SendInv, EndInv, Deliver
  PROVE  EndInv'
<1>1. /\ wire \in Seq(Packet) /\ wire # <<>> /\ wire' = Tail(wire)
      /\ UNCHANGED sendVars /\ Recv!Receive(wire[1])
  BY TailOf DEF Deliver, SendInv, Counted, SendTypes
<1>2. /\ wire' \in Seq(Packet) /\ Len(wire') = Len(wire) - 1 /\ Len(wire) \in Nat \ {0}
      /\ \A n \in 1 .. Len(wire) - 1 : wire'[n] = wire[n + 1]
      /\ DOMAIN wire = 1 .. Len(wire) /\ DOMAIN wire' = 1 .. Len(wire) - 1
      /\ wire' = <<>> <=> Len(wire) = 1
  <2>1. /\ wire' \in Seq(Packet) /\ Len(wire') = Len(wire) - 1 /\ Len(wire) \in Nat \ {0}
        /\ \A n \in 1 .. Len(wire) - 1 : wire'[n] = wire[n + 1]
    BY <1>1, TailOf, EmptySeq
  <2>2. DOMAIN wire = 1 .. Len(wire) /\ DOMAIN wire' = 1 .. Len(wire')
    BY <1>1, <2>1, LenProperties
  <2>3. wire' = <<>> <=> Len(wire') = 0  BY <2>1, EmptySeq
  <2> QED BY <2>1, <2>2, <2>3
<1>3. /\ phase' = phase /\ total' = total /\ sumsize' = sumsize /\ j' = j
      /\ WholeFrames' = WholeFrames
  BY <1>1 DEF sendVars, WholeFrames
<1>4. ~ended  BY <1>1 DEF EndInv
<1>5. ASSUME NEW n \in DOMAIN wire', wire'[n].data_type = 2
      PROVE  /\ n = Len(wire') /\ wire'[n].size = wire'[n].len + HdrSize
             /\ phase' = "done" /\ WholeFrames'
  <2>1. n + 1 \in DOMAIN wire /\ wire'[n] = wire[n + 1] /\ n \in Nat
    BY <1>2
  <2>2. /\ n + 1 = Len(wire) /\ wire[n + 1].size = wire[n + 1].len + HdrSize
        /\ phase = "done" /\ WholeFrames
    BY <1>5, <2>1 DEF EndInv
  <2> QED BY <1>2, <1>3, <2>1, <2>2
<1>6. ASSUME ended' PROVE wire' = <<>> /\ phase' = "done" /\ WholeFrames'
  <2>1. wire[1].data_type = 2 /\ 1 \in DOMAIN wire
    <3>1. ended' = ended \/ wire[1].data_type = 2  BY <1>1, EndedBy
    <3>2. wire[1].data_type = 2  BY <1>4, <1>6, <3>1
    <3> QED BY <1>2, <3>2
  <2>2. 1 = Len(wire) /\ phase = "done" /\ WholeFrames  BY <2>1 DEF EndInv
  <2> QED BY <1>2, <1>3, <2>2
<1>7. ASSUME phase' = "done", WholeFrames'
      PROVE  ended' \/ (wire' # <<>> /\ wire'[Len(wire')].data_type = 2)
  <2>1. wire[Len(wire)].data_type = 2  BY <1>3, <1>4, <1>7 DEF EndInv
  <2>2. CASE Len(wire) = 1
    <3>1. wire[1].size = wire[1].len + HdrSize  BY <1>2, <2>1, <2>2 DEF EndInv
    <3> QED BY <1>1, <2>1, <2>2, <3>1, EndTaken
  <2>3. CASE Len(wire) # 1
    <3>1. Len(wire') \in 1 .. Len(wire) - 1 /\ Len(wire') + 1 = Len(wire)
      BY <1>2, <2>3
    <3>2. wire'[Len(wire')] = wire[Len(wire)]  BY <1>2, <3>1
    <3> QED BY <1>2, <2>1, <2>3, <3>2
  <2> QED BY <2>2, <2>3
<1>8. (phase = "frame" /\ j > 0 => sumsize < total)'  BY <1>3 DEF EndInv
<1> QED BY <1>5, <1>6, <1>7, <1>8 DEF EndInv

LEMMA StepEnd == SendInv /\ EndInv /\ [Next]_vars => EndInv'
<1> SUFFICES ASSUME SendInv, EndInv, [Next]_vars PROVE EndInv'  OBVIOUS
<1>1. CASE Read  BY <1>1, ReadEnd
<1>2. CASE Packetise
  <2>1. wire = <<>> /\ SendFrame /\ phase = "frame" /\ UNCHANGED cacheVars
    BY <1>2 DEF Packetise, SendFrame
  <2> QED BY <2>1, SendEnd
<1>3. CASE Deliver  BY <1>3, DeliverEnd
<1>4. CASE UNCHANGED vars
  BY <1>4 DEF vars, sendVars, cacheVars, EndInv, WholeFrames
<1> QED BY <1>1, <1>2, <1>3, <1>4 DEF Next

\* Once all of such a file is sent, its last picture is out as soon as there is
\* nothing but the end packet on the wire.
OutInv ==
  phase = "done" /\ WholeFrames =>
    Len(pictures) = IF \A n \in DOMAIN wire : IsEnd(wire[n])
                      THEN SentPictures ELSE SentPictures - 1

LEMMA BlockNoEnd ==
  ASSUME NEW pkt, NEW p, NEW f, NEW b, NEW s, IsBlock(pkt, p, f, b, s)
  PROVE  ~IsEnd(pkt)
<1>1. Blank.size # Blank.len + HdrSize /\ pkt.data_type # 2
  BY ConstTypes DEF Blank, IsBlock
<1> QED BY <1>1 DEF IsBlock, IsEnd

LEMMA SendOut ==
  ASSUME SendInv, EndInv, CopyInv, phase = "frame", wire = <<>>, SendFrame,
         UNCHANGED cacheVars
  PROVE  OutInv'
<1>1. SUFFICES ASSUME phase' = "done", WholeFrames'
               PROVE  /\ Len(pictures') = SentPictures' - 1
                      /\ ~ \A n \in DOMAIN wire' : IsEnd(wire'[n])
  BY DEF OutInv
<1>2. /\ pictures' = pictures /\ total' = total /\ Source \in Nat
      /\ sumsize \in Nat /\ total \in Nat /\ PicBlks = 1
  BY <1>1, SourceType DEF cacheVars, SendFrame, SendInv, WholeFrames
<1>3. Len(pictures) = Source  BY NothingOnWire DEF AllReceived
<1>4. SentPictures' = Source + 1
  <2>1. sumsize >= total  BY <1>1, <1>2 DEF SendFrame, EndPicture
  <2>2. total \div ImgSize = Source + 1  BY <2>1, LastByte DEF SendInv, EndInv
  <2> QED BY <1>2, <2>2 DEF SentPictures
<1>5. ~ \A n \in DOMAIN wire' : IsEnd(wire'[n])
  <2>1. FrameOnWire  BY FrameWire DEF SendInv
  <2>2. FirstIdx \in Nat /\ FramePkts(j) \in Nat \ {0} /\ HeadLen \in {0, 1}
        /\ TailLen \in {0, 1}
    BY SendNumbers DEF SendInv, HeadLen, TailLen
  <2>3. 1 \in 1 .. FramePkts(j) /\ HeadLen + 1 \in 1 .. Len(wire')
    BY <2>1, <2>2 DEF FrameOnWire
  <2>4. wire'[HeadLen + 1] = DataPkt(1 - 1, FirstIdx + 1 - 1)
    BY <2>1, <2>3 DEF FrameOnWire
  <2>5. IsBlock(wire'[HeadLen + 1], PicSlot, frameId, 0, Source)
    <3>1. frameId = j  BY SendNumbers DEF SendInv
    <3> QED BY <2>4, <3>1 DEF IsBlock, DataPkt
  <2>6. HeadLen + 1 \in DOMAIN wire'  BY <2>1, <2>3, LenProperties DEF FrameOnWire
  <2> QED BY <2>5, <2>6, BlockNoEnd
<1> QED BY <1>2, <1>3, <1>4, <1>5

LEMMA DeliverOut ==
  ASSUME TailCompletes, SendInv, CopyInv, OutInv, Deliver
  PROVE  OutInv'
<1>1. /\ wire \in Seq(Packet) /\ wire # <<>> /\ wire' = Tail(wire)
      /\ UNCHANGED sendVars /\ Recv!Receive(wire[1])
  BY TailOf DEF Deliver, SendInv, Counted, SendTypes
<1>2. /\ Len(wire) \in Nat \ {0} /\ wire[1] \in Packet
      /\ \A n \in 1 .. Len(wire) - 1 : wire'[n] = wire[n + 1]
      /\ DOMAIN wire = 1 .. Len(wire) /\ DOMAIN wire' = 1 .. Len(wire) - 1
  <2>1. /\ wire' \in Seq(Packet) /\ Len(wire') = Len(wire) - 1 /\ Len(wire) \in Nat \ {0}
        /\ \A n \in 1 .. Len(wire) - 1 : wire'[n] = wire[n + 1]
        /\ 1 \in 1 .. Len(wire)
    BY <1>1, TailOf, EmptySeq
  <2>2. DOMAIN wire = 1 .. Len(wire) /\ DOMAIN wire' = 1 .. Len(wire')
    BY <1>1, <2>1, LenProperties
  <2> QED BY <1>1, <2>1, <2>2, ElementOfSeq
<1>3. /\ phase' = phase /\ WholeFrames' = WholeFrames /\ SentPictures' = SentPictures
  BY <1>1 DEF sendVars, WholeFrames, SentPictures
<1>4. SUFFICES ASSUME phase = "done", WholeFrames
               PROVE  Len(pictures') = IF \A n \in DOMAIN wire' : IsEnd(wire'[n])
                                         THEN SentPictures ELSE SentPictures - 1
  BY <1>3 DEF OutInv, IsEnd
<1>5. CASE AllReceived
  <2>1. \A n \in DOMAIN wire : IsEnd(wire[n])  BY <1>5 DEF AllReceived
  <2>2. pictures' = pictures  BY <1>1, <1>2, <2>1, EndReceived
  <2>3. \A n \in DOMAIN wire' : n + 1 \in DOMAIN wire  BY <1>2
  <2>4. \A n \in DOMAIN wire' : IsEnd(wire'[n])  BY <1>2, <2>1, <2>3
  <2> QED BY <1>4, <2>1, <2>2, <2>4 DEF OutInv
<1>6. CASE OnItsWay
  <2>1. PICK h \in {0, 1}, p \in SlotId, f \in FrameId, b \in BlkId :
          /\ b < FramePkts(f) /\ Carries(h, p, f, b, Len(pictures))
          /\ CacheAt(p, f, b, Len(pictures)) /\ (h = 0 => ready)
    BY <1>6 DEF OnItsWay
  <2>2. PICK s \in Nat : s = Len(pictures)  BY DEF CopyInv, Recv!TypeOK
  <2>3. /\ b \in Nat /\ FramePkts(f) \in Nat /\ FramePkts(f) - b \in Nat \ {0}
        /\ f = PicBlks - 1
    BY <1>4, <2>1, FrameCut, Cut DEF BlkId, FrameId, WholeFrames
  <2> DEFINE left == FramePkts(f) - b
  <2>4. left \in Nat \ {0}  BY <2>3
  <2>5. /\ h + left <= Len(wire)
        /\ h = 1 => IsStart(wire[1])
        /\ \A m \in 1 .. left : IsBlock(wire[h + m], p, f, (b + m) - 1, s)
        /\ \A n \in 1 .. Len(wire) : n > h + left => IsEnd(wire[n])
    BY <1>2, <2>1, <2>2 DEF Carries
  <2>6. left = FramePkts(f) - b  OBVIOUS
  <2> HIDE DEF left
  <2>7. 1 \in 1 .. left /\ h + 1 \in 1 .. Len(wire) /\ (b + 1) - 1 = b
    BY <1>2, <2>3, <2>4, <2>5
  <2>8. IsBlock(wire[h + 1], p, f, b, s)  BY <2>5, <2>7
  <2>9. ~IsEnd(wire[h + 1])  BY <2>8, BlockNoEnd
  <2>10. s = SentPictures - 1
    BY <1>2, <1>4, <2>2, <2>7, <2>9 DEF OutInv
  <2>11. CASE h = 1
    <3>1. pictures' = pictures  BY <1>1, <1>2, <2>5, <2>11, StartReceived
    <3>2. 1 \in DOMAIN wire' /\ wire'[1] = wire[h + 1]
      BY <1>2, <2>7, <2>11
    <3> QED BY <2>2, <2>9, <2>10, <3>1, <3>2
  <2>12. CASE h = 0
    <3>1. /\ b + 1 < FramePkts(f) => pictures' = pictures
          /\ b + 1 = FramePkts(f) => pictures' = Append(pictures, Copy!Picture(s))
      <4>1. ready /\ IsBlock(wire[1], p, f, b, s)  BY <2>1, <2>8, <2>12
      <4> QED BY <1>1, <1>2, <2>1, <2>2, <2>3, <4>1, BlockReceived DEF CopyInv
    <3>2. CASE b + 1 < FramePkts(f)
      <4>1. /\ 2 \in 1 .. left /\ h + 2 = 2 /\ 2 \in 1 .. Len(wire)
            /\ 1 \in 1 .. Len(wire) - 1 /\ 1 + 1 = 2
        BY <1>2, <2>3, <2>4, <2>5, <2>6, <2>12, <3>2
      <4>2. ~IsEnd(wire[2])  BY <2>5, <4>1, BlockNoEnd
      <4>3. 1 \in DOMAIN wire' /\ wire'[1] = wire[2]  BY <1>2, <4>1
      <4> QED BY <2>2, <2>10, <3>1, <3>2, <4>2, <4>3
    <3>3. CASE b + 1 = FramePkts(f)
      <4>1. ASSUME NEW n \in DOMAIN wire' PROVE IsEnd(wire'[n])
        <5>1. /\ n + 1 \in 1 .. Len(wire) /\ n + 1 > h + left
              /\ wire'[n] = wire[n + 1]
          BY <1>2, <2>3, <2>6, <2>12, <3>3
        <5> QED BY <2>5, <5>1
      <4>2. Len(pictures') = s + 1
        BY <2>2, <3>1, <3>3 DEF CopyInv, Recv!TypeOK
      <4>3. SentPictures \in Nat  BY SentType
      <4> QED BY <2>10, <4>1, <4>2, <4>3
    <3> QED BY <2>1, <2>3, <3>2, <3>3
  <2> QED BY <2>11, <2>12
<1> QED BY <1>5, <1>6 DEF CopyInv

LEMMA StepOut ==
  ASSUME TailCompletes, SendInv, EndInv, EndInv', CopyInv, OutInv, [Next]_vars
  PROVE  OutInv'
<1>1. CASE Read
  <2>1. ~ended' /\ wire' = <<>>
    BY <1>1 DEF Read, ReadPicture, ReadShort, EndInv, cacheVars
  <2> QED BY <2>1 DEF EndInv, OutInv
<1>2. CASE Packetise
  <2>1. wire = <<>> /\ SendFrame /\ phase = "frame" /\ UNCHANGED cacheVars
    BY <1>2 DEF Packetise, SendFrame
  <2> QED BY <2>1, SendOut
<1>3. CASE Deliver  BY <1>3, DeliverOut
<1>4. CASE UNCHANGED vars
  BY <1>4 DEF vars, sendVars, cacheVars, OutInv, WholeFrames, IsEnd, SentPictures
<1> QED BY <1>1, <1>2, <1>3, <1>4 DEF Next

\* The end packet is built exactly when the last byte of the file has been
\* packetised, for every file and geometry; the receiver takes it after all
\* other packets, when the pictures sent are out, and in the end it has taken
\* one exactly if the file is whole pictures of one frame.
THEOREM EndPacketIsLast == FramesNumbered => (Spec => []EndPacketLast)
<1> SUFFICES ASSUME FramesNumbered PROVE Spec => []EndPacketLast  OBVIOUS
<1>1. Init => EndInv
  <2>1. SUFFICES ASSUME Init PROVE EndInv  OBVIOUS
  <2>2. wire = <<>> /\ DOMAIN wire = {} /\ ended = FALSE
    BY <2>1 DEF Init, SenderInit, Recv!Init
  <2>3. phase # "frame" /\ (phase = "done" => total = 0)
    BY <2>1 DEF Init, SenderInit
  <2> QED BY <2>2, <2>3 DEF EndInv, WholeFrames
<1>2. SendInv /\ EndInv /\ [Next]_vars => EndInv'  BY StepEnd
<1>3. Spec => []SendInv  BY SenderInvariant
<1>4. Spec => []EndInv  BY <1>1, <1>2, <1>3, PTL DEF Spec
<1>5. SendInv /\ EndInv /\ (TailCompletes => OutInv) => EndPacketLast
  <2>1. SUFFICES ASSUME SendInv, EndInv, TailCompletes => OutInv PROVE EndPacketLast
    OBVIOUS
  <2>2. /\ fileTail # Blank <=> sndSize = total /\ total > 0
        /\ ended => sndSize = total
    BY <2>1 DEF SendInv, InfoPackets
  <2>3. ended => wire = <<>> /\ phase = "done" /\ WholeFrames  BY <2>1 DEF EndInv
  <2>4. ASSUME ended, TailCompletes PROVE Len(pictures) = SentPictures
    <3>1. DOMAIN wire = {}  BY <2>3, <2>4
    <3> QED BY <2>1, <2>3, <2>4, <3>1 DEF OutInv
  <2>5. Finished => (ended <=> WholeFrames)  BY <2>1, <2>3 DEF Finished, EndInv
  <2> QED BY <2>2, <2>3, <2>4, <2>5 DEF EndPacketLast, WholeFrames
<1>6. CASE TailCompletes
  <2>1. Spec => []CopyInv  BY <1>6, CopyInvariant
  <2>2. Init => OutInv
    <3>1. Init => (phase = "done" => total = 0)  BY DEF Init, SenderInit
    <3> QED BY <3>1 DEF OutInv, WholeFrames
  <2>3. SendInv /\ EndInv /\ EndInv' /\ CopyInv /\ OutInv /\ [Next]_vars => OutInv'
    BY <1>6, StepOut
  <2>4. Spec => []OutInv  BY <1>3, <1>4, <2>1, <2>2, <2>3, PTL DEF Spec
  <2>5. SendInv /\ EndInv /\ OutInv => EndPacketLast  BY <1>5
  <2> QED BY <1>3, <1>4, <2>4, <2>5, PTL
<1>7. CASE ~TailCompletes
  <2>1. SendInv /\ EndInv => EndPacketLast  BY <1>5, <1>7
  <2> QED BY <1>3, <1>4, <2>1, PTL
<1> QED BY <1>6, <1>7

-----------------------------------------------------------------------------
(* The buffers. *)

\* What raw2pkt makes of one picture: packets, and bytes in out_buf.
PicPkts  == (FrameBlks * (PicBlks - 1)) + FramePkts(PicBlks - 1)
PicBytes == ImgSize + (HdrSize * PicPkts)
FrameOut == FrameBytes + (FrameBlks * HdrSize)

\* out_buf has room for the packets of as many pictures as read_buf holds.
OutBufFits == PicBytes * (CacheSize \div ImgSize) <= OutBufSize

LEMMA DivLeast ==
  ASSUME NEW a \in Nat, NEW b \in Nat \ {0}, NEW k \in Nat, b * k <= a
  PROVE  k <= a \div b
<1> DEFINE d == a \div b
<1>1. d \in Nat /\ a % b \in 0 .. b - 1 /\ a = (b * d) + (a % b)  BY DivMod
<1>2. a % b \in Nat /\ a % b < b  BY <1>1
<1> HIDE DEF d
<1>3. ASSUME d + 1 <= k PROVE FALSE
  <2>1. b * (d + 1) <= b * k  BY <1>1, <1>3, MulMonotonic
  <2>2. b * (d + 1) = (b * d) + b  BY <1>1
  <2>3. b * d \in Nat /\ b * k \in Nat  BY <1>1
  <2> QED BY <1>1, <1>2, <2>1, <2>2, <2>3
<1> QED BY <1>1, <1>3 DEF d

\* The bytes of the frames of a picture add up.
LEMMA PictureBytes ==
  /\ FrameOut \in Nat /\ PicBytes \in Nat
  /\ FrameOut * (PicBlks - 1)
       + (FrameData(PicBlks - 1) + FramePkts(PicBlks - 1) * HdrSize) = PicBytes
<1> DEFINE m == PicBlks - 1  d == FrameData(PicBlks - 1)
           c == FramePkts(PicBlks - 1)
<1>1. /\ m \in Nat /\ d \in Nat /\ c \in Nat /\ (FrameBytes * m) + d = ImgSize
  <2>1. PicBlks - 1 \in FrameId  BY LastFrameEnds
  <2>2. FrameData(PicBlks - 1) \in Nat /\ FramePkts(PicBlks - 1) \in Nat
    BY <2>1, FrameCut, Cut
  <2> QED BY <2>2, LastFrameEnds, Cut
<1>2. /\ PicPkts = (FrameBlks * m) + c
      /\ FrameBlks \in Nat /\ FrameBytes \in Nat /\ HdrSize \in Nat /\ ImgSize \in Nat
  BY Cut, ConstTypes DEF PicPkts
<1> HIDE DEF m, d, c
<1>3. FrameOut \in Nat /\ FrameOut * m = (FrameBytes * m) + (HdrSize * (FrameBlks * m))
  BY <1>1, <1>2 DEF FrameOut
<1>4. HdrSize * PicPkts = (HdrSize * (FrameBlks * m)) + (c * HdrSize)
  BY <1>1, <1>2
<1>5. HdrSize * (FrameBlks * m) \in Nat /\ c * HdrSize \in Nat /\ FrameBytes * m \in Nat
  BY <1>1, <1>2
<1>6. PicBytes = ImgSize + ((HdrSize * (FrameBlks * m)) + (c * HdrSize))
  BY <1>4 DEF PicBytes
<1>7. FrameOut * m + (d + c * HdrSize) = PicBytes /\ PicBytes \in Nat
  BY <1>1, <1>2, <1>3, <1>5, <1>6
<1> QED BY <1>3, <1>7 DEF m, d, c

\* A picture of whole blocks, such as call_test's own 256 * 12 * mtu_size, is
\* what out_buf is reckoned for.
THEOREM WholeBlocksFit == ImgSize % BlockSize = 0 => OutBufFits
<1> SUFFICES ASSUME ImgSize % BlockSize = 0 PROVE OutBufFits  OBVIOUS
<1> DEFINE w == ImgSize \div BlockSize  k == CacheSize \div ImgSize
           full == FrameBlks * (PicBlks - 1)
<1>1. w \in Nat /\ ImgSize = BlockSize * w
  <2>1. w \in Nat /\ ImgSize = (BlockSize * w) + (ImgSize % BlockSize)
    BY ConstTypes, DivMod
  <2> QED BY <2>1, ConstTypes
<1>2. full \in Nat /\ FrameBytes * (PicBlks - 1) = BlockSize * full
  <2>1. PicBlks - 1 \in Nat /\ FrameBlks \in Nat /\ FrameBytes = FrameBlks * BlockSize
    BY Cut DEF FrameBytes
  <2> QED BY <2>1, ConstTypes
<1>3. k \in Nat /\ ImgSize * k <= CacheSize /\ CacheSize \in Nat
  <2>1. /\ k \in Nat /\ CacheSize % ImgSize \in 0 .. ImgSize - 1
        /\ CacheSize = (ImgSize * k) + (CacheSize % ImgSize)
    BY ConstTypes, GeometryAssumption, DivMod
  <2>2. CacheSize % ImgSize \in Nat /\ ImgSize * k \in Nat  BY <2>1, ConstTypes
  <2> QED BY <2>1, <2>2, GeometryAssumption
<1> HIDE DEF w, k, full
<1>4. PicPkts = w
  <2>1. FrameData(PicBlks - 1) = BlockSize * (w - full)
    <3>1. FrameData(PicBlks - 1) = ImgSize - (BlockSize * full)
      <4>1. FrameData(PicBlks - 1) \in Nat  BY LastFrameEnds, FrameCut, Cut
      <4>2. (BlockSize * full) \in Nat  BY <1>2, ConstTypes
      <4> QED BY <1>2, <4>1, <4>2, LastFrameEnds, ConstTypes
    <3> QED BY <1>1, <1>2, <3>1, ConstTypes
  <2>2. w - full \in Nat
    <3>1. FrameData(PicBlks - 1) \in Nat /\ FrameData(PicBlks - 1) > 0
      BY LastFrameEnds, FrameCut, Cut
    <3>2. ASSUME w - full <= 0 PROVE FALSE
      <4>1. BlockSize * (w - full) <= BlockSize * 0
        BY <1>1, <1>2, <3>2, ConstTypes, MulMonotonic
      <4> QED BY <2>1, <3>1, <4>1, ConstTypes
    <3> QED BY <1>1, <1>2, <3>2
  <2>3. FramePkts(PicBlks - 1) = w - full
    BY <2>1, <2>2, ConstTypes, CeilDivExact DEF FramePkts
  <2> QED BY <1>1, <1>2, <2>3 DEF PicPkts, full
<1>5. PicBytes = (BlockSize + HdrSize) * w  BY <1>1, <1>4, ConstTypes DEF PicBytes
<1>6. PicBytes * k <= ((BlockSize + HdrSize) * CacheSize) \div BlockSize
  <2>1. BlockSize * (PicBytes * k) = (BlockSize + HdrSize) * (ImgSize * k)
    BY <1>1, <1>3, <1>5, ConstTypes
  <2>2. (BlockSize + HdrSize) * (ImgSize * k) <= (BlockSize + HdrSize) * CacheSize
    BY <1>3, ConstTypes, MulMonotonic
  <2>3. PicBytes * k \in Nat /\ (BlockSize + HdrSize) * CacheSize \in Nat
    BY <1>3, PictureBytes, ConstTypes
  <2> QED BY <2>1, <2>2, <2>3, ConstTypes, DivLeast
<1>7. /\ ((BlockSize + HdrSize) * CacheSize) \div BlockSize \in Nat
      /\ PicBytes * k \in Nat
  <2>1. (BlockSize + HdrSize) * CacheSize \in Nat  BY <1>3, ConstTypes
  <2>2. PicBytes * k \in Nat  BY <1>3, PictureBytes
  <2> QED BY <2>1, <2>2, ConstTypes, DivMod
<1> QED BY <1>6, <1>7, ConstTypes DEF OutBufFits, OutBufSize, k

\* read_buf and out_buf hold the pictures read since the last rewind; the next
\* picture still fits read_buf, and of one in hand the frames before frame j
\* are in out_buf.
BufInv ==
  /\ offset \in 0 .. CacheSize /\ offset3 \in 0 .. OutBufSize
  /\ phase # "done" => \E k \in Nat :
       /\ offset = ImgSize * k
       /\ phase = "picture" => offset3 <= PicBytes * k
       /\ phase = "frame" => /\ offset + ImgSize <= CacheSize
                             /\ offset3 <= (PicBytes * k) + (FrameOut * j)

LEMMA BufTypes ==
  /\ CacheSize \in Nat /\ ImgSize \in Nat \ {0} /\ ImgSize <= CacheSize
  /\ OutBufSize \in Nat /\ PicBytes \in Nat /\ FrameOut \in Nat
<1>1. (BlockSize + HdrSize) * CacheSize \in Nat
  BY ConstTypes, GeometryAssumption
<1>2. ((BlockSize + HdrSize) * CacheSize) \div BlockSize \in Nat
  BY <1>1, ConstTypes, DivMod
<1>3. OutBufSize \in Nat  BY <1>2, ConstTypes DEF OutBufSize
<1> QED BY <1>3, PictureBytes, ConstTypes, GeometryAssumption, SenderAssumption

LEMMA ReadBuf ==
  ASSUME BufInv, Read
  PROVE  BufInv'
<1>1. /\ phase = "picture" /\ offset \in Nat /\ offset <= CacheSize
      /\ offset3 \in 0 .. OutBufSize
  BY BufTypes DEF BufInv, Read, ReadPicture, ReadShort
<1>2. PICK k \in Nat : offset = ImgSize * k /\ offset3 <= PicBytes * k
  BY <1>1 DEF BufInv
<1>3. offset3' = (IF Rewinds THEN 0 ELSE offset3) /\ offset3' \in 0 .. OutBufSize
  BY <1>1, BufTypes DEF Read, ReadPicture, ReadShort
<1>4. (IF Rewinds THEN 0 ELSE offset) + ImgSize <= CacheSize
  BY <1>1, BufTypes DEF Rewinds
<1>5. CASE ReadPicture
  <2>1. phase' = "frame" /\ j' = 0 /\ offset' = IF Rewinds THEN 0 ELSE offset
    BY <1>5 DEF ReadPicture
  <2>2. offset' + ImgSize <= CacheSize /\ offset' \in 0 .. CacheSize
    BY <1>1, <1>4, <2>1, BufTypes
  <2>3. ImgSize * 0 = 0 /\ PicBytes * 0 = 0 /\ FrameOut * 0 = 0  BY BufTypes
  <2>4. CASE Rewinds
    <3>1. offset' = ImgSize * 0 /\ offset3' <= (PicBytes * 0) + (FrameOut * j')
      BY <1>3, <2>1, <2>3, <2>4
    <3> QED BY <1>3, <2>1, <2>2, <3>1 DEF BufInv
  <2>5. CASE ~Rewinds
    <3>1. PicBytes * k \in Nat  BY BufTypes
    <3>2. offset' = ImgSize * k /\ offset3' <= (PicBytes * k) + (FrameOut * j')
      BY <1>2, <1>3, <2>1, <2>3, <2>5, <3>1
    <3> QED BY <1>3, <2>1, <2>2, <3>2 DEF BufInv
  <2> QED BY <2>4, <2>5
<1>6. CASE ReadShort
  <2>1. phase' = "done" /\ offset' = (IF Rewinds THEN 0 ELSE offset) + ImgSize
    BY <1>6 DEF ReadShort
  <2>2. offset' \in 0 .. CacheSize  BY <1>1, <1>4, <2>1, BufTypes
  <2> QED BY <1>3, <2>1, <2>2 DEF BufInv
<1> QED BY <1>5, <1>6 DEF Read

LEMMA SendFrameBuf ==
  ASSUME OutBufFits, SendInv, BufInv, SendFrame
  PROVE  BufInv'
<1>1. /\ phase = "frame" /\ offset \in Nat /\ offset3 \in Nat
      /\ offset + ImgSize <= CacheSize /\ offset3' = offset3 + PktBytes
  BY BufTypes DEF BufInv, SendFrame
<1>2. PICK k \in Nat :
        offset = ImgSize * k /\ offset3 <= (PicBytes * k) + (FrameOut * j)
  BY <1>1 DEF BufInv
<1>3. /\ j \in Nat /\ PicBlks - 1 \in Nat /\ j <= PicBlks - 1 /\ j \in FrameId
      /\ PktBytes \in Nat
  <2>1. j \in FrameId  BY DEF SendInv, Counted, SendTypes
  <2>2. FrameData(j) \in Nat /\ FramePkts(j) \in Nat  BY <2>1, FrameCut, Cut
  <2> QED BY <2>1, <2>2, ConstTypes, Cut DEF PktBytes, FrameId
<1>4. PICK x \in Nat, y \in Nat, z \in Nat :
        x = PicBytes * k /\ y = FrameOut * j /\ z = FrameOut * (PicBlks - 1)
  BY <1>3, BufTypes
<1>5. /\ j = PicBlks - 1 => y + PktBytes = PicBytes
      /\ j # PicBlks - 1 => PktBytes = FrameOut
  <2>1. CASE j = PicBlks - 1  BY <1>4, <2>1, PictureBytes DEF PktBytes
  <2>2. CASE j # PicBlks - 1
    BY <1>3, <2>2, FrameCut DEF PktBytes, FrameOut
  <2> QED BY <2>1, <2>2
<1>6. z <= PicBytes
  <2>1. FrameData(PicBlks - 1) \in Nat /\ FramePkts(PicBlks - 1) * HdrSize \in Nat
    BY LastFrameEnds, FrameCut, Cut, ConstTypes
  <2> QED BY <1>4, <2>1, PictureBytes
<1>7. j # PicBlks - 1 => FrameOut * (j + 1) = y + FrameOut /\ y + FrameOut <= z
  <2>1. FrameOut * (j + 1) = y + FrameOut  BY <1>3, <1>4, BufTypes
  <2>2. ASSUME j # PicBlks - 1 PROVE FrameOut * (j + 1) <= z
    BY <1>3, <1>4, <2>2, BufTypes, MulMonotonic
  <2> QED BY <2>1, <2>2
<1>8. PicBytes * (k + 1) = x + PicBytes  BY <1>4, BufTypes
<1>9. x + PicBytes <= OutBufSize
  <2>1. ImgSize * (k + 1) <= CacheSize
    <3>1. ImgSize * (k + 1) = (ImgSize * k) + ImgSize  BY BufTypes
    <3> QED BY <1>1, <1>2, <3>1
  <2>2. k + 1 <= CacheSize \div ImgSize  BY <2>1, BufTypes, DivLeast
  <2>3. CacheSize \div ImgSize \in Nat  BY BufTypes, DivMod
  <2>4. PicBytes * (k + 1) <= PicBytes * (CacheSize \div ImgSize)
    BY <2>2, <2>3, BufTypes, MulMonotonic
  <2>5. PicBytes * (CacheSize \div ImgSize) \in Nat  BY <2>3, BufTypes
  <2> QED BY <1>4, <1>8, <2>4, <2>5, BufTypes DEF OutBufFits
<1>10. offset3' <= x + PicBytes
  BY <1>1, <1>2, <1>3, <1>4, <1>5, <1>6, <1>7, BufTypes
<1>11. offset3' \in 0 .. OutBufSize  BY <1>1, <1>3, <1>4, <1>9, <1>10, BufTypes
<1>12. \/ phase' = "done" /\ offset' = offset + ImgSize
       \/ phase' = "picture" /\ offset' = offset + ImgSize
       \/ /\ phase' = "frame" /\ offset' = offset /\ j' = j + 1
          /\ j # PicBlks - 1
  BY <1>1, <1>3, Cut DEF SendFrame, EndPicture
<1>13. offset' \in 0 .. CacheSize  BY <1>1, <1>12, BufTypes
<1>14. CASE phase' = "done"  BY <1>11, <1>13, <1>14 DEF BufInv
<1>15. CASE phase' = "picture" /\ offset' = offset + ImgSize
  <2>1. offset' = ImgSize * (k + 1)  BY <1>2, <1>15, BufTypes
  <2>2. offset3' <= PicBytes * (k + 1)  BY <1>8, <1>10
  <2>3. k + 1 \in Nat  OBVIOUS
  <2> QED BY <1>11, <1>13, <1>15, <2>1, <2>2, <2>3 DEF BufInv
<1>16. CASE phase' = "frame" /\ offset' = offset /\ j' = j + 1 /\ j # PicBlks - 1
  <2>1. offset3' <= (PicBytes * k) + (FrameOut * j')
    BY <1>1, <1>2, <1>3, <1>4, <1>5, <1>7, <1>16, BufTypes
  <2> QED BY <1>1, <1>2, <1>11, <1>13, <1>16, <2>1 DEF BufInv
<1> QED BY <1>12, <1>14, <1>15, <1>16

\* The variables have their types: no picture is read past the end of read_buf,
\* and no packet is built past the end of out_buf if that has the room that
\* call_test reckons for it.
THEOREM TypeCorrect == FramesNumbered /\ OutBufFits => (Spec => []TypeOK)
<1> SUFFICES ASSUME FramesNumbered, OutBufFits PROVE Spec => []TypeOK  OBVIOUS
<1>1. Init => Recv!TypeOK /\ BufInv
  <2>1. SUFFICES ASSUME Init PROVE Recv!TypeOK /\ BufInv  OBVIOUS
  <2>2. Recv!TypeOK  BY <2>1, InitReceiver DEF Init
  <2>3. offset = 0 /\ offset3 = 0 /\ phase # "frame"
    BY <2>1 DEF Init, SenderInit
  <2>4. 0 = ImgSize * 0 /\ 0 <= PicBytes * 0  BY BufTypes
  <2> QED BY <2>2, <2>3, <2>4, BufTypes DEF BufInv
<1>2. SendInv /\ Recv!TypeOK /\ BufInv /\ [Next]_vars => (Recv!TypeOK /\ BufInv)'
  <2>1. SUFFICES ASSUME SendInv, Recv!TypeOK, BufInv, [Next]_vars
                 PROVE  (Recv!TypeOK /\ BufInv)'
    OBVIOUS
  <2>2. UNCHANGED cacheVars => Recv!TypeOK'
    BY <2>1 DEF Recv!TypeOK, cacheVars
  <2>3. UNCHANGED sendVars => BufInv'  BY <2>1 DEF BufInv, sendVars
  <2>4. CASE Read  BY <2>1, <2>2, <2>4, ReadBuf DEF Read
  <2>5. CASE Packetise  BY <2>1, <2>2, <2>5, SendFrameBuf DEF Packetise
  <2>6. CASE Deliver
    <3>1. wire \in Seq(Packet) /\ wire # <<>> /\ Recv!Receive(Head(wire))
      BY <2>1, <2>6 DEF Deliver, SendInv, Counted, SendTypes
    <3>2. Head(wire) \in Packet  BY <3>1
    <3>3. Recv!TypeOK'  BY <2>1, <3>1, <3>2, ReceiveType
    <3> QED BY <2>3, <2>6, <3>3 DEF Deliver
  <2>7. CASE UNCHANGED vars  BY <2>2, <2>3, <2>7 DEF vars
  <2> QED BY <2>1, <2>4, <2>5, <2>6, <2>7 DEF Next
<1>3. SendInv /\ Recv!TypeOK /\ BufInv => TypeOK
  BY DEF SendInv, Counted, SendTypes, BufInv, TypeOK
<1>4. Spec => []SendInv  BY SenderInvariant
<1> QED BY <1>1, <1>2, <1>3, <1>4, PTL DEF Spec

-----------------------------------------------------------------------------
(* The network.  Packets arrive in any order and some may be lost, but none *)
(* arrives twice.                                                          *)

\* the number of block b of frame f of picture s among the file's packets
IdxOf(s, f, b) == 1 + (PicPkts * s) + (FrameBlks * f) + b

\* frame f of picture s comes before frame J of picture S
Prior(s, f, S, J) == s < S \/ (s = S /\ f < J)

LEMMA PicPktsIs ==
  /\ PicPkts \in Nat \ {0} /\ PicBlks - 1 \in FrameId
  /\ FramePkts(PicBlks - 1) \in Nat
  /\ PicPkts = (FrameBlks * (PicBlks - 1)) + FramePkts(PicBlks - 1)
<1>1. FramePkts(PicBlks - 1) \in Nat \ {0}  BY LastFrameEnds, FrameCut, Cut
<1>2. FrameBlks * (PicBlks - 1) \in Nat  BY Cut
<1> QED BY <1>1, <1>2, LastFrameEnds DEF PicPkts

\* The numbers grow with the block, the frame and the picture, and the frame
\* after the last one of a picture is the first one of the next.
LEMMA IdxInPicture ==
  ASSUME NEW f \in FrameId, NEW b \in Nat, b < FramePkts(f)
  PROVE  /\ (FrameBlks * f) + b \in Nat /\ (FrameBlks * f) + b < PicPkts
         /\ f # PicBlks - 1 => FramePkts(f) = FrameBlks
<1>1. /\ f \in Nat /\ f <= PicBlks - 1 /\ FramePkts(f) \in Nat
      /\ FramePkts(f) <= FrameBlks /\ FrameBlks \in Nat /\ PicBlks \in Nat
      /\ f # PicBlks - 1 => FramePkts(f) = FrameBlks
  BY FrameCut, Cut DEF FrameId
<1>2. PICK x \in Nat, y \in Nat : x = FrameBlks * f /\ y = FrameBlks * (PicBlks - 1)
  BY <1>1
<1>3. CASE f = PicBlks - 1  BY <1>1, <1>2, <1>3, PicPktsIs
<1>4. CASE f # PicBlks - 1
  <2>1. FrameBlks * (f + 1) <= FrameBlks * (PicBlks - 1)
    BY <1>1, <1>4, MulMonotonic
  <2>2. FrameBlks * (f + 1) = x + FrameBlks  BY <1>1, <1>2
  <2> QED BY <1>1, <1>2, <2>1, <2>2, PicPktsIs
<1> QED BY <1>1, <1>3, <1>4

LEMMA IdxType ==
  ASSUME NEW s \in Nat, NEW f \in FrameId, NEW b \in Nat
  PROVE  IdxOf(s, f, b) \in Nat /\ IdxOf(s, f, b) > 0
<1>1. f \in Nat  BY Cut DEF FrameId
<1>2. PicPkts * s \in Nat /\ FrameBlks * f \in Nat  BY <1>1, PicPktsIs, Cut
<1> QED BY <1>2 DEF IdxOf

LEMMA IdxOrder ==
  ASSUME NEW s \in Nat, NEW f \in FrameId, NEW b \in Nat, b < FramePkts(f),
         NEW t \in Nat, NEW g \in FrameId, NEW c \in Nat
  PROVE  /\ Prior(s, f, t, g) => IdxOf(s, f, b) < IdxOf(t, g, c)
         /\ c < FramePkts(g) /\ IdxOf(s, f, b) = IdxOf(t, g, c) =>
              s = t /\ f = g /\ b = c
         /\ c < FramePkts(g) /\ IdxOf(s, f, b) <= IdxOf(t, g, c) => s <= t
<1>1. /\ f \in Nat /\ g \in Nat /\ FramePkts(f) \in Nat /\ FramePkts(f) <= FrameBlks
      /\ FrameBlks \in Nat /\ PicPkts \in Nat /\ FramePkts(g) \in Nat
      /\ FramePkts(g) <= FrameBlks
  BY FrameCut, Cut, PicPktsIs DEF FrameId
<1>2. PICK x \in Nat, y \in Nat, u \in Nat, v \in Nat :
        /\ x = PicPkts * s /\ y = PicPkts * t
        /\ u = FrameBlks * f /\ v = FrameBlks * g
  BY <1>1
<1>3. /\ IdxOf(s, f, b) = 1 + x + u + b /\ IdxOf(t, g, c) = 1 + y + v + c
      /\ u + b < PicPkts /\ (c < FramePkts(g) => v + c < PicPkts)
  BY <1>2, IdxInPicture DEF IdxOf
<1>4. /\ s < t => x + PicPkts <= y
      /\ t < s => y + PicPkts <= x
      /\ s = t => x = y
      /\ f < g => u + FrameBlks <= v
      /\ g < f => v + FrameBlks <= u
      /\ f = g => u = v
  <2>1. ASSUME NEW k \in Nat, NEW m \in Nat, NEW z \in Nat, k < m
        PROVE  (z * k) + z <= z * m
    <3>1. z * (k + 1) <= z * m  BY <2>1, MulMonotonic
    <3>2. z * (k + 1) = (z * k) + z  OBVIOUS
    <3> QED BY <3>1, <3>2
  <2> QED BY <1>1, <1>2, <2>1
<1> HIDE <1>2
<1>5. Prior(s, f, t, g) => IdxOf(s, f, b) < IdxOf(t, g, c)
  BY <1>1, <1>3, <1>4 DEF Prior
<1>6. ASSUME c < FramePkts(g), IdxOf(s, f, b) <= IdxOf(t, g, c) PROVE s <= t
  BY <1>1, <1>3, <1>4, <1>6
<1>7. ASSUME c < FramePkts(g), IdxOf(s, f, b) = IdxOf(t, g, c)
      PROVE s = t /\ f = g /\ b = c
  <2>1. s = t  BY <1>1, <1>3, <1>4, <1>7
  <2>2. u + b = v + c  BY <1>3, <1>4, <1>7, <2>1
  <2>3. f = g  BY <1>1, <1>4, <1>7, <2>2
  <2> QED BY <1>4, <2>1, <2>2, <2>3
<1> QED BY <1>5, <1>6, <1>7

\* the frame after frame J of picture S
NextPic(S, J)   == IF J = PicBlks - 1 THEN S + 1 ELSE S
NextFrame(J) == IF J = PicBlks - 1 THEN 0 ELSE J + 1

LEMMA NextIdx ==
  ASSUME NEW S \in Nat, NEW J \in FrameId
  PROVE  /\ NextPic(S, J) \in Nat /\ NextFrame(J) \in FrameId
         /\ IdxOf(NextPic(S, J), NextFrame(J), 0) = IdxOf(S, J, 0) + FramePkts(J)
         /\ \A s \in Nat, f \in FrameId :
              Prior(s, f, NextPic(S, J), NextFrame(J))
                <=> Prior(s, f, S, J) \/ (s = S /\ f = J)
<1>1. /\ J \in Nat /\ J <= PicBlks - 1 /\ FramePkts(J) \in Nat /\ PicPkts \in Nat
      /\ FrameBlks \in Nat /\ PicBlks - 1 \in Nat
      /\ J # PicBlks - 1 => FramePkts(J) = FrameBlks
  BY FrameCut, Cut, PicPktsIs DEF FrameId
<1>2. PICK x \in Nat, u \in Nat : x = PicPkts * S /\ u = FrameBlks * J
  BY <1>1
<1>3. NextPic(S, J) \in Nat /\ NextFrame(J) \in FrameId
  BY <1>1, Cut DEF NextPic, NextFrame, FrameId
<1>4. CASE J = PicBlks - 1
  <2>1. PicPkts * (S + 1) = x + PicPkts /\ FrameBlks * 0 = 0  BY <1>1, <1>2
  <2>2. PicPkts = u + FramePkts(J)  BY <1>2, <1>4, PicPktsIs
  <2>3. IdxOf(S + 1, 0, 0) = IdxOf(S, J, 0) + FramePkts(J)
    BY <1>1, <1>2, <2>1, <2>2 DEF IdxOf
  <2>4. \A s \in Nat, f \in FrameId :
          Prior(s, f, S + 1, 0) <=> Prior(s, f, S, J) \/ (s = S /\ f = J)
    <3>1. \A f \in FrameId : f \in Nat /\ f <= J  BY <1>1, <1>4, Cut DEF FrameId
    <3> QED BY <1>1, <3>1 DEF Prior
  <2> QED BY <1>3, <1>4, <2>3, <2>4 DEF NextPic, NextFrame
<1>5. CASE J # PicBlks - 1
  <2>1. FrameBlks * (J + 1) = u + FrameBlks  BY <1>1, <1>2
  <2>2. IdxOf(S, J + 1, 0) = IdxOf(S, J, 0) + FramePkts(J)
    BY <1>1, <1>2, <1>5, <2>1 DEF IdxOf
  <2>3. \A s \in Nat, f \in FrameId :
          Prior(s, f, S, J + 1) <=> Prior(s, f, S, J) \/ (s = S /\ f = J)
    <3>1. \A f \in FrameId : f \in Nat  BY Cut DEF FrameId
    <3> QED BY <1>1, <3>1 DEF Prior
  <2> QED BY <1>3, <1>5, <2>2, <2>3 DEF NextPic, NextFrame
<1> QED BY <1>4, <1>5

\* The start packet, and a data packet whose ids and number say which block of
\* which picture it carries.
Opening(pkt) == IsStart(pkt) /\ pkt.idx = 0
Datum(pkt) ==
  /\ IsBlock(pkt, pkt.pic, pkt.frame, pkt.blk, pkt.src)
  /\ pkt.pic \in SlotId /\ pkt.frame \in FrameId /\ pkt.blk < FramePkts(pkt.frame)
  /\ (GroupBlks * pkt.group) + pkt.pic = pkt.src
  /\ pkt.idx = IdxOf(pkt.src, pkt.frame, pkt.blk)

\* where block b of frame f of picture s is
CarriedBy(n, s, f, b) ==
  Datum(wire[n]) /\ wire[n].src = s /\ wire[n].frame = f /\ wire[n].blk = b
Carried(s, f, b) == \E n \in DOMAIN wire : CarriedBy(n, s, f, b)
InSlot(s, f, b) ==
  \E p \in SlotId : Recv!Held(item[p][f][b]) /\ item[p][f][b].src = s

\* What the sender has sent: everything before frame J of picture S.
SentTo(S, J) ==
  /\ phase = "frame" => Source = S /\ j = J
  /\ phase = "picture" => J = 0 /\ sumsize = ImgSize * S
  /\ phase # "done" => /\ (GroupBlks * groupId) + i = S /\ PicSlot = i
                       /\ pktIdx = IF S = 0 /\ J = 0 THEN 0 ELSE IdxOf(S, J, 0)
  /\ S <= SentPictures
  /\ fileTail = Blank \/ fileTail.data_type = 2

OnWire(S, J) ==
  /\ \A n \in DOMAIN wire :
       \/ Opening(wire[n]) /\ n = 1 /\ ~ready
       \/ Datum(wire[n]) /\ Prior(wire[n].src, wire[n].frame, S, J)
       \/ IsEnd(wire[n]) /\ phase = "done"
  /\ \A m, n \in DOMAIN wire : m < n /\ Datum(wire[n]) => wire[m].idx < wire[n].idx

\* The start packet is sent first, and nothing is received before it.
Unopened(S, J) ==
  /\ S = 0 /\ J = 0 => ~ready /\ wire = <<>>
  /\ ~ready => /\ (S = 0 /\ J = 0) \/ (wire # <<>> /\ Opening(wire[1]))
               /\ \A p \in SlotId, f \in FrameId, b \in BlkId :
                    ~Recv!Held(item[p][f][b])

\* A block is held where its ids say, and is not on its way any more.
InSlots(S, J) ==
  \A p \in SlotId, f \in FrameId, b \in BlkId : Recv!Held(item[p][f][b]) =>
    LET it == item[p][f][b]
    IN  /\ (GroupBlks * it.group) + p = it.src
        /\ b < FramePkts(f) /\ Prior(it.src, f, S, J)
        /\ ~Carried(it.src, f, b)

\* The last packet of a picture is a whole block, as far as pkt2cache can tell.
NoShortTail ==
  Payload(PicBlks - 1, FramePkts(PicBlks - 1) - 1) + HdrSize >= BlockSize

LastBlk == FramePkts(PicBlks - 1) - 1

\* What makes frame f complete, once each of the blocks in H has come: that they
\* are all, or a short last packet among them.
Completes(f, H) ==
  H = BlkId \/ (~NoShortTail /\ f = PicBlks - 1 /\ LastBlk \in H)

FullFrames(p) == {f \in FrameId : Completes(f, Recv!HeldBlks(p, f))}

\* The short last packet has not come before the packet.
Fresh(pkt) ==
  ~NoShortTail /\ pkt.frame = PicBlks - 1 =>
    ~Recv!Held(item[pkt.pic][pkt.frame][LastBlk])

\* The slots count their blocks and their complete frames, and not all are.
SlotCount(p) ==
  /\ \A f \in FrameId : frameNum[p][f] = Cardinality(Recv!HeldBlks(p, f))
  /\ completeNum[p] = Cardinality(FullFrames(p)) /\ completeNum[p] < PicBlks

SlotsCount == \A p \in SlotId : SlotCount(p)

WireState(S, J) == SentTo(S, J) /\ OnWire(S, J) /\ Unopened(S, J)
NetState(S, J) == SentTo(S, J) /\ OnWire(S, J) /\ Unopened(S, J) /\ InSlots(S, J)

LEMMA NetWire == \A S, J : NetState(S, J) => WireState(S, J)
BY DEF NetState, WireState

\* The rest of a picture is sent as long as the file goes on after it.
MoreToSend == phase = "frame" /\ j > 0 => sumsize < total

NetInv ==
  /\ Counted /\ Recv!TypeOK /\ SlotsCount /\ MoreToSend
  /\ \E S \in Nat, J \in FrameId : NetState(S, J)

-----------------------------------------------------------------------------
\* Taking packet n off the wire keeps the others, in their order.
LEMMA WithoutIs ==
  ASSUME NEW S, NEW w \in Seq(S), NEW n \in DOMAIN w, NEW v,
         v = [m \in 1 .. Len(w) - 1 |-> IF m < n THEN w[m] ELSE w[m + 1]]
  PROVE  /\ v \in Seq(S) /\ Len(v) = Len(w) - 1
         /\ \A m \in DOMAIN v : LET k == IF m < n THEN m ELSE m + 1
                                IN  k \in DOMAIN w /\ k # n /\ v[m] = w[k]
         /\ \A k \in DOMAIN w : k # n =>
              LET m == IF k < n THEN k ELSE k - 1
              IN  m \in DOMAIN v /\ v[m] = w[k]
<1>1. /\ Len(w) \in Nat /\ n \in 1 .. Len(w) /\ DOMAIN w = 1 .. Len(w)
      /\ \A m \in 1 .. Len(w) : w[m] \in S
  OBVIOUS
<1>2. PICK L \in Nat : Len(w) = L + 1
  <2>1. Len(w) - 1 \in Nat /\ Len(w) = (Len(w) - 1) + 1  BY <1>1
  <2> QED BY <2>1
<1>3. v = [m \in 1 .. L |-> IF m < n THEN w[m] ELSE w[m + 1]]  BY <1>2
<1>4. /\ DOMAIN v = 1 .. L
      /\ \A m \in 1 .. L : v[m] = (IF m < n THEN w[m] ELSE w[m + 1]) /\ v[m] \in S
  BY <1>1, <1>2, <1>3
<1>5. v \in Seq(S) /\ Len(v) = L
  <2>1. v \in [1 .. L -> S]  BY <1>3, <1>4
  <2> QED BY <2>1, <1>4
<1> QED BY <1>1, <1>2, <1>4, <1>5

\* What is left on the wire when a packet is taken off it.
LEMMA Shrunk ==
  ASSUME NEW S \in Nat, NEW J \in FrameId, WireState(S, J), Counted,
         NEW n \in DOMAIN wire, wire' = Without(n), UNCHANGED sendVars,
         IF Opening(wire[n]) THEN ready' ELSE ready' = ready
  PROVE  /\ Counted' /\ SentTo(S, J)' /\ OnWire(S, J)'
         /\ \A s, f, b : Carried(s, f, b)' => Carried(s, f, b)
         /\ \A s, f, b : Carried(s, f, b) /\ ~CarriedBy(n, s, f, b) => Carried(s, f, b)'
         /\ \A s, f, b : CarriedBy(n, s, f, b) => ~Carried(s, f, b)'
<1>1. wire \in Seq(Packet)  BY DEF Counted, SendTypes
<1>2. /\ wire' \in Seq(Packet) /\ Len(wire') = Len(wire) - 1
      /\ \A m \in DOMAIN wire' : LET k == IF m < n THEN m ELSE m + 1
                                 IN  k \in DOMAIN wire /\ k # n /\ wire'[m] = wire[k]
      /\ \A k \in DOMAIN wire : k # n =>
           LET m == IF k < n THEN k ELSE k - 1
           IN  m \in DOMAIN wire' /\ wire'[m] = wire[k]
  BY <1>1, WithoutIs DEF Without
<1>3. /\ total' = total /\ phase' = phase /\ sumsize' = sumsize /\ i' = i /\ j' = j
      /\ picId' = picId /\ groupId' = groupId /\ pktIdx' = pktIdx
      /\ fileTail' = fileTail
  BY DEF sendVars
<1>4. Counted' /\ SentTo(S, J)'
  <2>1. SentTo(S, J)'
    BY <1>3 DEF WireState, SentTo, Source, PicSlot, SentPictures
  <2>2. Counted'
    BY <1>2 DEF Counted, SendTypes, SentSoFar, NothingNumbered, sendVars
  <2> QED BY <2>1, <2>2
<1>5. DOMAIN wire \subseteq Nat \ {0} /\ DOMAIN wire' \subseteq Nat \ {0}
  BY <1>1, <1>2, LenProperties
<1>6. ASSUME NEW m \in DOMAIN wire'
      PROVE  \/ Opening(wire'[m]) /\ m = 1 /\ ~ready'
             \/ Datum(wire'[m]) /\ Prior(wire'[m].src, wire'[m].frame, S, J)
             \/ IsEnd(wire'[m]) /\ phase' = "done"
  <2>1. PICK k \in DOMAIN wire : /\ k = (IF m < n THEN m ELSE m + 1)
                                 /\ wire'[m] = wire[k] /\ k # n
    BY <1>2
  <2>2. \/ Opening(wire[k]) /\ k = 1 /\ ~ready
        \/ Datum(wire[k]) /\ Prior(wire[k].src, wire[k].frame, S, J)
        \/ IsEnd(wire[k]) /\ phase = "done"
    BY DEF WireState, OnWire
  <2>3. CASE Opening(wire[k]) /\ k = 1 /\ ~ready
    <3>1. n # 1 /\ m = 1  BY <1>5, <2>1, <2>3
    <3>2. ~Opening(wire[n])
      <4>1. \/ Datum(wire[n]) \/ IsEnd(wire[n])  BY <3>1 DEF WireState, OnWire
      <4> QED BY <4>1 DEF Datum, IsBlock, Opening, IsStart, IsEnd, Blank
    <3> QED BY <2>1, <2>3, <3>1, <3>2
  <2>4. CASE ~(Opening(wire[k]) /\ k = 1 /\ ~ready)  BY <1>3, <2>1, <2>2, <2>4
  <2> QED BY <2>3, <2>4
<1>7. ASSUME NEW l \in DOMAIN wire', NEW m \in DOMAIN wire', l < m, Datum(wire'[m])
      PROVE  wire'[l].idx < wire'[m].idx
  <2>1. PICK a \in DOMAIN wire : a = (IF l < n THEN l ELSE l + 1) /\ wire'[l] = wire[a]
    BY <1>2
  <2>2. PICK k \in DOMAIN wire : k = (IF m < n THEN m ELSE m + 1) /\ wire'[m] = wire[k]
    BY <1>2
  <2>3. a < k  BY <1>5, <1>7, <2>1, <2>2
  <2> QED BY <1>7, <2>1, <2>2, <2>3 DEF WireState, OnWire
<1>8. OnWire(S, J)'  BY <1>6, <1>7 DEF OnWire
<1>9. ASSUME NEW s, NEW f, NEW b, Carried(s, f, b)'
      PROVE  \E k \in DOMAIN wire : k # n /\ CarriedBy(k, s, f, b)
  <2>1. PICK m \in DOMAIN wire' : CarriedBy(m, s, f, b)'  BY <1>9 DEF Carried
  <2>2. PICK k \in DOMAIN wire : wire'[m] = wire[k] /\ k # n  BY <1>2
  <2> QED BY <2>1, <2>2 DEF CarriedBy
<1>10. ASSUME NEW s, NEW f, NEW b, Carried(s, f, b), ~CarriedBy(n, s, f, b)
       PROVE  Carried(s, f, b)'
  <2>1. PICK k \in DOMAIN wire : CarriedBy(k, s, f, b)  BY <1>10 DEF Carried
  <2>2. k # n  BY <1>10, <2>1
  <2>3. PICK m \in DOMAIN wire' : wire'[m] = wire[k]  BY <1>2, <2>2
  <2>4. CarriedBy(m, s, f, b)'  BY <2>1, <2>3 DEF CarriedBy
  <2> QED BY <2>4 DEF Carried
<1>11. ASSUME NEW s, NEW f, NEW b, CarriedBy(n, s, f, b), Carried(s, f, b)'
       PROVE  FALSE
  <2>1. PICK k \in DOMAIN wire : k # n /\ CarriedBy(k, s, f, b)  BY <1>9, <1>11
  <2>2. Datum(wire[k]) /\ Datum(wire[n]) /\ wire[k].idx = wire[n].idx
    BY <1>11, <2>1 DEF CarriedBy, Datum
  <2>3. k < n \/ n < k  BY <1>5, <2>1
  <2>4. wire[n].idx < wire[n].idx  BY <2>2, <2>3 DEF WireState, OnWire
  <2>5. wire[n] \in Packet  BY <1>1
  <2> QED BY <2>4, <2>5 DEF Packet
<1> QED BY <1>4, <1>8, <1>9, <1>10, <1>11 DEF Carried

\* What is left is as it was, whatever happens to the slots of a receiver that
\* has the start packet.
LEMMA WireShrunk ==
  ASSUME NEW S \in Nat, NEW J \in FrameId, WireState(S, J), Counted,
         NEW n \in DOMAIN wire, wire' = Without(n), UNCHANGED sendVars,
         IF Opening(wire[n]) THEN ready' ELSE ready' = ready,
         ~ready' => item' = item
  PROVE  Counted' /\ WireState(S, J)'
<1>1. Counted' /\ SentTo(S, J)' /\ OnWire(S, J)'  BY Shrunk
<1>2. Unopened(S, J)'
  <2>0. wire \in Seq(Packet) /\ wire # <<>> /\ ~(S = 0 /\ J = 0)
    BY DEF WireState, Unopened, Counted, SendTypes
  <2>1. SUFFICES ASSUME ~ready' PROVE  wire' # <<>> /\ Opening(wire'[1])
    BY <2>0 DEF WireState, Unopened
  <2>2. Opening(wire[1]) /\ ~Opening(wire[n])
    BY <2>0, <2>1 DEF WireState, Unopened
  <2>3. /\ n # 1 /\ 1 \in DOMAIN wire /\ n \in Nat /\ n >= 1 /\ n \in 1 .. Len(wire)
        /\ Len(wire) \in Nat
    BY <2>0, <2>2
  <2>4. 1 \in 1 .. Len(wire) - 1 /\ wire' = Without(n)  BY <2>3
  <2>5. 1 \in DOMAIN wire' /\ wire'[1] = wire[1]  BY <2>3, <2>4 DEF Without
  <2> QED BY <2>2, <2>5
<1> QED BY <1>1, <1>2 DEF WireState

\* What is taken off the wire without effect on the slots leaves the rest true.
LEMMA Dropped ==
  ASSUME NEW S \in Nat, NEW J \in FrameId, NetState(S, J), Counted,
         NEW n \in DOMAIN wire, ~Opening(wire[n]), wire' = Without(n),
         UNCHANGED <<sendVars, item, ready>>
  PROVE  Counted' /\ NetState(S, J)'
<1>1. Counted' /\ WireState(S, J)'  BY NetWire, WireShrunk
<1>2. \A s, f, b : Carried(s, f, b)' => Carried(s, f, b)  BY Shrunk, NetWire
<1>3. InSlots(S, J)'  BY <1>2 DEF NetState, InSlots
<1> QED BY <1>1, <1>3 DEF NetState, WireState

-----------------------------------------------------------------------------
(* What pkt2cache does with a data packet that comes for the first time.   *)

LEMMA PartCount ==
  ASSUME NEW F, IsFiniteSet(F), NEW A \in SUBSET F
  PROVE  /\ IsFiniteSet(A) /\ Cardinality(A) \in Nat /\ Cardinality(F) \in Nat
         /\ Cardinality(A) <= Cardinality(F)
         /\ Cardinality(A) >= Cardinality(F) <=> A = F
         /\ \A x \in F \ A : Cardinality(A \cup {x}) = Cardinality(A) + 1
<1>1. /\ IsFiniteSet(A) /\ Cardinality(A) <= Cardinality(F)
      /\ Cardinality(F) = Cardinality(A) => F = A
  BY FS_Subset
<1>2. Cardinality(A) \in Nat /\ Cardinality(F) \in Nat
  BY <1>1, FS_CardinalityType
<1>3. \A x \in F \ A : Cardinality(A \cup {x}) = Cardinality(A) + 1
  BY <1>1, FS_AddElement
<1> QED BY <1>1, <1>2, <1>3

LEMMA IdSets ==
  /\ IsFiniteSet(BlkId) /\ Cardinality(BlkId) = FrameBlks
  /\ IsFiniteSet(FrameId) /\ Cardinality(FrameId) = PicBlks
<1>1. /\ FrameBlks \in Nat \ {0} /\ PicBlks \in Nat \ {0}  BY Cut
<1>2. /\ 0 <= FrameBlks - 1 /\ FrameBlks - 1 \in Int /\ (FrameBlks - 1) - 0 + 1 = FrameBlks
      /\ 0 <= PicBlks - 1 /\ PicBlks - 1 \in Int /\ (PicBlks - 1) - 0 + 1 = PicBlks
  BY <1>1
<1> QED BY <1>2, FS_Interval DEF BlkId, FrameId

LEMMA StoredIs ==
  ASSUME Recv!TypeOK, NEW pkt, pkt.pic \in SlotId, pkt.frame \in FrameId, pkt.blk \in BlkId,
         NEW x \in FrameId, NEW y \in BlkId
  PROVE  Recv!StoredPic(pkt)[x][y] =
           IF x = pkt.frame /\ y = pkt.blk
             THEN [size |-> pkt.size, group |-> pkt.group, src |-> pkt.src]
             ELSE item[pkt.pic][x][y]
<1>1. item[pkt.pic] \in [FrameId -> [BlkId -> Recv!Items]]
  BY RecvSets DEF Recv!TypeOK
<1> QED BY <1>1 DEF Recv!StoredPic

LEMMA DatumIs ==
  ASSUME NEW pkt \in Packet, Datum(pkt)
  PROVE  /\ pkt.pic \in SlotId /\ pkt.frame \in FrameId /\ pkt.blk \in BlkId
         /\ pkt.blk \in 0 .. FramePkts(pkt.frame) - 1
         /\ pkt.src \in Nat /\ pkt.group \in Nat /\ pkt.idx \in Nat
         /\ pkt.data_type = 0 /\ pkt.len \in Nat /\ pkt.size \in Nat /\ pkt.size > 0
         /\ pkt.size = pkt.len + HdrSize /\ pkt.len = Payload(pkt.frame, pkt.blk)
<1>1. /\ pkt.blk \in BlkId /\ pkt.frame \in FrameId /\ pkt.blk < FramePkts(pkt.frame)
      /\ pkt.size = pkt.len + HdrSize /\ pkt.len \in Nat /\ pkt.size \in Nat
      /\ pkt.idx \in Nat /\ pkt.src \in Nat /\ pkt.group \in Nat
  BY DEF Datum, IsBlock, Packet
<1>2. FramePkts(pkt.frame) \in Nat /\ pkt.blk \in Nat
  BY <1>1, FrameCut, Cut DEF BlkId
<1> QED BY <1>1, <1>2, ConstTypes DEF Datum, IsBlock

LEMMA NoneComplete == \A f : ~Completes(f, {})
<1>1. 0 \in BlkId  BY Cut DEF BlkId
<1> QED BY <1>1 DEF Completes

\* the blocks of frame x once the packet is stored
StoredBlks(pkt, x) == {y \in BlkId : Recv!Held(Recv!StoredPic(pkt)[x][y])}

LEMMA DatumStored ==
  ASSUME Recv!TypeOK, ready, NEW pkt \in Packet, Datum(pkt), SlotCount(pkt.pic),
         ~Recv!Held(item[pkt.pic][pkt.frame][pkt.blk]), Fresh(pkt), Recv!Receive(pkt)
  PROVE  /\ ready' /\ SlotCount(pkt.pic)'
         /\ \A q \in SlotId : q # pkt.pic => /\ item'[q] = item[q]
                                             /\ frameNum'[q] = frameNum[q]
                                             /\ completeNum'[q] = completeNum[q]
         /\ \/ /\ pictures' = pictures
               /\ item' = [item EXCEPT ![pkt.pic] = Recv!StoredPic(pkt)]
            \/ /\ pictures' = Append(pictures, Recv!Image(Recv!StoredPic(pkt)))
               /\ item' = [item EXCEPT ![pkt.pic] = Recv!EmptyPic]
               /\ \A x \in FrameId : Completes(x, StoredBlks(pkt, x))
<1> DEFINE p == pkt.pic  f == pkt.frame  b == pkt.blk
           rec == [size |-> pkt.size, group |-> pkt.group, src |-> pkt.src]
           stored == Recv!StoredPic(pkt)
           H(x) == {y \in BlkId : Recv!Held(stored[x][y])}
           full == {x \in FrameId : Completes(x, H(x))}
<1>1. /\ p \in SlotId /\ f \in FrameId /\ b \in BlkId /\ Recv!Held(rec)
      /\ pkt.data_type = 0 /\ pkt.size = pkt.len + HdrSize
      /\ pkt.size < BlockSize <=> ~NoShortTail /\ f = PicBlks - 1 /\ b = LastBlk
  <2>1. /\ p \in SlotId /\ f \in FrameId /\ b \in BlkId /\ b \in 0 .. FramePkts(f) - 1
        /\ pkt.data_type = 0 /\ pkt.size = Payload(f, b) + HdrSize /\ pkt.size > 0
        /\ pkt.size = pkt.len + HdrSize /\ pkt.size \in Nat
    BY DatumIs
  <2>2. pkt.size < BlockSize <=> ~NoShortTail /\ f = PicBlks - 1 /\ b = LastBlk
    <3>1. CASE f = PicBlks - 1 /\ b = LastBlk
      BY <2>1, <3>1, ConstTypes DEF NoShortTail, LastBlk
    <3>2. CASE ~(f = PicBlks - 1 /\ b = LastBlk)
      <4>1. Payload(f, b) = BlockSize  BY <2>1, <3>2, PayloadCut DEF LastBlk
      <4> QED BY <2>1, <3>2, <4>1, ConstTypes
    <3> QED BY <3>1, <3>2
  <2> QED BY <2>1, <2>2, ConstTypes DEF Recv!Held
<1>2. /\ item \in [SlotId -> [FrameId -> [BlkId -> Recv!Items]]]
      /\ frameNum \in [SlotId -> [FrameId -> Nat]] /\ completeNum \in [SlotId -> Nat]
  BY RecvSets DEF Recv!TypeOK
<1>3. /\ \A x \in FrameId : x # f => H(x) = Recv!HeldBlks(p, x)
      /\ H(f) = Recv!HeldBlks(p, f) \cup {b} /\ b \notin Recv!HeldBlks(p, f)
      /\ b \in BlkId \ Recv!HeldBlks(p, f)
  <2>1. \A x \in FrameId, y \in BlkId :
          stored[x][y] = IF x = f /\ y = b THEN rec ELSE item[p][x][y]
    BY <1>1, StoredIs
  <2> HIDE DEF stored, rec, p, f, b
  <2> QED BY <1>1, <2>1, RecvSets DEF Recv!HeldBlks, p, f, b
<1>4. /\ \A x \in FrameId : Recv!HeldBlks(p, x) \in SUBSET BlkId
      /\ \A x \in FrameId : frameNum[p][x] = Cardinality(Recv!HeldBlks(p, x))
      /\ completeNum[p] = Cardinality(FullFrames(p)) /\ FullFrames(p) \in SUBSET FrameId
  BY <1>1, RecvSets DEF SlotCount, FullFrames, Recv!HeldBlks
<1>5. /\ Recv!NewFrameNum(pkt) = Cardinality(H(f))
      /\ Recv!FrameDone(pkt) <=> Completes(f, H(f))
  <2>1. Recv!NewFrameNum(pkt) = frameNum[p][f] + 1
    BY DEF Recv!NewFrameNum, Recv!NotRtx
  <2>2. Cardinality(H(f)) = frameNum[p][f] + 1
    BY <1>1, <1>3, <1>4, IdSets, PartCount
  <2>3. H(f) \in SUBSET BlkId  OBVIOUS
  <2>4. Cardinality(H(f)) >= FrameBlks <=> H(f) = BlkId
    BY <2>3, IdSets, PartCount
  <2>5. LastBlk \in H(f) /\ ~NoShortTail /\ f = PicBlks - 1 <=>
          b = LastBlk /\ ~NoShortTail /\ f = PicBlks - 1
    <3>1. ~NoShortTail /\ f = PicBlks - 1 => LastBlk \notin Recv!HeldBlks(p, f)
      BY DEF Fresh, Recv!HeldBlks
    <3> HIDE DEF H
    <3> QED BY <1>1, <1>3, <3>1
  <2> HIDE DEF H, f, b
  <2>6. Recv!FrameDone(pkt) <=> Cardinality(H(f)) >= FrameBlks \/ pkt.size < BlockSize
    BY <2>1, <2>2 DEF Recv!FrameDone
  <2> QED BY <1>1, <2>1, <2>2, <2>4, <2>5, <2>6 DEF Completes
<1>6. /\ Recv!NewCompleteNum(pkt) = Cardinality(full)
      /\ Recv!PicDone(pkt) <=> full = FrameId
  <2>1. f \in FrameId \ FullFrames(p)
    <3>1. ~Completes(f, Recv!HeldBlks(p, f))
      BY <1>3 DEF Completes, Fresh, Recv!HeldBlks
    <3> QED BY <1>1, <3>1 DEF FullFrames
  <2>2. full = IF Completes(f, H(f)) THEN FullFrames(p) \cup {f} ELSE FullFrames(p)
    <3> HIDE DEF H
    <3> QED BY <1>1, <1>3, <2>1 DEF FullFrames
  <2>3. Cardinality(FullFrames(p) \cup {f}) = Cardinality(FullFrames(p)) + 1
        /\ Cardinality(FullFrames(p)) \in Nat
    BY <1>4, <2>1, IdSets, PartCount
  <2>4. Recv!NewCompleteNum(pkt) = Cardinality(full)
    <3> HIDE DEF H, full
    <3>1. CASE Completes(f, H(f))
      <4>1. Cardinality(full) = Cardinality(FullFrames(p)) + 1  BY <2>2, <2>3, <3>1
      <4> QED BY <1>4, <1>5, <3>1, <4>1 DEF Recv!NewCompleteNum
    <3>2. CASE ~Completes(f, H(f))
      <4>1. Cardinality(full) = Cardinality(FullFrames(p))  BY <2>2, <3>2
      <4> QED BY <1>4, <1>5, <2>3, <3>2, <4>1 DEF Recv!NewCompleteNum
    <3> QED BY <3>1, <3>2
  <2>5. full \in SUBSET FrameId  OBVIOUS
  <2>6. Cardinality(full) >= PicBlks <=> full = FrameId
    BY <2>5, IdSets, PartCount
  <2> QED BY <2>4, <2>6 DEF Recv!PicDone
<1>7. Recv!StoreBlock(pkt) \/ Recv!CompletePicture(pkt)
  <2>1. ~Recv!StartInfo(pkt) /\ ~Recv!EndInfo(pkt)
    BY <1>1 DEF Recv!StartInfo, Recv!EndInfo
  <2>2. ~Recv!Discard(pkt)
    <3>1. Recv!InRange(pkt)  BY <1>1, Cut DEF Recv!InRange, SlotId, FrameId
    <3> QED BY <1>1, <3>1 DEF Recv!Discard, Recv!WellFormed, Recv!TooFast
  <2> QED BY <2>1, <2>2 DEF Recv!Receive
<1>9. CASE Recv!StoreBlock(pkt)
  <2>1. /\ item' = [item EXCEPT ![p] = stored] /\ ready' /\ pictures' = pictures
        /\ frameNum' = [frameNum EXCEPT ![p][f] = Recv!NewFrameNum(pkt)]
        /\ completeNum' = [completeNum EXCEPT ![p] = Recv!NewCompleteNum(pkt)]
        /\ ~Recv!PicDone(pkt)
    BY <1>9 DEF Recv!StoreBlock
  <2>2. /\ item'[p] = stored /\ completeNum'[p] = Cardinality(full)
        /\ frameNum'[p][f] = Cardinality(H(f))
        /\ \A x \in FrameId : x # f => frameNum'[p][x] = frameNum[p][x]
        /\ \A q \in SlotId : q # p => /\ item'[q] = item[q] /\ frameNum'[q] = frameNum[q]
                                      /\ completeNum'[q] = completeNum[q]
    BY <1>1, <1>2, <1>5, <1>6, <2>1
  <2>3. \A x \in FrameId : Recv!HeldBlks(p, x)' = H(x)
    BY <2>2, RecvSets DEF Recv!HeldBlks
  <2>4. FullFrames(p)' = full
    <3> HIDE DEF H
    <3> QED BY <2>3 DEF FullFrames
  <2>5. \A x \in FrameId : frameNum'[p][x] = Cardinality(Recv!HeldBlks(p, x)')
    <3>1. SUFFICES ASSUME NEW x \in FrameId PROVE frameNum'[p][x] = Cardinality(H(x))
      BY <2>3
    <3>2. CASE x = f  BY <2>2, <3>2
    <3>3. CASE x # f
      <4>1. /\ frameNum'[p][x] = frameNum[p][x] /\ H(x) = Recv!HeldBlks(p, x)
            /\ frameNum[p][x] = Cardinality(Recv!HeldBlks(p, x))
        BY <1>3, <1>4, <2>2, <3>3
      <4> HIDE DEF H
      <4> QED BY <4>1
    <3> QED BY <3>2, <3>3
  <2>6. completeNum'[p] < PicBlks
    <3>1. Cardinality(full) \in Nat /\ ~(Cardinality(full) >= PicBlks)
      <4>1. full \in SUBSET FrameId  OBVIOUS
      <4> QED BY <1>6, <2>1, <4>1, IdSets, PartCount
    <3> QED BY <2>2, <3>1, Cut
  <2>7. SlotCount(p)'
    <3>1. /\ \A x \in FrameId : frameNum'[p][x] = Cardinality(Recv!HeldBlks(p, x)')
          /\ completeNum'[p] = Cardinality(FullFrames(p)') /\ completeNum'[p] < PicBlks
      BY <2>2, <2>4, <2>5, <2>6
    <3> QED BY <3>1 DEF SlotCount
  <2> QED BY <2>1, <2>2, <2>7
<1>10. CASE Recv!CompletePicture(pkt)
  <2>1. /\ pictures' = Append(pictures, Recv!Image(stored)) /\ ready' = ready
        /\ Recv!FreePicture(p) /\ Recv!PicDone(pkt)
    BY <1>10 DEF Recv!CompletePicture
  <2>2. /\ item' = [item EXCEPT ![p] = Recv!EmptyPic]
        /\ frameNum' = [frameNum EXCEPT ![p] = [x \in FrameId |-> 0]]
        /\ completeNum' = [completeNum EXCEPT ![p] = 0]
    BY <2>1, RecvSets DEF Recv!FreePicture
  <2>3. /\ item'[p] = Recv!EmptyPic /\ completeNum'[p] = 0
        /\ \A x \in FrameId : frameNum'[p][x] = 0
        /\ \A q \in SlotId : q # p => /\ item'[q] = item[q] /\ frameNum'[q] = frameNum[q]
                                      /\ completeNum'[q] = completeNum[q]
    BY <1>1, <1>2, <2>2
  <2>4. \A x \in FrameId : Recv!HeldBlks(p, x)' = {}
    BY <2>3, EmptyPicType, RecvSets DEF Recv!HeldBlks
  <2>5. FullFrames(p)' = {}  BY <2>4, NoneComplete DEF FullFrames
  <2>6. SlotCount(p)'
    <3>1. Cardinality({}) = 0 /\ 0 < PicBlks  BY FS_EmptySet, Cut
    <3> QED BY <2>3, <2>4, <2>5, <3>1 DEF SlotCount
  <2>7. \A x \in FrameId : Completes(x, StoredBlks(pkt, x))
    BY <1>6, <2>1 DEF StoredBlks
  <2> QED BY <2>1, <2>2, <2>3, <2>6, <2>7
<1> QED BY <1>7, <1>9, <1>10

LEMMA SlotCountSame ==
  ASSUME NEW q, SlotCount(q), item'[q] = item[q], frameNum'[q] = frameNum[q],
         completeNum'[q] = completeNum[q]
  PROVE  SlotCount(q)'
<1>1. \A x \in FrameId : Recv!HeldBlks(q, x)' = Recv!HeldBlks(q, x)
  BY DEF Recv!HeldBlks
<1>2. FullFrames(q)' = FullFrames(q)  BY <1>1 DEF FullFrames
<1> QED BY <1>1, <1>2 DEF SlotCount

LEMMA DatumReceived ==
  ASSUME Recv!TypeOK, SlotsCount, ready, NEW pkt \in Packet, Datum(pkt),
         ~Recv!Held(item[pkt.pic][pkt.frame][pkt.blk]), Fresh(pkt), Recv!Receive(pkt)
  PROVE  /\ ready' /\ SlotsCount'
         /\ \/ /\ pictures' = pictures
               /\ item' = [item EXCEPT ![pkt.pic] = Recv!StoredPic(pkt)]
            \/ /\ pictures' = Append(pictures, Recv!Image(Recv!StoredPic(pkt)))
               /\ item' = [item EXCEPT ![pkt.pic] = Recv!EmptyPic]
               /\ \A x \in FrameId : Completes(x, StoredBlks(pkt, x))
<1>1. SlotCount(pkt.pic)  BY DatumIs DEF SlotsCount
<1>2. SlotsCount'
  <2>1. SUFFICES ASSUME NEW q \in SlotId PROVE SlotCount(q)'  BY DEF SlotsCount
  <2>2. CASE q = pkt.pic  BY <1>1, <2>2, DatumStored
  <2>3. CASE q # pkt.pic  BY <1>1, <2>3, DatumStored, SlotCountSame DEF SlotsCount
  <2> QED BY <2>2, <2>3
<1> QED BY <1>1, <1>2, DatumStored

LEMMA SlotsSame ==
  ASSUME SlotsCount, UNCHANGED <<item, frameNum, completeNum>>
  PROVE  SlotsCount'
<1>1. \A p \in SlotId, x \in FrameId : Recv!HeldBlks(p, x)' = Recv!HeldBlks(p, x)
  BY DEF Recv!HeldBlks
<1>2. \A p \in SlotId : FullFrames(p)' = FullFrames(p)  BY <1>1 DEF FullFrames
<1> QED BY <1>1, <1>2 DEF SlotsCount, SlotCount

LEMMA SlotsEmpty ==
  ASSUME (\A q \in SlotId : Vacant(q))'
  PROVE  SlotsCount'
<1>1. \A q \in SlotId, x \in FrameId : Recv!HeldBlks(q, x)' = {}
  BY RecvSets DEF Vacant, Recv!HeldBlks
<1>2. \A q \in SlotId : FullFrames(q)' = {}
  BY <1>1, NoneComplete DEF FullFrames
<1>3. Cardinality({}) = 0 /\ 0 < PicBlks  BY FS_EmptySet, Cut
<1> QED BY <1>1, <1>2, <1>3 DEF SlotsCount, SlotCount, Vacant

\* The block is put in its slot, or with it the whole slot comes out.
TakesIn(pkt) ==
  \/ /\ pictures' = pictures
     /\ item' = [item EXCEPT ![pkt.pic] = Recv!StoredPic(pkt)]
  \/ /\ pictures' = Append(pictures, Recv!Image(Recv!StoredPic(pkt)))
     /\ item' = [item EXCEPT ![pkt.pic] = Recv!EmptyPic]
     /\ \A x \in FrameId : Completes(x, StoredBlks(pkt, x))

LEMMA TakesInWhole ==
  ASSUME NoShortTail, NEW pkt, TakesIn(pkt)
  PROVE  \/ /\ pictures' = pictures
            /\ item' = [item EXCEPT ![pkt.pic] = Recv!StoredPic(pkt)]
         \/ /\ pictures' = Append(pictures, Recv!Image(Recv!StoredPic(pkt)))
            /\ item' = [item EXCEPT ![pkt.pic] = Recv!EmptyPic]
            /\ \A x \in FrameId, y \in BlkId : Recv!Held(Recv!StoredPic(pkt)[x][y])
<1>1. (\A x \in FrameId : Completes(x, StoredBlks(pkt, x))) =>
        \A x \in FrameId, y \in BlkId : Recv!Held(Recv!StoredPic(pkt)[x][y])
  BY DEF Completes, StoredBlks
<1> QED BY <1>1 DEF TakesIn

\* A packet that arrives is the start packet; or it changes nothing, for no
\* other reason, if it is a block, than that another picture's block is in its
\* place; or it is a block and finds its place free.
LEMMA Arrival ==
  ASSUME Recv!TypeOK, SlotsCount, Counted,
         NEW S \in Nat, NEW J \in FrameId, NetState(S, J),
         NEW n \in DOMAIN wire, ~ready => n = 1, Recv!Receive(wire[n]),
         Datum(wire[n]) => Fresh(wire[n])
  PROVE  /\ SlotsCount'
         /\ \/ /\ Opening(wire[n]) /\ ready' /\ pictures' = pictures
               /\ \A p \in SlotId, f \in FrameId, b \in BlkId : ~Recv!Held(item'[p][f][b])
            \/ /\ ~Opening(wire[n]) /\ UNCHANGED <<item, ready, pictures>>
               /\ Datum(wire[n]) =>
                    LET it == item[wire[n].pic][wire[n].frame][wire[n].blk]
                    IN  Recv!Held(it) /\ it.src # wire[n].src
            \/ /\ ready /\ ready' /\ Datum(wire[n]) /\ TakesIn(wire[n])
               /\ ~Recv!Held(item[wire[n].pic][wire[n].frame][wire[n].blk])
<1>1. wire[n] \in Packet  BY DEF Counted, SendTypes
<1>2. PICK pkt \in Packet : pkt = wire[n]  BY <1>1
<1>3. CASE Opening(pkt)
  <2>1. /\ ready' /\ pictures' = pictures /\ (\A q \in SlotId : Vacant(q))'
    BY <1>2, <1>3, StartReceived DEF Opening
  <2> QED BY <1>2, <1>3, <2>1, SlotsEmpty DEF Vacant
<1>4. CASE IsEnd(pkt)
  <2>1. UNCHANGED <<item, frameNum, completeNum, ready, pictures>>
    BY <1>2, <1>4, EndReceived
  <2>2. ~Opening(pkt)  BY <1>4 DEF Opening, IsStart, IsEnd, Blank
  <2>3. ~Datum(pkt)
    <3>1. ASSUME Datum(pkt) PROVE pkt.data_type = 0 /\ pkt.size > 0
      BY <3>1, DatumIs
    <3> QED BY <1>4, <3>1 DEF IsEnd, Blank
  <2> QED BY <1>2, <2>1, <2>2, <2>3, SlotsSame
<1>5. CASE Datum(pkt) /\ ~Opening(pkt)
  <2>1. ready
    <3>1. ~ready => wire # <<>> /\ Opening(wire[1])
      BY DEF NetState, Unopened
    <3> QED BY <1>2, <1>5, <3>1
  <2> DEFINE it == item[pkt.pic][pkt.frame][pkt.blk]
  <2>2. CASE ~Recv!Held(it)
    <3>1. ready' /\ SlotsCount' /\ TakesIn(pkt)
      BY <1>2, <1>5, <2>1, <2>2, DatumReceived DEF TakesIn
    <3> QED BY <1>2, <1>5, <2>1, <2>2, <3>1
  <2>3. CASE Recv!Held(it)
    <3>1. /\ pkt.pic \in SlotId /\ pkt.frame \in FrameId /\ pkt.blk \in BlkId
          /\ pkt.data_type = 0
      BY <1>5, DatumIs
    <3>2. (GroupBlks * it.group) + pkt.pic = it.src
          /\ ~Carried(it.src, pkt.frame, pkt.blk)
      BY <2>3, <3>1 DEF NetState, InSlots
    <3>3. it.src # pkt.src
      BY <1>2, <1>5, <3>2 DEF Carried, CarriedBy
    <3>4. (GroupBlks * pkt.group) + pkt.pic = pkt.src  BY <1>5 DEF Datum
    <3>5. it.group # pkt.group  BY <3>2, <3>3, <3>4
    <3>6. ~Recv!Storable(pkt)
      BY <2>3, <3>5 DEF Recv!Storable, Recv!TooFast
    <3>7. Recv!Discard(pkt)
      BY <1>2, <3>1, <3>6 DEF Recv!Receive, Recv!StoreBlock, Recv!CompletePicture,
                             Recv!StartInfo, Recv!EndInfo
    <3>8. UNCHANGED <<item, frameNum, completeNum, ready, pictures>>
      BY <3>7 DEF Recv!Discard, Recv!cacheVars
    <3> QED BY <1>2, <1>5, <2>3, <3>3, <3>8, SlotsSame
  <2> QED BY <2>2, <2>3
<1>6. Opening(pkt) \/ IsEnd(pkt) \/ Datum(pkt)  BY <1>2 DEF NetState, OnWire
<1> QED BY <1>3, <1>4, <1>5, <1>6

\* What a slot holds once a block has been taken in.
LEMMA HeldAfter ==
  ASSUME Recv!TypeOK, NEW pkt \in Packet, Datum(pkt), TakesIn(pkt),
         NEW p \in SlotId, NEW f \in FrameId, NEW b \in BlkId,
         Recv!Held(item'[p][f][b])
  PROVE  \/ /\ p = pkt.pic /\ f = pkt.frame /\ b = pkt.blk
            /\ item'[p][f][b].src = pkt.src /\ item'[p][f][b].group = pkt.group
         \/ /\ Recv!Held(item[p][f][b]) /\ item'[p][f][b] = item[p][f][b]
            /\ ~(p = pkt.pic /\ f = pkt.frame /\ b = pkt.blk)
<1>1. /\ pkt.pic \in SlotId /\ pkt.frame \in FrameId /\ pkt.blk \in BlkId  BY DatumIs
<1>2. item \in [SlotId -> [FrameId -> [BlkId -> Recv!Items]]]
  BY RecvSets DEF Recv!TypeOK
<1>3. CASE p # pkt.pic
  <2>1. item'[p] = item[p]  BY <1>2, <1>3 DEF TakesIn
  <2> QED BY <1>3, <2>1
<1>4. CASE p = pkt.pic
  <2>1. item'[p] = Recv!StoredPic(pkt) \/ item'[p] = Recv!EmptyPic
    BY <1>2, <1>4 DEF TakesIn
  <2>2. item'[p] = Recv!StoredPic(pkt)  BY <2>1, EmptyPicType
  <2>3. item'[p][f][b] = IF f = pkt.frame /\ b = pkt.blk
             THEN [size |-> pkt.size, group |-> pkt.group, src |-> pkt.src]
             ELSE item[p][f][b]
    BY <1>1, <1>4, <2>2, StoredIs
  <2> QED BY <1>4, <2>3
<1> QED BY <1>3, <1>4

\* A delivery leaves the rest true.
LEMMA DeliverState ==
  ASSUME Recv!TypeOK, SlotsCount, Counted,
         NEW S \in Nat, NEW J \in FrameId, NetState(S, J),
         NEW n \in DOMAIN wire, ~ready => n = 1, Recv!Receive(wire[n]),
         Datum(wire[n]) => Fresh(wire[n]), wire' = Without(n), UNCHANGED sendVars
  PROVE  Counted' /\ SlotsCount' /\ NetState(S, J)'
<1>1. SlotsCount'  BY Arrival
<1>2. PICK pkt \in Packet : pkt = wire[n]  BY DEF Counted, SendTypes
<1>3. CASE /\ Opening(wire[n]) /\ ready'
           /\ \A p \in SlotId, f \in FrameId, b \in BlkId : ~Recv!Held(item'[p][f][b])
  <2>1. Counted' /\ SentTo(S, J)' /\ OnWire(S, J)'  BY <1>3, Shrunk, NetWire
  <2>2. Unopened(S, J)' /\ InSlots(S, J)'
    <3>1. ~(S = 0 /\ J = 0)  BY DEF NetState, Unopened
    <3> QED BY <1>3, <3>1 DEF Unopened, InSlots
  <2> QED BY <1>1, <2>1, <2>2 DEF NetState
<1>4. CASE ~Opening(wire[n]) /\ UNCHANGED <<item, ready>>
  BY <1>1, <1>4, Dropped
<1>5. CASE ready /\ ready' /\ Datum(wire[n]) /\ TakesIn(wire[n])
  <2>1. ~Opening(wire[n])  BY <1>5 DEF Datum, IsBlock, Opening, IsStart
  <2>2. /\ Counted' /\ SentTo(S, J)' /\ OnWire(S, J)'
        /\ \A s, f, b : Carried(s, f, b)' => Carried(s, f, b)
        /\ \A s, f, b : CarriedBy(n, s, f, b) => ~Carried(s, f, b)'
    BY <1>5, <2>1, Shrunk, NetWire
  <2>3. Unopened(S, J)'  BY <1>5 DEF NetState, Unopened
  <2>4. InSlots(S, J)'
    <3>1. SUFFICES ASSUME NEW p \in SlotId, NEW f \in FrameId, NEW b \in BlkId,
                          NEW it, it = item'[p][f][b], Recv!Held(it)
                   PROVE  /\ (GroupBlks * it.group) + p = it.src
                          /\ b < FramePkts(f) /\ Prior(it.src, f, S, J)
                          /\ ~Carried(it.src, f, b)'
      BY DEF InSlots
    <3>2. CASE /\ p = pkt.pic /\ f = pkt.frame /\ b = pkt.blk
               /\ item'[p][f][b].src = pkt.src /\ item'[p][f][b].group = pkt.group
      <4>1. /\ (GroupBlks * pkt.group) + pkt.pic = pkt.src
            /\ pkt.blk < FramePkts(pkt.frame)
        BY <1>2, <1>5 DEF Datum
      <4>2. Prior(pkt.src, pkt.frame, S, J)
        <5>1. ~IsEnd(pkt)
          <6>1. pkt.data_type = 0 /\ pkt.size > 0  BY <1>2, <1>5, DatumIs
          <6> QED BY <6>1 DEF IsEnd, Blank
        <5> QED BY <1>2, <2>1, <5>1 DEF NetState, OnWire
      <4>3. CarriedBy(n, pkt.src, pkt.frame, pkt.blk)
        BY <1>2, <1>5 DEF CarriedBy
      <4>4. it.src = pkt.src /\ it.group = pkt.group  BY <3>1, <3>2
      <4>5. CarriedBy(n, it.src, f, b)  BY <3>2, <4>3, <4>4
      <4>6. ~Carried(it.src, f, b)'  BY <2>2, <4>5
      <4> QED BY <3>2, <4>1, <4>2, <4>4, <4>6
    <3>3. CASE Recv!Held(item[p][f][b]) /\ item'[p][f][b] = item[p][f][b]
      <4>1. it = item[p][f][b]  BY <3>1, <3>3
      <4>2. /\ (GroupBlks * it.group) + p = it.src
            /\ b < FramePkts(f) /\ Prior(it.src, f, S, J)
            /\ ~Carried(it.src, f, b)
        BY <3>3, <4>1 DEF NetState, InSlots
      <4> QED BY <2>2, <4>2
    <3> QED BY <1>2, <1>5, <3>1, <3>2, <3>3, HeldAfter
  <2> QED BY <1>1, <2>2, <2>3, <2>4 DEF NetState
<1> QED BY <1>3, <1>4, <1>5, Arrival

-----------------------------------------------------------------------------
(* The sender goes on, with packets still on their way.                    *)

LEMMA ReadWire ==
  ASSUME Counted, NEW S \in Nat, NEW J \in FrameId, WireState(S, J),
         ReadPicture \/ ReadShort, UNCHANGED cacheVars
  PROVE  WireState(S, J)' /\ MoreToSend'
<1>1. /\ total' = total /\ wire' = wire /\ groupId' \in Nat /\ phase = "picture"
      /\ pktIdx' = pktIdx /\ fileTail' = fileTail /\ item' = item /\ ready' = ready
  BY DEF ReadPicture, ReadShort, cacheVars, Counted, SendTypes
<1>2. OnWire(S, J)' /\ Unopened(S, J)'
  <2>1. OnWire(S, J)'  BY <1>1 DEF WireState, OnWire
  <2>2. Unopened(S, J)'  BY <1>1 DEF WireState, Unopened
  <2> QED BY <2>1, <2>2
<1>3. CASE ReadPicture
  <2>1. /\ phase' = "frame" /\ j' = 0 /\ J = 0 /\ sumsize' = sumsize + ImgSize
        /\ sumsize = ImgSize * S /\ i' = i /\ picId' = picId /\ groupId' = groupId
    BY <1>1, <1>3 DEF ReadPicture, WireState, SentTo
  <2>2. Source' = S
    <3>1. ImgSize * (S + 1) = (ImgSize * S) + ImgSize  BY ConstTypes
    <3>2. sumsize' = ImgSize * (S + 1)  BY <2>1, <3>1
    <3>3. sumsize' \div ImgSize = S + 1  BY <3>2, ConstTypes, DivExact
    <3> QED BY <3>3 DEF Source
  <2>3. SentTo(S, J)'
    BY <1>1, <2>1, <2>2 DEF WireState, SentTo, PicSlot, SentPictures
  <2> QED BY <1>2, <2>1, <2>3 DEF WireState, MoreToSend
<1>4. CASE ReadShort
  <2>1. phase' = "done"  BY <1>4 DEF ReadShort
  <2>2. SentTo(S, J)'  BY <1>1, <2>1 DEF WireState, SentTo, SentPictures
  <2> QED BY <1>2, <2>1, <2>2 DEF WireState, MoreToSend
<1> QED BY <1>3, <1>4

LEMMA ReadState ==
  ASSUME Counted, NEW S \in Nat, NEW J \in FrameId, NetState(S, J),
         ReadPicture \/ ReadShort, UNCHANGED cacheVars
  PROVE  NetState(S, J)' /\ MoreToSend'
<1>1. WireState(S, J)' /\ MoreToSend'  BY ReadWire, NetWire
<1>2. wire' = wire /\ item' = item  BY DEF ReadPicture, ReadShort, cacheVars
<1>3. InSlots(S, J)'  BY <1>2 DEF NetState, InSlots, Carried, CarriedBy
<1> QED BY <1>1, <1>3 DEF NetState, WireState

LEMMA SendPlaces ==
  ASSUME FramesNumbered, Counted, NEW S \in Nat, NEW J \in FrameId, WireState(S, J),
         SendFrame
  PROVE  /\ wire \in Seq(Packet) /\ wire' \in Seq(Packet) /\ S = Source /\ J = j
         /\ phase = "frame" /\ FramePkts(J) \in Nat \ {0}
         /\ HeadLen = IF S = 0 /\ J = 0 THEN 1 ELSE 0
         /\ HeadLen = 1 => wire = <<>> /\ ~ready
         /\ FirstIdx = IdxOf(S, J, 0) /\ TailLen \in {0, 1}
         /\ Len(wire') = Len(wire) + HeadLen + FramePkts(J) + TailLen
         /\ \A n \in 1 .. Len(wire) : wire'[n] = wire[n]
         /\ HeadLen = 1 => Opening(wire'[1])
         /\ \A n \in 1 .. FramePkts(J), k \in Nat : k = Len(wire) + HeadLen + n =>
              CarriedBy(k, S, J, n - 1)' /\ wire'[k].idx = IdxOf(S, J, 0) + (n - 1)
         /\ fileTail' = Blank \/ fileTail'.data_type = 2
         /\ TailLen = 1 => IsEnd(wire'[Len(wire')])
<1>1. phase = "frame" /\ S = Source /\ J = j /\ wire \in Seq(Packet)
  BY DEF SendFrame, WireState, SentTo, Counted, SendTypes
<1>2. FrameBehind /\ fileTail' \in Packet  BY <1>1, FrameSent
<1>3. /\ frameId = J /\ FirstIdx \in Nat /\ FramePkts(J) \in Nat \ {0}
      /\ PicSlot = i /\ i \in Nat /\ i < GroupBlks /\ PicSlot \in SlotId
      /\ groupId \in Nat /\ seqNo \in Nat /\ (GroupBlks * groupId) + i = S
      /\ pktIdx = IF S = 0 /\ J = 0 THEN 0 ELSE IdxOf(S, J, 0)
  <2>1. /\ frameId = J /\ FirstIdx \in Nat /\ FramePkts(J) \in Nat \ {0}
    BY <1>1, SendNumbers
  <2>2. PicSlot \in SlotId /\ PicSlot = i /\ seqNo \in Nat /\ groupId \in Nat
        /\ i \in Nat /\ i < GroupBlks
    <3>1. PicSlot \in SlotId /\ PicSlot = i
      BY <1>1, SlotType DEF Counted, WireState, SentTo
    <3> QED BY <3>1, ConstTypes, Cut DEF Counted, SendTypes, SlotId
  <2> QED BY <1>1, <2>1, <2>2 DEF WireState, SentTo
<1>4. HeadLen = IF S = 0 /\ J = 0 THEN 1 ELSE 0
  <2>1. PICK x \in Nat : x = GroupBlks * groupId /\ (groupId = 0 => x = 0)
                         /\ (groupId # 0 => x > 0)
    <3>1. GroupBlks * groupId \in Nat /\ GroupBlks * 0 = 0  BY <1>3, Cut
    <3>2. ASSUME groupId # 0 PROVE GroupBlks * groupId > 0
      <4>1. GroupBlks * 1 <= GroupBlks * groupId  BY <1>3, <3>2, Cut, MulMonotonic
      <4> QED BY <3>1, <4>1, Cut
    <3> QED BY <3>1, <3>2
  <2>2. S = 0 <=> groupId = 0 /\ i = 0  BY <1>3, <2>1
  <2> QED BY <1>1, <2>2 DEF HeadLen
<1>5. FirstIdx = IdxOf(S, J, 0)
  <2>1. CASE S = 0 /\ J = 0
    <3>1. BuildsHead /\ pktIdx = 0  BY <1>2, <1>3, <1>4, <2>1 DEF FrameBehind
    <3>2. PicPkts * 0 = 0 /\ FrameBlks * 0 = 0  BY PicPktsIs, Cut
    <3> QED BY <2>1, <3>1, <3>2 DEF FirstIdx, IdxOf
  <2>2. CASE ~(S = 0 /\ J = 0)
    <3>1. ~BuildsHead
      <4>1. ASSUME BuildsHead PROVE FALSE
        <5>1. groupId = 0 /\ i = 0 /\ J % PicBlks = 0
          BY <1>3, <4>1 DEF BuildsHead
        <5>2. J % PicBlks = J  BY Cut DEF FrameId
        <5>3. S = 0  BY <1>3, <5>1, Cut
        <5> QED BY <2>2, <5>1, <5>2, <5>3
      <4> QED BY <4>1
    <3> QED BY <1>3, <2>2, <3>1 DEF FirstIdx
  <2> QED BY <2>1, <2>2
<1>6. HeadLen = 1 => wire = <<>> /\ ~ready
  BY <1>4 DEF WireState, Unopened
<1>7. HeadLen = 1 => Opening(wire'[1])
  <2>1. HeadLen = 1 => wire'[Len(wire) + 1] = InfoPkt(1, 0, seqNo) /\ Len(wire) + 1 = 1
    BY <1>2, <1>6 DEF FrameBehind
  <2>2. SendTypes  BY DEF Counted
  <2>3. /\ InfoPkt(1, 0, seqNo).data_type = 1 /\ InfoPkt(1, 0, seqNo).idx = 0
        /\ InfoPkt(1, 0, seqNo).size = InfoPkt(1, 0, seqNo).len + HdrSize
    BY <1>3, <2>2, InfoPktType
  <2> QED BY <2>1, <2>3 DEF Opening, IsStart
<1>8. ASSUME NEW n \in 1 .. FramePkts(J), NEW k \in Nat, k = Len(wire) + HeadLen + n
      PROVE  CarriedBy(k, S, J, n - 1)' /\ wire'[k].idx = IdxOf(S, J, 0) + (n - 1)
  <2> DEFINE pkt == wire'[k]
  <2>1. pkt = DataPkt(n - 1, FirstIdx + n - 1)  BY <1>1, <1>2, <1>8 DEF FrameBehind
  <2>2. /\ pkt.data_type = 0 /\ pkt.size = pkt.len + HdrSize
        /\ pkt.len = Payload(J, n - 1) /\ pkt.pic = i /\ pkt.frame = J
        /\ pkt.blk = n - 1 /\ pkt.src = S /\ pkt.group = groupId
        /\ pkt.idx = FirstIdx + n - 1
    BY <1>1, <1>3, <2>1 DEF DataPkt
  <2>3. IdxOf(S, J, 0) + (n - 1) = IdxOf(S, J, n - 1) /\ pkt.idx = IdxOf(S, J, 0) + (n - 1)
    <3>1. PICK x \in Nat, y \in Nat : x = PicPkts * S /\ y = FrameBlks * J
      BY PicPktsIs, Cut DEF FrameId
    <3> QED BY <1>5, <2>2, <3>1 DEF IdxOf
  <2>4. n - 1 < FramePkts(J) /\ i \in SlotId  BY <1>3
  <2> HIDE DEF pkt
  <2>5. Datum(pkt)
    BY <1>3, <2>2, <2>3, <2>4 DEF Datum, IsBlock
  <2> QED BY <2>2, <2>3, <2>5 DEF CarriedBy, pkt
<1>9. fileTail' = Blank \/ fileTail'.data_type = 2
  <2>1. fileTail' = fileTail \/ fileTail' = InfoPkt(2, FirstIdx + FramePkts(j), seqNo)
    BY DEF SendFrame, Raw2Pkt
  <2>2. FirstIdx + FramePkts(j) \in Nat  BY <1>1, <1>3
  <2> QED BY <1>3, <2>1, <2>2, InfoPktType DEF WireState, SentTo, Counted
<1>10. TailLen \in {0, 1} /\ Len(wire') = Len(wire) + HeadLen + FramePkts(J) + TailLen
       /\ wire' \in Seq(Packet) /\ \A n \in 1 .. Len(wire) : wire'[n] = wire[n]
  BY <1>1, <1>2 DEF FrameBehind, TailLen
<1>11. TailLen = 1 => IsEnd(wire'[Len(wire')])
  BY <1>1, <1>2, <1>9, <1>10 DEF FrameBehind, IsEnd
<1> QED BY <1>1, <1>3, <1>4, <1>5, <1>6, <1>7, <1>8, <1>9, <1>10, <1>11

\* A frame that is sent joins what is on its way, and nothing else does.
LEMMA SendCarried ==
  ASSUME FramesNumbered, Counted, NEW S \in Nat, NEW J \in FrameId, WireState(S, J),
         SendFrame
  PROVE  /\ \A n \in DOMAIN wire' :
              \/ n \in DOMAIN wire /\ wire'[n] = wire[n]
              \/ n = 1 /\ HeadLen = 1 /\ wire = <<>> /\ ~ready /\ Opening(wire'[n])
              \/ \E m \in 1 .. FramePkts(J) :
                   /\ n = Len(wire) + HeadLen + m /\ CarriedBy(n, S, J, m - 1)'
                   /\ wire'[n].idx = IdxOf(S, J, 0) + (m - 1)
              \/ n = Len(wire') /\ TailLen = 1 /\ IsEnd(wire'[n])
         /\ \A s, f, b : Carried(s, f, b)' <=>
              Carried(s, f, b) \/ (s = S /\ f = J /\ b \in 0 .. FramePkts(J) - 1)
<1>1. /\ wire \in Seq(Packet) /\ wire' \in Seq(Packet)
      /\ FramePkts(J) \in Nat \ {0} /\ TailLen \in {0, 1} /\ HeadLen \in {0, 1}
      /\ HeadLen = 1 => wire = <<>> /\ ~ready
      /\ Len(wire') = Len(wire) + HeadLen + FramePkts(J) + TailLen
      /\ \A n \in 1 .. Len(wire) : wire'[n] = wire[n]
      /\ HeadLen = 1 => Opening(wire'[1])
      /\ \A n \in 1 .. FramePkts(J), k \in Nat : k = Len(wire) + HeadLen + n =>
           CarriedBy(k, S, J, n - 1)' /\ wire'[k].idx = IdxOf(S, J, 0) + (n - 1)
      /\ TailLen = 1 => IsEnd(wire'[Len(wire')])
  BY SendPlaces DEF HeadLen
<1>2. /\ Len(wire) \in Nat /\ DOMAIN wire = 1 .. Len(wire)
      /\ DOMAIN wire' = 1 .. Len(wire')
  BY <1>1, LenProperties
<1>3. ASSUME NEW n \in DOMAIN wire'
      PROVE  \/ n \in DOMAIN wire /\ wire'[n] = wire[n]
             \/ n = 1 /\ HeadLen = 1 /\ wire = <<>> /\ ~ready /\ Opening(wire'[n])
             \/ \E m \in 1 .. FramePkts(J) :
                  /\ n = Len(wire) + HeadLen + m /\ CarriedBy(n, S, J, m - 1)'
                  /\ wire'[n].idx = IdxOf(S, J, 0) + (m - 1)
             \/ n = Len(wire') /\ TailLen = 1 /\ IsEnd(wire'[n])
  <2>1. PICK L \in Nat, h \in {0, 1}, c \in Nat, e \in {0, 1} :
          L = Len(wire) /\ h = HeadLen /\ c = FramePkts(J) /\ e = TailLen
    BY <1>1, <1>2
  <2>2. n \in Nat /\ n >= 1 /\ n <= L + h + c + e  BY <1>1, <1>2, <2>1
  <2>3. CASE n <= L  BY <1>1, <1>2, <2>1, <2>2, <2>3
  <2>4. CASE n > L /\ n <= L + h
    <3>1. h = 1 /\ L = 0 /\ n = 1
      <4>1. h = 1  BY <2>1, <2>4
      <4> QED BY <1>1, <2>1, <2>2, <2>4, <4>1
    <3> QED BY <1>1, <2>1, <3>1
  <2>5. CASE n > L + h /\ n <= L + h + c
    <3>1. PICK m \in 1 .. c : n = L + h + m
      <4>1. n - (L + h) \in 1 .. c /\ n = L + h + (n - (L + h))  BY <2>1, <2>2, <2>5
      <4> QED BY <4>1
    <3> QED BY <1>1, <2>1, <2>2, <3>1
  <2>6. CASE n > L + h + c
    <3>1. e = 1 /\ n = L + h + c + e  BY <2>1, <2>2, <2>6
    <3> QED BY <1>1, <2>1, <3>1
  <2> QED BY <2>1, <2>2, <2>3, <2>4, <2>5, <2>6
<1>4. ASSUME NEW s, NEW f, NEW b, Carried(s, f, b)'
      PROVE  Carried(s, f, b) \/ (s = S /\ f = J /\ b \in 0 .. FramePkts(J) - 1)
  <2>1. PICK n \in DOMAIN wire' : CarriedBy(n, s, f, b)'  BY <1>4 DEF Carried
  <2>2. CASE n \in DOMAIN wire /\ wire'[n] = wire[n]
    BY <2>1, <2>2 DEF Carried, CarriedBy
  <2>3. CASE Opening(wire'[n])
    BY <2>1, <2>3 DEF CarriedBy, Datum, IsBlock, Opening, IsStart
  <2>4. ASSUME NEW m \in 1 .. FramePkts(J), CarriedBy(n, S, J, m - 1)'
        PROVE  s = S /\ f = J /\ b \in 0 .. FramePkts(J) - 1
    <3>1. s = S /\ f = J /\ b = m - 1  BY <2>1, <2>4 DEF CarriedBy
    <3> QED BY <1>1, <3>1
  <2>5. CASE IsEnd(wire'[n])
    <3>1. wire'[n] \in Packet /\ Datum(wire'[n])  BY <1>1, <2>1 DEF CarriedBy
    <3>2. wire'[n].data_type = 0 /\ wire'[n].size > 0  BY <3>1, DatumIs
    <3> QED BY <2>5, <3>2 DEF IsEnd, Blank
  <2> QED BY <1>3, <2>2, <2>3, <2>4, <2>5
<1>5. ASSUME NEW s, NEW f, NEW b, Carried(s, f, b)
      PROVE  Carried(s, f, b)'
  <2>1. PICK n \in DOMAIN wire : CarriedBy(n, s, f, b)  BY <1>5 DEF Carried
  <2>2. n \in DOMAIN wire' /\ wire'[n] = wire[n]  BY <1>1, <1>2
  <2> QED BY <2>1, <2>2 DEF Carried, CarriedBy
<1>6. ASSUME NEW b \in 0 .. FramePkts(J) - 1 PROVE Carried(S, J, b)'
  <2>1. PICK n \in 1 .. FramePkts(J) : b = n - 1
    <3>1. b + 1 \in 1 .. FramePkts(J) /\ b = (b + 1) - 1  BY <1>1
    <3> QED BY <3>1
  <2>2. PICK k \in Nat : k = Len(wire) + HeadLen + n /\ k \in DOMAIN wire'
    BY <1>1, <1>2, SMTT(20)
  <2>3. CarriedBy(k, S, J, b)'  BY <1>1, <2>1, <2>2
  <2> QED BY <2>2, <2>3 DEF Carried
<1>7. \A s, f, b : Carried(s, f, b)' <=>
        Carried(s, f, b) \/ (s = S /\ f = J /\ b \in 0 .. FramePkts(J) - 1)
  <2> SUFFICES ASSUME NEW s, NEW f, NEW b
               PROVE  Carried(s, f, b)' <=> Carried(s, f, b)
                        \/ (s = S /\ f = J /\ b \in 0 .. FramePkts(J) - 1)
    OBVIOUS
  <2> QED BY <1>4, <1>5, <1>6
<1> QED BY <1>3, <1>7

LEMMA SendSentTo ==
  ASSUME FramesNumbered, GroupsWrap, Counted, NEW S \in Nat, NEW J \in FrameId,
         WireState(S, J), MoreToSend, SendFrame
  PROVE  /\ SentTo(NextPic(S, J), NextFrame(J))'
         /\ MoreToSend'
         /\ sumsize >= total => phase' = "done"
         /\ TailLen = 1 => phase' = "done"
<1>1. /\ phase = "frame" /\ S = Source /\ J = j /\ FirstIdx = IdxOf(S, J, 0)
      /\ fileTail' = Blank \/ fileTail'.data_type = 2
  BY SendPlaces
<1>2. /\ J \in Nat /\ J <= PicBlks - 1 /\ PicBlks \in Nat /\ FramePkts(J) \in Nat
      /\ (GroupBlks * groupId) + i = S /\ PicSlot = i /\ i \in Nat /\ groupId \in Nat
      /\ picId \in 0 .. IdMod - 1 /\ GroupBlks \in Nat \ {0} /\ i < GroupBlks
      /\ S <= SentPictures
  <2>1. J \in Nat /\ J <= PicBlks - 1 /\ PicBlks \in Nat /\ FramePkts(J) \in Nat
    BY FrameCut, Cut DEF FrameId
  <2>2. i \in Nat /\ i < GroupBlks /\ groupId \in Nat /\ picId \in 0 .. IdMod - 1
    BY Cut DEF Counted, SendTypes, SlotId
  <2> QED BY <1>1, <2>1, <2>2, Cut DEF WireState, SentTo
<1>3. /\ total \in Nat /\ sumsize \in Nat /\ sumsize = ImgSize * (S + 1)
      /\ sumsize <= total /\ total' = total /\ sumsize' = sumsize
  BY <1>1, SourceType DEF SendFrame
<1>4. SentPictures' = SentPictures  BY <1>3 DEF SentPictures
<1>5. IdxOf(NextPic(S, J), NextFrame(J), 0) = IdxOf(S, J, 0) + FramePkts(J)
      /\ IdxOf(S, J, 0) > 0 /\ IdxOf(S, J, 0) \in Nat
  BY NextIdx, IdxType
<1>6. NextPic(S, J) <= SentPictures
  BY <1>1, <1>2, SentEnough DEF NextPic, MoreToSend
<1>7. sumsize < total => pktIdx' = FirstIdx + FramePkts(J)
  <2>1. NewSndSize <= sumsize /\ NewSndSize \in Nat  BY <1>1, SendNumbers
  <2>2. sumsize < total => ~BuildsTail  BY <1>3, <2>1 DEF BuildsTail
  <2> QED BY <1>1, <1>2, <1>5, <2>2 DEF SendFrame, Raw2Pkt
<1>8. ((picId + 1) % IdMod) % GroupBlks = IF i + 1 = GroupBlks THEN 0 ELSE i + 1
  BY <1>2, NextPlace DEF PicSlot
<1>9. CASE sumsize >= total
  <2>1. phase' = "done"  BY <1>3, <1>9 DEF SendFrame, EndPicture
  <2> QED BY <1>1, <1>4, <1>6, <2>1 DEF SentTo, MoreToSend
<1>10. CASE sumsize < total /\ J = PicBlks - 1
  <2>1. /\ phase' = "picture" /\ picId' = (picId + 1) % IdMod
        /\ groupId' = IF i + 1 = GroupBlks THEN groupId + 1 ELSE groupId
        /\ i' = IF i + 1 = GroupBlks THEN 0 ELSE i + 1
    BY <1>1, <1>2, <1>3, <1>10 DEF SendFrame, EndPicture, LastOfGroup
  <2>2. (GroupBlks * groupId') + i' = S + 1
    <3>1. GroupBlks * (groupId + 1) = (GroupBlks * groupId) + GroupBlks  BY <1>2
    <3>2. GroupBlks * groupId \in Nat  BY <1>2
    <3> QED BY <1>2, <2>1, <3>1, <3>2
  <2>3. PicSlot' = i'  BY <1>8, <2>1 DEF PicSlot
  <2>4. NextPic(S, J) = S + 1 /\ NextFrame(J) = 0  BY <1>10 DEF NextPic, NextFrame
  <2>5. pktIdx' = IdxOf(S + 1, 0, 0)  BY <1>1, <1>5, <1>7, <1>10, <2>4
  <2>6. ~(sumsize >= total) /\ TailLen = 0  BY <1>3, <1>10 DEF TailLen
  <2> QED BY <1>1, <1>3, <1>4, <1>6, <2>1, <2>2, <2>3, <2>4, <2>5, <2>6 DEF SentTo, MoreToSend
<1>11. CASE sumsize < total /\ J # PicBlks - 1
  <2>1. /\ phase' = "frame" /\ j' = J + 1 /\ i' = i /\ picId' = picId
        /\ groupId' = groupId
    <3>1. J + 1 # PicBlks /\ ~(sumsize >= total)  BY <1>2, <1>3, <1>11
    <3> QED BY <1>1, <3>1 DEF SendFrame
  <2>2. NextPic(S, J) = S /\ NextFrame(J) = J + 1  BY <1>11 DEF NextPic, NextFrame
  <2>3. pktIdx' = IdxOf(S, J + 1, 0)  BY <1>1, <1>5, <1>7, <1>11, <2>2
  <2>4. Source' = S /\ PicSlot' = PicSlot  BY <1>1, <1>3, <2>1 DEF Source, PicSlot
  <2>5. ~(sumsize >= total) /\ TailLen = 0 /\ J + 1 # 0
    BY <1>2, <1>3, <1>11 DEF TailLen
  <2> QED BY <1>1, <1>2, <1>3, <1>4, <1>6, <1>11, <2>1, <2>2, <2>3, <2>4, <2>5 DEF SentTo, MoreToSend
<1> QED BY <1>3, <1>9, <1>10, <1>11 DEF TailLen, MoreToSend

LEMMA SendOnWire ==
  ASSUME FramesNumbered, Counted, NEW S \in Nat, NEW J \in FrameId, WireState(S, J),
         SendFrame, UNCHANGED cacheVars, TailLen = 1 => phase' = "done"
  PROVE  OnWire(NextPic(S, J), NextFrame(J))' /\ Unopened(NextPic(S, J), NextFrame(J))'
<1>1. /\ wire \in Seq(Packet) /\ wire' \in Seq(Packet) /\ phase = "frame"
      /\ FramePkts(J) \in Nat \ {0} /\ TailLen \in {0, 1} /\ HeadLen \in {0, 1}
      /\ HeadLen = IF S = 0 /\ J = 0 THEN 1 ELSE 0
      /\ HeadLen = 1 => Opening(wire'[1])
      /\ Len(wire') = Len(wire) + HeadLen + FramePkts(J) + TailLen
  BY SendPlaces DEF HeadLen
<1>2. /\ Len(wire) \in Nat /\ DOMAIN wire = 1 .. Len(wire)
      /\ DOMAIN wire' = 1 .. Len(wire')
  BY <1>1, LenProperties
<1>3. PICK T \in Nat, K \in FrameId : T = NextPic(S, J) /\ K = NextFrame(J)
  BY NextIdx
<1>4. /\ ~(T = 0 /\ K = 0)
      /\ \A s \in Nat, f \in FrameId :
           Prior(s, f, T, K) <=> Prior(s, f, S, J) \/ (s = S /\ f = J)
  <2>1. \A s \in Nat, f \in FrameId :
          Prior(s, f, T, K) <=> Prior(s, f, S, J) \/ (s = S /\ f = J)
    BY <1>3, NextIdx
  <2>2. Prior(S, J, T, K)  BY <2>1
  <2>3. J \in Nat /\ K \in Nat  BY Cut DEF FrameId
  <2> QED BY <2>1, <2>2, <2>3 DEF Prior
<1>5. ready' = ready /\ item' = item  BY DEF cacheVars
<1>6. \A n \in DOMAIN wire :
        \/ Opening(wire[n]) /\ n = 1 /\ ~ready
        \/ Datum(wire[n]) /\ Prior(wire[n].src, wire[n].frame, S, J)
  BY <1>1 DEF WireState, OnWire
<1>7. \A n \in DOMAIN wire :
        wire[n].idx \in Nat /\ wire[n].idx < IdxOf(S, J, 0)
  <2>1. SUFFICES ASSUME NEW n \in DOMAIN wire
                 PROVE  wire[n].idx \in Nat /\ wire[n].idx < IdxOf(S, J, 0)
    OBVIOUS
  <2>2. IdxOf(S, J, 0) \in Nat /\ IdxOf(S, J, 0) > 0  BY IdxType
  <2>3. PICK pkt \in Packet : pkt = wire[n]  BY <1>1
  <2>4. CASE Opening(pkt)  BY <2>2, <2>3, <2>4 DEF Opening
  <2>5. CASE Datum(pkt) /\ Prior(pkt.src, pkt.frame, S, J)
    <3>1. /\ pkt.idx \in Nat /\ pkt.src \in Nat /\ pkt.frame \in FrameId
          /\ pkt.blk \in Nat /\ pkt.blk < FramePkts(pkt.frame)
          /\ pkt.idx = IdxOf(pkt.src, pkt.frame, pkt.blk)
      BY <2>5, DatumIs, Cut DEF Datum, BlkId
    <3>2. IdxOf(pkt.src, pkt.frame, pkt.blk) < IdxOf(S, J, 0)
      BY <2>5, <3>1, IdxOrder
    <3> QED BY <2>3, <3>1, <3>2
  <2> QED BY <1>6, <2>3, <2>4, <2>5
<1>8. \A n \in DOMAIN wire' :
        \/ n \in DOMAIN wire /\ wire'[n] = wire[n]
        \/ n = 1 /\ HeadLen = 1 /\ wire = <<>> /\ ~ready /\ Opening(wire'[n])
        \/ \E m \in 1 .. FramePkts(J) :
             /\ n = Len(wire) + HeadLen + m /\ CarriedBy(n, S, J, m - 1)'
             /\ wire'[n].idx = IdxOf(S, J, 0) + (m - 1)
        \/ n = Len(wire') /\ TailLen = 1 /\ IsEnd(wire'[n])
  BY SendCarried
<1>9. ASSUME NEW n \in DOMAIN wire'
      PROVE  \/ Opening(wire'[n]) /\ n = 1 /\ ~ready'
             \/ Datum(wire'[n]) /\ Prior(wire'[n].src, wire'[n].frame, T, K)
             \/ IsEnd(wire'[n]) /\ phase' = "done"
  <2>1. CASE n \in DOMAIN wire /\ wire'[n] = wire[n]
    <3>1. CASE Opening(wire[n]) /\ n = 1 /\ ~ready  BY <1>5, <2>1, <3>1
    <3>2. CASE Datum(wire[n]) /\ Prior(wire[n].src, wire[n].frame, S, J)
      <4>1. wire[n] \in Packet  BY <1>1, <2>1
      <4>2. wire[n].src \in Nat /\ wire[n].frame \in FrameId
        BY <3>2, <4>1, DatumIs
      <4> QED BY <1>4, <2>1, <3>2, <4>2
    <3> QED BY <1>6, <2>1, <3>1, <3>2
  <2>2. ASSUME NEW m \in 1 .. FramePkts(J), CarriedBy(n, S, J, m - 1)'
        PROVE  Datum(wire'[n]) /\ Prior(wire'[n].src, wire'[n].frame, T, K)
    BY <1>4, <2>2 DEF CarriedBy
  <2> QED BY <1>5, <1>8, <2>1, <2>2
<1>10. ASSUME NEW l \in DOMAIN wire', NEW m \in DOMAIN wire', l < m, Datum(wire'[m])
       PROVE  wire'[l].idx < wire'[m].idx
  <2>1. PICK L \in Nat, h \in {0, 1}, c \in Nat, x \in Nat :
          L = Len(wire) /\ h = HeadLen /\ c = FramePkts(J) /\ x = IdxOf(S, J, 0)
          /\ x > 0
    BY <1>1, <1>2, IdxType
  <2>2. l \in Nat /\ m \in Nat /\ l >= 1 /\ m <= Len(wire') /\ DOMAIN wire = 1 .. L
    BY <1>2, <2>1
  <2>3. \/ m \in DOMAIN wire /\ wire'[m] = wire[m]
        \/ \E k \in 1 .. c : m = L + h + k /\ wire'[m].idx = x + (k - 1)
    <3>1. ~IsEnd(wire'[m])
      <4>1. wire'[m] \in Packet  BY <1>1
      <4>2. wire'[m].data_type = 0 /\ wire'[m].size > 0  BY <1>10, <4>1, DatumIs
      <4> QED BY <4>2 DEF IsEnd, Blank
    <3>2. ~(m = 1)  BY <1>10, <2>2
    <3> QED BY <1>8, <2>1, <3>1, <3>2
  <2>4. CASE m \in DOMAIN wire /\ wire'[m] = wire[m]
    <3>1. l \in DOMAIN wire  BY <1>10, <2>2, <2>4
    <3>2. wire'[l] = wire[l]
      <4>1. \A n \in 1 .. Len(wire) : wire'[n] = wire[n]  BY SendPlaces
      <4> QED BY <1>2, <3>1, <4>1
    <3> QED BY <1>10, <2>4, <3>1, <3>2 DEF WireState, OnWire
  <2>5. ASSUME NEW k \in 1 .. c, m = L + h + k, wire'[m].idx = x + (k - 1)
        PROVE  wire'[l].idx < wire'[m].idx
    <3>1. CASE l \in DOMAIN wire /\ wire'[l] = wire[l]
      <4>1. wire[l].idx \in Nat /\ wire[l].idx < x  BY <1>7, <2>1, <3>1
      <4> QED BY <2>1, <2>5, <3>1, <4>1
    <3>2. CASE Opening(wire'[l])  BY <2>1, <2>5, <3>2 DEF Opening
    <3>3. ASSUME NEW a \in 1 .. c, l = L + h + a, wire'[l].idx = x + (a - 1)
          PROVE  wire'[l].idx < wire'[m].idx
      <4>1. a < k  BY <1>10, <2>1, <2>5, <3>3
      <4> QED BY <2>1, <2>5, <3>3, <4>1
    <3>4. ~(l = Len(wire'))  BY <1>10, <2>2
    <3> QED BY <1>8, <2>1, <3>1, <3>2, <3>3, <3>4
  <2> QED BY <2>3, <2>4, <2>5
<1>11. OnWire(T, K)'  BY <1>9, <1>10 DEF OnWire
<1>12. Unopened(T, K)'
  <2>1. SUFFICES ASSUME ~ready
                 PROVE  /\ wire' # <<>> /\ Opening(wire'[1])
                        /\ \A p \in SlotId, f \in FrameId, b \in BlkId :
                             ~Recv!Held(item'[p][f][b])
    BY <1>4, <1>5 DEF Unopened
  <2>2. wire' # <<>>  BY <1>1, <1>2
  <2>3. CASE S = 0 /\ J = 0
    BY <1>1, <1>5, <2>1, <2>2, <2>3 DEF WireState, Unopened
  <2>4. CASE ~(S = 0 /\ J = 0)
    <3>1. wire # <<>> /\ Opening(wire[1])  BY <2>1, <2>4 DEF WireState, Unopened
    <3>2. 1 \in 1 .. Len(wire)  BY <1>1, <3>1
    <3>3. wire'[1] = wire[1]
      <4>1. \A n \in 1 .. Len(wire) : wire'[n] = wire[n]  BY SendPlaces
      <4> QED BY <3>2, <4>1
    <3> QED BY <1>5, <2>1, <2>2, <3>1, <3>3 DEF WireState, Unopened
  <2> QED BY <2>3, <2>4
<1> QED BY <1>3, <1>11, <1>12

LEMMA SendState ==
  ASSUME FramesNumbered, GroupsWrap, Counted, Recv!TypeOK, NEW S \in Nat, NEW J \in FrameId,
         NetState(S, J), MoreToSend,
         SendFrame, UNCHANGED cacheVars
  PROVE  /\ Counted' /\ NetState(NextPic(S, J), NextFrame(J))'
         /\ MoreToSend'
<1>1. Counted'
  <2>1. phase = "frame"  BY DEF SendFrame
  <2> QED BY <2>1, SendFrameTypes
<1>2. PICK T \in Nat, K \in FrameId : T = NextPic(S, J) /\ K = NextFrame(J)
  BY NextIdx
<1>3. /\ SentTo(T, K)' /\ OnWire(T, K)' /\ Unopened(T, K)'
      /\ MoreToSend'
  <2>1. /\ SentTo(NextPic(S, J), NextFrame(J))' /\ (TailLen = 1 => phase' = "done")
        /\ MoreToSend'
    BY SendSentTo, NetWire
  <2> QED BY <1>2, <2>1, SendOnWire, NetWire
<1>4. InSlots(T, K)'
  <2>1. SUFFICES ASSUME NEW p \in SlotId, NEW f \in FrameId, NEW b \in BlkId,
                        NEW it, it = item'[p][f][b], Recv!Held(it)
                 PROVE  /\ (GroupBlks * it.group) + p = it.src
                        /\ b < FramePkts(f) /\ Prior(it.src, f, T, K)
                        /\ ~Carried(it.src, f, b)'
    BY DEF InSlots
  <2>2. it = item[p][f][b] /\ Recv!Held(item[p][f][b])  BY <2>1 DEF cacheVars
  <2>3. /\ (GroupBlks * it.group) + p = it.src
        /\ b < FramePkts(f) /\ Prior(it.src, f, S, J)
        /\ ~Carried(it.src, f, b)
    BY <2>2 DEF NetState, InSlots
  <2>4. Prior(it.src, f, T, K)
    <3>1. f \in Nat /\ J \in Nat /\ K \in Nat /\ J <= PicBlks - 1  BY Cut DEF FrameId
    <3>2. (T = S /\ K = J + 1) \/ (T = S + 1 /\ K = 0)  BY <1>2 DEF NextPic, NextFrame
    <3>3. it.src \in Nat
      <4>1. item \in [SlotId -> [FrameId -> [BlkId -> Recv!Items]]]
        BY RecvSets DEF Recv!TypeOK
      <4>2. item[p][f][b] \in Recv!Items  BY <4>1
      <4> QED BY <2>2, <4>2 DEF Recv!Items
    <3> QED BY <2>3, <3>1, <3>2, <3>3 DEF Prior
  <2>5. ~(it.src = S /\ f = J)
    <3>1. J \in Nat  BY Cut DEF FrameId
    <3> QED BY <2>3, <3>1 DEF Prior
  <2>6. ~Carried(it.src, f, b)'  BY <2>3, <2>5, SendCarried, NetWire
  <2> QED BY <2>3, <2>4, <2>6
<1> QED BY <1>1, <1>2, <1>3, <1>4 DEF NetState

-----------------------------------------------------------------------------
(* The invariant of a network that does not repeat packets.                *)

LEMMA NetStateInit == Init => NetState(0, 0) /\ SlotsCount
<1> SUFFICES ASSUME Init PROVE NetState(0, 0) /\ SlotsCount  OBVIOUS
<1>1. /\ phase # "frame" /\ sumsize = 0 /\ groupId = 0 /\ i = 0 /\ picId = 0
      /\ pktIdx = 0 /\ fileTail = Blank /\ wire = <<>> /\ ~ready /\ total \in Nat
      /\ item = [p \in SlotId |-> Recv!EmptyPic]
      /\ frameNum = [p \in SlotId |-> [f \in FrameId |-> 0]]
      /\ completeNum = [p \in SlotId |-> 0]
  BY RecvSets, ConstTypes DEF Init, SenderInit, Recv!Init
<1>2. \A p \in SlotId, f \in FrameId, b \in BlkId : ~Recv!Held(item[p][f][b])
  BY <1>1, EmptyPicType
<1>3. SlotsCount
  <2>1. \A p \in SlotId, f \in FrameId : Recv!HeldBlks(p, f) = {}
    BY <1>2, RecvSets DEF Recv!HeldBlks
  <2>2. \A p \in SlotId : FullFrames(p) = {}
    BY <2>1, NoneComplete DEF FullFrames
  <2>3. Cardinality({}) = 0 /\ 0 < PicBlks  BY FS_EmptySet, Cut
  <2> QED BY <1>1, <2>1, <2>2, <2>3 DEF SlotsCount, SlotCount
<1>4. SentTo(0, 0)
  <2>1. GroupBlks * 0 = 0 /\ ImgSize * 0 = 0 /\ PicSlot = 0
    BY <1>1, Cut, ConstTypes DEF PicSlot
  <2>2. SentPictures \in Nat  BY InitSend, SentType
  <2> QED BY <1>1, <2>1, <2>2 DEF SentTo
<1>5. OnWire(0, 0) /\ Unopened(0, 0) /\ InSlots(0, 0)
  BY <1>1, <1>2 DEF OnWire, Unopened, InSlots
<1> QED BY <1>3, <1>4, <1>5 DEF NetState

LEMMA NetInvInit == Init => NetInv
<1> SUFFICES ASSUME Init PROVE NetInv  OBVIOUS
<1>1. Counted /\ Recv!TypeOK  BY InitSend, InitReceiver DEF Init, SendInv
<1>2. MoreToSend  BY DEF MoreToSend, Init, SenderInit
<1>3. 0 \in Nat /\ 0 \in FrameId  BY Cut DEF FrameId
<1> QED BY <1>1, <1>2, <1>3, NetStateInit DEF NetInv

LEMMA NetInvSend ==
  ASSUME FramesNumbered, GroupsWrap, NetInv, ReadPicture \/ ReadShort \/ SendFrame,
         UNCHANGED cacheVars
  PROVE  NetInv'
<1>1. /\ Counted /\ Recv!TypeOK /\ SlotsCount /\ MoreToSend  BY DEF NetInv
<1>2. PICK S \in Nat, J \in FrameId : NetState(S, J)  BY DEF NetInv
<1>3. Recv!TypeOK' /\ SlotsCount'
  BY <1>1, SlotsSame DEF cacheVars, Recv!TypeOK
<1>4. CASE ReadPicture \/ ReadShort
  <2>1. Counted'  BY <1>1, <1>4, ReadCounted
  <2>2. NetState(S, J)' /\ MoreToSend'  BY <1>1, <1>2, <1>4, ReadState
  <2> QED BY <1>2, <1>3, <2>1, <2>2 DEF NetInv
<1>5. CASE SendFrame
  <2>1. /\ Counted' /\ NetState(NextPic(S, J), NextFrame(J))' /\ MoreToSend'
    BY <1>1, <1>2, <1>5, SendState
  <2>2. PICK T \in Nat, K \in FrameId : T = NextPic(S, J) /\ K = NextFrame(J)
    BY NextIdx
  <2> QED BY <1>3, <2>1, <2>2 DEF NetInv
<1> QED BY <1>4, <1>5

LEMMA NetInvDeliver ==
  ASSUME NetInv, NEW n \in DOMAIN wire, ~ready => n = 1, Recv!Receive(wire[n]),
         Datum(wire[n]) => Fresh(wire[n]), wire' = Without(n), UNCHANGED sendVars
  PROVE  NetInv'
<1>1. /\ Counted /\ Recv!TypeOK /\ SlotsCount /\ MoreToSend  BY DEF NetInv
<1>2. PICK S \in Nat, J \in FrameId : NetState(S, J)  BY DEF NetInv
<1>3. Counted' /\ SlotsCount' /\ NetState(S, J)'  BY <1>1, <1>2, DeliverState
<1>4. wire[n] \in Packet  BY <1>1 DEF Counted, SendTypes
<1>5. Recv!TypeOK'  BY <1>1, <1>4, ReceiveType
<1>6. MoreToSend'  BY <1>1 DEF MoreToSend, sendVars
<1> QED BY <1>3, <1>5, <1>6 DEF NetInv

LEMMA NetInvDrop ==
  ASSUME NetInv, NEW n \in DOMAIN wire, ~Opening(wire[n]), wire' = Without(n),
         UNCHANGED <<sendVars, cacheVars>>
  PROVE  NetInv'
<1>1. /\ Counted /\ Recv!TypeOK /\ SlotsCount /\ MoreToSend  BY DEF NetInv
<1>2. PICK S \in Nat, J \in FrameId : NetState(S, J)  BY DEF NetInv
<1>3. UNCHANGED <<item, ready, frameNum, completeNum>>  BY DEF cacheVars
<1>4. Counted' /\ NetState(S, J)'  BY <1>1, <1>2, <1>3, Dropped
<1>5. Recv!TypeOK' /\ SlotsCount'
  BY <1>1, <1>3, SlotsSame DEF cacheVars, Recv!TypeOK
<1>6. MoreToSend'  BY <1>1 DEF MoreToSend, sendVars
<1> QED BY <1>4, <1>5, <1>6 DEF NetInv

LEMMA NetStateSame ==
  ASSUME NEW S \in Nat, NEW J \in FrameId, NetState(S, J), UNCHANGED vars
  PROVE  NetState(S, J)'
<1>1. SentTo(S, J)'
  BY DEF NetState, SentTo, vars, sendVars, Source, PicSlot, SentPictures
<1>2. OnWire(S, J)' /\ Unopened(S, J)'
  BY DEF NetState, OnWire, Unopened, vars, sendVars, cacheVars
<1>3. InSlots(S, J)'
  BY DEF NetState, InSlots, Carried, CarriedBy, vars, cacheVars
<1> QED BY <1>1, <1>2, <1>3 DEF NetState

LEMMA NetInvSame == NetInv /\ UNCHANGED vars => NetInv'
<1> SUFFICES ASSUME NetInv, UNCHANGED vars PROVE NetInv'  OBVIOUS
<1>1. /\ Counted /\ Recv!TypeOK /\ SlotsCount /\ MoreToSend  BY DEF NetInv
<1>2. PICK S \in Nat, J \in FrameId : NetState(S, J)  BY DEF NetInv
<1>3. Counted' /\ Recv!TypeOK' /\ MoreToSend'
  BY <1>1 DEF vars, sendVars, cacheVars, Counted, SendTypes, SentSoFar, NothingNumbered,
              Recv!TypeOK, MoreToSend
<1>4. SlotsCount'  BY <1>1, SlotsSame DEF vars, cacheVars
<1> QED BY <1>2, <1>3, <1>4, NetStateSame DEF NetInv

\* A block that outruns the start packet is dropped.
LEMMA EarlyDropped ==
  ASSUME NEW pkt, ~ready, pkt.data_type = 0, Recv!Receive(pkt)
  PROVE  UNCHANGED cacheVars
BY DEF Recv!Receive, Recv!StoreBlock, Recv!CompletePicture, Recv!Storable,
       Recv!InRange, Recv!StartInfo, Recv!EndInfo, Recv!Discard, Recv!cacheVars, cacheVars

LEMMA NetInvStep ==
  ASSUME FramesNumbered, GroupsWrap, NoShortTail, repeated \in Nat,
         NetInv, [NetNext]_allVars, repeated' = 0
  PROVE  NetInv'
<1>1. CASE NetSend  BY <1>1, NetInvSend DEF NetSend
<1>2. CASE NetDeliver
  <2>1. PICK n \in Deliverable : /\ wire' = Without(n) /\ Recv!Receive(wire[n])
                                 /\ UNCHANGED <<sendVars, netVars>>
    BY <1>2 DEF NetDeliver
  <2>2. n \in DOMAIN wire /\ (~ready => n = 1)  BY <2>1 DEF Deliverable
  <2> QED BY <2>1, <2>2, NetInvDeliver DEF Fresh
<1>3. CASE NetLose
  <2>1. PICK n \in DOMAIN wire : wire[n].data_type = 0 /\ wire' = Without(n)
    BY <1>3 DEF NetLose, Deliverable
  <2>2. ~Opening(wire[n])  BY <2>1 DEF Opening, IsStart
  <2> QED BY <1>3, <2>1, <2>2, NetInvDrop DEF NetLose
<1>4. CASE NetEarly
  <2>1. PICK n \in DOMAIN wire : /\ wire[n].data_type = 0 /\ wire' = Without(n)
                                 /\ Recv!Receive(wire[n])
    BY <1>4 DEF NetEarly
  <2>2. ~Opening(wire[n])  BY <2>1 DEF Opening, IsStart
  <2>3. UNCHANGED cacheVars  BY <1>4, <2>1, EarlyDropped DEF NetEarly
  <2> QED BY <1>4, <2>1, <2>2, <2>3, NetInvDrop DEF NetEarly
<1>5. CASE NetRepeat  BY <1>5 DEF NetRepeat
<1>6. CASE UNCHANGED allVars  BY <1>6, NetInvSame DEF allVars
<1> QED BY <1>1, <1>2, <1>3, <1>4, <1>5, <1>6 DEF NetNext

\* Losses and repetitions are counted.
LEMMA NetCounts ==
  /\ NetInit => lost \in Nat /\ repeated \in Nat
  /\ lost \in Nat /\ repeated \in Nat /\ [NetNext]_allVars =>
       /\ lost' \in Nat /\ repeated' \in Nat
       /\ lost' = 0 => lost = 0 /\ ~NetLose /\ ~NetEarly
       /\ repeated' = 0 => repeated = 0 /\ ~NetRepeat
BY DEF NetInit, NetNext, NetSend, NetDeliver, NetLose, NetEarly, NetRepeat, netVars, allVars

-----------------------------------------------------------------------------
(* The last frame of a picture is shorter than the others and ends with a   *)
(* packet that is not short enough to show it: no picture comes out.        *)

\* every frame of a picture has a packet for each of its blocks
TailFull == FramePkts(PicBlks - 1) = FrameBlks

LEMMA ShortNeverOut ==
  ASSUME NoShortTail, ~TailFull, Recv!TypeOK, SlotsCount, Counted,
         NEW S \in Nat, NEW J \in FrameId, NetState(S, J),
         NEW n \in DOMAIN wire, ~ready => n = 1, Recv!Receive(wire[n])
  PROVE  pictures' = pictures
<1> DEFINE x == PicBlks - 1  y == FrameBlks - 1
<1>1. x \in FrameId /\ y \in BlkId /\ ~(y < FramePkts(x))
  BY PicPktsIs, FrameCut, Cut DEF TailFull, BlkId
<1>2. PICK pkt \in Packet : pkt = wire[n]  BY DEF Counted, SendTypes
<1>3. ASSUME Datum(pkt), Recv!Held(Recv!StoredPic(pkt)[x][y]) PROVE FALSE
  <2> HIDE DEF x, y
  <2>1. pkt.pic \in SlotId /\ pkt.frame \in FrameId /\ pkt.blk \in BlkId
    BY <1>3, DatumIs
  <2>2. CASE x = pkt.frame /\ y = pkt.blk  BY <1>1, <1>3, <2>2 DEF Datum
  <2>3. CASE ~(x = pkt.frame /\ y = pkt.blk)
    <3>1. Recv!Held(item[pkt.pic][x][y])  BY <1>1, <1>3, <2>1, <2>3, StoredIs
    <3> QED BY <1>1, <2>1, <3>1 DEF NetState, InSlots
  <2> QED BY <2>2, <2>3
<1>4. TakesIn(pkt) /\ Datum(pkt) => pictures' = pictures
  <2> HIDE DEF x, y
  <2> QED BY <1>1, <1>3, TakesInWhole
<1> QED BY <1>2, <1>4, Arrival DEF Fresh

LEMMA TailOpen == ASSUME ~TailCompletes PROVE NoShortTail /\ ~TailFull
<1>1. ~(Payload(PicBlks - 1, FramePkts(PicBlks - 1) - 1) + HdrSize < BlockSize)
      /\ ~TailFull
  BY DEF TailCompletes, TailFull
<1>2. Payload(PicBlks - 1, FramePkts(PicBlks - 1) - 1) \in Nat
  <2>1. PicBlks - 1 \in FrameId /\ FramePkts(PicBlks - 1) \in Nat \ {0}
    BY PicPktsIs, FrameCut
  <2>2. FramePkts(PicBlks - 1) - 1 \in 0 .. FramePkts(PicBlks - 1) - 1  BY <2>1
  <2> QED BY <2>1, <2>2, PayloadCut
<1> QED BY <1>1, <1>2, ConstTypes DEF NoShortTail

\* Nothing comes out, whatever is lost or overtaken on the way.
LEMMA NothingOutStep ==
  ASSUME FramesNumbered, GroupsWrap, ~TailCompletes, repeated \in Nat,
         NetInv, pictures = <<>>, [NetNext]_allVars, repeated' = 0
  PROVE  NetInv' /\ pictures' = <<>>
<1>1. NoShortTail /\ ~TailFull  BY TailOpen
<1>2. NetInv'  BY <1>1, NetInvStep
<1>3. ASSUME NEW n \in DOMAIN wire, ~ready => n = 1, Recv!Receive(wire[n])
      PROVE  pictures' = pictures
  BY <1>1, <1>3, ShortNeverOut DEF NetInv
<1>4. CASE NetSend  BY <1>2, <1>4 DEF NetSend, cacheVars
<1>5. CASE NetDeliver
  <2>1. PICK n \in Deliverable : Recv!Receive(wire[n])  BY <1>5 DEF NetDeliver
  <2>2. n \in DOMAIN wire /\ (~ready => n = 1)  BY <2>1 DEF Deliverable
  <2> QED BY <1>2, <1>3, <2>1, <2>2
<1>6. CASE NetLose  BY <1>2, <1>6 DEF NetLose, cacheVars
<1>7. CASE NetEarly
  <2>1. PICK n \in DOMAIN wire : wire[n].data_type = 0 /\ Recv!Receive(wire[n])
    BY <1>7 DEF NetEarly
  <2>2. UNCHANGED cacheVars  BY <1>7, <2>1, EarlyDropped DEF NetEarly
  <2> QED BY <1>2, <2>2 DEF cacheVars
<1>8. CASE NetRepeat  BY <1>8 DEF NetRepeat
<1>9. CASE UNCHANGED allVars  BY <1>2, <1>9 DEF allVars, vars, cacheVars
<1> QED BY <1>4, <1>5, <1>6, <1>7, <1>8, <1>9 DEF NetNext

\* A file whose pictures end with an incomplete frame, the last packet of which
\* is no shorter than a block with its headers, brings no picture at all as long
\* as no packet is repeated, whatever is lost and whatever order the rest comes
\* in: pkt2cache never sees the frame complete (file_pkt2raw.c:600-666).
THEOREM NothingComesOut ==
  FramesNumbered /\ GroupsWrap /\ ~TailCompletes =>
    (NetSpec => [](repeated = 0 => pictures = <<>>))
<1> SUFFICES ASSUME FramesNumbered, GroupsWrap, ~TailCompletes
             PROVE  NetSpec => [](repeated = 0 => pictures = <<>>)
  OBVIOUS
<1> DEFINE Inv == /\ lost \in Nat /\ repeated \in Nat
                  /\ repeated = 0 => NetInv /\ pictures = <<>>
<1>1. NetInit => Inv  BY NetInvInit, NetCounts DEF NetInit, Init, Recv!Init
<1>2. Inv /\ [NetNext]_allVars => Inv'  BY NothingOutStep, NetCounts
<1> QED BY <1>1, <1>2, PTL DEF NetSpec

\* The loopback transfer is a network that neither loses nor overtakes.
LEMMA LoopNothingStep ==
  ASSUME FramesNumbered, GroupsWrap, NoShortTail, ~TailFull,
         NetInv, pictures = <<>>, [Next]_vars
  PROVE  NetInv' /\ pictures' = <<>>
<1>1. CASE Read
  <2>1. NetInv'  BY <1>1, NetInvSend DEF Read
  <2> QED BY <1>1, <2>1 DEF Read, cacheVars
<1>2. CASE Packetise
  <2>1. NetInv'  BY <1>2, NetInvSend DEF Packetise
  <2> QED BY <1>2, <2>1 DEF Packetise, cacheVars
<1>3. CASE Deliver
  <2>1. wire \in Seq(Packet) /\ wire # <<>>  BY <1>3 DEF Deliver, NetInv, Counted, SendTypes
  <2>2. 1 \in DOMAIN wire /\ Head(wire) = wire[1] /\ Tail(wire) = Without(1)
    <3>1. /\ Tail(wire) \in Seq(Packet) /\ Len(Tail(wire)) = Len(wire) - 1
          /\ \A m \in 1 .. Len(wire) - 1 : Tail(wire)[m] = wire[m + 1]
          /\ Head(wire) = wire[1] /\ 1 \in 1 .. Len(wire) /\ Len(wire) \in Nat
      BY <2>1, TailOf
    <3>2. 1 \in DOMAIN wire  BY <2>1, <3>1
    <3>3. Without(1) \in Seq(Packet) /\ Len(Without(1)) = Len(wire) - 1
      BY <2>1, <3>2, WithoutIs DEF Without
    <3>4. \A m \in 1 .. Len(wire) - 1 : Without(1)[m] = wire[m + 1]  BY DEF Without
    <3> QED BY <3>1, <3>2, <3>3, <3>4, SeqEqual
  <2>3. Recv!Receive(wire[1]) /\ wire' = Without(1) /\ UNCHANGED sendVars
    BY <1>3, <2>2 DEF Deliver
  <2>4. NetInv'  BY <2>2, <2>3, NetInvDeliver DEF Fresh
  <2>5. pictures' = pictures  BY <2>2, <2>3, ShortNeverOut DEF NetInv
  <2> QED BY <2>4, <2>5
<1>4. CASE UNCHANGED vars  BY <1>4, NetInvSame DEF vars, cacheVars
<1> QED BY <1>1, <1>2, <1>3, <1>4 DEF Next

\* call_test's loopback brings out what FileCopy lets it: the pictures sent in
\* full one by one, each whole and in the order of the file, if the last packet
\* of a picture completes its frame, and otherwise nothing (file_rtp.c:450-550).
THEOREM CopiesOrNothing ==
  FramesNumbered /\ (TailCompletes \/ GroupsWrap) => (Spec => Copy!Safety)
<1>1. CASE TailCompletes  BY <1>1, CopiesInOrder
<1>2. CASE FramesNumbered /\ GroupsWrap /\ ~TailCompletes
  <2>1. NoShortTail /\ ~TailFull  BY <1>2, TailOpen
  <2> DEFINE Inv == NetInv /\ pictures = <<>>
  <2>2. Init => Inv  BY NetInvInit DEF Init, Recv!Init
  <2>3. Inv /\ [Next]_vars => Inv'  BY <1>2, <2>1, LoopNothingStep
  <2>4. Init => Copy!Init  BY <1>2 DEF Init, Recv!Init, Copy!Init
  <2>5. Inv /\ Inv' =>
          [Copy!Copy]_<<IF TailCompletes THEN SentPictures ELSE 0, pictures>>
    BY <1>2
  <2> QED BY <2>2, <2>3, <2>4, <2>5, PTL DEF Spec, Copy!Safety
<1> QED BY <1>1, <1>2

-----------------------------------------------------------------------------
(* The last frame of a picture is as long as the others, and no packet is   *)
(* lost: every picture comes out whole.                                     *)

Out(s) == \E n \in DOMAIN pictures : pictures[n] = Copy!Picture(s)

\* Every block that was sent is on its way, in its slot or in a picture that
\* came out, and in one of these only; a slot is used again only when its last
\* picture is out; and what came out is pictures of the file, each once.
Whole(S, J) ==
  /\ \A s \in Nat, f \in FrameId, b \in BlkId :
       Prior(s, f, S, J) => Carried(s, f, b) \/ InSlot(s, f, b) \/ Out(s)
  /\ \A s \in Nat, f \in FrameId, b \in BlkId :
       Out(s) => ~Carried(s, f, b) /\ ~InSlot(s, f, b)
  /\ \A s \in Nat : Prior(s + GroupBlks, 0, S, J) => Out(s)
  /\ \A n \in DOMAIN pictures : \E s \in Nat : s < S /\ pictures[n] = Copy!Picture(s)
  /\ \A m, n \in DOMAIN pictures : pictures[m] = pictures[n] => m = n

NetFacts == Counted /\ Recv!TypeOK /\ SlotsCount /\ MoreToSend

WholeInv ==
  NetFacts /\ \E S \in Nat, J \in FrameId : NetState(S, J) /\ Whole(S, J)

LEMMA ImageHolds ==
  /\ <<0, 0>> \in ImgBlocks
  /\ \A s, t : Copy!Picture(s) = Copy!Picture(t) => s = t
<1>1. <<0, 0>> \in ImgBlocks
  <2>1. 0 \in FrameId /\ 0 \in BlkId  BY Cut DEF FrameId, BlkId
  <2>2. (0 * FrameBlks + 0) * BlockSize = 0 /\ 0 < ImgSize  BY Cut, ConstTypes
  <2> QED BY <2>1, <2>2 DEF ImgBlocks, Offset
<1>2. ASSUME NEW s, NEW t, Copy!Picture(s) = Copy!Picture(t) PROVE s = t
  <2>1. Copy!Picture(s)[<<0, 0>>] = s /\ Copy!Picture(t)[<<0, 0>>] = t
    BY <1>1 DEF Copy!Picture
  <2> QED BY <1>2, <2>1
<1> QED BY <1>1, <1>2

\* The slot of a picture is its place in its group, and the next picture with
\* this slot comes a group later.
LEMMA SlotOf ==
  ASSUME NEW g \in Nat, NEW h \in Nat, NEW p \in SlotId, NEW q \in SlotId,
         NEW s \in Nat, NEW t \in Nat,
         (GroupBlks * g) + p = s, (GroupBlks * h) + q = t
  PROVE  /\ s = t => p = q
         /\ p = q /\ s < t => s + GroupBlks <= t
<1>1. GroupBlks \in Nat \ {0} /\ p \in Nat /\ q \in Nat /\ p < GroupBlks /\ q < GroupBlks
  BY Cut DEF SlotId
<1>2. PICK x \in Nat, y \in Nat : x = GroupBlks * g /\ y = GroupBlks * h
  BY <1>1
<1>3. ASSUME NEW k \in Nat, NEW m \in Nat, k < m
      PROVE  (GroupBlks * k) + GroupBlks <= GroupBlks * m
  <2>1. GroupBlks * (k + 1) <= GroupBlks * m  BY <1>1, <1>3, MulMonotonic
  <2>2. GroupBlks * (k + 1) = (GroupBlks * k) + GroupBlks  BY <1>1
  <2> QED BY <2>1, <2>2
<1>4. /\ g < h => x + GroupBlks <= y
      /\ h < g => y + GroupBlks <= x
      /\ g = h => x = y
  BY <1>2, <1>3
<1>5. x + p = s /\ y + q = t  BY <1>2
<1> QED BY <1>1, <1>4, <1>5

\* What a slot holds is a block of Nat-numbered things.
LEMMA HeldTypes ==
  ASSUME Recv!TypeOK, NEW p \in SlotId, NEW f \in FrameId, NEW b \in BlkId
  PROVE  item[p][f][b].src \in Nat /\ item[p][f][b].group \in Nat
<1>1. item \in [SlotId -> [FrameId -> [BlkId -> Recv!Items]]]
  BY RecvSets DEF Recv!TypeOK
<1>2. item[p][f][b] \in Recv!Items  BY <1>1
<1> QED BY <1>2 DEF Recv!Items

\* In one slot there are blocks of one picture only, and a block on its way
\* finds no other picture's.
LEMMA OnePicture ==
  ASSUME Recv!TypeOK, NEW S \in Nat, NEW J \in FrameId, NetState(S, J), Whole(S, J),
         NEW p \in SlotId, NEW f \in FrameId, NEW b \in BlkId,
         Recv!Held(item[p][f][b]),
         NEW n \in DOMAIN wire, wire[n] \in Packet, Datum(wire[n]), wire[n].pic = p
  PROVE  item[p][f][b].src = wire[n].src
<1>1. PICK a \in Nat, g \in Nat : a = item[p][f][b].src /\ g = item[p][f][b].group
  BY HeldTypes
<1>2. PICK pkt \in Packet : pkt = wire[n]  OBVIOUS
<1>3. (GroupBlks * g) + p = a /\ Prior(a, f, S, J) /\ InSlot(a, f, b)
  BY <1>1 DEF NetState, InSlots, InSlot
<1>4. /\ (GroupBlks * pkt.group) + p = pkt.src /\ pkt.src \in Nat /\ pkt.group \in Nat
      /\ pkt.frame \in FrameId /\ pkt.blk \in BlkId
      /\ Carried(pkt.src, pkt.frame, pkt.blk)
  <2>1. Carried(pkt.src, pkt.frame, pkt.blk)  BY <1>2 DEF Carried, CarriedBy
  <2> QED BY <1>2, <2>1, DatumIs DEF Datum
<1>5. Prior(pkt.src, pkt.frame, S, J)
  <2>1. pkt.data_type = 0 /\ pkt.size > 0  BY <1>2, DatumIs
  <2>2. ~IsEnd(pkt) /\ ~Opening(pkt)  BY <2>1 DEF IsEnd, Blank, Opening, IsStart
  <2> QED BY <1>2, <2>2 DEF NetState, OnWire
<1>6. J \in Nat /\ f \in Nat /\ pkt.frame \in Nat /\ GroupBlks \in Nat
  BY <1>4, Cut DEF FrameId
<1>7. ~(a < pkt.src)
  <2>1. SUFFICES ASSUME a < pkt.src PROVE FALSE  OBVIOUS
  <2>2. a + GroupBlks <= pkt.src  BY <1>1, <1>3, <1>4, <2>1, SlotOf
  <2>3. Prior(a + GroupBlks, 0, S, J)  BY <1>4, <1>5, <1>6, <2>2 DEF Prior
  <2> QED BY <1>3, <2>3 DEF Whole
<1>8. ~(pkt.src < a)
  <2>1. SUFFICES ASSUME pkt.src < a PROVE FALSE  OBVIOUS
  <2>2. pkt.src + GroupBlks <= a  BY <1>1, <1>3, <1>4, <2>1, SlotOf
  <2>3. Prior(pkt.src + GroupBlks, 0, S, J)  BY <1>3, <1>4, <1>6, <2>2 DEF Prior
  <2> QED BY <1>4, <2>3 DEF Whole
<1> QED BY <1>1, <1>2, <1>4, <1>7, <1>8

\* Nothing comes out and every block stays where it is, on its way or held.
LEMMA WholeSame ==
  ASSUME NEW S \in Nat, NEW J \in FrameId, Whole(S, J), pictures' = pictures,
         \A s \in Nat, f \in FrameId, b \in BlkId :
           (Carried(s, f, b)' \/ InSlot(s, f, b)') <=> Carried(s, f, b) \/ InSlot(s, f, b)
  PROVE  Whole(S, J)'
<1>1. \A s : Out(s)' <=> Out(s)  BY DEF Out
<1>2. \A s \in Nat, f \in FrameId, b \in BlkId :
        Prior(s, f, S, J) => Carried(s, f, b)' \/ InSlot(s, f, b)' \/ Out(s)'
  BY <1>1 DEF Whole
<1>3. \A s \in Nat, f \in FrameId, b \in BlkId :
        Out(s)' => ~Carried(s, f, b)' /\ ~InSlot(s, f, b)'
  BY <1>1 DEF Whole
<1>4. \A s \in Nat : Prior(s + GroupBlks, 0, S, J) => Out(s)'  BY <1>1 DEF Whole
<1> QED BY <1>2, <1>3, <1>4 DEF Whole

\* A block goes into its slot.
LEMMA WholeStore ==
  ASSUME NoShortTail, Recv!TypeOK, NEW S \in Nat, NEW J \in FrameId, Whole(S, J),
         NEW n \in DOMAIN wire, NEW pkt \in Packet, pkt = wire[n], Datum(pkt),
         ~Recv!Held(item[pkt.pic][pkt.frame][pkt.blk]),
         pictures' = pictures, item' = [item EXCEPT ![pkt.pic] = Recv!StoredPic(pkt)],
         \A s, f, b : Carried(s, f, b)' => Carried(s, f, b),
         \A s, f, b : Carried(s, f, b) /\ ~CarriedBy(n, s, f, b) => Carried(s, f, b)'
  PROVE  Whole(S, J)'
<1>1. /\ pkt.pic \in SlotId /\ pkt.frame \in FrameId /\ pkt.blk \in BlkId
      /\ pkt.size \in Nat /\ pkt.size > 0
  BY DatumIs
<1>2. item \in [SlotId -> [FrameId -> [BlkId -> Recv!Items]]]
  BY RecvSets DEF Recv!TypeOK
<1>3. /\ item'[pkt.pic] = Recv!StoredPic(pkt)
      /\ \A p \in SlotId : p # pkt.pic => item'[p] = item[p]
  BY <1>1, <1>2
<1>4. \A p \in SlotId, f \in FrameId, b \in BlkId :
        item'[p][f][b] = IF p = pkt.pic /\ f = pkt.frame /\ b = pkt.blk
                           THEN [size |-> pkt.size, group |-> pkt.group, src |-> pkt.src]
                           ELSE item[p][f][b]
  BY <1>1, <1>3, StoredIs
<1>5. ASSUME NEW s \in Nat, NEW f \in FrameId, NEW b \in BlkId
      PROVE  InSlot(s, f, b)' <=> InSlot(s, f, b) \/ CarriedBy(n, s, f, b)
  <2>1. CarriedBy(n, s, f, b) <=> s = pkt.src /\ f = pkt.frame /\ b = pkt.blk
    BY DEF CarriedBy
  <2>2. ASSUME InSlot(s, f, b)' PROVE InSlot(s, f, b) \/ CarriedBy(n, s, f, b)
    <3>1. PICK p \in SlotId : Recv!Held(item'[p][f][b]) /\ item'[p][f][b].src = s
      BY <2>2 DEF InSlot
    <3> QED BY <1>4, <2>1, <3>1 DEF InSlot
  <2>3. ASSUME InSlot(s, f, b) PROVE InSlot(s, f, b)'
    <3>1. PICK p \in SlotId : Recv!Held(item[p][f][b]) /\ item[p][f][b].src = s
      BY <2>3 DEF InSlot
    <3>2. item'[p][f][b] = item[p][f][b]  BY <1>4, <3>1
    <3> QED BY <3>1, <3>2 DEF InSlot
  <2>4. ASSUME CarriedBy(n, s, f, b) PROVE InSlot(s, f, b)'
    <3>1. item'[pkt.pic][f][b] = [size |-> pkt.size, group |-> pkt.group, src |-> pkt.src]
      BY <1>1, <1>4, <2>1, <2>4
    <3>2. Recv!Held(item'[pkt.pic][f][b]) /\ item'[pkt.pic][f][b].src = s
      BY <1>1, <2>1, <2>4, <3>1 DEF Recv!Held
    <3> QED BY <1>1, <3>2 DEF InSlot
  <2> QED BY <2>2, <2>3, <2>4
<1>6. \A s, f, b : CarriedBy(n, s, f, b) => Carried(s, f, b)  BY DEF Carried
<1>7. \A s \in Nat, f \in FrameId, b \in BlkId :
        (Carried(s, f, b)' \/ InSlot(s, f, b)') <=> Carried(s, f, b) \/ InSlot(s, f, b)
  <2> SUFFICES ASSUME NEW s \in Nat, NEW f \in FrameId, NEW b \in BlkId
               PROVE  (Carried(s, f, b)' \/ InSlot(s, f, b)')
                        <=> Carried(s, f, b) \/ InSlot(s, f, b)
    OBVIOUS
  <2> QED BY <1>5, <1>6
<1> QED BY <1>7, WholeSame

\* The block completes its picture, which comes out.
LEMMA WholeComplete ==
  ASSUME Recv!TypeOK, NEW S \in Nat, NEW J \in FrameId, NetState(S, J), Whole(S, J),
         NEW n \in DOMAIN wire, NEW pkt \in Packet, pkt = wire[n], Datum(pkt),
         ~Recv!Held(item[pkt.pic][pkt.frame][pkt.blk]),
         pictures' = Append(pictures, Recv!Image(Recv!StoredPic(pkt))),
         item' = [item EXCEPT ![pkt.pic] = Recv!EmptyPic],
         \A x \in FrameId, y \in BlkId : Recv!Held(Recv!StoredPic(pkt)[x][y]),
         \A s, f, b : Carried(s, f, b)' => Carried(s, f, b),
         \A s, f, b : Carried(s, f, b) /\ ~CarriedBy(n, s, f, b) => Carried(s, f, b)',
         \A s, f, b : CarriedBy(n, s, f, b) => ~Carried(s, f, b)'
  PROVE  Whole(S, J)'
<1>1. PICK c \in Nat, p \in SlotId, pf \in FrameId, pb \in BlkId :
        /\ c = pkt.src /\ p = pkt.pic /\ pf = pkt.frame /\ pb = pkt.blk
        /\ (GroupBlks * pkt.group) + p = c /\ pkt.group \in Nat
        /\ CarriedBy(n, c, pf, pb) /\ Carried(c, pf, pb)
  <2>1. CarriedBy(n, pkt.src, pkt.frame, pkt.blk)  BY DEF CarriedBy
  <2>2. Carried(pkt.src, pkt.frame, pkt.blk)  BY <2>1 DEF Carried
  <2> QED BY <2>1, <2>2, DatumIs DEF Datum
<1>2. /\ item \in [SlotId -> [FrameId -> [BlkId -> Recv!Items]]]
      /\ pictures \in Seq([ImgBlocks -> Nat \cup {Recv!Hole}])
  BY RecvSets DEF Recv!TypeOK
<1>3. \A s, f, b : CarriedBy(n, s, f, b) => s = c /\ f = pf /\ b = pb
  BY <1>1 DEF CarriedBy
<1>4. \A x \in FrameId, y \in BlkId :
        /\ Recv!StoredPic(pkt)[x][y].src = c
        /\ ~(x = pf /\ y = pb) => /\ Recv!Held(item[p][x][y]) /\ item[p][x][y].src = c
                                  /\ InSlot(c, x, y) /\ ~Carried(c, x, y)
  <2> SUFFICES ASSUME NEW x \in FrameId, NEW y \in BlkId
               PROVE  /\ Recv!StoredPic(pkt)[x][y].src = c
                      /\ ~(x = pf /\ y = pb) =>
                           /\ Recv!Held(item[p][x][y]) /\ item[p][x][y].src = c
                           /\ InSlot(c, x, y) /\ ~Carried(c, x, y)
    OBVIOUS
  <2>1. Recv!StoredPic(pkt)[x][y] =
          IF x = pf /\ y = pb
            THEN [size |-> pkt.size, group |-> pkt.group, src |-> pkt.src]
            ELSE item[p][x][y]
    BY <1>1, StoredIs
  <2>2. CASE x = pf /\ y = pb  BY <1>1, <2>1, <2>2
  <2>3. CASE ~(x = pf /\ y = pb)
    <3>1. Recv!StoredPic(pkt)[x][y] = item[p][x][y] /\ Recv!Held(item[p][x][y])
      BY <2>1, <2>3
    <3>2. item[p][x][y].src = c  BY <1>1, <3>1, OnePicture
    <3>3. InSlot(c, x, y)  BY <1>1, <3>1, <3>2 DEF InSlot
    <3>4. ~Carried(c, x, y)  BY <1>1, <3>1, <3>2 DEF NetState, InSlots
    <3> QED BY <2>3, <3>1, <3>2, <3>3, <3>4
  <2> QED BY <2>2, <2>3
<1>5. Recv!Image(Recv!StoredPic(pkt)) = Copy!Picture(c)
  <2>1. \A fb \in ImgBlocks : fb[1] \in FrameId /\ fb[2] \in BlkId  BY DEF ImgBlocks
  <2>2. \A fb \in ImgBlocks :
          LET it == Recv!StoredPic(pkt)[fb[1]][fb[2]]
          IN  (IF Recv!Held(it) THEN it.src ELSE Recv!Hole) = c
    BY <1>4, <2>1
  <2> QED BY <2>2 DEF Recv!Image, Copy!Picture
<1>6. ~Out(c)  BY <1>1 DEF Whole
<1>7. /\ DOMAIN pictures' = 1 .. Len(pictures) + 1 /\ Len(pictures) \in Nat
      /\ DOMAIN pictures = 1 .. Len(pictures)
      /\ \A m \in 1 .. Len(pictures) : pictures'[m] = pictures[m]
      /\ pictures'[Len(pictures) + 1] = Copy!Picture(c)
  BY <1>2, <1>5
<1>8. \A s : Out(s)' <=> Out(s) \/ s = c
  <2> SUFFICES ASSUME NEW s PROVE Out(s)' <=> Out(s) \/ s = c  OBVIOUS
  <2>1. ASSUME Out(s)' PROVE Out(s) \/ s = c
    <3>1. PICK m \in DOMAIN pictures' : pictures'[m] = Copy!Picture(s)
      BY <2>1 DEF Out
    <3>2. CASE m = Len(pictures) + 1  BY <1>7, <3>1, <3>2, ImageHolds
    <3>3. CASE m # Len(pictures) + 1  BY <1>7, <3>1, <3>3 DEF Out
    <3> QED BY <3>2, <3>3
  <2>2. ASSUME Out(s) PROVE Out(s)'
    <3>1. PICK m \in DOMAIN pictures : pictures[m] = Copy!Picture(s)
      BY <2>2 DEF Out
    <3>2. m \in DOMAIN pictures' /\ pictures'[m] = Copy!Picture(s)  BY <1>7, <3>1
    <3> QED BY <3>2 DEF Out
  <2>3. ASSUME s = c PROVE Out(s)'
    <3>1. Len(pictures) + 1 \in DOMAIN pictures'  BY <1>7
    <3> QED BY <1>7, <2>3, <3>1 DEF Out
  <2> QED BY <2>1, <2>2, <2>3
<1>9. /\ item'[p] = Recv!EmptyPic
      /\ \A q \in SlotId : q # p => item'[q] = item[q]
  BY <1>1, <1>2
<1>10. \A s \in Nat, f \in FrameId, b \in BlkId :
         InSlot(s, f, b)' <=> InSlot(s, f, b) /\ s # c
  <2> SUFFICES ASSUME NEW s \in Nat, NEW f \in FrameId, NEW b \in BlkId
               PROVE  InSlot(s, f, b)' <=> InSlot(s, f, b) /\ s # c
    OBVIOUS
  <2>1. ASSUME InSlot(s, f, b)' PROVE InSlot(s, f, b) /\ s # c
    <3>1. PICK q \in SlotId : Recv!Held(item'[q][f][b]) /\ item'[q][f][b].src = s
      BY <2>1 DEF InSlot
    <3>2. q # p  BY <1>9, <3>1, EmptyPicType
    <3>3. Recv!Held(item[q][f][b]) /\ item[q][f][b].src = s  BY <1>9, <3>1, <3>2
    <3>4. s # c
      <4>1. PICK g \in Nat : g = item[q][f][b].group  BY HeldTypes
      <4>2. (GroupBlks * g) + q = s  BY <3>3, <4>1 DEF NetState, InSlots
      <4>3. PICK h \in Nat : (GroupBlks * h) + p = c  BY <1>1
      <4> QED BY <3>2, <4>2, <4>3, SlotOf
    <3> QED BY <3>3, <3>4 DEF InSlot
  <2>2. ASSUME InSlot(s, f, b), s # c PROVE InSlot(s, f, b)'
    <3>1. PICK q \in SlotId : Recv!Held(item[q][f][b]) /\ item[q][f][b].src = s
      BY <2>2 DEF InSlot
    <3>2. q # p  BY <1>1, <1>4, <2>2, <3>1
    <3>3. item'[q] = item[q]  BY <1>9, <3>2
    <3> QED BY <3>1, <3>3 DEF InSlot
  <2> QED BY <2>1, <2>2
<1>11. \A f \in FrameId, b \in BlkId : ~Carried(c, f, b)'
  <2> SUFFICES ASSUME NEW f \in FrameId, NEW b \in BlkId, Carried(c, f, b)'
               PROVE  FALSE
    OBVIOUS
  <2>1. Carried(c, f, b)  OBVIOUS
  <2>2. f = pf /\ b = pb  BY <1>4, <2>1
  <2> QED BY <1>1, <2>2
<1>12. c < S
  <2>1. pkt.data_type = 0 /\ pkt.size > 0  BY DatumIs
  <2>2. ~IsEnd(pkt) /\ ~Opening(pkt)  BY <2>1 DEF IsEnd, Blank, Opening, IsStart
  <2>3. Prior(c, pf, S, J)  BY <1>1, <2>2 DEF NetState, OnWire
  <2>4. ASSUME NEW x \in FrameId, NEW y \in BlkId, ~(x = pf /\ y = pb)
        PROVE  Prior(c, x, S, J)
    <3>1. Recv!Held(item[p][x][y]) /\ item[p][x][y].src = c  BY <1>4, <2>4
    <3> QED BY <3>1 DEF NetState, InSlots
  <2>5. /\ PicBlks - 1 \in FrameId /\ 0 \in BlkId /\ J <= PicBlks - 1 /\ J \in Nat
        /\ PicBlks \in Nat
    <3>1. PicBlks \in Nat \ {0} /\ FrameBlks \in Nat \ {0}  BY Cut
    <3> QED BY <3>1 DEF FrameId, BlkId
  <2>6. Prior(c, PicBlks - 1, S, J)  BY <2>3, <2>4, <2>5
  <2> QED BY <2>5, <2>6 DEF Prior
<1>13. \A s \in Nat, f \in FrameId, b \in BlkId :
         Prior(s, f, S, J) => Carried(s, f, b)' \/ InSlot(s, f, b)' \/ Out(s)'
  <2> SUFFICES ASSUME NEW s \in Nat, NEW f \in FrameId, NEW b \in BlkId,
                      Prior(s, f, S, J), s # c
               PROVE  Carried(s, f, b)' \/ InSlot(s, f, b)' \/ Out(s)'
    BY <1>8
  <2>1. Carried(s, f, b) \/ InSlot(s, f, b) \/ Out(s)  BY DEF Whole
  <2>2. Carried(s, f, b) => Carried(s, f, b)'  BY <1>3
  <2> QED BY <1>8, <1>10, <2>1, <2>2
<1>14. \A s \in Nat, f \in FrameId, b \in BlkId :
         Out(s)' => ~Carried(s, f, b)' /\ ~InSlot(s, f, b)'
  <2> SUFFICES ASSUME NEW s \in Nat, NEW f \in FrameId, NEW b \in BlkId, Out(s)'
               PROVE  ~Carried(s, f, b)' /\ ~InSlot(s, f, b)'
    OBVIOUS
  <2>1. CASE s = c  BY <1>10, <1>11, <2>1
  <2>2. CASE s # c
    <3>1. ~Carried(s, f, b) /\ ~InSlot(s, f, b)  BY <1>8, <2>2 DEF Whole
    <3> QED BY <1>10, <3>1
  <2> QED BY <2>1, <2>2
<1>15. \A s \in Nat : Prior(s + GroupBlks, 0, S, J) => Out(s)'  BY <1>8 DEF Whole
<1>16. \A m \in DOMAIN pictures' :
         \E s \in Nat : s < S /\ pictures'[m] = Copy!Picture(s)
  <2> SUFFICES ASSUME NEW m \in DOMAIN pictures'
               PROVE  \E s \in Nat : s < S /\ pictures'[m] = Copy!Picture(s)
    OBVIOUS
  <2>1. CASE m = Len(pictures) + 1  BY <1>7, <1>12, <2>1
  <2>2. CASE m # Len(pictures) + 1
    <3>1. m \in DOMAIN pictures /\ pictures'[m] = pictures[m]  BY <1>7, <2>2
    <3> QED BY <3>1 DEF Whole
  <2> QED BY <2>1, <2>2
<1>17. \A l, m \in DOMAIN pictures' : pictures'[l] = pictures'[m] => l = m
  <2>1. \A m \in DOMAIN pictures' : m # Len(pictures) + 1 =>
          /\ m \in DOMAIN pictures /\ pictures'[m] = pictures[m]
          /\ pictures'[m] # Copy!Picture(c)
    BY <1>6, <1>7 DEF Out
  <2> QED BY <1>7, <2>1 DEF Whole
<1> QED BY <1>13, <1>14, <1>15, <1>16, <1>17 DEF Whole

LEMMA WholeDeliver ==
  ASSUME NoShortTail, Recv!TypeOK, SlotsCount, Counted,
         NEW S \in Nat, NEW J \in FrameId, NetState(S, J), Whole(S, J),
         NEW n \in DOMAIN wire, ~ready => n = 1, Recv!Receive(wire[n]),
         wire' = Without(n), UNCHANGED sendVars
  PROVE  Whole(S, J)'
<1>1. PICK pkt \in Packet : pkt = wire[n]  BY DEF Counted, SendTypes
<1>2. IF Opening(wire[n]) THEN ready' ELSE ready' = ready  BY Arrival DEF Fresh
<1>3. /\ \A s, f, b : Carried(s, f, b)' => Carried(s, f, b)
      /\ \A s, f, b : Carried(s, f, b) /\ ~CarriedBy(n, s, f, b) => Carried(s, f, b)'
      /\ \A s, f, b : CarriedBy(n, s, f, b) => ~Carried(s, f, b)'
  BY <1>2, Shrunk, NetWire
<1>4. ASSUME ~Datum(wire[n]) PROVE \A s, f, b : Carried(s, f, b)' <=> Carried(s, f, b)
  BY <1>3, <1>4 DEF CarriedBy
<1>5. CASE /\ Opening(wire[n]) /\ pictures' = pictures
           /\ \A p \in SlotId, f \in FrameId, b \in BlkId : ~Recv!Held(item'[p][f][b])
  <2>1. ~Datum(wire[n])  BY <1>5 DEF Datum, IsBlock, Opening, IsStart
  <2>2. ~ready
    <3>1. ~IsEnd(wire[n])  BY <1>5 DEF Opening, IsStart, IsEnd, Blank
    <3> QED BY <2>1, <3>1 DEF NetState, OnWire
  <2>3. \A s \in Nat, f \in FrameId, b \in BlkId : ~InSlot(s, f, b) /\ ~InSlot(s, f, b)'
    BY <1>5, <2>2 DEF NetState, Unopened, InSlot
  <2>4. \A s, f, b : Carried(s, f, b)' <=> Carried(s, f, b)  BY <1>4, <2>1
  <2> QED BY <1>5, <2>3, <2>4, WholeSame
<1>6. CASE /\ UNCHANGED <<item, pictures>>
           /\ Datum(wire[n]) =>
                LET it == item[wire[n].pic][wire[n].frame][wire[n].blk]
                IN  Recv!Held(it) /\ it.src # wire[n].src
  <2>1. ~Datum(wire[n])
    <3>1. SUFFICES ASSUME Datum(wire[n]) PROVE FALSE  OBVIOUS
    <3>2. /\ pkt.pic \in SlotId /\ pkt.frame \in FrameId /\ pkt.blk \in BlkId
      BY <1>1, <3>1, DatumIs
    <3>3. Recv!Held(item[pkt.pic][pkt.frame][pkt.blk])
          /\ item[pkt.pic][pkt.frame][pkt.blk].src # pkt.src
      BY <1>1, <1>6, <3>1
    <3> QED BY <1>1, <3>1, <3>2, <3>3, OnePicture
  <2>2. \A s, f, b : InSlot(s, f, b)' <=> InSlot(s, f, b)  BY <1>6 DEF InSlot
  <2>3. \A s, f, b : Carried(s, f, b)' <=> Carried(s, f, b)  BY <1>4, <2>1
  <2> QED BY <1>6, <2>2, <2>3, WholeSame
<1>7. CASE /\ Datum(wire[n]) /\ TakesIn(wire[n])
           /\ ~Recv!Held(item[wire[n].pic][wire[n].frame][wire[n].blk])
  <2>1. /\ Datum(pkt) /\ TakesIn(pkt)
        /\ ~Recv!Held(item[pkt.pic][pkt.frame][pkt.blk])
    BY <1>1, <1>7
  <2>2. CASE /\ pictures' = pictures
             /\ item' = [item EXCEPT ![pkt.pic] = Recv!StoredPic(pkt)]
    BY <1>1, <1>3, <2>1, <2>2, WholeStore
  <2>3. CASE /\ pictures' = Append(pictures, Recv!Image(Recv!StoredPic(pkt)))
             /\ item' = [item EXCEPT ![pkt.pic] = Recv!EmptyPic]
             /\ \A x \in FrameId, y \in BlkId : Recv!Held(Recv!StoredPic(pkt)[x][y])
    BY <1>1, <1>3, <2>1, <2>3, WholeComplete
  <2> QED BY <2>1, <2>2, <2>3, TakesInWhole
<1> QED BY <1>5, <1>6, <1>7, Arrival DEF Fresh

\* When the sender comes to a picture, the one a group before it is out: none of
\* its packets can still be on its way, and no slot stays full.
LEMMA SlotFree ==
  ASSUME TailFull, Counted, Recv!TypeOK, SlotsCount,
         Window <= PicPkts * (GroupBlks - 1), wire # <<>> => pktIdx - wire[1].idx <= Window,
         NEW S \in Nat, NEW J \in FrameId, NetState(S, J), Whole(S, J), phase = "frame",
         NEW s \in Nat, s + GroupBlks = S, J = 0
  PROVE  Out(s)
<1>1. /\ GroupBlks \in Nat \ {0} /\ PicPkts \in Nat /\ Window \in Nat /\ wire \in Seq(Packet)
      /\ FrameBlks \in Nat /\ 0 \in FrameId
  BY Cut, PicPktsIs, NetAssumption DEF Counted, SendTypes, FrameId
<1>2. PICK x \in Nat, y \in Nat : x = PicPkts * s /\ y = PicPkts * (GroupBlks - 1)
  BY <1>1
<1>3. pktIdx = 1 + x + y + PicPkts
  <2>1. PicPkts * (s + GroupBlks) = x + y + PicPkts
    <3>1. PICK g \in Nat : GroupBlks = g + 1
      <4>1. GroupBlks - 1 \in Nat /\ GroupBlks = (GroupBlks - 1) + 1  BY <1>1
      <4> QED BY <4>1
    <3>2. PicPkts * (s + (g + 1)) = (PicPkts * s) + (PicPkts * g) + PicPkts  BY <1>1
    <3>3. y = PicPkts * g  BY <1>1, <1>2, <3>1
    <3> QED BY <1>2, <3>1, <3>2, <3>3
  <2>2. pktIdx = IdxOf(S, J, 0)
    <3>1. S # 0  BY <1>1
    <3> QED BY <3>1 DEF NetState, SentTo
  <2>3. FrameBlks * 0 = 0  BY <1>1
  <2> QED BY <1>1, <2>1, <2>2, <2>3 DEF IdxOf
<1>4. ASSUME NEW f \in FrameId, NEW b \in BlkId, Carried(s, f, b) PROVE FALSE
  <2>1. PICK n \in DOMAIN wire : CarriedBy(n, s, f, b)  BY <1>4 DEF Carried
  <2>2. /\ Datum(wire[n]) /\ wire[n].idx = IdxOf(s, f, b) /\ b < FramePkts(f)
    BY <2>1 DEF CarriedBy, Datum
  <2>3. (FrameBlks * f) + b \in Nat /\ (FrameBlks * f) + b < PicPkts /\ b \in Nat
    BY <2>2, IdxInPicture, Cut DEF BlkId
  <2>4. IdxOf(s, f, b) <= x + PicPkts
    <3>1. PICK u \in Nat : u = FrameBlks * f  BY <1>1, Cut DEF FrameId
    <3> QED BY <1>1, <1>2, <2>3, <3>1 DEF IdxOf
  <2>5. IdxOf(s, f, b) \in Nat  BY <2>3, IdxType
  <2>6. wire # <<>> /\ 1 \in DOMAIN wire /\ n \in Nat /\ n >= 1 /\ wire[1] \in Packet
    <3>1. n \in 1 .. Len(wire) /\ Len(wire) \in Nat  BY <1>1
    <3>2. 1 \in 1 .. Len(wire)  BY <3>1
    <3> QED BY <1>1, <3>1, <3>2, EmptySeq
  <2>7. wire[1].idx \in Nat  BY <2>6 DEF Packet
  <2>8. wire[1].idx <= wire[n].idx
    <3>1. CASE n = 1  BY <2>7, <3>1
    <3>2. CASE n # 1
      <4>1. 1 < n  BY <2>6, <3>2
      <4>2. wire[1].idx < wire[n].idx  BY <2>2, <2>6, <4>1 DEF NetState, OnWire
      <4> QED BY <2>2, <2>5, <2>7, <4>2
    <3> QED BY <3>1, <3>2
  <2>9. pktIdx - wire[1].idx <= Window  BY <2>6
  <2> QED BY <1>1, <1>2, <1>3, <2>2, <2>4, <2>5, <2>7, <2>8, <2>9
<1>5. SUFFICES ASSUME ~Out(s) PROVE FALSE  OBVIOUS
<1>6. \A f \in FrameId, b \in BlkId : InSlot(s, f, b)
  <2> SUFFICES ASSUME NEW f \in FrameId, NEW b \in BlkId PROVE InSlot(s, f, b)
    OBVIOUS
  <2>1. Prior(s, f, S, J)  BY <1>1 DEF Prior
  <2> QED BY <1>4, <1>5, <2>1 DEF Whole
<1>7. PICK p \in SlotId : \A f \in FrameId, b \in BlkId : Recv!Held(item[p][f][b])
  <2>1. \A f \in FrameId, b \in BlkId : \E q \in SlotId, g \in Nat :
          Recv!Held(item[q][f][b]) /\ (GroupBlks * g) + q = s
    <3> SUFFICES ASSUME NEW f \in FrameId, NEW b \in BlkId
                 PROVE  \E q \in SlotId, g \in Nat :
                          Recv!Held(item[q][f][b]) /\ (GroupBlks * g) + q = s
      OBVIOUS
    <3>1. PICK q \in SlotId : Recv!Held(item[q][f][b]) /\ item[q][f][b].src = s
      BY <1>6 DEF InSlot
    <3>2. PICK g \in Nat : g = item[q][f][b].group  BY HeldTypes
    <3>3. (GroupBlks * g) + q = s  BY <3>1, <3>2 DEF NetState, InSlots
    <3> QED BY <3>1, <3>3
  <2>2. 0 \in BlkId  BY Cut DEF BlkId
  <2>3. PICK p \in SlotId, h \in Nat : (GroupBlks * h) + p = s  BY <1>1, <2>1, <2>2
  <2>4. \A f \in FrameId, b \in BlkId : Recv!Held(item[p][f][b])
    <3> SUFFICES ASSUME NEW f \in FrameId, NEW b \in BlkId
                 PROVE  Recv!Held(item[p][f][b])
      OBVIOUS
    <3>1. PICK q \in SlotId, g \in Nat :
            Recv!Held(item[q][f][b]) /\ (GroupBlks * g) + q = s
      BY <2>1
    <3>2. q = p  BY <2>3, <3>1, SlotOf
    <3> QED BY <3>1, <3>2
  <2> QED BY <2>4
<1>8. FullFrames(p) = FrameId
  BY <1>7, RecvSets DEF FullFrames, Completes, Recv!HeldBlks
<1>9. completeNum[p] = PicBlks /\ completeNum[p] < PicBlks
  BY <1>8, IdSets DEF SlotsCount, SlotCount
<1> QED BY <1>9, Cut

LEMMA WholeRead ==
  ASSUME NEW S \in Nat, NEW J \in FrameId, Whole(S, J),
         UNCHANGED <<wire, item, pictures>>
  PROVE  Whole(S, J)'
<1>1. \A s, f, b : /\ Carried(s, f, b)' <=> Carried(s, f, b)
                   /\ InSlot(s, f, b)' <=> InSlot(s, f, b)
  BY DEF Carried, CarriedBy, InSlot
<1> QED BY <1>1, WholeSame

LEMMA WholeSend ==
  ASSUME FramesNumbered, TailFull, NetFacts,
         Window <= PicPkts * (GroupBlks - 1), wire # <<>> => pktIdx - wire[1].idx <= Window,
         NEW S \in Nat, NEW J \in FrameId, NetState(S, J), Whole(S, J),
         SendFrame, UNCHANGED cacheVars
  PROVE  Whole(NextPic(S, J), NextFrame(J))'
<1>1. Counted /\ Recv!TypeOK /\ SlotsCount  BY DEF NetFacts
<1>2. phase = "frame" /\ J \in Nat  BY Cut DEF SendFrame, FrameId
<1>3. PICK T \in Nat, K \in FrameId :
        /\ T = NextPic(S, J) /\ K = NextFrame(J) /\ S <= T
        /\ \A s \in Nat, f \in FrameId : Prior(s, f, T, K)
             <=> Prior(s, f, S, J) \/ (s = S /\ f = J)
  BY NextIdx DEF NextPic
<1>4. \A s, f, b : Carried(s, f, b)' <=>
        Carried(s, f, b) \/ (s = S /\ f = J /\ b \in 0 .. FramePkts(J) - 1)
  BY <1>1, SendCarried, NetWire
<1>5. \A s, f, b : InSlot(s, f, b)' <=> InSlot(s, f, b)  BY DEF cacheVars, InSlot
<1>6. pictures' = pictures  BY DEF cacheVars
<1>7. \A s : Out(s)' <=> Out(s)  BY <1>6 DEF Out
<1>8. FramePkts(J) = FrameBlks /\ BlkId = 0 .. FramePkts(J) - 1
  BY FrameCut DEF TailFull, BlkId
<1>9. \A s \in Nat, f \in FrameId, b \in BlkId :
        Prior(s, f, T, K) => Carried(s, f, b)' \/ InSlot(s, f, b)' \/ Out(s)'
  BY <1>3, <1>4, <1>5, <1>7, <1>8 DEF Whole
<1>10. ~Out(S)
  <2>1. SUFFICES ASSUME NEW m \in DOMAIN pictures, pictures[m] = Copy!Picture(S)
                 PROVE  FALSE
    BY DEF Out
  <2>2. PICK t \in Nat : t < S /\ pictures[m] = Copy!Picture(t)  BY DEF Whole
  <2>3. Copy!Picture(t) = Copy!Picture(S)  BY <2>1, <2>2
  <2>4. t = S  BY <2>3, ImageHolds
  <2> QED BY <2>2, <2>4
<1>11. \A s \in Nat, f \in FrameId, b \in BlkId :
         Out(s)' => ~Carried(s, f, b)' /\ ~InSlot(s, f, b)'
  BY <1>4, <1>5, <1>7, <1>10 DEF Whole
<1>12. ASSUME NEW s \in Nat, Prior(s + GroupBlks, 0, T, K) PROVE Out(s)'
  <2>1. s + GroupBlks \in Nat /\ 0 \in FrameId  BY Cut DEF FrameId
  <2>2. Prior(s + GroupBlks, 0, S, J) \/ (s + GroupBlks = S /\ J = 0)
    BY <1>3, <1>12, <2>1
  <2>3. CASE Prior(s + GroupBlks, 0, S, J)  BY <1>7, <2>3 DEF Whole
  <2>4. CASE s + GroupBlks = S /\ J = 0  BY <1>1, <1>2, <1>7, <2>4, SlotFree
  <2> QED BY <2>2, <2>3, <2>4
<1>13. /\ \A n \in DOMAIN pictures' : \E s \in Nat : s < T /\ pictures'[n] = Copy!Picture(s)
       /\ \A m, n \in DOMAIN pictures' : pictures'[m] = pictures'[n] => m = n
  <2>1. \A s \in Nat : s < S => s < T  BY <1>3
  <2> QED BY <1>6, <2>1 DEF Whole
<1>14. Whole(T, K)'  BY <1>9, <1>11, <1>12, <1>13 DEF Whole
<1> QED BY <1>3, <1>14

LEMMA WholeInit == Init => WholeInv
<1> SUFFICES ASSUME Init PROVE WholeInv  OBVIOUS
<1>1. NetInv  BY NetInvInit
<1>2. /\ wire = <<>> /\ pictures = <<>> /\ phase # "frame" /\ sumsize = 0 /\ groupId = 0
      /\ i = 0 /\ item = [p \in SlotId |-> Recv!EmptyPic]
  BY RecvSets DEF Init, SenderInit, Recv!Init
<1>3. NetState(0, 0)  BY NetStateInit
<1>4. 0 \in Nat /\ 0 \in FrameId /\ GroupBlks \in Nat \ {0}  BY Cut DEF FrameId
<1>5. Whole(0, 0)
  <2>1. \A s, f, b : ~Carried(s, f, b) /\ ~Out(s)  BY <1>2 DEF Carried, Out
  <2>2. \A s \in Nat, f \in FrameId, b \in BlkId : ~InSlot(s, f, b)
    BY <1>2, EmptyPicType DEF InSlot
  <2>3. \A s \in Nat, f \in FrameId : ~Prior(s, f, 0, 0)
    BY Cut DEF Prior, FrameId
  <2>4. \A s \in Nat : ~Prior(s + GroupBlks, 0, 0, 0)  BY <1>4 DEF Prior
  <2> QED BY <1>2, <2>1, <2>2, <2>3, <2>4 DEF Whole
<1> QED BY <1>1, <1>3, <1>4, <1>5 DEF WholeInv, NetInv, NetFacts

LEMMA WholeInvStep ==
  ASSUME FramesNumbered, GroupsWrap, NoShortTail, TailFull,
         Window <= PicPkts * (GroupBlks - 1), lost \in Nat, repeated \in Nat,
         WholeInv, [NetNext]_allVars, lost' = 0, repeated' = 0
  PROVE  WholeInv'
<1>1. NetInv /\ NetFacts  BY DEF WholeInv, NetInv, NetFacts
<1>2. NetFacts'
  <2>1. NetInv'  BY <1>1, NetInvStep
  <2> QED BY <2>1 DEF NetInv, NetFacts
<1>3. PICK S \in Nat, J \in FrameId : NetState(S, J) /\ Whole(S, J)  BY DEF WholeInv
<1>4. Counted /\ Recv!TypeOK /\ SlotsCount /\ MoreToSend  BY <1>1 DEF NetFacts
<1>5. CASE NetSend
  <2>1. /\ wire # <<>> => pktIdx - wire[1].idx <= Window
        /\ UNCHANGED cacheVars
    BY <1>5 DEF NetSend
  <2>2. CASE ReadPicture \/ ReadShort
    <3>1. NetState(S, J)'  BY <1>3, <1>4, <2>1, <2>2, ReadState
    <3>2. wire' = wire /\ item' = item /\ pictures' = pictures
      BY <2>1, <2>2 DEF ReadPicture, ReadShort, cacheVars
    <3>3. Whole(S, J)'  BY <1>3, <3>2, WholeRead
    <3> QED BY <1>2, <1>3, <3>1, <3>3 DEF WholeInv
  <2>3. CASE SendFrame
    <3>1. NetState(NextPic(S, J), NextFrame(J))'  BY <1>3, <1>4, <2>1, <2>3, SendState
    <3>2. Whole(NextPic(S, J), NextFrame(J))'  BY <1>1, <1>3, <2>1, <2>3, WholeSend
    <3>3. PICK T \in Nat, K \in FrameId : T = NextPic(S, J) /\ K = NextFrame(J)
      BY NextIdx
    <3> QED BY <1>2, <3>1, <3>2, <3>3 DEF WholeInv
  <2> QED BY <1>5, <2>2, <2>3 DEF NetSend
<1>6. CASE NetDeliver
  <2>1. PICK n \in Deliverable : /\ wire' = Without(n) /\ Recv!Receive(wire[n])
                                 /\ UNCHANGED <<sendVars, netVars>>
    BY <1>6 DEF NetDeliver
  <2>2. n \in DOMAIN wire /\ (~ready => n = 1)  BY <2>1 DEF Deliverable
  <2>3. NetState(S, J)'  BY <1>3, <1>4, <2>1, <2>2, DeliverState DEF Fresh
  <2>4. Whole(S, J)'  BY <1>3, <1>4, <2>1, <2>2, WholeDeliver
  <2> QED BY <1>2, <1>3, <2>3, <2>4 DEF WholeInv
<1>7. CASE UNCHANGED allVars
  <2>1. NetState(S, J)'  BY <1>3, <1>7, NetStateSame DEF allVars
  <2>2. Whole(S, J)'  BY <1>3, <1>7, WholeRead DEF allVars, vars, cacheVars
  <2> QED BY <1>2, <1>3, <2>1, <2>2 DEF WholeInv
<1>8. ~NetLose /\ ~NetEarly /\ ~NetRepeat  BY NetCounts
<1> QED BY <1>5, <1>6, <1>7, <1>8 DEF NetNext

LEMMA WholeIntact == WholeInv => AllIntact
<1> SUFFICES ASSUME WholeInv PROVE AllIntact  OBVIOUS
<1>1. PICK S \in Nat, J \in FrameId : NetState(S, J) /\ Whole(S, J)  BY DEF WholeInv
<1>2. \A s : [fb \in ImgBlocks |-> s] = Copy!Picture(s)  BY DEF Copy!Picture
<1>3. S <= SentPictures /\ SentPictures \in Nat
  <2>1. total \in Nat  BY ConstTypes DEF WholeInv, NetFacts, Counted, SendTypes
  <2>2. SentPictures \in Int  BY <2>1, ConstTypes DEF SentPictures
  <2>3. S <= SentPictures  BY <1>1 DEF NetState, SentTo
  <2> QED BY <2>2, <2>3
<1>4. ASSUME NEW n \in DOMAIN pictures
      PROVE  \E num \in 0 .. SentPictures - 1 : pictures[n] = [fb \in ImgBlocks |-> num]
  <2>1. PICK s \in Nat : s < S /\ pictures[n] = Copy!Picture(s)  BY <1>1 DEF Whole
  <2>2. s \in 0 .. SentPictures - 1  BY <1>3, <2>1
  <2> QED BY <1>2, <2>1, <2>2
<1>5. ASSUME NEW m \in DOMAIN pictures, NEW n \in DOMAIN pictures,
             Sources(pictures[m]) \cap Sources(pictures[n]) # {}
      PROVE  m = n
  <2>1. PICK s \in Nat, t \in Nat :
          pictures[m] = Copy!Picture(s) /\ pictures[n] = Copy!Picture(t)
    BY <1>1 DEF Whole
  <2>2. \A r : Sources(Copy!Picture(r)) \subseteq {r}  BY DEF Sources, Copy!Picture
  <2>3. s = t  BY <1>5, <2>1, <2>2
  <2> QED BY <1>1, <2>1, <2>3 DEF Whole
<1> QED BY <1>4, <1>5 DEF AllIntact

LEMMA TailClosed == NoShortTail /\ ~TailFull => ~TailCompletes
<1>1. Payload(PicBlks - 1, FramePkts(PicBlks - 1) - 1) \in Nat
  <2>1. PicBlks - 1 \in FrameId /\ FramePkts(PicBlks - 1) \in Nat \ {0}
    BY PicPktsIs, FrameCut
  <2>2. FramePkts(PicBlks - 1) - 1 \in 0 .. FramePkts(PicBlks - 1) - 1  BY <2>1
  <2> QED BY <2>1, <2>2, PayloadCut
<1> QED BY <1>1, ConstTypes DEF TailCompletes, TailFull, NoShortTail

\* A bound of 0 on repetitions, and there are none.
LEMMA NoRepeats ==
  ASSUME MaxRepeat = 0, repeated = 0, [NetNext]_allVars
  PROVE  repeated' = 0
BY DEF NetNext, NetSend, NetDeliver, NetLose, NetEarly, NetRepeat, netVars, allVars

\* As long as nothing is lost or repeated, and no data outruns the start packet
\* (which counts as a loss, file_pkt2raw.c:600), every picture that comes out is
\* one of the file, whole, and comes out once, whatever order its packets arrive in,
\* if the last one does not pass for a short one and no packet is more than the
\* group but one picture behind the sender: the check of the group_id in
\* pkt2cache then never meets another picture's block (file_pkt2raw.c:600-666).
THEOREM IntactInAnyOrder ==
  FramesNumbered /\ GroupsWrap /\ NoShortTail
    /\ Window <= PicPkts * (GroupBlks - 1) =>
    (NetSpec => [](lost = 0 /\ repeated = 0 => AllIntact))
<1> SUFFICES ASSUME FramesNumbered, GroupsWrap, NoShortTail,
                    Window <= PicPkts * (GroupBlks - 1)
             PROVE  NetSpec => [](lost = 0 /\ repeated = 0 => AllIntact)
  OBVIOUS
<1>1. CASE TailFull
  <2> DEFINE Inv == /\ lost \in Nat /\ repeated \in Nat
                    /\ lost = 0 /\ repeated = 0 => WholeInv
  <2>1. NetInit => Inv  BY WholeInit, NetCounts DEF NetInit
  <2>2. Inv /\ [NetNext]_allVars => Inv'  BY <1>1, WholeInvStep, NetCounts
  <2>3. Inv => (lost = 0 /\ repeated = 0 => AllIntact)  BY WholeIntact
  <2> QED BY <2>1, <2>2, <2>3, PTL DEF NetSpec
<1>2. CASE ~TailFull
  <2>1. ~TailCompletes  BY <1>2, TailClosed
  <2>2. (repeated = 0 => pictures = <<>>) => (lost = 0 /\ repeated = 0 => AllIntact)
    BY DEF AllIntact
  <2>3. NetSpec => [](repeated = 0 => pictures = <<>>)  BY <2>1, NothingComesOut
  <2> QED BY <2>2, <2>3, PTL
<1> QED BY <1>1, <1>2

\* The same of the checked network that lets packets overtake each other, for
\* as long as it has lost none and no data has outrun the start packet.
THEOREM IntactIfReorderedHolds ==
  FramesNumbered /\ GroupsWrap /\ NoShortTail /\ MaxRepeat = 0
    /\ Window <= PicPkts * (GroupBlks - 1) =>
    (MCSpec => []IntactIfReordered)
<1> SUFFICES ASSUME FramesNumbered, GroupsWrap, NoShortTail, MaxRepeat = 0,
                    Window <= PicPkts * (GroupBlks - 1)
             PROVE  MCSpec => []IntactIfReordered
  OBVIOUS
<1>1. CASE TailFull
  <2> DEFINE Inv == net = "overtaking" => /\ lost \in Nat /\ repeated = 0
                                          /\ lost = 0 => WholeInv
  <2>1. MCInit => Inv  BY WholeInit DEF MCInit, NetInit
  <2>2. Inv /\ [MCNext]_mcVars => Inv'
    <3> SUFFICES ASSUME Inv, [MCNext]_mcVars, net' = "overtaking" PROVE Inv'  OBVIOUS
    <3>1. net = "overtaking" /\ [NetNext]_allVars  BY DEF MCNext, mcVars
    <3>2. lost \in Nat /\ repeated = 0 /\ (lost = 0 => WholeInv)  BY <3>1
    <3>3. repeated' = 0  BY <3>1, <3>2, NoRepeats
    <3>4. lost' \in Nat /\ (lost' = 0 => lost = 0)  BY <3>1, <3>2, NetCounts
    <3> QED BY <1>1, <3>1, <3>2, <3>3, <3>4, WholeInvStep
  <2>3. Inv => IntactIfReordered  BY WholeIntact DEF IntactIfReordered
  <2> QED BY <2>1, <2>2, <2>3, PTL DEF MCSpec
<1>2. CASE ~TailFull
  <2> DEFINE Inv == net = "overtaking" =>
                      repeated = 0 /\ NetInv /\ pictures = <<>>
  <2>0. ~TailCompletes  BY <1>2, TailClosed
  <2>1. MCInit => Inv  BY NetInvInit DEF MCInit, NetInit, Init, Recv!Init
  <2>2. Inv /\ [MCNext]_mcVars => Inv'
    <3> SUFFICES ASSUME Inv, [MCNext]_mcVars, net' = "overtaking" PROVE Inv'  OBVIOUS
    <3>1. net = "overtaking" /\ [NetNext]_allVars  BY DEF MCNext, mcVars
    <3>2. repeated = 0 /\ NetInv /\ pictures = <<>>  BY <3>1
    <3>3. repeated' = 0  BY <3>1, <3>2, NoRepeats
    <3> QED BY <2>0, <3>1, <3>2, <3>3, NothingOutStep
  <2>3. Inv => IntactIfReordered  BY DEF IntactIfReordered, AllIntact
  <2> QED BY <2>1, <2>2, <2>3, PTL DEF MCSpec
<1> QED BY <1>1, <1>2

-----------------------------------------------------------------------------
(* Packets are lost, but keep their order, and the file has one group: what *)
(* comes out is of one picture each, with holes in the last frame at most.  *)

OneGroup == total <= GroupBlks * ImgSize

\* the picture an image is of, as its last block says
PicOf(img) == img[<<LastFrame, LastBlk>>]

OfOnePicture(img) ==
  /\ PicOf(img) \in Nat
  /\ \A fb \in ImgBlocks : \/ img[fb] = PicOf(img)
                           \/ img[fb] = Recv!Hole /\ fb[1] = LastFrame

WireInGroup == \A n \in DOMAIN wire : Datum(wire[n]) => wire[n].src < GroupBlks

\* What is held came before everything on its way.
HeldBefore ==
  \A p \in SlotId, f \in FrameId, b \in BlkId : Recv!Held(item[p][f][b]) =>
    /\ item[p][f][b].src = p
    /\ \A n \in DOMAIN wire : Datum(wire[n]) => IdxOf(p, f, b) < wire[n].idx

\* What came out is of pictures before those on their way or to be sent.
OutBefore(S) ==
  \A m \in DOMAIN pictures :
    /\ OfOnePicture(pictures[m]) /\ PicOf(pictures[m]) < S
    /\ \A n \in DOMAIN wire : Datum(wire[n]) => PicOf(pictures[m]) < wire[n].src

OutInOrder ==
  \A l, m \in DOMAIN pictures : l < m => PicOf(pictures[l]) < PicOf(pictures[m])

Ordered(S) == WireInGroup /\ HeldBefore /\ OutBefore(S) /\ OutInOrder

OrderInv == NetFacts /\ \E S \in Nat, J \in FrameId : NetState(S, J) /\ Ordered(S)

LEMMA LastBlkIs ==
  /\ LastFrame \in FrameId /\ LastBlk \in BlkId /\ LastBlk < FramePkts(LastFrame)
  /\ LastBlk \in Nat /\ <<LastFrame, LastBlk>> \in ImgBlocks
  /\ \A fb \in ImgBlocks : fb[1] \in FrameId /\ fb[2] \in BlkId
                           /\ fb[2] < FramePkts(fb[1])
<1>1. /\ LastFrame \in FrameId /\ FramePkts(LastFrame) \in Nat \ {0}
      /\ FramePkts(LastFrame) <= FrameBlks
  BY PicPktsIs, FrameCut DEF LastFrame
<1>2. /\ LastBlk \in 0 .. FramePkts(LastFrame) - 1 /\ LastBlk \in BlkId
  BY <1>1, Cut DEF LastBlk, LastFrame, BlkId
<1>3. ImgBlocks = SentBlocks  BY PayloadsTile
<1>4. <<LastFrame, LastBlk>> \in SentBlocks  BY <1>1, <1>2 DEF SentBlocks
<1>5. \A fb \in ImgBlocks : fb[1] \in FrameId /\ fb[2] \in BlkId
                            /\ fb[2] < FramePkts(fb[1])
  <2>1. SUFFICES ASSUME NEW fb \in ImgBlocks
                 PROVE  fb[1] \in FrameId /\ fb[2] \in BlkId /\ fb[2] < FramePkts(fb[1])
    OBVIOUS
  <2>2. fb[1] \in FrameId /\ fb[2] \in BlkId  BY DEF ImgBlocks
  <2>3. fb[2] < FramePkts(fb[1])  BY <1>3 DEF SentBlocks
  <2> QED BY <2>2, <2>3
<1> QED BY <1>1, <1>2, <1>3, <1>4, <1>5

\* In the first group a picture's slot is its number.
LEMMA SlotIsSource ==
  ASSUME NEW pkt \in Packet, Datum(pkt), pkt.src < GroupBlks
  PROVE  pkt.src = pkt.pic
<1>1. pkt.src \in SlotId /\ pkt.pic \in SlotId /\ pkt.group \in Nat /\ pkt.src \in Nat
      /\ (GroupBlks * pkt.group) + pkt.pic = pkt.src
  BY DatumIs, Cut DEF SlotId, Datum
<1>2. (GroupBlks * 0) + pkt.src = pkt.src  BY <1>1, Cut
<1> QED BY <1>1, <1>2, SlotOf

\* A block of picture s comes no later than its last one.
LEMMA LastIsLast ==
  ASSUME NEW s \in Nat, NEW f \in FrameId, NEW b \in Nat, b < FramePkts(f)
  PROVE  /\ ~(IdxOf(s, LastFrame, LastBlk) < IdxOf(s, f, b))
         /\ IdxOf(s, f, b) = IdxOf(s, LastFrame, LastBlk) => f = LastFrame /\ b = LastBlk
<1>1. /\ (FrameBlks * f) + b \in Nat /\ (FrameBlks * f) + b < PicPkts
      /\ PicPkts \in Nat /\ LastBlk \in Nat
      /\ PicPkts = (FrameBlks * LastFrame) + (LastBlk + 1)
      /\ FrameBlks * LastFrame \in Nat
  <2>1. FramePkts(LastFrame) = LastBlk + 1 /\ FrameBlks * LastFrame \in Nat
    BY PicPktsIs, Cut DEF LastFrame, LastBlk, FrameId
  <2> QED BY <2>1, PicPktsIs, IdxInPicture, LastBlkIs DEF LastFrame
<1>2. PICK x \in Nat, y \in Nat, z \in Nat :
        x = PicPkts * s /\ y = FrameBlks * f /\ z = FrameBlks * LastFrame
  BY <1>1, Cut DEF FrameId
<1>3. /\ IdxOf(s, f, b) = 1 + x + y + b
      /\ IdxOf(s, LastFrame, LastBlk) = 1 + x + z + LastBlk
      /\ y + b < z + LastBlk + 1
  BY <1>1, <1>2 DEF IdxOf
<1>4. IdxOf(s, f, b) = IdxOf(s, LastFrame, LastBlk) => f = LastFrame /\ b = LastBlk
  BY IdxOrder, LastBlkIs
<1> QED BY <1>1, <1>2, <1>3, <1>4

\* The packet that comes next finds its picture without its last block.
LEMMA InOrderFresh ==
  ASSUME WireInGroup, HeldBefore, Counted, NEW n \in DOMAIN wire, Datum(wire[n])
  PROVE  Fresh(wire[n])
<1>1. PICK pkt \in Packet : pkt = wire[n]  BY DEF Counted, SendTypes
<1>2. SUFFICES ASSUME pkt.frame = LastFrame,
                      Recv!Held(item[pkt.pic][LastFrame][LastBlk])
               PROVE  FALSE
  BY <1>1 DEF Fresh, LastFrame
<1>3. /\ pkt.src = pkt.pic /\ pkt.pic \in SlotId /\ pkt.src \in Nat
      /\ pkt.frame \in FrameId /\ pkt.blk \in Nat /\ pkt.blk < FramePkts(pkt.frame)
      /\ pkt.idx = IdxOf(pkt.src, pkt.frame, pkt.blk)
  BY <1>1, DatumIs, SlotIsSource, Cut DEF WireInGroup, Datum, BlkId
<1>4. IdxOf(pkt.pic, LastFrame, LastBlk) < pkt.idx
  BY <1>1, <1>2, <1>3, LastBlkIs DEF HeldBefore
<1> QED BY <1>3, <1>4, LastIsLast

\* What is left when a packet is taken off the wire.
LEMMA LeftOnWire ==
  ASSUME Counted, NEW n \in DOMAIN wire, wire' = Without(n)
  PROVE  \A m \in DOMAIN wire' : \E k \in DOMAIN wire :
           k # n /\ wire'[m] = wire[k]
<1>1. wire \in Seq(Packet)  BY DEF Counted, SendTypes
<1> QED BY <1>1, WithoutIs DEF Without

LEMMA OrderGone ==
  ASSUME NEW S, Ordered(S), UNCHANGED <<item, pictures>>,
         \A m \in DOMAIN wire' : \E k \in DOMAIN wire : wire'[m] = wire[k]
  PROVE  Ordered(S)'
<1>1. WireInGroup'  BY DEF Ordered, WireInGroup
<1>2. HeldBefore'  BY DEF Ordered, HeldBefore
<1>3. OutBefore(S)' /\ OutInOrder'  BY DEF Ordered, OutBefore, OutInOrder
<1> QED BY <1>1, <1>2, <1>3 DEF Ordered

\* The packets behind the first one have larger numbers.
LEMMA OthersLater ==
  ASSUME Counted, NEW S, NEW J, NetState(S, J), 1 \in DOMAIN wire,
         NEW k \in DOMAIN wire, k # 1, Datum(wire[k])
  PROVE  wire[1].idx < wire[k].idx
<1>1. k \in Nat /\ 1 < k
  <2>1. k \in 1 .. Len(wire) /\ Len(wire) \in Nat  BY DEF Counted, SendTypes
  <2> QED BY <2>1
<1> QED BY <1>1 DEF NetState, OnWire

\* The first packet on its way goes into its slot.
LEMMA OrderHeld ==
  ASSUME Recv!TypeOK, Counted, NEW S, NEW J, NetState(S, J), WireInGroup, HeldBefore,
         1 \in DOMAIN wire, NEW pkt \in Packet, pkt = wire[1], Datum(pkt), TakesIn(pkt),
         \A m \in DOMAIN wire' : \E k \in DOMAIN wire : k # 1 /\ wire'[m] = wire[k]
  PROVE  WireInGroup' /\ HeldBefore'
<1>1. WireInGroup'  BY DEF WireInGroup
<1>2. pkt.src = pkt.pic /\ pkt.idx = IdxOf(pkt.pic, pkt.frame, pkt.blk)
  BY SlotIsSource DEF WireInGroup, Datum
<1>3. ASSUME NEW p \in SlotId, NEW f \in FrameId, NEW b \in BlkId,
             Recv!Held(item'[p][f][b])
      PROVE  /\ item'[p][f][b].src = p
             /\ \A m \in DOMAIN wire' : Datum(wire'[m]) => IdxOf(p, f, b) < wire'[m].idx
  <2>1. CASE /\ p = pkt.pic /\ f = pkt.frame /\ b = pkt.blk
             /\ item'[p][f][b].src = pkt.src
    BY <1>2, <2>1, OthersLater
  <2>2. CASE Recv!Held(item[p][f][b]) /\ item'[p][f][b] = item[p][f][b]
    <3>1. /\ item[p][f][b].src = p
          /\ \A k \in DOMAIN wire : Datum(wire[k]) => IdxOf(p, f, b) < wire[k].idx
      BY <2>2 DEF HeldBefore
    <3> QED BY <2>2, <3>1
  <2> QED BY <1>3, <2>1, <2>2, HeldAfter
<1>4. HeldBefore'  BY <1>3 DEF HeldBefore
<1> QED BY <1>1, <1>4

\* The packet that brings a picture out is its last one, and there are holes
\* in the last frame only.
LEMMA OutByLast ==
  ASSUME Recv!TypeOK, WireInGroup, HeldBefore, 1 \in DOMAIN wire,
         NEW pkt \in Packet, pkt = wire[1], Datum(pkt),
         \A x \in FrameId : Completes(x, StoredBlks(pkt, x))
  PROVE  /\ pkt.frame = LastFrame /\ pkt.blk = LastBlk
         /\ OfOnePicture(Recv!Image(Recv!StoredPic(pkt)))
         /\ PicOf(Recv!Image(Recv!StoredPic(pkt))) = pkt.src
<1> DEFINE stored == Recv!StoredPic(pkt)
<1>1. /\ pkt.pic \in SlotId /\ pkt.frame \in FrameId /\ pkt.blk \in BlkId
      /\ pkt.src = pkt.pic /\ pkt.src \in Nat /\ pkt.blk \in Nat
      /\ pkt.blk < FramePkts(pkt.frame)
      /\ pkt.idx = IdxOf(pkt.src, pkt.frame, pkt.blk)
  BY DatumIs, SlotIsSource, Cut DEF WireInGroup, Datum, BlkId
<1>2. \A x \in FrameId, y \in BlkId :
        stored[x][y] = IF x = pkt.frame /\ y = pkt.blk
                         THEN [size |-> pkt.size, group |-> pkt.group, src |-> pkt.src]
                         ELSE item[pkt.pic][x][y]
  BY <1>1, StoredIs
<1>3. \A x \in FrameId, y \in BlkId : Recv!Held(stored[x][y]) => stored[x][y].src = pkt.src
  BY <1>1, <1>2 DEF HeldBefore
<1>4. Recv!Held(stored[LastFrame][LastBlk])
  <2>1. Completes(LastFrame, StoredBlks(pkt, LastFrame))  BY LastBlkIs
  <2>2. LastBlk \in StoredBlks(pkt, LastFrame)  BY <2>1, LastBlkIs DEF Completes
  <2> QED BY <2>2 DEF StoredBlks
<1>5. pkt.frame = LastFrame /\ pkt.blk = LastBlk
  <2>1. SUFFICES ASSUME ~(LastFrame = pkt.frame /\ LastBlk = pkt.blk) PROVE FALSE
    OBVIOUS
  <2>2. Recv!Held(item[pkt.pic][LastFrame][LastBlk])  BY <1>2, <1>4, <2>1, LastBlkIs
  <2>3. IdxOf(pkt.pic, LastFrame, LastBlk) < pkt.idx
    BY <1>1, <2>2, LastBlkIs DEF HeldBefore
  <2> QED BY <1>1, <2>3, LastIsLast
<1>6. \A x \in FrameId, y \in BlkId : x # LastFrame => Recv!Held(stored[x][y])
  BY DEF Completes, StoredBlks, LastFrame
<1> HIDE DEF stored
<1>7. ASSUME NEW fb \in ImgBlocks
      PROVE  /\ Recv!Image(stored)[fb] = IF Recv!Held(stored[fb[1]][fb[2]])
                                           THEN pkt.src ELSE Recv!Hole
             /\ ~Recv!Held(stored[fb[1]][fb[2]]) => fb[1] = LastFrame
  <2>1. fb[1] \in FrameId /\ fb[2] \in BlkId  BY LastBlkIs
  <2> QED BY <1>3, <1>6, <2>1 DEF Recv!Image
<1>8. PicOf(Recv!Image(stored)) = pkt.src
  <2>1. <<LastFrame, LastBlk>> \in ImgBlocks  BY LastBlkIs
  <2>2. Recv!Image(stored)[<<LastFrame, LastBlk>>] = pkt.src  BY <1>4, <1>7, <2>1
  <2> QED BY <2>2 DEF PicOf
<1>9. OfOnePicture(Recv!Image(stored))  BY <1>1, <1>7, <1>8 DEF OfOnePicture
<1> QED BY <1>5, <1>8, <1>9 DEF stored

\* With it the picture comes out, or nothing does.
LEMMA OrderTaken ==
  ASSUME Recv!TypeOK, Counted, NEW S \in Nat, NEW J \in FrameId, NetState(S, J), Ordered(S),
         1 \in DOMAIN wire, NEW pkt \in Packet, pkt = wire[1], Datum(pkt), TakesIn(pkt),
         \A m \in DOMAIN wire' : \E k \in DOMAIN wire : k # 1 /\ wire'[m] = wire[k]
  PROVE  Ordered(S)'
<1>1. WireInGroup' /\ HeldBefore'  BY OrderHeld DEF Ordered
<1>2. CASE pictures' = pictures
  <2>1. OutBefore(S)' /\ OutInOrder'  BY <1>2 DEF Ordered, OutBefore, OutInOrder
  <2> QED BY <1>1, <2>1 DEF Ordered
<1>3. CASE /\ pictures' = Append(pictures, Recv!Image(Recv!StoredPic(pkt)))
           /\ \A x \in FrameId : Completes(x, StoredBlks(pkt, x))
  <2>1. PICK img : img = Recv!Image(Recv!StoredPic(pkt))  OBVIOUS
  <2>2. /\ pkt.frame = LastFrame /\ pkt.blk = LastBlk
        /\ OfOnePicture(img) /\ PicOf(img) = pkt.src
    BY <1>3, <2>1, OutByLast DEF Ordered
  <2>3. pkt.src \in Nat /\ pkt.idx = IdxOf(pkt.src, LastFrame, LastBlk)
    BY <2>2, DatumIs DEF Datum
  <2>4. pkt.src < S
    <3>1. pkt.data_type = 0 /\ pkt.size > 0  BY DatumIs
    <3>2. ~IsEnd(pkt) /\ ~Opening(pkt)  BY <3>1 DEF IsEnd, Blank, Opening, IsStart
    <3>3. Prior(pkt.src, LastFrame, S, J)  BY <2>2, <3>2 DEF NetState, OnWire
    <3>4. J \in Nat /\ LastFrame \in Nat /\ J <= LastFrame
      BY Cut DEF FrameId, LastFrame
    <3> QED BY <3>3, <3>4 DEF Prior
  <2>5. ASSUME NEW k \in DOMAIN wire, k # 1, Datum(wire[k]) PROVE pkt.src < wire[k].src
    <3>1. PICK q \in Packet : q = wire[k]  BY DEF Counted, SendTypes
    <3>2. /\ q.src \in Nat /\ q.frame \in FrameId /\ q.blk \in Nat
          /\ q.blk < FramePkts(q.frame) /\ q.idx = IdxOf(q.src, q.frame, q.blk)
      BY <2>5, <3>1, DatumIs, Cut DEF Datum, BlkId
    <3>3. pkt.idx < q.idx  BY <2>5, <3>1, OthersLater
    <3>4. IdxOf(pkt.src, LastFrame, LastBlk) < IdxOf(q.src, q.frame, q.blk)
      BY <2>3, <3>2, <3>3
    <3>5. pkt.src <= q.src
      <4>1. IdxOf(pkt.src, LastFrame, LastBlk) <= IdxOf(q.src, q.frame, q.blk)
        <5>1. /\ IdxOf(pkt.src, LastFrame, LastBlk) \in Nat
              /\ IdxOf(q.src, q.frame, q.blk) \in Nat
          BY <2>3, <3>2, IdxType, LastBlkIs
        <5> QED BY <3>4, <5>1
      <4> QED BY <2>3, <3>2, <4>1, IdxOrder, LastBlkIs
    <3>6. pkt.src # q.src  BY <3>2, <3>4, LastIsLast
    <3> QED BY <2>3, <3>1, <3>2, <3>5, <3>6
  <2>6. /\ DOMAIN pictures' = 1 .. Len(pictures) + 1 /\ Len(pictures) \in Nat
        /\ DOMAIN pictures = 1 .. Len(pictures)
        /\ \A m \in 1 .. Len(pictures) : pictures'[m] = pictures[m]
        /\ pictures'[Len(pictures) + 1] = img
    <3>1. pictures \in Seq([ImgBlocks -> Nat \cup {Recv!Hole}])
      BY RecvSets DEF Recv!TypeOK
    <3> QED BY <1>3, <2>1, <3>1
  <2>7. OutBefore(S)'
    <3>1. SUFFICES ASSUME NEW m \in DOMAIN pictures'
                   PROVE  /\ OfOnePicture(pictures'[m]) /\ PicOf(pictures'[m]) < S
                          /\ \A k \in DOMAIN wire' :
                               Datum(wire'[k]) => PicOf(pictures'[m]) < wire'[k].src
      BY DEF OutBefore
    <3>2. CASE m = Len(pictures) + 1
      <4>1. pictures'[m] = img  BY <2>6, <3>2
      <4> QED BY <2>2, <2>4, <2>5, <4>1
    <3>3. CASE m # Len(pictures) + 1
      <4>1. m \in DOMAIN pictures /\ pictures'[m] = pictures[m]  BY <2>6, <3>3
      <4> QED BY <4>1 DEF Ordered, OutBefore
    <3> QED BY <3>2, <3>3
  <2>8. OutInOrder'
    <3>1. SUFFICES ASSUME NEW l \in DOMAIN pictures', NEW m \in DOMAIN pictures', l < m
                   PROVE  PicOf(pictures'[l]) < PicOf(pictures'[m])
      BY DEF OutInOrder
    <3>2. l \in DOMAIN pictures /\ pictures'[l] = pictures[l]  BY <2>6, <3>1
    <3>3. CASE m = Len(pictures) + 1
      <4>1. PicOf(pictures[l]) < pkt.src  BY <3>2 DEF Ordered, OutBefore
      <4>2. pictures'[m] = img  BY <2>6, <3>3
      <4> QED BY <2>2, <3>2, <4>1, <4>2
    <3>4. CASE m # Len(pictures) + 1
      <4>1. m \in DOMAIN pictures /\ pictures'[m] = pictures[m]  BY <2>6, <3>4
      <4> QED BY <3>1, <3>2, <4>1 DEF Ordered, OutInOrder
    <3> QED BY <3>3, <3>4
  <2> QED BY <1>1, <2>7, <2>8 DEF Ordered
<1> QED BY <1>2, <1>3 DEF TakesIn

LEMMA OrderDeliver ==
  ASSUME Recv!TypeOK, SlotsCount, Counted, NEW S \in Nat, NEW J \in FrameId,
         NetState(S, J), Ordered(S), 1 \in DOMAIN wire, Recv!Receive(wire[1]),
         wire' = Without(1), UNCHANGED sendVars
  PROVE  Ordered(S)'
<1>1. PICK pkt \in Packet : pkt = wire[1]  BY DEF Counted, SendTypes
<1>2. Datum(wire[1]) => Fresh(wire[1])  BY InOrderFresh DEF Ordered
<1>3. \A m \in DOMAIN wire' : \E k \in DOMAIN wire : k # 1 /\ wire'[m] = wire[k]
  BY LeftOnWire
<1>4. CASE /\ pictures' = pictures
           /\ \A p \in SlotId, f \in FrameId, b \in BlkId : ~Recv!Held(item'[p][f][b])
  <2>1. WireInGroup' /\ OutBefore(S)' /\ OutInOrder'
    <3>1. WireInGroup'  BY <1>3 DEF Ordered, WireInGroup
    <3>2. OutBefore(S)' /\ OutInOrder'
      BY <1>3, <1>4 DEF Ordered, OutBefore, OutInOrder
    <3> QED BY <3>1, <3>2
  <2>2. HeldBefore'  BY <1>4 DEF HeldBefore
  <2> QED BY <2>1, <2>2 DEF Ordered
<1>5. CASE UNCHANGED <<item, pictures>>  BY <1>3, <1>5, OrderGone
<1>6. CASE Datum(wire[1]) /\ TakesIn(wire[1])  BY <1>1, <1>3, <1>6, OrderTaken
<1> QED BY <1>2, <1>4, <1>5, <1>6, Arrival

\* A frame sent is of a picture of the group, and behind everything.
LEMMA OrderSend ==
  ASSUME FramesNumbered, Counted, OneGroup, NEW S \in Nat, NEW J \in FrameId,
         NetState(S, J), Ordered(S), SendFrame, UNCHANGED cacheVars
  PROVE  Ordered(NextPic(S, J))'
<1>1. /\ phase = "frame" /\ Source = S /\ FramePkts(J) \in Nat
      /\ item' = item /\ pictures' = pictures
  BY SendPlaces, NetWire DEF cacheVars
<1>2. S < GroupBlks
  <2>1. sumsize \in Nat /\ total \in Nat /\ sumsize <= total
    BY <1>1, ConstTypes DEF Counted, SendTypes
  <2>2. sumsize \div ImgSize = S + 1
    <3>1. sumsize \div ImgSize \in Nat  BY <2>1, ConstTypes, DivMod
    <3> QED BY <1>1, <3>1 DEF Source
  <2>3. ImgSize * (S + 1) <= sumsize
    <3>1. /\ sumsize % ImgSize \in 0 .. ImgSize - 1
          /\ sumsize = (ImgSize * (sumsize \div ImgSize)) + (sumsize % ImgSize)
      BY <2>1, ConstTypes, DivMod
    <3>2. sumsize = (ImgSize * (S + 1)) + (sumsize % ImgSize)  BY <2>2, <3>1
    <3>3. PICK r \in Nat : r = sumsize % ImgSize  BY <3>1, ConstTypes
    <3>4. PICK x \in Nat : x = ImgSize * (S + 1)  BY ConstTypes
    <3> QED BY <3>2, <3>3, <3>4
  <2>4. ImgSize * (S + 1) <= ImgSize * GroupBlks
    <3>1. PICK x \in Nat, y \in Nat :
            x = ImgSize * (S + 1) /\ y = ImgSize * GroupBlks /\ y = GroupBlks * ImgSize
      BY ConstTypes, Cut
    <3> QED BY <2>1, <2>3, <3>1 DEF OneGroup
  <2>5. ~(GroupBlks <= S)
    <3>1. ASSUME GroupBlks <= S PROVE FALSE
      <4>1. ImgSize * GroupBlks <= ImgSize * S  BY <3>1, ConstTypes, Cut, MulMonotonic
      <4>2. PICK x \in Nat : x = ImgSize * S  BY ConstTypes
      <4>3. ImgSize * (S + 1) = x + ImgSize  BY <4>2, ConstTypes
      <4> QED BY <2>4, <4>1, <4>2, <4>3, ConstTypes, Cut
    <3> QED BY <3>1
  <2> QED BY <2>5, Cut
<1>3. S <= NextPic(S, J) /\ NextPic(S, J) \in Nat  BY DEF NextPic
<1>4. ASSUME NEW n \in DOMAIN wire', Datum(wire'[n])
      PROVE  \/ n \in DOMAIN wire /\ wire'[n] = wire[n]
             \/ \E c \in Nat : wire'[n].src = S /\ wire'[n].idx = IdxOf(S, J, c)
  <2>1. ~Opening(wire'[n])  BY <1>4 DEF Datum, IsBlock, Opening, IsStart
  <2>2. ~IsEnd(wire'[n])
    <3>1. wire'[n] \in Packet  BY SendPlaces, NetWire
    <3>2. wire'[n].data_type = 0 /\ wire'[n].size > 0  BY <1>4, <3>1, DatumIs
    <3> QED BY <3>2 DEF IsEnd, Blank
  <2>3. ASSUME NEW m \in 1 .. FramePkts(J), CarriedBy(n, S, J, m - 1)'
        PROVE  \E c \in Nat : wire'[n].src = S /\ wire'[n].idx = IdxOf(S, J, c)
    <3>1. m - 1 \in Nat  BY <1>1
    <3>2. wire'[n].src = S /\ wire'[n].idx = IdxOf(S, J, m - 1)
      BY <2>3 DEF CarriedBy, Datum
    <3> QED BY <3>1, <3>2
  <2> QED BY <2>1, <2>2, <2>3, SendCarried, NetWire
<1>5. WireInGroup'  BY <1>2, <1>4 DEF Ordered, WireInGroup
<1>6. HeldBefore'
  <2>1. SUFFICES ASSUME NEW p \in SlotId, NEW f \in FrameId, NEW b \in BlkId,
                        Recv!Held(item[p][f][b])
                 PROVE  /\ item[p][f][b].src = p
                        /\ \A n \in DOMAIN wire' :
                             Datum(wire'[n]) => IdxOf(p, f, b) < wire'[n].idx
    BY <1>1 DEF HeldBefore
  <2>2. /\ item[p][f][b].src = p
        /\ \A n \in DOMAIN wire : Datum(wire[n]) => IdxOf(p, f, b) < wire[n].idx
    BY <2>1 DEF Ordered, HeldBefore
  <2>3. Prior(p, f, S, J) /\ b < FramePkts(f)
    BY <2>1, <2>2 DEF NetState, InSlots
  <2>4. \A c \in Nat : IdxOf(p, f, b) < IdxOf(S, J, c)
    BY <2>3, IdxOrder, Cut DEF SlotId, BlkId
  <2> QED BY <1>4, <2>2, <2>4
<1>7. OutBefore(NextPic(S, J))'
  <2>1. SUFFICES ASSUME NEW m \in DOMAIN pictures
                 PROVE  /\ OfOnePicture(pictures[m]) /\ PicOf(pictures[m]) < NextPic(S, J)
                        /\ \A n \in DOMAIN wire' :
                             Datum(wire'[n]) => PicOf(pictures[m]) < wire'[n].src
    BY <1>1 DEF OutBefore
  <2>2. /\ OfOnePicture(pictures[m]) /\ PicOf(pictures[m]) < S
        /\ \A n \in DOMAIN wire : Datum(wire[n]) => PicOf(pictures[m]) < wire[n].src
    BY DEF Ordered, OutBefore
  <2>3. PicOf(pictures[m]) < NextPic(S, J)  BY <1>3, <2>2 DEF OfOnePicture
  <2> QED BY <1>4, <2>2, <2>3
<1>8. OutInOrder'  BY <1>1 DEF Ordered, OutInOrder
<1> QED BY <1>5, <1>6, <1>7, <1>8 DEF Ordered

LEMMA OrderInit == Init => OrderInv
<1> SUFFICES ASSUME Init PROVE OrderInv  OBVIOUS
<1>1. NetFacts  BY NetInvInit DEF NetInv, NetFacts
<1>2. wire = <<>> /\ pictures = <<>> /\ item = [p \in SlotId |-> Recv!EmptyPic]
  BY RecvSets DEF Init, SenderInit, Recv!Init
<1>3. WireInGroup /\ OutBefore(0) /\ OutInOrder
  BY <1>2 DEF WireInGroup, OutBefore, OutInOrder
<1>4. HeldBefore  BY <1>2, EmptyPicType DEF HeldBefore
<1>5. NetState(0, 0) /\ 0 \in FrameId  BY NetStateInit, Cut DEF FrameId
<1> QED BY <1>1, <1>3, <1>4, <1>5 DEF OrderInv, Ordered

LEMMA OrderInvStep ==
  ASSUME FramesNumbered, GroupsWrap, ~Overtake, OneGroup, repeated \in Nat,
         OrderInv, [NetNext]_allVars, repeated' = 0
  PROVE  OrderInv'
<1>1. PICK S \in Nat, J \in FrameId : NetState(S, J) /\ Ordered(S)  BY DEF OrderInv
<1>2. Counted /\ Recv!TypeOK /\ SlotsCount /\ MoreToSend /\ NetInv
  BY <1>1 DEF OrderInv, NetFacts, NetInv
<1>3. NetInv' => NetFacts'  BY DEF NetInv, NetFacts
<1>4. ASSUME NEW n \in DOMAIN wire, wire[n].data_type = 0, wire' = Without(n),
             UNCHANGED <<sendVars, cacheVars>>
      PROVE  OrderInv'
  <2>1. ~Opening(wire[n])  BY <1>4 DEF Opening, IsStart
  <2>2. NetInv'  BY <1>2, <1>4, <2>1, NetInvDrop
  <2>3. NetState(S, J)'  BY <1>1, <1>2, <1>4, <2>1, Dropped DEF cacheVars
  <2>4. Ordered(S)'  BY <1>1, <1>2, <1>4, LeftOnWire, OrderGone DEF cacheVars
  <2> QED BY <1>3, <2>2, <2>3, <2>4 DEF OrderInv
<1>5. CASE NetSend
  <2>1. UNCHANGED cacheVars  BY <1>5 DEF NetSend
  <2>2. NetInv'  BY <1>2, <1>5, NetInvSend DEF NetSend
  <2>3. CASE ReadPicture \/ ReadShort
    <3>1. NetState(S, J)'  BY <1>1, <1>2, <2>1, <2>3, ReadState
    <3>2. wire' = wire /\ item' = item /\ pictures' = pictures
      BY <2>1, <2>3 DEF ReadPicture, ReadShort, cacheVars
    <3>3. Ordered(S)'  BY <1>1, <3>2, OrderGone
    <3> QED BY <1>3, <2>2, <3>1, <3>3 DEF OrderInv
  <2>4. CASE SendFrame
    <3>1. NetState(NextPic(S, J), NextFrame(J))'  BY <1>1, <1>2, <2>1, <2>4, SendState
    <3>2. Ordered(NextPic(S, J))'  BY <1>1, <1>2, <2>1, <2>4, OrderSend
    <3>3. PICK T \in Nat, K \in FrameId : T = NextPic(S, J) /\ K = NextFrame(J)
      BY NextIdx
    <3> QED BY <1>3, <2>2, <3>1, <3>2, <3>3 DEF OrderInv
  <2> QED BY <1>5, <2>3, <2>4 DEF NetSend
<1>6. CASE NetDeliver
  <2>1. /\ 1 \in DOMAIN wire /\ wire' = Without(1) /\ Recv!Receive(wire[1])
        /\ UNCHANGED sendVars
    BY <1>6 DEF NetDeliver, Deliverable
  <2>2. Datum(wire[1]) => Fresh(wire[1])  BY <1>1, <1>2, <2>1, InOrderFresh DEF Ordered
  <2>3. NetInv'  BY <1>2, <2>1, <2>2, NetInvDeliver
  <2>4. NetState(S, J)'  BY <1>1, <1>2, <2>1, <2>2, DeliverState
  <2>5. Ordered(S)'  BY <1>1, <1>2, <2>1, OrderDeliver
  <2> QED BY <1>3, <2>3, <2>4, <2>5 DEF OrderInv
<1>7. CASE NetLose
  <2>1. PICK n \in DOMAIN wire : wire[n].data_type = 0 /\ wire' = Without(n)
    BY <1>7 DEF NetLose, Deliverable
  <2> QED BY <1>4, <1>7, <2>1 DEF NetLose
<1>8. CASE NetEarly
  <2>1. PICK n \in DOMAIN wire : /\ wire[n].data_type = 0 /\ wire' = Without(n)
                                 /\ Recv!Receive(wire[n])
    BY <1>8 DEF NetEarly
  <2>2. UNCHANGED cacheVars  BY <1>8, <2>1, EarlyDropped DEF NetEarly
  <2> QED BY <1>4, <1>8, <2>1, <2>2 DEF NetEarly
<1>9. CASE NetRepeat  BY <1>9 DEF NetRepeat
<1>10. CASE UNCHANGED allVars
  <2>1. NetInv'  BY <1>2, <1>10, NetInvSame DEF allVars
  <2>2. NetState(S, J)'  BY <1>1, <1>10, NetStateSame DEF allVars
  <2>3. Ordered(S)'  BY <1>1, <1>10, OrderGone DEF allVars, vars, sendVars, cacheVars
  <2> QED BY <1>3, <2>1, <2>2, <2>3 DEF OrderInv
<1> QED BY <1>5, <1>6, <1>7, <1>8, <1>9, <1>10 DEF NetNext

LEMMA OrderLosses == OrderInv /\ repeated = 0 => LossOnlyInLastFrame
<1> SUFFICES ASSUME OrderInv PROVE LossOnlyInLastFrame
  OBVIOUS
<1>1. PICK S \in Nat : OutBefore(S) /\ OutInOrder  BY DEF OrderInv, Ordered
<1>2. ASSUME NEW n \in DOMAIN pictures
      PROVE  /\ Sources(pictures[n]) = {PicOf(pictures[n])}
             /\ \A fb \in ImgBlocks : pictures[n][fb] = Recv!Hole => fb[1] = LastFrame
  <2>1. OfOnePicture(pictures[n])  BY <1>1 DEF OutBefore
  <2>2. PicOf(pictures[n]) # Recv!Hole  BY <2>1 DEF OfOnePicture, Recv!Hole
  <2>3. PicOf(pictures[n]) \in Sources(pictures[n])
    BY <2>2, LastBlkIs DEF PicOf, Sources
  <2>4. Sources(pictures[n]) \subseteq {PicOf(pictures[n])}
    BY <2>1 DEF OfOnePicture, Sources
  <2> QED BY <2>1, <2>2, <2>3, <2>4 DEF OfOnePicture
<1>3. \A n \in DOMAIN pictures : Cardinality(Sources(pictures[n])) = 1
  BY <1>2, FS_Singleton
<1> QED BY <1>1, <1>2, <1>3 DEF LossOnlyInLastFrame, OutInOrder

\* Of a file of one group, over a network that keeps the order and repeats
\* nothing, however much it loses: what comes out is blocks of one picture each,
\* in the order of the file, and a hole is in the last frame, which a short last
\* packet completes whatever has been lost of it (file_pkt2raw.c:600-666).
THEOREM LossInOneGroup ==
  FramesNumbered /\ GroupsWrap /\ ~Overtake => (NetSpec => []LossOnlyInLastFrame)
<1> SUFFICES ASSUME FramesNumbered, GroupsWrap, ~Overtake
             PROVE  NetSpec => []LossOnlyInLastFrame
  OBVIOUS
<1> DEFINE Inv == /\ lost \in Nat /\ repeated \in Nat
                  /\ OneGroup /\ repeated = 0 => OrderInv
<1>1. NetInit => Inv  BY OrderInit, NetCounts DEF NetInit
<1>2. Inv /\ [NetNext]_allVars => Inv'
  <2> SUFFICES ASSUME Inv, [NetNext]_allVars, OneGroup', repeated' = 0 PROVE OrderInv'
    BY NetCounts
  <2>1. total' = total
    BY DEF NetNext, NetSend, NetDeliver, NetLose, NetEarly, NetRepeat, ReadPicture,
           ReadShort, SendFrame, Raw2Pkt, sendVars, allVars, vars
  <2>2. OneGroup /\ repeated = 0  BY <2>1, NetCounts DEF OneGroup
  <2> QED BY <2>2, OrderInvStep
<1>3. Inv => LossOnlyInLastFrame
  BY OrderLosses DEF LossOnlyInLastFrame, OneGroup
<1> QED BY <1>1, <1>2, <1>3, PTL DEF NetSpec

\* Every image that came out has every block that get_picture visits.
NoHole ==
  \A n \in DOMAIN pictures, fb \in ImgBlocks : pictures[n][fb] # Recv!Hole

LEMMA NoHoleReceived ==
  ASSUME NoShortTail, NetInv, NoHole, NEW n \in DOMAIN wire, ~ready => n = 1,
         Recv!Receive(wire[n])
  PROVE  NoHole'
<1>1. PICK pkt \in Packet : pkt = wire[n]  BY DEF NetInv, Counted, SendTypes
<1>2. Recv!TypeOK /\ SlotsCount /\ Counted  BY DEF NetInv
<1>3. CASE pictures' = pictures  BY <1>3 DEF NoHole
<1>4. CASE /\ Datum(pkt) /\ pictures' = Append(pictures, Recv!Image(Recv!StoredPic(pkt)))
           /\ \A x \in FrameId, y \in BlkId : Recv!Held(Recv!StoredPic(pkt)[x][y])
  <2>1. PICK img : img = Recv!Image(Recv!StoredPic(pkt))  OBVIOUS
  <2>2. ASSUME NEW fb \in ImgBlocks PROVE img[fb] # Recv!Hole
    <3>1. fb[1] \in FrameId /\ fb[2] \in BlkId  BY LastBlkIs
    <3>2. img[fb] = Recv!StoredPic(pkt)[fb[1]][fb[2]].src
      BY <1>4, <2>1, <3>1 DEF Recv!Image
    <3>3. Recv!StoredPic(pkt)[fb[1]][fb[2]].src \in Nat
      <4>1. /\ pkt.pic \in SlotId /\ pkt.frame \in FrameId /\ pkt.blk \in BlkId
            /\ pkt.src \in Nat
        BY <1>4, DatumIs
      <4>2. item[pkt.pic][fb[1]][fb[2]].src \in Nat  BY <1>2, <3>1, <4>1, HeldTypes
      <4>3. Recv!StoredPic(pkt)[fb[1]][fb[2]] =
              IF fb[1] = pkt.frame /\ fb[2] = pkt.blk
                THEN [size |-> pkt.size, group |-> pkt.group, src |-> pkt.src]
                ELSE item[pkt.pic][fb[1]][fb[2]]
        BY <1>2, <3>1, <4>1, StoredIs
      <4> QED BY <4>1, <4>2, <4>3
    <3> QED BY <3>2, <3>3 DEF Recv!Hole
  <2>3. \A m \in DOMAIN pictures' :
          \/ pictures'[m] = img
          \/ m \in DOMAIN pictures /\ pictures'[m] = pictures[m]
    <3>1. pictures \in Seq([ImgBlocks -> Nat \cup {Recv!Hole}])
      BY <1>2, RecvSets DEF Recv!TypeOK
    <3> QED BY <1>4, <2>1, <3>1
  <2> QED BY <2>2, <2>3 DEF NoHole
<1>5. PICK S \in Nat, J \in FrameId : NetState(S, J)  BY DEF NetInv
<1> QED BY <1>1, <1>2, <1>3, <1>4, <1>5, Arrival, TakesInWhole DEF Fresh

LEMMA NoHoleStep ==
  ASSUME NoShortTail, NetInv, NoHole, [NetNext]_allVars, repeated \in Nat, repeated' = 0
  PROVE  NoHole'
<1>1. CASE pictures' = pictures  BY <1>1 DEF NoHole
<1>2. CASE NetDeliver
  <2>1. PICK n \in Deliverable : Recv!Receive(wire[n])  BY <1>2 DEF NetDeliver
  <2>2. n \in DOMAIN wire /\ (~ready => n = 1)  BY <2>1 DEF Deliverable
  <2> QED BY <2>1, <2>2, NoHoleReceived
<1>3. CASE NetSend  BY <1>1, <1>3 DEF NetSend, cacheVars
<1>4. CASE NetLose  BY <1>1, <1>4 DEF NetLose, cacheVars
<1>5. CASE NetEarly
  <2>1. PICK n \in DOMAIN wire : wire[n].data_type = 0 /\ Recv!Receive(wire[n])
    BY <1>5 DEF NetEarly
  <2>2. UNCHANGED cacheVars  BY <1>5, <2>1, EarlyDropped DEF NetEarly
  <2> QED BY <1>1, <2>2 DEF cacheVars
<1>6. CASE NetRepeat  BY <1>6 DEF NetRepeat
<1>7. CASE UNCHANGED allVars  BY <1>1, <1>7 DEF allVars, vars, cacheVars
<1> QED BY <1>2, <1>3, <1>4, <1>5, <1>6, <1>7 DEF NetNext

\* With a last packet of a picture that does not pass for a short one, no
\* picture comes out with a hole, whatever is lost and whatever order the rest
\* comes in, as long as nothing is repeated (file_pkt2raw.c:600-666).
THEOREM NoHoles ==
  FramesNumbered /\ GroupsWrap /\ NoShortTail =>
    (NetSpec => [](repeated = 0 => NoHole))
<1> SUFFICES ASSUME FramesNumbered, GroupsWrap, NoShortTail
             PROVE  NetSpec => [](repeated = 0 => NoHole)
  OBVIOUS
<1> DEFINE Inv == lost \in Nat /\ repeated \in Nat /\ (repeated = 0 => NetInv /\ NoHole)
<1>1. NetInit => Inv  BY NetInvInit, NetCounts DEF NetInit, Init, Recv!Init, NoHole
<1>2. Inv /\ [NetNext]_allVars => Inv'  BY NetInvStep, NoHoleStep, NetCounts
<1> QED BY <1>1, <1>2, PTL DEF NetSpec

-----------------------------------------------------------------------------
(* A network that keeps the order, but loses and repeats packets: how many  *)
(* pictures come out.                                                       *)

\* What the counters say of a slot, whatever has arrived: a repetition counts a
\* complete frame again.
TallyOf(p) ==
  /\ \A f \in FrameId : frameNum[p][f] = Cardinality(Recv!HeldBlks(p, f))
  /\ completeNum[p] \in Nat
  /\ Cardinality(FullFrames(p)) <= completeNum[p] /\ completeNum[p] < PicBlks
  /\ completeNum[p] > 0 =>
       \E f \in FrameId, b \in BlkId : Recv!Held(item[p][f][b])

Tally == \A p \in SlotId : TallyOf(p)

SameSlot(q) == /\ item'[q] = item[q] /\ frameNum'[q] = frameNum[q]
               /\ completeNum'[q] = completeNum[q]

\* What pkt2cache does with a block: drop it, store it, or let its picture out.
Drops(pkt) ==
  /\ UNCHANGED <<item, frameNum, completeNum, pictures>>
  /\ LET it == item[pkt.pic][pkt.frame][pkt.blk]
     IN  Recv!Held(it) /\ it.group # pkt.group

Stores(pkt) == /\ pictures' = pictures
               /\ item' = [item EXCEPT ![pkt.pic] = Recv!StoredPic(pkt)]

LetsOut(pkt) == /\ pictures' = Append(pictures, Recv!Image(Recv!StoredPic(pkt)))
                /\ item' = [item EXCEPT ![pkt.pic] = Recv!EmptyPic]

LEMMA TallySame ==
  ASSUME NEW q, TallyOf(q), SameSlot(q)
  PROVE  TallyOf(q)'
<1>1. \A x \in FrameId : Recv!HeldBlks(q, x)' = Recv!HeldBlks(q, x)
  BY DEF SameSlot, Recv!HeldBlks
<1>2. FullFrames(q)' = FullFrames(q)  BY <1>1 DEF FullFrames
<1>3. /\ item'[q] = item[q] /\ frameNum'[q] = frameNum[q]
      /\ completeNum'[q] = completeNum[q]
  BY DEF SameSlot
<1>4. completeNum'[q] > 0 =>
        \E f \in FrameId, b \in BlkId : Recv!Held(item'[q][f][b])
  BY <1>3 DEF TallyOf
<1>5. \A x \in FrameId : frameNum'[q][x] = Cardinality(Recv!HeldBlks(q, x)')
  BY <1>1, <1>3 DEF TallyOf
<1>6. /\ completeNum'[q] \in Nat /\ completeNum'[q] < PicBlks
      /\ Cardinality(FullFrames(q)') <= completeNum'[q]
  BY <1>2, <1>3 DEF TallyOf
<1> QED BY <1>4, <1>5, <1>6 DEF TallyOf

LEMMA TallyVacant == ASSUME NEW q, Vacant(q)' PROVE TallyOf(q)'
<1>1. \A x \in FrameId : Recv!HeldBlks(q, x)' = {}
  BY RecvSets DEF Vacant, Recv!HeldBlks
<1>2. FullFrames(q)' = {}  BY <1>1, NoneComplete DEF FullFrames
<1>3. Cardinality({}) = 0 /\ 0 < PicBlks  BY FS_EmptySet, Cut
<1> QED BY <1>1, <1>2, <1>3 DEF TallyOf, Recv!Held, Vacant

\* A short packet is the last one of its picture.
LEMMA ShortIsLast ==
  ASSUME NEW pkt \in Packet, Datum(pkt)
  PROVE  pkt.size < BlockSize
           <=> ~NoShortTail /\ pkt.frame = PicBlks - 1 /\ pkt.blk = LastBlk
<1> DEFINE f == pkt.frame  b == pkt.blk
<1>1. /\ f \in FrameId /\ b \in 0 .. FramePkts(f) - 1 /\ pkt.size = Payload(f, b) + HdrSize
      /\ pkt.size \in Nat
  BY DatumIs
<1>2. CASE f = PicBlks - 1 /\ b = LastBlk
  BY <1>1, <1>2, ConstTypes DEF NoShortTail, LastBlk
<1>3. CASE ~(f = PicBlks - 1 /\ b = LastBlk)
  <2>1. Payload(f, b) = BlockSize  BY <1>1, <1>3, PayloadCut DEF LastBlk
  <2> QED BY <1>1, <1>3, <2>1, ConstTypes
<1> QED BY <1>2, <1>3

\* The blocks of a slot once a packet is stored.
LEMMA StoredHeld ==
  ASSUME Recv!TypeOK, NEW pkt \in Packet, Datum(pkt)
  PROVE  /\ \A x \in FrameId : x # pkt.frame =>
              StoredBlks(pkt, x) = Recv!HeldBlks(pkt.pic, x)
         /\ StoredBlks(pkt, pkt.frame) = Recv!HeldBlks(pkt.pic, pkt.frame) \cup {pkt.blk}
<1> DEFINE rec == [size |-> pkt.size, group |-> pkt.group, src |-> pkt.src]
<1>1. /\ pkt.pic \in SlotId /\ pkt.frame \in FrameId /\ pkt.blk \in BlkId
      /\ pkt.size \in Nat /\ pkt.size > 0
  BY DatumIs
<1>2. \A x \in FrameId, y \in BlkId :
        Recv!StoredPic(pkt)[x][y]
          = IF x = pkt.frame /\ y = pkt.blk THEN rec ELSE item[pkt.pic][x][y]
  BY <1>1, StoredIs
<1>3. Recv!Held(rec)  BY <1>1 DEF Recv!Held
<1> HIDE DEF rec
<1> QED BY <1>1, <1>2, <1>3, RecvSets DEF StoredBlks, Recv!HeldBlks

LEMMA DatumTaken ==
  ASSUME Recv!TypeOK, Tally, ready, NEW pkt \in Packet, Datum(pkt), Recv!Receive(pkt)
  PROVE  /\ ready' = ready /\ Tally'
         /\ Drops(pkt) \/ Stores(pkt) \/ LetsOut(pkt)
<1> DEFINE p == pkt.pic  f == pkt.frame  b == pkt.blk
           H == StoredBlks(pkt, f)
           full == {x \in FrameId : Completes(x, StoredBlks(pkt, x))}
<1>1. /\ p \in SlotId /\ f \in FrameId /\ b \in BlkId
      /\ pkt.data_type = 0 /\ pkt.size = pkt.len + HdrSize
  BY DatumIs
<1>2. /\ item \in [SlotId -> [FrameId -> [BlkId -> Recv!Items]]]
      /\ frameNum \in [SlotId -> [FrameId -> Nat]] /\ completeNum \in [SlotId -> Nat]
  BY RecvSets DEF Recv!TypeOK
<1>3. /\ \A x \in FrameId : Recv!HeldBlks(p, x) \in SUBSET BlkId
      /\ \A x \in FrameId : frameNum[p][x] = Cardinality(Recv!HeldBlks(p, x))
      /\ Cardinality(FullFrames(p)) <= completeNum[p] /\ FullFrames(p) \in SUBSET FrameId
      /\ completeNum[p] \in Nat /\ completeNum[p] < PicBlks
  BY <1>1, RecvSets DEF Tally, TallyOf, FullFrames, Recv!HeldBlks
<1>4. /\ H = Recv!HeldBlks(p, f) \cup {b}
      /\ \A x \in FrameId : x # f => StoredBlks(pkt, x) = Recv!HeldBlks(p, x)
  BY StoredHeld
<1>5. Recv!NewFrameNum(pkt) = Cardinality(H) /\ H \in SUBSET BlkId
  <2>1. Recv!Held(item[p][f][b]) <=> b \in Recv!HeldBlks(p, f)
    BY <1>1, RecvSets DEF Recv!HeldBlks
  <2> HIDE DEF p, f, b, H
  <2>2. CASE b \in Recv!HeldBlks(p, f)
    <3>1. H = Recv!HeldBlks(p, f)  BY <1>4, <2>2
    <3>2. Recv!NewFrameNum(pkt) = frameNum[p][f] + 0
      BY <2>1, <2>2 DEF Recv!NewFrameNum, Recv!NotRtx, p, f, b
    <3> QED BY <1>1, <1>2, <1>3, <3>1, <3>2
  <2>3. CASE b \notin Recv!HeldBlks(p, f)
    <3>1. Recv!NewFrameNum(pkt) = frameNum[p][f] + 1
      BY <2>1, <2>3 DEF Recv!NewFrameNum, Recv!NotRtx, p, f, b
    <3>2. Cardinality(Recv!HeldBlks(p, f) \cup {b}) = Cardinality(Recv!HeldBlks(p, f)) + 1
      BY <1>1, <1>3, <2>3, IdSets, PartCount
    <3>3. H \in SUBSET BlkId  BY <1>1, <1>3, <1>4
    <3>4. frameNum[p][f] = Cardinality(Recv!HeldBlks(p, f))  BY <1>1, <1>3
    <3> QED BY <1>4, <3>1, <3>2, <3>3, <3>4
  <2> QED BY <2>2, <2>3
<1>6. f \in full \ FullFrames(p) => Recv!FrameDone(pkt)
  <2>1. SUFFICES ASSUME Completes(f, H), ~Completes(f, Recv!HeldBlks(p, f))
                 PROVE  Recv!NewFrameNum(pkt) >= FrameBlks \/ pkt.size < BlockSize
    BY <1>1 DEF FullFrames, Recv!FrameDone
  <2>2. CASE H = BlkId  BY <1>5, <2>2, IdSets, Cut
  <2>3. CASE ~NoShortTail /\ f = PicBlks - 1 /\ LastBlk \in H
    <3>1. LastBlk \notin Recv!HeldBlks(p, f)  BY <2>1, <2>3 DEF Completes
    <3>2. b = LastBlk  BY <1>4, <2>3, <3>1
    <3> QED BY <2>3, <3>2, ShortIsLast
  <2> QED BY <2>1, <2>2, <2>3 DEF Completes
<1>7. Cardinality(full) <= Recv!NewCompleteNum(pkt) /\ full \in SUBSET FrameId
      /\ Recv!NewCompleteNum(pkt) \in Nat
  <2>1. full \subseteq FullFrames(p) \cup {f} /\ full \in SUBSET FrameId
    BY <1>4 DEF FullFrames
  <2>2. Cardinality(FullFrames(p)) \in Nat /\ IsFiniteSet(FullFrames(p))
    BY <1>3, IdSets, PartCount
  <2> HIDE DEF p, f, b, full
  <2>3. CASE full \subseteq FullFrames(p)
    <3>1. Cardinality(full) <= Cardinality(FullFrames(p)) /\ Cardinality(full) \in Nat
      BY <2>2, <2>3, PartCount
    <3> QED BY <1>3, <2>1, <2>2, <3>1 DEF Recv!NewCompleteNum, p
  <2>4. CASE ~(full \subseteq FullFrames(p))
    <3>1. f \in full \ FullFrames(p)  BY <2>1, <2>4
    <3>2. Recv!NewCompleteNum(pkt) = completeNum[p] + 1
      BY <1>6, <3>1 DEF Recv!NewCompleteNum, p
    <3>3. /\ IsFiniteSet(FullFrames(p) \cup {f})
          /\ Cardinality(FullFrames(p) \cup {f}) = Cardinality(FullFrames(p)) + 1
      BY <2>2, <3>1, FS_AddElement
    <3>4. Cardinality(full) <= Cardinality(FullFrames(p)) + 1 /\ Cardinality(full) \in Nat
      BY <2>1, <3>3, PartCount
    <3> QED BY <1>3, <2>1, <2>2, <3>2, <3>4
  <2> QED BY <2>3, <2>4
<1>8. Recv!StoreBlock(pkt) \/ Recv!CompletePicture(pkt) \/ Recv!Discard(pkt)
  BY <1>1 DEF Recv!Receive, Recv!StartInfo, Recv!EndInfo
<1>9. CASE Recv!Discard(pkt)
  <2>1. Recv!TooFast(pkt)
    <3>1. Recv!InRange(pkt)  BY <1>1, Cut DEF Recv!InRange, SlotId, FrameId
    <3> QED BY <1>1, <1>9, <3>1 DEF Recv!Discard, Recv!WellFormed
  <2>2. UNCHANGED <<item, frameNum, completeNum, pictures, ready>>
    BY <1>9 DEF Recv!Discard, Recv!cacheVars
  <2>3. Tally'  BY <2>2, TallySame DEF Tally, SameSlot
  <2> QED BY <2>1, <2>2, <2>3 DEF Drops, Recv!TooFast
<1>10. CASE Recv!StoreBlock(pkt)
  <2>1. /\ item' = [item EXCEPT ![p] = Recv!StoredPic(pkt)] /\ ready' = ready
        /\ pictures' = pictures
        /\ frameNum' = [frameNum EXCEPT ![p][f] = Recv!NewFrameNum(pkt)]
        /\ completeNum' = [completeNum EXCEPT ![p] = Recv!NewCompleteNum(pkt)]
        /\ ~(Recv!NewCompleteNum(pkt) >= PicBlks)
    BY <1>10 DEF Recv!StoreBlock, Recv!PicDone
  <2>2. /\ item'[p] = Recv!StoredPic(pkt) /\ completeNum'[p] = Recv!NewCompleteNum(pkt)
        /\ frameNum'[p][f] = Recv!NewFrameNum(pkt)
        /\ \A x \in FrameId : x # f => frameNum'[p][x] = frameNum[p][x]
        /\ \A q \in SlotId : q # p => SameSlot(q)
    BY <1>1, <1>2, <2>1 DEF SameSlot
  <2>3. \A x \in FrameId : Recv!HeldBlks(p, x)' = StoredBlks(pkt, x)
    BY <2>2, RecvSets DEF Recv!HeldBlks, StoredBlks
  <2>4. FullFrames(p)' = full  BY <2>3 DEF FullFrames
  <2>5. \A x \in FrameId : frameNum'[p][x] = Cardinality(Recv!HeldBlks(p, x)')
    <3>1. SUFFICES ASSUME NEW x \in FrameId
                   PROVE  frameNum'[p][x] = Cardinality(StoredBlks(pkt, x))
      BY <2>3
    <3>2. CASE x = f  BY <1>5, <2>2, <3>2
    <3>3. CASE x # f
      <4>1. frameNum'[p][x] = frameNum[p][x]  BY <2>2, <3>3
      <4>2. StoredBlks(pkt, x) = Recv!HeldBlks(p, x)  BY <1>4, <3>3
      <4> QED BY <1>3, <4>1, <4>2
    <3> QED BY <3>2, <3>3
  <2>6. \E x \in FrameId, y \in BlkId : Recv!Held(item'[p][x][y])
    <3>1. b \in Recv!HeldBlks(p, f)'  BY <1>1, <1>4, <2>3
    <3>2. Recv!Held(item'[p][f][b])  BY <3>1 DEF Recv!HeldBlks
    <3> QED BY <1>1, <3>2
  <2>7. TallyOf(p)'
    <3>1. /\ Cardinality(FullFrames(p)') <= completeNum'[p] /\ completeNum'[p] < PicBlks
          /\ completeNum'[p] \in Nat
      BY <1>7, <2>1, <2>2, <2>4, Cut
    <3> QED BY <2>5, <2>6, <3>1 DEF TallyOf
  <2>8. Tally'
    <3>1. SUFFICES ASSUME NEW q \in SlotId PROVE TallyOf(q)'  BY DEF Tally
    <3>2. CASE q = p  BY <2>7, <3>2
    <3>3. CASE q # p  BY <2>2, <3>3, TallySame DEF Tally
    <3> QED BY <3>2, <3>3
  <2> QED BY <2>1, <2>8 DEF Stores
<1>11. CASE Recv!CompletePicture(pkt)
  <2>1. /\ pictures' = Append(pictures, Recv!Image(Recv!StoredPic(pkt))) /\ ready' = ready
        /\ item' = [item EXCEPT ![p] = Recv!EmptyPic]
        /\ frameNum' = [frameNum EXCEPT ![p] = [x \in FrameId |-> 0]]
        /\ completeNum' = [completeNum EXCEPT ![p] = 0]
    BY <1>11, RecvSets DEF Recv!CompletePicture, Recv!FreePicture
  <2>2. Vacant(p)'
    <3>1. /\ item'[p] = Recv!EmptyPic /\ completeNum'[p] = 0
          /\ \A x \in FrameId : frameNum'[p][x] = 0
      BY <1>1, <1>2, <2>1
    <3> QED BY <3>1, EmptyPicType DEF Vacant
  <2>3. \A q \in SlotId : q # p => SameSlot(q)
    BY <1>1, <1>2, <2>1 DEF SameSlot
  <2>4. Tally'
    <3>1. SUFFICES ASSUME NEW q \in SlotId PROVE TallyOf(q)'  BY DEF Tally
    <3>2. CASE q = p  BY <2>2, <3>2, TallyVacant
    <3>3. CASE q # p  BY <2>3, <3>3, TallySame DEF Tally
    <3> QED BY <3>2, <3>3
  <2> QED BY <2>1, <2>4 DEF LetsOut
<1> QED BY <1>8, <1>9, <1>10, <1>11

-----------------------------------------------------------------------------
(* No picture comes out twice, unless a packet does.                       *)

IsOpen(p) == \E f \in FrameId, b \in BlkId : Recv!Held(item[p][f][b])
OpenSlots == {p \in SlotId : IsOpen(p)}

\* the pictures that came out or are in a slot
Begun == Len(pictures) + Cardinality(OpenSlots)

\* Place p is the slot of picture s.
SlotFor(p, s) == \E g \in Nat : (GroupBlks * g) + p = s

\* The packets on their way are behind block b of frame f of picture s.
Passed(s, f, b) ==
  \A n \in DOMAIN wire : Datum(wire[n]) => IdxOf(s, f, b) < wire[n].idx

NoneBefore(s) == \A n \in DOMAIN wire : Datum(wire[n]) => s <= wire[n].src

\* A slot has been opened for picture s, which is coming in, and is in order.
ComesIn(s, S, J) ==
  \E p \in SlotId :
    /\ SlotFor(p, s) /\ IsOpen(p) /\ SlotCount(p)
    /\ \A f \in FrameId, b \in BlkId : Recv!Held(item[p][f][b]) =>
         b < FramePkts(f) /\ Prior(s, f, S, J) /\ Passed(s, f, b)

BegunBy(s, S, J) ==
  /\ NoneBefore(s)
  /\ \/ Begun <= s + repeated
     \/ Begun <= s + 1 + repeated /\ ComesIn(s, S, J)

NoneTwice(S, J) == \E s \in Nat : s <= S /\ BegunBy(s, S, J)

(* Every picture comes out, unless a packet is lost.                       *)

\* Something is where block b of frame f of picture s belongs.
InPlaceOf(s, f, b) == \E p \in SlotId : SlotFor(p, s) /\ Recv!Held(item[p][f][b])

StillThere(s, S, J) ==
  \A f \in FrameId, b \in BlkId : b < FramePkts(f) /\ Prior(s, f, S, J) =>
    Carried(s, f, b) \/ (InPlaceOf(s, f, b) /\ Passed(s, f, b))

\* The pictures of P came out, or a loss accounts for them.
Settled(P, S, J) ==
  /\ P \in SUBSET Nat /\ IsFiniteSet(P) /\ Cardinality(P) <= Len(pictures) + lost
  /\ \A s \in Nat \ P : StillThere(s, S, J)

AllSettled(S, J) == \E P : Settled(P, S, J)

AllSent(S) == phase = "done" => S = SentPictures

CountFacts == Counted /\ Recv!TypeOK /\ MoreToSend /\ Tally

CountInv ==
  /\ CountFacts
  /\ \E S \in Nat, J \in FrameId :
       WireState(S, J) /\ AllSent(S) /\ NoneTwice(S, J) /\ AllSettled(S, J)

\* What a data packet on its way says.
LEMMA WireDatum ==
  ASSUME Counted, NEW n \in DOMAIN wire, Datum(wire[n])
  PROVE  /\ wire[n] \in Packet /\ wire[n].pic \in SlotId /\ wire[n].frame \in FrameId
         /\ wire[n].blk \in BlkId /\ wire[n].blk \in Nat
         /\ wire[n].blk < FramePkts(wire[n].frame)
         /\ wire[n].src \in Nat /\ wire[n].group \in Nat /\ wire[n].idx \in Nat
         /\ (GroupBlks * wire[n].group) + wire[n].pic = wire[n].src
         /\ wire[n].idx = IdxOf(wire[n].src, wire[n].frame, wire[n].blk)
         /\ ~Opening(wire[n]) /\ ~IsEnd(wire[n])
<1>1. wire[n] \in Packet  BY DEF Counted, SendTypes
<1>2. PICK pkt \in Packet : pkt = wire[n]  BY <1>1
<1>3. /\ pkt.pic \in SlotId /\ pkt.frame \in FrameId /\ pkt.blk \in BlkId
      /\ pkt.src \in Nat /\ pkt.group \in Nat /\ pkt.idx \in Nat
      /\ pkt.data_type = 0 /\ pkt.size > 0
  BY <1>2, DatumIs
<1>4. ~Opening(pkt) /\ ~IsEnd(pkt)  BY <1>3 DEF Opening, IsStart, IsEnd, Blank
<1>5. pkt.blk \in Nat  BY <1>3, Cut DEF BlkId
<1> QED BY <1>1, <1>2, <1>3, <1>4, <1>5 DEF Datum

LEMMA DatumPrior ==
  ASSUME Counted, NEW S \in Nat, NEW J \in FrameId, WireState(S, J),
         NEW n \in DOMAIN wire, Datum(wire[n])
  PROVE  Prior(wire[n].src, wire[n].frame, S, J) /\ wire[n].src <= S
<1>1. Prior(wire[n].src, wire[n].frame, S, J)
  BY WireDatum DEF WireState, OnWire
<1> QED BY <1>1, WireDatum DEF Prior

\* The first packet is of no later picture than the others.
LEMMA FirstOnWire ==
  ASSUME Counted, NEW S, NEW J, WireState(S, J), 1 \in DOMAIN wire, Datum(wire[1]),
         NEW k \in DOMAIN wire, Datum(wire[k])
  PROVE  /\ k # 1 => wire[1].idx < wire[k].idx
         /\ wire[1].src <= wire[k].src
<1>1. ASSUME k # 1 PROVE wire[1].idx < wire[k].idx
  <2>1. k \in 1 .. Len(wire) /\ Len(wire) \in Nat  BY DEF Counted, SendTypes
  <2>2. k \in Nat /\ 1 < k  BY <1>1, <2>1
  <2> QED BY <2>2 DEF WireState, OnWire
<1>2. wire[1].idx <= wire[k].idx  BY <1>1, WireDatum
<1>3. PICK a \in Packet, c \in Packet : a = wire[1] /\ c = wire[k]  BY WireDatum
<1>4. a.src <= c.src
  <2>1. /\ a.src \in Nat /\ a.frame \in FrameId /\ a.blk \in Nat /\ a.blk < FramePkts(a.frame)
        /\ c.src \in Nat /\ c.frame \in FrameId /\ c.blk \in Nat /\ c.blk < FramePkts(c.frame)
        /\ IdxOf(a.src, a.frame, a.blk) <= IdxOf(c.src, c.frame, c.blk)
    BY <1>2, <1>3, WireDatum
  <2> QED BY <2>1, IdxOrder
<1> QED BY <1>1, <1>3, <1>4

LEMMA OneSlotFor ==
  ASSUME NEW p \in SlotId, NEW q \in SlotId, NEW s \in Nat, SlotFor(p, s), SlotFor(q, s)
  PROVE  p = q
BY SlotOf DEF SlotFor

LEMMA DatumSlot ==
  ASSUME Counted, NEW n \in DOMAIN wire, Datum(wire[n])
  PROVE  SlotFor(wire[n].pic, wire[n].src)
BY WireDatum DEF SlotFor

LEMMA OpenCount ==
  ASSUME NEW A \in SUBSET SlotId
  PROVE  /\ Cardinality(A) \in Nat
         /\ \A x \in SlotId : Cardinality(A \cup {x}) <= Cardinality(A) + 1
         /\ \A x \in A : Cardinality(A \ {x}) = Cardinality(A) - 1
         /\ A # {} => Cardinality(A) >= 1
<1>1. IsFiniteSet(SlotId)
  <2>1. GroupBlks - 1 \in Int  BY Cut
  <2> QED BY <2>1, FS_Interval DEF SlotId
<1>2. IsFiniteSet(A) /\ Cardinality(A) \in Nat  BY <1>1, FS_Subset, FS_CardinalityType
<1>3. ASSUME NEW x \in SlotId PROVE Cardinality(A \cup {x}) <= Cardinality(A) + 1
  <2>1. CASE x \in A
    <3>1. A \cup {x} = A  BY <2>1
    <3>2. Cardinality(A \cup {x}) = Cardinality(A)  BY <3>1
    <3> QED BY <1>2, <3>2
  <2>2. CASE x \notin A
    <3>1. Cardinality(A \cup {x}) = Cardinality(A) + 1  BY <1>2, <2>2, FS_AddElement
    <3> QED BY <1>2, <3>1
  <2> QED BY <2>1, <2>2
<1>4. \A x \in A : Cardinality(A \ {x}) = Cardinality(A) - 1
  BY <1>2, FS_RemoveElement
<1>5. A # {} => Cardinality(A) >= 1  BY <1>2, FS_EmptySet
<1> QED BY <1>2, <1>3, <1>4, <1>5

LEMMA BegunNat ==
  ASSUME Recv!TypeOK
  PROVE  Len(pictures) \in Nat /\ Begun \in Nat /\ Begun >= Len(pictures)
<1>1. OpenSlots \in SUBSET SlotId  BY DEF OpenSlots
<1>2. Len(pictures) \in Nat  BY RecvSets DEF Recv!TypeOK
<1> QED BY <1>1, <1>2, OpenCount DEF Begun

\* A block begins at most one picture, and none where one has been begun.
LEMMA BegunAfter ==
  ASSUME Recv!TypeOK, NEW pkt \in Packet, Datum(pkt),
         Drops(pkt) \/ Stores(pkt) \/ LetsOut(pkt)
  PROVE  /\ Begun' \in Nat /\ Begun' <= Begun + 1
         /\ IsOpen(pkt.pic) => Begun' <= Begun
<1>1. /\ pkt.pic \in SlotId /\ pkt.frame \in FrameId /\ pkt.blk \in BlkId
      /\ pkt.size \in Nat /\ pkt.size > 0
  BY DatumIs
<1>2. item \in [SlotId -> [FrameId -> [BlkId -> Recv!Items]]]
  BY RecvSets DEF Recv!TypeOK
<1>3. /\ OpenSlots \in SUBSET SlotId /\ Len(pictures) \in Nat
      /\ pictures \in Seq([ImgBlocks -> Nat \cup {Recv!Hole}])
  BY RecvSets DEF Recv!TypeOK, OpenSlots
<1>4. ASSUME NEW q, item'[q] = item[q] PROVE IsOpen(q)' <=> IsOpen(q)
  BY <1>4 DEF IsOpen
<1>5. CASE Drops(pkt)
  <2>1. OpenSlots' = OpenSlots /\ pictures' = pictures
    BY <1>4, <1>5 DEF OpenSlots, Drops
  <2> QED BY <1>3, <2>1, BegunNat DEF Begun
<1>6. CASE Stores(pkt)
  <2>1. /\ item'[pkt.pic] = Recv!StoredPic(pkt) /\ pictures' = pictures
        /\ \A q \in SlotId : q # pkt.pic => item'[q] = item[q]
    BY <1>1, <1>2, <1>6 DEF Stores
  <2>2. IsOpen(pkt.pic)'
    <3>1. Recv!StoredPic(pkt)[pkt.frame][pkt.blk]
            = [size |-> pkt.size, group |-> pkt.group, src |-> pkt.src]
      BY <1>1, StoredIs
    <3>2. Recv!Held(item'[pkt.pic][pkt.frame][pkt.blk])
      BY <1>1, <2>1, <3>1 DEF Recv!Held
    <3> QED BY <1>1, <3>2 DEF IsOpen, Recv!Held
  <2>3. OpenSlots' = OpenSlots \cup {pkt.pic}
    BY <1>1, <1>4, <2>1, <2>2 DEF OpenSlots
  <2>4. IsOpen(pkt.pic) => OpenSlots' = OpenSlots  BY <1>1, <2>3 DEF OpenSlots
  <2>5. /\ Cardinality(OpenSlots) \in Nat /\ Cardinality(OpenSlots') \in Nat
        /\ Cardinality(OpenSlots') <= Cardinality(OpenSlots) + 1
    <3>1. OpenSlots' \in SUBSET SlotId  BY <1>1, <1>3, <2>3
    <3> QED BY <1>1, <1>3, <2>3, <3>1, OpenCount
  <2> QED BY <1>3, <2>1, <2>4, <2>5 DEF Begun
<1>7. CASE LetsOut(pkt)
  <2>1. /\ item'[pkt.pic] = Recv!EmptyPic /\ Len(pictures') = Len(pictures) + 1
        /\ \A q \in SlotId : q # pkt.pic => item'[q] = item[q]
    BY <1>1, <1>2, <1>3, <1>7 DEF LetsOut
  <2>2. ~IsOpen(pkt.pic)'  BY <2>1, EmptyPicType DEF IsOpen, Recv!Held
  <2>3. OpenSlots' = OpenSlots \ {pkt.pic}
    BY <1>1, <1>4, <2>1, <2>2 DEF OpenSlots
  <2>4. CASE IsOpen(pkt.pic)
    <3>1. pkt.pic \in OpenSlots  BY <1>1, <2>4 DEF OpenSlots
    <3>2. Cardinality(OpenSlots') = Cardinality(OpenSlots) - 1
      BY <1>3, <2>3, <3>1, OpenCount
    <3>3. Cardinality(OpenSlots) \in Nat /\ Cardinality(OpenSlots') \in Nat
      BY <1>3, <2>3, OpenCount
    <3> QED BY <1>3, <2>1, <3>2, <3>3 DEF Begun
  <2>5. CASE ~IsOpen(pkt.pic)
    <3>1. OpenSlots' = OpenSlots  BY <2>3, <2>5 DEF OpenSlots
    <3>2. Cardinality(OpenSlots) \in Nat  BY <1>3, OpenCount
    <3> QED BY <1>3, <2>1, <2>5, <3>1, <3>2 DEF Begun
  <2> QED BY <2>4, <2>5
<1> QED BY <1>5, <1>6, <1>7

\* What the next packet does to a receiver, whichever packet it is.
LEMMA CountArrival ==
  ASSUME CountFacts, NEW S \in Nat, NEW J \in FrameId, WireState(S, J),
         1 \in DOMAIN wire, Recv!Receive(wire[1])
  PROVE  /\ Recv!TypeOK' /\ Tally' /\ (~ready' => item' = item)
         /\ IF Opening(wire[1]) THEN ready' ELSE ready' = ready
         /\ \/ /\ Opening(wire[1]) /\ ~ready /\ pictures' = pictures
               /\ \A p \in SlotId : ~IsOpen(p)'
            \/ /\ ~Datum(wire[1])
               /\ UNCHANGED <<item, frameNum, completeNum, pictures>>
            \/ /\ Datum(wire[1]) /\ ready
               /\ Drops(wire[1]) \/ Stores(wire[1]) \/ LetsOut(wire[1])
<1>1. Counted /\ Recv!TypeOK /\ Tally  BY DEF CountFacts
<1>2. PICK pkt \in Packet : pkt = wire[1]  BY <1>1 DEF Counted, SendTypes
<1>3. Recv!TypeOK'  BY <1>1, <1>2, ReceiveType
<1>4. Datum(pkt) => ~Opening(pkt) /\ ~IsEnd(pkt)  BY <1>1, <1>2, WireDatum
<1>5. CASE Opening(pkt)
  <2>1. ready' /\ pictures' = pictures /\ (\A q \in SlotId : Vacant(q))'
    BY <1>2, <1>5, StartReceived DEF Opening
  <2>2. ~ready
    <3>1. ~IsEnd(pkt)  BY <1>5 DEF Opening, IsStart, IsEnd, Blank
    <3> QED BY <1>2, <1>4, <1>5, <3>1 DEF WireState, OnWire
  <2>3. Tally'  BY <2>1, TallyVacant DEF Tally
  <2>4. \A p \in SlotId : ~IsOpen(p)'  BY <2>1 DEF Vacant, IsOpen
  <2> QED BY <1>2, <1>3, <1>5, <2>1, <2>2, <2>3, <2>4
<1>6. CASE IsEnd(pkt)
  <2>1. UNCHANGED <<item, frameNum, completeNum, pictures, ready>>
    BY <1>2, <1>6, EndReceived
  <2>2. ~Opening(pkt)  BY <1>6 DEF Opening, IsStart, IsEnd, Blank
  <2>3. Tally'
    <3>1. \A q \in SlotId : SameSlot(q)  BY <2>1 DEF SameSlot
    <3> QED BY <1>1, <3>1, TallySame DEF Tally
  <2> QED BY <1>2, <1>3, <1>4, <1>6, <2>1, <2>2, <2>3
<1>7. CASE Datum(pkt)
  <2>1. ready
    <3>1. ~ready => wire # <<>> /\ Opening(wire[1])
      BY DEF WireState, Unopened
    <3> QED BY <1>2, <1>4, <1>7, <3>1
  <2>2. ready' = ready /\ Tally' /\ (Drops(pkt) \/ Stores(pkt) \/ LetsOut(pkt))
    BY <1>1, <1>2, <1>7, <2>1, DatumTaken
  <2> QED BY <1>2, <1>3, <1>4, <1>7, <2>1, <2>2
<1>8. Opening(pkt) \/ IsEnd(pkt) \/ Datum(pkt)  BY <1>2 DEF WireState, OnWire
<1> QED BY <1>5, <1>6, <1>7, <1>8

-----------------------------------------------------------------------------
\* Where nothing arrives, nothing is begun.
LEMMA TwiceGone ==
  ASSUME NEW S \in Nat, NEW J \in FrameId, NoneTwice(S, J),
         UNCHANGED <<item, frameNum, completeNum, pictures>>,
         repeated \in Nat, repeated' \in Nat, repeated <= repeated', Recv!TypeOK,
         \A m \in DOMAIN wire' : \E k \in DOMAIN wire : wire'[m] = wire[k]
  PROVE  NoneTwice(S, J)'
<1>1. PICK s \in Nat : s <= S /\ BegunBy(s, S, J)  BY DEF NoneTwice
<1>2. \A p : IsOpen(p)' <=> IsOpen(p)  BY DEF IsOpen
<1>3. Begun' = Begun /\ Begun \in Nat  BY <1>2, BegunNat DEF Begun, OpenSlots
<1>4. NoneBefore(s)'  BY <1>1 DEF BegunBy, NoneBefore
<1>5. \A f, b : Passed(s, f, b) => Passed(s, f, b)'  BY DEF Passed
<1>6. ASSUME ComesIn(s, S, J) PROVE ComesIn(s, S, J)'
  <2>1. PICK p \in SlotId :
          /\ SlotFor(p, s) /\ IsOpen(p) /\ SlotCount(p)
          /\ \A f \in FrameId, b \in BlkId : Recv!Held(item[p][f][b]) =>
               b < FramePkts(f) /\ Prior(s, f, S, J) /\ Passed(s, f, b)
    BY <1>6 DEF ComesIn
  <2>2. SlotCount(p)' /\ IsOpen(p)'  BY <1>2, <2>1, SlotCountSame
  <2>3. ASSUME NEW f \in FrameId, NEW b \in BlkId, Recv!Held(item'[p][f][b])
        PROVE  b < FramePkts(f) /\ Prior(s, f, S, J) /\ Passed(s, f, b)'
    BY <1>5, <2>1, <2>3
  <2> QED BY <2>1, <2>2, <2>3 DEF ComesIn, Recv!Held
<1>7. BegunBy(s, S, J)'
  BY <1>1, <1>3, <1>4, <1>6 DEF BegunBy
<1> QED BY <1>1, <1>7 DEF NoneTwice

LEMMA NoneOpen ==
  ASSUME \A p \in SlotId : ~IsOpen(p)
  PROVE  Begun = Len(pictures) + 0
<1>1. OpenSlots = {}  BY DEF OpenSlots
<1> QED BY <1>1, FS_EmptySet DEF Begun

\* The start packet finds the slots empty.
LEMMA TwiceOpened ==
  ASSUME NEW S \in Nat, NEW J \in FrameId, NoneTwice(S, J), WireState(S, J), ~ready,
         pictures' = pictures, repeated' = repeated, \A p \in SlotId : ~IsOpen(p)',
         \A m \in DOMAIN wire' : \E k \in DOMAIN wire : wire'[m] = wire[k]
  PROVE  NoneTwice(S, J)'
<1>1. PICK s \in Nat : s <= S /\ BegunBy(s, S, J)  BY DEF NoneTwice
<1>2. \A p \in SlotId : ~IsOpen(p)  BY DEF WireState, Unopened, IsOpen
<1>3. Begun = Len(pictures) + 0  BY <1>2, NoneOpen
<1>4. Begun' = Len(pictures') + 0
  <2>1. OpenSlots' = {}  BY DEF OpenSlots
  <2> QED BY <2>1, FS_EmptySet DEF Begun
<1>5. Begun <= s + repeated  BY <1>1, <1>2 DEF BegunBy, ComesIn
<1>6. NoneBefore(s)'  BY <1>1 DEF BegunBy, NoneBefore
<1> QED BY <1>1, <1>3, <1>4, <1>5, <1>6 DEF NoneTwice, BegunBy

\* The next packet's picture is the one the count has come to.
LEMMA BegunAt ==
  ASSUME NEW S \in Nat, NEW J \in FrameId, NoneTwice(S, J), WireState(S, J),
         CountFacts, repeated \in Nat, 1 \in DOMAIN wire, Datum(wire[1])
  PROVE  /\ wire[1].src \in Nat /\ wire[1].src <= S /\ NoneBefore(wire[1].src)
         /\ \/ Begun <= wire[1].src + repeated
            \/ Begun <= wire[1].src + 1 + repeated /\ ComesIn(wire[1].src, S, J)
<1>1. Counted /\ Recv!TypeOK  BY DEF CountFacts
<1>2. PICK s \in Nat : s <= S /\ BegunBy(s, S, J)  BY DEF NoneTwice
<1>3. PICK t \in Nat : t = wire[1].src /\ s <= t /\ t <= S
  BY <1>1, <1>2, WireDatum, DatumPrior DEF BegunBy, NoneBefore
<1>4. NoneBefore(t)  BY <1>1, <1>3, FirstOnWire DEF NoneBefore
<1>5. Begun \in Nat  BY <1>1, BegunNat
<1>6. \/ Begun <= t + repeated
      \/ Begun <= t + 1 + repeated /\ ComesIn(t, S, J)
  <2>1. CASE s = t  BY <1>2, <2>1 DEF BegunBy
  <2>2. CASE s < t  BY <1>2, <1>3, <1>5, <2>2 DEF BegunBy
  <2> QED BY <1>3, <2>1, <2>2
<1> QED BY <1>3, <1>4, <1>6

\* A repetition begins one picture more at most.
LEMMA TwiceRepeated ==
  ASSUME NEW S \in Nat, NEW J \in FrameId, NoneTwice(S, J), WireState(S, J), CountFacts,
         repeated \in Nat, 1 \in DOMAIN wire, Datum(wire[1]),
         Drops(wire[1]) \/ Stores(wire[1]) \/ LetsOut(wire[1]),
         wire' = wire, repeated' = repeated + 1
  PROVE  NoneTwice(S, J)'
<1>1. Counted /\ Recv!TypeOK  BY DEF CountFacts
<1>2. PICK t \in Nat : t = wire[1].src  BY <1>1, WireDatum
<1>3. /\ t <= S /\ NoneBefore(t)
      /\ \/ Begun <= t + repeated
         \/ Begun <= t + 1 + repeated /\ ComesIn(t, S, J)
  BY <1>2, BegunAt
<1>4. /\ Begun' \in Nat /\ Begun' <= Begun + 1 /\ Begun \in Nat
      /\ IsOpen(wire[1].pic) => Begun' <= Begun
  BY <1>1, WireDatum, BegunAfter, BegunNat
<1>5. ComesIn(t, S, J) => IsOpen(wire[1].pic)
  BY <1>1, <1>2, WireDatum, DatumSlot, OneSlotFor DEF ComesIn
<1>6. Begun' <= t + repeated'  BY <1>3, <1>4, <1>5
<1>7. NoneBefore(t)'  BY <1>3 DEF NoneBefore
<1> QED BY <1>3, <1>6, <1>7 DEF NoneTwice, BegunBy

\* A packet that finds its slot in order completes its picture only as the last
\* packet of it.
LEMMA TwiceJoins ==
  ASSUME NEW S \in Nat, NEW J \in FrameId, WireState(S, J), CountFacts, ready,
         repeated \in Nat, repeated' = repeated, 1 \in DOMAIN wire,
         NEW pkt \in Packet, pkt = wire[1], Datum(pkt), Recv!Receive(pkt),
         wire' = Without(1), SlotCount(pkt.pic),
         \A f \in FrameId, b \in BlkId : Recv!Held(item[pkt.pic][f][b]) =>
           /\ b < FramePkts(f) /\ Prior(pkt.src, f, S, J) /\ Passed(pkt.src, f, b),
         Begun' <= pkt.src + 1 + repeated
  PROVE  NoneTwice(S, J)'
<1> DEFINE s == pkt.src  p == pkt.pic
<1>1. /\ Counted /\ Recv!TypeOK /\ s \in Nat /\ p \in SlotId /\ pkt.idx \in Nat
      /\ pkt.frame \in FrameId /\ pkt.blk \in BlkId /\ pkt.blk \in Nat
      /\ pkt.blk < FramePkts(pkt.frame) /\ pkt.idx = IdxOf(s, pkt.frame, pkt.blk)
  BY WireDatum DEF CountFacts
<1>2. SlotFor(p, s) /\ Prior(s, pkt.frame, S, J) /\ s <= S
  BY <1>1, DatumSlot, DatumPrior
<1>3. \A f \in FrameId, b \in BlkId :
        Recv!Held(item[p][f][b]) => IdxOf(s, f, b) < pkt.idx
  BY DEF Passed
<1>4. ~Recv!Held(item[p][pkt.frame][pkt.blk])  BY <1>1, <1>3
<1>5. ~Recv!Held(item[p][LastFrame][LastBlk])
  <2>1. ~(IdxOf(s, LastFrame, LastBlk) < pkt.idx)  BY <1>1, LastIsLast
  <2> QED BY <1>3, <2>1, LastBlkIs
<1>6. Fresh(pkt)  BY <1>5 DEF Fresh, LastFrame
<1>7. /\ SlotCount(p)'
      /\ \/ pictures' = pictures /\ item' = [item EXCEPT ![p] = Recv!StoredPic(pkt)]
         \/ /\ item' = [item EXCEPT ![p] = Recv!EmptyPic]
            /\ \A x \in FrameId : Completes(x, StoredBlks(pkt, x))
  BY <1>1, <1>4, <1>6, DatumStored
<1>8. item \in [SlotId -> [FrameId -> [BlkId -> Recv!Items]]]
  BY <1>1, RecvSets DEF Recv!TypeOK
<1>9. \A m \in DOMAIN wire' : \E k \in DOMAIN wire : k # 1 /\ wire'[m] = wire[k]
  BY <1>1, LeftOnWire
<1>10. \A m \in DOMAIN wire' : Datum(wire'[m]) =>
         pkt.idx < wire'[m].idx /\ s <= wire'[m].src
  BY <1>1, <1>9, FirstOnWire
<1>11. \A x \in FrameId, y \in BlkId :
         Recv!StoredPic(pkt)[x][y] =
           IF x = pkt.frame /\ y = pkt.blk
             THEN [size |-> pkt.size, group |-> pkt.group, src |-> pkt.src]
             ELSE item[p][x][y]
  BY <1>1, StoredIs
<1>12. CASE item' = [item EXCEPT ![p] = Recv!StoredPic(pkt)]
  <2>1. item'[p] = Recv!StoredPic(pkt)  BY <1>1, <1>8, <1>12
  <2>2. IsOpen(p)'
    <3>1. pkt.size \in Nat /\ pkt.size > 0  BY DatumIs
    <3>2. Recv!Held(item'[p][pkt.frame][pkt.blk])
      BY <1>1, <1>11, <2>1, <3>1 DEF Recv!Held
    <3> QED BY <1>1, <3>2 DEF IsOpen, Recv!Held
  <2>3. ASSUME NEW f \in FrameId, NEW b \in BlkId, Recv!Held(item'[p][f][b])
        PROVE  b < FramePkts(f) /\ Prior(s, f, S, J) /\ Passed(s, f, b)'
    <3>1. CASE f = pkt.frame /\ b = pkt.blk
      BY <1>1, <1>2, <1>10, <3>1 DEF Passed
    <3>2. CASE ~(f = pkt.frame /\ b = pkt.blk)
      <4>1. Recv!Held(item[p][f][b])  BY <1>11, <2>1, <2>3, <3>2
      <4>2. Passed(s, f, b)'  BY <1>9, <4>1 DEF Passed
      <4> QED BY <4>1, <4>2
    <3> QED BY <3>1, <3>2
  <2>4. ComesIn(s, S, J)'
    BY <1>1, <1>2, <1>7, <2>2, <2>3 DEF ComesIn, Recv!Held
  <2>5. NoneBefore(s)'  BY <1>10 DEF NoneBefore
  <2> QED BY <1>1, <1>2, <2>4, <2>5 DEF NoneTwice, BegunBy
<1>13. CASE \A x \in FrameId : Completes(x, StoredBlks(pkt, x))
  <2>1. pkt.frame = LastFrame /\ pkt.blk = LastBlk
    <3>1. Completes(LastFrame, StoredBlks(pkt, LastFrame))  BY <1>13, LastBlkIs
    <3>2. LastBlk \in StoredBlks(pkt, LastFrame)  BY <3>1, LastBlkIs DEF Completes
    <3>3. Recv!Held(Recv!StoredPic(pkt)[LastFrame][LastBlk])
      BY <3>2 DEF StoredBlks
    <3> QED BY <1>5, <1>11, <3>3, LastBlkIs
  <2>2. s < S
    <3>1. J \in Nat /\ LastFrame \in Nat /\ J <= LastFrame
      BY Cut DEF FrameId, LastFrame
    <3> QED BY <1>1, <1>2, <2>1, <3>1 DEF Prior
  <2>3. ASSUME NEW m \in DOMAIN wire', Datum(wire'[m]) PROVE s + 1 <= wire'[m].src
    <3>1. PICK k \in DOMAIN wire : wire'[m] = wire[k]  BY <1>9
    <3>2. Datum(wire[k])  BY <2>3, <3>1
    <3>3. PICK q \in Packet : q = wire[k]  BY <1>1, <3>2, WireDatum
    <3>4. /\ q.src \in Nat /\ q.frame \in FrameId /\ q.blk \in Nat
          /\ q.blk < FramePkts(q.frame) /\ q.idx = IdxOf(q.src, q.frame, q.blk)
      BY <1>1, <3>2, <3>3, WireDatum
    <3>5. pkt.idx < q.idx /\ s <= q.src  BY <1>10, <2>3, <3>1, <3>3
    <3>6. s # q.src  BY <1>1, <2>1, <3>4, <3>5, LastIsLast
    <3> QED BY <1>1, <3>1, <3>3, <3>4, <3>5, <3>6
  <2>4. NoneBefore(s + 1)'  BY <2>3 DEF NoneBefore
  <2>5. s + 1 \in Nat /\ s + 1 <= S  BY <1>1, <2>2
  <2>6. BegunBy(s + 1, S, J)'  BY <2>4 DEF BegunBy
  <2> QED BY <2>5, <2>6 DEF NoneTwice
<1> QED BY <1>7, <1>12, <1>13

LEMMA TwiceDelivered ==
  ASSUME NEW S \in Nat, NEW J \in FrameId, NoneTwice(S, J), WireState(S, J), CountFacts,
         repeated \in Nat, 1 \in DOMAIN wire, Datum(wire[1]), ready, Recv!Receive(wire[1]),
         Drops(wire[1]) \/ Stores(wire[1]) \/ LetsOut(wire[1]),
         wire' = Without(1), repeated' = repeated
  PROVE  NoneTwice(S, J)'
<1>1. Counted /\ Recv!TypeOK /\ Tally  BY DEF CountFacts
<1>2. PICK pkt \in Packet : pkt = wire[1]  BY <1>1, WireDatum
<1>3. /\ pkt.src \in Nat /\ pkt.src <= S /\ NoneBefore(pkt.src) /\ pkt.pic \in SlotId
      /\ \/ Begun <= pkt.src + repeated
         \/ Begun <= pkt.src + 1 + repeated /\ ComesIn(pkt.src, S, J)
  BY <1>1, <1>2, BegunAt, WireDatum
<1>4. /\ Begun' \in Nat /\ Begun' <= Begun + 1 /\ Begun \in Nat
      /\ IsOpen(pkt.pic) => Begun' <= Begun
  BY <1>1, <1>2, BegunAfter, BegunNat
<1>5. CASE Begun <= pkt.src + repeated /\ IsOpen(pkt.pic)
  <2>1. Begun' <= pkt.src + repeated'  BY <1>3, <1>4, <1>5
  <2>2. NoneBefore(pkt.src)'
    BY <1>1, <1>3, LeftOnWire DEF NoneBefore
  <2> QED BY <1>3, <2>1, <2>2 DEF NoneTwice, BegunBy
<1>6. CASE Begun <= pkt.src + repeated /\ ~IsOpen(pkt.pic)
  <2>1. \A f \in FrameId, b \in BlkId : ~Recv!Held(item[pkt.pic][f][b])
    BY <1>6 DEF IsOpen
  <2>2. SlotCount(pkt.pic)
    <3>1. TallyOf(pkt.pic)  BY <1>1, <1>3 DEF Tally
    <3>2. completeNum[pkt.pic] = 0  BY <2>1, <3>1 DEF TallyOf
    <3>3. \A f \in FrameId : Recv!HeldBlks(pkt.pic, f) = {}
      BY <2>1, RecvSets DEF Recv!HeldBlks
    <3>4. FullFrames(pkt.pic) = {}  BY <3>3, NoneComplete DEF FullFrames
    <3>5. Cardinality(FullFrames(pkt.pic)) = 0  BY <3>4, FS_EmptySet
    <3> QED BY <3>1, <3>2, <3>5 DEF SlotCount, TallyOf
  <2>3. Begun' <= pkt.src + 1 + repeated  BY <1>3, <1>4, <1>6
  <2> QED BY <1>2, <2>1, <2>2, <2>3, TwiceJoins
<1>7. CASE Begun <= pkt.src + 1 + repeated /\ ComesIn(pkt.src, S, J)
  <2>1. PICK p \in SlotId :
          /\ SlotFor(p, pkt.src) /\ IsOpen(p) /\ SlotCount(p)
          /\ \A f \in FrameId, b \in BlkId : Recv!Held(item[p][f][b]) =>
               b < FramePkts(f) /\ Prior(pkt.src, f, S, J) /\ Passed(pkt.src, f, b)
    BY <1>7 DEF ComesIn
  <2>2. p = pkt.pic  BY <1>1, <1>2, <1>3, <2>1, DatumSlot, OneSlotFor
  <2>3. Begun' <= pkt.src + 1 + repeated  BY <1>3, <1>4, <1>7, <2>1, <2>2
  <2> QED BY <1>2, <2>1, <2>2, <2>3, TwiceJoins
<1> QED BY <1>3, <1>5, <1>6, <1>7

\* A data packet of a wire that has grown is an old one or of the new frame.
LEMMA SentDatum ==
  ASSUME FramesNumbered, Counted, NEW S \in Nat, NEW J \in FrameId, WireState(S, J),
         SendFrame, NEW n \in DOMAIN wire', Datum(wire'[n])
  PROVE  \/ n \in DOMAIN wire /\ wire'[n] = wire[n]
         \/ \E c \in Nat : wire'[n].src = S /\ wire'[n].idx = IdxOf(S, J, c)
<1>1. ~Opening(wire'[n])  BY DEF Datum, IsBlock, Opening, IsStart
<1>2. ~IsEnd(wire'[n])
  <2>1. wire'[n] \in Packet  BY SendPlaces
  <2>2. wire'[n].data_type = 0 /\ wire'[n].size > 0  BY <2>1, DatumIs
  <2> QED BY <2>2 DEF IsEnd, Blank
<1>3. ASSUME NEW m \in 1 .. FramePkts(J), CarriedBy(n, S, J, m - 1)'
      PROVE  \E c \in Nat : wire'[n].src = S /\ wire'[n].idx = IdxOf(S, J, c)
  <2>1. m - 1 \in Nat  BY SendPlaces
  <2>2. wire'[n].src = S /\ wire'[n].idx = IdxOf(S, J, m - 1)
    BY <1>3 DEF CarriedBy, Datum
  <2> QED BY <2>1, <2>2
<1> QED BY <1>1, <1>2, <1>3, SendCarried

\* What has been passed by the packets on their way is passed by the next frame.
LEMMA PassedSent ==
  ASSUME FramesNumbered, Counted, NEW S \in Nat, NEW J \in FrameId, WireState(S, J),
         SendFrame, NEW s \in Nat, NEW f \in FrameId, NEW b \in BlkId,
         b < FramePkts(f), Prior(s, f, S, J), Passed(s, f, b)
  PROVE  Passed(s, f, b)'
<1>1. \A c \in Nat : IdxOf(s, f, b) < IdxOf(S, J, c)
  BY IdxOrder, Cut DEF BlkId
<1> QED BY <1>1, SentDatum DEF Passed

LEMMA TwiceSent ==
  ASSUME FramesNumbered, Counted, Recv!TypeOK, NEW S \in Nat, NEW J \in FrameId,
         WireState(S, J), NoneTwice(S, J), SendFrame, UNCHANGED cacheVars,
         repeated' = repeated
  PROVE  NoneTwice(NextPic(S, J), NextFrame(J))'
<1>1. PICK s \in Nat : s <= S /\ BegunBy(s, S, J)  BY DEF NoneTwice
<1>2. PICK T \in Nat, K \in FrameId :
        /\ T = NextPic(S, J) /\ K = NextFrame(J) /\ S <= T
        /\ \A x \in Nat, f \in FrameId : Prior(x, f, T, K)
             <=> Prior(x, f, S, J) \/ (x = S /\ f = J)
  BY NextIdx DEF NextPic
<1>3. /\ item' = item /\ frameNum' = frameNum /\ completeNum' = completeNum
      /\ pictures' = pictures
  BY DEF cacheVars
<1>4. \A p : IsOpen(p)' <=> IsOpen(p)  BY <1>3 DEF IsOpen
<1>5. Begun' = Begun  BY <1>3, <1>4 DEF Begun, OpenSlots
<1>6. NoneBefore(s)'  BY <1>1, SentDatum DEF BegunBy, NoneBefore
<1>7. ASSUME ComesIn(s, S, J) PROVE ComesIn(s, T, K)'
  <2>1. PICK p \in SlotId :
          /\ SlotFor(p, s) /\ IsOpen(p) /\ SlotCount(p)
          /\ \A f \in FrameId, b \in BlkId : Recv!Held(item[p][f][b]) =>
               b < FramePkts(f) /\ Prior(s, f, S, J) /\ Passed(s, f, b)
    BY <1>7 DEF ComesIn
  <2>2. SlotCount(p)' /\ IsOpen(p)'  BY <1>3, <1>4, <2>1, SlotCountSame
  <2>3. ASSUME NEW f \in FrameId, NEW b \in BlkId, Recv!Held(item'[p][f][b])
        PROVE  b < FramePkts(f) /\ Prior(s, f, T, K) /\ Passed(s, f, b)'
    <3>1. b < FramePkts(f) /\ Prior(s, f, S, J) /\ Passed(s, f, b)
      BY <1>3, <2>1, <2>3
    <3>2. Passed(s, f, b)'  BY <3>1, PassedSent
    <3> QED BY <1>2, <3>1, <3>2
  <2> QED BY <2>1, <2>2, <2>3 DEF ComesIn, Recv!Held
<1>8. BegunBy(s, T, K)'  BY <1>1, <1>5, <1>6, <1>7 DEF BegunBy
<1>9. s <= T  BY <1>1, <1>2
<1> QED BY <1>2, <1>8, <1>9 DEF NoneTwice

-----------------------------------------------------------------------------
\* A slot in which every block of a picture has something has been let out.
LEMMA NotFull ==
  ASSUME TailCompletes, NEW p \in SlotId, TallyOf(p),
         \A f \in FrameId, b \in BlkId : b < FramePkts(f) => Recv!Held(item[p][f][b])
  PROVE  FALSE
<1>1. ASSUME NEW f \in FrameId, FramePkts(f) = FrameBlks
      PROVE  Completes(f, Recv!HeldBlks(p, f))
  <2>1. \A b \in BlkId : b < FramePkts(f)  BY <1>1, Cut DEF BlkId
  <2>2. Recv!HeldBlks(p, f) = BlkId  BY <2>1, RecvSets DEF Recv!HeldBlks
  <2> QED BY <2>2 DEF Completes
<1>2. \A f \in FrameId : f # LastFrame => FramePkts(f) = FrameBlks
  BY FrameCut DEF LastFrame
<1>3. Completes(LastFrame, Recv!HeldBlks(p, LastFrame))
  <2>1. CASE FramePkts(LastFrame) = FrameBlks  BY <1>1, <2>1, LastBlkIs
  <2>2. CASE FramePkts(LastFrame) # FrameBlks
    <3>1. ~NoShortTail
      <4>1. Payload(LastFrame, LastBlk) + HdrSize < BlockSize
        BY <2>2 DEF TailCompletes, LastFrame, LastBlk
      <4>2. Payload(LastFrame, LastBlk) \in Nat
        BY LastBlkIs, PayloadCut DEF LastBlk, LastFrame
      <4> QED BY <4>1, <4>2, ConstTypes DEF NoShortTail, LastFrame, LastBlk
    <3>2. LastBlk \in Recv!HeldBlks(p, LastFrame)
      BY LastBlkIs, RecvSets DEF Recv!HeldBlks
    <3> QED BY <3>1, <3>2 DEF Completes, LastFrame
  <2> QED BY <2>1, <2>2
<1>4. FullFrames(p) = FrameId  BY <1>1, <1>2, <1>3 DEF FullFrames
<1>5. PicBlks <= completeNum[p] /\ completeNum[p] < PicBlks /\ completeNum[p] \in Nat
  BY <1>4, IdSets DEF TallyOf
<1> QED BY <1>5, Cut

LEMMA NotAllInPlace ==
  ASSUME TailCompletes, Tally, NEW s \in Nat,
         \A f \in FrameId, b \in BlkId : b < FramePkts(f) => InPlaceOf(s, f, b)
  PROVE  FALSE
<1>1. PICK p \in SlotId : SlotFor(p, s)  BY LastBlkIs DEF InPlaceOf
<1>2. ASSUME NEW f \in FrameId, NEW b \in BlkId, b < FramePkts(f)
      PROVE  Recv!Held(item[p][f][b])
  <2>1. PICK q \in SlotId : SlotFor(q, s) /\ Recv!Held(item[q][f][b])
    BY <1>2 DEF InPlaceOf
  <2>2. q = p  BY <1>1, <2>1, OneSlotFor
  <2> QED BY <2>1, <2>2
<1> QED BY <1>2, NotFull DEF Tally

\* One more picture is settled.
LEMMA OneMore ==
  ASSUME NEW P \in SUBSET Nat, IsFiniteSet(P), NEW x \in Nat
  PROVE  /\ P \cup {x} \in SUBSET Nat /\ IsFiniteSet(P \cup {x})
         /\ Cardinality(P) \in Nat /\ Cardinality(P \cup {x}) <= Cardinality(P) + 1
<1>1. Cardinality(P) \in Nat  BY FS_CardinalityType
<1>2. CASE x \in P
  <2>1. P \cup {x} = P  BY <1>2
  <2>2. Cardinality(P \cup {x}) = Cardinality(P)  BY <2>1
  <2> QED BY <1>1, <2>1, <2>2
<1>3. CASE x \notin P
  <2>1. IsFiniteSet(P \cup {x}) /\ Cardinality(P \cup {x}) = Cardinality(P) + 1
    BY <1>3, FS_AddElement
  <2> QED BY <1>1, <2>1
<1> QED BY <1>2, <1>3

\* Blocks on their way stay there, and what is in a slot stays there.
LEMMA SettledGone ==
  ASSUME NEW S \in Nat, NEW J \in FrameId, AllSettled(S, J),
         UNCHANGED <<item, pictures, lost>>,
         \A m \in DOMAIN wire' : \E k \in DOMAIN wire : wire'[m] = wire[k],
         \A s, f, b : Carried(s, f, b) => Carried(s, f, b)'
  PROVE  AllSettled(S, J)'
<1>1. PICK P : Settled(P, S, J)  BY DEF AllSettled
<1>2. ASSUME NEW s \in Nat \ P PROVE StillThere(s, S, J)'
  <2>1. StillThere(s, S, J)  BY <1>1 DEF Settled
  <2>2. \A f, b : Passed(s, f, b) => Passed(s, f, b)'  BY DEF Passed
  <2>3. \A f, b : InPlaceOf(s, f, b)' <=> InPlaceOf(s, f, b)  BY DEF InPlaceOf
  <2> QED BY <2>1, <2>2, <2>3 DEF StillThere
<1> QED BY <1>1, <1>2 DEF Settled, AllSettled

\* The start packet finds nothing in the slots.
LEMMA SettledOpened ==
  ASSUME NEW S \in Nat, NEW J \in FrameId, AllSettled(S, J), WireState(S, J), ~ready,
         UNCHANGED <<pictures, lost>>,
         \A s, f, b : Carried(s, f, b) => Carried(s, f, b)'
  PROVE  AllSettled(S, J)'
<1>1. PICK P : Settled(P, S, J)  BY DEF AllSettled
<1>2. ASSUME NEW s \in Nat \ P PROVE StillThere(s, S, J)'
  <2>1. StillThere(s, S, J)  BY <1>1 DEF Settled
  <2>2. \A f \in FrameId, b \in BlkId : ~InPlaceOf(s, f, b)
    BY DEF InPlaceOf, WireState, Unopened
  <2> QED BY <2>1, <2>2 DEF StillThere
<1> QED BY <1>1, <1>2 DEF Settled, AllSettled

\* A loss settles its picture.
LEMMA SettledLost ==
  ASSUME NEW S \in Nat, NEW J \in FrameId, AllSettled(S, J), Counted, Recv!TypeOK,
         UNCHANGED <<item, pictures>>, lost \in Nat, lost' = lost + 1,
         NEW n \in DOMAIN wire,
         \A m \in DOMAIN wire' : \E k \in DOMAIN wire : wire'[m] = wire[k],
         \A s, f, b : Carried(s, f, b) /\ ~CarriedBy(n, s, f, b) => Carried(s, f, b)'
  PROVE  AllSettled(S, J)'
<1>1. PICK P : Settled(P, S, J)  BY DEF AllSettled
<1>2. PICK x \in Nat : x = wire[n].src
  <2>1. wire[n] \in Packet  BY DEF Counted, SendTypes
  <2> QED BY <2>1 DEF Packet
<1>3. /\ P \cup {x} \in SUBSET Nat /\ IsFiniteSet(P \cup {x})
      /\ Cardinality(P \cup {x}) <= Cardinality(P) + 1
      /\ Cardinality(P) \in Nat /\ Cardinality(P \cup {x}) \in Nat
      /\ Cardinality(P) <= Len(pictures) + lost
  BY <1>1, OneMore, FS_CardinalityType DEF Settled
<1>4. Cardinality(P \cup {x}) <= Len(pictures') + lost'
  BY <1>3, BegunNat
<1>5. ASSUME NEW s \in Nat \ (P \cup {x}) PROVE StillThere(s, S, J)'
  <2>1. StillThere(s, S, J)  BY <1>1 DEF Settled
  <2>2. \A f, b : ~CarriedBy(n, s, f, b)  BY <1>2 DEF CarriedBy
  <2>3. \A f, b : Passed(s, f, b) => Passed(s, f, b)'  BY DEF Passed
  <2>4. \A f, b : InPlaceOf(s, f, b)' <=> InPlaceOf(s, f, b)  BY DEF InPlaceOf
  <2> QED BY <2>1, <2>2, <2>3, <2>4 DEF StillThere
<1>6. Settled(P \cup {x}, S, J)'  BY <1>3, <1>4, <1>5 DEF Settled
<1> QED BY <1>6 DEF AllSettled

\* A block that is dropped or stored is in place when it has been received.
LEMMA SettledTaken ==
  ASSUME NEW S \in Nat, NEW J \in FrameId, AllSettled(S, J), Counted, Recv!TypeOK,
         1 \in DOMAIN wire, Datum(wire[1]), Drops(wire[1]) \/ Stores(wire[1]),
         lost' = lost,
         \A m \in DOMAIN wire' : \E k \in DOMAIN wire : wire'[m] = wire[k],
         \A s, f, b : Carried(s, f, b) =>
           Carried(s, f, b)' \/ (CarriedBy(1, s, f, b) /\ Passed(s, f, b)')
  PROVE  AllSettled(S, J)'
<1>1. PICK P : Settled(P, S, J)  BY DEF AllSettled
<1>2. PICK pkt \in Packet : pkt = wire[1]  BY WireDatum
<1>3. /\ pkt.pic \in SlotId /\ pkt.frame \in FrameId /\ pkt.blk \in BlkId
      /\ pkt.size \in Nat /\ pkt.size > 0 /\ SlotFor(pkt.pic, pkt.src)
  BY <1>2, DatumIs, DatumSlot
<1>4. item \in [SlotId -> [FrameId -> [BlkId -> Recv!Items]]]
  BY RecvSets DEF Recv!TypeOK
<1>5. /\ Recv!Held(item'[pkt.pic][pkt.frame][pkt.blk]) /\ pictures' = pictures
      /\ \A p \in SlotId, f \in FrameId, b \in BlkId :
           Recv!Held(item[p][f][b]) => Recv!Held(item'[p][f][b])
  <2>1. CASE Drops(pkt)  BY <1>2, <2>1 DEF Drops
  <2>2. CASE Stores(pkt)
    <3>1. /\ item'[pkt.pic] = Recv!StoredPic(pkt) /\ pictures' = pictures
          /\ \A q \in SlotId : q # pkt.pic => item'[q] = item[q]
      BY <1>3, <1>4, <2>2 DEF Stores
    <3>2. \A x \in FrameId, y \in BlkId :
            Recv!StoredPic(pkt)[x][y] =
              IF x = pkt.frame /\ y = pkt.blk
                THEN [size |-> pkt.size, group |-> pkt.group, src |-> pkt.src]
                ELSE item[pkt.pic][x][y]
      BY <1>3, StoredIs
    <3>3. Recv!Held(item'[pkt.pic][pkt.frame][pkt.blk])
      BY <1>3, <3>1, <3>2 DEF Recv!Held
    <3>4. ASSUME NEW p \in SlotId, NEW f \in FrameId, NEW b \in BlkId,
                 Recv!Held(item[p][f][b])
          PROVE  Recv!Held(item'[p][f][b])
      <4>1. CASE p # pkt.pic  BY <3>1, <3>4, <4>1
      <4>2. CASE p = pkt.pic /\ f = pkt.frame /\ b = pkt.blk  BY <3>3, <4>2
      <4>3. CASE p = pkt.pic /\ ~(f = pkt.frame /\ b = pkt.blk)
        <5>1. item'[p][f][b] = item[p][f][b]  BY <3>1, <3>2, <4>3
        <5> QED BY <3>4, <5>1
      <4> QED BY <4>1, <4>2, <4>3
    <3> QED BY <3>1, <3>3, <3>4
  <2> QED BY <1>2, <2>1, <2>2
<1>6. ASSUME NEW s \in Nat \ P, NEW f \in FrameId, NEW b \in BlkId,
             b < FramePkts(f), Prior(s, f, S, J)
      PROVE  Carried(s, f, b)' \/ (InPlaceOf(s, f, b)' /\ Passed(s, f, b)')
  <2>1. Carried(s, f, b) \/ (InPlaceOf(s, f, b) /\ Passed(s, f, b))
    BY <1>1, <1>6 DEF Settled, StillThere
  <2>2. CASE InPlaceOf(s, f, b) /\ Passed(s, f, b)
    <3>1. PICK p \in SlotId : SlotFor(p, s) /\ Recv!Held(item[p][f][b])
      BY <2>2 DEF InPlaceOf
    <3>2. Recv!Held(item'[p][f][b])  BY <1>5, <3>1
    <3>3. InPlaceOf(s, f, b)'  BY <3>1, <3>2 DEF InPlaceOf, Recv!Held
    <3> QED BY <2>2, <3>3 DEF Passed
  <2>3. CASE CarriedBy(1, s, f, b) /\ Passed(s, f, b)'
    <3>1. pkt.src = s /\ pkt.frame = f /\ pkt.blk = b  BY <1>2, <2>3 DEF CarriedBy
    <3>2. InPlaceOf(s, f, b)'  BY <1>3, <1>5, <3>1 DEF InPlaceOf, Recv!Held
    <3> QED BY <2>3, <3>2
  <2> QED BY <2>1, <2>2, <2>3
<1>7. \A s \in Nat \ P : StillThere(s, S, J)'  BY <1>6 DEF StillThere
<1> QED BY <1>1, <1>5, <1>7 DEF Settled, AllSettled

\* The block that lets a slot out settles its picture, and there is no other
\* picture in the slot that is not settled.
LEMMA SettledOut ==
  ASSUME TailCompletes, NEW S \in Nat, NEW J \in FrameId, WireState(S, J),
         AllSettled(S, J), Counted, Recv!TypeOK, Tally, lost \in Nat,
         1 \in DOMAIN wire, Datum(wire[1]), LetsOut(wire[1]), lost' = lost,
         \A m \in DOMAIN wire' : \E k \in DOMAIN wire : wire'[m] = wire[k],
         \A s, f, b : Carried(s, f, b) /\ ~CarriedBy(1, s, f, b) => Carried(s, f, b)'
  PROVE  AllSettled(S, J)'
<1>1. PICK P : Settled(P, S, J)  BY DEF AllSettled
<1>2. PICK pkt \in Packet : pkt = wire[1]  BY WireDatum
<1>3. /\ pkt.pic \in SlotId /\ pkt.src \in Nat /\ SlotFor(pkt.pic, pkt.src)
      /\ pkt.src <= S /\ pkt.frame \in FrameId /\ pkt.blk \in Nat
      /\ pkt.blk < FramePkts(pkt.frame)
      /\ pkt.idx = IdxOf(pkt.src, pkt.frame, pkt.blk) /\ pkt.idx \in Nat
  BY <1>2, WireDatum, DatumSlot, DatumPrior
<1>4. item \in [SlotId -> [FrameId -> [BlkId -> Recv!Items]]]
      /\ pictures \in Seq([ImgBlocks -> Nat \cup {Recv!Hole}])
  BY RecvSets DEF Recv!TypeOK
<1>5. /\ \A q \in SlotId : q # pkt.pic => item'[q] = item[q]
      /\ Len(pictures') = Len(pictures) + 1 /\ Len(pictures) \in Nat
  BY <1>2, <1>3, <1>4 DEF LetsOut
<1> DEFINE Q == P \cup {pkt.src}
<1>6. /\ Q \in SUBSET Nat /\ IsFiniteSet(Q) /\ Cardinality(Q) <= Len(pictures') + lost'
  <2>1. /\ Q \in SUBSET Nat /\ IsFiniteSet(Q) /\ Cardinality(P) \in Nat
        /\ Cardinality(Q) <= Cardinality(P) + 1
        /\ Cardinality(P) <= Len(pictures) + lost
    BY <1>1, <1>3, OneMore DEF Settled
  <2>2. Cardinality(Q) \in Nat  BY <2>1, FS_CardinalityType
  <2> QED BY <1>5, <2>1, <2>2
<1>7. ASSUME NEW s \in Nat \ Q, NEW f \in FrameId, NEW b \in BlkId,
             b < FramePkts(f), Prior(s, f, S, J)
      PROVE  Carried(s, f, b)' \/ (InPlaceOf(s, f, b)' /\ Passed(s, f, b)')
  <2>1. StillThere(s, S, J) /\ s \in Nat /\ s # pkt.src
    BY <1>1, <1>7 DEF Settled
  <2>2. Carried(s, f, b) \/ (InPlaceOf(s, f, b) /\ Passed(s, f, b))
    BY <1>7, <2>1 DEF StillThere
  <2>3. CASE Carried(s, f, b)
    <3>1. ~CarriedBy(1, s, f, b)  BY <1>2, <2>1 DEF CarriedBy
    <3> QED BY <2>3, <3>1
  <2>4. CASE InPlaceOf(s, f, b) /\ Passed(s, f, b)
    <3>1. PICK p \in SlotId : SlotFor(p, s) /\ Recv!Held(item[p][f][b])
      BY <2>4 DEF InPlaceOf
    <3>2. CASE p # pkt.pic
      <4>1. Recv!Held(item'[p][f][b])  BY <1>5, <3>1, <3>2
      <4>2. InPlaceOf(s, f, b)'  BY <3>1, <4>1 DEF InPlaceOf, Recv!Held
      <4> QED BY <2>4, <4>2 DEF Passed
    <3>3. CASE p = pkt.pic
      <4>1. IdxOf(s, f, b) < pkt.idx  BY <1>2, <2>4 DEF Passed
      <4>2. s < pkt.src
        <5>1. b \in Nat  BY Cut DEF BlkId
        <5>2. IdxOf(s, f, b) \in Nat  BY <2>1, <5>1, IdxType
        <5>3. IdxOf(s, f, b) <= IdxOf(pkt.src, pkt.frame, pkt.blk)
          BY <1>3, <4>1, <5>2
        <5>4. s <= pkt.src  BY <1>3, <1>7, <2>1, <5>1, <5>3, IdxOrder
        <5> QED BY <1>3, <2>1, <5>4
      <4>3. ASSUME NEW x \in FrameId, NEW y \in BlkId, y < FramePkts(x)
            PROVE  InPlaceOf(s, x, y)
        <5>1. Prior(s, x, S, J)  BY <1>3, <2>1, <4>2 DEF Prior
        <5>2. ~Carried(s, x, y)
          <6>1. ASSUME NEW n \in DOMAIN wire, CarriedBy(n, s, x, y) PROVE FALSE
            <7>1. Datum(wire[n]) /\ wire[n].src = s  BY <6>1 DEF CarriedBy
            <7>2. pkt.src <= s  BY <1>2, <7>1, FirstOnWire
            <7> QED BY <1>3, <2>1, <4>2, <7>2
          <6> QED BY <6>1 DEF Carried
        <5> QED BY <2>1, <4>3, <5>1, <5>2 DEF StillThere
      <4> QED BY <2>1, <4>3, NotAllInPlace
    <3> QED BY <3>2, <3>3
  <2> QED BY <2>2, <2>3, <2>4
<1>8. \A s \in Nat \ Q : StillThere(s, S, J)'  BY <1>7 DEF StillThere
<1>9. Settled(Q, S, J)'  BY <1>6, <1>8 DEF Settled
<1> QED BY <1>9 DEF AllSettled

\* A frame that is sent is on its way.
LEMMA SettledSent ==
  ASSUME FramesNumbered, Counted, NEW S \in Nat, NEW J \in FrameId, WireState(S, J),
         AllSettled(S, J), SendFrame, UNCHANGED cacheVars, lost' = lost
  PROVE  AllSettled(NextPic(S, J), NextFrame(J))'
<1>1. PICK P : Settled(P, S, J)  BY DEF AllSettled
<1>2. PICK T \in Nat, K \in FrameId :
        /\ T = NextPic(S, J) /\ K = NextFrame(J)
        /\ \A x \in Nat, f \in FrameId : Prior(x, f, T, K)
             <=> Prior(x, f, S, J) \/ (x = S /\ f = J)
  BY NextIdx
<1>3. item' = item /\ pictures' = pictures  BY DEF cacheVars
<1>4. ASSUME NEW s \in Nat \ P, NEW f \in FrameId, NEW b \in BlkId,
             b < FramePkts(f), Prior(s, f, T, K)
      PROVE  Carried(s, f, b)' \/ (InPlaceOf(s, f, b)' /\ Passed(s, f, b)')
  <2>1. CASE s = S /\ f = J
    <3>1. b \in 0 .. FramePkts(J) - 1
      BY <1>4, <2>1, SendPlaces, Cut DEF BlkId
    <3> QED BY <2>1, <3>1, SendCarried
  <2>2. CASE Prior(s, f, S, J)
    <3>1. Carried(s, f, b) \/ (InPlaceOf(s, f, b) /\ Passed(s, f, b))
      BY <1>1, <1>4, <2>2 DEF Settled, StillThere
    <3>2. CASE Carried(s, f, b)  BY <3>2, SendCarried
    <3>3. CASE InPlaceOf(s, f, b) /\ Passed(s, f, b)
      <4>1. Passed(s, f, b)'  BY <1>4, <2>2, <3>3, PassedSent
      <4>2. InPlaceOf(s, f, b)'  BY <1>3, <3>3 DEF InPlaceOf
      <4> QED BY <4>1, <4>2
    <3> QED BY <3>1, <3>2, <3>3
  <2> QED BY <1>2, <1>4, <2>1, <2>2
<1>5. \A s \in Nat \ P : StillThere(s, T, K)'  BY <1>4 DEF StillThere
<1>6. Settled(P, T, K)'  BY <1>1, <1>3, <1>5 DEF Settled
<1> QED BY <1>2, <1>6 DEF AllSettled

-----------------------------------------------------------------------------
\* The transfer ends when all pictures that are sent in full have been sent.
LEMMA ReadAllSent ==
  ASSUME Counted, NEW S \in Nat, NEW J \in FrameId, WireState(S, J),
         ReadPicture \/ ReadShort
  PROVE  AllSent(S)'
<1>1. CASE ReadPicture  BY <1>1 DEF ReadPicture, AllSent
<1>2. CASE ReadShort
  <2>1. /\ total' = total /\ sumsize = ImgSize * S /\ sumsize < total
        /\ sumsize + ImgSize > total /\ total \in Nat /\ sumsize \in Nat
    BY <1>2, ConstTypes DEF ReadShort, WireState, SentTo, Counted, SendTypes
  <2>2. PICK r \in 1 .. ImgSize - 1 : total = (ImgSize * S) + r
    <3>1. total - sumsize \in 1 .. ImgSize - 1  BY <2>1, ConstTypes
    <3>2. total = sumsize + (total - sumsize)  BY <2>1
    <3> QED BY <2>1, <3>1, <3>2
  <2>3. total \div ImgSize = S /\ total % ImgSize = r
    BY <2>1, <2>2, ConstTypes, DivModOnce
  <2>4. SentPictures' = S  BY <2>1, <2>2, <2>3, ConstTypes DEF SentPictures
  <2> QED BY <2>4 DEF AllSent
<1> QED BY <1>1, <1>2

LEMMA SendAllSent ==
  ASSUME FramesNumbered, Counted, NEW S \in Nat, NEW J \in FrameId, WireState(S, J),
         MoreToSend, SendFrame
  PROVE  AllSent(NextPic(S, J))'
<1>1. /\ phase = "frame" /\ S = Source /\ J = j  BY SendPlaces
<1>2. /\ total \in Nat /\ sumsize \in Nat /\ sumsize = ImgSize * (S + 1)
      /\ sumsize <= total /\ total' = total
  BY <1>1, SourceType DEF SendFrame
<1>3. CASE sumsize < total
  <2>1. phase' # "done"  BY <1>1, <1>2, <1>3 DEF SendFrame, EndPicture
  <2> QED BY <2>1 DEF AllSent
<1>4. CASE sumsize = total
  <2>1. J = 0
    <3>1. ~(j > 0)  BY <1>1, <1>2, <1>4 DEF MoreToSend
    <3> QED BY <1>1, <3>1, Cut DEF FrameId
  <2>2. total = (ImgSize * (S + 1)) + 0  BY <1>2, <1>4
  <2>3. total \div ImgSize = S + 1 /\ total % ImgSize = 0
    BY <1>2, <2>2, ConstTypes, DivModOnce
  <2>4. total > 0
    <3>1. total # 0
      <4>1. 0 = (ImgSize * 0) + 0  BY ConstTypes
      <4>2. total = 0 => total \div ImgSize = 0
        BY <1>2, <4>1, ConstTypes, DivModOnce
      <4> QED BY <2>3, <4>2
    <3> QED BY <1>2, <3>1
  <2>5. SentPictures' = IF PicBlks > 1 THEN S ELSE S + 1
    BY <1>2, <2>3, <2>4 DEF SentPictures
  <2>6. NextPic(S, J) = IF PicBlks > 1 THEN S ELSE S + 1
    BY <2>1, Cut DEF NextPic
  <2> QED BY <2>5, <2>6 DEF AllSent
<1> QED BY <1>2, <1>3, <1>4

-----------------------------------------------------------------------------
(* The two counts together. *)

LEMMA CountInit == NetInit => CountInv
<1> SUFFICES ASSUME NetInit PROVE CountInv  OBVIOUS
<1>1. Init /\ lost = 0 /\ repeated = 0  BY DEF NetInit
<1>2. Counted /\ Recv!TypeOK /\ MoreToSend /\ NetState(0, 0)
  BY <1>1, NetInvInit, NetStateInit DEF NetInv
<1>3. /\ item = [p \in SlotId |-> Recv!EmptyPic] /\ pictures = <<>> /\ wire = <<>>
      /\ frameNum = [p \in SlotId |-> [f \in FrameId |-> 0]]
      /\ completeNum = [p \in SlotId |-> 0]
  BY <1>1, RecvSets DEF Init, SenderInit, Recv!Init
<1>4. \A p \in SlotId, f \in FrameId, b \in BlkId : ~Recv!Held(item[p][f][b])
  BY <1>3, EmptyPicType
<1>5. Tally
  <2>1. SUFFICES ASSUME NEW p \in SlotId PROVE TallyOf(p)  BY DEF Tally
  <2>2. \A f \in FrameId : Recv!HeldBlks(p, f) = {}
    BY <1>4, RecvSets DEF Recv!HeldBlks
  <2>3. FullFrames(p) = {}  BY <2>2, NoneComplete DEF FullFrames
  <2>4. Cardinality({}) = 0 /\ 0 < PicBlks  BY FS_EmptySet, Cut
  <2>5. completeNum[p] = 0 /\ \A f \in FrameId : frameNum[p][f] = 0  BY <1>3
  <2> QED BY <2>2, <2>3, <2>4, <2>5 DEF TallyOf
<1>6. WireState(0, 0)  BY <1>2, NetWire
<1>7. AllSent(0)
  <2>1. phase = "done" => total = 0  BY <1>1 DEF Init, SenderInit
  <2>2. total = 0 => SentPictures = 0
    <3>1. 0 = (ImgSize * 0) + 0  BY ConstTypes
    <3>2. total = 0 => total \div ImgSize = 0  BY <3>1, ConstTypes, DivModOnce
    <3> QED BY <3>2 DEF SentPictures
  <2> QED BY <2>1, <2>2 DEF AllSent
<1>8. NoneTwice(0, 0)
  <2>1. Begun = Len(pictures) + 0  BY <1>4, NoneOpen DEF IsOpen
  <2>2. Begun <= 0 + repeated  BY <1>1, <1>3, <2>1
  <2>3. NoneBefore(0)  BY <1>3 DEF NoneBefore
  <2> QED BY <2>2, <2>3 DEF NoneTwice, BegunBy
<1>9. AllSettled(0, 0)
  <2>1. \A f \in FrameId : f >= 0  BY Cut DEF FrameId
  <2>2. \A s \in Nat, f \in FrameId : ~Prior(s, f, 0, 0)  BY <2>1, Cut DEF Prior, FrameId
  <2>3. \A s \in Nat : StillThere(s, 0, 0)  BY <2>2 DEF StillThere
  <2>4. IsFiniteSet({}) /\ Cardinality({}) = 0  BY FS_EmptySet
  <2>5. Settled({}, 0, 0)  BY <1>1, <1>3, <2>3, <2>4 DEF Settled
  <2> QED BY <2>5 DEF AllSettled
<1>10. 0 \in FrameId  BY Cut DEF FrameId
<1> QED BY <1>2, <1>5, <1>6, <1>7, <1>8, <1>9, <1>10 DEF CountInv, CountFacts

\* The sender goes on.
LEMMA CountSend ==
  ASSUME FramesNumbered, GroupsWrap, CountInv, lost \in Nat, repeated \in Nat, NetSend
  PROVE  CountInv'
<1>1. /\ Counted /\ Recv!TypeOK /\ MoreToSend /\ Tally
      /\ UNCHANGED cacheVars /\ lost' = lost /\ repeated' = repeated
  BY DEF CountInv, CountFacts, NetSend, netVars
<1>2. PICK S \in Nat, J \in FrameId :
        WireState(S, J) /\ AllSent(S) /\ NoneTwice(S, J) /\ AllSettled(S, J)
  BY DEF CountInv
<1>3. UNCHANGED <<item, frameNum, completeNum, pictures, ready>>  BY <1>1 DEF cacheVars
<1>4. Recv!TypeOK'  BY <1>1 DEF cacheVars, Recv!TypeOK
<1>5. Tally'  BY <1>1, <1>3, TallySame DEF Tally, SameSlot
<1>6. CASE ReadPicture \/ ReadShort
  <2>1. Counted'  BY <1>1, <1>6, ReadCounted
  <2>2. WireState(S, J)' /\ MoreToSend'  BY <1>1, <1>2, <1>6, ReadWire
  <2>3. AllSent(S)'  BY <1>1, <1>2, <1>6, ReadAllSent
  <2>4. wire' = wire  BY <1>6 DEF ReadPicture, ReadShort
  <2>5. NoneTwice(S, J)'  BY <1>1, <1>2, <1>3, <2>4, TwiceGone
  <2>6. AllSettled(S, J)'
    <3>1. \A s, f, b : Carried(s, f, b) => Carried(s, f, b)'
      BY <2>4 DEF Carried, CarriedBy
    <3> QED BY <1>1, <1>2, <1>3, <2>4, <3>1, SettledGone
  <2> QED BY <1>4, <1>5, <2>1, <2>2, <2>3, <2>5, <2>6 DEF CountInv, CountFacts
<1>7. CASE SendFrame
  <2>1. Counted'
    <3>1. phase = "frame"  BY <1>7 DEF SendFrame
    <3> QED BY <1>1, <1>7, <3>1, SendFrameTypes
  <2>2. PICK T \in Nat, K \in FrameId : T = NextPic(S, J) /\ K = NextFrame(J)
    BY NextIdx
  <2>3. /\ SentTo(NextPic(S, J), NextFrame(J))' /\ MoreToSend'
        /\ (TailLen = 1 => phase' = "done")
    BY <1>1, <1>2, <1>7, SendSentTo
  <2>4. OnWire(NextPic(S, J), NextFrame(J))' /\ Unopened(NextPic(S, J), NextFrame(J))'
    BY <1>1, <1>2, <1>7, <2>3, SendOnWire
  <2>5. WireState(T, K)'  BY <2>2, <2>3, <2>4 DEF WireState
  <2>6. AllSent(T)'  BY <1>1, <1>2, <1>7, <2>2, SendAllSent
  <2>7. NoneTwice(T, K)'  BY <1>1, <1>2, <1>7, <2>2, TwiceSent
  <2>8. AllSettled(T, K)'  BY <1>1, <1>2, <1>7, <2>2, SettledSent
  <2> QED BY <1>4, <1>5, <2>1, <2>2, <2>3, <2>5, <2>6, <2>7, <2>8 DEF CountInv, CountFacts
<1> QED BY <1>6, <1>7 DEF NetSend

\* A packet is lost.
LEMMA CountGone ==
  ASSUME CountInv, lost \in Nat, repeated \in Nat, NEW n \in DOMAIN wire,
         wire[n].data_type = 0, wire' = Without(n), UNCHANGED <<sendVars, cacheVars>>,
         lost' = lost + 1, repeated' = repeated
  PROVE  CountInv'
<1>1. /\ Counted /\ Recv!TypeOK /\ MoreToSend /\ Tally  BY DEF CountInv, CountFacts
<1>2. PICK S \in Nat, J \in FrameId :
        WireState(S, J) /\ AllSent(S) /\ NoneTwice(S, J) /\ AllSettled(S, J)
  BY DEF CountInv
<1>3. UNCHANGED <<item, frameNum, completeNum, pictures, ready>>  BY DEF cacheVars
<1>4. Recv!TypeOK'  BY <1>1 DEF cacheVars, Recv!TypeOK
<1>5. Tally'  BY <1>1, <1>3, TallySame DEF Tally, SameSlot
<1>6. ~Opening(wire[n])  BY DEF Opening, IsStart
<1>7. /\ Counted' /\ WireState(S, J)'
      /\ \A s, f, b : Carried(s, f, b) /\ ~CarriedBy(n, s, f, b) => Carried(s, f, b)'
  BY <1>1, <1>2, <1>3, <1>6, WireShrunk, Shrunk
<1>8. \A m \in DOMAIN wire' : \E k \in DOMAIN wire : wire'[m] = wire[k]
  BY <1>1, LeftOnWire
<1>9. MoreToSend' /\ AllSent(S)'
  BY <1>1, <1>2 DEF MoreToSend, AllSent, SentPictures, sendVars
<1>10. NoneTwice(S, J)'  BY <1>1, <1>2, <1>3, <1>8, TwiceGone
<1>11. AllSettled(S, J)'  BY <1>1, <1>2, <1>3, <1>7, <1>8, SettledLost
<1> QED BY <1>4, <1>5, <1>7, <1>9, <1>10, <1>11 DEF CountInv, CountFacts

\* The first packet is received, and comes again or not.
LEMMA CountReceive ==
  ASSUME TailCompletes, CountInv, lost \in Nat, repeated \in Nat, 1 \in DOMAIN wire,
         Recv!Receive(wire[1]), UNCHANGED sendVars, lost' = lost,
         \/ wire' = Without(1) /\ repeated' = repeated
         \/ wire' = wire /\ repeated' = repeated + 1 /\ wire[1].data_type = 0
  PROVE  CountInv'
<1>1. /\ Counted /\ Recv!TypeOK /\ MoreToSend /\ Tally  BY DEF CountInv, CountFacts
<1>2. PICK S \in Nat, J \in FrameId :
        WireState(S, J) /\ AllSent(S) /\ NoneTwice(S, J) /\ AllSettled(S, J)
  BY DEF CountInv
<1>3. CountFacts  BY DEF CountInv
<1>4. /\ Recv!TypeOK' /\ Tally' /\ (~ready' => item' = item)
      /\ IF Opening(wire[1]) THEN ready' ELSE ready' = ready
  BY <1>2, <1>3, CountArrival
<1>5. MoreToSend' /\ AllSent(S)'
  BY <1>1, <1>2 DEF MoreToSend, AllSent, SentPictures, sendVars
<1>6. \A m \in DOMAIN wire' : \E k \in DOMAIN wire : wire'[m] = wire[k]
  BY <1>1, LeftOnWire
<1>7. wire' = wire => ~Opening(wire[1]) \/ repeated' = repeated
  BY DEF Opening, IsStart
<1>8. /\ Counted' /\ WireState(S, J)'
      /\ \A s, f, b : Carried(s, f, b) /\ ~CarriedBy(1, s, f, b) => Carried(s, f, b)'
      /\ \A s, f, b : Carried(s, f, b) =>
           Carried(s, f, b)' \/ (CarriedBy(1, s, f, b) /\ Passed(s, f, b)')
  <2>1. CASE wire' = Without(1)
    <3>1. /\ Counted' /\ WireState(S, J)'
          /\ \A s, f, b : Carried(s, f, b) /\ ~CarriedBy(1, s, f, b) => Carried(s, f, b)'
      BY <1>1, <1>2, <1>4, <2>1, WireShrunk, Shrunk
    <3>2. ASSUME NEW s, NEW f, NEW b, CarriedBy(1, s, f, b) PROVE Passed(s, f, b)'
      <4>1. Datum(wire[1]) /\ wire[1].idx = IdxOf(s, f, b)
        BY <3>2 DEF CarriedBy, Datum
      <4>2. \A m \in DOMAIN wire' : \E k \in DOMAIN wire : k # 1 /\ wire'[m] = wire[k]
        BY <1>1, <2>1, LeftOnWire
      <4> QED BY <1>1, <1>2, <4>1, <4>2, FirstOnWire DEF Passed
    <3> QED BY <3>1, <3>2
  <2>2. CASE wire' = wire /\ wire[1].data_type = 0
    <3>1. ready' = ready  BY <1>4, <2>2 DEF Opening, IsStart
    <3>2. Counted'
      BY <1>1, <2>2 DEF Counted, SendTypes, SentSoFar, NothingNumbered, sendVars
    <3>3. SentTo(S, J)'
      BY <1>2 DEF WireState, SentTo, sendVars, Source, PicSlot, SentPictures
    <3>4. OnWire(S, J)' /\ Unopened(S, J)'
      BY <1>2, <1>4, <2>2, <3>1 DEF WireState, OnWire, Unopened, sendVars
    <3>5. \A s, f, b : Carried(s, f, b) => Carried(s, f, b)'
      BY <2>2 DEF Carried, CarriedBy
    <3> QED BY <3>2, <3>3, <3>4, <3>5 DEF WireState
  <2> QED BY <2>1, <2>2
<1>9. NoneTwice(S, J)' /\ AllSettled(S, J)'
  <2>1. CASE /\ Opening(wire[1]) /\ ~ready /\ pictures' = pictures
             /\ \A p \in SlotId : ~IsOpen(p)'
    <3>1. repeated' = repeated  BY <2>1 DEF Opening, IsStart
    <3>2. NoneTwice(S, J)'  BY <1>2, <1>6, <2>1, <3>1, TwiceOpened
    <3>3. \A s, f, b : Carried(s, f, b) => Carried(s, f, b)'
      <4>1. \A s, f, b : ~CarriedBy(1, s, f, b)
        BY <2>1 DEF CarriedBy, Datum, IsBlock, Opening, IsStart
      <4> QED BY <1>8, <4>1
    <3>4. AllSettled(S, J)'  BY <1>2, <2>1, <3>3, SettledOpened
    <3> QED BY <3>2, <3>4
  <2>2. CASE ~Datum(wire[1]) /\ UNCHANGED <<item, frameNum, completeNum, pictures>>
    <3>1. repeated <= repeated' /\ repeated' \in Nat  OBVIOUS
    <3>2. NoneTwice(S, J)'  BY <1>1, <1>2, <1>6, <2>2, <3>1, TwiceGone
    <3>3. \A s, f, b : Carried(s, f, b) => Carried(s, f, b)'
      BY <1>8, <2>2 DEF CarriedBy
    <3>4. AllSettled(S, J)'  BY <1>2, <1>6, <2>2, <3>3, SettledGone
    <3> QED BY <3>2, <3>4
  <2>3. CASE /\ Datum(wire[1]) /\ ready
             /\ Drops(wire[1]) \/ Stores(wire[1]) \/ LetsOut(wire[1])
    <3>1. NoneTwice(S, J)'
      BY <1>2, <1>3, <2>3, TwiceDelivered, TwiceRepeated
    <3>2. AllSettled(S, J)'
      <4>1. CASE Drops(wire[1]) \/ Stores(wire[1])
        BY <1>1, <1>2, <1>6, <1>8, <2>3, <4>1, SettledTaken
      <4>2. CASE LetsOut(wire[1])
        BY <1>1, <1>2, <1>6, <1>8, <2>3, <4>2, SettledOut
      <4> QED BY <2>3, <4>1, <4>2
    <3> QED BY <3>1, <3>2
  <2> QED BY <1>2, <1>3, <2>1, <2>2, <2>3, CountArrival
<1> QED BY <1>4, <1>5, <1>8, <1>9 DEF CountInv, CountFacts

LEMMA CountSame ==
  ASSUME CountInv, UNCHANGED allVars, lost \in Nat, repeated \in Nat
  PROVE  CountInv'
<1>1. /\ Counted /\ Recv!TypeOK /\ MoreToSend /\ Tally  BY DEF CountInv, CountFacts
<1>2. PICK S \in Nat, J \in FrameId :
        WireState(S, J) /\ AllSent(S) /\ NoneTwice(S, J) /\ AllSettled(S, J)
  BY DEF CountInv
<1>3. /\ UNCHANGED sendVars /\ UNCHANGED cacheVars /\ wire' = wire
      /\ lost' = lost /\ repeated' = repeated
      /\ UNCHANGED <<item, frameNum, completeNum, pictures, ready>>
  BY DEF allVars, vars, netVars, cacheVars
<1>4. Counted' /\ Recv!TypeOK' /\ MoreToSend' /\ AllSent(S)'
  BY <1>1, <1>2, <1>3 DEF sendVars, cacheVars, Counted, SendTypes, SentSoFar,
       NothingNumbered, Recv!TypeOK, MoreToSend, AllSent, SentPictures
<1>5. Tally'  BY <1>1, <1>3, TallySame DEF Tally, SameSlot
<1>6. WireState(S, J)'
  <2>1. SentTo(S, J)'
    BY <1>2, <1>3 DEF WireState, SentTo, sendVars, Source, PicSlot, SentPictures
  <2>2. OnWire(S, J)' /\ Unopened(S, J)'
    BY <1>2, <1>3 DEF WireState, OnWire, Unopened, sendVars
  <2> QED BY <2>1, <2>2 DEF WireState
<1>7. NoneTwice(S, J)'  BY <1>1, <1>2, <1>3, TwiceGone
<1>8. AllSettled(S, J)'
  <2>1. \A s, f, b : Carried(s, f, b) => Carried(s, f, b)'
    BY <1>3 DEF Carried, CarriedBy
  <2> QED BY <1>2, <1>3, <2>1, SettledGone
<1> QED BY <1>4, <1>5, <1>6, <1>7, <1>8 DEF CountInv, CountFacts

LEMMA CountStep ==
  ASSUME FramesNumbered, GroupsWrap, TailCompletes, ~Overtake, CountInv, lost \in Nat,
         repeated \in Nat, [NetNext]_allVars
  PROVE  CountInv'
<1>1. CASE NetSend  BY <1>1, CountSend
<1>2. CASE NetDeliver
  <2>1. /\ 1 \in DOMAIN wire /\ wire' = Without(1) /\ Recv!Receive(wire[1])
        /\ UNCHANGED sendVars /\ lost' = lost /\ repeated' = repeated
    BY <1>2 DEF NetDeliver, Deliverable, netVars
  <2> QED BY <2>1, CountReceive
<1>3. CASE NetLose
  <2>1. PICK n \in DOMAIN wire : wire[n].data_type = 0 /\ wire' = Without(n)
    BY <1>3 DEF NetLose, Deliverable
  <2> QED BY <1>3, <2>1, CountGone DEF NetLose
<1>4. CASE NetEarly
  <2>1. PICK n \in DOMAIN wire : /\ wire[n].data_type = 0 /\ wire' = Without(n)
                                 /\ Recv!Receive(wire[n])
    BY <1>4 DEF NetEarly
  <2>2. UNCHANGED cacheVars  BY <1>4, <2>1, EarlyDropped DEF NetEarly
  <2> QED BY <1>4, <2>1, <2>2, CountGone DEF NetEarly
<1>5. CASE NetRepeat
  <2>1. /\ 1 \in DOMAIN wire /\ wire' = wire /\ Recv!Receive(wire[1])
        /\ wire[1].data_type = 0 /\ UNCHANGED sendVars
        /\ lost' = lost /\ repeated' = repeated + 1
    BY <1>5 DEF NetRepeat, Deliverable
  <2> QED BY <2>1, CountReceive
<1>6. CASE UNCHANGED allVars  BY <1>6, CountSame
<1> QED BY <1>1, <1>2, <1>3, <1>4, <1>5, <1>6 DEF NetNext

LEMMA CountEnd ==
  ASSUME TailCompletes, CountInv, lost \in Nat, repeated \in Nat
  PROVE  PictureCount
<1>1. /\ Counted /\ Recv!TypeOK /\ Tally  BY DEF CountInv, CountFacts
<1>2. PICK S \in Nat, J \in FrameId :
        WireState(S, J) /\ AllSent(S) /\ NoneTwice(S, J) /\ AllSettled(S, J)
  BY DEF CountInv
<1>3. Len(pictures) \in Nat /\ Begun \in Nat /\ Begun >= Len(pictures)
  BY <1>1, BegunNat
<1>4. SentPictures \in Nat /\ S <= SentPictures
  <2>1. S <= SentPictures  BY <1>2 DEF WireState, SentTo
  <2> QED BY <1>1, <2>1, SentCount
<1>5. Len(pictures) <= SentPictures + repeated
  <2>1. PICK s \in Nat : s <= S /\ BegunBy(s, S, J)  BY <1>2 DEF NoneTwice
  <2>2. CASE Begun <= s + repeated  BY <1>3, <1>4, <2>1, <2>2
  <2>3. CASE Begun <= s + 1 + repeated /\ ComesIn(s, S, J)
    <3>1. OpenSlots # {} /\ OpenSlots \in SUBSET SlotId
      BY <2>3 DEF ComesIn, OpenSlots
    <3>2. Cardinality(OpenSlots) >= 1 /\ Cardinality(OpenSlots) \in Nat
      BY <3>1, OpenCount
    <3>3. Len(pictures) + 1 <= Begun  BY <1>3, <3>2 DEF Begun
    <3> QED BY <1>3, <1>4, <2>1, <2>3, <3>3
  <2> QED BY <2>1, <2>2, <2>3 DEF BegunBy
<1>6. ASSUME Finished PROVE Len(pictures) >= SentPictures - lost
  <2>1. wire = <<>> /\ S = SentPictures  BY <1>2, <1>6 DEF Finished, AllSent
  <2>2. PICK P : Settled(P, S, J)  BY <1>2 DEF AllSettled
  <2>3. ASSUME NEW s \in 0 .. SentPictures - 1 PROVE s \in P
    <3>1. s \in Nat /\ s < S  BY <1>4, <2>1
    <3>2. SUFFICES ASSUME s \notin P PROVE FALSE  OBVIOUS
    <3>3. StillThere(s, S, J)  BY <2>2, <3>1, <3>2 DEF Settled
    <3>4. \A f \in FrameId, b \in BlkId : b < FramePkts(f) => InPlaceOf(s, f, b)
      BY <2>1, <3>1, <3>3 DEF StillThere, Prior, Carried
    <3> QED BY <1>1, <3>1, <3>4, NotAllInPlace
  <2>4. 0 .. SentPictures - 1 \in SUBSET P  BY <2>3
  <2>5. IsFiniteSet(P) /\ Cardinality(P) <= Len(pictures) + lost  BY <2>2 DEF Settled
  <2>6. Cardinality(0 .. SentPictures - 1) <= Cardinality(P) /\ Cardinality(P) \in Nat
    BY <2>4, <2>5, PartCount
  <2>7. Cardinality(0 .. SentPictures - 1) = SentPictures
    <3>1. CASE SentPictures = 0
      <4>1. 0 .. SentPictures - 1 = {}  BY <3>1
      <4> QED BY <3>1, <4>1, FS_EmptySet
    <3>2. CASE SentPictures > 0  BY <1>4, <3>2, FS_Interval
    <3> QED BY <1>4, <3>1, <3>2
  <2> QED BY <1>3, <1>4, <2>5, <2>6, <2>7
<1> QED BY <1>5, <1>6 DEF PictureCount

\* Over a network that keeps the order, whatever it loses and repeats: a lost
\* packet costs at most one picture, and a repeated one adds at most one, where
\* the last packet of a picture completes it (file_pkt2raw.c:600-666).
THEOREM PicturesCounted ==
  FramesNumbered /\ GroupsWrap /\ TailCompletes /\ ~Overtake =>
    (NetSpec => []PictureCount)
<1> SUFFICES ASSUME FramesNumbered, GroupsWrap, TailCompletes, ~Overtake
             PROVE  NetSpec => []PictureCount
  OBVIOUS
<1> DEFINE Inv == lost \in Nat /\ repeated \in Nat /\ CountInv
<1>1. NetInit => Inv  BY CountInit, NetCounts
<1>2. Inv /\ [NetNext]_allVars => Inv'  BY CountStep, NetCounts
<1>3. Inv => PictureCount  BY CountEnd
<1> QED BY <1>1, <1>2, <1>3, PTL DEF NetSpec
=============================================================================
