----------------------------- MODULE MCPktCache -----------------------------
(***************************************************************************)
(* The receiver on one file: packets of all groups for its first slot and  *)
(* of one frame for the others, the last block of the last frame a short   *)
(* one, and besides them a start and an end packet, a packet cut short on  *)
(* the way and one for an unknown slot.                                    *)
(***************************************************************************)
EXTENDS PktCache

CONSTANT Groups   \* the group ids of the packets, 0 among them

MCBlocks == Frames \X Blks

\* the payload of block b of frame f: only the last block is short
MCLen(f, b) == IF f = PicSize - 1 /\ b = FrameSize - 1 THEN 1 ELSE BlockSize

MCAll == {[data_type |-> 0, len |-> MCLen(f, b), size |-> MCLen(f, b) + HdrSize,
           pic |-> p, frame |-> f, blk |-> b, group |-> g, src |-> g] :
             p \in Pics, f \in Frames, b \in Blks, g \in Groups}

MCData == {pkt \in MCAll : pkt.pic = 0 \/ (pkt.group = 0 /\ pkt.frame = 0)}

MCInfo(type) == [data_type |-> type, len |-> BlockSize, size |-> BlockSize + HdrSize,
                 pic |-> 0, frame |-> 0, blk |-> 0, group |-> 0, src |-> 0]

MCOdd == {[MCInfo(0) EXCEPT !.size = @ - 1], [MCInfo(0) EXCEPT !.pic = GroupSize]}

MCPackets == MCData \cup {MCInfo(1), MCInfo(2)} \cup MCOdd
=============================================================================
