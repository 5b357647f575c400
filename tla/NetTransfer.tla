----------------------------- MODULE NetTransfer -----------------------------
(***************************************************************************)
(* The transfer over a network instead of call_test's function calls: what *)
(* pkt2cache's tests for retransmitted, missing and outrun blocks and      *)
(* get_picture's holes are written for.  The sender and the receiver are   *)
(* those of FileTransfer; between them packets may be lost, repeated and   *)
(* overtaken.  The network is no part of the repository, nor is a sender   *)
(* that runs ahead: their bounds are the constants.                        *)
(***************************************************************************)
EXTENDS FileTransfer

CONSTANTS Window,     \* bound: how many packets the oldest one on its way
                      \* may be behind when the sender goes on
          MaxLoss,    \* bound: packets lost
          MaxRepeat,  \* bound: packets that arrive twice
          Overtake    \* packets may overtake each other

ASSUME NetAssumption == /\ Window \in Nat /\ MaxLoss \in Nat
                        /\ MaxRepeat \in Nat /\ Overtake \in BOOLEAN

VARIABLES lost, repeated

netVars == <<lost, repeated>>
allVars == <<vars, netVars>>

\* The packets the network may deal with now: the oldest, or any.  Until the
\* start packet has arrived that is the oldest one, the start packet itself;
\* data that outruns it, which the receiver drops, is NetEarly's.
Deliverable == IF Overtake /\ ready THEN DOMAIN wire
                                    ELSE {n \in DOMAIN wire : n = 1}

Without(n) == [m \in 1 .. Len(wire) - 1 |-> IF m < n THEN wire[m] ELSE wire[m + 1]]

NetSend == /\ wire # <<>> => pktIdx - wire[1].idx <= Window
           /\ ReadPicture \/ ReadShort \/ SendFrame
           /\ UNCHANGED <<cacheVars, netVars>>

NetDeliver == \E n \in Deliverable :
                /\ wire' = Without(n)
                /\ Recv!Receive(wire[n])
                /\ UNCHANGED <<sendVars, netVars>>

\* A data packet is lost.
NetLose == /\ lost < MaxLoss
           /\ lost' = lost + 1
           /\ \E n \in Deliverable : /\ wire[n].data_type = 0
                                     /\ wire' = Without(n)
           /\ UNCHANGED <<sendVars, cacheVars, repeated>>

\* A data packet outruns the start packet: it arrives, and counts as a loss.
NetEarly == /\ ~ready /\ lost < MaxLoss
            /\ lost' = lost + 1
            /\ \E n \in DOMAIN wire : /\ wire[n].data_type = 0
                                      /\ wire' = Without(n)
                                      /\ Recv!Receive(wire[n])
            /\ UNCHANGED <<sendVars, repeated>>

\* A packet is delivered and stays on its way: it will arrive again.
NetRepeat == /\ repeated < MaxRepeat
             /\ repeated' = repeated + 1
             /\ \E n \in Deliverable : /\ wire[n].data_type = 0
                                       /\ Recv!Receive(wire[n])
             /\ UNCHANGED <<sendVars, wire, lost>>

NetInit == Init /\ lost = 0 /\ repeated = 0

NetNext == NetSend \/ NetDeliver \/ NetLose \/ NetEarly \/ NetRepeat

\* The sender goes on and what is on its way arrives: a loss or a repetition
\* is never owed, and both are bounded.
NetSpec == NetInit /\ [][NetNext]_allVars /\ WF_allVars(NetSend \/ NetDeliver)

-----------------------------------------------------------------------------
LastFrame == PicBlks - 1

\* the pictures whose blocks an image holds
Sources(img) == {img[fb] : fb \in ImgBlocks} \ {Recv!Hole}

\* Every assembled image is one picture of the file, whole, and no picture is
\* assembled twice.
AllIntact ==
  /\ \A n \in DOMAIN pictures : \E num \in 0 .. SentPictures - 1 :
        pictures[n] = [fb \in ImgBlocks |-> num]
  /\ \A m, n \in DOMAIN pictures :
        Sources(pictures[m]) \cap Sources(pictures[n]) # {} => m = n

\* In the end as many pictures have come out as were sent in full, but one
\* for every packet that was lost or came before the start packet.
AllButLostArrive == <>[](Finished /\ Len(pictures) >= SentPictures - lost)

\* What loss alone does to a file of one group: an assembled image holds
\* blocks of one picture only, later images are of later pictures, and what
\* is missing is in the last frame, which its short last packet completes
\* whatever has been lost of it.
LossOnlyInLastFrame ==
  total <= GroupBlks * ImgSize /\ repeated = 0 =>
    /\ \A n \in DOMAIN pictures :
          /\ Cardinality(Sources(pictures[n])) = 1
          /\ \A fb \in ImgBlocks :
                pictures[n][fb] = Recv!Hole => fb[1] = LastFrame
    /\ \A m, n \in DOMAIN pictures : m < n =>
          \A a \in Sources(pictures[m]), b \in Sources(pictures[n]) : a < b

\* A lost packet costs at most one picture, a repeated one adds at most one,
\* for as long as the network keeps the order; what the pictures are made of
\* is another matter.
PictureCount == /\ Len(pictures) <= SentPictures + repeated
                /\ Finished => Len(pictures) >= SentPictures - lost
=============================================================================
