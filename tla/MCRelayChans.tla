---------------------------- MODULE MCRelayChans ----------------------------
(***************************************************************************)
(* What the relay server keeps for its clients.  Channels for two clients, *)
(* the last one overlaid; one randId has a byte 0xFF there.  And the list  *)
(* of nodes by itself, with a few places for nodes and two keys.           *)
(***************************************************************************)
EXTENDS RelayChans, TLC

CONSTANTS user1, user2, plain, ff,
          ListNodes, ListKeys, ListHead, Null, MaxId   \* of the list

\* The head and NULL are no places for nodes.
ASSUME ListAssumption ==
  /\ IsFiniteSet(ListNodes) /\ ListHead \notin ListNodes
  /\ Null \notin ListNodes \cup {ListHead}

VARIABLES made, next, tail, num, lastId, id, key, live, part

MCClients == {user1, user2}
MCRandIds == {plain, ff}
MCBytesFF == [r \in MCRandIds |-> IF r = ff THEN Overlaid ELSE {}]
MCSymmetry == Permutations(MCClients)

L == INSTANCE NodeList WITH Nodes <- ListNodes, Keys <- ListKeys, Head <- ListHead,
                            NoNode <- Null

lists == <<made, next, tail, num, lastId, id, key, live, part>>

\* part says which of the two moves
MCInit == Init /\ L!Init /\ part \in {"channels", "list"}
MCNext == /\ \/ part = "channels" /\ Next /\ UNCHANGED lists
             \/ part = "list" /\ L!Next /\ UNCHANGED vars
          /\ UNCHANGED part
MCSpec == MCInit /\ [][MCNext]_<<vars, lists>>

\* The list is the sequence of the nodes added and not deleted (NodeList).
ListIsSequence == L!IsSequence
=============================================================================
