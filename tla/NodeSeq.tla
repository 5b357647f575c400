------------------------------- MODULE NodeSeq -------------------------------
(***************************************************************************)
(* What a list of nodes promises: a sequence to whose end nodes are added, *)
(* each under a number of its own, and of which the first node, or the     *)
(* first one with a key, is found and deleted.  The nodes in use are those *)
(* in the sequence.                                                        *)
(***************************************************************************)
EXTENDS Integers, SequencesExt

CONSTANTS Nodes, Keys, NoNode

VARIABLES items,   \* of each node its address, number and key
          last,    \* the last number given
          num,     \* how many the list says it has
          live,    \* the nodes in use
          found    \* what a search for each key returns

seqVars == <<items, last, num, live, found>>

\* the places of the nodes with a key, in a sequence, and the first of them
Places(seq, k) == {i \in DOMAIN seq : seq[i].key = k}
Place(seq, k)  == CHOOSE i \in Places(seq, k) : \A j \in Places(seq, k) : i <= j

\* the new sequence, and what has to agree with it
Becomes(seq) ==
  /\ items' = seq
  /\ num'   = Len(seq)
  /\ live'  = {seq[i].node : i \in DOMAIN seq}
  /\ found' = [k \in Keys |-> IF Places(seq, k) = {} THEN NoNode
                              ELSE seq[Place(seq, k)].node]

Add(n, k) ==
  /\ n \notin live
  /\ last' = last + 1
  /\ Becomes(Append(items, [node |-> n, id |-> last + 1, key |-> k]))

DeleteFirst ==
  /\ items # <<>>
  /\ last' = last
  /\ Becomes(Tail(items))

Delete(k) ==
  /\ Places(items, k) # {}
  /\ last' = last
  /\ Becomes(RemoveAt(items, Place(items, k)))

Free == last' = 0 /\ Becomes(<<>>)

Init == /\ items = <<>> /\ last = 0 /\ num = 0 /\ live = {}
        /\ found = [k \in Keys |-> NoNode]

Next ==
  \/ \E n \in Nodes, k \in Keys : Add(n, k)
  \/ \E k \in Keys : Delete(k)
  \/ DeleteFirst
  \/ Free

Spec == Init /\ [][Next]_seqVars
=============================================================================
