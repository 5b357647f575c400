------------------------------ MODULE NodeList ------------------------------
(***************************************************************************)
(* The linked list that stun_list.c, file_list.c, file_frame.c, file_pic.c,*)
(* file_group.c and udpbase.c each have a copy of: a head that points to   *)
(* the first and to the last node, counts the nodes and gives them         *)
(* numbers.  The relay searches by address, the file lists by number: both *)
(* are keys.  Freed places may be given out again; what they held is gone. *)
(***************************************************************************)
EXTENDS Integers, FiniteSets, FiniteSetsExt, Functions

CONSTANTS Nodes,    \* places for nodes in memory
          Keys,     \* what a node is looked up by
          Head,     \* the head node, none of Nodes
          NoNode,   \* NULL, neither
          MaxId     \* bound: nodes ever added

VARIABLES made,     \* the head has been allocated
          next,     \* next of each node and of the head
          tail,     \* head->tail
          num,      \* head->num
          lastId,   \* head->id
          id, key,  \* of each node
          live      \* nodes allocated and not freed

fields   == <<id, key>>
listVars == <<made, next, tail, num, lastId, fields, live>>

-----------------------------------------------------------------------------
\* The nodes as p meets them, from the head at place 0 to NULL.
At == LET at[i \in 0 .. Cardinality(Nodes) + 1] ==
            IF i = 0 THEN Head
            ELSE IF at[i-1] = NoNode THEN NoNode ELSE next[at[i-1]]
      IN  at

\* the places of the nodes that are met, and of those with key k
Met         == {i \in DOMAIN At : i > 0 /\ At[i] # NoNode}
MetWith(k)  == {i \in Met : key[At[i]] = k}

\* stun_create_node, which leaves a list alone that is there
Create ==
  /\ ~made
  /\ made' = TRUE
  /\ next' = [next EXCEPT ![Head] = NoNode]
  /\ tail' = Head
  /\ num'  = 0 /\ lastId' = 0
  /\ UNCHANGED <<fields, live>>

\* stun_add_node, sockNodeAdd: at the end
Add(n, k) ==
  /\ made /\ n \notin live /\ lastId < MaxId
  /\ next'   = [next EXCEPT ![n] = NoNode, ![tail] = n]
  /\ tail'   = n
  /\ num'    = num + 1
  /\ lastId' = lastId + 1
  /\ id'     = [id EXCEPT ![n] = lastId + 1]
  /\ key'    = [key EXCEPT ![n] = k]
  /\ live'   = live \cup {n}
  /\ UNCHANGED made

\* findnode, frame_find_node_by_id, on a list that is not empty: on an empty
\* one they read through NULL.
Found(k) == IF MetWith(k) = {} THEN NoNode ELSE At[Min(MetWith(k))]

\* The nodes ns are freed, after the pointers have become ptrs.
Freed(ns, ptrs) ==
  /\ live' = live \ ns
  /\ next' = [n \in Nodes \cup {Head} |-> IF n \in ns THEN NoNode ELSE ptrs[n]]
  /\ id'   = [n \in Nodes |-> IF n \in ns THEN 0 ELSE id[n]]
  /\ key'  = [n \in Nodes |-> IF n \in ns THEN NoNode ELSE key[n]]

\* Mutant of Unlink: the tail stays when the last of several is deleted.
UnlinkKeepsTail(i) ==
  LET p == At[i]
      out == [next EXCEPT ![At[i-1]] = next[p]]
  IN  /\ tail' = IF out[Head] = NoNode THEN Head ELSE tail
      /\ Freed({p}, out)
      /\ num' = num - 1
      /\ UNCHANGED <<made, lastId>>

\* The node p at place i is taken out, q is the one before it.  The tail moves
\* back when the last node goes.
Unlink(i) ==
  LET p == At[i]
      q == At[i-1]
      out == [next EXCEPT ![q] = next[p]]
  IN  /\ IF out[Head] = NoNode THEN tail' = Head /\ Freed({p}, out)
         ELSE IF out[q] = NoNode
         THEN tail' = q /\ Freed({p}, [out EXCEPT ![tail] = q])
         ELSE UNCHANGED tail /\ Freed({p}, out)
      /\ num' = num - 1
      /\ UNCHANGED <<made, lastId>>

\* stun_delete_node: the first one
DeleteFirst == made /\ Met # {} /\ Unlink(1)

\* deletenode, frame_delete_node_by_id: the first one with the key
Delete(k) == made /\ MetWith(k) # {} /\ Unlink(Min(MetWith(k)))

\* stun_free_node: every node that is met, and the head; the owner forgets
\* the list (api_socket_stop)
Free ==
  /\ made
  /\ made' = FALSE
  /\ Freed({At[i] : i \in Met}, [next EXCEPT ![Head] = NoNode])
  /\ tail' = Head /\ num' = 0 /\ lastId' = 0

-----------------------------------------------------------------------------
Init ==
  /\ made = FALSE
  /\ next = [n \in Nodes \cup {Head} |-> NoNode]
  /\ tail = Head /\ num = 0 /\ lastId = 0
  /\ id = [n \in Nodes |-> 0]
  /\ key = [n \in Nodes |-> NoNode]
  /\ live = {}

Next ==
  \/ Create
  \/ \E n \in Nodes, k \in Keys : Add(n, k)
  \/ \E k \in Keys : Delete(k)
  \/ DeleteFirst
  \/ Free

Spec == Init /\ [][Next]_listVars

-----------------------------------------------------------------------------
\* The nodes the pointers lead to, with what they hold.
Contents ==
  [i \in Met |-> [node |-> At[i], id |-> id[At[i]], key |-> key[At[i]]]]

S == INSTANCE NodeSeq WITH items <- Contents, last <- lastId,
                          found <- [k \in Keys |-> Found(k)]

\* However nodes are added and deleted, first, last or in between, the
\* pointers lead to the nodes added and not deleted, in their order, the
\* count is theirs, a search returns the first of its key, no freed node is
\* met and none in use is lost
\* (stun_delete_node, deletenode and their copies move the tail themselves).
IsSequence == S!Spec

=============================================================================
