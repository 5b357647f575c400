----------------------------- MODULE RelayCmds ------------------------------
(***************************************************************************)
(* The commands of the relay server (ProcessCmd, source/udpbase.c) that    *)
(* open and close sessions and keep the list of the clients that want      *)
(* broadcasts.  One thread handles them one by one.  A handler looks its   *)
(* client up under status_lock and writes to the node it got after the     *)
(* unlock, so it is two steps here: the command, and Finish.               *)
(***************************************************************************)
EXTENDS Integers, Sequences, SequencesExt

CONSTANTS Clients,      \* the addresses datagrams come from
          MaxSessions,  \* bound: sessions opened, MAX_SESSION_NUM at most
          MaxNodes      \* bound: registrations for broadcasts

Sessions == 0 .. MaxSessions - 1
NodeIds  == 1 .. MaxNodes

ASSUME RelayAssumption == MaxSessions \in Nat /\ MaxNodes \in Nat /\ Clients # {}

VARIABLES sess,    \* obj->SessionList
          idx,     \* obj->session_idx
          blist,   \* obj->broadCastHead: the nodes on the list, in order
          node,    \* what is in each node
          regs,    \* nodes allocated so far: no memory is used twice
          call,    \* a handler between findnode and its end
          wild,    \* what stopped the program: see Crash
          exited   \* history: the clients whose node a kExit deleted

cmdVars == <<sess, idx, blist, node, regs, call, wild, exited>>

-----------------------------------------------------------------------------
\* An entry of SessionList.  fresh: its now_time is not long ago; life: it has
\* a liveTime, after which it is over.  calloc'ed, with status -1:
NoSession == [status |-> -1, fresh |-> FALSE, life |-> FALSE]

Opened(life) == [status |-> 1, fresh |-> TRUE, life |-> life]

\* memset by kSessionClose and kExit.  now_time is 0 then, and whether the int
\* difference to now looks like a timeout is a matter of the date.
Cleared(fresh) == [status |-> 0, fresh |-> fresh, life |-> FALSE]

\* a SockNode: who it is for, whether it was heard of lately, and how often it
\* was told that a session is alive and that it is dead
NewNode(c) == [addr |-> c, fresh |-> TRUE,
               live |-> [i \in Sessions |-> 0], dead |-> [i \in Sessions |-> 0]]

NoNode == 0
NoCall == [cmd |-> "none"]

Listed(n) == n \in Range(blist)

\* findnode: the first node of the address, if there is one
FindPos(c) == SelectInSeq(blist, LAMBDA n : node[n].addr = c)

FindNode(c) == IF FindPos(c) = 0 THEN NoNode ELSE blist[FindPos(c)]

\* deletenode: the first node of the address leaves the list and is freed;
\* what is left in its memory is not looked at.
Delete(nodes, c) ==
  /\ blist' = IF FindPos(c) = 0 THEN blist ELSE RemoveAt(blist, FindPos(c))
  /\ node'  = IF FindPos(c) = 0 THEN nodes
              ELSE [nodes EXCEPT ![FindNode(c)] = NewNode(c)]

\* The program is done for: "empty": findnode reads the NULL behind the head of
\* an empty list; "touched", "walked": a freed node is used.
Crash(how) == wild' = how /\ UNCHANGED <<sess, idx, blist, node, regs, call, exited>>

-----------------------------------------------------------------------------
Ready == wild = "no" /\ call = NoCall

\* The handler looks its client up and goes on in Finish.
LookUp(cmd, c, i) ==
  /\ blist # <<>>
  /\ call' = [cmd |-> cmd, addr |-> c, sid |-> i, p |-> FindNode(c)]

\* kBroadCastReg: a node for the client, whether it has one or not.
BroadCastReg(c) ==
  /\ Ready /\ regs < MaxNodes
  /\ regs' = regs + 1
  /\ blist' = Append(blist, regs')
  /\ node' = [node EXCEPT ![regs'] = NewNode(c)]
  /\ UNCHANGED <<sess, idx, call, wild, exited>>

\* kGetSessionId with status 1.  session_idx is advanced in Finish: the
\* broadcaster does not see the session before.  (With status 2 the entry is
\* only marked, and not counted in.)
GetSessionId(c) ==
  /\ Ready /\ idx < MaxSessions
  /\ \E life \in BOOLEAN : sess' = [sess EXCEPT ![idx] = Opened(life)]
  /\ LookUp("GetSessionId", c, idx)
  /\ UNCHANGED <<idx, blist, node, regs, wild, exited>>

\* kHeartBeat from the master of a session
HeartBeat(c, i) ==
  /\ Ready /\ LookUp("HeartBeat", c, i)
  /\ UNCHANGED <<sess, idx, blist, node, regs, wild, exited>>

\* kAsk, kRTT and the heartbeats of other clients.  kGetChanId and kBye touch the
\* node in the same way; the channels they deal with are not kept here.
Ask(c) ==
  /\ Ready /\ LookUp("Ask", c, 0)
  /\ UNCHANGED <<sess, idx, blist, node, regs, wild, exited>>

\* kSessionClose
SessionClose(i) ==
  /\ Ready /\ i < idx
  /\ \E fresh \in BOOLEAN : sess' = [sess EXCEPT ![i] = Cleared(fresh)]
  /\ UNCHANGED <<idx, blist, node, regs, call, wild, exited>>

\* kExit: the session is closed, and the client's node deleted in Finish.
Exit(c, i) ==
  /\ Ready /\ i < idx
  /\ \E fresh \in BOOLEAN : sess' = [sess EXCEPT ![i] = Cleared(fresh)]
  /\ LookUp("Exit", c, i)
  /\ UNCHANGED <<idx, blist, node, regs, wild, exited>>

\* kExit for a session that was never opened: only the node goes.
ExitOnly(c) ==
  /\ Ready
  /\ Delete(node, c) /\ exited' = exited \cup {c}
  /\ UNCHANGED <<sess, idx, regs, call, wild>>

\* findnode on an empty list, in any handler that calls it
FindInEmpty == Ready /\ blist = <<>> /\ Crash("empty")

\* The node the handler found is touched; a kExit deletes the first node of
\* its client, which is the one it found unless there was none.
Finish ==
  /\ wild = "no" /\ call # NoCall
  /\ call.p = NoNode \/ Listed(call.p)
  /\ call' = NoCall
  /\ LET touched == IF call.p = NoNode THEN node
                    ELSE [node EXCEPT ![call.p].fresh = TRUE]
     IN  IF call.cmd = "Exit"
           THEN Delete(touched, call.addr) /\ exited' = exited \cup {call.addr}
           ELSE node' = touched /\ UNCHANGED <<blist, exited>>
  /\ idx' = IF call.cmd = "GetSessionId" THEN idx + 1 ELSE idx
  /\ sess' = [sess EXCEPT ![call.sid].fresh =
       @ \/ (call.cmd = "HeartBeat" /\ call.p # NoNode /\ call.sid < idx)]
  /\ UNCHANGED <<regs, wild>>

\* The broadcaster has freed the node meanwhile.
TouchFreed == /\ wild = "no" /\ call # NoCall
              /\ call.p # NoNode /\ ~Listed(call.p)
              /\ Crash("touched")

-----------------------------------------------------------------------------
CmdInit == /\ sess = [i \in Sessions |-> NoSession] /\ idx = 0
           /\ blist = <<>> /\ regs = 0
           /\ node = [n \in NodeIds |-> NewNode(CHOOSE c \in Clients : TRUE)]
           /\ call = NoCall /\ wild = "no" /\ exited = {}

\* ProcessCmd: the next datagram, from any client
ProcessCmd ==
  \/ \E c \in Clients : BroadCastReg(c) \/ GetSessionId(c) \/ Ask(c) \/ ExitOnly(c)
  \/ \E c \in Clients, i \in Sessions : HeartBeat(c, i) \/ Exit(c, i)
  \/ \E i \in Sessions : SessionClose(i)
  \/ FindInEmpty
=============================================================================
