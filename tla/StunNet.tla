------------------------------ MODULE StunNet -------------------------------
(***************************************************************************)
(* Server and clients together, over UDP: datagrams between the server and *)
(* a client may be lost, arrive twice, or be overtaken by the next one.    *)
(* The network is external; its faults are bounded by the constants.       *)
(***************************************************************************)
EXTENDS StunClient, SequencesExt

CONSTANTS MaxOnline,  \* of StunServer
          ListMax,    \* of StunServer
          MaxFaults   \* bound: faults of the network

ASSUME StunNetAssumption == /\ MaxOnline \in Nat \ {0}
                            /\ ListMax \in Nat \ {0}
                            /\ MaxFaults \in Nat

VARIABLES globSession, slot, down, wild,
          lost, repeated, overtaken

S == INSTANCE StunServer

serverVars == <<globSession, slot, down, wild>>
faultVars  == <<lost, repeated, overtaken>>
vars == <<clientVars, up, p2p, serverVars, faultVars>>

-----------------------------------------------------------------------------
\* server_recv_run takes the next datagram of some client.
ToServer == \E c \in Clients :
  /\ up[c] # <<>>
  /\ S!ServerRecv(Head(up[c]), c)
  /\ up' = [up EXCEPT ![c] = Tail(@)]
  /\ UNCHANGED <<clientVars, p2p, faultVars>>

\* client_recv_run takes the next datagram of the server.
ToClient == \E c \in Clients :
  /\ down[c] # <<>>
  /\ ClientRecv(c, Head(down[c]))
  /\ down' = [down EXCEPT ![c] = Tail(@)]
  /\ UNCHANGED <<globSession, slot, wild, faultVars>>

\* client_recv_run takes a ping, or the answer to one, of another client.
ToPeer == \E m \in p2p :
  /\ RecvPing(m.to, m) \/ RecvAck(m.to, m)
  /\ UNCHANGED <<serverVars, faultVars>>

\* The other threads of a client go on.
Threads == \E c \in Clients :
  /\ \/ TestRound(c)
     \/ \E k \in Lists : StartPing(c, k) \/ \E n \in DOMAIN list[c][k].nodes : Ping(c, k, n)
  /\ UNCHANGED <<serverVars, faultVars>>

\* Nobody owes the next command of a user or the next heartbeat.
Users == \E c \in Clients :
  /\ \/ Beat(c)
     \/ \E cmd \in {"Reg", "Peers", "Exit"}, sess \in JoinIds \cup {0} :
           Command(c, cmd, sess)
  /\ UNCHANGED <<serverVars, faultVars>>

-----------------------------------------------------------------------------
(* Faults: of the datagrams of one client, either way.  A ping is lost by  *)
(* not being taken.                                                        *)

MayFail == lost + repeated + overtaken < MaxFaults

Lose == \E c \in Clients :
  /\ MayFail /\ lost' = lost + 1
  /\ \/ up[c] # <<>> /\ up' = [up EXCEPT ![c] = Tail(@)] /\ UNCHANGED down
     \/ down[c] # <<>> /\ down' = [down EXCEPT ![c] = Tail(@)] /\ UNCHANGED up
  /\ UNCHANGED <<clientVars, p2p, globSession, slot, wild, repeated, overtaken>>

Repeat == \E c \in Clients :
  /\ MayFail /\ repeated' = repeated + 1
  /\ \/ /\ up[c] # <<>> /\ up' = [up EXCEPT ![c] = <<Head(@)>> \o @]
        /\ UNCHANGED down
     \/ /\ down[c] # <<>> /\ down' = [down EXCEPT ![c] = <<Head(@)>> \o @]
        /\ UNCHANGED up
  /\ UNCHANGED <<clientVars, p2p, globSession, slot, wild, lost, overtaken>>

Swapped(q) == <<q[2], q[1]>> \o SubSeq(q, 3, Len(q))

OvertakeOne == \E c \in Clients :
  /\ MayFail /\ overtaken' = overtaken + 1
  /\ \/ Len(up[c]) > 1 /\ up' = [up EXCEPT ![c] = Swapped(@)] /\ UNCHANGED down
     \/ Len(down[c]) > 1 /\ down' = [down EXCEPT ![c] = Swapped(@)] /\ UNCHANGED up
  /\ UNCHANGED <<clientVars, p2p, globSession, slot, wild, lost, repeated>>

-----------------------------------------------------------------------------
Init == /\ ClientInit /\ S!ServerInit
        /\ lost = 0 /\ repeated = 0 /\ overtaken = 0

Progress == ToServer \/ ToClient \/ Threads

Next == Progress \/ ToPeer \/ Users \/ Lose \/ Repeat \/ OvertakeOne

\* The threads of the programs run and the network delivers.  Every counter
\* is bounded, so that no thread can keep another from its turn for ever.
Spec == Init /\ [][Next]_vars /\ WF_vars(Progress)

-----------------------------------------------------------------------------
\* sessions have places of their own
NoWrap == globSession <= MaxOnline + 1

\* The variables have their types: a session number was given out before, and
\* send_buf never holds more entries than a datagram (base_stun.c:386).
TypeOK ==
  /\ globSession \in Nat /\ wild \in BOOLEAN
  /\ \A n \in DOMAIN slot : /\ slot[n].session \in Nat
                            /\ slot[n].made \in BOOLEAN /\ slot[n].freed \in BOOLEAN
                            /\ slot[n].nodes \in Seq(S!Entries)
  /\ \A c \in Clients :
       /\ session[c] \in Nat /\ self[c] \in 0 .. globSession
       /\ \A m \in ToSet(up[c]) : m.cmd \in S!Cmds
       /\ \A m \in ToSet(down[c]) :
             m.cmd \in S!Cmds /\ m.es \in Seq(S!Entries) /\ Len(m.es) \in 1 .. ListMax
       /\ \A k \in Lists : list[c][k].nodes # <<>> => list[c][k].made

\* A client that has registered has a session no other client has, however
\* often it asked for one or was answered; its own list is there exactly
\* then, is that session's, and begins with the client itself.
OwnSession ==
  /\ \A c \in Clients :
       /\ self[c] # 0 <=> list[c][Own].made
       /\ self[c] # 0 =>
            /\ session[c] = self[c] /\ list[c][Own].session = self[c]
            /\ list[c][Own].nodes[1].addr = c
  /\ \A c, d \in Clients : self[c] = self[d] /\ self[c] # 0 => c = d

\* the clients in the lists of c, by their own sessions and addresses
Known(c) == UNION {{<<node.self, node.addr>> : node \in ToSet(list[c][k].nodes)} :
                     k \in Lists}

\* nothing is on its way
Quiet == \A c \in Clients : up[c] = <<>> /\ down[c] = <<>>

\* When all datagrams have arrived and none was lost, a member of a session
\* knows those that joined before it, and those that joined after it with
\* another self_session_id; however often each joined, also when datagrams
\* overtook each other or the list took several.  The server does not tell it
\* of later ones with the same self_session_id (base_stun.c:374): those that
\* join before the answer to their registration, or without one, as the guests
\* of api_socket_test do, all have 0, and of two such members only the later
\* one knows the other, unless the earlier one joins again.
MutualKnowledge ==
  Quiet /\ lost = 0 /\ ~wild /\ NoWrap =>
    \A n \in DOMAIN slot : ~slot[n].freed =>
      \A i, k \in DOMAIN slot[n].nodes :
        LET a == slot[n].nodes[i]
            b == slot[n].nodes[k]
        IN  i < k \/ a.self # b.self => <<a.self, a.addr>> \in Known(b.addr)

\* The client's own list holds the members of its own session and the other
\* list those of other sessions, as long as no datagram has overtaken the
\* answer to the registration and no list is shared by two sessions.
RightList ==
  overtaken = 0 /\ NoWrap =>
    \A c \in Clients :
      /\ \A node \in ToSet(list[c][Own].nodes) : node.session = self[c]
      /\ \A node \in ToSet(list[c][Joined].nodes) : node.session # self[c]

\* The answer to a ping finds the list it is looked up in: client_recv_run
\* goes through it without a test for NULL.
AckFindsList ==
  \A m \in p2p : m.ack => list[m.to][ListOf(m.to, m.session)].made

\* A client of api_socket_test that is to register does so, although answers
\* may be lost: it asks again in every round until it has a session.
Registers ==
  \A c \in Clients : Program[c] = "test" /\ Preset[c] = 0 /\ MaxFaults < Rounds =>
    <>(self[c] # 0 \/ wild)

-----------------------------------------------------------------------------
(* What a comment of the source says, and the code does not do. *)

\* "cnn_status; //1:local; 2: exteranl": the answer to a ping marks the node
\* of the client that answered as connected.
AckMarksPeer ==
  [][\A m \in p2p \ p2p' : m.ack =>
        \E k \in Lists : \E node \in ToSet(list'[m.to][k].nodes) :
            node.addr = m.from /\ node.cnn]_vars

=============================================================================
