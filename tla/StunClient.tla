----------------------------- MODULE StunClient -----------------------------
(***************************************************************************)
(* The clients of the STUN server (source/base_stun.c): the thread of      *)
(* client_recv_run, that of heart_beat_run, the two ping threads, and the  *)
(* main thread, which runs api_socket_test or, at a user's command,        *)
(* api_socket_test2.  Each handler is for client c; what a client sends to *)
(* the server is appended to up, what it sends to other clients is put in  *)
(* p2p.                                                                    *)
(***************************************************************************)
EXTENDS Integers, Sequences

CONSTANTS Clients,
          Program,   \* what the main thread runs: "test" or "test2"
          Preset,    \* api_socket_test's argument session_id
          Rounds,    \* rounds of api_socket_test (10)
          MaxCmds,   \* bound: commands of a user
          JoinIds,   \* bound: the sessions a user asks to join
          MaxBeats,  \* bound: heartbeats of all clients
          MaxPings   \* pings to a node that does not answer (10)

ASSUME ClientAssumption ==
  /\ Program \in [Clients -> {"test", "test2"}]
  /\ Preset \in [Clients -> Nat]
  /\ \A c \in Clients : Program[c] = "test2" => Preset[c] = 0
  /\ JoinIds \subseteq Nat \ {0}
  /\ {Rounds, MaxCmds, MaxBeats, MaxPings} \subseteq Nat

VARIABLES session,   \* obj->stunInfo.session_id
          self,      \* obj->stunInfo.self_session_id
          list,      \* obj->pClientInfo: the client's session, a joined one
          ping,      \* the ping thread of each list
          draft,     \* the command api_socket_test is about to send
          turn,      \* commands or rounds the main thread has begun
          beats,     \* heartbeats sent so far
          up,        \* datagrams on their way to the server
          p2p        \* pings and their answers on their way

clientVars == <<session, self, list, ping, draft, turn, beats>>

Own    == 0
Joined == 1
Lists  == {Own, Joined}

NoList  == [made |-> FALSE, session |-> 0, nodes |-> <<>>]
NoDraft == "None"

-----------------------------------------------------------------------------
(* The main thread. *)

Send(c, m) == up' = [up EXCEPT ![c] = Append(@, m)]

\* Mutant of RoundCmd: a lost answer to kReg is not asked for again.
RoundCmdOnce(c) == IF turn[c] = 0 THEN "Reg"
                   ELSE IF turn[c] = Rounds - 1 THEN "Exit" ELSE "Peers"

\* what api_socket_test asks for in its next round
RoundCmd(c) == IF session[c] = 0 THEN "Reg"
               ELSE IF turn[c] = Rounds - 1 THEN "Exit" ELSE "Peers"

\* api_socket_test decides on the command of a round.
Round(c) ==
  /\ Program[c] = "test" /\ turn[c] < Rounds /\ draft[c] = NoDraft
  /\ draft' = [draft EXCEPT ![c] = RoundCmd(c)]
  /\ turn' = [turn EXCEPT ![c] = @ + 1]
  /\ UNCHANGED <<session, self, list, ping, beats, up, p2p>>

\* ... and sends it with what stunInfo holds by now.
SendRound(c) ==
  /\ Program[c] = "test" /\ draft[c] # NoDraft
  /\ Send(c, [cmd |-> draft[c], session |-> session[c], self |-> self[c]])
  /\ draft' = [draft EXCEPT ![c] = NoDraft]
  /\ UNCHANGED <<session, self, list, ping, turn, beats, p2p>>

\* api_socket_test2.  The user's first command registers, the later ones join
\* a session or, without one, end the client's own.
Command(c, cmd, sess) ==
  /\ Program[c] = "test2" /\ turn[c] < MaxCmds
  /\ \/ turn[c] = 0 /\ cmd = "Reg" /\ sess = 0
     \/ turn[c] > 0 /\ cmd = "Peers" /\ sess \in JoinIds
     \/ turn[c] > 0 /\ cmd = "Exit" /\ sess = 0
  /\ Send(c, [cmd |-> cmd, session |-> IF sess > 0 THEN sess ELSE self[c],
              self |-> self[c]])
  /\ turn' = [turn EXCEPT ![c] = @ + 1]
  /\ UNCHANGED <<session, self, list, ping, draft, beats, p2p>>

\* heart_beat_run: when nothing has been sent for HEARTBEAT_TIME, 20 seconds.
\* By then all that was sent has arrived or been lost, and api_socket_test,
\* whose rounds are at most 5 seconds apart, is over.
Beat(c) ==
  /\ beats < MaxBeats
  /\ up[c] = <<>>
  /\ turn[c] > 0 /\ (Program[c] = "test" => turn[c] = Rounds /\ draft[c] = NoDraft)
  /\ Send(c, [cmd |-> "HeartBeat", session |-> session[c], self |-> self[c]])
  /\ beats' = beats + 1
  /\ UNCHANGED <<session, self, list, ping, draft, turn, p2p>>

-----------------------------------------------------------------------------
(* The receiving thread. *)

\* stun_create_node, where there is no list yet, and the list's new session
Created(l, sess) == [l EXCEPT !.made = TRUE, !.session = sess]

\* a node as calloc leaves it, around the data of a datagram
Node(e) == [session |-> e.session, self |-> e.self, addr |-> e.addr,
            cnn |-> FALSE, pings |-> 0]

\* the answer to a registration, while the client has no session
Awaited(c, m) == session[c] = 0 /\ m.cmd = "Reg"

\* kReg: the client's own session, with itself as the first node.
RecvReg(c, m) ==
  LET e == m.es[1]
      l == Created(list[c][Own], e.session)
  IN  /\ Awaited(c, m) /\ e.session > 0
      /\ list' = [list EXCEPT ![c][Own] = [l EXCEPT !.nodes = Append(@, Node(e))]]
      /\ session' = [session EXCEPT ![c] = e.session]
      /\ self' = [self EXCEPT ![c] = e.session]
      /\ UNCHANGED <<ping, draft, turn, beats, up, p2p>>

\* Mutants of ListOf: one list for all sessions, once it exists; session_id
\* taken for self_session_id.
ListOfFirst(c, sess) == IF list[c][Own].made THEN Own ELSE Joined
ListOfSession(c, sess) == IF sess = session[c] THEN Own ELSE Joined

\* the list a datagram is about: the client's own session or a joined one
ListOf(c, sess) == IF sess = self[c] THEN Own ELSE Joined

\* the client itself, in the list of its own session, is not added again
Skipped(c, l, e) == e.self = self[c] /\ l.session = self[c]

\* the loop over the entries of a datagram: Added(c, l, es)[n] are the nodes
\* after n of them
Added(c, l, es) ==
  LET add[n \in 0 .. Len(es)] ==
        IF n = 0 THEN l.nodes
        ELSE IF Skipped(c, l, es[n]) THEN add[n - 1]
        ELSE Append(add[n - 1], Node(es[n]))
  IN  add

\* the list with the entries of a datagram appended
WithPeers(c, l, es) == [l EXCEPT !.nodes = Added(c, l, es)[Len(es)]]

\* kPeers: the entries are added to the list of the first one's session, and
\* the list's ping thread is created when it has somebody to ping.
RecvPeers(c, m) ==
  LET sess == m.es[1].session
      k    == ListOf(c, sess)
      l    == IF k = Own THEN list[c][Own] ELSE Created(list[c][Joined], sess)
      new  == WithPeers(c, l, m.es)
  IN  /\ ~Awaited(c, m) /\ m.cmd = "Peers" /\ sess > 0
      /\ list' = [list EXCEPT ![c][k] = new]
      /\ ping' = IF ping[c][k].pc = "none" /\ Len(new.nodes) > 1
                   THEN [ping EXCEPT ![c][k].pc = "created"] ELSE ping
      /\ UNCHANGED <<session, self, draft, turn, beats, up, p2p>>

\* kHeartBeat, kBye, kExit and a second answer to kReg: nothing is done.
RecvOther(c, m) ==
  /\ ~Awaited(c, m) /\ m.cmd # "Peers"
  /\ UNCHANGED <<clientVars, up, p2p>>

\* kPing from another client: sent back to it as it is, with ack set.
RecvPing(c, m) ==
  /\ m.to = c /\ ~m.ack
  /\ p2p' = (p2p \ {m}) \cup
              IF m.session > 0 THEN {[m EXCEPT !.to = m.from, !.from = c, !.ack = TRUE]}
                               ELSE {}
  /\ UNCHANGED <<clientVars, up>>

\* the first node with this self_session_id, if any
FirstOf(nodes, id) == {n \in DOMAIN nodes :
                         /\ nodes[n].self = id
                         /\ \A i \in 1 .. n - 1 : nodes[i].self # id}

\* An acknowledged kPing: the node of the answer's self_session_id counts as
\* connected.  The answer is the client's own ping.
RecvAck(c, m) ==
  LET k == ListOf(c, m.session)
      N == FirstOf(list[c][k].nodes, m.self)
  IN  /\ m.to = c /\ m.ack
      /\ p2p' = p2p \ {m}
      /\ list' = [list EXCEPT ![c][k].nodes =
                    [n \in DOMAIN @ |-> IF n \in N THEN [@[n] EXCEPT !.cnn = TRUE]
                                                   ELSE @[n]]]
      /\ UNCHANGED <<session, self, ping, draft, turn, beats, up>>

-----------------------------------------------------------------------------
(* The ping threads. *)

\* ping_loop begins: the thread keeps the session the client has by then.
StartPing(c, k) ==
  /\ ping[c][k].pc = "created"
  /\ ping' = [ping EXCEPT ![c][k] = [pc |-> "runs", self |-> self[c]]]
  /\ UNCHANGED <<session, self, list, draft, turn, beats, up, p2p>>

\* ping_loop at one node: another one's, not connected, pinged too seldom.
Ping(c, k, n) ==
  LET node == list[c][k].nodes[n]
  IN  /\ ping[c][k].pc = "runs" /\ n \in DOMAIN list[c][k].nodes
      /\ node.self # ping[c][k].self
      /\ ~node.cnn /\ node.pings < MaxPings
      /\ list' = [list EXCEPT ![c][k].nodes[n].pings = @ + 1]
      /\ p2p' = p2p \cup {[to |-> node.addr, from |-> c, ack |-> FALSE,
                           session |-> session[c], self |-> self[c]]}
      /\ UNCHANGED <<session, self, ping, draft, turn, beats, up>>

-----------------------------------------------------------------------------
ClientInit ==
  /\ session = Preset
  /\ self = [c \in Clients |-> 0]
  /\ list = [c \in Clients |-> [k \in Lists |-> NoList]]
  /\ ping = [c \in Clients |-> [k \in Lists |-> [pc |-> "none", self |-> 0]]]
  /\ draft = [c \in Clients |-> NoDraft]
  /\ turn = [c \in Clients |-> 0]
  /\ beats = 0
  /\ up = [c \in Clients |-> <<>>]
  /\ p2p = {}

\* client_recv_run: one datagram of the server
ClientRecv(c, m) == RecvReg(c, m) \/ RecvPeers(c, m) \/ RecvOther(c, m)

\* the main thread of api_socket_test
TestRound(c) == Round(c) \/ SendRound(c)

=============================================================================
