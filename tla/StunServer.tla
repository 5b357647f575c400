----------------------------- MODULE StunServer -----------------------------
(***************************************************************************)
(* The STUN server: server_recv_run and send_stun_list                     *)
(* (source/base_stun.c) on the client lists of source/stun_list.c.         *)
(* A client registers and gets a session; others join the session, and the *)
(* server tells every member of the others.  A handler gets one datagram   *)
(* m and the address c it came from; what it sends is appended to down.    *)
(***************************************************************************)
EXTENDS Integers, Sequences

CONSTANTS Clients,    \* the addresses datagrams come from
          MaxOnline,  \* MAX_ONLINE_NUM: size of obj->pClientInfo
          ListMax     \* MAX_MTU_SIZE / sizeof(StunInfo): entries in a datagram

VARIABLES globSession,  \* glob_session_id
          slot,         \* obj->pClientInfo: the list of each session
          down,         \* datagrams on their way to each client
          wild          \* a list was used after stun_free_node

serverVars == <<globSession, slot, down, wild>>

Cmds == {"Reg", "Peers", "HeartBeat", "Bye", "Exit"}

\* A StunNode as others see it: its session, its own session, its address.
Entries == [session : Nat, self : Nat, addr : Clients]

\* What a datagram to a client carries: one StunInfo or a list of them.
Down(cmd, entries) == [cmd |-> cmd, es |-> entries]

-----------------------------------------------------------------------------
\* A calloc'ed ClientInfo: no list.
NoList == [made |-> FALSE, freed |-> FALSE, session |-> 0, nodes |-> <<>>]

\* the place of a session's list
Place(session) == session % MaxOnline

\* the datagram with the client's address filled in (remote_ip, remote_port)
Entry(session, self, c) == [session |-> session, self |-> self, addr |-> c]

\* send_data: a datagram leaves for address c
Sent(out, c, msg) == [out EXCEPT ![c] = Append(@, msg)]

\* Mutant of Tell: only the owner of the session is told of the new client.
TellOwner(out, p, new) ==
  IF p.self # new.self /\ p.self = p.session
    THEN Sent(out, p.addr, Down("Peers", <<new>>)) ELSE out

\* send the new client to the others: those with another self_session_id
Tell(out, p, new) ==
  IF p.self # new.self THEN Sent(out, p.addr, Down("Peers", <<new>>)) ELSE out

\* Mutant of Visit: send_buf is found full one entry too late.
VisitLate(acc, p, new) ==
  LET told == Tell(acc.out, p, new)
      buf  == Append(acc.buf, p)
  IN  IF Len(buf) > ListMax
        THEN [out |-> Sent(told, new.addr, Down("Peers", buf)), buf |-> <<>>]
        ELSE [out |-> told, buf |-> buf]

\* One turn of send_stun_list's loop, at node p: p is told of the new client
\* and put in send_buf, which is sent to the new client when it is full.
Visit(acc, p, new) ==
  LET told == Tell(acc.out, p, new)
      buf  == Append(acc.buf, p)
  IN  IF Len(buf) = ListMax
        THEN [out |-> Sent(told, new.addr, Down("Peers", buf)), buf |-> <<>>]
        ELSE [out |-> told, buf |-> buf]

\* send_stun_list's loop: Visited(nodes, new)[n] is what it has done at node n
Visited(nodes, new) ==
  LET visit[n \in 0 .. Len(nodes)] ==
        IF n = 0 THEN [out |-> down, buf |-> <<>>]
                 ELSE Visit(visit[n - 1], nodes[n], new)
  IN  visit

\* send_stun_list: what is on its way once all members have been visited
SendStunList(nodes, new) ==
  LET end == Visited(nodes, new)[Len(nodes)]
  IN  IF Len(nodes) <= 1 THEN down
      ELSE IF end.buf = <<>> THEN end.out
      ELSE Sent(end.out, new.addr, Down("Peers", end.buf))

-----------------------------------------------------------------------------
\* Mutant of NewSession: glob_session_id is not advanced.
NewSessionSame == globSession

\* the session a registration gets
NewSession == globSession + 1

\* kReg without a session: a new session, with the client as its first node.
\* A list that is still in its place is kept, under the new session's id.
Register(m, c) ==
  LET e == Entry(NewSession, NewSession, c)
      l == slot[Place(NewSession)]
  IN  /\ m.session = 0 /\ m.cmd = "Reg"
      /\ ~l.freed
      /\ globSession' = NewSession
      /\ slot' = [slot EXCEPT ![Place(NewSession)] =
                    [l EXCEPT !.made = TRUE, !.session = NewSession,
                              !.nodes = Append(@, e)]]
      /\ down' = Sent(down, c, Down("Reg", <<e>>))
      /\ UNCHANGED wild

\* the datagram names a session that exists and has a list, freed or not
OfSession(m) == /\ m.session > 0 /\ m.session <= globSession
                /\ slot[Place(m.session)].made

\* kPeers: the client joins, however often it did before, and all are told.
Join(m, c) ==
  LET l     == slot[Place(m.session)]
      e     == Entry(m.session, m.self, c)
      nodes == Append(l.nodes, e)
  IN  /\ OfSession(m) /\ m.cmd = "Peers"
      /\ ~l.freed
      /\ slot' = [slot EXCEPT ![Place(m.session)].nodes = nodes]
      /\ down' = SendStunList(nodes, e)
      /\ UNCHANGED <<globSession, wild>>

\* kHeartBeat and kBye are sent back; the list is not looked at.
Echo(m, c) ==
  /\ OfSession(m) /\ m.cmd \in {"HeartBeat", "Bye"}
  /\ down' = Sent(down, c, Down(m.cmd, <<Entry(m.session, m.self, c)>>))
  /\ UNCHANGED <<globSession, slot, wild>>

\* kExit, from any client: stun_free_node frees the list, and its place goes
\* on pointing to it.
Exit(m, c) ==
  /\ OfSession(m) /\ m.cmd = "Exit"
  /\ ~slot[Place(m.session)].freed
  /\ slot' = [slot EXCEPT ![Place(m.session)].freed = TRUE,
                          ![Place(m.session)].nodes = <<>>]
  /\ down' = Sent(down, c, Down("Exit", <<Entry(m.session, m.self, c)>>))
  /\ UNCHANGED <<globSession, wild>>

\* A list is used after it was freed: nothing can be said of the server then.
UseFreed(m, c) ==
  /\ \/ /\ OfSession(m) /\ m.cmd \in {"Peers", "Exit"}
        /\ slot[Place(m.session)].freed
     \/ /\ m.session = 0 /\ m.cmd = "Reg"
        /\ slot[Place(NewSession)].freed
  /\ wild' = TRUE
  /\ UNCHANGED <<globSession, slot, down>>

\* Datagrams that get a warning and no answer: no session, an unknown one, one
\* without a list, and a second registration.
Ignore(m, c) ==
  /\ \/ m.session = 0 /\ m.cmd # "Reg"
     \/ m.session > 0 /\ ~OfSession(m)
     \/ OfSession(m) /\ m.cmd = "Reg"
  /\ UNCHANGED serverVars

\* server_recv_run, one datagram
ServerRecv(m, c) == /\ ~wild
                    /\ \/ Register(m, c) \/ Join(m, c) \/ Echo(m, c)
                       \/ Exit(m, c) \/ UseFreed(m, c) \/ Ignore(m, c)

ServerInit == /\ globSession = 1
              /\ slot = [n \in 0 .. MaxOnline - 1 |-> NoList]
              /\ down = [c \in Clients |-> <<>>]
              /\ wild = FALSE

=============================================================================
