------------------------------- MODULE Relay --------------------------------
(***************************************************************************)
(* The relay server: the thread that handles commands, and the broadcaster *)
(* (server_broadcast_run, source/udpbase.c), which goes through the list   *)
(* for every session, tells each client that the session is alive or dead, *)
(* and deletes the nodes of clients it has not heard of.  Only the steps   *)
(* of the list are under status_lock.                                      *)
(***************************************************************************)
EXTENDS RelayCmds

CONSTANT MaxTimes   \* MAX_BROADCAST_TIMES

ASSUME BroadcastAssumption == MaxTimes \in Nat \ {0}

VARIABLES bpc,     \* where the broadcaster is
          bi,      \* the session it is at
          bst,     \* the session's status, as it read it
          bq,      \* the node it is at
          bold,    \* the node it is about to delete
          balive   \* alivesession: it told somebody

bcVars == <<bpc, bi, bst, bq, bold, balive>>
vars   == <<cmdVars, bcVars>>

-----------------------------------------------------------------------------
\* the node behind n on the list
NodeAfter(n) == LET pos == SelectInSeq(blist, LAMBDA m : m = n)
                IN  IF pos = Len(blist) THEN NoNode ELSE blist[pos + 1]

At(n) == IF n = NoNode THEN "end" ELSE "walk"

\* Mutant of FirstSession: the loop over the sessions starts at 1.
FirstSessionOne == 1

FirstSession == 0

\* The pass is over, and the next one begins; or a session is dead or unknown.
Skip ==
  /\ bpc = "pick"
  /\ bi < idx => sess[bi].status < 0
  /\ bi' = IF bi < idx THEN bi + 1 ELSE FirstSession
  /\ UNCHANGED <<cmdVars, bpc, bst, bq, bold, balive>>

\* A session alive or just dead: read its status and the head of the list.
Pick ==
  /\ bpc = "pick" /\ bi < idx /\ sess[bi].status >= 0
  /\ bst' = sess[bi].status
  /\ bq' = IF blist = <<>> THEN NoNode ELSE Head(blist)
  /\ bpc' = At(bq')
  /\ UNCHANGED <<cmdVars, bi, bold, balive>>

\* Mutant of LifeDue: the client is told once too often.
LifeDueOver(n) == node[n].live[bi] <= MaxTimes

LifeDue(n) == node[n].live[bi] < MaxTimes

\* Mutant of DeathDue: the counters are compared the wrong way round.
DeathDueSwapped(n) == /\ node[n].dead[bi] < MaxTimes
                      /\ node[n].live[bi] < node[n].dead[bi]

\* who has not been told that the session is alive is not told that it died
DeathDue(n) == /\ node[n].dead[bi] < MaxTimes
               /\ node[n].live[bi] > node[n].dead[bi]

Due(n) == IF bst > 0 THEN LifeDue(n) ELSE DeathDue(n)

\* The client of the node is told, if it is due.
Tell ==
  /\ bpc = "walk" /\ Listed(bq) /\ node[bq].fresh
  /\ IF Due(bq)
       THEN /\ node' = IF bst > 0 THEN [node EXCEPT ![bq].live[bi] = @ + 1]
                                  ELSE [node EXCEPT ![bq].dead[bi] = @ + 1]
            /\ balive' = TRUE
       ELSE UNCHANGED <<node, balive>>
  /\ bq' = NodeAfter(bq) /\ bpc' = At(bq')
  /\ UNCHANGED <<sess, idx, blist, regs, call, wild, exited, bi, bst, bold>>

\* Mutant of Onward: the broadcaster stays at the node it deletes.
OnwardNot == bq

\* the node to go on with is read before the deletion
Onward == NodeAfter(bq)

\* Nothing was heard of the client for twice the heartbeat time.
FindDead ==
  /\ bpc = "walk" /\ Listed(bq) /\ ~node[bq].fresh
  /\ bold' = bq /\ bq' = Onward /\ bpc' = "delete"
  /\ UNCHANGED <<cmdVars, bi, bst, balive>>

\* deletenode takes the first node of the address, which may be another one.
DeleteDead ==
  /\ bpc = "delete" /\ Listed(bold)
  /\ Delete(node, node[bold].addr)
  /\ bpc' = At(bq) /\ bold' = NoNode
  /\ UNCHANGED <<sess, idx, regs, call, wild, exited, bi, bst, bq, balive>>

\* The session is given up when nobody had to be told any more and it is
\* closed, or its master is silent, or its time is over (only the session's
\* parameters say when, so at any time).
GivenUp(over) == ~balive /\ (bst = 0 \/ ~sess[bi].fresh \/ (over /\ sess[bi].life))

EndSession ==
  /\ bpc = "end"
  /\ \E over \in BOOLEAN :
        sess' = IF GivenUp(over) THEN [sess EXCEPT ![bi].status = -1] ELSE sess
  /\ bi' = bi + 1 /\ bpc' = "pick" /\ bst' = 0 /\ balive' = FALSE
  /\ UNCHANGED <<idx, blist, node, regs, call, wild, exited, bq, bold>>

\* A node the broadcaster is at was freed by the other thread.
WalkFreed ==
  /\ \/ bpc = "walk" /\ ~Listed(bq)
     \/ bpc = "delete" /\ ~Listed(bold)
  /\ Crash("walked")
  /\ UNCHANGED bcVars

Broadcast ==
  wild = "no" /\ (Skip \/ Pick \/ Tell \/ FindDead \/ DeleteDead \/ EndSession \/ WalkFreed)

-----------------------------------------------------------------------------
\* Nothing was heard of a client, or of a session's master, for too long.
Age == /\ wild = "no"
       /\ \/ \E n \in NodeIds : /\ Listed(n) /\ node[n].fresh
                                /\ node' = [node EXCEPT ![n].fresh = FALSE]
                                /\ UNCHANGED sess
          \/ \E i \in Sessions : /\ sess[i].status = 1 /\ sess[i].fresh
                                 /\ sess' = [sess EXCEPT ![i].fresh = FALSE]
                                 /\ UNCHANGED node
       /\ UNCHANGED <<idx, blist, regs, call, wild, exited, bcVars>>

Init == /\ CmdInit
        /\ bpc = "pick" /\ bi = 0 /\ bst = 0
        /\ bq = NoNode /\ bold = NoNode /\ balive = FALSE

Next == \/ ProcessCmd /\ UNCHANGED bcVars
        \/ Finish /\ UNCHANGED bcVars
        \/ TouchFreed /\ UNCHANGED bcVars
        \/ Broadcast
        \/ Age

\* Both threads run; nobody owes a command, nor a long silence.
Spec == /\ Init /\ [][Next]_vars
        /\ WF_vars(Broadcast) /\ WF_vars(Finish /\ UNCHANGED bcVars)

-----------------------------------------------------------------------------
Nodes == [addr : Clients, fresh : BOOLEAN,
          live : [Sessions -> 0 .. MaxTimes], dead : [Sessions -> 0 .. MaxTimes]]

\* The variables have their types, the list holds nodes that were allocated,
\* each once, and no client is told more often than MAX_BROADCAST_TIMES
\* (udpbase.c:914-916), of a death no more often than of the life.
TypeOK ==
  /\ sess \in [Sessions -> [status : {-1, 0, 1}, fresh : BOOLEAN, life : BOOLEAN]]
  /\ idx \in 0 .. MaxSessions /\ regs \in 0 .. MaxNodes
  /\ Range(blist) \subseteq 1 .. regs /\ IsInjective(blist)
  /\ node \in [NodeIds -> Nodes]
  /\ \A n \in NodeIds, i \in Sessions : node[n].dead[i] <= node[n].live[i]
  /\ wild \in {"no", "empty", "touched", "walked"} /\ exited \subseteq Clients

\* The broadcaster meets a freed node only when a kExit has deleted one of the
\* same client.  Its own deletions, by address and of the first node of the
\* address (udpbase.c:918-935), never free the node it goes on with, however
\* often a client registered.
WalkerSafe ==
  wild = "walked" => \E n \in {bq, bold} \ {NoNode} : ~Listed(n) /\ node[n].addr \in exited

\* the registrations of the node's client before it
Earlier(n) == {m \in 1 .. n - 1 : node[m].addr = node[n].addr}

\* When the broadcaster gives up a session that it has seen closed, every
\* client on the list that it told of the session's life has been told of its
\* death (udpbase.c:975-978), at its first two registrations: of three nodes of
\* one client a silent one can have another deleted in its place (931), and is
\* passed over.
ClosedIsTold ==
  [][\A i \in Sessions :
       bst = 0 /\ sess[i].status = 0 /\ sess'[i].status = -1 =>
         \A n \in Range(blist) :
           Cardinality(Earlier(n)) <= 1 /\ node[n].live[i] > 0 =>
             node[n].dead[i] > 0]_vars

\* A client on the list is told that a session is alive, as long as the session
\* is open, the client stays on the list and the program runs.
LiveIsTold ==
  \A n \in NodeIds, i \in Sessions :
    (Listed(n) /\ i < idx /\ sess[i].status = 1)
      ~> (wild # "no" \/ ~Listed(n) \/ sess[i].status # 1 \/ node[n].live[i] > 0)
=============================================================================
