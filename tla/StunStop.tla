------------------------------ MODULE StunStop ------------------------------
(***************************************************************************)
(* How the STUN server and its client are started and stopped              *)
(* (api_socket_start, api_socket_stop and the loops of the threads,        *)
(* source/base_stun.c).  api_socket_stop clears status, frees the lists,   *)
(* which are the threads' too, and joins the threads one by one.  What the *)
(* threads do with the lists is in StunServer and StunClient; here they    *)
(* only use them, any number of times per datagram or pass.                *)
(***************************************************************************)
EXTENDS Sequences, SequencesExt

VARIABLES role,      \* obj->type: "server" or "client"
          status,    \* obj->status
          lists,     \* what obj->pClientInfo points at: "kept" or "freed"
          todo,      \* what the owner still has to do, in order
          pc,        \* where each thread is, "none" before it is created
          misuse,    \* the thread that used the lists after they were freed
          busy,      \* history: the threads within a turn when status was cleared
          overtook   \* history: a stop came before the thread set status

vars == <<role, status, lists, todo, pc, misuse, busy, overtook>>

Pings   == {"ping0", "ping1"}
Threads == {"recv", "hb"} \cup Pings

-----------------------------------------------------------------------------
\* server_init and client_init create these.
Started == IF role = "server" THEN <<"recv">> ELSE <<"recv", "hb">>

Joins(threads) == [n \in DOMAIN threads |-> <<"join", threads[n]>>]

\* Mutants of StopOrder: the lists are freed first; the pinging threads are
\* joined first.
StopOrderFree ==
  <<<<"free">>, <<"clear">>>> \o Joins(<<"recv", "hb", "ping0", "ping1">>)

StopOrderPings ==
  <<<<"clear">>, <<"free">>>> \o Joins(<<"ping0", "ping1", "recv", "hb">>)

\* api_socket_stop and socket_close
StopOrder ==
  <<<<"clear">>, <<"free">>>> \o Joins(<<"recv", "hb", "ping0", "ping1">>)

\* api_socket_stop has begun
Stopping == Len(todo) < Len(StopOrder)

\* The owner takes its next step.
Owner(step) == todo # <<>> /\ Head(todo) = step /\ todo' = Tail(todo)

Create == \E t \in Threads :
  /\ Owner(<<"create", t>>)
  /\ pc' = [pc EXCEPT ![t] = "created"]
  /\ UNCHANGED <<role, status, lists, misuse, busy, overtook>>

\* api_socket_stop is called.
Clear ==
  /\ Owner(<<"clear">>)
  /\ status' = 0
  /\ busy' = {t \in Threads : pc[t] \in {"wait", "turn"} \cup Pings}
  /\ UNCHANGED <<role, lists, pc, misuse, overtook>>

\* stun_free_node of every list, free(pClientInfo)
Free == /\ Owner(<<"free">>)
        /\ lists' = "freed"
        /\ UNCHANGED <<role, status, pc, misuse, busy, overtook>>

\* pthread_join, if the thread was ever created
Join == \E t \in Threads :
  /\ pc[t] \in {"none", "over"}
  /\ Owner(<<"join", t>>)
  /\ UNCHANGED <<role, status, lists, pc, misuse, busy, overtook>>

-----------------------------------------------------------------------------
(* The threads. *)

Step(t, from, to) == /\ pc[t] = from
                     /\ pc' = [pc EXCEPT ![t] = to]

\* Mutant of SetsStatus: every receiving thread does.
SetsStatusAny(t) == t = "recv"

\* server_recv_run sets status itself; client_init has set it
SetsStatus(t) == t = "recv" /\ role = "server"

Begin(t) ==
  /\ Step(t, "created", "test")
  /\ status' = IF SetsStatus(t) THEN 1 ELSE status
  /\ overtook' = (overtook \/ (role = "server" /\ Stopping))
  /\ UNCHANGED <<role, lists, todo, misuse, busy>>

\* while(obj->status): on to recvfrom, to a pass over the list, or to a sleep
Test(t) ==
  /\ Step(t, "test", CASE status = 0 -> "over"
                       [] status # 0 /\ t = "recv" -> "wait"
                       [] status # 0 /\ t \in Pings -> "turn"
                       [] OTHER -> "test")
  /\ UNCHANGED <<role, status, lists, todo, misuse, busy, overtook>>

\* recvfrom returns a datagram; or nothing in 500 ms; or an empty datagram.
Recvfrom ==
  /\ \E to \in {"turn", "test", "over"} : Step("recv", "wait", to)
  /\ UNCHANGED <<role, status, lists, todo, misuse, busy, overtook>>

\* The thread uses the lists, once or more often.
Use(t) ==
  /\ pc[t] = "turn" /\ lists = "freed"
  /\ misuse' = t
  /\ UNCHANGED <<role, status, lists, todo, pc, busy, overtook>>

\* client_recv_run has found that it is to start a pinging thread, and does.
FindPeers(k) ==
  /\ role = "client" /\ lists = "kept" /\ pc[k] = "none"
  /\ Step("recv", "turn", k)
  /\ UNCHANGED <<role, status, lists, todo, misuse, busy, overtook>>

StartPing(k) ==
  /\ pc["recv"] = k
  /\ pc' = [pc EXCEPT !["recv"] = "test", ![k] = "created"]
  /\ UNCHANGED <<role, status, lists, todo, misuse, busy, overtook>>

\* The datagram or the pass over the list is done.
EndTurn(t) == /\ Step(t, "turn", "test")
              /\ UNCHANGED <<role, status, lists, todo, misuse, busy, overtook>>

Thread(t) ==
  \/ Begin(t) \/ Test(t) \/ Use(t) \/ EndTurn(t)
  \/ t = "recv" /\ (Recvfrom \/ \E k \in Pings : FindPeers(k) \/ StartPing(k))

-----------------------------------------------------------------------------
\* client_init sets status before it creates the threads.
Init == /\ role \in {"server", "client"}
        /\ status = (IF role = "server" THEN 0 ELSE 1)
        /\ lists = "kept"
        /\ todo = [n \in DOMAIN Started |-> <<"create", Started[n]>>] \o StopOrder
        /\ pc = [t \in Threads |-> "none"]
        /\ misuse = "nobody" /\ busy = {} /\ overtook = FALSE

\* what the owner does without being asked to
Owed == Create \/ Free \/ Join

\* After a use of freed memory nothing is known.
Next == /\ misuse = "nobody"
        /\ Create \/ Clear \/ Free \/ Join \/ \E t \in Threads : Thread(t)

\* Each thread runs; nobody has to call api_socket_stop.
Spec == /\ Init /\ [][Next]_vars
        /\ WF_vars(misuse = "nobody" /\ Owed)
        /\ \A t \in Threads : WF_vars(misuse = "nobody" /\ Thread(t))

-----------------------------------------------------------------------------
\* api_socket_stop of a client returns.  That of a server does, unless the
\* thread came to run only after the stop and has set status again
\* (base_stun.c:402): it goes on, and pthread_join waits for it.  (Or a thread
\* uses the freed lists, and all is open.)
StopReturns ==
  Stopping ~> (todo = <<>> \/ misuse # "nobody" \/ (role = "server" /\ overtook))

\* When api_socket_stop has returned no thread is left, not even a pinging
\* thread that client_recv_run started after status was cleared: the receiver,
\* which starts them, is joined before the ids of the others are read
\* (base_stun.c:222-268, 841).
NoThreadSurvives == todo = <<>> => \A t \in Threads : pc[t] \in {"none", "over"}

\* The lists are used after they were freed only by a thread that was within a
\* datagram or a pass over its list when status was cleared (base_stun.c:1050),
\* never by a thread that starts late; and by a server's thread that overtook.
FreedUsedInTurnOnly == misuse # "nobody" => misuse \in busy \/ overtook
=============================================================================
