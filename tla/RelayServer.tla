----------------------------- MODULE RelayServer -----------------------------
(***************************************************************************)
(* The threads of the relay server (server_main, source/udpbase.c): the    *)
(* receiver, which is server_main itself, puts every datagram on a list;   *)
(* the sender takes the whole list and handles it; the broadcaster goes    *)
(* its rounds.  They start, stop and wait for each other by three status   *)
(* words under status_lock.  The datagrams handled here are those of       *)
(* RelayStream; the other commands are in RelayCmds and RelayChans, and a  *)
(* round of the broadcaster in Relay.                                      *)
(***************************************************************************)
EXTENDS RelayStream, SequencesExt

CONSTANTS MaxDelay,   \* MAX_DELAY_PKT_NUM
          MaxRecv,    \* bound: datagrams that arrive
          Arrivals    \* bound: what they are

ASSUME ServerAssumption == /\ MaxDelay \in Nat /\ MaxRecv \in Nat
                           /\ Arrivals \subseteq Datagrams

VARIABLES rpc, spc, bpc,      \* where receiver, sender and broadcaster are
          recvStatus, sendStatus, bcStatus,
          dataList,           \* obj->data_list: the datagrams, by number
          batch,              \* the list the sender has taken
          recvd,              \* the datagrams received: 1 .. Len(recvd)
          handled, dropped,   \* history: what became of them
          overtook            \* history: StopSend came before the sender ran

recvVars == <<rpc, recvStatus, recvd, dropped, overtook>>
sendVars == <<spc, batch, handled>>
vars == <<recvVars, sendVars, bpc, sendStatus, bcStatus, dataList, streamVars>>

-----------------------------------------------------------------------------
\* Mutant of Full: the list takes one datagram more.
FullLate == Len(dataList) > MaxDelay + 1

\* PushData frees the datagram instead of adding it (CLIENT_MODE is defined)
Full == Len(dataList) > MaxDelay

\* Mutants of PopDataAll: the receiver goes on adding to the list taken; what
\* arrived last is left out.
PopDataAllKept == batch' = dataList /\ UNCHANGED dataList
PopDataAllButLast ==
  batch' = SubSeq(dataList, 1, Len(dataList) - 1) /\ dataList' = <<>>

\* the whole list changes hands, and data_list is NULL
PopDataAll == batch' = dataList /\ dataList' = <<>>

-----------------------------------------------------------------------------
(* The receiver. *)

RecvStep(from, to) == rpc = from /\ rpc' = to

\* server_main creates the two threads, and server_recv_run begins.
CreateSend == /\ RecvStep("create send", "create broadcast")
              /\ spc' = "created"
              /\ UNCHANGED <<recvStatus, recvd, dropped, overtook, batch,
                             handled, bpc, sendStatus, bcStatus, dataList>>

CreateBroadcast == /\ RecvStep("create broadcast", "receive")
                   /\ bpc' = "created"
                   /\ UNCHANGED <<recvStatus, recvd, dropped, overtook,
                                  sendVars, sendStatus, bcStatus, dataList>>

Receiving == rpc = "receive" /\ recvStatus > 0

\* recvfrom returns a datagram: PushData.
Arrive ==
  /\ Receiving /\ Len(recvd) < MaxRecv
  /\ \E d \in Arrivals : recvd' = Append(recvd, d)
  /\ IF Full THEN dropped' = dropped \cup {Len(recvd')} /\ UNCHANGED dataList
             ELSE dataList' = Append(dataList, Len(recvd')) /\ UNCHANGED dropped
  /\ UNCHANGED <<rpc, recvStatus, overtook, sendVars, bpc, sendStatus, bcStatus>>

\* An empty datagram ends the loop, when errno is not the EAGAIN of an earlier
\* timeout; otherwise, and when recvfrom fails, the loop goes on as it was.
RecvEmpty ==
  /\ Receiving /\ RecvStep("receive", "exit recv")
  /\ UNCHANGED <<recvStatus, recvd, dropped, overtook, sendVars, bpc,
                 sendStatus, bcStatus, dataList>>

ExitRecv ==
  /\ RecvStep("exit recv", "stop send") /\ recvStatus' = -1
  /\ UNCHANGED <<recvd, dropped, overtook, sendVars, bpc, sendStatus,
                 bcStatus, dataList>>

\* StopSend, StopBroadCast: a status that is not positive stays what it is.
Stopped(word) == IF word > 0 THEN 0 ELSE word

StopSend ==
  /\ RecvStep("stop send", "stop broadcast")
  /\ sendStatus' = Stopped(sendStatus)
  /\ overtook' = (sendStatus = 0)
  /\ UNCHANGED <<recvStatus, recvd, dropped, sendVars, bpc, bcStatus, dataList>>

StopBroadCast ==
  /\ RecvStep("stop broadcast", "wait send")
  /\ bcStatus' = Stopped(bcStatus)
  /\ UNCHANGED <<recvStatus, recvd, dropped, overtook, sendVars, bpc,
                 sendStatus, dataList>>

\* WaitSend and WaitBroadCast look every 100 ms; the joins, Pfree of the nodes
\* and the end of the locks come at once after them.
WaitSend == /\ sendStatus < 0
            /\ RecvStep("wait send", "wait broadcast")
            /\ UNCHANGED <<recvStatus, recvd, dropped, overtook, sendVars, bpc,
                           sendStatus, bcStatus, dataList>>

WaitBroadCast == /\ bcStatus < 0
                 /\ RecvStep("wait broadcast", "returned")
                 /\ UNCHANGED <<recvStatus, recvd, dropped, overtook, sendVars,
                                bpc, sendStatus, bcStatus, dataList>>

Stopping == ExitRecv \/ StopSend \/ StopBroadCast \/ WaitSend \/ WaitBroadCast

Receiver == CreateSend \/ CreateBroadcast \/ Arrive \/ RecvEmpty \/ Stopping

-----------------------------------------------------------------------------
(* The sender: server_send_run and process_recv_data. *)

SendStep(from, to) == spc = from /\ spc' = to

StartSending == /\ SendStep("created", "pop") /\ sendStatus' = 1
                /\ UNCHANGED <<recvVars, batch, handled, bpc, bcStatus, dataList>>

\* Nothing there: the sender sleeps for 2 ms.
Pop == /\ SendStep("pop", IF dataList = <<>> THEN "test" ELSE "handle")
       /\ PopDataAll
       /\ UNCHANGED <<recvVars, handled, bpc, sendStatus, bcStatus>>

\* the next datagram: RelayData or ProcessCmd
Handle == /\ spc = "handle"
          /\ IF batch = <<>>
               THEN spc' = "test" /\ UNCHANGED <<batch, handled, streamVars>>
               ELSE /\ HandleDatagram(Head(batch), recvd[Head(batch)])
                    /\ handled' = Append(handled, Head(batch))
                    /\ batch' = Tail(batch) /\ UNCHANGED spc
          /\ UNCHANGED <<recvVars, bpc, sendStatus, bcStatus, dataList>>

TestSend == /\ SendStep("test", IF sendStatus > 0 THEN "pop" ELSE "exit")
            /\ UNCHANGED <<recvVars, batch, handled, bpc, sendStatus, bcStatus, dataList>>

ExitSend == /\ SendStep("exit", "over") /\ sendStatus' = -1
            /\ UNCHANGED <<recvVars, batch, handled, bpc, bcStatus, dataList>>

Sender == \/ Handle
          \/ (StartSending \/ Pop \/ TestSend \/ ExitSend) /\ UNCHANGED streamVars

-----------------------------------------------------------------------------
(* The broadcaster: server_broadcast_run. *)

BcStep(from, to) == bpc = from /\ bpc' = to

\* It sets its status itself, and goes a first round in any case.
StartBroadcasting ==
  /\ BcStep("created", "round") /\ bcStatus' = 1
  /\ UNCHANGED <<recvVars, sendVars, sendStatus, dataList>>

\* Mutant of GoesOn: the receiver's status is not looked at.
GoesOnAlone == bcStatus > 0

GoesOn == bcStatus > 0 /\ recvStatus > 0

\* A round: the session may be found to be over.
TestBroadcast == /\ BcStep("round", IF GoesOn THEN "round" ELSE "exit")
                 /\ GiveUp \/ UNCHANGED streamVars
                 /\ UNCHANGED <<recvVars, sendVars, sendStatus, bcStatus, dataList>>

ExitBroadCast == /\ BcStep("exit", "over") /\ bcStatus' = -1
                 /\ UNCHANGED <<recvVars, sendVars, sendStatus, dataList>>

Broadcaster == \/ TestBroadcast
               \/ (StartBroadcasting \/ ExitBroadCast) /\ UNCHANGED streamVars

-----------------------------------------------------------------------------
\* The object is calloc'ed; server_main sets recv_status before all else.
Init == /\ rpc = "create send" /\ spc = "none" /\ bpc = "none"
        /\ recvStatus = 1 /\ sendStatus = 0 /\ bcStatus = 0
        /\ overtook = FALSE
        /\ dataList = <<>> /\ batch = <<>>
        /\ recvd = <<>> /\ handled = <<>> /\ dropped = {}
        /\ StreamInit

Creating == CreateSend \/ CreateBroadcast

\* the receiver's steps that nobody has to send anything for
Owed == Creating \/ Stopping

Next == /\ ~wild
        /\ (Receiver /\ UNCHANGED streamVars) \/ Sender \/ Broadcaster

\* Each thread runs; nobody owes a datagram.
Spec == /\ Init /\ [][Next]_vars
        /\ WF_vars(~wild /\ Owed /\ UNCHANGED streamVars)
        /\ WF_vars(~wild /\ Sender) /\ WF_vars(~wild /\ Broadcaster)

-----------------------------------------------------------------------------
\* The variables have their types; one datagram more than MAX_DELAY_PKT_NUM
\* waits, and no more (udpbase.c:589).
TypeOK ==
  /\ {recvStatus, sendStatus, bcStatus} \subseteq {-1, 0, 1}
  /\ overtook \in BOOLEAN
  /\ recvd \in Seq(Arrivals) /\ dropped \subseteq DOMAIN recvd
  /\ {handled, batch, dataList} \subseteq Seq(DOMAIN recvd)
  /\ Len(dataList) <= MaxDelay + 1

\* Every datagram that was received is in one place: handled, in the sender's
\* hands, waiting or dropped; and each thread's part is in the order of
\* arrival, also where the list is handed over (udpbase.c:665, 683).
OnePlaceInOrder ==
  LET kept == handled \o batch \o dataList
  IN  /\ \A m, n \in DOMAIN kept : m < n => kept[m] < kept[n]
      /\ ToSet(kept) \cup dropped = DOMAIN recvd
      /\ ToSet(kept) \cap dropped = {}

\* the numbers of the data datagrams of channel k that were handled after n
DataAfter(n, k) == {m \in ToSet(handled) : /\ m > n /\ recvd[m].type = "data"
                                           /\ SelfMode \/ recvd[m].chan = k}

\* A decoder gets the data of its channel in the order in which it reached the
\* server, each datagram once, as long as the session is open and no send has
\* failed.  A send that fails is felt by all who registered later, never by
\* those before: what a decoder gets, the earlier ones of its channel get.
DecodersGetStream ==
  \A m \in DOMAIN decoders :
    LET node == decoders[m]
    IN  /\ ~sendFailed /\ status = 1 =>
             ToSet(node.got) = DataAfter(node.since, node.chan)
        /\ \A i, j \in DOMAIN node.got : i < j => node.got[i] < node.got[j]
        /\ \A l \in 1 .. m - 1 : decoders[l].chan = node.chan =>
             ToSet(node.got) \subseteq ToSet(decoders[l].got)

\* Every datagram received is handled in the end, or was dropped because too
\* many waited, or the server is about to stop.
AllHandled ==
  <>[](ToSet(handled) \cup dropped = DOMAIN recvd \/ ~Receiving \/ wild)

\* A stop that overtook the sender is lost: the receiver waits for ever.
NoLateReturn == overtook => rpc # "returned"

\* server_main returns after the loop has ended, unless StopSend came before
\* the sender had set its status itself (udpbase.c:380, 1865): then the stop is
\* lost, the sender runs on, and WaitSend waits for ever.  A broadcaster that
\* starts late is stopped all the same.
StopReturns == /\ (rpc = "exit recv") ~> (rpc = "returned" \/ overtook \/ wild)
               /\ []NoLateReturn

=============================================================================
