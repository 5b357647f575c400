----------------------------- MODULE RelayStream -----------------------------
(***************************************************************************)
(* What the relay server is for: the decoders of a session register        *)
(* (kReg in ProcessCmd, source/udpbase.c), and RelayData sends every data  *)
(* datagram of the session to the decoders of its channel.  One session,   *)
(* open from the start; n is the number of the datagram that is handled.   *)
(***************************************************************************)
EXTENDS Integers, Sequences, FiniteSets

CONSTANTS Clients, Chans,
          SelfMode    \* ssinfo->selfmode: a decoder gets all channels

ASSUME StreamAssumption == SelfMode \in BOOLEAN

VARIABLES status,      \* ssinfo->status: 1, 0 when closed, -1 when given up
          decoders,    \* ssinfo->decodecHead: its nodes
          freed,       \* decodecHead is NULL again
          sendFailed,  \* history: a sendto has failed
          wild         \* the NULL of decodecHead was used

streamVars == <<status, decoders, freed, sendFailed, wild>>

\* what clients send: a decoder's registration, data, and the session's end
Datagrams == [type : {"reg"}, from : Clients, chan : Chans]
               \cup [type : {"data"}, chan : Chans] \cup {[type |-> "close"]}

-----------------------------------------------------------------------------
\* kReg with actor DECACTOR: a node for the decoder, whether it has one or not.
RegDecoder(n, d) ==
  /\ d.type = "reg" /\ status # 0 /\ ~freed
  /\ decoders' = Append(decoders, [addr |-> d.from, chan |-> d.chan,
                                   since |-> n, got |-> <<>>])
  /\ UNCHANGED <<status, freed, sendFailed, wild>>

\* A session that was closed and then given up has no list.
RegNull(d) ==
  /\ d.type = "reg" /\ status # 0 /\ freed
  /\ wild' = TRUE
  /\ UNCHANGED <<status, decoders, freed, sendFailed>>

\* RelayData goes through the list and sends to whom the data is for.
IsFor(node, k) == SelfMode \/ node.chan = k

\* how many nodes up to the m-th the data is for
Turn(m, k) == Cardinality({l \in 1 .. m : IsFor(decoders[l], k)})

\* Mutant of Reached: a send that fails costs its own decoder alone.
ReachedOthers(m, k, sends) == IsFor(decoders[m], k) /\ Turn(m, k) # sends + 1

\* sendto's result is the length of the next sendto: after one send that
\* fails, all the rest fail, too
Reached(m, k, sends) == IsFor(decoders[m], k) /\ Turn(m, k) <= sends

RelayData(n, d) ==
  /\ d.type = "data" /\ status > 0
  /\ LET all == Turn(Len(decoders), d.chan)
     IN  \E sends \in 0 .. all :
           /\ sendFailed' = (sendFailed \/ sends < all)
           /\ decoders' = [m \in DOMAIN decoders |->
                IF Reached(m, d.chan, sends)
                  THEN [decoders[m] EXCEPT !.got = Append(@, n)] ELSE decoders[m]]
  /\ UNCHANGED <<status, freed, wild>>

\* kSessionClose: the list goes, then the whole SessionInfo is cleared.
SessionClose(d) ==
  /\ d.type = "close"
  /\ status' = 0 /\ decoders' = <<>> /\ freed' = TRUE
  /\ UNCHANGED <<sendFailed, wild>>

\* Data for a session that is not open, a registration for one just closed.
NotOpen(d) ==
  /\ \/ d.type = "data" /\ status <= 0
     \/ d.type = "reg" /\ status = 0
  /\ UNCHANGED streamVars

\* process_recv_data, one datagram
HandleDatagram(n, d) ==
  RegDecoder(n, d) \/ RegNull(d) \/ RelayData(n, d) \/ SessionClose(d) \/ NotOpen(d)

\* The broadcaster gives the session up, closed or silent; the list is kept.
GiveUp == /\ status' = -1
          /\ UNCHANGED <<decoders, freed, sendFailed, wild>>

StreamInit == /\ status = 1 /\ decoders = <<>> /\ freed = FALSE
              /\ sendFailed = FALSE /\ wild = FALSE
=============================================================================
