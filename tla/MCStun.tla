------------------------------- MODULE MCStun --------------------------------
(***************************************************************************)
(* Two casts: users who type commands, and a host, join one session; or a  *)
(* host and a guest of api_socket_test go through their rounds, with       *)
(* heartbeats and pings.                                                   *)
(***************************************************************************)
EXTENDS MCStunNet

CONSTANTS user1, user2, host, guest

VARIABLE cast

mcVars == <<vars, cast>>

Rounds2 == INSTANCE StunNet WITH
  Clients <- {host, guest}, Rounds <- 2, MaxBeats <- 1, MaxPings <- 1,
  Program <- [c \in {host, guest} |-> "test"],
  Preset <- [c \in {host, guest} |-> IF c = guest THEN GuestId ELSE 0]

MCInit == \/ cast = "typing" /\ Init
          \/ cast = "rounds" /\ Rounds2!Init

MCNext == /\ \/ cast = "typing" /\ Next
             \/ cast = "rounds" /\ Rounds2!Next
          /\ UNCHANGED cast

MCSpec == /\ MCInit /\ [][MCNext]_mcVars
          /\ WF_mcVars(cast = "rounds" /\ Rounds2!Progress /\ UNCHANGED cast)

-----------------------------------------------------------------------------
\* TypeOK of StunNet, in either cast.
TypesOK == IF cast = "typing" THEN TypeOK ELSE Rounds2!TypeOK

\* OwnSession, among clients that register, join and exit in any order.
TypingOwnSession == cast = "typing" => OwnSession

\* MutualKnowledge, among the same.
TypingMutualKnowledge == cast = "typing" => MutualKnowledge

\* RightList, among the same.
TypingRightList == cast = "typing" => RightList

\* AckFindsList, of clients that ping each other.
RoundsAckFindsList == cast = "rounds" => Rounds2!AckFindsList

\* Registers, of a client that asks in every round.
RoundsRegister == cast = "rounds" => Rounds2!Registers
=============================================================================
