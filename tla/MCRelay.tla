------------------------------ MODULE MCRelay -------------------------------
(***************************************************************************)
(* The relay server with one session, registered for by two clients, or    *)
(* twice by one of them.                                                   *)
(***************************************************************************)
EXTENDS Relay

CONSTANTS a, b

MCClients == {a, b}
=============================================================================
