---------------------------- MODULE MCRelayServer ----------------------------
(***************************************************************************)
(* The relay server with one session: a decoder that registers, for the    *)
(* channel of the data or another one, data, and the session's end.        *)
(***************************************************************************)
EXTENDS RelayServer

CONSTANTS a

MCClients == {a}
MCChans == {1, 2}
MCArrivals == {d \in Datagrams : d.type = "data" => d.chan = 1}
=============================================================================
