------------------------------ MODULE MCStunNet -----------------------------
(***************************************************************************)
(* Clients of three kinds: a user types commands (api_socket_test2), a     *)
(* host calls api_socket_test to open a session, a guest to enter GuestId. *)
(***************************************************************************)
EXTENDS StunNet

CONSTANTS Typing, Hosts, Guests, GuestId

ASSUME MCAssumption == Clients = Typing \cup Hosts \cup Guests

MCClients == Typing \cup Hosts \cup Guests
MCProgram == [c \in MCClients |-> IF c \in Typing THEN "test2" ELSE "test"]
MCPreset  == [c \in MCClients |-> IF c \in Guests THEN GuestId ELSE 0]
=============================================================================
