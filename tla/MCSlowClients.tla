--------------------------- MODULE MCSlowClients ---------------------------
(***************************************************************************)
(* Small instances of SlowClients for TLC.                                  *)
(***************************************************************************)
EXTENDS SlowClients

MCOneSeat == {<< <<1, 1>> >>}

\* Two events of one seat.
MCCreated == [a \in 1..2 |-> [op |-> "create", id |-> a, rows |-> 1, cols |-> 1]]
=============================================================================
