--------------------------- MODULE MCServerPipe ---------------------------
(***************************************************************************)
(* Small instances of ServerPipe for TLC.                                   *)
(***************************************************************************)
EXTENDS ServerPipe, TLC

Symmetry == Permutations(Clients)
=============================================================================
