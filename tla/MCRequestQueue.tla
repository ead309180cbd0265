--------------------------- MODULE MCRequestQueue ---------------------------
(***************************************************************************)
(* Small instances of RequestQueue for TLC.                                 *)
(***************************************************************************)
EXTENDS RequestQueue, TLC

Symmetry == Permutations(Workers) \cup Permutations(Clients)
=============================================================================
