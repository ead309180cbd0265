---------------------------- MODULE MCEventStore ----------------------------
(***************************************************************************)
(* Small instances of EventStore for TLC.                                   *)
(***************************************************************************)
EXTENDS EventStore, TLC

\* One seat; a list that overlaps it and names a seat twice; a seat out of
\* every bound next to one in bounds.
MCSeatLists ==
  {<< <<1, 1>> >>, << <<2, 1>>, <<1, 1>>, <<2, 1>> >>, << <<1, 1>>, <<1, 3>> >>}

MCOneSeat == {<< <<1, 1>> >>}

WorkerSymmetry == Permutations(Workers)
=============================================================================
