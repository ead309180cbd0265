----------------------------- MODULE RemoteCalls -----------------------------
(***************************************************************************)
(* What the API of src/client/api.c promises the program that calls it,     *)
(* with no pipe, token or worker in sight: calls are made one at a time,    *)
(* the server runs the operation of each at most once and in the order of   *)
(* the calls, and a call returns after its operation has run, with the      *)
(* outcome of that very run.  A call may also fail, before or after its     *)
(* operation is handed over; then no call is made any more, and the one     *)
(* under way may still be run, but never returns an outcome.  At last the   *)
(* session is closed.  ClientProgram, with the pipes, the worker and a      *)
(* client that may die, is shown to implement this specification.           *)
(***************************************************************************)
EXTENDS Naturals, Sequences

CONSTANTS
  Operations,  \* the operations a program can call
  Outcomes     \* the outcomes of each operation

VARIABLES
  calls,     \* the operations handed over so far
  executed,  \* the operations run so far, each with the number of its call
  outcome,   \* what the run of the last call has brought about, <<>> before it
  result,    \* what the last call has returned, <<>> before it has
  lost,      \* a call has failed
  closed     \* the session is closed

callVars == <<calls, executed, outcome, result, lost, closed>>

Init ==
  /\ calls = <<>>
  /\ executed = <<>>
  /\ outcome = <<>>
  /\ result = <<>>
  /\ lost = FALSE
  /\ closed = FALSE

\* No call is under way.
Idle == calls # <<>> => result # <<>>

\* The caller waits for the result of one call before it makes the next.
Call(op) ==
  /\ Idle /\ ~lost /\ ~closed
  /\ calls' = Append(calls, op)
  /\ outcome' = <<>>
  /\ result' = <<>>
  /\ UNCHANGED <<executed, lost, closed>>

\* The operation of the last call runs, if it has not run.
Run ==
  /\ Len(executed) + 1 = Len(calls)
  /\ outcome' \in Outcomes[calls[Len(calls)]]
  /\ executed' = Append(executed, [op |-> calls[Len(calls)], number |-> Len(calls)])
  /\ UNCHANGED <<calls, result, lost, closed>>

\* The last call returns what its run has brought about.
Return ==
  /\ calls # <<>>
  /\ Len(executed) = Len(calls)
  /\ result = <<>> /\ ~lost /\ ~closed
  /\ result' = outcome
  /\ UNCHANGED <<calls, executed, outcome, lost, closed>>

\* The call under way, or one not yet handed over, fails.
Fail ==
  /\ ~lost /\ ~closed
  /\ lost' = TRUE
  /\ UNCHANGED <<calls, executed, outcome, result, closed>>

\* Nothing but a failed call may still be under way.
Close ==
  /\ Idle \/ lost
  /\ ~closed
  /\ closed' = TRUE
  /\ UNCHANGED <<calls, executed, outcome, result, lost>>

Next == (\E op \in Operations : Call(op)) \/ Run \/ Return \/ Fail \/ Close

Spec == Init /\ [][Next]_callVars
=============================================================================
