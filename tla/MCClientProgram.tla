-------------------------- MODULE MCClientProgram --------------------------
(***************************************************************************)
(* Small instances of ClientProgram for TLC.                                *)
(***************************************************************************)
EXTENDS ClientProgram

CreateLine == [text |-> "CREATE 12 3 0", proper |-> TRUE,
               call |-> [op |-> "create", id |-> 12, rows |-> 3, cols |-> 0]]

ReserveLine == [text |-> "RESERVE 7 [(1,2) (30,4)]", proper |-> TRUE,
                call |-> [op |-> "reserve", id |-> 7, seats |-> << <<1, 2>>, <<30, 4>> >>]]

ShowLine == [text |-> "SHOW 99", proper |-> TRUE, call |-> [op |-> "show", id |-> 99]]

ListLine == [text |-> "LIST", proper |-> TRUE, call |-> [op |-> "list"]]

CallLines == {CreateLine, ReserveLine, ShowLine, ListLine}

\* A number without digits is taken for 0.
EmptyNumber == [text |-> "SHOW ", proper |-> TRUE, call |-> [op |-> "show", id |-> 0]]

IdleLines ==
  {[text |-> t, proper |-> TRUE, call |-> NoCall] :
     t \in {"", "# LIST", "HELP", "WAIT 0", "WAIT 2 LIST"}}

\* Cut off in the keyword, in a number and in a list; too many arguments, seats
\* and characters; numbers above UINT_MAX in the middle and at the end.
MalformedLines ==
  {[text |-> t, proper |-> FALSE, call |-> NoCall] :
     t \in {"C", "SHOW", "LISTS", "show 1", "CREATE 1 1", "CREATE 1 1 1 1", "CREATE 100 1 1",
            "SHOW 100", "WAIT x", "RESERVE 1", "RESERVE 1 []", "RESERVE 1 [(1,1)",
            "RESERVE 1 [(1;1)]", "RESERVE 1 [(1,1)] ", "RESERVE 1 [(1,1) (1,2) (1,3)]"}}

Lines == CallLines \cup {EmptyNumber} \cup IdleLines \cup MalformedLines

\* All files of two lines, all sequences of three calls, some of four, in which
\* the client can run out of descriptors, and a keyword cut off before two more
\* lines.
MCScripts ==
  {<<l>> : l \in Lines} \cup (Lines \X Lines) \cup (CallLines \X CallLines \X CallLines)
    \cup {<<l, l, l, l>> : l \in CallLines}
    \cup {<<l, k, ListLine>> : l \in {m \in MalformedLines : m.text = "C"}, k \in IdleLines}
=============================================================================
