------------------------------- MODULE Booking -------------------------------
(***************************************************************************)
(* What the event store promises its clients, with no thread, lock, pointer *)
(* or seat index in sight: a list of events, each a map from seat           *)
(* coordinates to reservation numbers, on which every request takes effect  *)
(* in one step.  EventStore (operations.c and eventlist.c) is shown to      *)
(* implement this specification.                                            *)
(***************************************************************************)
EXTENDS Integers, Sequences

CONSTANTS
  Workers,     \* the server's worker threads, one request each at a time
  EventIds,    \* the event ids clients use
  Dims,        \* the row and column counts clients ask for
  SeatLists    \* the seat lists of RESERVE, sequences of <<row, column>>

VARIABLES
  db,          \* the events in creation order
  request,     \* the request each worker is executing, or NoRequest
  reply        \* the integers of the last reply of each worker

bookingVars == <<db, request, reply>>

NoRequest == [op |-> "none"]

Request ==
  [op : {"create"}, id : EventIds, rows : Dims, cols : Dims]
    \cup [op : {"reserve"}, id : EventIds, seats : SeatLists]
    \cup [op : {"show"}, id : EventIds]
    \cup [op : {"list"}]

Grid(rows, cols) == (1..rows) \X (1..cols)

EmptyEvent(r) ==
  [id |-> r.id, rows |-> r.rows, cols |-> r.cols, bookings |-> 0,
   seat |-> [s \in Grid(r.rows, r.cols) |-> 0]]

\* The positions in db of the events that carry an id.
Holders(id) == {a \in 1..Len(db) : db[a].id = id}

\* The seats of an event, row after row, as a client receives them.
RowMajor(e) ==
  [k \in 1..(e.rows * e.cols) |->
     e.seat[<<((k - 1) \div e.cols) + 1, ((k - 1) % e.cols) + 1>>]]

Asked(seats) == {seats[i] : i \in 1..Len(seats)}

Bookable(e, seats) ==
  \A s \in Asked(seats) : s \in Grid(e.rows, e.cols) /\ e.seat[s] = 0

Book(e, seats) ==
  [e EXCEPT !.bookings = @ + 1,
            !.seat = [s \in DOMAIN @ |->
                        IF s \in Asked(seats) THEN e.bookings + 1 ELSE @[s]]]

-----------------------------------------------------------------------------

Init ==
  /\ db = <<>>
  /\ request = [w \in Workers |-> NoRequest]
  /\ reply = [w \in Workers |-> <<>>]

Invoke(w, r) ==
  /\ request[w] = NoRequest
  /\ request' = [request EXCEPT ![w] = r]
  /\ reply' = [reply EXCEPT ![w] = <<>>]
  /\ UNCHANGED db

Answer(w, numbers) ==
  /\ request' = [request EXCEPT ![w] = NoRequest]
  /\ reply' = [reply EXCEPT ![w] = numbers]

\* Creation is refused for an id in use, and when memory runs out.
Create(w) ==
  /\ request[w].op = "create"
  /\ \/ /\ Holders(request[w].id) = {}
        /\ db' = Append(db, EmptyEvent(request[w]))
        /\ Answer(w, <<0>>)
     \/ /\ UNCHANGED db
        /\ Answer(w, <<1>>)

\* A reservation takes all of its seats under one new number, or none.
Reserve(w) ==
  /\ request[w].op = "reserve"
  /\ \/ \E a \in Holders(request[w].id) :
          /\ Bookable(db[a], request[w].seats)
          /\ db' = [db EXCEPT ![a] = Book(@, request[w].seats)]
          /\ Answer(w, <<0>>)
     \/ /\ \A a \in Holders(request[w].id) : ~Bookable(db[a], request[w].seats)
        /\ UNCHANGED db
        /\ Answer(w, <<1>>)

Show(w) ==
  /\ request[w].op = "show"
  /\ UNCHANGED db
  /\ \/ \E a \in Holders(request[w].id) :
          Answer(w, <<0, db[a].rows, db[a].cols>> \o RowMajor(db[a]))
     \/ Holders(request[w].id) = {} /\ Answer(w, <<1>>)

List(w) ==
  /\ request[w].op = "list"
  /\ UNCHANGED db
  /\ IF db = <<>>
     THEN Answer(w, <<2>>)
     ELSE Answer(w, <<0, Len(db)>> \o [a \in 1..Len(db) |-> db[a].id])

Next ==
  \E w \in Workers :
    \/ \E r \in Request : Invoke(w, r)
    \/ Create(w)
    \/ Reserve(w)
    \/ Show(w)
    \/ List(w)

Spec == Init /\ [][Next]_bookingVars
=============================================================================
