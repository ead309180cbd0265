----------------------------- MODULE EventStore -----------------------------
(***************************************************************************)
(* The shared state of the server, src/server/operations.c and              *)
(* src/server/eventlist.c: a linked list of events under a read-write lock, *)
(* and one mutex per event.  Worker threads run ems_create, ems_reserve,    *)
(* ems_show and ems_list_events on it; the main thread runs print_events    *)
(* (src/server/main.c), which walks the list with no lock held.             *)
(*                                                                         *)
(* A step is what a thread does between two points where another thread can *)
(* see the difference: acquiring a lock, the accesses made under it, one    *)
(* seat of a loop, one link of append_to_list.                              *)
(***************************************************************************)
EXTENDS Integers, Sequences

CONSTANTS
  Workers,     \* the worker threads
  Main,        \* the main thread, which prints the list on SIGUSR1
  NoThread,    \* the owner of a free lock
  EventIds,    \* the event ids clients use
  Dims,        \* the row and column counts clients ask for
  SeatLists,   \* the seat lists of RESERVE, sequences of <<row, column>>
  MaxEvents,   \* bound: how many events memory holds before malloc fails
  MaxRequests, \* bound: requests a worker receives
  MaxPrints    \* bound: times the main thread prints the list

Threads == Workers \cup {Main}

\* The client's parser never lets an empty seat list through
\* (client/main.c:78), and parsed numbers are unsigned.
ASSUME StoreAssumption ==
  /\ Workers # {}
  /\ Main \notin Workers
  /\ NoThread \notin Threads
  /\ EventIds \subseteq Nat
  /\ Dims \subseteq Nat
  /\ SeatLists \subseteq Seq(Nat \X Nat)
  /\ \A seats \in SeatLists : seats # <<>>
  /\ MaxEvents \in Nat
  /\ MaxRequests \in Nat
  /\ MaxPrints \in Nat

VARIABLES
  event,     \* the nodes in the order they are allocated; NULL is 0
  mutex,     \* the owner of each event's mutex
  linked,    \* how many nodes are reachable from head along next
  tail,      \* event_list->tail
  writer,    \* the thread holding the list's rwlock for writing
  readers,   \* the threads holding it for reading
  pc,        \* where each thread is
  request,   \* the request a worker is executing
  found,     \* the event pointer of each thread, as get_event returned it
  current,   \* the node of each thread's walk over the list
  to,        \* the last node of a walk, read when the walk starts
  idx,       \* the loop index of each thread
  resId,     \* reservation_id of ems_reserve
  reply,     \* what a worker has written to its response pipe
  printed,   \* the event ids print_events has written
  left       \* requests or prints each thread still has to make

listVars == <<event, mutex, linked, tail>>
rwlVars == <<writer, readers>>
localVars == <<found, current, to, idx, resId>>
printVars == <<printed>>
vars == <<listVars, rwlVars, localVars, printVars, pc, request, reply, left>>

NULL == 0
Node == 1..MaxEvents

NoRequest == [op |-> "none"]

Request ==
  [op : {"create"}, id : EventIds, rows : Dims, cols : Dims]
    \cup [op : {"reserve"}, id : EventIds, seats : SeatLists]
    \cup [op : {"show"}, id : EventIds]
    \cup [op : {"list"}]

-----------------------------------------------------------------------------
(* Pure helpers of the source *)

\* Variant: the rows are as long as there are rows.
seat_index_by_rows(e, s) == (s[1] - 1) * e.rows + s[2] - 1

\* Variant: the seats are laid out column after column.
seat_index_by_cols(e, s) == (s[2] - 1) * e.rows + s[1] - 1

seat_index(e, s) == (s[1] - 1) * e.cols + s[2] - 1

NewEvent(r) ==
  [id |-> r.id, rows |-> r.rows, cols |-> r.cols, reservations |-> 0,
   data |-> [i \in 0..(r.rows * r.cols - 1) |-> 0]]

NoEvent == [id |-> 0, rows |-> 0, cols |-> 0, reservations |-> 0,
   data |-> [i \in 0..-1 |-> 0]]

head == IF linked = 0 THEN NULL ELSE 1

\* The search from head to tail: the first node with the id, or NULL.
get_event(id) ==
  LET matches == {a \in 1..tail : event[a].id = id}
  IN  IF matches = {} THEN NULL
      ELSE CHOOSE a \in matches : \A b \in matches : a <= b

InBounds(e, seats) ==
  \A j \in DOMAIN seats : seats[j][1] \in 1..e.rows /\ seats[j][2] \in 1..e.cols

Free(e, seats) == \A j \in DOMAIN seats : e.data[seat_index(e, seats[j])] = 0

\* event_list->rwl
Wrlock(t) ==
  /\ writer = NoThread
  /\ readers = {}
  /\ writer' = t
  /\ UNCHANGED readers

Wrunlock == writer' = NoThread /\ UNCHANGED readers

\* The lock has default attributes (eventlist.c:17), for which the C library lets
\* readers in past a writer that waits.
Rdlock(t) ==
  /\ writer = NoThread
  /\ readers' = readers \cup {t}
  /\ UNCHANGED writer

Rdunlock(t) == readers' = readers \ {t} /\ UNCHANGED writer

\* Variant: one mutex for the events of the whole list.
LockEvent_OneForAll(t, a) ==
  /\ \A b \in Node : mutex[b] = NoThread
  /\ mutex' = [mutex EXCEPT ![a] = t]

\* event->mutex
LockEvent(t, a) == mutex[a] = NoThread /\ mutex' = [mutex EXCEPT ![a] = t]

UnlockEvent(a) == mutex' = [mutex EXCEPT ![a] = NoThread]

Goto(t, label) == pc' = [pc EXCEPT ![t] = label]

\* The last integers of a reply are written and the worker is ready again.
Finish(w, numbers) ==
  /\ Goto(w, "idle")
  /\ reply' = [reply EXCEPT ![w] = @ \o numbers]

-----------------------------------------------------------------------------

\* A store with the events of some requests, in which nobody is at work.
Holding(created) ==
  /\ event = [a \in Node |-> IF a <= Len(created) THEN NewEvent(created[a]) ELSE NoEvent]
  /\ mutex = [a \in Node |-> NoThread]
  /\ linked = Len(created)
  /\ tail = Len(created)
  /\ writer = NoThread
  /\ readers = {}
  /\ pc = [t \in Threads |-> "idle"]
  /\ request = [w \in Workers |-> NoRequest]
  /\ found = [t \in Threads |-> NULL]
  /\ current = [t \in Threads |-> NULL]
  /\ to = [t \in Threads |-> NULL]
  /\ idx = [t \in Threads |-> 0]
  /\ resId = [w \in Workers |-> 0]
  /\ reply = [w \in Workers |-> <<>>]
  /\ printed = <<>>
  /\ left = [t \in Threads |-> IF t = Main THEN MaxPrints ELSE MaxRequests]

Init == Holding(<<>>)

\* Where each operation starts.
Entry(op) ==
  CASE op = "create"  -> "create_wrlock"
    [] op = "reserve" -> "reserve_rdlock"
    [] op = "show"    -> "show_rdlock"
    [] op = "list"    -> "list_rdlock"

\* handle_client has read a request and calls the operation.
Receive(w, r) ==
  /\ pc[w] = "idle"
  /\ left[w] > 0
  /\ left' = [left EXCEPT ![w] = @ - 1]
  /\ request' = [request EXCEPT ![w] = r]
  /\ reply' = [reply EXCEPT ![w] = <<>>]
  /\ Goto(w, Entry(r.op))
  /\ UNCHANGED <<listVars, rwlVars, localVars, printVars>>

-----------------------------------------------------------------------------
(* ems_create *)

CreateWrlock(w) ==
  /\ pc[w] = "create_wrlock"
  /\ Wrlock(w)
  /\ Goto(w, "create_lookup")
  /\ UNCHANGED <<listVars, localVars, printVars, request, reply, left>>

\* The event is refused because its id exists or an allocation fails ...
CreateRefuse(w) ==
  /\ pc[w] = "create_lookup"
  /\ Wrunlock
  /\ Finish(w, <<1>>)
  /\ UNCHANGED <<listVars, localVars, printVars, request, left>>

\* Variant: the new event is built without looking for its id.
CreateEvent_NoLookup(w) ==
  /\ pc[w] = "create_lookup"
  /\ linked < MaxEvents
  /\ event' = [event EXCEPT ![linked + 1] = NewEvent(request[w])]
  /\ Goto(w, "create_link")
  /\ UNCHANGED <<mutex, linked, tail, rwlVars, localVars, printVars, request, reply, left>>

\* ... or built in memory no other thread can reach yet.
CreateEvent(w) ==
  /\ pc[w] = "create_lookup"
  /\ get_event(request[w].id) = NULL
  /\ linked < MaxEvents
  /\ event' = [event EXCEPT ![linked + 1] = NewEvent(request[w])]
  /\ Goto(w, "create_link")
  /\ UNCHANGED <<mutex, linked, tail, rwlVars, localVars, printVars, request, reply, left>>

\* append_to_list, first store: list->head or list->tail->next.
CreateLink(w) ==
  /\ pc[w] = "create_link"
  /\ linked' = linked + 1
  /\ Goto(w, "create_tail")
  /\ UNCHANGED <<event, mutex, tail, rwlVars, localVars, printVars, request, reply, left>>

\* append_to_list, second store: list->tail; then the lock is released.
CreateTail(w) ==
  /\ pc[w] = "create_tail"
  /\ tail' = linked
  /\ Wrunlock
  /\ Finish(w, <<0>>)
  /\ UNCHANGED <<event, mutex, linked, localVars, printVars, request, left>>

-----------------------------------------------------------------------------
(* ems_reserve *)

ReserveRdlock(w) ==
  /\ pc[w] = "reserve_rdlock"
  /\ Rdlock(w)
  /\ Goto(w, "reserve_lookup")
  /\ UNCHANGED <<listVars, localVars, printVars, request, reply, left>>

\* The event pointer outlives the read lock that it was found under.
ReserveLookup(w) ==
  /\ pc[w] = "reserve_lookup"
  /\ found' = [found EXCEPT ![w] = get_event(request[w].id)]
  /\ Rdunlock(w)
  /\ IF found'[w] = NULL
     THEN Finish(w, <<1>>)
     ELSE Goto(w, "reserve_lock") /\ UNCHANGED reply
  /\ UNCHANGED <<listVars, current, to, idx, resId, printVars, request, left>>

\* Variant: the seats are checked and written without the event's mutex.
ReserveLock_NoMutex(w) ==
  /\ pc[w] = "reserve_lock"
  /\ Goto(w, "reserve_check")
  /\ UNCHANGED <<listVars, rwlVars, localVars, printVars, request, reply, left>>

ReserveLock(w) ==
  /\ pc[w] = "reserve_lock"
  /\ LockEvent(w, found[w])
  /\ Goto(w, "reserve_check")
  /\ UNCHANGED <<event, linked, tail, rwlVars, localVars, printVars, request, reply, left>>

\* Variant: a refused reservation leaves the event's mutex locked.
ReserveRefuse_KeepMutex(w) ==
  LET e == event[found[w]]  seats == request[w].seats IN
  /\ pc[w] = "reserve_check"
  /\ ~(InBounds(e, seats) /\ Free(e, seats))
  /\ Finish(w, <<1>>)
  /\ UNCHANGED <<listVars, rwlVars, localVars, printVars, request, left>>

\* A seat out of bounds or taken: nothing is booked.
ReserveRefuse(w) ==
  LET e == event[found[w]]  seats == request[w].seats IN
  /\ pc[w] = "reserve_check"
  /\ ~(InBounds(e, seats) /\ Free(e, seats))
  /\ UnlockEvent(found[w])
  /\ Finish(w, <<1>>)
  /\ UNCHANGED <<event, linked, tail, rwlVars, localVars, printVars, request, left>>

\* Variant: all requests are numbered from the count before the increment.
ReserveAccept_PostIncrement(w) ==
  LET e == event[found[w]]  seats == request[w].seats IN
  /\ pc[w] = "reserve_check"
  /\ InBounds(e, seats)
  /\ Free(e, seats)
  /\ event' = [event EXCEPT ![found[w]].reservations = @ + 1]
  /\ resId' = [resId EXCEPT ![w] = e.reservations]
  /\ idx' = [idx EXCEPT ![w] = 1]
  /\ Goto(w, "reserve_write")
  /\ UNCHANGED <<mutex, linked, tail, rwlVars, found, current, to, printVars, request, reply, left>>

\* Every seat is in bounds and free: ++event->reservations numbers the request.
ReserveAccept(w) ==
  LET e == event[found[w]]  seats == request[w].seats IN
  /\ pc[w] = "reserve_check"
  /\ InBounds(e, seats)
  /\ Free(e, seats)
  /\ event' = [event EXCEPT ![found[w]].reservations = @ + 1]
  /\ resId' = [resId EXCEPT ![w] = e.reservations + 1]
  /\ idx' = [idx EXCEPT ![w] = 1]
  /\ Goto(w, "reserve_write")
  /\ UNCHANGED <<mutex, linked, tail, rwlVars, found, current, to, printVars, request, reply, left>>

\* One seat of the loop that writes the reservation id.
ReserveSeat(w) ==
  LET a == found[w]  seats == request[w].seats IN
  /\ pc[w] = "reserve_write"
  /\ idx[w] <= Len(seats)
  /\ event' = [event EXCEPT ![a].data[seat_index(event[a], seats[idx[w]])] = resId[w]]
  /\ idx' = [idx EXCEPT ![w] = @ + 1]
  /\ UNCHANGED <<mutex, linked, tail, rwlVars, found, current, to, resId, printVars, pc, request, reply, left>>

ReserveDone(w) ==
  /\ pc[w] = "reserve_write"
  /\ idx[w] > Len(request[w].seats)
  /\ UnlockEvent(found[w])
  /\ Finish(w, <<0>>)
  /\ UNCHANGED <<event, linked, tail, rwlVars, localVars, printVars, request, left>>

-----------------------------------------------------------------------------
(* ems_show *)

ShowRdlock(w) ==
  /\ pc[w] = "show_rdlock"
  /\ Rdlock(w)
  /\ Goto(w, "show_lookup")
  /\ UNCHANGED <<listVars, localVars, printVars, request, reply, left>>

ShowLookup(w) ==
  /\ pc[w] = "show_lookup"
  /\ found' = [found EXCEPT ![w] = get_event(request[w].id)]
  /\ Rdunlock(w)
  /\ IF found'[w] = NULL
     THEN Finish(w, <<1>>)
     ELSE Goto(w, "show_lock") /\ UNCHANGED reply
  /\ UNCHANGED <<listVars, current, to, idx, resId, printVars, request, left>>

\* Variant: the seats are sent without the event's mutex.
ShowLock_NoMutex(w) ==
  /\ pc[w] = "show_lock"
  /\ mutex' = [mutex EXCEPT ![found[w]] = @]
  /\ reply' = [reply EXCEPT ![w] = <<0, event[found[w]].rows, event[found[w]].cols>>]
  /\ idx' = [idx EXCEPT ![w] = 0]
  /\ Goto(w, "show_send")
  /\ UNCHANGED <<event, linked, tail, rwlVars, found, current, to, resId, printVars, request, left>>

\* The result, the rows and the columns go first.
ShowLock(w) ==
  /\ pc[w] = "show_lock"
  /\ LockEvent(w, found[w])
  /\ reply' = [reply EXCEPT ![w] = <<0, event[found[w]].rows, event[found[w]].cols>>]
  /\ idx' = [idx EXCEPT ![w] = 0]
  /\ Goto(w, "show_send")
  /\ UNCHANGED <<event, linked, tail, rwlVars, found, current, to, resId, printVars, request, left>>

\* One seat of the loop that writes the seats to the response pipe.
ShowSeat(w) ==
  LET e == event[found[w]] IN
  /\ pc[w] = "show_send"
  /\ idx[w] < e.rows * e.cols
  /\ reply' = [reply EXCEPT ![w] = Append(@, e.data[idx[w]])]
  /\ idx' = [idx EXCEPT ![w] = @ + 1]
  /\ UNCHANGED <<listVars, rwlVars, found, current, to, resId, printVars, pc, request, left>>

ShowDone(w) ==
  /\ pc[w] = "show_send"
  /\ idx[w] >= event[found[w]].rows * event[found[w]].cols
  /\ UnlockEvent(found[w])
  /\ Finish(w, <<>>)
  /\ UNCHANGED <<event, linked, tail, rwlVars, localVars, printVars, request, left>>

-----------------------------------------------------------------------------
(* ems_list_events *)

ListRdlock(w) ==
  /\ pc[w] = "list_rdlock"
  /\ Rdlock(w)
  /\ Goto(w, "list_head")
  /\ UNCHANGED <<listVars, localVars, printVars, request, reply, left>>

ListEmpty(w) ==
  /\ pc[w] = "list_head"
  /\ head = NULL
  /\ Rdunlock(w)
  /\ Finish(w, <<2>>)
  /\ UNCHANGED <<listVars, localVars, printVars, request, left>>

\* The first walk from head to tail counts the events.
ListCount(w) ==
  /\ pc[w] = "list_head"
  /\ head # NULL
  /\ to' = [to EXCEPT ![w] = tail]
  /\ current' = [current EXCEPT ![w] = head]
  /\ reply' = [reply EXCEPT ![w] = <<0, tail>>]
  /\ Goto(w, "list_send")
  /\ UNCHANGED <<listVars, rwlVars, found, idx, resId, printVars, request, left>>

\* Variant: the walk stops at the tail before sending its id.
ListSend_EndFirst(w) ==
  /\ pc[w] = "list_send"
  /\ IF current[w] = to[w]
     THEN Rdunlock(w) /\ Goto(w, "idle") /\ UNCHANGED <<current, reply>>
     ELSE /\ reply' = [reply EXCEPT ![w] = Append(@, event[current[w]].id)]
          /\ current' = [current EXCEPT ![w] = @ + 1]
          /\ UNCHANGED <<rwlVars, pc>>
  /\ UNCHANGED <<listVars, found, to, idx, resId, printVars, request, left>>

\* The second walk sends one id per step and ends after the tail's.
ListSend(w) ==
  /\ pc[w] = "list_send"
  /\ reply' = [reply EXCEPT ![w] = Append(@, event[current[w]].id)]
  /\ IF current[w] = to[w]
     THEN Rdunlock(w) /\ Goto(w, "idle") /\ UNCHANGED current
     ELSE /\ current' = [current EXCEPT ![w] = @ + 1]
          /\ UNCHANGED <<rwlVars, pc>>
  /\ UNCHANGED <<listVars, found, to, idx, resId, printVars, request, left>>

-----------------------------------------------------------------------------
(* print_events and ems_show_stdout, in the main thread *)

\* events->tail is read first, then events->head, neither under the lock.
PrintTail ==
  /\ pc[Main] = "idle"
  /\ left[Main] > 0
  /\ left' = [left EXCEPT ![Main] = @ - 1]
  /\ to' = [to EXCEPT ![Main] = tail]
  /\ printed' = <<>>
  /\ Goto(Main, "print_head")
  /\ UNCHANGED <<listVars, rwlVars, found, current, idx, resId, request, reply>>

PrintHead ==
  /\ pc[Main] = "print_head"
  /\ current' = [current EXCEPT ![Main] = head]
  /\ Goto(Main, IF head = NULL THEN "idle" ELSE "print_node")
  /\ UNCHANGED <<listVars, rwlVars, found, to, idx, resId, printVars, request, reply, left>>

PrintEnd ==
  /\ pc[Main] = "print_node"
  /\ current[Main] = to[Main]
  /\ Goto(Main, "idle")
  /\ UNCHANGED <<listVars, rwlVars, localVars, printVars, request, reply, left>>

\* Variant: the walk does not look for the node it is to stop at.
PrintId_NoEnd ==
  /\ pc[Main] = "print_node"
  /\ current[Main] # NULL
  /\ printed' = Append(printed, event[current[Main]].id)
  /\ Goto(Main, "stdout_rdlock")
  /\ UNCHANGED <<listVars, rwlVars, localVars, request, reply, left>>

PrintId ==
  /\ pc[Main] = "print_node"
  /\ current[Main] # to[Main]
  /\ current[Main] # NULL
  /\ printed' = Append(printed, event[current[Main]].id)
  /\ Goto(Main, "stdout_rdlock")
  /\ UNCHANGED <<listVars, rwlVars, localVars, request, reply, left>>

StdoutRdlock ==
  /\ pc[Main] = "stdout_rdlock"
  /\ Rdlock(Main)
  /\ Goto(Main, "stdout_lookup")
  /\ UNCHANGED <<listVars, localVars, printVars, request, reply, left>>

\* The event is looked up again, by its id.  A miss ends the print.
StdoutLookup ==
  /\ pc[Main] = "stdout_lookup"
  /\ found' = [found EXCEPT ![Main] = get_event(event[current[Main]].id)]
  /\ Rdunlock(Main)
  /\ Goto(Main, IF found'[Main] = NULL THEN "idle" ELSE "stdout_lock")
  /\ UNCHANGED <<listVars, current, to, idx, resId, printVars, request, reply, left>>

StdoutLock ==
  /\ pc[Main] = "stdout_lock"
  /\ LockEvent(Main, found[Main])
  /\ Goto(Main, "stdout_seats")
  /\ UNCHANGED <<event, linked, tail, rwlVars, localVars, printVars, request, reply, left>>

\* The seats go to standard output.
StdoutSeats ==
  /\ pc[Main] = "stdout_seats"
  /\ UnlockEvent(found[Main])
  /\ Goto(Main, "print_next")
  /\ UNCHANGED <<event, linked, tail, rwlVars, localVars, printVars, request, reply, left>>

\* The walk follows current->next.
PrintNext ==
  /\ pc[Main] = "print_next"
  /\ current' = [current EXCEPT ![Main] = IF @ < linked THEN @ + 1 ELSE NULL]
  /\ Goto(Main, "print_node")
  /\ UNCHANGED <<listVars, rwlVars, found, to, idx, resId, printVars, request, reply, left>>

-----------------------------------------------------------------------------

Create(w) ==
  CreateWrlock(w) \/ CreateRefuse(w) \/ CreateEvent(w) \/ CreateLink(w) \/ CreateTail(w)

Reserve(w) ==
  \/ ReserveRdlock(w) \/ ReserveLookup(w) \/ ReserveLock(w)
  \/ ReserveRefuse(w) \/ ReserveAccept(w) \/ ReserveSeat(w) \/ ReserveDone(w)

Show(w) ==
  ShowRdlock(w) \/ ShowLookup(w) \/ ShowLock(w) \/ ShowSeat(w) \/ ShowDone(w)

List(w) == ListRdlock(w) \/ ListEmpty(w) \/ ListCount(w) \/ ListSend(w)

Work(w) == Create(w) \/ Reserve(w) \/ Show(w) \/ List(w)

PrintEvents ==
  \/ PrintHead \/ PrintEnd \/ PrintId \/ PrintNext
  \/ StdoutRdlock \/ StdoutLookup \/ StdoutLock \/ StdoutSeats

\* Every request has been answered: the bounded system may stop.
Finished ==
  /\ \A t \in Threads : pc[t] = "idle" /\ left[t] = 0
  /\ UNCHANGED vars

Next ==
  \/ \E w \in Workers : (\E r \in Request : Receive(w, r)) \/ Work(w)
  \/ PrintTail
  \/ PrintEvents
  \/ Finished

Spec == Init /\ [][Next]_vars

\* The operating system keeps scheduling every thread; requests and signals
\* come when they come.
Fairness == (\A w \in Workers : WF_vars(Work(w))) /\ WF_vars(PrintEvents)

FairSpec == Spec /\ Fairness

-----------------------------------------------------------------------------
(* Properties *)

WorkerPcs ==
  {"idle", "create_wrlock", "create_lookup", "create_link", "create_tail",
   "reserve_rdlock", "reserve_lookup", "reserve_lock", "reserve_check", "reserve_write",
   "show_rdlock", "show_lookup", "show_lock", "show_send",
   "list_rdlock", "list_head", "list_send"}

MainPcs ==
  {"idle", "print_head", "print_node", "print_next",
   "stdout_rdlock", "stdout_lookup", "stdout_lock", "stdout_seats"}

EventOK(e) ==
  /\ DOMAIN e = {"id", "rows", "cols", "reservations", "data"}
  /\ e.id \in Nat
  /\ e.rows \in Nat
  /\ e.cols \in Nat
  /\ e.reservations \in Nat
  /\ e.data \in [0..(e.rows * e.cols - 1) -> Nat]

\* The type of every variable.
StoreTypes ==
  /\ linked \in 0..MaxEvents
  /\ tail \in 0..linked
  /\ DOMAIN event = Node
  /\ \A a \in Node : EventOK(event[a])
  /\ mutex \in [Node -> Threads \cup {NoThread}]
  /\ writer \in Workers \cup {NoThread}
  /\ readers \subseteq Threads
  /\ pc \in [Threads -> WorkerPcs \cup MainPcs]
  /\ \A w \in Workers : pc[w] \in WorkerPcs
  /\ pc[Main] \in MainPcs
  /\ request \in [Workers -> Request \cup {NoRequest}]
  /\ found \in [Threads -> 0..linked]
  /\ current \in [Threads -> 0..linked]
  /\ to \in [Threads -> 0..linked]
  /\ idx \in [Threads -> Nat]
  /\ resId \in [Workers -> Nat]
  /\ reply \in [Workers -> Seq(Nat)]
  /\ printed \in Seq(Nat)
  /\ left \in [Threads -> Nat]

\* ems_reserve uses the index of a seat: to look at it, when all are in bounds,
\* and to write to it.
UsesSeats(w) ==
  \/ pc[w] = "reserve_check" /\ InBounds(event[found[w]], request[w].seats)
  \/ pc[w] = "reserve_write"

\* Every variable has its type, and every seat index that ems_reserve uses lies
\* in the seat array of the event it has found (operations.c:214-236).
TypeOK ==
  /\ StoreTypes
  /\ \A w \in Workers : UsesSeats(w) =>
       \A j \in DOMAIN request[w].seats :
         seat_index(event[found[w]], request[w].seats[j]) \in DOMAIN event[found[w]].data

\* No two events of the list carry the same id, however the CREATEs of several
\* clients interleave: the write lock spans the search and the append of
\* ems_create (operations.c:105-162).
NoDuplicateIds ==
  \A a, b \in 1..linked : event[a].id = event[b].id => a = b

\* A seat that carries a reservation keeps it for ever: of two overlapping
\* RESERVEs at most one gets the seat (operations.c:198-240).
SeatNeverReassigned ==
  [][\A a \in 1..linked : \A i \in DOMAIN event[a].data :
       event[a].data[i] # 0 => event'[a].data[i] = event[a].data[i]]_vars

BeingWritten(a) == \E w \in Workers : pc[w] = "reserve_write" /\ found[w] = a

\* The reservation counter and the seats agree: every number given out holds
\* at least one seat (the latest may still be being written) and no seat
\* carries a number that was not given out, so the counter never exceeds the
\* seats of the event and cannot wrap to the mark of a free seat
\* (operations.c:232-236).
NumbersAreSeated ==
  \A a \in 1..linked :
    LET e == event[a] IN
    /\ \A i \in DOMAIN e.data : e.data[i] <= e.reservations
    /\ \A n \in 1..e.reservations :
         \/ \E i \in DOMAIN e.data : e.data[i] = n
         \/ n = e.reservations /\ BeingWritten(a)

\* What ems_show has sent so far is what the event holds now, so that the
\* whole reply is one moment's seat map although it is sent seat by seat
\* (operations.c:285-331).
ShowIsSnapshot ==
  \A w \in Workers : pc[w] = "show_send" =>
    /\ Len(reply[w]) = 3 + idx[w]
    /\ \A k \in 1..idx[w] : reply[w][3 + k] = event[found[w]].data[k - 1]

CreatePcs == {"create_lookup", "create_link", "create_tail"}

ReadPcs == {"reserve_lookup", "show_lookup", "list_head", "list_send", "stdout_lookup"}

\* Where a thread uses the event it has found, and where it holds its mutex.
EventPcs ==
  {"reserve_lock", "reserve_check", "reserve_write", "show_lock", "show_send",
   "stdout_lock", "stdout_seats"}

MutexPcs == {"reserve_check", "reserve_write", "show_send", "stdout_seats"}

OpAt(label) ==
  CASE label \in CreatePcs \cup {"create_wrlock"} -> {"create"}
    [] label \in {"reserve_rdlock", "reserve_lookup", "reserve_lock",
                  "reserve_check", "reserve_write"} -> {"reserve"}
    [] label \in {"show_rdlock", "show_lookup", "show_lock", "show_send"} -> {"show"}
    [] label \in {"list_rdlock", "list_head", "list_send"} -> {"list"}
    [] OTHER -> {"none", "create", "reserve", "show", "list"}

\* Each lock is held at the lines between its lock and its unlock, by the
\* thread that is there, and nowhere else.
LocksFollowCode ==
  /\ \A w \in Workers : writer = w <=> pc[w] \in CreatePcs
  /\ readers = {t \in Threads : pc[t] \in ReadPcs}
  /\ writer # NoThread => readers = {}
  /\ \A a \in Node : \A t \in Threads :
       mutex[a] = t <=> pc[t] \in MutexPcs /\ found[t] = a

\* Outside the two stores of append_to_list the tail is the last node.
ListWellFormed ==
  /\ tail = IF \E w \in Workers : pc[w] = "create_tail" THEN linked - 1 ELSE linked
  /\ \A w \in Workers : pc[w] = "create_tail" => linked > 0
  /\ \A w \in Workers : pc[w] = "create_link" =>
       /\ linked < MaxEvents
       /\ event[linked + 1] = NewEvent(request[w])
       /\ \A a \in 1..linked : event[a].id # request[w].id

Writing(w) ==
  LET e == event[found[w]]  seats == request[w].seats IN
  /\ InBounds(e, seats)
  /\ resId[w] = e.reservations
  /\ resId[w] > 0
  /\ idx[w] \in 1..(Len(seats) + 1)
  /\ \A j \in DOMAIN seats : e.data[seat_index(e, seats[j])] \in {0, resId[w]}
  /\ \A j \in 1..(idx[w] - 1) : e.data[seat_index(e, seats[j])] = resId[w]

\* While a reservation is being written its seats are in bounds, and each
\* holds the new number if it is written and is free or holds it if not.
WriteInProgress == \A w \in Workers : pc[w] = "reserve_write" => Writing(w)

\* Every worker executes the operation its request names, on an event that is
\* in the list, and a walk of ems_list_events has not passed its end.
WorkFitsRequest ==
  /\ \A w \in Workers : request[w].op \in OpAt(pc[w])
  /\ \A t \in Threads : pc[t] \in EventPcs => found[t] \in 1..linked
  /\ \A w \in Workers : pc[w] = "list_send" => current[w] \in 1..to[w]

\* What the operations rely on, together: the inductive invariant from which
\* the properties above follow.
Inv ==
  /\ StoreTypes
  /\ WorkFitsRequest
  /\ LocksFollowCode
  /\ ListWellFormed
  /\ NoDuplicateIds
  /\ WriteInProgress
  /\ NumbersAreSeated

\* The walk of print_events takes no lock (main.c:457-480).  It still prints
\* the events in list order, never follows next past the end of the list, and
\* stops at the node that was the tail when it began, at most that one
\* unprinted.
PrintStaysOnList ==
  /\ \A i \in 1..Len(printed) : printed[i] = event[i].id
  /\ pc[Main] = "print_node" =>
       /\ current[Main] = NULL => to[Main] = NULL
       /\ current[Main] = to[Main] => Len(printed) + 1 >= to[Main]

\* The README (line 60) says of SIGUSR1 that it "will fire a command that
\* prints all current events": a print that ends has printed all the events
\* that were in the list when it began.
PrintsAllEvents ==
  [][pc[Main] = "print_node" /\ pc'[Main] = "idle" => Len(printed) >= to[Main]]_vars

\* Every request gets its answer and every print ends: no path through the
\* operations forgets a lock, and no two of them wait for each other.
RequestsAnswered ==
  \A t \in Threads : pc[t] # "idle" ~> pc[t] = "idle"

-----------------------------------------------------------------------------
(* Refinement *)

\* A reservation being written is not there yet.
AbsEvent(a) ==
  LET e == event[a]
      undo(n) == IF BeingWritten(a) /\ n = e.reservations THEN 0 ELSE n
  IN  [id |-> e.id, rows |-> e.rows, cols |-> e.cols,
       bookings |-> IF BeingWritten(a) THEN e.reservations - 1 ELSE e.reservations,
       seat |-> [s \in (1..e.rows) \X (1..e.cols) |-> undo(e.data[seat_index(e, s)])]]

Abstract == INSTANCE Booking WITH
  db <- [a \in 1..tail |-> AbsEvent(a)],
  request <- [w \in Workers |-> IF pc[w] = "idle" THEN NoRequest ELSE request[w]],
  reply <- [w \in Workers |-> IF pc[w] = "idle" THEN reply[w] ELSE <<>>]

\* Every interleaving of the operations is one in which each request takes
\* effect at a single moment between its reception and its reply.
TakesEffectAtOnce == Abstract!Spec
=============================================================================
