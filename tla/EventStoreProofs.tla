-------------------------- MODULE EventStoreProofs --------------------------
(***************************************************************************)
(* What holds of EventStore for any workers, ids, dimensions, seat lists    *)
(* and bounds.  The argument is one inductive invariant, Inv of EventStore: *)
(* each lock is held exactly on the lines that rely on it, so only one      *)
(* thread at a time changes the list, and only one an event; the rest of    *)
(* the invariant says what that thread has done so far.  Its conjuncts are  *)
(* taken in the order types, locks, list, ids, local variables, writes and  *)
(* numbers, one lemma "...Step" for each.                                   *)
(***************************************************************************)
EXTENDS EventStore, TLAPS

\* The row-major index of a seat inside the grid is inside the data array
\* (seat_index, operations.c:39).
LEMMA SeatIndexInRange ==
  ASSUME NEW rows \in Nat, NEW cols \in Nat, NEW r \in 1..rows, NEW c \in 1..cols
  PROVE  (r - 1) * cols + c - 1 \in 0..(rows * cols - 1)
  <1>1. (r - 1) * cols \in Nat
    BY SMT
  <1>2. (rows - r) * cols \in Nat
    BY SMT
  <1>3. rows * cols = (rows - r) * cols + (r - 1) * cols + cols
    BY SMT
  <1> QED
    BY <1>1, <1>2, <1>3

\* The store as ems_init leaves it satisfies the inductive invariant.
LEMMA InitInv == Init => Inv
  <1> SUFFICES ASSUME Init PROVE Inv
    OBVIOUS
  <1> USE StoreAssumption DEF Init, Holding
  <1>1. StoreTypes
    <2>1. EventOK(NoEvent)
      BY DEF EventOK, NoEvent
    <2>2. <<>> \in Seq(Nat)
      OBVIOUS
    <2> QED
      BY <2>1, <2>2 DEF StoreTypes, Threads, Node, WorkerPcs, MainPcs, NULL
  <1>2. WorkFitsRequest
    BY DEF WorkFitsRequest, OpAt, NoRequest, CreatePcs, EventPcs, Threads
  <1>3. LocksFollowCode
    BY DEF LocksFollowCode, CreatePcs, ReadPcs, MutexPcs, Threads, Node
  <1>4. ListWellFormed
    BY DEF ListWellFormed, Threads, NULL
  <1>5. NoDuplicateIds /\ NumbersAreSeated /\ WriteInProgress
    BY DEF NoDuplicateIds, NumbersAreSeated, WriteInProgress, Threads
  <1> QED
    BY <1>1, <1>2, <1>3, <1>4, <1>5 DEF Inv

\* The one-number replies of the operations are sequences of numbers.
LEMMA OneNumber ==
  /\ <<>> \in Seq(Nat)
  /\ \A n \in Nat : <<n>> \in Seq(Nat)
  OBVIOUS

\* What the type invariant says of the list: the reachable nodes are
\* allocated ones.
LEMMA ListTypes ==
  ASSUME StoreTypes
  PROVE  /\ linked \in Nat /\ linked <= MaxEvents
         /\ tail \in 0..linked
         /\ 1..linked \subseteq Node
         /\ \A a \in Node : EventOK(event[a])
  <1>1. linked \in 0..MaxEvents /\ tail \in 0..linked /\ \A a \in Node : EventOK(event[a])
    BY DEF StoreTypes
  <1>2. MaxEvents \in Nat
    BY StoreAssumption
  <1> QED
    BY <1>1, <1>2 DEF Node

\* The id of an event of the list is a number.
LEMMA IdTypes ==
  ASSUME StoreTypes, NEW a \in 1..linked
  PROVE  event[a].id \in Nat
  <1>1. EventOK(event[a])
    BY ListTypes
  <1> QED
    BY <1>1 DEF EventOK

\* A worker that writes its last numbers is idle and its reply is well typed.
LEMMA Finishes ==
  ASSUME StoreTypes, NEW w \in Workers, NEW numbers \in Seq(Nat), Finish(w, numbers)
  PROVE  /\ pc' = [pc EXCEPT ![w] = "idle"]
         /\ reply' \in [Workers -> Seq(Nat)]
  <1>1. reply[w] \o numbers \in Seq(Nat)
    <2>1. reply[w] \in Seq(Nat)
      BY DEF StoreTypes
    <2> QED
      BY <2>1
  <1> QED
    BY <1>1 DEF StoreTypes, Finish, Goto

\* get_event returns NULL only if no event up to the tail has the id, and
\* otherwise a node that has it (eventlist.c:107-122).
LEMMA GetEvent ==
  ASSUME StoreTypes, NoDuplicateIds, NEW id
  PROVE  /\ get_event(id) \in 0..tail
         /\ get_event(id) = NULL => \A a \in 1..tail : event[a].id # id
         /\ get_event(id) # NULL => event[get_event(id)].id = id
  <1> DEFINE matches == {a \in 1..tail : event[a].id = id}
  <1>1. matches \subseteq 1..tail /\ \A a \in matches : event[a].id = id
    OBVIOUS
  <1>2. 1..tail \subseteq 1..linked /\ tail \in Nat
    BY StoreAssumption DEF StoreTypes
  <1>3. get_event(id) = IF matches = {} THEN NULL
                        ELSE CHOOSE a \in matches : \A b \in matches : a <= b
    BY DEF get_event
  <1>4. CASE matches = {}
    BY <1>2, <1>3, <1>4 DEF NULL
  <1>5. CASE matches # {}
    <2> PICK a \in matches : TRUE
      BY <1>5
    <2>1. \A b \in matches : b = a
      BY <1>1, <1>2 DEF NoDuplicateIds
    <2>2. get_event(id) \in matches
      BY <1>1, <1>2, <1>3, <1>5, <2>1
    <2> QED
      BY <1>1, <1>2, <2>2 DEF NULL
  <1> QED
    BY <1>4, <1>5

\* A worker inside ems_create or ems_reserve holds a request of that kind.
LEMMA RequestsByPc ==
  ASSUME StoreTypes, WorkFitsRequest, NEW w \in Workers
  PROVE  /\ pc[w] \in CreatePcs =>
              request[w] \in [op : {"create"}, id : EventIds, rows : Dims, cols : Dims]
         /\ pc[w] \in {"reserve_check", "reserve_write"} =>
              request[w] \in [op : {"reserve"}, id : EventIds, seats : SeatLists]
  <1>1. request[w] \in Request \cup {NoRequest} /\ request[w].op \in OpAt(pc[w])
    BY DEF StoreTypes, WorkFitsRequest
  <1>2. pc[w] \in CreatePcs => OpAt(pc[w]) = {"create"}
    BY DEF OpAt, CreatePcs
  <1>3. pc[w] \in {"reserve_check", "reserve_write"} => OpAt(pc[w]) = {"reserve"}
    BY DEF OpAt, CreatePcs
  <1> QED
    BY <1>1, <1>2, <1>3 DEF Request, NoRequest

\* A new event is well typed: its seats are all free (operations.c:132-148).
LEMMA NewEventOK ==
  ASSUME NEW r \in [op : {"create"}, id : EventIds, rows : Dims, cols : Dims]
  PROVE  EventOK(NewEvent(r))
  BY StoreAssumption DEF NewEvent, EventOK

\* Writing a number to a seat leaves an event well typed.
LEMMA SeatWriteOK ==
  ASSUME NEW e, EventOK(e), NEW i, NEW n \in Nat
  PROVE  EventOK([e EXCEPT !.data = [e.data EXCEPT ![i] = n]])
  <1> DEFINE f == [e EXCEPT !.data = [e.data EXCEPT ![i] = n]]
  <1>1. DOMAIN f = DOMAIN e /\ f.rows = e.rows /\ f.cols = e.cols /\ f.id = e.id
          /\ f.reservations = e.reservations /\ f.data = [e.data EXCEPT ![i] = n]
    BY DEF EventOK
  <1>2. [e.data EXCEPT ![i] = n] \in [0..(e.rows * e.cols - 1) -> Nat]
    BY DEF EventOK
  <1> QED
    BY <1>1, <1>2 DEF EventOK

\* The types of the local variables of a worker.
LEMMA WorkerTypes ==
  ASSUME StoreTypes, NEW w \in Workers
  PROVE  /\ pc[w] \in WorkerPcs
         /\ found[w] \in 0..linked
         /\ idx[w] \in Nat
         /\ resId[w] \in Nat
         /\ reply[w] \in Seq(Nat)
  BY DEF StoreTypes, Threads

\* An operation that uses the event it found uses one that is in the list,
\* even though the read lock is gone (operations.c:188-198).
LEMMA FoundEvent ==
  ASSUME Inv, NEW t \in Threads, pc[t] \in EventPcs
  PROVE  /\ found[t] \in 1..linked
         /\ found[t] \in Node
         /\ EventOK(event[found[t]])
  BY StoreAssumption DEF Inv, StoreTypes, WorkFitsRequest, Node

\* ems_create keeps the type invariant.
LEMMA TypeCreate ==
  ASSUME Inv, NEW w \in Workers, Create(w)
  PROVE  StoreTypes'
  <1> USE StoreAssumption
  <1> USE DEF Threads, Node, NULL, Goto, listVars, rwlVars, localVars, printVars
  <1>1. CASE CreateWrlock(w)
    BY <1>1 DEF CreateWrlock, Wrlock, Inv, StoreTypes, WorkerPcs
  <1>2. CASE CreateRefuse(w)
    <2>1. pc' = [pc EXCEPT ![w] = "idle"] /\ reply' \in [Workers -> Seq(Nat)]
      BY <1>2, Finishes, OneNumber DEF CreateRefuse, Inv
    <2> QED
      BY <1>2, <2>1 DEF CreateRefuse, Wrunlock, Inv, StoreTypes, WorkerPcs
  <1>3. CASE CreateEvent(w)
    <2>1. EventOK(NewEvent(request[w]))
      BY <1>3, RequestsByPc, NewEventOK DEF CreateEvent, CreatePcs, Inv
    <2> QED
      BY <1>3, <2>1 DEF CreateEvent, Inv, StoreTypes, WorkerPcs
  <1>4. CASE CreateLink(w)
    <2>1. linked < MaxEvents
      BY <1>4 DEF CreateLink, Inv, ListWellFormed
    <2>2. linked \in Nat /\ linked' = linked + 1 /\ tail' \in 0..linked
      BY <1>4 DEF CreateLink, Inv, StoreTypes
    <2>3. 0..linked \subseteq 0..linked' /\ linked' \in 0..MaxEvents
      BY <2>1, <2>2
    <2> QED
      BY <1>4, <2>2, <2>3 DEF CreateLink, Inv, StoreTypes, WorkerPcs
  <1>5. CASE CreateTail(w)
    <2>1. pc' = [pc EXCEPT ![w] = "idle"] /\ reply' \in [Workers -> Seq(Nat)]
      BY <1>5, Finishes, OneNumber DEF CreateTail, Inv
    <2>2. linked \in 0..linked
      BY DEF Inv, StoreTypes
    <2> QED
      BY <1>5, <2>1, <2>2 DEF CreateTail, Wrunlock, Inv, StoreTypes, WorkerPcs
  <1> QED
    BY <1>1, <1>2, <1>3, <1>4, <1>5 DEF Create

\* ems_reserve keeps the type invariant.
LEMMA TypeReserve ==
  ASSUME Inv, NEW w \in Workers, Reserve(w)
  PROVE  StoreTypes'
  <1> USE StoreAssumption
  <1> USE DEF Threads, Node, NULL, Goto, listVars, rwlVars, localVars, printVars
  <1>1. CASE ReserveRdlock(w)
    BY <1>1 DEF ReserveRdlock, Rdlock, Inv, StoreTypes, WorkerPcs
  <1>2. CASE ReserveLookup(w)
    <2>1. get_event(request[w].id) \in 0..linked
      <3>1. get_event(request[w].id) \in 0..tail
        BY GetEvent DEF Inv
      <3> QED
        BY <3>1 DEF Inv, StoreTypes
    <2>2. found' = [found EXCEPT ![w] = get_event(request[w].id)]
      BY <1>2 DEF ReserveLookup
    <2>3. \/ Finish(w, <<1>>)
          \/ pc' = [pc EXCEPT ![w] = "reserve_lock"] /\ UNCHANGED reply
      BY <1>2 DEF ReserveLookup
    <2>4. /\ \/ pc' = [pc EXCEPT ![w] = "reserve_lock"]
             \/ pc' = [pc EXCEPT ![w] = "idle"]
          /\ reply' \in [Workers -> Seq(Nat)]
      BY <2>3, Finishes, OneNumber DEF Inv, StoreTypes
    <2>5. UNCHANGED <<listVars, current, to, idx, resId, printVars, writer, request, left>>
          /\ readers' \subseteq readers
      BY <1>2 DEF ReserveLookup, Rdunlock
    <2> QED
      BY ZenonT(60), <2>1, <2>2, <2>4, <2>5 DEF Inv, StoreTypes, WorkerPcs
  <1>3. CASE ReserveLock(w)
    BY <1>3 DEF ReserveLock, LockEvent, Inv, StoreTypes, WorkerPcs
  <1>4. CASE ReserveRefuse(w)
    <2>1. pc' = [pc EXCEPT ![w] = "idle"] /\ reply' \in [Workers -> Seq(Nat)]
      BY <1>4, Finishes, OneNumber DEF ReserveRefuse, Inv
    <2> QED
      BY <1>4, <2>1 DEF ReserveRefuse, UnlockEvent, Inv, StoreTypes, WorkerPcs
  <1>5. CASE ReserveAccept(w)
    <2> DEFINE a == found[w]
               e == [event[a] EXCEPT !.reservations = event[a].reservations + 1]
    <2>1. a \in Node /\ EventOK(event[a])
      BY <1>5, FoundEvent DEF ReserveAccept, EventPcs
    <2>2. /\ event' = [event EXCEPT ![a] = e]
          /\ resId' = [resId EXCEPT ![w] = event[a].reservations + 1]
          /\ idx' = [idx EXCEPT ![w] = 1]
      BY <1>5 DEF ReserveAccept
    <2>3. EventOK(e)
      BY SMTT(30), <2>1 DEF EventOK
    <2>4. DOMAIN event' = Node /\ \A b \in Node : EventOK(event'[b])
      BY <2>2, <2>3 DEF Inv, StoreTypes
    <2>5. resId' \in [Workers -> Nat] /\ idx' \in [Threads -> Nat]
      <3>1. idx \in [Threads -> Nat] /\ resId \in [Workers -> Nat]
        BY DEF Inv, StoreTypes
      <3>2. event[a].reservations \in Nat
        BY <2>1 DEF EventOK
      <3> QED
        BY SMTT(30), <2>2, <3>1, <3>2
    <2> QED
      BY <1>5, <2>4, <2>5 DEF ReserveAccept, Inv, StoreTypes, WorkerPcs
  <1>6. CASE ReserveSeat(w)
    <2> DEFINE a == found[w]
               i == seat_index(event[a], request[w].seats[idx[w]])
               e == [event[a] EXCEPT !.data = [event[a].data EXCEPT ![i] = resId[w]]]
    <2>1. a \in Node /\ EventOK(event[a]) /\ resId[w] \in Nat
      BY <1>6, WorkerTypes, FoundEvent DEF ReserveSeat, EventPcs, Inv
    <2>2. event' = [event EXCEPT ![a] = e] /\ idx' = [idx EXCEPT ![w] = idx[w] + 1]
      BY <1>6 DEF ReserveSeat
    <2>3. EventOK(e)
      BY <2>1, SeatWriteOK
    <2>4. DOMAIN event' = Node /\ \A b \in Node : EventOK(event'[b])
      BY <2>2, <2>3 DEF Inv, StoreTypes
    <2>5. idx' \in [Threads -> Nat]
      <3>1. idx \in [Threads -> Nat] /\ idx[w] \in Nat
        BY WorkerTypes DEF Inv, StoreTypes
      <3> QED
        BY <2>2, <3>1
    <2> QED
      BY <1>6, <2>4, <2>5 DEF ReserveSeat, Inv, StoreTypes, WorkerPcs
  <1>7. CASE ReserveDone(w)
    <2>1. pc' = [pc EXCEPT ![w] = "idle"] /\ reply' \in [Workers -> Seq(Nat)]
      BY <1>7, Finishes, OneNumber DEF ReserveDone, Inv
    <2> QED
      BY <1>7, <2>1 DEF ReserveDone, UnlockEvent, Inv, StoreTypes, WorkerPcs
  <1> QED
    BY <1>1, <1>2, <1>3, <1>4, <1>5, <1>6, <1>7 DEF Reserve

\* ems_show keeps the type invariant.
LEMMA TypeShow ==
  ASSUME Inv, NEW w \in Workers, Show(w)
  PROVE  StoreTypes'
  <1> USE StoreAssumption
  <1> USE DEF Threads, Node, NULL, Goto, listVars, rwlVars, localVars, printVars
  <1>1. CASE ShowRdlock(w)
    BY <1>1 DEF ShowRdlock, Rdlock, Inv, StoreTypes, WorkerPcs
  <1>2. CASE ShowLookup(w)
    <2>1. get_event(request[w].id) \in 0..linked
      <3>1. get_event(request[w].id) \in 0..tail
        BY GetEvent DEF Inv
      <3> QED
        BY <3>1 DEF Inv, StoreTypes
    <2>2. found' = [found EXCEPT ![w] = get_event(request[w].id)]
      BY <1>2 DEF ShowLookup
    <2>3. \/ Finish(w, <<1>>)
          \/ pc' = [pc EXCEPT ![w] = "show_lock"] /\ UNCHANGED reply
      BY <1>2 DEF ShowLookup
    <2>4. /\ \/ pc' = [pc EXCEPT ![w] = "show_lock"]
             \/ pc' = [pc EXCEPT ![w] = "idle"]
          /\ reply' \in [Workers -> Seq(Nat)]
      BY <2>3, Finishes, OneNumber DEF Inv, StoreTypes
    <2>5. UNCHANGED <<listVars, current, to, idx, resId, printVars, writer, request, left>>
          /\ readers' \subseteq readers
      BY <1>2 DEF ShowLookup, Rdunlock
    <2> QED
      BY ZenonT(60), <2>1, <2>2, <2>4, <2>5 DEF Inv, StoreTypes, WorkerPcs
  <1>3. CASE ShowLock(w)
    <2>1. event[found[w]].rows \in Nat /\ event[found[w]].cols \in Nat
      BY <1>3, FoundEvent DEF ShowLock, EventPcs, EventOK
    <2>2. <<0, event[found[w]].rows, event[found[w]].cols>> \in Seq(Nat)
      BY <2>1
    <2> QED
      BY <1>3, <2>2 DEF ShowLock, LockEvent, Inv, StoreTypes, WorkerPcs
  <1>4. CASE ShowSeat(w)
    <2> DEFINE e == event[found[w]]
    <2>1. EventOK(e) /\ idx[w] \in Nat /\ reply[w] \in Seq(Nat) /\ idx[w] < e.rows * e.cols
      BY <1>4, FoundEvent, WorkerTypes DEF ShowSeat, EventPcs, Inv
    <2>2. e.data[idx[w]] \in Nat
      <3>1. e.rows * e.cols \in Nat
        BY <2>1 DEF EventOK
      <3> QED
        BY <2>1, <3>1 DEF EventOK
    <2>3. Append(reply[w], e.data[idx[w]]) \in Seq(Nat)
      BY <2>1, <2>2
    <2>4. reply' \in [Workers -> Seq(Nat)] /\ idx' \in [Threads -> Nat]
      <3>1. /\ reply' = [reply EXCEPT ![w] = Append(reply[w], e.data[idx[w]])]
            /\ idx' = [idx EXCEPT ![w] = idx[w] + 1]
        BY <1>4 DEF ShowSeat
      <3>2. reply \in [Workers -> Seq(Nat)] /\ idx \in [Threads -> Nat]
        BY DEF Inv, StoreTypes
      <3> QED
        BY <2>1, <2>3, <3>1, <3>2
    <2> QED
      BY <1>4, <2>4 DEF ShowSeat, Inv, StoreTypes
  <1>5. CASE ShowDone(w)
    <2>1. pc' = [pc EXCEPT ![w] = "idle"] /\ reply' \in [Workers -> Seq(Nat)]
      BY <1>5, Finishes, OneNumber DEF ShowDone, Inv
    <2> QED
      BY <1>5, <2>1 DEF ShowDone, UnlockEvent, Inv, StoreTypes, WorkerPcs
  <1> QED
    BY <1>1, <1>2, <1>3, <1>4, <1>5 DEF Show

\* ems_list_events keeps the type invariant.
LEMMA TypeList ==
  ASSUME Inv, NEW w \in Workers, List(w)
  PROVE  StoreTypes'
  <1> USE StoreAssumption
  <1> USE DEF Threads, Node, NULL, Goto, listVars, rwlVars, localVars, printVars
  <1>1. CASE ListRdlock(w)
    BY <1>1 DEF ListRdlock, Rdlock, Inv, StoreTypes, WorkerPcs
  <1>2. CASE ListEmpty(w)
    <2>1. pc' = [pc EXCEPT ![w] = "idle"] /\ reply' \in [Workers -> Seq(Nat)]
      BY <1>2, Finishes, OneNumber DEF ListEmpty, Inv
    <2> QED
      BY <1>2, <2>1 DEF ListEmpty, Rdunlock, Inv, StoreTypes, WorkerPcs
  <1>3. CASE ListCount(w)
    <2>1. tail \in Nat /\ tail \in 0..linked /\ head \in 0..linked
      BY <1>3 DEF ListCount, head, Inv, StoreTypes
    <2>2. <<0, tail>> \in Seq(Nat)
      BY <2>1
    <2>3. /\ to' = [to EXCEPT ![w] = tail]
          /\ current' = [current EXCEPT ![w] = head]
          /\ reply' = [reply EXCEPT ![w] = <<0, tail>>]
          /\ pc' = [pc EXCEPT ![w] = "list_send"]
          /\ UNCHANGED <<listVars, rwlVars, found, idx, resId, printVars, request, left>>
      BY <1>3 DEF ListCount
    <2> QED
      BY <2>1, <2>2, <2>3 DEF Inv, StoreTypes, WorkerPcs
  <1>4. CASE ListSend(w)
    <2>1. current[w] \in 1..to[w] /\ to[w] \in 0..linked /\ linked \in 0..MaxEvents
      BY <1>4 DEF ListSend, Inv, StoreTypes, WorkFitsRequest
    <2>2. event[current[w]].id \in Nat
      <3>1. current[w] \in 1..linked
        BY <2>1
      <3> QED
        BY <3>1, IdTypes DEF Inv
    <2>3. Append(reply[w], event[current[w]].id) \in Seq(Nat)
      BY <2>2, WorkerTypes DEF Inv
    <2>4. /\ reply' = [reply EXCEPT ![w] = Append(reply[w], event[current[w]].id)]
          /\ \/ readers' \subseteq readers /\ pc' = [pc EXCEPT ![w] = "idle"] /\ UNCHANGED current
             \/ /\ current[w] # to[w]
                /\ current' = [current EXCEPT ![w] = current[w] + 1]
                /\ UNCHANGED <<readers, pc>>
          /\ UNCHANGED <<listVars, found, to, idx, resId, printVars, request, left, writer>>
      BY <1>4 DEF ListSend, Rdunlock
    <2>5. current' \in [Threads -> 0..linked]
      <3>1. current \in [Threads -> 0..linked]
        BY DEF Inv, StoreTypes
      <3>2. current[w] # to[w] => current[w] + 1 \in 0..linked
        BY <2>1
      <3> QED
        BY <2>4, <3>1, <3>2
    <2> QED
      BY <2>3, <2>4, <2>5 DEF Inv, StoreTypes, WorkerPcs
  <1> QED
    BY <1>1, <1>2, <1>3, <1>4 DEF List

\* print_events and ems_show_stdout keep the type invariant.
LEMMA TypePrint ==
  ASSUME Inv, PrintTail \/ PrintEvents
  PROVE  StoreTypes'
  <1> USE StoreAssumption
  <1> USE DEF Threads, Node, NULL, Goto, listVars, rwlVars, localVars, printVars
  <1>1. CASE PrintTail
    <2>1. tail \in 0..linked /\ <<>> \in Seq(Nat) /\ left[Main] - 1 \in Nat
      <3>1. left[Main] \in Nat
        BY DEF Inv, StoreTypes
      <3>2. left[Main] > 0
        BY <1>1 DEF PrintTail
      <3> QED
        BY <3>1, <3>2, ListTypes, OneNumber DEF Inv
    <2> QED
      BY <1>1, <2>1 DEF PrintTail, Inv, StoreTypes, MainPcs
  <1>2. CASE PrintHead
    <2>1. head \in 0..linked
      BY DEF head, Inv, StoreTypes
    <2>2. /\ current' = [current EXCEPT ![Main] = head]
          /\ \/ pc' = [pc EXCEPT ![Main] = "idle"]
             \/ pc' = [pc EXCEPT ![Main] = "print_node"]
          /\ UNCHANGED <<listVars, rwlVars, found, to, idx, resId, request, reply, printVars, left>>
      BY <1>2 DEF PrintHead
    <2> QED
      BY <2>1, <2>2 DEF Inv, StoreTypes, MainPcs
  <1>3. CASE PrintEnd
    BY <1>3 DEF PrintEnd, Inv, StoreTypes, MainPcs
  <1>4. CASE PrintId
    <2>1. current[Main] \in 0..linked /\ linked \in 0..MaxEvents /\ current[Main] # 0
      BY <1>4 DEF PrintId, Inv, StoreTypes
    <2>2. event[current[Main]].id \in Nat
      <3>1. current[Main] \in 1..linked
        BY <2>1
      <3> QED
        BY <3>1, IdTypes DEF Inv
    <2>3. printed' \in Seq(Nat)
      BY <1>4, <2>2 DEF PrintId, Inv, StoreTypes
    <2> QED
      BY <1>4, <2>3 DEF PrintId, Inv, StoreTypes, MainPcs
  <1>5. CASE StdoutRdlock
    BY <1>5 DEF StdoutRdlock, Rdlock, Inv, StoreTypes, MainPcs
  <1>6. CASE StdoutLookup
    <2> DEFINE a == get_event(event[current[Main]].id)
    <2>1. a \in 0..linked
      <3>1. a \in 0..tail
        BY GetEvent DEF Inv
      <3> QED
        BY <3>1 DEF Inv, StoreTypes
    <2>2. /\ found' = [found EXCEPT ![Main] = a]
          /\ \/ pc' = [pc EXCEPT ![Main] = "idle"]
             \/ pc' = [pc EXCEPT ![Main] = "stdout_lock"]
          /\ readers' \subseteq readers
          /\ UNCHANGED <<listVars, current, to, idx, resId, printVars, writer, request, reply, left>>
      BY <1>6 DEF StdoutLookup, Rdunlock
    <2> QED
      BY <2>1, <2>2 DEF Inv, StoreTypes, MainPcs
  <1>7. CASE StdoutLock
    BY <1>7 DEF StdoutLock, LockEvent, Inv, StoreTypes, MainPcs
  <1>8. CASE StdoutSeats
    BY <1>8 DEF StdoutSeats, UnlockEvent, Inv, StoreTypes, MainPcs
  <1>9. CASE PrintNext
    <2>1. /\ current \in [Threads -> 0..linked]
          /\ current[Main] < linked => current[Main] + 1 \in 0..linked
          /\ 0 \in 0..linked
      <3>1. current \in [Threads -> 0..linked] /\ current[Main] \in 0..linked
        BY DEF Inv, StoreTypes
      <3> QED
        BY <3>1, ListTypes DEF Inv
    <2>2. current' = [current EXCEPT ![Main] = IF current[Main] < linked THEN current[Main] + 1 ELSE 0]
      BY <1>9 DEF PrintNext
    <2>3. current' \in [Threads -> 0..linked]
      BY <2>1, <2>2
    <2> QED
      BY <1>9, <2>3 DEF PrintNext, Inv, StoreTypes, MainPcs
  <1> QED
    BY <1>1, <1>2, <1>3, <1>4, <1>5, <1>6, <1>7, <1>8, <1>9 DEF PrintEvents

\* Receiving a request keeps the type invariant.
LEMMA TypeReceive ==
  ASSUME Inv, NEW w \in Workers, NEW r \in Request, Receive(w, r)
  PROVE  StoreTypes'
  <1>1. Entry(r.op) \in WorkerPcs
    BY DEF Request, Entry, WorkerPcs
  <1>2. left[w] - 1 \in Nat
    <2>1. left[w] \in Nat
      BY DEF Inv, StoreTypes, Threads
    <2>2. left[w] > 0
      BY DEF Receive
    <2> QED
      BY <2>1, <2>2
  <1>3. <<>> \in Seq(Nat)
    BY OneNumber
  <1> QED
    BY <1>1, <1>2, <1>3, StoreAssumption
    DEF Receive, Goto, Threads, listVars, rwlVars, localVars, printVars, Inv, StoreTypes

\* A move to a label that is inside S exactly if the label left is.
Keeps(S, t, label) == pc[t] \in S <=> label \in S

\* No thread that holds a mutex changes the event it holds.
SameEvents == \A t \in Threads : pc[t] \in MutexPcs => found'[t] = found[t]

\* A step that stays inside, or outside, every locked region and touches no
\* lock keeps the locks where the code says.
LEMMA NoLockMoves ==
  ASSUME StoreTypes, LocksFollowCode, NEW t \in Threads, NEW label, Goto(t, label),
         UNCHANGED <<writer, readers, mutex>>, SameEvents,
         Keeps(CreatePcs, t, label), Keeps(ReadPcs, t, label), Keeps(MutexPcs, t, label)
  PROVE  LocksFollowCode'
  <1>1. \A u \in Threads : /\ pc'[u] \in CreatePcs <=> pc[u] \in CreatePcs
                           /\ pc'[u] \in ReadPcs <=> pc[u] \in ReadPcs
                           /\ pc'[u] \in MutexPcs <=> pc[u] \in MutexPcs
                           /\ pc[u] \in MutexPcs => found'[u] = found[u]
    BY DEF StoreTypes, Goto, Keeps, SameEvents
  <1> QED
    BY <1>1 DEF LocksFollowCode, Threads

\* Taking the write lock on entering ems_create keeps the locks where the
\* code says.
LEMMA WriteLocks ==
  ASSUME StoreAssumption, StoreTypes, LocksFollowCode, NEW w \in Workers, NEW label, Goto(w, label),
         Wrlock(w), UNCHANGED mutex, SameEvents,
         label \in CreatePcs, label \notin ReadPcs, pc[w] \notin ReadPcs, Keeps(MutexPcs, w, label)
  PROVE  LocksFollowCode'
  <1>1. \A u \in Threads : /\ pc'[u] \in CreatePcs <=> (pc[u] \in CreatePcs \/ u = w)
                           /\ pc'[u] \in ReadPcs <=> pc[u] \in ReadPcs
                           /\ pc'[u] \in MutexPcs <=> pc[u] \in MutexPcs
                           /\ pc[u] \in MutexPcs => found'[u] = found[u]
    BY DEF StoreTypes, Goto, Keeps, SameEvents, Threads
  <1> QED
    BY <1>1 DEF LocksFollowCode, Wrlock, Threads, StoreAssumption

\* So does releasing it on leaving.
LEMMA WriteUnlocks ==
  ASSUME StoreTypes, LocksFollowCode, NEW w \in Workers, NEW label, Goto(w, label),
         Wrunlock, UNCHANGED mutex, SameEvents, pc[w] \in CreatePcs,
         label \notin CreatePcs, label \notin ReadPcs, pc[w] \notin ReadPcs, Keeps(MutexPcs, w, label)
  PROVE  LocksFollowCode'
  <1>1. \A u \in Threads : /\ pc'[u] \in CreatePcs <=> (pc[u] \in CreatePcs /\ u # w)
                           /\ pc'[u] \in ReadPcs <=> pc[u] \in ReadPcs
                           /\ pc'[u] \in MutexPcs <=> pc[u] \in MutexPcs
                           /\ pc[u] \in MutexPcs => found'[u] = found[u]
    BY DEF StoreTypes, Goto, Keeps, SameEvents, Threads
  <1> QED
    BY <1>1, StoreAssumption DEF LocksFollowCode, Wrunlock, Threads

\* So does taking the read lock.
LEMMA ReadLocks ==
  ASSUME StoreTypes, LocksFollowCode, NEW t \in Threads, NEW label, Goto(t, label),
         Rdlock(t), UNCHANGED mutex, SameEvents,
         label \in ReadPcs, label \notin CreatePcs, pc[t] \notin CreatePcs, Keeps(MutexPcs, t, label)
  PROVE  LocksFollowCode'
  <1>1. \A u \in Threads : /\ pc'[u] \in CreatePcs <=> pc[u] \in CreatePcs
                           /\ pc'[u] \in ReadPcs <=> (pc[u] \in ReadPcs \/ u = t)
                           /\ pc'[u] \in MutexPcs <=> pc[u] \in MutexPcs
                           /\ pc[u] \in MutexPcs => found'[u] = found[u]
    BY DEF StoreTypes, Goto, Keeps, SameEvents
  <1> QED
    BY <1>1 DEF LocksFollowCode, Rdlock, Threads

\* So does releasing it.
LEMMA ReadUnlocks ==
  ASSUME StoreTypes, LocksFollowCode, NEW t \in Threads, NEW label, Goto(t, label),
         Rdunlock(t), UNCHANGED mutex, SameEvents,
         label \notin ReadPcs, label \notin CreatePcs, pc[t] \notin CreatePcs, Keeps(MutexPcs, t, label)
  PROVE  LocksFollowCode'
  <1>1. \A u \in Threads : /\ pc'[u] \in CreatePcs <=> pc[u] \in CreatePcs
                           /\ pc'[u] \in ReadPcs <=> (pc[u] \in ReadPcs /\ u # t)
                           /\ pc'[u] \in MutexPcs <=> pc[u] \in MutexPcs
                           /\ pc[u] \in MutexPcs => found'[u] = found[u]
    BY DEF StoreTypes, Goto, Keeps, SameEvents
  <1> QED
    BY <1>1 DEF LocksFollowCode, Rdunlock, Threads

\* So does locking the mutex of the event that was found.
LEMMA MutexLocks ==
  ASSUME StoreTypes, LocksFollowCode, NEW t \in Threads, NEW label, Goto(t, label),
         found[t] \in Node, LockEvent(t, found[t]), UNCHANGED <<writer, readers, found>>,
         label \in MutexPcs, pc[t] \notin MutexPcs,
         Keeps(CreatePcs, t, label), Keeps(ReadPcs, t, label)
  PROVE  LocksFollowCode'
  <1>1. \A u \in Threads : /\ pc'[u] \in CreatePcs <=> pc[u] \in CreatePcs
                           /\ pc'[u] \in ReadPcs <=> pc[u] \in ReadPcs
                           /\ pc'[u] \in MutexPcs <=> (pc[u] \in MutexPcs \/ u = t)
    BY DEF StoreTypes, Goto, Keeps
  <1>2. \A a \in Node : mutex'[a] = IF a = found[t] THEN t ELSE mutex[a]
    BY DEF LockEvent, StoreTypes
  <1>3. mutex[found[t]] = NoThread
    BY DEF LockEvent
  <1>4. \A a \in Node, u \in Threads : mutex'[a] = u <=> pc'[u] \in MutexPcs /\ found'[u] = a
    BY <1>1, <1>2, <1>3, StoreAssumption DEF LocksFollowCode
  <1> QED
    BY <1>1, <1>4 DEF LocksFollowCode, Threads

\* So does unlocking it.
LEMMA MutexUnlocks ==
  ASSUME StoreTypes, LocksFollowCode, NEW t \in Threads, NEW label, Goto(t, label),
         found[t] \in Node, UnlockEvent(found[t]), UNCHANGED <<writer, readers, found>>,
         label \notin MutexPcs, pc[t] \in MutexPcs,
         Keeps(CreatePcs, t, label), Keeps(ReadPcs, t, label)
  PROVE  LocksFollowCode'
  <1>1. \A u \in Threads : /\ pc'[u] \in CreatePcs <=> pc[u] \in CreatePcs
                           /\ pc'[u] \in ReadPcs <=> pc[u] \in ReadPcs
                           /\ pc'[u] \in MutexPcs <=> (pc[u] \in MutexPcs /\ u # t)
    BY DEF StoreTypes, Goto, Keeps
  <1>2. \A a \in Node : mutex'[a] = IF a = found[t] THEN NoThread ELSE mutex[a]
    BY DEF UnlockEvent, StoreTypes
  <1>3. mutex[found[t]] = t
    BY DEF LocksFollowCode
  <1>4. \A a \in Node, u \in Threads : mutex'[a] = u <=> pc'[u] \in MutexPcs /\ found'[u] = a
    BY <1>1, <1>2, <1>3, StoreAssumption DEF LocksFollowCode
  <1> QED
    BY <1>1, <1>4 DEF LocksFollowCode, Threads

\* A step of the worker w, or of the main thread.
StepOf(w) ==
  Work(w) \/ PrintTail \/ PrintEvents \/ \E r \in Request : Receive(w, r)

\* Every step of the store leaves each lock held exactly on the lines between
\* its lock and its unlock.
LEMMA LockStep ==
  ASSUME Inv, NEW w \in Workers, StepOf(w)
  PROVE  LocksFollowCode'
  <1> USE StoreAssumption DEF Keeps, SameEvents, CreatePcs, ReadPcs, MutexPcs, Threads
  <1> USE DEF listVars, rwlVars, localVars, printVars, Inv
  <1>1. CASE CreateWrlock(w)
    BY <1>1, WriteLocks DEF CreateWrlock
  <1>2. CASE CreateRefuse(w)
    BY <1>2, WriteUnlocks DEF CreateRefuse, Finish
  <1>3. CASE CreateEvent(w)
    BY <1>3, NoLockMoves DEF CreateEvent
  <1>4. CASE CreateLink(w)
    BY <1>4, NoLockMoves DEF CreateLink
  <1>5. CASE CreateTail(w)
    BY <1>5, WriteUnlocks DEF CreateTail, Finish
  <1>6. CASE ReserveRdlock(w)
    BY <1>6, ReadLocks DEF ReserveRdlock
  <1>7. CASE ReserveLookup(w)
    BY <1>7, ReadUnlocks DEF ReserveLookup, Finish
  <1>8. CASE ReserveLock(w)
    BY <1>8, MutexLocks, FoundEvent DEF ReserveLock, EventPcs
  <1>9. CASE ReserveRefuse(w)
    BY <1>9, MutexUnlocks, FoundEvent DEF ReserveRefuse, EventPcs, Finish
  <1>10. CASE ReserveAccept(w)
    BY <1>10, NoLockMoves DEF ReserveAccept
  <1>11. CASE ReserveSeat(w)
    BY <1>11 DEF ReserveSeat, LocksFollowCode
  <1>12. CASE ReserveDone(w)
    BY <1>12, MutexUnlocks, FoundEvent DEF ReserveDone, EventPcs, Finish
  <1>13. CASE ShowRdlock(w)
    BY <1>13, ReadLocks DEF ShowRdlock
  <1>14. CASE ShowLookup(w)
    BY <1>14, ReadUnlocks DEF ShowLookup, Finish
  <1>15. CASE ShowLock(w)
    BY <1>15, MutexLocks, FoundEvent DEF ShowLock, EventPcs
  <1>16. CASE ShowSeat(w)
    BY <1>16 DEF ShowSeat, LocksFollowCode
  <1>17. CASE ShowDone(w)
    BY <1>17, MutexUnlocks, FoundEvent DEF ShowDone, EventPcs, Finish
  <1>18. CASE ListRdlock(w)
    BY <1>18, ReadLocks DEF ListRdlock
  <1>19. CASE ListEmpty(w)
    BY <1>19, ReadUnlocks DEF ListEmpty, Finish
  <1>20. CASE ListCount(w)
    BY <1>20, NoLockMoves DEF ListCount
  <1>21. CASE ListSend(w)
    <2>1. CASE current[w] = to[w]
      BY <1>21, <2>1, ReadUnlocks DEF ListSend
    <2>2. CASE current[w] # to[w]
      BY <1>21, <2>2 DEF ListSend, LocksFollowCode
    <2> QED
      BY <2>1, <2>2
  <1>22. CASE PrintTail
    BY <1>22, NoLockMoves DEF PrintTail
  <1>23. CASE PrintHead
    BY <1>23, NoLockMoves DEF PrintHead
  <1>24. CASE PrintEnd
    BY <1>24, NoLockMoves DEF PrintEnd
  <1>25. CASE PrintId
    BY <1>25, NoLockMoves DEF PrintId
  <1>26. CASE StdoutRdlock
    BY <1>26, ReadLocks DEF StdoutRdlock
  <1>27. CASE StdoutLookup
    BY <1>27, ReadUnlocks DEF StdoutLookup
  <1>28. CASE StdoutLock
    BY <1>28, MutexLocks, FoundEvent DEF StdoutLock, EventPcs
  <1>29. CASE StdoutSeats
    BY <1>29, MutexUnlocks, FoundEvent DEF StdoutSeats, EventPcs
  <1>30. CASE PrintNext
    BY <1>30, NoLockMoves DEF PrintNext
  <1>31. CASE \E r \in Request : Receive(w, r)
    BY <1>31, NoLockMoves DEF Receive, Entry, Request
  <1> QED
    BY <1>1, <1>2, <1>3, <1>4, <1>5, <1>6, <1>7, <1>8, <1>9, <1>10, <1>11, <1>12, <1>13, <1>14, <1>15, <1>16, <1>17, <1>18, <1>19, <1>20, <1>21, <1>22, <1>23, <1>24, <1>25, <1>26, <1>27, <1>28, <1>29, <1>30, <1>31 DEF StepOf, Work, Create, Reserve, Show, List, PrintEvents

\* Accepting a reservation changes one event of the list, and in it only the
\* counter (operations.c:232).
LEMMA AcceptEffect ==
  ASSUME Inv, NEW w \in Workers, ReserveAccept(w)
  PROVE  LET a == found[w] IN
         /\ a \in 1..linked /\ a \in Node /\ EventOK(event[a]) /\ EventOK(event'[a])
         /\ event'[a].id = event[a].id
         /\ event'[a].rows = event[a].rows
         /\ event'[a].cols = event[a].cols
         /\ event'[a].data = event[a].data
         /\ event'[a].reservations = event[a].reservations + 1
         /\ \A b \in Node : b # a => event'[b] = event[b]
  <1> DEFINE a == found[w]
             e == [event[a] EXCEPT !.reservations = event[a].reservations + 1]
  <1>1. a \in 1..linked /\ a \in Node /\ EventOK(event[a])
    BY FoundEvent DEF ReserveAccept, EventPcs, Threads
  <1>2. event' = [event EXCEPT ![a] = e]
    BY DEF ReserveAccept
  <1>3. EventOK(e)
    BY <1>1 DEF EventOK
  <1>4. event'[a] = e /\ \A b \in Node : b # a => event'[b] = event[b]
    BY <1>1, <1>2 DEF Inv, StoreTypes
  <1> QED
    BY <1>1, <1>3, <1>4 DEF EventOK

\* The seat a worker writes next.
SeatOf(w) == seat_index(event[found[w]], request[w].seats[idx[w]])

\* Writing a seat changes one event of the list, and in it only that seat
\* (operations.c:234-236).
LEMMA SeatEffect ==
  ASSUME Inv, NEW w \in Workers, ReserveSeat(w)
  PROVE  LET a == found[w] IN
         /\ a \in 1..linked /\ a \in Node /\ EventOK(event[a]) /\ EventOK(event'[a])
         /\ event'[a].id = event[a].id
         /\ event'[a].rows = event[a].rows
         /\ event'[a].cols = event[a].cols
         /\ event'[a].data = [event[a].data EXCEPT ![SeatOf(w)] = resId[w]]
         /\ event'[a].reservations = event[a].reservations
         /\ \A b \in Node : b # a => event'[b] = event[b]
  <1> DEFINE a == found[w]
             e == [event[a] EXCEPT !.data = [event[a].data EXCEPT ![SeatOf(w)] = resId[w]]]
  <1>1. a \in 1..linked /\ a \in Node /\ EventOK(event[a]) /\ resId[w] \in Nat
    BY FoundEvent, WorkerTypes DEF ReserveSeat, EventPcs, Threads, Inv
  <1>2. event' = [event EXCEPT ![a] = e]
    BY DEF ReserveSeat, SeatOf
  <1>3. EventOK(e)
    BY <1>1, SeatWriteOK
  <1>4. event'[a] = e /\ \A b \in Node : b # a => event'[b] = event[b]
    BY <1>1, <1>2 DEF Inv, StoreTypes
  <1> QED
    BY <1>1, <1>3, <1>4 DEF EventOK

\* A new event is built behind the end of the list and leaves the events of
\* the list alone (operations.c:122-148).
LEMMA CreateEffect ==
  ASSUME Inv, NEW w \in Workers, CreateEvent(w)
  PROVE  /\ linked < MaxEvents
         /\ event'[linked + 1] = NewEvent(request[w])
         /\ \A b \in 1..linked : event[b].id # request[w].id /\ event'[b] = event[b]
  <1>1. tail = linked
    BY DEF CreateEvent, Inv, ListWellFormed, LocksFollowCode, CreatePcs
  <1>2. \A b \in 1..tail : event[b].id # request[w].id
    BY GetEvent DEF CreateEvent, Inv
  <1>3. event' = [event EXCEPT ![linked + 1] = NewEvent(request[w])] /\ linked < MaxEvents
    BY DEF CreateEvent
  <1>4. linked \in Nat /\ DOMAIN event = 1..MaxEvents
    BY StoreAssumption DEF Inv, StoreTypes, Node
  <1> QED
    BY <1>1, <1>2, <1>3, <1>4, StoreAssumption

(* The events of the list stay where they are, with their ids. *)
SameIds ==
  \A b \in Node : /\ b \in 1..linked => event'[b].id = event[b].id
                  /\ b \notin 1..linked => event'[b] = event[b]

\* A step that neither links a node nor enters or leaves append_to_list keeps
\* the list well formed.
LEMMA ListUntouched ==
  ASSUME Inv, NEW t \in Threads, NEW label, Goto(t, label),
         UNCHANGED <<linked, tail>>, SameIds,
         pc[t] \notin {"create_link", "create_tail"}, label \notin {"create_link", "create_tail"},
         \A w \in Workers : w # t => request'[w] = request[w]
  PROVE  ListWellFormed'
  <1>1. \A u \in Threads : /\ pc'[u] = "create_link" => pc[u] = "create_link" /\ u # t
                           /\ pc'[u] = "create_tail" <=> pc[u] = "create_tail"
    BY DEF Inv, StoreTypes, Goto
  <1>2. ASSUME NEW w \in Workers, pc'[w] = "create_link"
        PROVE  /\ linked' < MaxEvents
               /\ event'[linked' + 1] = NewEvent(request'[w])
               /\ \A a \in 1..linked' : event'[a].id # request'[w].id
    <2>1. pc[w] = "create_link" /\ request'[w] = request[w]
      BY <1>1, <1>2 DEF Threads
    <2>2. linked \in Nat /\ 1..linked \subseteq Node /\ (linked < MaxEvents => linked + 1 \in Node)
      BY ListTypes, StoreAssumption DEF Inv, Node
    <2>3. /\ linked < MaxEvents
          /\ event[linked + 1] = NewEvent(request[w])
          /\ \A a \in 1..linked : event[a].id # request[w].id
      BY <2>1 DEF Inv, ListWellFormed
    <2> QED
      BY <2>1, <2>2, <2>3 DEF SameIds
  <1>3. (\E w \in Workers : pc'[w] = "create_tail") <=> (\E w \in Workers : pc[w] = "create_tail")
    BY <1>1 DEF Threads
  <1> QED
    BY <1>1, <1>2, <1>3 DEF Inv, ListWellFormed, Threads

\* A step that changes no program counter goes to where the thread is.
LEMMA Stays ==
  ASSUME StoreTypes, NEW t \in Threads, UNCHANGED pc
  PROVE  Goto(t, pc[t])
  BY DEF StoreTypes, Goto

\* The write lock admits one worker to ems_create at a time.
LEMMA OneCreator ==
  ASSUME Inv, NEW w \in Workers, pc[w] \in CreatePcs
  PROVE  \A v \in Workers : v # w => pc[v] \notin CreatePcs
  BY DEF Inv, LocksFollowCode

\* Every step keeps the list well formed.
LEMMA ListStep ==
  ASSUME Inv, NEW w \in Workers, StepOf(w)
  PROVE  ListWellFormed'
  <1> USE StoreAssumption DEF listVars, rwlVars, localVars, printVars
  <1>1. CASE CreateWrlock(w)
    BY <1>1, ListUntouched DEF CreateWrlock, SameIds, Threads
  <1>2. CASE CreateRefuse(w)
    BY <1>2, ListUntouched DEF CreateRefuse, Finish, SameIds, Threads
  <1>3. CASE CreateEvent(w)
    <2>1. /\ \A v \in Workers : v # w => pc'[v] \notin {"create_link", "create_tail"}
          /\ pc'[w] = "create_link"
          /\ tail = linked
      BY <1>3, OneCreator DEF CreateEvent, CreatePcs, Goto, Threads, Inv, StoreTypes, ListWellFormed
    <2>2. UNCHANGED <<linked, tail, request>>
      BY <1>3 DEF CreateEvent
    <2> QED
      BY <1>3, <2>1, <2>2, CreateEffect DEF ListWellFormed
  <1>4. CASE CreateLink(w)
    <2>1. /\ \A v \in Workers : pc'[v] # "create_link"
          /\ pc'[w] = "create_tail"
      BY <1>4, OneCreator DEF CreateLink, CreatePcs, Goto, Threads, Inv, StoreTypes
    <2>2. tail = linked
      BY <1>4, OneCreator DEF CreateLink, CreatePcs, Inv, ListWellFormed
    <2>3. linked \in Nat
      BY DEF Inv, StoreTypes
    <2>4. tail' = tail /\ linked' = linked + 1
      BY <1>4 DEF CreateLink
    <2> QED
      BY <2>1, <2>2, <2>3, <2>4 DEF ListWellFormed
  <1>5. CASE CreateTail(w)
    <2>1. \A v \in Workers : pc'[v] \notin {"create_link", "create_tail"}
      BY <1>5, OneCreator DEF CreateTail, CreatePcs, Finish, Goto, Threads, Inv, StoreTypes
    <2>2. linked' = linked /\ tail' = linked
      BY <1>5 DEF CreateTail
    <2> QED
      BY <2>1, <2>2 DEF ListWellFormed
  <1>6. CASE ReserveRdlock(w)
    BY <1>6, ListUntouched DEF ReserveRdlock, SameIds, Threads
  <1>7. CASE ReserveLookup(w)
    BY <1>7, ListUntouched DEF ReserveLookup, Finish, SameIds, Threads
  <1>8. CASE ReserveLock(w)
    BY <1>8, ListUntouched DEF ReserveLock, SameIds, Threads
  <1>9. CASE ReserveRefuse(w)
    BY <1>9, ListUntouched DEF ReserveRefuse, Finish, SameIds, Threads
  <1>10. CASE ReserveAccept(w)
    BY <1>10, AcceptEffect, ListUntouched DEF ReserveAccept, SameIds, Threads
  <1>11. CASE ReserveSeat(w)
    <2>1. Goto(w, "reserve_write") /\ pc[w] = "reserve_write"
      BY <1>11, Stays DEF ReserveSeat, Inv, Threads
    <2>2. UNCHANGED <<linked, tail, request>>
      BY <1>11 DEF ReserveSeat
    <2>3. SameIds
      BY <1>11, SeatEffect DEF SameIds
    <2> QED
      BY <2>1, <2>2, <2>3, ListUntouched DEF Threads
  <1>12. CASE ReserveDone(w)
    BY <1>12, ListUntouched DEF ReserveDone, Finish, SameIds, Threads
  <1>13. CASE ShowRdlock(w)
    BY <1>13, ListUntouched DEF ShowRdlock, SameIds, Threads
  <1>14. CASE ShowLookup(w)
    BY <1>14, ListUntouched DEF ShowLookup, Finish, SameIds, Threads
  <1>15. CASE ShowLock(w)
    BY <1>15, ListUntouched DEF ShowLock, SameIds, Threads
  <1>16. CASE ShowSeat(w)
    BY <1>16, Stays, ListUntouched DEF ShowSeat, Inv, SameIds, Threads
  <1>17. CASE ShowDone(w)
    BY <1>17, ListUntouched DEF ShowDone, Finish, SameIds, Threads
  <1>18. CASE ListRdlock(w)
    BY <1>18, ListUntouched DEF ListRdlock, SameIds, Threads
  <1>19. CASE ListEmpty(w)
    BY <1>19, ListUntouched DEF ListEmpty, Finish, SameIds, Threads
  <1>20. CASE ListCount(w)
    BY <1>20, ListUntouched DEF ListCount, SameIds, Threads
  <1>21. CASE ListSend(w)
    <2>1. \/ Goto(w, "idle")
          \/ UNCHANGED pc /\ Goto(w, "list_send")
      BY <1>21, Stays DEF ListSend, Inv, Threads
    <2>2. UNCHANGED <<event, linked, tail, request>> /\ pc[w] = "list_send"
      BY <1>21 DEF ListSend
    <2> QED
      BY <2>1, <2>2, ListUntouched DEF SameIds, Threads
  <1>22. CASE PrintTail
    BY <1>22, ListUntouched DEF PrintTail, SameIds, Threads
  <1>23. CASE PrintHead
    BY <1>23, ListUntouched DEF PrintHead, SameIds, Threads
  <1>24. CASE PrintEnd
    BY <1>24, ListUntouched DEF PrintEnd, SameIds, Threads
  <1>25. CASE PrintId
    BY <1>25, ListUntouched DEF PrintId, SameIds, Threads
  <1>26. CASE StdoutRdlock
    BY <1>26, ListUntouched DEF StdoutRdlock, SameIds, Threads
  <1>27. CASE StdoutLookup
    BY <1>27, ListUntouched DEF StdoutLookup, SameIds, Threads
  <1>28. CASE StdoutLock
    BY <1>28, ListUntouched DEF StdoutLock, SameIds, Threads
  <1>29. CASE StdoutSeats
    BY <1>29, ListUntouched DEF StdoutSeats, SameIds, Threads
  <1>30. CASE PrintNext
    BY <1>30, ListUntouched DEF PrintNext, SameIds, Threads
  <1>31. CASE \E r \in Request : Receive(w, r)
    BY <1>31, ListUntouched DEF Receive, Entry, Request, SameIds, Threads
  <1> QED
    BY <1>1, <1>2, <1>3, <1>4, <1>5, <1>6, <1>7, <1>8, <1>9, <1>10, <1>11, <1>12, <1>13, <1>14, <1>15, <1>16, <1>17, <1>18, <1>19, <1>20, <1>21, <1>22, <1>23, <1>24, <1>25, <1>26, <1>27, <1>28, <1>29, <1>30, <1>31 DEF StepOf, Work, Create, Reserve, Show, List, PrintEvents

\* Only four steps change an event or the length of the list.
LEMMA EventFrame ==
  ASSUME NEW w \in Workers, StepOf(w)
  PROVE  \/ UNCHANGED <<event, linked>>
         \/ CreateEvent(w) \/ CreateLink(w) \/ ReserveAccept(w) \/ ReserveSeat(w)
  <1> USE DEF listVars
  <1>1. CASE Create(w)
    BY <1>1 DEF Create, CreateWrlock, CreateRefuse, CreateTail
  <1>2. CASE Reserve(w)
    BY <1>2 DEF Reserve, ReserveRdlock, ReserveLookup, ReserveLock, ReserveRefuse, ReserveDone
  <1>3. CASE Show(w)
    BY <1>3 DEF Show, ShowRdlock, ShowLookup, ShowLock, ShowSeat, ShowDone
  <1>4. CASE List(w)
    BY <1>4 DEF List, ListRdlock, ListEmpty, ListCount, ListSend
  <1>5. CASE PrintTail \/ PrintEvents
    BY <1>5 DEF PrintTail, PrintEvents, PrintHead, PrintEnd, PrintId, PrintNext, StdoutRdlock,
                StdoutLookup, StdoutLock, StdoutSeats
  <1>6. CASE \E r \in Request : Receive(w, r)
    BY <1>6 DEF Receive
  <1> QED
    BY <1>1, <1>2, <1>3, <1>4, <1>5, <1>6 DEF StepOf, Work

\* Every step keeps the ids of the list distinct.
LEMMA IdStep ==
  ASSUME Inv, NEW w \in Workers, StepOf(w)
  PROVE  NoDuplicateIds'
  <1>1. linked \in Nat /\ 1..linked \subseteq Node
    BY ListTypes DEF Inv
  <1>2. CASE UNCHANGED <<event, linked>>
    BY <1>2 DEF Inv, NoDuplicateIds
  <1>3. CASE CreateEvent(w)
    <2>1. linked' = linked /\ \A b \in 1..linked : event'[b] = event[b]
      BY <1>3, CreateEffect DEF CreateEvent
    <2> QED
      BY <2>1 DEF Inv, NoDuplicateIds
  <1>4. CASE CreateLink(w)
    <2>1. /\ linked' = linked + 1
          /\ event' = event
          /\ event[linked + 1].id = request[w].id
          /\ \A b \in 1..linked : event[b].id # request[w].id
      <3>1. pc[w] = "create_link" /\ linked' = linked + 1 /\ event' = event
        BY <1>4 DEF CreateLink
      <3>2. /\ event[linked + 1] = NewEvent(request[w])
            /\ \A b \in 1..linked : event[b].id # request[w].id
        BY <3>1 DEF Inv, ListWellFormed
      <3> QED
        BY <3>1, <3>2 DEF NewEvent
    <2> QED
      BY <1>1, <2>1 DEF Inv, NoDuplicateIds
  <1>5. CASE ReserveAccept(w)
    BY <1>1, <1>5, AcceptEffect DEF ReserveAccept, Inv, NoDuplicateIds
  <1>6. CASE ReserveSeat(w)
    <2>1. linked' = linked /\ \A b \in Node : event'[b].id = event[b].id
      BY <1>6, SeatEffect DEF ReserveSeat
    <2> QED
      BY <1>1, <2>1 DEF Inv, NoDuplicateIds
  <1> QED
    BY <1>2, <1>3, <1>4, <1>5, <1>6, EventFrame

\* Under the read lock the tail is the last node (operations.c:420-440).
LEMMA ListedUnderLock ==
  ASSUME Inv, NEW w \in Workers, pc[w] = "list_head"
  PROVE  tail = linked /\ linked \in Nat
  <1>1. writer = NoThread
    BY DEF Inv, LocksFollowCode, ReadPcs, Threads
  <1>2. \A v \in Workers : pc[v] \notin CreatePcs
    BY <1>1, StoreAssumption DEF Inv, LocksFollowCode, Threads
  <1>3. linked \in Nat
    BY DEF Inv, StoreTypes
  <1> QED
    BY <1>2, <1>3 DEF Inv, ListWellFormed, CreatePcs

\* A node get_event returns is in the list.
LEMMA GetEventLinked ==
  ASSUME Inv, NEW id, get_event(id) # NULL
  PROVE  get_event(id) \in 1..linked
  <1>1. get_event(id) \in 0..tail /\ tail \in 0..linked /\ linked \in Nat
    BY GetEvent DEF Inv, StoreTypes
  <1> QED
    BY <1>1 DEF NULL

\* If one thread moves and its own request, event and walk fit the label it
\* moves to, all still fit.
LEMMA WorkKept ==
  ASSUME Inv, NEW t \in Threads, NEW label, Goto(t, label),
         linked' \in Nat, linked <= linked',
         \A u \in Threads : u # t => /\ found'[u] = found[u]
                                   /\ current'[u] = current[u]
                                   /\ to'[u] = to[u],
         \A w \in Workers : w # t => request'[w] = request[w],
         t \in Workers => request'[t].op \in OpAt(label),
         label \in EventPcs => found'[t] \in 1..linked',
         label = "list_send" => current'[t] \in 1..to'[t]
  PROVE  WorkFitsRequest'
  <1>1. \A u \in Threads : pc'[u] = IF u = t THEN label ELSE pc[u]
    BY DEF Inv, StoreTypes, Goto
  <1>2. WorkFitsRequest /\ 1..linked \subseteq 1..linked'
    BY ListTypes DEF Inv
  <1>3. \A w \in Workers : request'[w].op \in OpAt(pc'[w])
    BY <1>1, <1>2 DEF WorkFitsRequest, Threads
  <1>4. \A u \in Threads : pc'[u] \in EventPcs => found'[u] \in 1..linked'
    BY <1>1, <1>2 DEF WorkFitsRequest
  <1>5. \A w \in Workers : pc'[w] = "list_send" => current'[w] \in 1..to'[w]
    BY <1>1, <1>2 DEF WorkFitsRequest, Threads
  <1> QED
    BY <1>3, <1>4, <1>5 DEF WorkFitsRequest

\* Going on inside the same operation, or answering.
LEMMA SameOperation ==
  ASSUME Inv, NEW w \in Workers, NEW label, UNCHANGED request,
         \/ OpAt(pc[w]) = OpAt(label)
         \/ label = "idle"
  PROVE  request'[w].op \in OpAt(label)
  <1>1. request[w] \in Request \cup {NoRequest} /\ request[w].op \in OpAt(pc[w])
    BY DEF Inv, StoreTypes, WorkFitsRequest
  <1>2. request[w].op \in OpAt("idle")
    BY <1>1 DEF Request, NoRequest, OpAt, CreatePcs
  <1> QED
    BY <1>1, <1>2

\* Every step leaves each worker executing the operation its request names, on
\* an event of the list.
LEMMA WorkStep ==
  ASSUME Inv, NEW w \in Workers, StepOf(w)
  PROVE  WorkFitsRequest'
  <1> USE DEF listVars, rwlVars, localVars, printVars
  <1>0. w \in Threads /\ Main \in Threads /\ Main \notin Workers /\ linked \in Nat
    BY ListTypes, StoreAssumption DEF Threads, Inv
  <1>1. CASE CreateWrlock(w)
    BY <1>0, <1>1, WorkKept, SameOperation DEF CreateWrlock, OpAt, CreatePcs, EventPcs
  <1>2. CASE CreateRefuse(w)
    <2>1. Goto(w, "idle") /\ UNCHANGED <<linked, request, found, current, to>>
      BY <1>2 DEF CreateRefuse, Finish
    <2>2. request'[w].op \in OpAt("idle")
      BY <2>1, SameOperation
    <2> QED
      BY <1>0, <2>1, <2>2, WorkKept DEF EventPcs
  <1>3. CASE CreateEvent(w)
    BY <1>0, <1>3, WorkKept, SameOperation DEF CreateEvent, OpAt, CreatePcs, EventPcs
  <1>4. CASE CreateLink(w)
    BY <1>0, <1>4, WorkKept, SameOperation DEF CreateLink, OpAt, CreatePcs, EventPcs
  <1>5. CASE CreateTail(w)
    <2>1. Goto(w, "idle") /\ UNCHANGED <<linked, request, found, current, to>>
      BY <1>5 DEF CreateTail, Finish
    <2>2. request'[w].op \in OpAt("idle")
      BY <2>1, SameOperation
    <2> QED
      BY <1>0, <2>1, <2>2, WorkKept DEF EventPcs
  <1>6. CASE ReserveRdlock(w)
    BY <1>0, <1>6, WorkKept, SameOperation DEF ReserveRdlock, OpAt, CreatePcs, EventPcs
  <1>7. CASE ReserveLookup(w)
    <2> DEFINE a == get_event(request[w].id)
    <2>1. a # NULL => a \in 1..linked
      BY GetEventLinked
    <2>2. found'[w] = a /\ \A u \in Threads : u # w => found'[u] = found[u]
      BY <1>0, <1>7 DEF ReserveLookup, Inv, StoreTypes
    <2>3. /\ \/ a = NULL /\ Goto(w, "idle")
             \/ a # NULL /\ Goto(w, "reserve_lock")
          /\ pc[w] = "reserve_lookup"
          /\ UNCHANGED <<linked, request, current, to>>
      BY <1>7, <2>2 DEF ReserveLookup, Finish
    <2>4. request'[w].op \in OpAt("reserve_lock") /\ request'[w].op \in OpAt("idle")
      BY <2>3, SameOperation DEF OpAt, CreatePcs
    <2> QED
      BY <1>0, <2>1, <2>2, <2>3, <2>4, WorkKept DEF EventPcs
  <1>8. CASE ReserveLock(w)
    BY <1>0, <1>8, WorkKept, SameOperation, FoundEvent DEF ReserveLock, OpAt, CreatePcs, EventPcs
  <1>9. CASE ReserveRefuse(w)
    BY <1>0, <1>9, WorkKept, SameOperation DEF ReserveRefuse, OpAt, CreatePcs, Finish, EventPcs
  <1>10. CASE ReserveAccept(w)
    BY <1>0, <1>10, WorkKept, SameOperation, FoundEvent DEF ReserveAccept, OpAt, CreatePcs, EventPcs
  <1>11. CASE ReserveSeat(w)
    <2>1. pc[w] = "reserve_write" /\ UNCHANGED <<pc, linked, request, found, current, to>>
      BY <1>11 DEF ReserveSeat
    <2> QED
      BY <2>1 DEF Inv, WorkFitsRequest
  <1>12. CASE ReserveDone(w)
    BY <1>0, <1>12, WorkKept, SameOperation DEF ReserveDone, OpAt, CreatePcs, Finish, EventPcs
  <1>13. CASE ShowRdlock(w)
    BY <1>0, <1>13, WorkKept, SameOperation DEF ShowRdlock, OpAt, CreatePcs, EventPcs
  <1>14. CASE ShowLookup(w)
    <2> DEFINE a == get_event(request[w].id)
    <2>1. a # NULL => a \in 1..linked
      BY GetEventLinked
    <2>2. found'[w] = a /\ \A u \in Threads : u # w => found'[u] = found[u]
      BY <1>0, <1>14 DEF ShowLookup, Inv, StoreTypes
    <2>3. /\ \/ a = NULL /\ Goto(w, "idle")
             \/ a # NULL /\ Goto(w, "show_lock")
          /\ pc[w] = "show_lookup"
          /\ UNCHANGED <<linked, request, current, to>>
      BY <1>14, <2>2 DEF ShowLookup, Finish
    <2>4. request'[w].op \in OpAt("show_lock") /\ request'[w].op \in OpAt("idle")
      BY <2>3, SameOperation DEF OpAt, CreatePcs
    <2> QED
      BY <1>0, <2>1, <2>2, <2>3, <2>4, WorkKept DEF EventPcs
  <1>15. CASE ShowLock(w)
    BY <1>0, <1>15, WorkKept, SameOperation, FoundEvent DEF ShowLock, OpAt, CreatePcs, EventPcs
  <1>16. CASE ShowSeat(w)
    <2>1. pc[w] = "show_send" /\ UNCHANGED <<pc, linked, request, found, current, to>>
      BY <1>16 DEF ShowSeat
    <2> QED
      BY <2>1 DEF Inv, WorkFitsRequest
  <1>17. CASE ShowDone(w)
    BY <1>0, <1>17, WorkKept, SameOperation DEF ShowDone, OpAt, CreatePcs, Finish, EventPcs
  <1>18. CASE ListRdlock(w)
    BY <1>0, <1>18, WorkKept, SameOperation DEF ListRdlock, OpAt, CreatePcs, EventPcs
  <1>19. CASE ListEmpty(w)
    BY <1>0, <1>19, WorkKept, SameOperation DEF ListEmpty, OpAt, CreatePcs, Finish, EventPcs
  <1>20. CASE ListCount(w)
    <2>1. pc[w] = "list_head" /\ head # NULL /\ Goto(w, "list_send")
          /\ UNCHANGED <<linked, request, found>>
      BY <1>20 DEF ListCount
    <2>2. to'[w] = tail /\ current'[w] = head
          /\ \A u \in Threads : u # w => to'[u] = to[u] /\ current'[u] = current[u]
      BY <1>0, <1>20 DEF ListCount, Inv, StoreTypes
    <2>3. head \in 1..tail
      BY <1>0, <2>1, ListedUnderLock DEF head, NULL
    <2>4. request'[w].op \in OpAt("list_send")
      BY <2>1, SameOperation DEF OpAt, CreatePcs
    <2> QED
      BY <1>0, <2>1, <2>2, <2>3, <2>4, WorkKept DEF EventPcs
  <1>21. CASE ListSend(w)
    <2>1. pc[w] = "list_send" /\ UNCHANGED <<linked, request, found, to>>
      BY <1>21 DEF ListSend
    <2>2. current[w] \in 1..to[w] /\ to[w] \in Nat
      BY <1>0, <2>1 DEF Inv, StoreTypes, WorkFitsRequest
    <2>3. \/ Goto(w, "idle") /\ UNCHANGED current
          \/ /\ Goto(w, "list_send")
             /\ current[w] # to[w] /\ current'[w] = current[w] + 1
             /\ \A u \in Threads : u # w => current'[u] = current[u]
      <3>1. CASE current[w] = to[w]
        BY <1>21, <3>1 DEF ListSend
      <3>2. CASE current[w] # to[w]
        BY <1>0, <1>21, <3>2, Stays DEF ListSend, Inv, StoreTypes
      <3> QED
        BY <3>1, <3>2
    <2>4. request'[w].op \in OpAt("idle") /\ request'[w].op \in OpAt("list_send")
      BY <2>1, SameOperation
    <2>5. current[w] # to[w] => current[w] + 1 \in 1..to[w]
      BY <2>2
    <2> QED
      BY <1>0, <2>1, <2>3, <2>4, <2>5, WorkKept DEF EventPcs
  <1>22. CASE PrintTail
    <2>1. \A u \in Threads : u # Main => to'[u] = to[u]
      BY <1>22 DEF PrintTail, Inv, StoreTypes
    <2> QED
      BY <1>0, <1>22, <2>1, WorkKept DEF PrintTail, EventPcs
  <1>23. CASE PrintHead
    <2>1. \A u \in Threads : u # Main => current'[u] = current[u]
      BY <1>23 DEF PrintHead, Inv, StoreTypes
    <2> QED
      BY <1>0, <1>23, <2>1, WorkKept DEF PrintHead, EventPcs
  <1>24. CASE PrintEnd
    BY <1>0, <1>24, WorkKept DEF PrintEnd, EventPcs
  <1>25. CASE PrintId
    BY <1>0, <1>25, WorkKept DEF PrintId, EventPcs
  <1>26. CASE StdoutRdlock
    BY <1>0, <1>26, WorkKept DEF StdoutRdlock, EventPcs
  <1>27. CASE StdoutLookup
    <2> DEFINE a == get_event(event[current[Main]].id)
    <2>1. a # NULL => a \in 1..linked
      BY GetEventLinked
    <2>2. found'[Main] = a /\ \A u \in Threads : u # Main => found'[u] = found[u]
      BY <1>0, <1>27 DEF StdoutLookup, Inv, StoreTypes
    <2>3. /\ \/ a = NULL /\ Goto(Main, "idle")
             \/ a # NULL /\ Goto(Main, "stdout_lock")
          /\ UNCHANGED <<linked, request, current, to>>
      BY <1>27, <2>2 DEF StdoutLookup
    <2> QED
      BY <1>0, <2>1, <2>2, <2>3, WorkKept DEF EventPcs
  <1>28. CASE StdoutLock
    BY <1>0, <1>28, WorkKept, FoundEvent DEF StdoutLock, EventPcs
  <1>29. CASE StdoutSeats
    BY <1>0, <1>29, WorkKept DEF StdoutSeats, EventPcs
  <1>30. CASE PrintNext
    <2>1. \A u \in Threads : u # Main => current'[u] = current[u]
      BY <1>30 DEF PrintNext, Inv, StoreTypes
    <2> QED
      BY <1>0, <1>30, <2>1, WorkKept DEF PrintNext, EventPcs
  <1>31. CASE \E r \in Request : Receive(w, r)
    <2> PICK r \in Request : Receive(w, r)
      BY <1>31
    <2>1. r.op \in OpAt(Entry(r.op)) /\ Entry(r.op) \notin EventPcs \cup {"list_send"}
      BY DEF Entry, Request, OpAt, CreatePcs, EventPcs
    <2>2. request'[w] = r /\ \A u \in Workers : u # w => request'[u] = request[u]
      BY DEF Receive, Inv, StoreTypes
    <2>3. Goto(w, Entry(r.op)) /\ UNCHANGED <<linked, found, current, to>>
      BY DEF Receive
    <2> QED
      BY <1>0, <2>1, <2>2, <2>3, WorkKept
  <1> QED
    BY <1>1, <1>2, <1>3, <1>4, <1>5, <1>6, <1>7, <1>8, <1>9, <1>10, <1>11, <1>12, <1>13, <1>14, <1>15, <1>16, <1>17, <1>18, <1>19, <1>20, <1>21, <1>22, <1>23, <1>24, <1>25, <1>26, <1>27, <1>28, <1>29, <1>30, <1>31
    DEF StepOf, Work, Create, Reserve, Show, List, PrintEvents

\* The main thread changes neither the events nor anything a worker relies on.
LEMMA PrintFrame ==
  ASSUME StoreTypes, PrintTail \/ PrintEvents
  PROVE  /\ UNCHANGED <<event, linked, tail, request, idx, resId, reply>>
         /\ \A u \in Workers : pc'[u] = pc[u] /\ found'[u] = found[u]
  <1> USE StoreAssumption DEF listVars, localVars, printVars, Threads, Goto
  <1>1. UNCHANGED <<event, linked, tail, request, idx, resId, reply>>
    BY DEF PrintTail, PrintEvents, PrintHead, PrintEnd, PrintId, PrintNext, StdoutRdlock,
           StdoutLookup, StdoutLock, StdoutSeats
  <1>2. \A u \in Workers : pc'[u] = pc[u] /\ found'[u] = found[u]
    BY DEF PrintTail, PrintEvents, PrintHead, PrintEnd, PrintId, PrintNext, StdoutRdlock,
           StdoutLookup, StdoutLock, StdoutSeats, StoreTypes
  <1> QED
    BY <1>1, <1>2

\* What a worker knows for itself: no step of another thread changes it.
Own(u) == <<pc[u], request[u], found[u], idx[u], resId[u], reply[u]>>

\* A step of one thread leaves the local variables of the others alone.
LEMMA OthersStay ==
  ASSUME StoreTypes, NEW w \in Workers, StepOf(w), NEW u \in Workers, u # w
  PROVE  UNCHANGED Own(u)
  <1> USE DEF Own, listVars, localVars, printVars, Threads, Goto, Finish, StoreTypes
  <1>1. CASE Create(w)
    BY <1>1 DEF Create, CreateWrlock, CreateRefuse, CreateEvent, CreateLink, CreateTail
  <1>2. CASE Reserve(w)
    BY <1>2 DEF Reserve, ReserveRdlock, ReserveLookup, ReserveLock, ReserveRefuse, ReserveAccept,
                ReserveSeat, ReserveDone
  <1>3. CASE Show(w)
    BY <1>3 DEF Show, ShowRdlock, ShowLookup, ShowLock, ShowSeat, ShowDone
  <1>4. CASE List(w)
    BY <1>4 DEF List, ListRdlock, ListEmpty, ListCount, ListSend
  <1>5. CASE PrintTail \/ PrintEvents
    BY <1>5, PrintFrame
  <1>6. CASE \E r \in Request : Receive(w, r)
    BY <1>6 DEF Receive
  <1> QED
    BY <1>1, <1>2, <1>3, <1>4, <1>5, <1>6 DEF StepOf, Work

\* Two threads that hold the mutex of one event are one thread.
LEMMA OneHolder ==
  ASSUME Inv, NEW t \in Threads, NEW u \in Threads, pc[t] \in MutexPcs, pc[u] \in MutexPcs,
         found[t] = found[u]
  PROVE  t = u
  <1>1. found[t] \in Node
    BY FoundEvent DEF EventPcs, MutexPcs
  <1> QED
    BY <1>1 DEF Inv, LocksFollowCode

\* While a worker holds the mutex of an event no other thread changes it
\* (operations.c:198-240).
LEMMA HeldEventStays ==
  ASSUME Inv, NEW w \in Workers, StepOf(w), NEW u \in Workers, u # w, pc[u] \in MutexPcs
  PROVE  event'[found[u]] = event[found[u]]
  <1>1. found[u] \in 1..linked /\ found[u] \in Node
    BY FoundEvent DEF EventPcs, MutexPcs, Threads
  <1>2. CASE UNCHANGED <<event, linked>> \/ CreateLink(w)
    BY <1>2 DEF CreateLink
  <1>3. CASE CreateEvent(w)
    BY <1>1, <1>3, CreateEffect
  <1>4. CASE ReserveAccept(w)
    <2>1. found[u] # found[w]
      BY <1>4, OneHolder DEF ReserveAccept, MutexPcs, Threads
    <2> QED
      BY <1>1, <1>4, <2>1, AcceptEffect
  <1>5. CASE ReserveSeat(w)
    <2>1. found[u] # found[w]
      BY <1>5, OneHolder DEF ReserveSeat, MutexPcs, Threads
    <2> QED
      BY <1>1, <1>5, <2>1, SeatEffect
  <1> QED
    BY <1>2, <1>3, <1>4, <1>5, EventFrame

\* A worker is writing seats only if its reservation was just accepted or it
\* was writing before.
LEMMA EnterWrite ==
  ASSUME StoreTypes, NEW w \in Workers, StepOf(w), pc'[w] = "reserve_write"
  PROVE  \/ ReserveAccept(w) \/ ReserveSeat(w)
         \/ PrintTail \/ PrintEvents
  <1> USE DEF listVars, localVars, printVars, Threads, Goto, Finish, StoreTypes
  <1>1. CASE Create(w)
    BY <1>1 DEF Create, CreateWrlock, CreateRefuse, CreateEvent, CreateLink, CreateTail
  <1>2. CASE Reserve(w)
    BY <1>2 DEF Reserve, ReserveRdlock, ReserveLookup, ReserveLock, ReserveRefuse, ReserveDone
  <1>3. CASE Show(w)
    BY <1>3 DEF Show, ShowRdlock, ShowLookup, ShowLock, ShowSeat, ShowDone
  <1>4. CASE List(w)
    BY <1>4 DEF List, ListRdlock, ListEmpty, ListCount, ListSend
  <1>5. CASE \E r \in Request : Receive(w, r)
    BY <1>5 DEF Receive, Entry, Request
  <1> QED
    BY <1>1, <1>2, <1>3, <1>4, <1>5 DEF StepOf, Work

\* A seat inside the bounds of an event is one of its seats.
LEMMA SeatInEvent ==
  ASSUME NEW e, EventOK(e), NEW seats \in SeatLists, InBounds(e, seats), NEW j \in DOMAIN seats
  PROVE  seat_index(e, seats[j]) \in DOMAIN e.data
  <1>1. seats[j][1] \in 1..e.rows /\ seats[j][2] \in 1..e.cols
    BY DEF InBounds
  <1>2. e.rows \in Nat /\ e.cols \in Nat /\ DOMAIN e.data = 0..(e.rows * e.cols - 1)
    BY DEF EventOK
  <1> QED
    BY <1>1, <1>2, SeatIndexInRange DEF seat_index

\* The seats of a RESERVE form a nonempty list.
LEMMA SeatListOf ==
  ASSUME Inv, NEW w \in Workers, pc[w] \in {"reserve_check", "reserve_write"}
  PROVE  /\ request[w].seats \in SeatLists
         /\ Len(request[w].seats) \in Nat \ {0}
         /\ DOMAIN request[w].seats = 1..Len(request[w].seats)
  <1>1. request[w].seats \in SeatLists
    BY RequestsByPc DEF Inv
  <1>2. request[w].seats \in Seq(Nat \X Nat) /\ request[w].seats # <<>>
    BY <1>1, StoreAssumption
  <1> QED
    BY <1>1, <1>2

\* An accepted reservation starts writing from a state where all its seats are
\* free.
LEMMA AcceptStartsWrite ==
  ASSUME Inv, NEW w \in Workers, ReserveAccept(w)
  PROVE  Writing(w)'
  <1> DEFINE e == event[found[w]]
             f == event'[found[w]]
             seats == request[w].seats
  <1>1. InBounds(e, seats) /\ Free(e, seats)
    BY DEF ReserveAccept
  <1>2. found' = found /\ request' = request
    BY DEF ReserveAccept
  <1>3. idx'[w] = 1 /\ resId'[w] = e.reservations + 1
    BY DEF ReserveAccept, Inv, StoreTypes, Threads
  <1>4. f.rows = e.rows /\ f.cols = e.cols /\ f.data = e.data /\ f.reservations = e.reservations + 1
    BY AcceptEffect
  <1>5. e.reservations \in Nat
    BY AcceptEffect DEF EventOK
  <1>6. Len(seats) \in Nat
    BY SeatListOf DEF ReserveAccept
  <1>7. InBounds(f, seats)
    BY <1>1, <1>4 DEF InBounds
  <1>8. \A j \in DOMAIN seats : f.data[seat_index(f, seats[j])] = 0
    BY <1>1, <1>4 DEF Free, seat_index
  <1> QED
    BY <1>2, <1>3, <1>4, <1>5, <1>6, <1>7, <1>8 DEF Writing

\* Writing one seat advances the reservation by that seat.
LEMMA SeatContinuesWrite ==
  ASSUME Inv, NEW w \in Workers, ReserveSeat(w)
  PROVE  Writing(w)'
  <1> DEFINE e == event[found[w]]
             f == event'[found[w]]
             seats == request[w].seats
             at(j) == seat_index(e, seats[j])
  <1>1. Writing(w) /\ idx[w] <= Len(seats)
    BY DEF ReserveSeat, Inv, WriteInProgress
  <1>2. found' = found /\ request' = request /\ resId' = resId
    BY DEF ReserveSeat
  <1>3. idx[w] \in Nat /\ resId[w] \in Nat
    BY WorkerTypes DEF Inv
  <1>4. idx'[w] = idx[w] + 1
    BY DEF ReserveSeat, Inv, StoreTypes, Threads
  <1>5. EventOK(e) /\ f.rows = e.rows /\ f.cols = e.cols /\ f.reservations = e.reservations
    BY SeatEffect
  <1>6. f.data = [e.data EXCEPT ![at(idx[w])] = resId[w]]
    BY SeatEffect DEF SeatOf
  <1>7. seats \in SeatLists /\ Len(seats) \in Nat /\ DOMAIN seats = 1..Len(seats)
    BY SeatListOf DEF ReserveSeat
  <1>8. InBounds(e, seats) /\ InBounds(f, seats)
    BY <1>1, <1>5 DEF Writing, InBounds
  <1>9. \A j \in DOMAIN seats : at(j) \in DOMAIN e.data /\ seat_index(f, seats[j]) = at(j)
    BY <1>5, <1>7, <1>8, SeatInEvent DEF seat_index
  <1>10. \A j \in DOMAIN seats : f.data[at(j)] = IF at(j) = at(idx[w]) THEN resId[w] ELSE e.data[at(j)]
    BY <1>6, <1>9
  <1>11. \A j \in DOMAIN seats : f.data[seat_index(f, seats[j])] \in {0, resId[w]}
    BY <1>1, <1>9, <1>10 DEF Writing
  <1>12. \A j \in 1..idx[w] : f.data[seat_index(f, seats[j])] = resId[w]
    <2> SUFFICES ASSUME NEW j \in 1..idx[w] PROVE f.data[seat_index(f, seats[j])] = resId[w]
      OBVIOUS
    <2>1. j \in DOMAIN seats /\ (j = idx[w] \/ j \in 1..(idx[w] - 1))
      BY <1>1, <1>3, <1>7
    <2>2. j \in 1..(idx[w] - 1) => e.data[at(j)] = resId[w]
      BY <1>1 DEF Writing
    <2>3. seat_index(f, seats[j]) = at(j) /\ f.data[at(j)] = IF at(j) = at(idx[w]) THEN resId[w] ELSE e.data[at(j)]
      BY <1>9, <1>10, <2>1
    <2>4. f.data[at(j)] = resId[w]
      BY <2>1, <2>2, <2>3
    <2> QED
      BY <2>3, <2>4
  <1>13. resId[w] = e.reservations /\ resId[w] > 0 /\ idx[w] \in 1..(Len(seats) + 1)
    BY <1>1 DEF Writing
  <1>14. idx'[w] \in 1..(Len(seats) + 1) /\ idx'[w] - 1 = idx[w]
    BY <1>1, <1>3, <1>4, <1>7, <1>13
  <1>15. /\ event'[found'[w]] = f /\ request'[w].seats = seats /\ resId'[w] = resId[w]
         /\ f.reservations = resId[w]
    BY <1>2, <1>5, <1>13
  <1> HIDE DEF e, f, seats, at
  <1> QED
    BY <1>8, <1>11, <1>12, <1>13, <1>14, <1>15 DEF Writing

\* Every step keeps the reservations being written in order: what is written
\* carries the new number, what is not is still free.
LEMMA WriteStep ==
  ASSUME Inv, NEW w \in Workers, StepOf(w)
  PROVE  WriteInProgress'
  <1> SUFFICES ASSUME NEW u \in Workers, pc'[u] = "reserve_write"
               PROVE  Writing(u)'
    BY DEF WriteInProgress
  <1>1. CASE u # w
    <2>1. UNCHANGED Own(u)
      BY <1>1, OthersStay DEF Inv
    <2>2. pc[u] = "reserve_write" /\ Writing(u)
      BY <2>1 DEF Own, Inv, WriteInProgress
    <2>3. event'[found[u]] = event[found[u]]
      BY <1>1, <2>2, HeldEventStays DEF MutexPcs
    <2> QED
      BY <2>1, <2>2, <2>3 DEF Own, Writing
  <1>2. CASE u = w /\ ReserveAccept(w)
    BY <1>2, AcceptStartsWrite
  <1>3. CASE u = w /\ ReserveSeat(w)
    BY <1>3, SeatContinuesWrite
  <1>4. CASE PrintTail \/ PrintEvents
    <2>1. pc'[u] = pc[u] /\ found'[u] = found[u] /\ UNCHANGED <<event, request, idx, resId>>
      BY <1>4, PrintFrame DEF Inv
    <2> QED
      BY <2>1 DEF Inv, WriteInProgress, Writing
  <1> QED
    BY <1>1, <1>2, <1>3, <1>4, EnterWrite DEF Inv

\* NumbersAreSeated for one event.
Seated(a) ==
  LET e == event[a] IN
  /\ \A i \in DOMAIN e.data : e.data[i] <= e.reservations
  /\ \A n \in 1..e.reservations :
       \/ \E i \in DOMAIN e.data : e.data[i] = n
       \/ n = e.reservations /\ BeingWritten(a)

\* A worker stops writing only when it is done with all its seats.
LEMMA LeaveWrite ==
  ASSUME StoreTypes, NEW w \in Workers, StepOf(w), pc[w] = "reserve_write"
  PROVE  \/ ReserveDone(w)
         \/ pc'[w] = "reserve_write" /\ found'[w] = found[w]
  <1> USE DEF listVars, localVars, printVars
  <1>1. CASE Create(w)
    BY <1>1 DEF Create, CreateWrlock, CreateRefuse, CreateEvent, CreateLink, CreateTail
  <1>2. CASE Reserve(w)
    BY <1>2 DEF Reserve, ReserveRdlock, ReserveLookup, ReserveLock, ReserveRefuse, ReserveAccept,
                ReserveSeat
  <1>3. CASE Show(w)
    BY <1>3 DEF Show, ShowRdlock, ShowLookup, ShowLock, ShowSeat, ShowDone
  <1>4. CASE List(w)
    BY <1>4 DEF List, ListRdlock, ListEmpty, ListCount, ListSend
  <1>5. CASE PrintTail \/ PrintEvents
    BY <1>5, PrintFrame
  <1>6. CASE \E r \in Request : Receive(w, r)
    BY <1>6 DEF Receive
  <1> QED
    BY <1>1, <1>2, <1>3, <1>4, <1>5, <1>6 DEF StepOf, Work

\* An event that is being written stays so until its reservation is done.
LEMMA WritersStay ==
  ASSUME Inv, NEW w \in Workers, StepOf(w), ~ReserveDone(w), NEW a, BeingWritten(a)
  PROVE  BeingWritten(a)'
  <1> PICK u \in Workers : pc[u] = "reserve_write" /\ found[u] = a
    BY DEF BeingWritten
  <1>1. CASE u # w
    BY <1>1, OthersStay DEF Own, BeingWritten, Inv
  <1>2. CASE u = w
    BY <1>2, LeaveWrite DEF BeingWritten, Inv
  <1> QED
    BY <1>1, <1>2

\* An event that does not change, and whose writer does not leave, keeps its
\* numbers seated.
LEMMA EventSeatedStays ==
  ASSUME Inv, NEW w \in Workers, StepOf(w), NEW a \in 1..linked,
         event'[a] = event[a], BeingWritten(a) => BeingWritten(a)'
  PROVE  Seated(a)'
  BY DEF Inv, NumbersAreSeated, Seated

\* A reservation that is done has left its number on a seat.
LEMMA DoneSeats ==
  ASSUME Inv, NEW w \in Workers, ReserveDone(w)
  PROVE  \E i \in DOMAIN event[found[w]].data :
           event[found[w]].data[i] = event[found[w]].reservations
  <1> DEFINE e == event[found[w]]
             seats == request[w].seats
  <1>1. Writing(w) /\ idx[w] > Len(seats)
    BY DEF ReserveDone, Inv, WriteInProgress
  <1>2. seats \in SeatLists /\ Len(seats) \in Nat \ {0} /\ DOMAIN seats = 1..Len(seats)
    BY SeatListOf DEF ReserveDone
  <1>3. EventOK(e)
    BY FoundEvent DEF ReserveDone, EventPcs, Threads
  <1>4. InBounds(e, seats) /\ resId[w] = e.reservations /\ idx[w] \in 1..(Len(seats) + 1)
        /\ \A j \in 1..(idx[w] - 1) : e.data[seat_index(e, seats[j])] = resId[w]
    BY <1>1 DEF Writing
  <1>5. 1 \in 1..(idx[w] - 1) /\ 1 \in DOMAIN seats
    BY <1>1, <1>2, <1>4
  <1>6. seat_index(e, seats[1]) \in DOMAIN e.data
    BY <1>2, <1>3, <1>4, <1>5, SeatInEvent
  <1> QED
    BY <1>4, <1>5, <1>6

\* Every step keeps counter and seats in agreement.
LEMMA NumberStep ==
  ASSUME Inv, NEW w \in Workers, StepOf(w)
  PROVE  NumbersAreSeated'
  <1>0. linked \in Nat /\ 1..linked \subseteq Node /\ \A a \in 1..linked : EventOK(event[a]) /\ Seated(a)
    <2>1. \A a \in 1..linked : Seated(a)
      BY DEF Inv, NumbersAreSeated, Seated
    <2> QED
      BY <2>1, ListTypes DEF Inv
  <1>1. CASE UNCHANGED <<event, linked>> /\ ~ReserveDone(w)
    BY <1>1, WritersStay DEF Inv, NumbersAreSeated
  <1>2. CASE ReserveDone(w)
    <2>1. UNCHANGED <<event, linked>>
      BY <1>2 DEF ReserveDone
    <2> SUFFICES ASSUME NEW a \in 1..linked PROVE Seated(a)'
      BY <2>1 DEF NumbersAreSeated, Seated
    <2>2. CASE a = found[w]
      BY <1>0, <1>2, <2>1, <2>2, DoneSeats DEF Seated
    <2>3. CASE a # found[w]
      <3>1. ASSUME BeingWritten(a) PROVE BeingWritten(a)'
        <4> PICK u \in Workers : pc[u] = "reserve_write" /\ found[u] = a
          BY <3>1 DEF BeingWritten
        <4>1. u # w
          BY <2>3
        <4> QED
          BY <4>1, OthersStay DEF Own, BeingWritten, Inv
      <3> QED
        BY <2>1, <3>1, EventSeatedStays
    <2> QED
      BY <2>2, <2>3
  <1>3. CASE CreateEvent(w)
    <2>1. UNCHANGED linked /\ \A a \in 1..linked : event'[a] = event[a]
      BY <1>3, CreateEffect DEF CreateEvent
    <2>2. ~ReserveDone(w)
      BY <1>3 DEF CreateEvent, ReserveDone
    <2> QED
      BY <2>1, <2>2, WritersStay, EventSeatedStays DEF NumbersAreSeated, Seated
  <1>4. CASE CreateLink(w)
    <2>1. event' = event /\ linked' = linked + 1 /\ pc[w] = "create_link"
      BY <1>4 DEF CreateLink
    <2>2. ~ReserveDone(w)
      BY <2>1 DEF ReserveDone
    <2>3. \A a \in 1..linked : Seated(a)'
      BY <2>1, <2>2, WritersStay, EventSeatedStays
    <2>4. event[linked + 1] = NewEvent(request[w])
      BY <2>1 DEF Inv, ListWellFormed
    <2> PICK b \in Nat : b = linked + 1
      BY <1>0
    <2>5. Seated(b)'
      BY <2>1, <2>4 DEF Seated, NewEvent
    <2>6. \A a \in 1..linked' : Seated(a)'
      BY <1>0, <2>1, <2>3, <2>5
    <2> QED
      BY <2>6 DEF NumbersAreSeated, Seated
  <1>5. CASE ReserveAccept(w)
    <2> PICK a \in 1..linked : a = found[w]
      BY <1>5, AcceptEffect
    <2>1. UNCHANGED linked /\ ~ReserveDone(w) /\ pc'[w] = "reserve_write" /\ found'[w] = a
      BY <1>5 DEF ReserveAccept, ReserveDone, Goto, Inv, StoreTypes, Threads
    <2>2. ~BeingWritten(a)
      BY <1>5, OneHolder DEF BeingWritten, ReserveAccept, MutexPcs, Threads
    <2>3. /\ a \in 1..linked
          /\ event'[a].data = event[a].data
          /\ event'[a].reservations = event[a].reservations + 1
          /\ \A b \in 1..linked : b # a => event'[b] = event[b]
      BY <1>0, <1>5, AcceptEffect
    <2>4. BeingWritten(a)'
      BY <2>1 DEF BeingWritten
    <2>5. event[a].reservations \in Nat /\ \A i \in DOMAIN event[a].data : event[a].data[i] \in Nat
      BY <1>0, <2>3 DEF EventOK
    <2>6. Seated(a)
      BY <1>0, <2>3
    <2>7. Seated(a)'
      BY <2>2, <2>3, <2>4, <2>5, <2>6 DEF Seated
    <2>8. \A b \in 1..linked : b # a => Seated(b)'
      BY <2>1, <2>3, WritersStay, EventSeatedStays
    <2> QED
      BY <2>1, <2>7, <2>8 DEF NumbersAreSeated, Seated
  <1>6. CASE ReserveSeat(w)
    <2> PICK a \in 1..linked : a = found[w]
      BY <1>6, SeatEffect
    <2>0. idx[w] \in Nat /\ Len(request[w].seats) \in Nat /\ idx[w] <= Len(request[w].seats)
      BY <1>6, WorkerTypes, SeatListOf DEF ReserveSeat, Inv
    <2>1. UNCHANGED linked /\ ~ReserveDone(w) /\ BeingWritten(a)
      BY <1>6, <2>0 DEF ReserveSeat, ReserveDone, BeingWritten
    <2>2. /\ a \in 1..linked
          /\ event'[a].data = [event[a].data EXCEPT ![SeatOf(w)] = resId[w]]
          /\ event'[a].reservations = event[a].reservations
          /\ \A b \in 1..linked : b # a => event'[b] = event[b]
      BY <1>0, <1>6, SeatEffect
    <2>3. BeingWritten(a)'
      BY <2>1, WritersStay
    <2>4. event[a].reservations \in Nat /\ Seated(a)
      BY <1>0, <2>2 DEF EventOK
    <2>5. resId[w] = event[a].reservations /\ event[a].data[SeatOf(w)] \in {0, resId[w]}
      <3>1. Writing(w) /\ idx[w] <= Len(request[w].seats) /\ pc[w] = "reserve_write"
        BY <1>6 DEF ReserveSeat, Inv, WriteInProgress
      <3>2. idx[w] \in DOMAIN request[w].seats
        BY <3>1, SeatListOf DEF Writing
      <3> QED
        BY <3>1, <3>2 DEF Writing, SeatOf
    <2>6. Seated(a)'
      <3>1. DOMAIN event'[a].data = DOMAIN event[a].data
        BY <2>2
      <3>2. \A i \in DOMAIN event[a].data :
              event'[a].data[i] = IF i = SeatOf(w) THEN resId[w] ELSE event[a].data[i]
        BY <2>2
      <3>3. \A i \in DOMAIN event[a].data : event'[a].data[i] <= event'[a].reservations
        BY <2>2, <2>4, <2>5, <3>2 DEF Seated
      <3>4. ASSUME NEW n \in 1..event[a].reservations, n # event[a].reservations
            PROVE  \E i \in DOMAIN event[a].data : event'[a].data[i] = n
        BY <2>4, <2>5, <3>2, <3>4 DEF Seated
      <3> QED
        BY <2>2, <2>3, <3>1, <3>3, <3>4 DEF Seated
    <2>7. \A b \in 1..linked : b # a => Seated(b)'
      BY <2>1, <2>2, WritersStay, EventSeatedStays
    <2> QED
      BY <2>1, <2>6, <2>7 DEF NumbersAreSeated, Seated
  <1> QED
    BY <1>1, <1>2, <1>3, <1>4, <1>5, <1>6, EventFrame

\* Every step keeps the type invariant.
LEMMA TypeStep ==
  ASSUME Inv, NEW w \in Workers, StepOf(w)
  PROVE  StoreTypes'
  BY TypeCreate, TypeReserve, TypeShow, TypeList, TypePrint, TypeReceive DEF StepOf, Work

\* A step that changes nothing keeps the invariant.
LEMMA Stutters ==
  ASSUME Inv, UNCHANGED vars
  PROVE  Inv'
  <1> USE DEF vars, listVars, rwlVars, localVars, printVars
  <1>1. StoreTypes'
    BY DEF Inv, StoreTypes
  <1>2. WorkFitsRequest' /\ LocksFollowCode' /\ ListWellFormed' /\ NoDuplicateIds'
    BY DEF Inv, WorkFitsRequest, LocksFollowCode, ListWellFormed, NoDuplicateIds
  <1>3. WriteInProgress' /\ NumbersAreSeated'
    BY DEF Inv, WriteInProgress, Writing, NumbersAreSeated, BeingWritten
  <1> QED
    BY <1>1, <1>2, <1>3 DEF Inv

\* A step of the store is one of a worker or of the main thread.
LEMMA NextCases ==
  ASSUME [Next]_vars
  PROVE  (\E w \in Workers : StepOf(w)) \/ UNCHANGED vars
  BY StoreAssumption DEF Next, StepOf, Finished

\* The invariant is inductive.
LEMMA StepInv ==
  ASSUME Inv, [Next]_vars
  PROVE  Inv'
  <1>1. CASE \E w \in Workers : StepOf(w)
    <2> PICK w \in Workers : StepOf(w)
      BY <1>1
    <2> QED
      BY TypeStep, WorkStep, LockStep, ListStep, IdStep, WriteStep, NumberStep DEF Inv
  <1>2. CASE UNCHANGED vars
    BY <1>2, Stutters
  <1> QED
    BY <1>1, <1>2, NextCases

\* The invariant holds in every state of the store, for any number of workers,
\* events, seats and requests.
THEOREM Invariance == Spec => []Inv
  BY InitInv, StepInv, PTL DEF Spec

\* The store never leaves its types, and ems_reserve never leaves the seat array
\* of the event it has found, whatever rows and columns the event has: that the
\* bounds are checked before (operations.c:203-212) is enough for seat_index.
THEOREM TypeCorrect == Spec => []TypeOK
  <1>1. Inv => TypeOK
    <2> SUFFICES ASSUME Inv, NEW w \in Workers, UsesSeats(w), NEW j \in DOMAIN request[w].seats
                 PROVE  seat_index(event[found[w]], request[w].seats[j]) \in DOMAIN event[found[w]].data
      BY DEF TypeOK, Inv
    <2>1. pc[w] \in {"reserve_check", "reserve_write"}
      BY DEF UsesSeats
    <2>2. EventOK(event[found[w]])
      BY <2>1, FoundEvent DEF EventPcs, Threads
    <2>3. request[w].seats \in SeatLists
      BY <2>1, SeatListOf
    <2>4. InBounds(event[found[w]], request[w].seats)
      BY DEF UsesSeats, Inv, WriteInProgress, Writing
    <2> QED
      BY <2>2, <2>3, <2>4, SeatInEvent
  <1> QED
    BY <1>1, Invariance, PTL

\* However CREATEs interleave, no two events of the list carry one id
\* (operations.c:105-162).
THEOREM IdsAreUnique == Spec => []NoDuplicateIds
  <1>1. Inv => NoDuplicateIds
    BY DEF Inv
  <1> QED
    BY <1>1, Invariance, PTL

\* Every reservation number given out holds a seat, and no seat holds a number
\* that was not given out (operations.c:232-236).
THEOREM NumbersHoldSeats == Spec => []NumbersAreSeated
  <1>1. Inv => NumbersAreSeated
    BY DEF Inv
  <1> QED
    BY <1>1, Invariance, PTL

\* The action of SeatNeverReassigned.
KeepsSeats ==
  \A a \in 1..linked : \A i \in DOMAIN event[a].data :
    event[a].data[i] # 0 => event'[a].data[i] = event[a].data[i]

\* No step takes a seat away from the reservation that holds it.
LEMMA StepKeepsSeats ==
  ASSUME Inv, [Next]_vars
  PROVE  KeepsSeats
  <1>1. CASE UNCHANGED vars
    BY <1>1 DEF vars, listVars, KeepsSeats
  <1>2. CASE \E w \in Workers : StepOf(w)
    <2> PICK w \in Workers : StepOf(w)
      BY <1>2
    <2>1. CASE UNCHANGED <<event, linked>>
      BY <2>1 DEF KeepsSeats
    <2>2. CASE CreateEvent(w)
      BY <2>2, CreateEffect DEF KeepsSeats
    <2>3. CASE CreateLink(w)
      BY <2>3 DEF CreateLink, KeepsSeats
    <2>4. linked \in Nat /\ 1..linked \subseteq Node
      BY ListTypes DEF Inv
    <2>5. CASE ReserveAccept(w)
      BY <2>4, <2>5, AcceptEffect DEF KeepsSeats
    <2>6. CASE ReserveSeat(w)
      <3> DEFINE a == found[w]
      <3>1. Writing(w) /\ idx[w] <= Len(request[w].seats) /\ pc[w] = "reserve_write"
        BY <2>6 DEF ReserveSeat, Inv, WriteInProgress
      <3>2. idx[w] \in DOMAIN request[w].seats
        BY <3>1, SeatListOf DEF Writing
      <3>3. event[a].data[SeatOf(w)] \in {0, resId[w]}
        BY <3>1, <3>2 DEF Writing, SeatOf
      <3>4. /\ event'[a].data = [event[a].data EXCEPT ![SeatOf(w)] = resId[w]]
            /\ \A b \in Node : b # a => event'[b] = event[b]
        BY <2>6, SeatEffect
      <3> QED
        BY <2>4, <3>3, <3>4 DEF KeepsSeats
    <2> QED
      BY <2>1, <2>2, <2>3, <2>5, <2>6, EventFrame
  <1> QED
    BY <1>1, <1>2, NextCases

\* A reserved seat keeps its reservation for ever, whatever the other workers
\* do (operations.c:198-240).
THEOREM SeatsAreKept == Spec => SeatNeverReassigned
  <1>1. Inv /\ [Next]_vars => [KeepsSeats]_vars
    BY StepKeepsSeats
  <1>2. Spec => [][KeepsSeats]_vars
    BY <1>1, Invariance, PTL DEF Spec
  <1> QED
    BY <1>2 DEF SeatNeverReassigned, KeepsSeats
=============================================================================
