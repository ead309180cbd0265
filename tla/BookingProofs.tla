---------------------------- MODULE BookingProofs ----------------------------
(***************************************************************************)
(* The store implements Booking, for any workers, ids, dimensions, seat     *)
(* lists and bounds.  Besides the invariant of EventStoreProofs the         *)
(* argument needs to know what an operation has already done when it takes  *)
(* effect: that its event is the one its request names, and that what it    *)
(* has written, to the seats or to its reply, is what it is about to have   *)
(* done at once (SnapInv).  The walk of print_events has an invariant of    *)
(* its own (PrintInv).                                                     *)
(***************************************************************************)
EXTENDS EventStoreProofs, SequenceTheorems

-----------------------------------------------------------------------------
(* The invariants *)

\* What ems_show has sent: the result, the size, and the first seats.
Showing(w) ==
  LET e == event[found[w]] IN
  /\ idx[w] <= e.rows * e.cols
  /\ Len(reply[w]) = 3 + idx[w]
  /\ reply[w][1] = 0 /\ reply[w][2] = e.rows /\ reply[w][3] = e.cols
  /\ \A k \in 1..idx[w] : reply[w][3 + k] = e.data[k - 1]

\* What ems_list_events has sent: the result, the length, and the first ids.
Listing(w) ==
  /\ to[w] = tail
  /\ Len(reply[w]) = 1 + current[w]
  /\ reply[w][1] = 0 /\ reply[w][2] = tail
  /\ \A k \in 1..(current[w] - 1) : reply[w][2 + k] = event[k].id

\* The new number stands on seats that were asked for, and nowhere else.
OnlyAsked(w) ==
  LET e == event[found[w]]  seats == request[w].seats IN
  \A i \in DOMAIN e.data :
    e.data[i] = resId[w] => \E j \in 1..(idx[w] - 1) : i = seat_index(e, seats[j])

\* An event is found before the tail, and by its id.
FoundById ==
  /\ \A t \in Threads : pc[t] \in EventPcs => found[t] \in 1..tail
  /\ \A w \in Workers : pc[w] \in EventPcs => event[found[w]].id = request[w].id

\* The node that is linked but not yet the tail is as it was built.
NewNode == \A w \in Workers : pc[w] = "create_tail" => event[linked] = NewEvent(request[w])

\* Only the two loops write before the end of an operation.
Unanswered ==
  \A w \in Workers : pc[w] \notin {"idle", "show_send", "list_send"} => reply[w] = <<>>

SnapInv ==
  /\ FoundById
  /\ Unanswered
  /\ NewNode
  /\ \A w \in Workers : pc[w] = "show_send" => Showing(w)
  /\ \A w \in Workers : pc[w] = "list_send" => Listing(w)
  /\ \A w \in Workers : pc[w] = "reserve_write" => OnlyAsked(w)

StdoutPcs == {"stdout_rdlock", "stdout_lookup", "stdout_lock", "stdout_seats", "print_next"}

\* Where the walk of print_events is, and what it has printed.  A walk that found
\* no tail when it began goes on to the end of the list.
PrintInv ==
  /\ Len(printed) <= linked
  /\ \A i \in 1..Len(printed) : printed[i] = event[i].id
  /\ pc[Main] = "print_head" => printed = <<>>
  /\ pc[Main] = "print_node" =>
       \/ current[Main] = NULL /\ to[Main] = NULL
       \/ /\ current[Main] \in 1..linked
          /\ Len(printed) = current[Main] - 1
          /\ to[Main] = NULL \/ current[Main] <= to[Main]
  /\ pc[Main] \in StdoutPcs =>
       /\ current[Main] \in 1..linked
       /\ Len(printed) = current[Main]
       /\ to[Main] = NULL \/ current[Main] < to[Main]

\* The store as ems_init leaves it satisfies both.
LEMMA InitSnap == Init => SnapInv /\ PrintInv
  <1> SUFFICES ASSUME Init PROVE SnapInv /\ PrintInv
    OBVIOUS
  <1> USE StoreAssumption DEF Init, Holding, Threads
  <1>1. SnapInv
    BY DEF SnapInv, FoundById, NewNode, Unanswered, EventPcs
  <1>2. PrintInv
    BY DEF PrintInv, StdoutPcs
  <1> QED
    BY <1>1, <1>2

-----------------------------------------------------------------------------
(* What a step leaves alone *)

\* The tail moves only where a CREATE ends.
LEMMA TailFrame ==
  ASSUME NEW w \in Workers, StepOf(w)
  PROVE  UNCHANGED tail \/ CreateTail(w)
  <1> USE DEF listVars
  <1>1. CASE Create(w)
    BY <1>1 DEF Create, CreateWrlock, CreateRefuse, CreateEvent, CreateLink
  <1>2. CASE Reserve(w)
    BY <1>2 DEF Reserve, ReserveRdlock, ReserveLookup, ReserveLock, ReserveRefuse, ReserveAccept,
                ReserveSeat, ReserveDone
  <1>3. CASE Show(w)
    BY <1>3 DEF Show, ShowRdlock, ShowLookup, ShowLock, ShowSeat, ShowDone
  <1>4. CASE List(w)
    BY <1>4 DEF List, ListRdlock, ListEmpty, ListCount, ListSend
  <1>5. CASE PrintTail \/ PrintEvents
    BY <1>5 DEF PrintTail, PrintEvents, PrintHead, PrintEnd, PrintId, PrintNext, StdoutRdlock,
                StdoutLookup, StdoutLock, StdoutSeats
  <1>6. CASE \E r \in Request : Receive(w, r)
    BY <1>6 DEF Receive
  <1> QED
    BY <1>1, <1>2, <1>3, <1>4, <1>5, <1>6 DEF StepOf, Work

\* The list grows at its end, and its events keep their ids and sizes.
LEMMA ListGrows ==
  ASSUME Inv, NEW w \in Workers, StepOf(w)
  PROVE  /\ linked \in Nat /\ linked' \in Nat /\ linked <= linked'
         /\ tail \in Nat /\ tail' \in Nat /\ tail <= tail' /\ tail <= linked
         /\ \A b \in 1..linked : /\ event'[b].id = event[b].id
                                 /\ event'[b].rows = event[b].rows
                                 /\ event'[b].cols = event[b].cols
  <1>1. linked \in Nat /\ tail \in 0..linked /\ 1..linked \subseteq Node
    BY ListTypes DEF Inv
  <1>2. linked' \in Nat /\ tail' \in 0..linked'
    BY TypeStep, StoreAssumption DEF StoreTypes
  <1>3. linked <= linked'
    <2>1. CASE CreateLink(w)
      BY <1>1, <2>1 DEF CreateLink
    <2>2. CASE CreateEvent(w) \/ ReserveAccept(w) \/ ReserveSeat(w)
      <3>1. linked' = linked
        BY <2>2 DEF CreateEvent, ReserveAccept, ReserveSeat
      <3> QED
        BY <1>1, <3>1
    <2> QED
      BY <1>1, <2>1, <2>2, EventFrame
  <1>4. tail <= tail'
    BY <1>1, TailFrame DEF CreateTail
  <1>5. \A b \in 1..linked : /\ event'[b].id = event[b].id
                             /\ event'[b].rows = event[b].rows
                             /\ event'[b].cols = event[b].cols
    <2>1. CASE UNCHANGED <<event, linked>> \/ CreateLink(w)
      BY <2>1 DEF CreateLink
    <2>2. CASE CreateEvent(w)
      BY <2>2, CreateEffect
    <2>3. CASE ReserveAccept(w)
      BY <1>1, <2>3, AcceptEffect
    <2>4. CASE ReserveSeat(w)
      BY <1>1, <2>4, SeatEffect
    <2> QED
      BY <2>1, <2>2, <2>3, <2>4, EventFrame
  <1> QED
    BY <1>1, <1>2, <1>3, <1>4, <1>5

\* The walk of a thread is its own.
LEMMA WalksStay ==
  ASSUME StoreTypes, NEW w \in Workers, StepOf(w), NEW u \in Workers, u # w
  PROVE  current'[u] = current[u] /\ to'[u] = to[u]
  <1> USE StoreAssumption DEF listVars, localVars, printVars, Threads, StoreTypes
  <1>1. CASE Create(w)
    BY <1>1 DEF Create, CreateWrlock, CreateRefuse, CreateEvent, CreateLink, CreateTail
  <1>2. CASE Reserve(w)
    BY <1>2 DEF Reserve, ReserveRdlock, ReserveLookup, ReserveLock, ReserveRefuse, ReserveAccept,
                ReserveSeat, ReserveDone
  <1>3. CASE Show(w)
    BY <1>3 DEF Show, ShowRdlock, ShowLookup, ShowLock, ShowSeat, ShowDone
  <1>4. CASE List(w)
    BY <1>4 DEF List, ListRdlock, ListEmpty, ListCount, ListSend
  <1>5. CASE PrintTail \/ PrintEvents
    BY <1>5 DEF PrintTail, PrintEvents, PrintHead, PrintEnd, PrintId, PrintNext, StdoutRdlock,
                StdoutLookup, StdoutLock, StdoutSeats
  <1>6. CASE \E r \in Request : Receive(w, r)
    BY <1>6 DEF Receive
  <1> QED
    BY <1>1, <1>2, <1>3, <1>4, <1>5, <1>6 DEF StepOf, Work

\* No worker touches what the main thread is doing.
LEMMA MainStays ==
  ASSUME StoreTypes, NEW w \in Workers, Work(w) \/ \E r \in Request : Receive(w, r)
  PROVE  /\ pc'[Main] = pc[Main] /\ found'[Main] = found[Main]
         /\ current'[Main] = current[Main] /\ to'[Main] = to[Main] /\ printed' = printed
  <1> USE StoreAssumption DEF listVars, localVars, printVars, Threads, Goto, Finish, StoreTypes
  <1>1. CASE Create(w)
    BY <1>1 DEF Create, CreateWrlock, CreateRefuse, CreateEvent, CreateLink, CreateTail
  <1>2. CASE Reserve(w)
    BY <1>2 DEF Reserve, ReserveRdlock, ReserveLookup, ReserveLock, ReserveRefuse, ReserveAccept,
                ReserveSeat, ReserveDone
  <1>3. CASE Show(w)
    BY <1>3 DEF Show, ShowRdlock, ShowLookup, ShowLock, ShowSeat, ShowDone
  <1>4. CASE List(w)
    BY <1>4 DEF List, ListRdlock, ListEmpty, ListCount, ListSend
  <1>6. CASE \E r \in Request : Receive(w, r)
    BY <1>6 DEF Receive
  <1> QED
    BY <1>1, <1>2, <1>3, <1>4, <1>6 DEF Work

-----------------------------------------------------------------------------
(* Each part of SnapInv is kept *)

\* A thread that is about to use an event has just found it, before the tail and
\* by the id of its request, or goes on with the one it had.
LEMMA EnterEvent ==
  ASSUME Inv, NEW w \in Workers, StepOf(w), NEW t \in Threads, pc'[t] \in EventPcs
  PROVE  \/ /\ pc[t] \in EventPcs /\ found'[t] = found[t]
            /\ t \in Workers => request'[t] = request[t]
         \/ /\ found'[t] \in 1..tail
            /\ t \in Workers => event[found'[t]].id = request'[t].id
  <1> USE StoreAssumption DEF listVars, localVars, printVars, Threads
  <1>1. CASE t \in Workers /\ t # w
    BY <1>1, OthersStay DEF Own, Inv
  <1>2. CASE t = Main /\ (Work(w) \/ \E r \in Request : Receive(w, r))
    BY <1>2, MainStays DEF Inv
  <1>3. CASE t = w /\ (ReserveLookup(w) \/ ShowLookup(w))
    <2>1. request' = request /\ found' = [found EXCEPT ![w] = get_event(request[w].id)]
      BY <1>3 DEF ReserveLookup, ShowLookup
    <2>2. found'[w] = get_event(request[w].id)
      BY <2>1 DEF Inv, StoreTypes
    <2>3. found'[w] # NULL
      BY <1>3 DEF ReserveLookup, ShowLookup, Finish, Goto, EventPcs, Inv, StoreTypes
    <2>4. /\ found'[w] \in 0..tail /\ tail \in Nat
          /\ event[found'[w]].id = request[w].id
      BY <2>2, <2>3, GetEvent, ListGrows DEF Inv
    <2> QED
      BY <1>3, <2>1, <2>3, <2>4 DEF NULL
  <1>4. CASE t = w /\ (Create(w) \/ List(w) \/ \E r \in Request : Receive(w, r))
    <2>1. ASSUME Create(w) PROVE pc'[w] \notin EventPcs
      BY ZenonT(60), <2>1 DEF Create, CreateWrlock, CreateRefuse, CreateEvent, CreateLink, CreateTail, Finish, Goto, EventPcs, Inv, StoreTypes
    <2>2. ASSUME List(w) PROVE pc'[w] \notin EventPcs
      BY ZenonT(60), <2>2 DEF List, ListRdlock, ListEmpty, ListCount, ListSend, Finish, Goto, EventPcs, Inv, StoreTypes
    <2>3. ASSUME NEW r \in Request, Receive(w, r) PROVE pc'[w] \notin EventPcs
      BY <2>3 DEF Receive, Entry, Request, Goto, EventPcs, Inv, StoreTypes
    <2> QED
      BY <1>4, <2>1, <2>2, <2>3
  <1>5. CASE t = w /\ Reserve(w) /\ ~ReserveLookup(w)
    BY <1>5 DEF Reserve, ReserveRdlock, ReserveLock, ReserveRefuse, ReserveAccept, ReserveSeat,
                ReserveDone, Finish, Goto, EventPcs, Inv, StoreTypes
  <1>6. CASE t = w /\ Show(w) /\ ~ShowLookup(w)
    BY <1>6 DEF Show, ShowRdlock, ShowLock, ShowSeat, ShowDone, Finish, Goto, EventPcs, Inv, StoreTypes
  <1>7. CASE t \in Workers /\ (PrintTail \/ PrintEvents)
    BY <1>7, PrintFrame DEF Inv
  <1>8. CASE t = Main /\ StdoutLookup
    <2>1. found' = [found EXCEPT ![Main] = get_event(event[current[Main]].id)]
      BY <1>8 DEF StdoutLookup
    <2>2. found'[Main] = get_event(event[current[Main]].id)
      BY <2>1 DEF Inv, StoreTypes
    <2>3. found'[Main] # NULL
      BY <1>8 DEF StdoutLookup, Goto, EventPcs, Inv, StoreTypes
    <2>4. found'[Main] \in 0..tail /\ tail \in Nat
      BY <2>2, GetEvent, ListGrows DEF Inv
    <2> QED
      BY <1>8, <2>3, <2>4 DEF NULL
  <1>9. CASE t = Main /\ (PrintTail \/ PrintEvents) /\ ~StdoutLookup
    BY <1>9 DEF PrintTail, PrintEvents, PrintHead, PrintEnd, PrintId, PrintNext, StdoutRdlock, StdoutLock,
                StdoutSeats, Goto, EventPcs, Inv, StoreTypes
  <1> QED
    BY <1>1, <1>2, <1>3, <1>4, <1>5, <1>6, <1>7, <1>8, <1>9 DEF StepOf, Work

\* Events are used that were found before the tail and by their ids.
LEMMA FoundStep ==
  ASSUME Inv, FoundById, NEW w \in Workers, StepOf(w)
  PROVE  FoundById'
  <1> USE DEF Threads
  <1>1. tail \in Nat /\ tail' \in Nat /\ tail <= tail' /\ tail <= linked /\ linked \in Nat
        /\ \A b \in 1..linked : event'[b].id = event[b].id
    BY ListGrows
  <1>2. 1..tail \subseteq 1..tail' /\ 1..tail \subseteq 1..linked
    BY <1>1
  <1>3. ASSUME NEW t \in Threads, pc'[t] \in EventPcs
        PROVE  found'[t] \in 1..tail /\ (t \in Workers => event[found'[t]].id = request'[t].id)
    BY <1>3, EnterEvent DEF FoundById
  <1>4. \A t \in Threads : pc'[t] \in EventPcs => found'[t] \in 1..tail'
    BY <1>2, <1>3
  <1>5. \A u \in Workers : pc'[u] \in EventPcs => event'[found'[u]].id = request'[u].id
    BY <1>1, <1>2, <1>3
  <1> QED
    BY <1>4, <1>5 DEF FoundById

\* Nobody writes to the node between its link and the move of the tail
\* (eventlist.c:47-51).
LEMMA NewNodeStep ==
  ASSUME Inv, FoundById, NewNode, NEW w \in Workers, StepOf(w)
  PROVE  NewNode'
  <1> USE StoreAssumption DEF listVars, localVars, printVars
  <1> SUFFICES ASSUME NEW u \in Workers, pc'[u] = "create_tail"
               PROVE  event'[linked'] = NewEvent(request'[u])
    BY DEF NewNode
  <1>1. ASSUME pc[u] = "create_tail", request'[u] = request[u],
               ~CreateEvent(w), ~CreateLink(w)
        PROVE  event'[linked'] = NewEvent(request'[u])
    <2>1. event[linked] = NewEvent(request[u]) /\ tail = linked - 1 /\ linked > 0
      BY <1>1 DEF NewNode, Inv, ListWellFormed
    <2>2. linked \in Nat /\ linked \in Node
      BY <2>1, ListTypes DEF Inv
    <2>3. CASE UNCHANGED <<event, linked>>
      BY <1>1, <2>1, <2>3
    <2>4. CASE ReserveAccept(w)
      <3>1. found[w] # linked /\ linked' = linked
        BY <2>1, <2>2, <2>4 DEF FoundById, ReserveAccept, EventPcs, Threads
      <3> QED
        BY <1>1, <2>1, <2>2, <2>4, <3>1, AcceptEffect
    <2>5. CASE ReserveSeat(w)
      <3>1. found[w] # linked /\ linked' = linked
        BY <2>1, <2>2, <2>5 DEF FoundById, ReserveSeat, EventPcs, Threads
      <3> QED
        BY <1>1, <2>1, <2>2, <2>5, <3>1, SeatEffect
    <2> QED
      BY <1>1, <2>3, <2>4, <2>5, EventFrame
  <1>2. CASE u # w
    <2>1. pc[u] = "create_tail" /\ request'[u] = request[u]
      BY <1>2, OthersStay DEF Own, Inv
    <2>2. pc[w] \notin CreatePcs
      BY <1>2, <2>1, OneCreator DEF CreatePcs
    <2> QED
      BY <1>1, <2>1, <2>2 DEF CreateEvent, CreateLink, CreatePcs
  <1>3. CASE u = w /\ CreateLink(w)
    <2>1. event' = event /\ linked' = linked + 1 /\ request' = request /\ pc[w] = "create_link"
      BY <1>3 DEF CreateLink
    <2> QED
      BY <1>3, <2>1 DEF Inv, ListWellFormed
  <1>4. CASE PrintTail \/ PrintEvents
    <2>1. pc'[u] = pc[u] /\ UNCHANGED <<event, linked, request>>
      BY <1>4, PrintFrame DEF Inv
    <2> QED
      BY <2>1 DEF NewNode
  <1>5. ASSUME u = w, Work(w) \/ \E r \in Request : Receive(w, r), ~CreateLink(w)
        PROVE  FALSE
    <2> USE DEF Goto, Finish, Inv, StoreTypes, Threads
    <2>1. CASE Create(w)
      BY <1>5, <2>1 DEF Create, CreateWrlock, CreateRefuse, CreateEvent, CreateTail
    <2>2. CASE Reserve(w)
      BY <1>5, <2>2 DEF Reserve, ReserveRdlock, ReserveLookup, ReserveLock, ReserveRefuse,
                        ReserveAccept, ReserveSeat, ReserveDone
    <2>3. CASE Show(w)
      BY <1>5, <2>3 DEF Show, ShowRdlock, ShowLookup, ShowLock, ShowSeat, ShowDone
    <2>4. CASE List(w)
      BY <1>5, <2>4 DEF List, ListRdlock, ListEmpty, ListCount, ListSend
    <2>5. CASE \E r \in Request : Receive(w, r)
      BY ZenonT(60), <1>5, <2>5 DEF Receive, Entry, Request
    <2> QED
      BY <1>5, <2>1, <2>2, <2>3, <2>4, <2>5 DEF Work
  <1> QED
    BY <1>2, <1>3, <1>4, <1>5 DEF StepOf
\* A worker sends seats only if its SHOW has just locked the event or was sending.
LEMMA EnterShow ==
  ASSUME StoreTypes, NEW w \in Workers, StepOf(w), pc'[w] = "show_send"
  PROVE  ShowLock(w) \/ ShowSeat(w) \/ PrintTail \/ PrintEvents
  <1> USE DEF listVars, localVars, printVars, Threads, Goto, Finish, StoreTypes
  <1>1. CASE Create(w)
    BY <1>1 DEF Create, CreateWrlock, CreateRefuse, CreateEvent, CreateLink, CreateTail
  <1>2. CASE Reserve(w)
    BY <1>2 DEF Reserve, ReserveRdlock, ReserveLookup, ReserveLock, ReserveRefuse, ReserveAccept,
                ReserveSeat, ReserveDone
  <1>3. CASE Show(w)
    BY <1>3 DEF Show, ShowRdlock, ShowLookup, ShowDone
  <1>4. CASE List(w)
    BY <1>4 DEF List, ListRdlock, ListEmpty, ListCount, ListSend
  <1>5. CASE \E r \in Request : Receive(w, r)
    BY <1>5 DEF Receive, Entry, Request
  <1> QED
    BY <1>1, <1>2, <1>3, <1>4, <1>5 DEF StepOf, Work

\* A worker sends ids only if its LIST has just counted the events or was sending.
LEMMA EnterList ==
  ASSUME StoreTypes, NEW w \in Workers, StepOf(w), pc'[w] = "list_send"
  PROVE  \/ ListCount(w)
         \/ ListSend(w) /\ current[w] # to[w]
         \/ PrintTail \/ PrintEvents
  <1> USE DEF listVars, localVars, printVars, Threads, Goto, Finish, StoreTypes
  <1>1. CASE Create(w)
    BY <1>1 DEF Create, CreateWrlock, CreateRefuse, CreateEvent, CreateLink, CreateTail
  <1>2. CASE Reserve(w)
    BY <1>2 DEF Reserve, ReserveRdlock, ReserveLookup, ReserveLock, ReserveRefuse, ReserveAccept,
                ReserveSeat, ReserveDone
  <1>3. CASE Show(w)
    BY <1>3 DEF Show, ShowRdlock, ShowLookup, ShowLock, ShowSeat, ShowDone
  <1>4. CASE List(w)
    BY <1>4 DEF List, ListRdlock, ListEmpty, ListSend
  <1>5. CASE \E r \in Request : Receive(w, r)
    BY <1>5 DEF Receive, Entry, Request
  <1> QED
    BY <1>1, <1>2, <1>3, <1>4, <1>5 DEF StepOf, Work

\* What appending a number does to a sequence of numbers.
LEMMA Appends ==
  ASSUME NEW s \in Seq(Nat), NEW n
  PROVE  /\ Len(s) \in Nat
         /\ Len(Append(s, n)) = Len(s) + 1
         /\ Append(s, n)[Len(s) + 1] = n
         /\ \A k \in 1..Len(s) : Append(s, n)[k] = s[k]
  OBVIOUS

\* The seats of an event are numbered from 0.
LEMMA SizeOf ==
  ASSUME NEW e, EventOK(e)
  PROVE  e.rows * e.cols \in Nat /\ DOMAIN e.data = 0..(e.rows * e.cols - 1)
  <1>1. e.rows \in Nat /\ e.cols \in Nat /\ DOMAIN e.data = 0..(e.rows * e.cols - 1)
    BY DEF EventOK
  <1> QED
    BY <1>1

\* One more seat is sent.
LEMMA ShowSeatShows ==
  ASSUME Inv, NEW w \in Workers, ShowSeat(w), Showing(w)
  PROVE  Showing(w)'
  <1> DEFINE e == event[found[w]]
             size == e.rows * e.cols
             s == reply[w]
             i == idx[w]
  <1>1. EventOK(e)
    BY FoundEvent DEF ShowSeat, EventPcs, Threads
  <1>2. size \in Nat
    BY <1>1, SizeOf
  <1>3. s \in Seq(Nat) /\ i \in Nat
    BY DEF Inv, StoreTypes, Threads
  <1>4. event' = event /\ found' = found /\ idx'[w] = i + 1 /\ reply'[w] = Append(s, e.data[i])
        /\ i < size
    BY DEF ShowSeat, listVars, Inv, StoreTypes, Threads
  <1>5. Len(s) = 3 + i /\ s[1] = 0 /\ s[2] = e.rows /\ s[3] = e.cols
        /\ \A k \in 1..i : s[3 + k] = e.data[k - 1]
    BY DEF Showing
  <1>6. Len(reply'[w]) = 4 + i /\ reply'[w][4 + i] = e.data[i]
        /\ \A k \in 1..(3 + i) : reply'[w][k] = s[k]
    <2>1. Len(reply'[w]) = Len(s) + 1 /\ reply'[w][Len(s) + 1] = e.data[i]
          /\ \A k \in 1..Len(s) : reply'[w][k] = s[k]
      BY <1>3, <1>4, Appends
    <2>2. Len(s) = 3 + i /\ Len(s) + 1 = 4 + i
      BY <1>3, <1>5
    <2> QED
      BY <2>1, <2>2
  <1>7. reply'[w][1] = 0 /\ reply'[w][2] = e.rows /\ reply'[w][3] = e.cols
    <2>1. 1 \in 1..(3 + i) /\ 2 \in 1..(3 + i) /\ 3 \in 1..(3 + i)
      BY <1>3
    <2> QED
      BY <1>5, <1>6, <2>1
  <1>8. ASSUME NEW k \in 1..(i + 1) PROVE reply'[w][3 + k] = e.data[k - 1]
    <2>1. CASE k = i + 1
      BY <1>3, <1>6, <2>1
    <2>2. CASE k # i + 1
      <3>1. k \in 1..i /\ 3 + k \in 1..(3 + i)
        BY <1>3, <2>2
      <3> QED
        BY <1>5, <1>6, <3>1
    <2> QED
      BY <2>1, <2>2
  <1>9. i + 1 <= size
    BY <1>2, <1>3, <1>4
  <1> HIDE DEF e, size, s, i
  <1>10. event'[found'[w]] = e /\ e.rows * e.cols = size
    BY <1>4 DEF e, size
  <1>11. Len(reply'[w]) = 3 + (i + 1)
    BY <1>3, <1>6
  <1> QED
    BY <1>4, <1>7, <1>8, <1>9, <1>10, <1>11 DEF Showing

\* What a SHOW has sent stays what its event holds.
LEMMA ShowingStep ==
  ASSUME Inv, SnapInv, NEW w \in Workers, StepOf(w), NEW u \in Workers, pc'[u] = "show_send"
  PROVE  Showing(u)'
  <1>1. CASE u # w
    <2>1. UNCHANGED Own(u)
      BY <1>1, OthersStay DEF Inv
    <2>2. pc[u] = "show_send" /\ Showing(u)
      BY <2>1 DEF Own, SnapInv
    <2>3. event'[found[u]] = event[found[u]]
      BY <1>1, <2>2, HeldEventStays DEF MutexPcs
    <2> QED
      BY <2>1, <2>2, <2>3 DEF Own, Showing
  <1>2. CASE u = w /\ ShowLock(w)
    <2> DEFINE e == event[found[w]]
    <2>1. EventOK(e)
      BY <1>2, FoundEvent DEF ShowLock, EventPcs, Threads
    <2>2. 0 <= e.rows * e.cols
      BY <2>1, SizeOf
    <2>3. event' = event /\ found' = found /\ idx'[w] = 0 /\ reply'[w] = <<0, e.rows, e.cols>>
      BY <1>2 DEF ShowLock, Inv, StoreTypes, Threads
    <2>4. Len(<<0, e.rows, e.cols>>) = 3 + 0
      OBVIOUS
    <2> QED
      BY <1>2, <2>2, <2>3, <2>4 DEF Showing
  <1>3. CASE u = w /\ ShowSeat(w)
    BY <1>3, ShowSeatShows DEF SnapInv, ShowSeat
  <1>4. CASE PrintTail \/ PrintEvents
    <2>1. pc'[u] = pc[u] /\ found'[u] = found[u] /\ UNCHANGED <<event, idx, reply>>
      BY <1>4, PrintFrame DEF Inv
    <2> QED
      BY <2>1 DEF SnapInv, Showing
  <1> QED
    BY <1>1, <1>2, <1>3, <1>4, EnterShow DEF Inv

\* The list does not grow while it is being sent (operations.c:443-475).
LEMMA ListedStays ==
  ASSUME Inv, NEW w \in Workers, StepOf(w), NEW u \in Workers, pc[u] = "list_send"
  PROVE  /\ tail' = tail
         /\ \A k \in 1..tail : event'[k].id = event[k].id
  <1>1. tail' = tail
    <2>1. u \in readers
      BY DEF Inv, LocksFollowCode, ReadPcs, Threads
    <2>2. writer = NoThread
      BY <2>1 DEF Inv, LocksFollowCode
    <2>3. ~CreateTail(w)
      BY <2>2, StoreAssumption DEF CreateTail, Inv, LocksFollowCode, CreatePcs, Threads
    <2> QED
      BY <2>3, TailFrame
  <1>2. tail \in Nat /\ linked \in Nat /\ tail <= linked
        /\ \A b \in 1..linked : event'[b].id = event[b].id
    BY ListGrows
  <1>3. 1..tail \subseteq 1..linked
    BY <1>2
  <1> QED
    BY <1>1, <1>2, <1>3

\* What a LIST has sent stays what the list holds.
LEMMA ListingStep ==
  ASSUME Inv, SnapInv, NEW w \in Workers, StepOf(w), NEW u \in Workers, pc'[u] = "list_send"
  PROVE  Listing(u)'
  <1>0. tail \in Nat /\ \A v \in Workers : /\ current[v] \in Nat /\ to[v] \in Nat
                                           /\ reply[v] \in Seq(Nat)
                                           /\ pc[v] = "list_send" => current[v] \in 1..to[v]
    BY ListTypes DEF Inv, StoreTypes, WorkFitsRequest, Threads
  <1>1. ASSUME pc[u] = "list_send", current'[u] = current[u], to'[u] = to[u], reply'[u] = reply[u]
        PROVE  Listing(u)'
    <2>1. Listing(u) /\ current[u] \in 1..to[u]
      BY <1>0, <1>1 DEF SnapInv
    <2>2. tail' = tail /\ \A k \in 1..tail : event'[k].id = event[k].id
      BY <1>1, ListedStays
    <2>3. 1..(current[u] - 1) \subseteq 1..tail
      BY <1>0, <2>1 DEF Listing
    <2> QED
      BY <1>1, <2>1, <2>2, <2>3 DEF Listing
  <1>2. CASE u # w
    <2>1. UNCHANGED Own(u) /\ current'[u] = current[u] /\ to'[u] = to[u]
      BY <1>2, OthersStay, WalksStay DEF Inv
    <2> QED
      BY <1>1, <2>1 DEF Own
  <1>3. CASE u = w /\ ListCount(w)
    <2>1. event' = event /\ tail' = tail /\ to'[w] = tail /\ current'[w] = head
          /\ head # NULL /\ reply'[w] = <<0, tail>>
      BY <1>3 DEF ListCount, listVars, Inv, StoreTypes, Threads
    <2>2. current'[w] = 1
      BY <2>1 DEF head
    <2>3. Len(<<0, tail>>) = 1 + 1 /\ 1..(1 - 1) = {}
      OBVIOUS
    <2> QED
      BY <1>3, <2>1, <2>2, <2>3 DEF Listing
  <1>4. CASE u = w /\ ListSend(w) /\ current[w] # to[w]
    <2> DEFINE c == current[w]
               s == reply[w]
    <2>1. pc[w] = "list_send" /\ event' = event /\ tail' = tail /\ to' = to
          /\ current'[w] = c + 1 /\ reply'[w] = Append(s, event[c].id)
      BY <1>4 DEF ListSend, listVars, Inv, StoreTypes, Threads
    <2>2. Listing(w)
      BY <2>1 DEF SnapInv
    <2>3. c \in Nat /\ c >= 1 /\ s \in Seq(Nat)
      BY <1>0, <2>1
    <2>4. Len(s) = 1 + c /\ s[1] = 0 /\ s[2] = tail /\ \A k \in 1..(c - 1) : s[2 + k] = event[k].id
      BY <2>2 DEF Listing
    <2>5. Len(reply'[w]) = 2 + c /\ reply'[w][2 + c] = event[c].id
          /\ \A k \in 1..(1 + c) : reply'[w][k] = s[k]
      BY SMTT(30), <2>1, <2>3, <2>4, Appends
    <2>6. ASSUME NEW k \in 1..c PROVE reply'[w][2 + k] = event[k].id
      <3>1. CASE k = c
        BY <2>5, <3>1
      <3>2. CASE k # c
        <4>1. k \in 1..(c - 1) /\ 2 + k \in 1..(1 + c)
          BY <2>3, <3>2
        <4> QED
          BY <2>4, <2>5, <4>1
      <3> QED
        BY <3>1, <3>2
    <2>7. reply'[w][1] = 0 /\ reply'[w][2] = tail
      <3>1. 1 \in 1..(1 + c) /\ 2 \in 1..(1 + c)
        BY <2>3
      <3> QED
        BY <2>4, <2>5, <3>1
    <2>8. (c + 1) - 1 = c /\ 2 + c = 1 + (c + 1)
      BY <2>3
    <2>9. to[w] = tail
      BY <2>2 DEF Listing
    <2> HIDE DEF c, s
    <2> QED
      BY <1>4, <2>1, <2>5, <2>6, <2>7, <2>8, <2>9 DEF Listing
  <1>5. CASE PrintTail \/ PrintEvents
    <2>1. pc'[u] = pc[u] /\ reply'[u] = reply[u]
      BY <1>5, PrintFrame DEF Inv
    <2>2. current'[u] = current[u] /\ to'[u] = to[u]
      BY <1>5, StoreAssumption
         DEF PrintTail, PrintEvents, PrintHead, PrintEnd, PrintId, PrintNext, StdoutRdlock, StdoutLookup,
             StdoutLock, StdoutSeats, localVars, Threads, Inv, StoreTypes
    <2> QED
      BY <1>1, <2>1, <2>2
  <1> QED
    BY <1>2, <1>3, <1>4, <1>5, EnterList DEF Inv

\* The new number stands on no seat when the reservation is accepted, and is put
\* on the seats that were asked for.
LEMMA OnlyAskedStep ==
  ASSUME Inv, SnapInv, NEW w \in Workers, StepOf(w), NEW u \in Workers, pc'[u] = "reserve_write"
  PROVE  OnlyAsked(u)'
  <1>1. CASE u # w
    <2>1. UNCHANGED Own(u)
      BY <1>1, OthersStay DEF Inv
    <2>2. pc[u] = "reserve_write" /\ OnlyAsked(u)
      BY <2>1 DEF Own, SnapInv
    <2>3. event'[found[u]] = event[found[u]]
      BY <1>1, <2>2, HeldEventStays DEF MutexPcs
    <2> QED
      BY <2>1, <2>2, <2>3 DEF Own, OnlyAsked
  <1>2. CASE u = w /\ ReserveAccept(w)
    <2> DEFINE e == event[found[w]]
    <2>1. EventOK(e) /\ found[w] \in 1..linked /\ event'[found[w]].data = e.data
      BY <1>2, AcceptEffect
    <2>2. \A i \in DOMAIN e.data : e.data[i] \in Nat /\ e.data[i] <= e.reservations
      BY <2>1 DEF Inv, NumbersAreSeated, EventOK
    <2>3. e.reservations \in Nat
      BY <2>1 DEF EventOK
    <2>4. found' = found /\ resId'[w] = e.reservations + 1
      BY <1>2 DEF ReserveAccept, Inv, StoreTypes
    <2>5. \A i \in DOMAIN e.data : e.data[i] # e.reservations + 1
      BY <2>2, <2>3
    <2> QED
      BY <1>2, <2>1, <2>4, <2>5 DEF OnlyAsked
  <1>3. CASE u = w /\ ReserveSeat(w)
    <2> DEFINE e == event[found[w]]
               f == event'[found[w]]
               seats == request[w].seats
    <2>1. f.data = [e.data EXCEPT ![SeatOf(w)] = resId[w]] /\ f.cols = e.cols
      BY <1>3, SeatEffect
    <2>2. found' = found /\ request' = request /\ resId' = resId /\ idx'[w] = idx[w] + 1
          /\ pc[w] = "reserve_write" /\ idx[w] \in Nat
      BY <1>3 DEF ReserveSeat, Inv, StoreTypes, Threads
    <2>3. OnlyAsked(w) /\ idx[w] >= 1
      BY <2>2 DEF SnapInv, Inv, WriteInProgress, Writing
    <2>4. \A j \in 1..idx[w] : seat_index(f, seats[j]) = seat_index(e, seats[j])
      BY <2>1 DEF seat_index
    <2>5. ASSUME NEW i \in DOMAIN f.data, f.data[i] = resId[w]
          PROVE  \E j \in 1..idx[w] : i = seat_index(e, seats[j])
      <3>1. CASE i = SeatOf(w)
        BY <2>2, <2>3, <3>1 DEF SeatOf
      <3>2. CASE i # SeatOf(w)
        <4>1. i \in DOMAIN e.data /\ e.data[i] = resId[w]
          BY <2>1, <2>5, <3>2
        <4>2. PICK j \in 1..(idx[w] - 1) : i = seat_index(e, seats[j])
          BY <2>3, <4>1 DEF OnlyAsked
        <4>3. j \in 1..idx[w]
          BY <2>2
        <4> QED
          BY <4>2, <4>3
      <3> QED
        BY <3>1, <3>2
    <2>6. (idx[w] + 1) - 1 = idx[w]
      BY <2>2
    <2> QED
      BY <1>3, <2>2, <2>4, <2>5, <2>6 DEF OnlyAsked
  <1>4. CASE PrintTail \/ PrintEvents
    <2>1. pc'[u] = pc[u] /\ found'[u] = found[u] /\ UNCHANGED <<event, request, idx, resId>>
      BY <1>4, PrintFrame DEF Inv
    <2> QED
      BY <2>1 DEF SnapInv, OnlyAsked
  <1> QED
    BY <1>1, <1>2, <1>3, <1>4, EnterWrite DEF Inv

\* An operation that does not send in a loop has written nothing until it ends.
LEMMA UnansweredStep ==
  ASSUME StoreTypes, Unanswered, NEW w \in Workers, StepOf(w)
  PROVE  Unanswered'
  <1> USE DEF listVars, localVars, printVars, Goto, Finish, Unanswered, StoreTypes, Threads
  <1> SUFFICES ASSUME NEW u \in Workers, pc'[u] \notin {"idle", "show_send", "list_send"}
               PROVE  reply'[u] = <<>>
    OBVIOUS
  <1>1. CASE u # w
    BY <1>1, OthersStay DEF Own
  <1>2. CASE u = w /\ Create(w)
    BY <1>2 DEF Create, CreateWrlock, CreateRefuse, CreateEvent, CreateLink, CreateTail
  <1>3. CASE u = w /\ Reserve(w)
    BY <1>3 DEF Reserve, ReserveRdlock, ReserveLookup, ReserveLock, ReserveRefuse, ReserveAccept,
                ReserveSeat, ReserveDone
  <1>4. CASE u = w /\ Show(w)
    BY <1>4 DEF Show, ShowRdlock, ShowLookup, ShowLock, ShowSeat, ShowDone
  <1>5. CASE u = w /\ List(w)
    BY <1>5 DEF List, ListRdlock, ListEmpty, ListCount, ListSend
  <1>6. CASE u = w /\ \E r \in Request : Receive(w, r)
    BY <1>6 DEF Receive
  <1>7. CASE PrintTail \/ PrintEvents
    BY <1>7, PrintFrame
  <1> QED
    BY <1>1, <1>2, <1>3, <1>4, <1>5, <1>6, <1>7 DEF StepOf, Work

\* Every step of a thread keeps SnapInv.
LEMMA SnapStep ==
  ASSUME Inv, SnapInv, NEW w \in Workers, StepOf(w)
  PROVE  SnapInv'
  <1>1. FoundById'
    BY FoundStep DEF SnapInv
  <1>2. NewNode'
    BY NewNodeStep DEF SnapInv
  <1>3. Unanswered'
    BY UnansweredStep DEF SnapInv, Inv
  <1> QED
    BY <1>1, <1>2, <1>3, ShowingStep, ListingStep, OnlyAskedStep DEF SnapInv

-----------------------------------------------------------------------------
(* The walk of print_events *)

\* Every step of a thread keeps PrintInv.
LEMMA PrintInvStep ==
  ASSUME Inv, PrintInv, NEW w \in Workers, StepOf(w)
  PROVE  PrintInv'
  <1>1. /\ linked \in Nat /\ linked' \in Nat /\ linked <= linked' /\ tail \in Nat /\ tail <= linked
        /\ \A b \in 1..linked : event'[b].id = event[b].id
    BY ListGrows
  <1>2. to[Main] <= linked
    BY <1>1 DEF Inv, StoreTypes, Threads
  <1>3. CASE Work(w) \/ \E r \in Request : Receive(w, r)
    <2>1. /\ pc'[Main] = pc[Main] /\ current'[Main] = current[Main] /\ to'[Main] = to[Main]
          /\ printed' = printed
      BY <1>3, MainStays DEF Inv
    <2>2. Len(printed) \in Nat
      BY DEF Inv, StoreTypes
    <2>3. Len(printed) <= linked' /\ 1..Len(printed) \subseteq 1..linked
          /\ 1..linked \subseteq 1..linked'
      BY <1>1, <2>2 DEF PrintInv
    <2> QED
      BY <1>1, <2>1, <2>3 DEF PrintInv
  <1>4. CASE PrintTail \/ PrintEvents
    <2>1. UNCHANGED <<event, linked, tail>>
      BY <1>4, PrintFrame DEF Inv
    <2> USE <2>1 DEF PrintInv, StdoutPcs, Goto
    <2>2. /\ printed \in Seq(Nat) /\ current \in [Threads -> Nat] /\ to \in [Threads -> Nat]
          /\ pc \in [Threads -> WorkerPcs \cup MainPcs] /\ Main \in Threads
      <3>1. 0..linked \subseteq Nat
        BY <1>1
      <3> QED
        BY <3>1 DEF Inv, StoreTypes, Threads
    <2>3. CASE PrintTail
      BY <1>1, <2>2, <2>3 DEF PrintTail
    <2>4. CASE PrintHead
      BY <1>1, <2>2, <2>4 DEF PrintHead, head, NULL, localVars, printVars
    <2>5. CASE PrintEnd
      BY <1>1, <2>2, <2>5 DEF PrintEnd, localVars, printVars
    <2>6. CASE PrintId
      BY <1>1, <2>2, <2>6, Appends DEF PrintId, localVars, printVars, NULL
    <2>7. CASE StdoutRdlock \/ StdoutLookup \/ StdoutLock
      BY <1>1, <2>2, <2>7 DEF StdoutRdlock, StdoutLookup, StdoutLock, localVars, printVars
    <2>8. CASE StdoutSeats
      BY <1>1, <2>2, <2>8 DEF StdoutSeats, localVars, printVars
    <2>9. CASE PrintNext
      BY <1>1, <1>2, <2>2, <2>9 DEF PrintNext, localVars, printVars, NULL
    <2> QED
      BY <1>4, <2>3, <2>4, <2>5, <2>6, <2>7, <2>8, <2>9 DEF PrintEvents
  <1> QED
    BY <1>3, <1>4 DEF StepOf

\* A step that changes nothing keeps both invariants.
LEMMA SnapStutters ==
  ASSUME SnapInv, PrintInv, UNCHANGED vars
  PROVE  SnapInv' /\ PrintInv'
  <1> USE DEF vars, listVars, rwlVars, localVars, printVars
  <1>1. SnapInv'
    BY DEF SnapInv, FoundById, NewNode, Unanswered, Showing, Listing, OnlyAsked
  <1>2. PrintInv'
    BY DEF PrintInv
  <1> QED
    BY <1>1, <1>2

\* Both invariants hold in every state of the store.
LEMMA SnapInvariance == Spec => [](SnapInv /\ PrintInv)
  <1>1. ASSUME Inv, SnapInv /\ PrintInv, [Next]_vars
        PROVE  (SnapInv /\ PrintInv)'
    BY <1>1, NextCases, SnapStep, PrintInvStep, SnapStutters
  <1> QED
    BY <1>1, InitSnap, Invariance, PTL DEF Spec

\* At every moment what a SHOW has sent is what its event holds, whatever the
\* other workers do: its reply is one moment's seat map (operations.c:285-331).
THEOREM ShowsAreSnapshots == Spec => []ShowIsSnapshot
  <1>1. SnapInv => ShowIsSnapshot
    BY DEF SnapInv, Showing, ShowIsSnapshot
  <1> QED
    BY <1>1, SnapInvariance, PTL

\* The walk of print_events, with no lock held, prints the events in list order
\* and stops at the tail it began with (main.c:457-480).
THEOREM PrintsStayOnList == Spec => []PrintStaysOnList
  <1>1. ASSUME Inv, PrintInv
        PROVE  PrintStaysOnList
    <2>1. to[Main] \in Nat /\ Len(printed) \in Nat /\ linked \in Nat
      BY <1>1, ListTypes DEF Inv, StoreTypes, Threads
    <2> QED
      BY <1>1, <2>1 DEF PrintInv, PrintStaysOnList, NULL
  <1> QED
    BY <1>1, Invariance, SnapInvariance, PTL

-----------------------------------------------------------------------------
(* The refinement *)

\* The abstract state, as the mapping of EventStore gives it.
AbsDb == [a \in 1..tail |-> AbsEvent(a)]

AbsRequest == [w \in Workers |-> IF pc[w] = "idle" THEN NoRequest ELSE request[w]]

AbsReply == [w \in Workers |-> IF pc[w] = "idle" THEN reply[w] ELSE <<>>]

\* The empty store is the empty database.
LEMMA AbsInit == Init => Abstract!Init
  <1> SUFFICES ASSUME Init PROVE Abstract!Init
    OBVIOUS
  <1>1. [a \in 1..tail |-> AbsEvent(a)] = <<>>
    BY DEF Init, Holding
  <1>2. AbsRequest = [w \in Workers |-> NoRequest] /\ AbsReply = [w \in Workers |-> <<>>]
    BY DEF AbsRequest, AbsReply, Init, Holding, Threads
  <1> QED
    BY <1>1, <1>2 DEF Abstract!Init, AbsRequest, AbsReply, Abstract!NoRequest, NoRequest

\* Who is between two requests, and with what reply, has not changed.
LEMMA SameClients ==
  ASSUME \A u \in Workers : /\ pc'[u] = "idle" <=> pc[u] = "idle"
                            /\ pc[u] # "idle" => request'[u] = request[u]
                            /\ pc[u] = "idle" => reply'[u] = reply[u]
  PROVE  UNCHANGED <<AbsRequest, AbsReply>>
  BY DEF AbsRequest, AbsReply

\* A step in the middle of an operation is none of the client's.
LEMMA MiddleStep ==
  ASSUME Inv, NEW w \in Workers, Work(w), pc[w] # "idle", pc'[w] # "idle"
  PROVE  UNCHANGED <<AbsRequest, AbsReply>>
  <1>1. request' = request
    BY DEF Work, Create, CreateWrlock, CreateRefuse, CreateEvent, CreateLink, CreateTail,
           Reserve, ReserveRdlock, ReserveLookup, ReserveLock, ReserveRefuse, ReserveAccept,
           ReserveSeat, ReserveDone,
           Show, ShowRdlock, ShowLookup, ShowLock, ShowSeat, ShowDone,
           List, ListRdlock, ListEmpty, ListCount, ListSend
  <1>2. \A u \in Workers : u # w => UNCHANGED Own(u)
    BY OthersStay DEF Inv, StepOf
  <1> QED
    BY <1>1, <1>2, SameClients DEF Own

\* A step of the main thread is none of a client's.
LEMMA MainStep ==
  ASSUME Inv, PrintTail \/ PrintEvents
  PROVE  UNCHANGED <<AbsRequest, AbsReply>>
  BY PrintFrame, SameClients DEF Inv

\* The last step of an operation answers the client.
LEMMA EndStep ==
  ASSUME Inv, NEW w \in Workers, Work(w), pc[w] # "idle", pc'[w] = "idle"
  PROVE  /\ AbsRequest' = [AbsRequest EXCEPT ![w] = NoRequest]
         /\ AbsReply' = [AbsReply EXCEPT ![w] = reply'[w]]
  <1>1. request' = request
    BY DEF Work, Create, CreateWrlock, CreateRefuse, CreateEvent, CreateLink, CreateTail,
           Reserve, ReserveRdlock, ReserveLookup, ReserveLock, ReserveRefuse, ReserveAccept,
           ReserveSeat, ReserveDone,
           Show, ShowRdlock, ShowLookup, ShowLock, ShowSeat, ShowDone,
           List, ListRdlock, ListEmpty, ListCount, ListSend
  <1>2. \A u \in Workers : u # w => pc'[u] = pc[u] /\ reply'[u] = reply[u]
    BY OthersStay DEF Own, Inv, StepOf
  <1>3. AbsRequest' = [AbsRequest EXCEPT ![w] = NoRequest]
    BY <1>1, <1>2 DEF AbsRequest
  <1>4. AbsReply' = [AbsReply EXCEPT ![w] = reply'[w]]
    BY <1>2 DEF AbsReply
  <1> QED
    BY <1>3, <1>4

\* What the abstract request of a working thread is.
LEMMA AbsRequestOf ==
  ASSUME NEW w \in Workers, pc[w] # "idle"
  PROVE  AbsRequest[w] = request[w]
  BY DEF AbsRequest

\* An event changes for its clients only as it changes itself, or as it begins or
\* ends to be written.
LEMMA AbsEventStays ==
  ASSUME NEW a, event'[a] = event[a], BeingWritten(a)' <=> BeingWritten(a)
  PROVE  AbsEvent(a)' = AbsEvent(a)
  BY DEF AbsEvent

\* An event begins to be written only where a reservation is accepted.
LEMMA WriterComes ==
  ASSUME Inv, NEW w \in Workers, StepOf(w), NEW a, BeingWritten(a)',
         ~(ReserveAccept(w) /\ found[w] = a)
  PROVE  BeingWritten(a)
  <1> PICK u \in Workers : pc'[u] = "reserve_write" /\ found'[u] = a
    BY DEF BeingWritten
  <1>1. CASE u # w
    BY <1>1, OthersStay DEF Own, BeingWritten, Inv
  <1>2. CASE u = w /\ ReserveAccept(w)
    BY <1>2 DEF ReserveAccept
  <1>3. CASE u = w /\ ReserveSeat(w)
    BY <1>3 DEF ReserveSeat, BeingWritten
  <1>4. CASE PrintTail \/ PrintEvents
    BY <1>4, PrintFrame DEF BeingWritten, Inv
  <1> QED
    BY <1>1, <1>2, <1>3, <1>4, EnterWrite DEF Inv

\* Who holds the mutex of an event is the only one who writes to it.
LEMMA OnlyWriter ==
  ASSUME Inv, NEW w \in Workers, pc[w] \in MutexPcs
  PROVE  BeingWritten(found[w]) <=> pc[w] = "reserve_write"
  BY OneHolder DEF BeingWritten, MutexPcs, Threads

\* Every place of the grid has a cell of its own.
LEMMA CellOf ==
  ASSUME NEW e, EventOK(e), NEW s \in (1..e.rows) \X (1..e.cols)
  PROVE  seat_index(e, s) \in DOMAIN e.data /\ e.data[seat_index(e, s)] \in Nat
  <1>1. e.rows \in Nat /\ e.cols \in Nat /\ e.data \in [0..(e.rows * e.cols - 1) -> Nat]
    BY DEF EventOK
  <1>2. s[1] \in 1..e.rows /\ s[2] \in 1..e.cols
    OBVIOUS
  <1>3. seat_index(e, s) \in 0..(e.rows * e.cols - 1)
    BY <1>1, <1>2, SeatIndexInRange DEF seat_index
  <1> QED
    BY <1>1, <1>3

LEMMA SeatIndexInjective ==
  ASSUME NEW cols \in Nat, NEW r \in Nat, NEW q \in Nat, NEW c \in 1..cols, NEW d \in 1..cols,
         (r - 1) * cols + c - 1 = (q - 1) * cols + d - 1
  PROVE  r = q /\ c = d
  <1>1. (r - q) * cols = d - c
    BY SMT
  <1>2. ASSUME r > q PROVE FALSE
    <2>1. (r - q) * cols >= cols
      BY <1>2, SMT
    <2> QED
      BY <1>1, <2>1
  <1>3. ASSUME r < q PROVE FALSE
    <2>1. (q - r) * cols >= cols
      BY <1>3, SMT
    <2>2. (r - q) * cols = 0 - (q - r) * cols
      BY SMT
    <2> QED
      BY <1>1, <2>1, <2>2
  <1> QED
    BY <1>1, <1>2, <1>3

LEMMA AbsInvoke ==
  ASSUME Inv, NEW w \in Workers, NEW r \in Request, Receive(w, r), UNCHANGED AbsDb
  PROVE  Abstract!Invoke(w, r)
  <1>1. /\ pc[w] = "idle" /\ pc'[w] # "idle" /\ request'[w] = r
        /\ \A u \in Workers : u # w => pc'[u] = pc[u] /\ request'[u] = request[u] /\ reply'[u] = reply[u]
    BY DEF Receive, Goto, Entry, Request, Inv, StoreTypes, Threads
  <1>2. AbsRequest[w] = NoRequest /\ AbsRequest' = [AbsRequest EXCEPT ![w] = r]
    BY <1>1 DEF AbsRequest
  <1>3. AbsReply' = [AbsReply EXCEPT ![w] = <<>>]
    BY <1>1 DEF AbsReply
  <1> QED
    BY <1>2, <1>3 DEF Abstract!Invoke, AbsDb, AbsRequest, AbsReply, Abstract!NoRequest, NoRequest
-----------------------------------------------------------------------------
(* The database *)

\* A reservation that is accepted is not there yet.
LEMMA AcceptUnseen ==
  ASSUME Inv, NEW w \in Workers, ReserveAccept(w)
  PROVE  AbsEvent(found[w])' = AbsEvent(found[w])
  <1> DEFINE a == found[w]
             e == event[a]
             f == event'[a]
             G == (1..e.rows) \X (1..e.cols)
             seat(s) == e.data[seat_index(e, s)]
  <1>1. /\ EventOK(e) /\ a \in 1..linked
        /\ f.id = e.id /\ f.rows = e.rows /\ f.cols = e.cols /\ f.data = e.data
        /\ f.reservations = e.reservations + 1
    BY AcceptEffect
  <1>2. found' = found /\ pc[w] = "reserve_check" /\ pc'[w] = "reserve_write"
    BY DEF ReserveAccept, Goto, Inv, StoreTypes, Threads
  <1>3. ~BeingWritten(a)
    BY <1>2, OnlyWriter DEF MutexPcs
  <1>4. (\E u \in Workers : pc'[u] = "reserve_write" /\ found'[u] = a)
    BY <1>2
  <1>5. ASSUME NEW s \in G PROVE seat(s) # e.reservations + 1 /\ seat_index(f, s) = seat_index(e, s)
    <2>1. seat_index(e, s) \in DOMAIN e.data /\ seat(s) \in Nat /\ e.reservations \in Nat
      BY <1>1, CellOf DEF EventOK
    <2>2. seat(s) <= e.reservations
      BY <1>1, <2>1 DEF Inv, NumbersAreSeated
    <2> QED
      BY <1>1, <2>1, <2>2 DEF seat_index
  <1>6. f.reservations - 1 = e.reservations
    BY <1>1 DEF EventOK
  <1>7. AbsEvent(a) = [id |-> e.id, rows |-> e.rows, cols |-> e.cols, bookings |-> e.reservations,
                       seat |-> [s \in G |-> seat(s)]]
    BY <1>3 DEF AbsEvent
  <1>8. AbsEvent(a)' = [id |-> f.id, rows |-> f.rows, cols |-> f.cols,
                        bookings |-> f.reservations - 1,
                        seat |-> [s \in (1..f.rows) \X (1..f.cols) |->
                                    IF f.data[seat_index(f, s)] = f.reservations
                                    THEN 0 ELSE f.data[seat_index(f, s)]]]
    BY <1>2, <1>4 DEF AbsEvent, BeingWritten
  <1>9. [s \in (1..f.rows) \X (1..f.cols) |->
           IF f.data[seat_index(f, s)] = f.reservations THEN 0 ELSE f.data[seat_index(f, s)]]
        = [s \in G |-> seat(s)]
    BY <1>1, <1>5
  <1> HIDE DEF a, e, f, G, seat
  <1> QED
    BY <1>1, <1>6, <1>7, <1>8, <1>9, <1>2 DEF a

\* Nor is it when some of its seats are written.
LEMMA SeatUnseen ==
  ASSUME Inv, NEW w \in Workers, ReserveSeat(w)
  PROVE  AbsEvent(found[w])' = AbsEvent(found[w])
  <1> DEFINE a == found[w]
             e == event[a]
             f == event'[a]
             G == (1..e.rows) \X (1..e.cols)
             undo(n) == IF n = e.reservations THEN 0 ELSE n
             seats == request[w].seats
  <1>1. /\ EventOK(e) /\ a \in 1..linked
        /\ f.id = e.id /\ f.rows = e.rows /\ f.cols = e.cols
        /\ f.data = [e.data EXCEPT ![SeatOf(w)] = resId[w]]
        /\ f.reservations = e.reservations
    BY SeatEffect
  <1>2. found' = found /\ pc[w] = "reserve_write" /\ pc' = pc
    BY DEF ReserveSeat
  <1>3. Writing(w) /\ idx[w] <= Len(seats)
    BY <1>2 DEF ReserveSeat, Inv, WriteInProgress
  <1>4. resId[w] = e.reservations /\ e.data[SeatOf(w)] \in {0, resId[w]}
    <2>1. idx[w] \in DOMAIN seats
      BY <1>2, <1>3, SeatListOf DEF Writing
    <2> QED
      BY <1>3, <2>1 DEF Writing, SeatOf
  <1>5. ASSUME NEW s \in G PROVE undo(f.data[seat_index(f, s)]) = undo(e.data[seat_index(e, s)])
    <2>1. seat_index(e, s) \in DOMAIN e.data /\ seat_index(f, s) = seat_index(e, s)
      BY <1>1, CellOf DEF seat_index
    <2> QED
      BY <1>1, <1>4, <2>1
  <1>6. BeingWritten(a) /\ \E u \in Workers : pc'[u] = "reserve_write" /\ found'[u] = a
    BY <1>2 DEF BeingWritten
  <1>7. AbsEvent(a) = [id |-> e.id, rows |-> e.rows, cols |-> e.cols, bookings |-> e.reservations - 1,
                       seat |-> [s \in G |-> undo(e.data[seat_index(e, s)])]]
    BY <1>6 DEF AbsEvent
  <1>8. AbsEvent(a)' = [id |-> f.id, rows |-> f.rows, cols |-> f.cols,
                        bookings |-> f.reservations - 1,
                        seat |-> [s \in (1..f.rows) \X (1..f.cols) |->
                                    IF f.data[seat_index(f, s)] = f.reservations
                                    THEN 0 ELSE f.data[seat_index(f, s)]]]
    BY <1>2, <1>6 DEF AbsEvent, BeingWritten
  <1>9. [s \in (1..f.rows) \X (1..f.cols) |->
           IF f.data[seat_index(f, s)] = f.reservations THEN 0 ELSE f.data[seat_index(f, s)]]
        = [s \in G |-> undo(e.data[seat_index(e, s)])]
    BY <1>1, <1>5
  <1> HIDE DEF a, e, f, G, undo
  <1> QED
    BY <1>1, <1>7, <1>8, <1>9, <1>2 DEF a

\* The database changes only where a CREATE or a RESERVE ends.
LEMMA DbStays ==
  ASSUME Inv, NEW w \in Workers, StepOf(w), ~CreateTail(w), ~ReserveDone(w)
  PROVE  UNCHANGED AbsDb
  <1>1. tail' = tail /\ tail \in Nat /\ linked \in Nat /\ tail <= linked
    BY TailFrame, ListGrows
  <1>2. ASSUME NEW a \in 1..tail
        PROVE  AbsEvent(a)' = AbsEvent(a)
    <2>1. a \in 1..linked /\ a \in Node
      BY <1>1, ListTypes DEF Inv
    <2>2. CASE ReserveAccept(w) /\ found[w] = a
      BY <2>2, AcceptUnseen DEF ReserveAccept
    <2>3. CASE ReserveSeat(w) /\ found[w] = a
      BY <2>3, SeatUnseen DEF ReserveSeat
    <2>4. CASE ~(ReserveAccept(w) /\ found[w] = a) /\ ~(ReserveSeat(w) /\ found[w] = a)
      <3>1. event'[a] = event[a]
        <4>1. CASE UNCHANGED <<event, linked>> \/ CreateLink(w)
          BY <4>1 DEF CreateLink
        <4>2. CASE CreateEvent(w)
          BY <2>1, <4>2, CreateEffect
        <4>3. CASE ReserveAccept(w)
          BY <2>1, <2>4, <4>3, AcceptEffect
        <4>4. CASE ReserveSeat(w)
          BY <2>1, <2>4, <4>4, SeatEffect
        <4> QED
          BY <4>1, <4>2, <4>3, <4>4, EventFrame
      <3>2. BeingWritten(a)' <=> BeingWritten(a)
        BY <2>4, WritersStay, WriterComes
      <3> QED
        BY <3>1, <3>2, AbsEventStays
    <2> QED
      BY <2>2, <2>3, <2>4
  <1> QED
    BY <1>1, <1>2 DEF AbsDb

\* A function on 1..n is a sequence of length n.
LEMMA FunSeq ==
  ASSUME NEW n \in Nat, NEW g, g = [a \in 1..n |-> g[a]], NEW S, \A a \in 1..n : g[a] \in S
  PROVE  g \in Seq(S) /\ Len(g) = n
  <1>1. g \in [1..n -> S]
    OBVIOUS
  <1>2. g \in Seq(S)
    BY <1>1, SeqDef
  <1>3. DOMAIN g = 1..Len(g) /\ Len(g) \in Nat
    BY <1>2, LenProperties
  <1>4. DOMAIN g = 1..n
    BY <1>1
  <1> QED
    BY <1>2, <1>3, <1>4

\* A sequence that has one more element.
LEMMA AppendFun ==
  ASSUME NEW n \in Nat, NEW S, NEW g \in [1..n -> S], NEW h \in [1..(n + 1) -> S],
         \A a \in 1..n : h[a] = g[a]
  PROVE  h = Append(g, h[n + 1])
  <1> DEFINE x == h[n + 1]
  <1>1. g \in Seq(S) /\ h \in Seq(S) /\ x \in S /\ Len(g) = n /\ Len(h) = n + 1
    BY FunSeq
  <1> HIDE DEF x
  <1>2. /\ Append(g, x) \in Seq(S) /\ Len(Append(g, x)) = n + 1
        /\ \A a \in 1..n : Append(g, x)[a] = g[a]
        /\ Append(g, x)[n + 1] = x
    BY <1>1, AppendProperties
  <1>3. ASSUME NEW a \in 1..(n + 1) PROVE Append(g, x)[a] = h[a]
    <2>1. CASE a = n + 1
      BY <1>2, <2>1 DEF x
    <2>2. CASE a \in 1..n
      BY <1>2, <2>2
    <2> QED
      BY <2>1, <2>2
  <1> QED
    BY <1>1, <1>2, <1>3, SeqEqual DEF x

\* A sequence that begins with s and goes on with t.
LEMMA ConcatFun ==
  ASSUME NEW s \in Seq(Nat), NEW n \in Nat, NEW t \in [1..n -> Nat],
         NEW r \in Seq(Nat), Len(r) = Len(s) + n,
         \A k \in 1..Len(s) : r[k] = s[k],
         \A k \in 1..n : r[Len(s) + k] = t[k]
  PROVE  r = s \o t
  <1>0. Len(s) \in Nat
    BY LenProperties
  <1>1. t \in Seq(Nat) /\ Len(t) = n
    BY FunSeq
  <1>2. /\ s \o t \in Seq(Nat) /\ Len(s \o t) = Len(s) + n
        /\ \A k \in 1..(Len(s) + n) : (s \o t)[k] = IF k <= Len(s) THEN s[k] ELSE t[k - Len(s)]
    BY <1>1, ConcatProperties
  <1>3. ASSUME NEW k \in 1..(Len(s) + n) PROVE r[k] = (s \o t)[k]
    <2>1. CASE k <= Len(s)
      BY <1>0, <1>2, <2>1
    <2>2. CASE k > Len(s)
      <3>1. k - Len(s) \in 1..n /\ Len(s) + (k - Len(s)) = k
        BY <1>0, <2>2
      <3>2. r[k] = t[k - Len(s)]
        BY <3>1
      <3> QED
        BY <1>0, <1>2, <2>2, <3>2
    <2> QED
      BY <1>0, <2>1, <2>2
  <1> QED
    BY <1>2, <1>3, SeqEqual

\* The abstract database has the events up to the tail, with their ids.
LEMMA DbSeq ==
  ASSUME Inv
  PROVE  /\ tail \in Nat /\ Len(AbsDb) = tail
         /\ \A a \in 1..tail : AbsDb[a] = AbsEvent(a)
         /\ \A id : Abstract!Holders(id) = {a \in 1..tail : event[a].id = id}
  <1>1. tail \in Nat
    BY ListTypes DEF Inv
  <1>2. AbsDb = [a \in 1..tail |-> AbsDb[a]] /\ \A a \in 1..tail : AbsDb[a] = AbsEvent(a)
    BY DEF AbsDb
  <1>3. Len(AbsDb) = tail
    <2>1. \A a \in 1..tail : AbsDb[a] \in {AbsDb[b] : b \in 1..tail}
      OBVIOUS
    <2> QED
      BY <1>1, <1>2, <2>1, FunSeq
  <1>4. \A a \in 1..tail : AbsEvent(a).id = event[a].id
    BY DEF AbsEvent
  <1>5. ASSUME NEW id PROVE Abstract!Holders(id) = {a \in 1..tail : event[a].id = id}
    <2>1. Abstract!Holders(id) = {a \in 1..Len(AbsDb) : AbsDb[a].id = id}
      BY DEF Abstract!Holders, AbsDb
    <2> QED
      BY <1>2, <1>3, <1>4, <2>1
  <1> QED
    BY <1>1, <1>2, <1>3, <1>5

\* A worker's step belongs to the operation its request names.
LEMMA OpOf ==
  ASSUME Inv, NEW w \in Workers
  PROVE  /\ pc[w] \in CreatePcs => request[w].op = "create"
         /\ pc[w] \in {"reserve_lookup", "reserve_check", "reserve_write"} => request[w].op = "reserve"
         /\ pc[w] \in {"show_lookup", "show_send"} => request[w].op = "show"
         /\ pc[w] \in {"list_head", "list_send"} => request[w].op = "list"
  BY DEF Inv, WorkFitsRequest, OpAt, CreatePcs

-----------------------------------------------------------------------------
(* Each operation takes effect *)

\* An operation that has written nothing yet ends with a reply of one number.
LEMMA Answers ==
  ASSUME Inv, SnapInv, NEW w \in Workers, Work(w), NEW n, Finish(w, <<n>>),
         pc[w] \notin {"idle", "show_send", "list_send"}
  PROVE  Abstract!Answer(w, <<n>>)
  <1>1. pc'[w] = "idle" /\ reply'[w] = reply[w] \o <<n>>
    BY DEF Finish, Goto, Inv, StoreTypes, Threads
  <1>2. reply[w] \o <<n>> = <<n>>
    <2>1. reply[w] = <<>>
      BY DEF SnapInv, Unanswered
    <2> QED
      BY <2>1
  <1> QED
    BY <1>1, <1>2, EndStep
       DEF Abstract!Answer, AbsRequest, AbsReply, Abstract!NoRequest, NoRequest

\* The last store of append_to_list is the moment at which the event exists.
LEMMA CreateTakesEffect ==
  ASSUME Inv, SnapInv, NEW w \in Workers, CreateTail(w)
  PROVE  Abstract!Create(w)
  <1> DEFINE r == request[w]
  <1>1. pc[w] = "create_tail" /\ pc'[w] = "idle"
        /\ event' = event /\ found' = found /\ tail' = linked /\ linked' = linked
    BY DEF CreateTail, Finish, Goto, localVars, Inv, StoreTypes, Threads
  <1>3. Abstract!Answer(w, <<0>>)
    BY <1>1, Answers DEF CreateTail, Work, Create
  <1> PICK n \in Nat : n = tail
    BY DbSeq
  <1>4. linked = n + 1 /\ tail = n
    <2>1. tail = linked - 1 /\ linked \in Nat
      BY <1>1, ListTypes DEF Inv, ListWellFormed
    <2> QED
      BY <2>1
  <1>5. event[linked] = NewEvent(r)
    BY <1>1 DEF SnapInv, NewNode
  <1>6. Abstract!Holders(r.id) = {}
    <2>1. ASSUME NEW a \in 1..n PROVE event[a].id # r.id
      <3>1. a \in 1..linked /\ linked \in 1..linked /\ a # linked
        BY <1>4
      <3>2. event[linked].id = r.id
        BY <1>5 DEF NewEvent
      <3> QED
        BY <3>1, <3>2 DEF Inv, NoDuplicateIds
    <2> QED
      BY <1>4, <2>1, DbSeq
  <1>7. \A a : BeingWritten(a)' <=> BeingWritten(a)
    <2>1. ~ReserveDone(w) /\ ~ReserveAccept(w) /\ StepOf(w)
      BY <1>1 DEF ReserveDone, ReserveAccept, StepOf, Work, Create
    <2> QED
      BY <2>1, WritersStay, WriterComes
  <1>8. \A a \in 1..n : AbsEvent(a)' = AbsEvent(a)
    BY <1>1, <1>7, AbsEventStays
  <1>9. AbsEvent(n + 1)' = Abstract!EmptyEvent(r)
    <2>1. ~BeingWritten(n + 1)
      <3>1. \A u \in Workers : pc[u] = "reserve_write" => found[u] \in 1..n
        BY <1>4 DEF SnapInv, FoundById, EventPcs, Threads
      <3> QED
        BY <1>4, <3>1 DEF BeingWritten
    <2>2. AbsEvent(n + 1)' = AbsEvent(n + 1)
      BY <1>1, <1>7, AbsEventStays
    <2> DEFINE e == NewEvent(r)
    <2>3. AbsEvent(n + 1) = [id |-> e.id, rows |-> e.rows, cols |-> e.cols,
                              bookings |-> e.reservations,
                              seat |-> [s \in (1..e.rows) \X (1..e.cols) |-> e.data[seat_index(e, s)]]]
      BY <1>4, <1>5, <2>1 DEF AbsEvent
    <2>4. EventOK(e) /\ \A i \in DOMAIN e.data : e.data[i] = 0
      <3>1. EventOK(event[linked])
        BY <1>4, ListTypes DEF Inv
      <3> QED
        BY <1>5, <3>1 DEF NewEvent
    <2>5. \A s \in (1..e.rows) \X (1..e.cols) : e.data[seat_index(e, s)] = 0
      BY <2>4, CellOf
    <2>6. e.id = r.id /\ e.rows = r.rows /\ e.cols = r.cols /\ e.reservations = 0
      BY DEF NewEvent
    <2> HIDE DEF e
    <2> QED
      BY <2>2, <2>3, <2>5, <2>6 DEF Abstract!EmptyEvent, Abstract!Grid
  <1>10. AbsDb' = Append(AbsDb, Abstract!EmptyEvent(r))
    <2> DEFINE h == AbsDb'
    <2>1. h = [a \in 1..(n + 1) |-> AbsEvent(a)']
      BY <1>1, <1>4 DEF AbsDb
    <2> DEFINE S == {h[a] : a \in 1..(n + 1)}
    <2>2. \A a \in 1..n : h[a] = AbsDb[a]
      BY <1>4, <1>8, <2>1, DbSeq
    <2>3. h \in [1..(n + 1) -> S] /\ AbsDb \in [1..n -> S]
      <3>1. h \in [1..(n + 1) -> S]
        BY <2>1
      <3>2. AbsDb = [a \in 1..n |-> AbsDb[a]]
        BY <1>4 DEF AbsDb
      <3>3. \A a \in 1..n : AbsDb[a] \in S
        BY <2>2
      <3> HIDE DEF h, S
      <3> QED
        BY <3>1, <3>2, <3>3
    <2>4. h[n + 1] = Abstract!EmptyEvent(r)
      BY <1>4, <1>9, <2>1
    <2> HIDE DEF h, S
    <2>5. h = Append(AbsDb, h[n + 1])
      BY <2>2, <2>3, AppendFun
    <2> QED
      BY <2>4, <2>5 DEF h
  <1>11. AbsRequest[w] = r /\ r.op = "create"
    BY <1>1, AbsRequestOf, OpOf DEF CreatePcs
  <1> QED
    BY <1>3, <1>6, <1>10, <1>11 DEF Abstract!Create, AbsDb, AbsRequest

\* A CREATE is refused without a trace.
LEMMA CreateRefused ==
  ASSUME Inv, SnapInv, NEW w \in Workers, CreateRefuse(w)
  PROVE  Abstract!Create(w)
  <1>1. pc[w] = "create_lookup"
    BY DEF CreateRefuse
  <1>3. Abstract!Answer(w, <<1>>)
    BY <1>1, Answers DEF CreateRefuse, Work, Create
  <1>4. UNCHANGED AbsDb
    BY <1>1, DbStays DEF CreateTail, ReserveDone, StepOf, Work, Create
  <1>5. AbsRequest[w].op = "create"
    BY <1>1, AbsRequestOf, OpOf DEF CreatePcs
  <1> QED
    BY <1>3, <1>4, <1>5 DEF Abstract!Create, AbsDb, AbsRequest

\* A seat inside the bounds of an event is a place of its grid, with the cell
\* that no other place has.
LEMMA AskedInGrid ==
  ASSUME NEW e, EventOK(e), NEW seats \in SeatLists, InBounds(e, seats), NEW j \in DOMAIN seats
  PROVE  /\ seats[j] \in (1..e.rows) \X (1..e.cols)
         /\ \A s \in (1..e.rows) \X (1..e.cols) :
              seat_index(e, s) = seat_index(e, seats[j]) => s = seats[j]
  <1>1. seats[j] \in Nat \X Nat /\ seats[j][1] \in 1..e.rows /\ seats[j][2] \in 1..e.cols
    <2>1. seats \in Seq(Nat \X Nat)
      BY StoreAssumption
    <2> QED
      BY <2>1 DEF InBounds
  <1>2. seats[j] = <<seats[j][1], seats[j][2]>>
    BY <1>1
  <1>3. e.rows \in Nat /\ e.cols \in Nat
    BY DEF EventOK
  <1>4. ASSUME NEW s \in (1..e.rows) \X (1..e.cols), seat_index(e, s) = seat_index(e, seats[j])
        PROVE  s = seats[j]
    <2>1. s = <<s[1], s[2]>> /\ s[1] \in Nat /\ s[1] \in 1..e.rows /\ s[2] \in 1..e.cols
      BY <1>3
    <2>2. (s[1] - 1) * e.cols + s[2] - 1 = (seats[j][1] - 1) * e.cols + seats[j][2] - 1
      BY <1>4 DEF seat_index
    <2>3. \A r, q \in Nat : \A c, d \in 1..e.cols :
            (r - 1) * e.cols + c - 1 = (q - 1) * e.cols + d - 1 => r = q /\ c = d
      BY <1>3, SeatIndexInjective
    <2>4. seats[j][1] \in Nat
      BY <1>1, <1>3
    <2>5. s[1] = seats[j][1] /\ s[2] = seats[j][2]
      BY <1>1, <2>1, <2>2, <2>3, <2>4
    <2> QED
      BY <1>2, <2>1, <2>5
  <1> QED
    BY <1>1, <1>2, <1>4

\* When all its seats are written, the new number stands on exactly those that
\* were asked for.
LEMMA WrittenSeats ==
  ASSUME Inv, SnapInv, NEW w \in Workers, ReserveDone(w)
  PROVE  LET e == event[found[w]]  seats == request[w].seats IN
         /\ EventOK(e)
         /\ \A j \in 1..Len(seats) : /\ seats[j] \in (1..e.rows) \X (1..e.cols)
                                     /\ e.data[seat_index(e, seats[j])] = e.reservations
         /\ \A s \in (1..e.rows) \X (1..e.cols) :
              e.data[seat_index(e, s)] = e.reservations => s \in Abstract!Asked(seats)
  <1> DEFINE e == event[found[w]]
             seats == request[w].seats
  <1>1. EventOK(e)
    BY FoundEvent DEF ReserveDone, EventPcs, Threads
  <1>2. seats \in SeatLists /\ Len(seats) \in Nat /\ DOMAIN seats = 1..Len(seats)
    BY SeatListOf DEF ReserveDone
  <1>3. Writing(w) /\ OnlyAsked(w) /\ idx[w] > Len(seats)
    BY DEF ReserveDone, Inv, WriteInProgress, SnapInv
  <1>4. /\ InBounds(e, seats) /\ resId[w] = e.reservations
        /\ idx[w] \in 1..(Len(seats) + 1)
        /\ \A j \in 1..(idx[w] - 1) : e.data[seat_index(e, seats[j])] = resId[w]
    BY <1>3 DEF Writing
  <1>5. idx[w] - 1 = Len(seats)
    BY <1>2, <1>3, <1>4
  <1>6. \A j \in 1..Len(seats) : /\ seats[j] \in (1..e.rows) \X (1..e.cols)
                                 /\ e.data[seat_index(e, seats[j])] = e.reservations
    BY <1>1, <1>2, <1>4, <1>5, AskedInGrid
  <1>7. ASSUME NEW s \in (1..e.rows) \X (1..e.cols), e.data[seat_index(e, s)] = e.reservations
        PROVE  s \in Abstract!Asked(seats)
    <2>1. seat_index(e, s) \in DOMAIN e.data
      BY <1>1, CellOf
    <2>2. PICK j \in 1..Len(seats) : seat_index(e, s) = seat_index(e, seats[j])
      BY <1>3, <1>4, <1>5, <1>7, <2>1 DEF OnlyAsked
    <2>3. s = seats[j]
      BY <1>1, <1>2, <1>4, <2>2, AskedInGrid
    <2> QED
      BY <2>3 DEF Abstract!Asked
  <1> QED
    BY <1>1, <1>6, <1>7

\* An event of the database, from what it has of an event of the store.
AbsRecord(e, bookings, seat) ==
  [id |-> e.id, rows |-> e.rows, cols |-> e.cols, bookings |-> bookings, seat |-> seat]

\* What Book makes of it.
LEMMA BookRecord ==
  ASSUME NEW e, NEW b, NEW t, NEW seats
  PROVE  Abstract!Book(AbsRecord(e, b, t), seats)
         = AbsRecord(e, b + 1, [s \in DOMAIN t |-> IF s \in Abstract!Asked(seats) THEN b + 1 ELSE t[s]])
  <1> DEFINE x == AbsRecord(e, b, t)
             u == [s \in DOMAIN t |-> IF s \in Abstract!Asked(seats) THEN b + 1 ELSE t[s]]
             y == [x EXCEPT !.bookings = b + 1]
  <1>1. x.bookings = b /\ x.seat = t
    BY DEF AbsRecord
  <1>2. Abstract!Book(x, seats) = [x EXCEPT !.bookings = b + 1, !.seat = u]
    BY <1>1 DEF Abstract!Book
  <1>3. y = AbsRecord(e, b + 1, t)
    BY DEF AbsRecord
  <1>4. [x EXCEPT !.bookings = b + 1, !.seat = u] = [y EXCEPT !.seat = u]
    OBVIOUS
  <1> HIDE DEF x, y, u
  <1>5. [y EXCEPT !.seat = u] = AbsRecord(e, b + 1, u)
    BY <1>3 DEF AbsRecord
  <1> QED
    BY <1>2, <1>4, <1>5 DEF x, u

\* The end of the write is the moment at which the reservation is there, whole.
LEMMA ReserveTakesEffect ==
  ASSUME Inv, SnapInv, NEW w \in Workers, ReserveDone(w)
  PROVE  Abstract!Reserve(w)
  <1> DEFINE r == request[w]
  <1>1. /\ pc[w] = "reserve_write" /\ pc'[w] = "idle"
        /\ UNCHANGED <<event, found, tail>>
    BY DEF ReserveDone, Finish, Goto, localVars, Inv, StoreTypes, Threads
  <1>3. Abstract!Answer(w, <<0>>)
    BY <1>1, Answers DEF ReserveDone, Work, Reserve
  <1>4. AbsRequest[w] = r /\ r.op = "reserve"
    BY <1>1, AbsRequestOf, OpOf
  <1>5. found[w] \in 1..tail /\ event[found[w]].id = r.id
    BY <1>1 DEF SnapInv, FoundById, EventPcs, Threads
  <1> PICK a \in 1..tail : a = found[w]
    BY <1>5
  <1> DEFINE e == event[a]
             G == (1..e.rows) \X (1..e.cols)
             undo(n) == IF n = e.reservations THEN 0 ELSE n
             seat(s) == e.data[seat_index(e, s)]
  <1>6. /\ EventOK(e)
        /\ \A j \in 1..Len(r.seats) : r.seats[j] \in G /\ seat(r.seats[j]) = e.reservations
        /\ \A s \in G : seat(s) = e.reservations => s \in Abstract!Asked(r.seats)
    BY WrittenSeats
  <1>7. \A s \in Abstract!Asked(r.seats) : s \in G /\ seat(s) = e.reservations
    BY <1>6 DEF Abstract!Asked
  <1>8. BeingWritten(a) /\ ~(\E u \in Workers : pc'[u] = "reserve_write" /\ found'[u] = a)
    <2>1. BeingWritten(a)
      BY <1>1 DEF BeingWritten
    <2>2. ASSUME NEW u \in Workers, pc'[u] = "reserve_write", found'[u] = a PROVE FALSE
      <3>1. u # w
        BY <1>1, <2>2
      <3>2. pc[u] = "reserve_write" /\ found[u] = a
        BY <2>2, <3>1, OthersStay DEF Own, Inv, StepOf, Work, Reserve
      <3> QED
        BY <1>1, <3>1, <3>2, OneHolder DEF MutexPcs, Threads
    <2> QED
      BY <2>1, <2>2
  <1>9. AbsEvent(a) = AbsRecord(e, e.reservations - 1, [s \in G |-> undo(seat(s))])
    BY <1>8 DEF AbsEvent, AbsRecord
  <1>10. AbsEvent(a)' = AbsRecord(e, e.reservations, [s \in G |-> seat(s)])
    BY <1>1, <1>8 DEF AbsEvent, AbsRecord, BeingWritten
  <1>11. e.reservations \in Nat /\ e.reservations - 1 + 1 = e.reservations
    BY <1>6 DEF EventOK
  <1>12. AbsEvent(a)' = Abstract!Book(AbsEvent(a), r.seats)
    <2> DEFINE t == [s \in G |-> undo(seat(s))]
    <2>1. DOMAIN t = G /\ \A s \in G : t[s] = undo(seat(s))
      OBVIOUS
    <2>2. \A s \in G : (IF s \in Abstract!Asked(r.seats) THEN e.reservations ELSE t[s]) = seat(s)
      BY <1>6, <1>7
    <2>3. [s \in DOMAIN t |-> IF s \in Abstract!Asked(r.seats) THEN e.reservations ELSE t[s]]
          = [s \in G |-> seat(s)]
      BY <2>1, <2>2
    <2> HIDE DEF t
    <2>4. Abstract!Book(AbsRecord(e, e.reservations - 1, t), r.seats)
          = AbsRecord(e, e.reservations, [s \in G |-> seat(s)])
      BY <1>11, <2>3, BookRecord
    <2> QED
      BY <1>9, <1>10, <2>4 DEF t
  <1>13. Abstract!Bookable(AbsEvent(a), r.seats)
    BY <1>7, <1>9 DEF Abstract!Bookable, Abstract!Grid, AbsRecord
  <1>14. \A b \in 1..tail : b # a => AbsEvent(b)' = AbsEvent(b)
    <2> SUFFICES ASSUME NEW b \in 1..tail, b # a PROVE AbsEvent(b)' = AbsEvent(b)
      OBVIOUS
    <2>1. BeingWritten(b)' => BeingWritten(b)
      BY <1>1, WriterComes DEF ReserveAccept, StepOf, Work, Reserve
    <2>2. ASSUME BeingWritten(b) PROVE BeingWritten(b)'
      <3> PICK u \in Workers : pc[u] = "reserve_write" /\ found[u] = b
        BY <2>2 DEF BeingWritten
      <3> QED
        BY OthersStay DEF Own, Inv, StepOf, Work, Reserve, BeingWritten
    <2> QED
      BY <1>1, <2>1, <2>2, AbsEventStays
  <1>15. AbsDb' = [AbsDb EXCEPT ![a] = Abstract!Book(AbsDb[a], r.seats)]
    <2>1. AbsDb' = [b \in 1..tail |-> AbsEvent(b)']
      BY <1>1 DEF AbsDb
    <2>2. AbsDb = [b \in 1..tail |-> AbsEvent(b)]
      BY DEF AbsDb
    <2> QED
      BY <1>12, <1>14, <2>1, <2>2
  <1>16. a \in Abstract!Holders(r.id) /\ AbsDb[a] = AbsEvent(a)
    BY <1>5, DbSeq
  <1> QED
    BY <1>3, <1>4, <1>13, <1>15, <1>16 DEF Abstract!Reserve, AbsDb, AbsRequest

\* A search that misses: no event of the database has the id.
LEMMA NotFound ==
  ASSUME Inv, NEW id, get_event(id) = NULL
  PROVE  Abstract!Holders(id) = {}
  BY GetEvent, DbSeq DEF Inv

\* A RESERVE or a SHOW whose event is not there is refused.
LEMMA LookupMisses ==
  ASSUME Inv, SnapInv, NEW w \in Workers, ReserveLookup(w) \/ ShowLookup(w), pc'[w] = "idle"
  PROVE  Abstract!Reserve(w) \/ Abstract!Show(w)
  <1> DEFINE r == request[w]
  <1>1. pc[w] \in {"reserve_lookup", "show_lookup"} /\ Work(w)
    BY DEF ReserveLookup, ShowLookup, Work, Reserve, Show
  <1>2. found'[w] = get_event(r.id) /\ found'[w] = NULL /\ Finish(w, <<1>>)
    BY DEF ReserveLookup, ShowLookup, Goto, Inv, StoreTypes, Threads
  <1>3. Abstract!Answer(w, <<1>>)
    BY <1>1, <1>2, Answers
  <1>4. UNCHANGED AbsDb
    BY <1>1, DbStays DEF CreateTail, ReserveDone, StepOf
  <1>5. AbsRequest[w] = r /\ Abstract!Holders(r.id) = {}
    BY <1>1, <1>2, AbsRequestOf, NotFound
  <1>6. CASE pc[w] = "reserve_lookup"
    <2>1. r.op = "reserve"
      BY <1>6, OpOf
    <2> QED
      BY <1>3, <1>4, <1>5, <2>1 DEF Abstract!Reserve, AbsDb, AbsRequest
  <1>7. CASE pc[w] = "show_lookup"
    <2>1. r.op = "show"
      BY <1>7, OpOf
    <2> QED
      BY <1>3, <1>4, <1>5, <2>1 DEF Abstract!Show, AbsDb, AbsRequest
  <1> QED
    BY <1>1, <1>6, <1>7

\* The seats of an event as the grid of the database.
GridOf(e) == [s \in (1..e.rows) \X (1..e.cols) |-> e.data[seat_index(e, s)]]

\* Nobody writes to the event of a thread that holds its mutex to check or to
\* send it: it is in the database as it is in the store.
LEMMA AbsEventHeld ==
  ASSUME Inv, NEW w \in Workers, pc[w] \in {"reserve_check", "show_send"}
  PROVE  LET e == event[found[w]] IN
         AbsEvent(found[w]) = AbsRecord(e, e.reservations, GridOf(e))
  <1>1. ~BeingWritten(found[w])
    BY OnlyWriter DEF MutexPcs
  <1> QED
    BY <1>1 DEF AbsEvent, AbsRecord, GridOf

\* What makes an event of the database bookable, of the event of the store.
LEMMA BookableSeats ==
  ASSUME NEW e, NEW b, NEW seats, Abstract!Bookable(AbsRecord(e, b, GridOf(e)), seats),
         NEW s \in Abstract!Asked(seats)
  PROVE  /\ s[1] \in 1..e.rows /\ s[2] \in 1..e.cols
         /\ e.data[seat_index(e, s)] = 0
  <1> DEFINE x == AbsRecord(e, b, GridOf(e))
  <1>1. x.rows = e.rows /\ x.cols = e.cols /\ x.seat = GridOf(e)
    BY DEF AbsRecord
  <1> HIDE DEF x
  <1>2. s \in (1..e.rows) \X (1..e.cols) /\ GridOf(e)[s] = 0
    BY <1>1 DEF Abstract!Bookable, Abstract!Grid, x
  <1> QED
    BY <1>2 DEF GridOf

\* A reservation is refused where a seat is out of bounds or taken.
LEMMA ReserveRefused ==
  ASSUME Inv, SnapInv, NEW w \in Workers, ReserveRefuse(w)
  PROVE  Abstract!Reserve(w)
  <1> DEFINE r == request[w]
             e == event[found[w]]
  <1>1. pc[w] = "reserve_check" /\ ~(InBounds(e, r.seats) /\ Free(e, r.seats))
    BY DEF ReserveRefuse
  <1>2. Abstract!Answer(w, <<1>>)
    BY <1>1, Answers DEF ReserveRefuse, Work, Reserve
  <1>3. UNCHANGED AbsDb
    BY <1>1, DbStays DEF CreateTail, ReserveDone, StepOf, Work, Reserve
  <1>4. AbsRequest[w] = r /\ r.op = "reserve"
    BY <1>1, AbsRequestOf, OpOf
  <1>5. found[w] \in 1..tail /\ e.id = r.id
    BY <1>1 DEF SnapInv, FoundById, EventPcs, Threads
  <1>6. ~Abstract!Bookable(AbsEvent(found[w]), r.seats)
    <2>1. AbsEvent(found[w]) = AbsRecord(e, e.reservations, GridOf(e))
      BY <1>1, AbsEventHeld
    <2>2. \A j \in DOMAIN r.seats : r.seats[j] \in Abstract!Asked(r.seats)
      <3>1. r.seats \in Seq(Nat \X Nat)
        BY <1>1, RequestsByPc, StoreAssumption DEF Inv
      <3> QED
        BY <3>1 DEF Abstract!Asked
    <2> HIDE DEF e
    <2>3. ASSUME Abstract!Bookable(AbsRecord(e, e.reservations, GridOf(e)), r.seats)
          PROVE  InBounds(e, r.seats) /\ Free(e, r.seats)
      BY <2>2, <2>3, BookableSeats DEF InBounds, Free
    <2> QED
      BY <1>1, <2>1, <2>3
  <1>7. \A b \in Abstract!Holders(r.id) : b = found[w] /\ AbsDb[b] = AbsEvent(b)
    <2>1. 1..tail \subseteq 1..linked
      BY ListTypes DEF Inv
    <2> QED
      BY <1>5, <2>1, DbSeq DEF Inv, NoDuplicateIds
  <1> QED
    BY <1>2, <1>3, <1>4, <1>6, <1>7 DEF Abstract!Reserve, AbsDb, AbsRequest

\* Every index of the seat array is the index of one place of the grid.
LEMMA PlaceOf ==
  ASSUME NEW rows \in Nat, NEW cols \in Nat, NEW i \in 0..(rows * cols - 1)
  PROVE  /\ (i \div cols) + 1 \in 1..rows
         /\ (i % cols) + 1 \in 1..cols
         /\ (((i \div cols) + 1) - 1) * cols + ((i % cols) + 1) - 1 = i
  <1> DEFINE q == i \div cols
             r == i % cols
  <1>1. cols > 0 /\ i \in Nat
    BY SMT
  <1>2. q \in Int /\ r \in 0..(cols - 1) /\ i = cols * q + r
    BY <1>1, SMT
  <1> HIDE DEF q, r
  <1>3. q * cols = i - r
    BY <1>2, SMT
  <1>4. ASSUME q < 0 PROVE FALSE
    <2>1. (q + 1) * cols <= 0
      BY <1>1, <1>2, <1>4, SMT
    <2>2. (q + 1) * cols = q * cols + cols
      BY <1>2, SMT
    <2> QED
      BY <1>1, <1>2, <1>3, <2>1, <2>2, SMT
  <1>5. ASSUME q >= rows PROVE FALSE
    <2>1. (q - rows) * cols >= 0
      BY <1>1, <1>2, <1>5, SMT
    <2>2. (q - rows) * cols = q * cols - rows * cols
      BY <1>2, SMT
    <2> QED
      BY <1>1, <1>2, <1>3, <2>1, <2>2, SMT
  <1>6. q + 1 \in 1..rows /\ r + 1 \in 1..cols
    BY <1>2, <1>4, <1>5, SMT
  <1>7. (q + 1 - 1) * cols + (r + 1) - 1 = i
    <2>1. (q + 1 - 1) * cols = q * cols
      BY <1>2, SMT
    <2> QED
      BY <1>2, <1>3, <2>1, SMT
  <1> QED
    BY <1>6, <1>7 DEF q, r

\* The seats of an event that nobody writes to, as a client receives them.
LEMMA SentSeats ==
  ASSUME NEW e, EventOK(e), NEW b
  PROVE  LET seats == Abstract!RowMajor(AbsRecord(e, b, GridOf(e))) IN
         /\ seats \in [1..(e.rows * e.cols) -> Nat]
         /\ \A k \in 1..(e.rows * e.cols) : seats[k] = e.data[k - 1]
  <1> DEFINE x == AbsRecord(e, b, GridOf(e))
             place(k) == <<((k - 1) \div e.cols) + 1, ((k - 1) % e.cols) + 1>>
  <1>1. e.rows \in Nat /\ e.cols \in Nat /\ e.data \in [0..(e.rows * e.cols - 1) -> Nat]
    BY DEF EventOK
  <1>2. x.rows = e.rows /\ x.cols = e.cols /\ x.seat = GridOf(e)
    BY DEF AbsRecord
  <1> HIDE DEF x
  <1>3. Abstract!RowMajor(x) = [k \in 1..(e.rows * e.cols) |-> GridOf(e)[place(k)]]
    BY <1>2 DEF Abstract!RowMajor
  <1>4. ASSUME NEW k \in 1..(e.rows * e.cols)
        PROVE  GridOf(e)[place(k)] = e.data[k - 1] /\ e.data[k - 1] \in Nat
    <2>1. k - 1 \in 0..(e.rows * e.cols - 1)
      <3>1. e.rows * e.cols \in Nat
        BY <1>1, SMT
      <3> QED
        BY <3>1
    <2>2. /\ place(k)[1] \in 1..e.rows /\ place(k)[2] \in 1..e.cols
          /\ (place(k)[1] - 1) * e.cols + place(k)[2] - 1 = k - 1
      BY <1>1, <2>1, PlaceOf
    <2>3. place(k) \in (1..e.rows) \X (1..e.cols)
      BY <2>2
    <2> HIDE DEF place
    <2> QED
      BY <1>1, <2>1, <2>2, <2>3 DEF seat_index, GridOf
  <1> QED
    BY <1>3, <1>4 DEF x

\* A SHOW is answered with the seats of its event, as they are when it ends.
LEMMA ShowTakesEffect ==
  ASSUME Inv, SnapInv, NEW w \in Workers, ShowDone(w)
  PROVE  Abstract!Show(w)
  <1> DEFINE r == request[w]
             e == event[found[w]]
             n == e.rows * e.cols
             x == AbsRecord(e, e.reservations, GridOf(e))
             first == <<0, e.rows, e.cols>>
  <1>1. /\ pc[w] = "show_send" /\ pc'[w] = "idle" /\ reply'[w] = reply[w] \o <<>>
        /\ idx[w] >= n
    BY DEF ShowDone, Finish, Goto, Inv, StoreTypes, Threads
  <1>2. reply[w] \in Seq(Nat) /\ idx[w] \in Nat
    BY DEF Inv, StoreTypes, Threads
  <1>3. EventOK(e)
    BY <1>1, FoundEvent DEF EventPcs, Inv, Threads
  <1>4. e.rows \in Nat /\ e.cols \in Nat /\ n \in Nat
    <2>1. e.rows \in Nat /\ e.cols \in Nat
      BY <1>3 DEF EventOK
    <2> QED
      BY <2>1, SMT
  <1>5. Showing(w)
    BY <1>1 DEF SnapInv
  <1>6. idx[w] = n
    BY <1>1, <1>2, <1>4, <1>5 DEF Showing
  <1>7. x.rows = e.rows /\ x.cols = e.cols
    BY DEF AbsRecord
  <1>8. reply'[w] = <<0, x.rows, x.cols>> \o Abstract!RowMajor(x)
    <2> DEFINE seats == Abstract!RowMajor(x)
    <2>1. seats \in [1..n -> Nat] /\ \A k \in 1..n : seats[k] = e.data[k - 1]
      BY <1>3, SentSeats
    <2>2. first \in Seq(Nat) /\ Len(first) = 3
      BY <1>4
    <2>3. Len(reply[w]) = Len(first) + n
      BY <1>5, <1>6, <2>2 DEF Showing
    <2>4. \A k \in 1..Len(first) : reply[w][k] = first[k]
      BY <1>5, <2>2 DEF Showing
    <2>5. \A k \in 1..n : reply[w][Len(first) + k] = seats[k]
      BY <1>5, <1>6, <2>1, <2>2 DEF Showing
    <2> HIDE DEF seats, n, first, e, x
    <2>6. reply[w] = first \o seats
      <3>1. n \in Nat /\ reply[w] \in Seq(Nat)
        BY <1>2, <1>4
      <3> QED
        BY <2>1, <2>2, <2>3, <2>4, <2>5, <3>1, ConcatFun
    <2>7. reply[w] \o <<>> = reply[w]
      BY <1>2, ConcatEmptySeq
    <2> QED
      BY <1>1, <1>7, <2>6, <2>7 DEF seats, first
  <1> PICK a \in 1..tail : a = found[w]
    BY <1>1 DEF SnapInv, FoundById, EventPcs, Threads
  <1>9. a \in Abstract!Holders(r.id) /\ AbsDb[a] = x
    <2>1. e.id = r.id
      BY <1>1 DEF SnapInv, FoundById, EventPcs
    <2>2. AbsEvent(a) = x
      BY <1>1, AbsEventHeld
    <2> QED
      BY <2>1, <2>2, DbSeq
  <1>10. UNCHANGED AbsDb
    BY <1>1, DbStays DEF CreateTail, ReserveDone, StepOf, Work, Show
  <1>11. AbsRequest[w] = r /\ r.op = "show"
    BY <1>1, AbsRequestOf, OpOf
  <1>12. /\ AbsRequest' = [AbsRequest EXCEPT ![w] = NoRequest]
         /\ AbsReply' = [AbsReply EXCEPT ![w] = reply'[w]]
    BY <1>1, EndStep DEF Work, Show
  <1> HIDE DEF x
  <1>13. reply'[w] = <<0, AbsDb[a].rows, AbsDb[a].cols>> \o Abstract!RowMajor(AbsDb[a])
    BY <1>8, <1>9
  <1> QED
    BY ZenonT(60), <1>9, <1>10, <1>11, <1>12, <1>13
       DEF Abstract!Show, Abstract!Answer, AbsDb, AbsRequest, AbsReply, Abstract!NoRequest, NoRequest

\* A LIST of the empty store says that there is no event.
LEMMA ListsNothing ==
  ASSUME Inv, SnapInv, NEW w \in Workers, ListEmpty(w)
  PROVE  Abstract!List(w)
  <1>1. pc[w] = "list_head" /\ linked = 0
    <2>1. linked \in Nat
      BY ListTypes DEF Inv
    <2> QED
      BY <2>1 DEF ListEmpty, head, NULL
  <1>2. AbsDb = <<>>
    <2>1. tail = 0
      BY <1>1, ListTypes DEF Inv
    <2> QED
      BY <2>1 DEF AbsDb
  <1>3. Abstract!Answer(w, <<2>>)
    BY <1>1, Answers DEF ListEmpty, Work, List
  <1>4. UNCHANGED AbsDb
    BY <1>1, DbStays DEF CreateTail, ReserveDone, StepOf, Work, List
  <1>5. AbsRequest[w].op = "list"
    BY <1>1, AbsRequestOf, OpOf
  <1> QED
    BY <1>2, <1>3, <1>4, <1>5 DEF Abstract!List, AbsDb, AbsRequest

\* A LIST is answered with the ids of all the events there are when it ends.
LEMMA ListTakesEffect ==
  ASSUME Inv, SnapInv, NEW w \in Workers, ListSend(w), pc'[w] = "idle"
  PROVE  Abstract!List(w)
  <1>1. pc[w] = "list_send" /\ current[w] = to[w] /\ reply[w] \in Seq(Nat)
    BY DEF ListSend, Inv, StoreTypes, Threads
  <1>2. Listing(w) /\ current[w] \in 1..to[w]
    BY <1>1 DEF SnapInv, Inv, WorkFitsRequest
  <1> PICK n \in Nat : n = tail
    BY DbSeq
  <1>3. current[w] = n /\ n >= 1
    BY <1>1, <1>2 DEF Listing
  <1> PICK last \in Nat : last = event[n].id
    <2>1. n \in 1..linked
      BY <1>3, ListTypes DEF Inv
    <2> QED
      BY <2>1, IdTypes DEF Inv
  <1>4. /\ Len(AbsDb) = n /\ AbsDb # <<>>
        /\ \A a \in 1..n : AbsDb[a].id = event[a].id /\ event[a].id \in Nat
    <2>1. Len(AbsDb) = n /\ \A a \in 1..n : AbsDb[a] = AbsEvent(a)
      BY DbSeq
    <2>2. \A a \in 1..n : AbsEvent(a).id = event[a].id
      BY DEF AbsEvent
    <2>3. AbsDb # <<>>
      BY <1>3, <2>1
    <2>4. \A a \in 1..n : event[a].id \in Nat
      <3>1. 1..n \subseteq 1..linked
        BY ListTypes DEF Inv
      <3> QED
        BY <3>1, IdTypes DEF Inv
    <2> QED
      BY <2>1, <2>2, <2>3, <2>4
  <1> DEFINE ids == [a \in 1..n |-> AbsDb[a].id]
             all == Append(reply[w], last)
             first == <<0, n>>
  <1>5. reply'[w] = all
    BY <1>3 DEF ListSend, Inv, StoreTypes
  <1>6. all = first \o ids
    <2>1. ids \in [1..n -> Nat] /\ \A a \in 1..n : ids[a] = event[a].id
      BY <1>4
    <2>2. first \in Seq(Nat) /\ Len(first) = 2
      OBVIOUS
    <2>3. /\ all \in Seq(Nat) /\ Len(reply[w]) = n + 1 /\ Len(all) = n + 2
          /\ all[n + 2] = last /\ \A k \in 1..(n + 1) : all[k] = reply[w][k]
      <3>1. Len(reply[w]) = n + 1
        BY <1>2, <1>3 DEF Listing
      <3>2. /\ all \in Seq(Nat) /\ Len(all) = Len(reply[w]) + 1
            /\ \A k \in 1..Len(reply[w]) : all[k] = reply[w][k]
            /\ all[Len(reply[w]) + 1] = last
        BY <1>1, AppendProperties
      <3> HIDE DEF all
      <3> QED
        BY <3>1, <3>2
    <2>4. /\ reply[w][1] = 0 /\ reply[w][2] = n
          /\ \A k \in 1..(n - 1) : reply[w][2 + k] = event[k].id
      BY <1>2, <1>3 DEF Listing
    <2> HIDE DEF ids, all
    <2>5. \A k \in 1..Len(first) : all[k] = first[k]
      <3>1. \A k \in 1..2 : all[k] = first[k]
        BY <1>3, <2>3, <2>4
      <3> QED
        BY <2>2, <3>1
    <2>6. \A k \in 1..n : all[2 + k] = ids[k]
      <3> SUFFICES ASSUME NEW k \in 1..n PROVE all[2 + k] = ids[k]
        OBVIOUS
      <3>1. CASE k = n
        BY <2>1, <2>3, <3>1
      <3>2. CASE k \in 1..(n - 1)
        <4>1. all[2 + k] = reply[w][2 + k]
          <5>1. 2 + k \in 1..(n + 1)
            BY <3>2
          <5> QED
            BY <2>3, <5>1
        <4>2. reply[w][2 + k] = event[k].id
          BY <2>4, <3>2
        <4>3. ids[k] = event[k].id
          BY <2>1
        <4> QED
          BY <4>1, <4>2, <4>3
      <3> QED
        BY <3>1, <3>2
    <2>7. Len(all) = Len(first) + n /\ \A k \in 1..n : all[Len(first) + k] = ids[k]
      BY <2>2, <2>3, <2>6
    <2> HIDE DEF first
    <2> QED
      BY <2>1, <2>2, <2>3, <2>5, <2>7, ConcatFun
  <1>7. reply'[w] = <<0, Len(AbsDb)>> \o [a \in 1..Len(AbsDb) |-> AbsDb[a].id]
    BY <1>4, <1>5, <1>6
  <1>8. UNCHANGED AbsDb
    BY <1>1, DbStays DEF CreateTail, ReserveDone, StepOf, Work, List
  <1>9. AbsRequest[w].op = "list"
    BY <1>1, AbsRequestOf, OpOf
  <1>10. /\ AbsRequest' = [AbsRequest EXCEPT ![w] = NoRequest]
         /\ AbsReply' = [AbsReply EXCEPT ![w] = reply'[w]]
    BY <1>1, EndStep DEF Work, List
  <1> QED
    BY <1>4, <1>7, <1>8, <1>9, <1>10
       DEF Abstract!List, Abstract!Answer, AbsDb, AbsRequest, AbsReply, Abstract!NoRequest, NoRequest

-----------------------------------------------------------------------------
(* Every step *)

\* Where a worker ends an operation.
LEMMA Ends ==
  ASSUME Inv, NEW w \in Workers, Work(w), pc'[w] = "idle"
  PROVE  \/ CreateRefuse(w) \/ CreateTail(w)
         \/ ReserveLookup(w) \/ ReserveRefuse(w) \/ ReserveDone(w)
         \/ ShowLookup(w) \/ ShowDone(w)
         \/ ListEmpty(w) \/ ListSend(w)
  <1> USE DEF Goto, Inv, StoreTypes, Threads
  <1>1. CASE Create(w)
    BY <1>1 DEF Create, CreateWrlock, CreateEvent, CreateLink
  <1>2. CASE Reserve(w)
    BY <1>2 DEF Reserve, ReserveRdlock, ReserveLock, ReserveAccept, ReserveSeat
  <1>3. CASE Show(w)
    BY <1>3 DEF Show, ShowRdlock, ShowLock, ShowSeat
  <1>4. CASE List(w)
    BY <1>4 DEF List, ListRdlock, ListCount
  <1> QED
    BY <1>1, <1>2, <1>3, <1>4 DEF Work

\* A worker that does a step of an operation is not waiting for a request.
LEMMA AtWork ==
  ASSUME NEW w \in Workers, Work(w)
  PROVE  pc[w] # "idle"
  BY DEF Work, Create, CreateWrlock, CreateRefuse, CreateEvent, CreateLink, CreateTail,
         Reserve, ReserveRdlock, ReserveLookup, ReserveLock, ReserveRefuse, ReserveAccept,
         ReserveSeat, ReserveDone,
         Show, ShowRdlock, ShowLookup, ShowLock, ShowSeat, ShowDone,
         List, ListRdlock, ListEmpty, ListCount, ListSend

\* Every step of a thread is a step of the database or none at all.
LEMMA StepOfTakesEffect ==
  ASSUME Inv, SnapInv, NEW w \in Workers, StepOf(w)
  PROVE  Abstract!Next \/ UNCHANGED <<AbsDb, AbsRequest, AbsReply>>
  <1>1. CASE Work(w) /\ pc'[w] # "idle"
    <2>1. UNCHANGED AbsDb
      <3>1. ~CreateTail(w) /\ ~ReserveDone(w)
        BY <1>1 DEF CreateTail, ReserveDone, Finish, Goto, Inv, StoreTypes, Threads
      <3> QED
        BY <3>1, DbStays
    <2> QED
      BY <1>1, <2>1, AtWork, MiddleStep
  <1>2. CASE Work(w) /\ pc'[w] = "idle"
    <2>1. Abstract!Create(w) \/ Abstract!Reserve(w) \/ Abstract!Show(w) \/ Abstract!List(w)
      BY <1>2, Ends, CreateRefused, CreateTakesEffect, LookupMisses, ReserveRefused,
         ReserveTakesEffect, ShowTakesEffect, ListsNothing, ListTakesEffect
    <2> QED
      BY <2>1 DEF Abstract!Next
  <1>3. CASE PrintTail \/ PrintEvents
    <2>1. ~CreateTail(w) /\ ~ReserveDone(w)
      BY <1>3, AtWork, PrintFrame DEF CreateTail, ReserveDone, Finish, Goto, Inv, StoreTypes, Threads
    <2> QED
      BY <1>3, <2>1, DbStays, MainStep
  <1>4. CASE \E r \in Request : Receive(w, r)
    <2> PICK r \in Request : Receive(w, r)
      BY <1>4
    <2>1. ~CreateTail(w) /\ ~ReserveDone(w)
      BY DEF Receive, CreateTail, ReserveDone
    <2>2. Abstract!Invoke(w, r)
      BY <2>1, DbStays, AbsInvoke
    <2>3. r \in Abstract!Request
      BY DEF Abstract!Request, Request
    <2> QED
      BY <2>2, <2>3 DEF Abstract!Next
  <1> QED
    BY <1>1, <1>2, <1>3, <1>4 DEF StepOf

LEMMA AbsStutters ==
  ASSUME UNCHANGED vars
  PROVE  UNCHANGED <<AbsDb, AbsRequest, AbsReply>>
  <1>1. UNCHANGED <<event, tail, pc, found, request, reply>>
    BY DEF vars, listVars, localVars
  <1>2. \A a : BeingWritten(a)' <=> BeingWritten(a)
    BY <1>1 DEF BeingWritten
  <1>3. \A a : AbsEvent(a)' = AbsEvent(a)
    BY <1>1, <1>2, AbsEventStays
  <1>4. UNCHANGED AbsDb
    BY <1>1, <1>3 DEF AbsDb
  <1> QED
    BY <1>1, <1>4 DEF AbsRequest, AbsReply

LEMMA StepTakesEffect ==
  ASSUME Inv, SnapInv, [Next]_vars
  PROVE  [Abstract!Next]_(Abstract!bookingVars)
  <1>1. Abstract!Next \/ UNCHANGED <<AbsDb, AbsRequest, AbsReply>>
    BY NextCases, StepOfTakesEffect, AbsStutters
  <1>2. UNCHANGED <<AbsDb, AbsRequest, AbsReply>> => UNCHANGED Abstract!bookingVars
    BY DEF Abstract!bookingVars, AbsDb, AbsRequest, AbsReply, Abstract!NoRequest, NoRequest
  <1> QED
    BY <1>1, <1>2

\* The store implements Booking: whatever the workers, each request takes effect
\* at one moment between its reception and its reply (operations.c:95-495).
THEOREM Linearizable == Spec => TakesEffectAtOnce
  BY AbsInit, StepTakesEffect, Invariance, SnapInvariance, PTL
     DEF Spec, TakesEffectAtOnce, Abstract!Spec
=============================================================================
