-------------------------- MODULE SlowClientsProofs --------------------------
(***************************************************************************)
(* What holds of the store when its clients may stop reading, for any       *)
(* workers, events to begin with, bounds and capacity of the pipes.  Every  *)
(* step of SlowClients is one of EventStore or changes nothing there, so    *)
(* the invariants of EventStore carry over, and with them the refinement of *)
(* Booking; with what the pipes hold (Room) they say who can be waited for. *)
(***************************************************************************)
EXTENDS SlowClients, BookingProofs

\* The threads where they write a reply that may be longer than the pipe.
SendPcs == {"show_send", "list_send"}

\* No client owes more than a pipe holds, and a worker that has not begun its
\* reply has the whole pipe before it.
Room ==
  /\ unread \in [Workers -> 0..Capacity]
  /\ \A w \in Workers : pc[w] \notin SendPcs \cup {"idle"} => unread[w] = 0 /\ reply[w] = <<>>

\* The store is as in EventStore, and the pipes hold what they may.
SlowInv == Inv /\ Room

-----------------------------------------------------------------------------
(* The initial states *)

\* The requests answered before are CREATEs.
LEMMA CreatedTyped ==
  /\ DOMAIN Created = 1..Len(Created)
  /\ \A a \in 1..Len(Created) : Created[a] \in [op : {"create"}, id : Nat, rows : Nat, cols : Nat]
  <1> DEFINE S == [op : {"create"}, id : Nat, rows : Nat, cols : Nat]
  <1>1. Created \in Seq(S)
    BY PipeAssumption
  <1> HIDE DEF S
  <1>2. DOMAIN Created = 1..Len(Created) /\ \A a \in 1..Len(Created) : Created[a] \in S
    BY <1>1
  <1> QED
    BY <1>2 DEF S

\* The events of the requests answered before are well typed and free.
LEMMA CreatedEvents ==
  ASSUME NEW a \in 1..Len(Created)
  PROVE  /\ EventOK(NewEvent(Created[a]))
         /\ NewEvent(Created[a]).id = Created[a].id
         /\ NewEvent(Created[a]).reservations = 0
         /\ \A i \in DOMAIN NewEvent(Created[a]).data : NewEvent(Created[a]).data[i] = 0
  <1>1. Created[a] \in [op : {"create"}, id : Nat, rows : Nat, cols : Nat]
    BY CreatedTyped
  <1>2. Created[a].id \in Nat /\ Created[a].rows \in Nat /\ Created[a].cols \in Nat
    BY <1>1
  <1> QED
    BY <1>2 DEF NewEvent, EventOK

\* A store that holds events of different ids, in which nobody is at work,
\* satisfies the inductive invariant.
LEMMA HoldingInv ==
  ASSUME Holding(Created)
  PROVE  Inv
  <1> USE DEF Holding
  <1> DEFINE n == Len(Created)
  <1>1. n \in Nat /\ MaxEvents \in Nat /\ n <= MaxEvents /\ linked = n /\ tail = n
    BY StoreAssumption, PipeAssumption
  <1> HIDE DEF n
  <1>2. /\ \A a \in 1..n : a \in Node /\ event[a] = NewEvent(Created[a])
        /\ \A a \in Node : a \notin 1..n => event[a] = NoEvent
        /\ DOMAIN event = Node
    BY <1>1 DEF Node, n
  <1>3. StoreTypes
    <2>1. EventOK(NoEvent)
      BY DEF EventOK, NoEvent
    <2>2. \A a \in Node : EventOK(event[a])
      BY <1>2, <2>1, CreatedEvents DEF n
    <2>3. <<>> \in Seq(Nat)
      OBVIOUS
    <2> QED
      BY <1>1, <1>2, <2>2, <2>3, StoreAssumption DEF StoreTypes, Threads, Node, WorkerPcs, MainPcs, NULL
  <1>4. WorkFitsRequest
    BY StoreAssumption DEF WorkFitsRequest, OpAt, NoRequest, CreatePcs, EventPcs, Threads
  <1>5. LocksFollowCode
    BY StoreAssumption DEF LocksFollowCode, CreatePcs, ReadPcs, MutexPcs, Threads, Node
  <1>6. ListWellFormed
    BY <1>1 DEF ListWellFormed, Threads, NULL
  <1>7. NoDuplicateIds
    <2>1. \A a \in 1..n : event[a].id = Created[a].id
      BY <1>2, CreatedEvents DEF n
    <2>2. \A a, b \in DOMAIN Created : Created[a].id = Created[b].id => a = b
      BY PipeAssumption
    <2>3. DOMAIN Created = 1..n
      BY CreatedTyped DEF n
    <2> QED
      BY <1>1, <2>1, <2>2, <2>3 DEF NoDuplicateIds
  <1>8. NumbersAreSeated
    <2>1. \A a \in 1..n : /\ event[a].reservations = 0
                          /\ \A i \in DOMAIN event[a].data : event[a].data[i] = 0
      BY <1>2, CreatedEvents DEF n
    <2>2. SUFFICES ASSUME NEW a \in 1..linked
                   PROVE  /\ \A i \in DOMAIN event[a].data : event[a].data[i] <= event[a].reservations
                          /\ 1..event[a].reservations = {}
      BY Zenon DEF NumbersAreSeated
    <2>3. event[a].reservations = 0 /\ \A i \in DOMAIN event[a].data : event[a].data[i] = 0
      BY <1>1, <2>1, <2>2
    <2>4. ASSUME NEW i \in DOMAIN event[a].data
          PROVE  event[a].data[i] <= event[a].reservations
      <3>1. event[a].data[i] = 0 /\ event[a].reservations = 0
        BY <2>3
      <3> QED
        BY <3>1
    <2>5. 1..event[a].reservations = {}
      BY <2>3
    <2> QED
      BY <2>4, <2>5
  <1>9. WriteInProgress
    BY DEF WriteInProgress, Threads
  <1> QED
    BY <1>3, <1>4, <1>5, <1>6, <1>7, <1>8, <1>9 DEF Inv

\* The events of the requests answered before, and empty pipes.
LEMMA SlowInitInv == SlowInit => SlowInv
  <1> SUFFICES ASSUME SlowInit PROVE SlowInv
    OBVIOUS
  <1>1. Room
    BY PipeAssumption DEF SlowInit, Holding, Room, Threads
  <1> QED
    BY <1>1, HoldingInv DEF SlowInit, SlowInv

-----------------------------------------------------------------------------
(* The steps *)

\* What a step with slow clients does to the store is a step of the store.
LEMMA SlowStepIsStep ==
  ASSUME [SlowNext]_slowVars
  PROVE  [Next]_vars
  BY DEF SlowNext, slowVars, SendRequest, WorkWithRoom, ReadReply, Stop, StartPrint, PrintStep, Next

\* What a step of a worker does to its program counter and its reply: the
\* reply only grows, and not before the worker sends a long reply or ends.
Writes(w) ==
  /\ \A v \in Workers \ {w} : pc'[v] = pc[v] /\ reply'[v] = reply[v]
  /\ Len(reply'[w]) >= Len(reply[w])
  /\ pc'[w] \notin SendPcs \cup {"idle"} =>
       pc[w] \notin SendPcs \cup {"idle"} /\ reply'[w] = reply[w]

\* A step of an operation writes to the pipe of its own worker, and it has not
\* written before it sends a long reply or ends.
LEMMA WorkWrites ==
  ASSUME SlowInv, NEW w \in Workers, Work(w)
  PROVE  Writes(w)
  <1>1. /\ pc \in [Threads -> WorkerPcs \cup MainPcs] /\ reply \in [Workers -> Seq(Nat)]
        /\ reply[w] \in Seq(Nat) /\ w \in Threads
    BY DEF SlowInv, Inv, StoreTypes, Threads
  <1>2. pc[w] \notin SendPcs \cup {"idle"} => reply[w] = <<>>
    BY DEF SlowInv, Room
  <1>3. ASSUME NEW numbers \in Seq(Nat), Finish(w, numbers)
        PROVE  Writes(w)
    <2>1. reply'[w] = reply[w] \o numbers /\ pc'[w] = "idle"
          /\ \A v \in Workers \ {w} : pc'[v] = pc[v] /\ reply'[v] = reply[v]
      BY <1>1, <1>3 DEF Finish, Goto, Threads
    <2>2. Len(reply[w] \o numbers) = Len(reply[w]) + Len(numbers) /\ Len(numbers) \in Nat
          /\ Len(reply[w]) \in Nat
      BY <1>1, <1>3
    <2> QED
      BY <2>1, <2>2 DEF Writes
  <1>8. ASSUME NEW label, Goto(w, label), reply' = reply, label \in SendPcs \cup {"idle"} \/ pc[w] \notin SendPcs \cup {"idle"}
        PROVE  Writes(w)
    BY <1>1, <1>8 DEF Goto, Threads, Writes
  <1>9. ASSUME pc' = pc, reply' = reply
        PROVE  Writes(w)
    BY <1>1, <1>9 DEF Writes
  <1>4. CASE Create(w)
    BY <1>3, <1>4, <1>8, OneNumber
    DEF Create, CreateWrlock, CreateRefuse, CreateEvent, CreateLink, CreateTail, SendPcs, Writes
  <1>5. CASE Reserve(w)
    <2>1. CASE ReserveLookup(w)
      BY <1>3, <1>8, <2>1, OneNumber DEF ReserveLookup, SendPcs, Writes
    <2> QED
      BY <1>3, <1>5, <1>8, <1>9, <2>1, OneNumber
      DEF Reserve, ReserveRdlock, ReserveLock, ReserveRefuse, ReserveAccept, ReserveSeat,
          ReserveDone, SendPcs, Writes
  <1>6. CASE Show(w)
    <2>1. CASE ShowLookup(w)
      BY <1>3, <1>8, <2>1, OneNumber DEF ShowLookup, SendPcs, Writes
    <2>2. CASE ShowLock(w)
      BY <1>1, <1>2, <2>2 DEF ShowLock, Goto, SendPcs, Writes, Threads
    <2>3. CASE ShowSeat(w)
      BY <1>1, <2>3 DEF ShowSeat, SendPcs, Writes, Threads
    <2> QED
      BY <1>3, <1>6, <1>8, <2>1, <2>2, <2>3, OneNumber DEF Show, ShowRdlock, ShowDone, SendPcs, Writes
  <1>7. CASE List(w)
    <2>1. CASE ListCount(w)
      BY <1>1, <1>2, <2>1 DEF ListCount, Goto, SendPcs, Writes, Threads
    <2>2. CASE ListSend(w)
      BY <1>1, <2>2 DEF ListSend, Goto, SendPcs, Writes, Threads
    <2> QED
      BY <1>3, <1>7, <1>8, <2>1, <2>2, OneNumber DEF List, ListRdlock, ListEmpty, SendPcs, Writes
  <1> QED
    BY <1>4, <1>5, <1>6, <1>7 DEF Work

\* A worker writes only into the room there is, and begins its reply with the
\* whole pipe before it: the client has sent a request after reading the last.
LEMMA RoomStep ==
  ASSUME SlowInv, [SlowNext]_slowVars
  PROVE  Room'
  <1> USE DEF SlowInv
  <1>1. /\ unread \in [Workers -> 0..Capacity] /\ Capacity \in Nat
        /\ pc \in [Threads -> WorkerPcs \cup MainPcs] /\ reply \in [Workers -> Seq(Nat)]
        /\ Workers \subseteq Threads /\ Main \in Threads /\ Main \notin Workers
    BY StoreAssumption, PipeAssumption DEF Room, Inv, StoreTypes, Threads
  <1>2. ASSUME NEW w \in Workers, SendRequest(w)
        PROVE  Room'
    BY <1>1, <1>2 DEF SendRequest, Receive, Goto, Room, pipeVars
  <1>3. ASSUME NEW w \in Workers, WorkWithRoom(w)
        PROVE  Room'
    <2>1. /\ Work(w) /\ unread'[w] <= Capacity
          /\ unread' = [unread EXCEPT ![w] = unread[w] + Len(reply'[w]) - Len(reply[w])]
      BY <1>3 DEF WorkWithRoom
    <2>2. /\ pc' \in [Threads -> WorkerPcs \cup MainPcs] /\ reply' \in [Workers -> Seq(Nat)]
          /\ \A v \in Workers \ {w} : pc'[v] = pc[v] /\ reply'[v] = reply[v]
      BY <1>1, <2>1, WorkWrites, TypeStep DEF Writes, StepOf, StoreTypes
    <2>3. Len(reply'[w]) \in Nat /\ Len(reply[w]) \in Nat /\ unread[w] \in 0..Capacity
      BY <1>1, <2>2
    <2>4. Len(reply'[w]) >= Len(reply[w])
      BY <2>1, WorkWrites DEF Writes
    <2>5. unread'[w] \in 0..Capacity /\ \A v \in Workers \ {w} : unread'[v] = unread[v]
      BY <1>1, <2>1, <2>3, <2>4
    <2>6. pc'[w] \notin SendPcs \cup {"idle"} => unread'[w] = 0 /\ reply'[w] = <<>>
      <3> SUFFICES ASSUME pc'[w] \notin SendPcs \cup {"idle"} PROVE unread'[w] = 0 /\ reply'[w] = <<>>
        OBVIOUS
      <3>1. pc[w] \notin SendPcs \cup {"idle"} /\ reply'[w] = reply[w]
        BY <2>1, WorkWrites DEF Writes
      <3>2. unread[w] = 0 /\ reply[w] = <<>>
        BY <3>1 DEF Room
      <3> QED
        BY <1>1, <2>1, <2>3, <3>1, <3>2
    <2>7. unread' \in [Workers -> 0..Capacity]
      BY <1>1, <2>1, <2>5
    <2> QED
      BY <2>2, <2>5, <2>6, <2>7 DEF Room
  <1>4. ASSUME NEW w \in Workers, ReadReply(w)
        PROVE  Room'
    BY <1>1, <1>4 DEF ReadReply, Room, vars
  <1>5. ASSUME NEW w \in Workers, Stop(w)
        PROVE  Room'
    BY <1>5 DEF Stop, Room, vars
  <1>6. CASE StartPrint
    BY <1>1, <1>6 DEF StartPrint, PrintTail, Goto, Room, pipeVars
  <1>7. CASE PrintStep
    BY <1>1, <1>7 DEF PrintStep, PrintEvents, PrintHead, PrintEnd, PrintId, PrintNext, StdoutRdlock, StdoutLookup,
       StdoutLock, StdoutSeats, Goto, Room, pipeVars
  <1>8. CASE UNCHANGED slowVars
    BY <1>8 DEF slowVars, pipeVars, vars, Room
  <1> QED
    BY <1>2, <1>3, <1>4, <1>5, <1>6, <1>7, <1>8 DEF SlowNext

\* Every step keeps both parts of the invariant.
LEMMA SlowStepInv ==
  ASSUME SlowInv, [SlowNext]_slowVars
  PROVE  SlowInv'
  BY SlowStepIsStep, StepInv, RoomStep DEF SlowInv

-----------------------------------------------------------------------------
(* The theorems *)

\* The invariant holds in every state.
LEMMA SlowInvariance == SlowSpec => []SlowInv
  BY SlowInitInv, SlowStepInv, PTL DEF SlowSpec

\* Nobody is at work in the beginning.
LEMMA SlowInitSnap == SlowInit => SnapInv /\ PrintInv
  <1> SUFFICES ASSUME SlowInit PROVE SnapInv /\ PrintInv
    OBVIOUS
  <1>1. /\ pc = [t \in Threads |-> "idle"] /\ reply = [w \in Workers |-> <<>>]
        /\ printed = <<>> /\ linked = Len(Created)
    BY DEF SlowInit, Holding
  <1>2. SnapInv
    BY <1>1 DEF SnapInv, FoundById, NewNode, Unanswered, EventPcs, Threads
  <1>3. 0 <= linked
    <2>1. Len(Created) \in Nat
      BY PipeAssumption
    <2> QED
      BY <1>1, <2>1
  <1>4. PrintInv
    BY <1>1, <1>3, StoreAssumption DEF PrintInv, StdoutPcs, Threads
  <1> QED
    BY <1>2, <1>4

\* What is sent and printed is what the store holds.
LEMMA SlowSnapInvariance == SlowSpec => [](SnapInv /\ PrintInv)
  <1>1. ASSUME SlowInv, SnapInv /\ PrintInv, [SlowNext]_slowVars
        PROVE  (SnapInv /\ PrintInv)'
    BY <1>1, SlowStepIsStep, NextCases, SnapStep, PrintInvStep, SnapStutters DEF SlowInv
  <1> QED
    BY <1>1, SlowInitSnap, SlowInvariance, PTL DEF SlowSpec

\* A SHOW that waits for its client in the middle of its reply still sends one
\* moment's seat map: it waits with the event's mutex locked
\* (operations.c:285-331).
THEOREM ShowsAreSnapshotsWithSlowClients == SlowSpec => []ShowIsSnapshot
  <1>1. SnapInv => ShowIsSnapshot
    BY DEF SnapInv, Showing, ShowIsSnapshot
  <1> QED
    BY <1>1, SlowSnapInvariance, PTL

\* Each step is one request taking effect, its reception or nothing.
EachTakesEffect == [][Abstract!Next]_(Abstract!bookingVars)

\* From any events to begin with, and however replies are held up in the pipes,
\* each request takes effect at one moment between its reception and its reply
\* (operations.c:95-495).
THEOREM TakesEffectWithSlowClients == SlowSpec => EachTakesEffect
  <1>1. ASSUME SlowInv, SnapInv /\ PrintInv, [SlowNext]_slowVars
        PROVE  [Abstract!Next]_(Abstract!bookingVars)
    BY <1>1, SlowStepIsStep, StepTakesEffect DEF SlowInv
  <1> QED
    BY <1>1, SlowInvariance, SlowSnapInvariance, PTL DEF SlowSpec, EachTakesEffect

\* A client that does not read breaks nothing of what the operations rely on:
\* the inductive invariant of the store holds whatever clients are stopped.
THEOREM StoreHoldsWithSlowClients == SlowSpec => []Inv
  <1>1. SlowInv => Inv
    BY DEF SlowInv
  <1> QED
    BY <1>1, SlowInvariance, PTL

\* No reservation is lost or taken over while a client keeps a lock waiting
\* (operations.c:198-240).
THEOREM SeatsAreKeptWithSlowClients == SlowSpec => SeatNeverReassigned
  <1>1. SlowInv /\ [SlowNext]_slowVars => [KeepsSeats]_vars
    BY SlowStepIsStep, StepKeepsSeats DEF SlowInv
  <1>2. SlowSpec => [][KeepsSeats]_vars
    BY <1>1, SlowInvariance, PTL DEF SlowSpec
  <1> QED
    BY <1>2 DEF SeatNeverReassigned, KeepsSeats

\* The threads where they hold a lock.
HoldingPcs == CreatePcs \cup ReadPcs \cup MutexPcs

\* The threads where they ask for one.
AskingPcs ==
  {"create_wrlock", "reserve_rdlock", "show_rdlock", "list_rdlock", "stdout_rdlock",
   "reserve_lock", "show_lock", "stdout_lock"}

\* Who holds what another waits for is at a line that holds it and asks for
\* nothing more.
LEMMA HoldersDoNotAsk ==
  ASSUME Inv, NEW t \in Threads, NEW u \in Threads, InTheWay(u, t)
  PROVE  pc[t] \in AskingPcs /\ pc[u] \in HoldingPcs
  <1>1. pc[t] \in AskingPcs
    BY DEF InTheWay, AskingPcs
  <1>2. CASE writer = u
    <2>1. u \in Workers
      BY <1>2, StoreAssumption DEF Inv, StoreTypes
    <2> QED
      BY <1>2, <2>1, <1>1 DEF Inv, LocksFollowCode, HoldingPcs
  <1>3. CASE u \in readers
    BY <1>1, <1>3 DEF Inv, LocksFollowCode, HoldingPcs
  <1>4. CASE pc[t] \in {"reserve_lock", "show_lock", "stdout_lock"} /\ mutex[found[t]] = u
    <2>1. found[t] \in Node
      BY <1>4, FoundEvent DEF EventPcs
    <2> QED
      BY <1>1, <1>4, <2>1 DEF Inv, LocksFollowCode, HoldingPcs
  <1> QED
    BY <1>2, <1>3, <1>4 DEF InTheWay

\* No chain of waiting threads is longer than one: who holds what another waits
\* for waits for nobody but a client in the middle of a long reply, however
\* many workers and events there are (operations.c:105-489).
THEOREM WaitingNeverSpreads == SlowSpec => []LocksComeFree
  <1>1. SlowInv => LocksComeFree
    <2> SUFFICES ASSUME SlowInv, NEW t \in Threads, NEW u \in Threads, InTheWay(u, t)
                 PROVE  /\ pc[u] # "idle"
                        /\ \A v \in Threads : ~InTheWay(v, u)
                        /\ u \in Workers /\ pc[u] \notin SendPcs => unread[u] = 0
      BY DEF LocksComeFree, SendPcs
    <2>1. pc[u] \in HoldingPcs
      BY HoldersDoNotAsk DEF SlowInv
    <2>2. HoldingPcs \cap AskingPcs = {} /\ "idle" \notin HoldingPcs
      BY DEF HoldingPcs, AskingPcs, CreatePcs, ReadPcs, MutexPcs
    <2>3. \A v \in Threads : InTheWay(v, u) => pc[u] \in AskingPcs
      BY HoldersDoNotAsk DEF SlowInv
    <2> QED
      BY <2>1, <2>2, <2>3 DEF SlowInv, Room
  <1> QED
    BY <1>1, SlowInvariance, PTL
=============================================================================
