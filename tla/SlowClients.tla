----------------------------- MODULE SlowClients -----------------------------
(***************************************************************************)
(* The event store together with the response pipes its replies go through: *)
(* ems_show and ems_list_events write to the pipe while they hold a lock    *)
(* (src/server/operations.c), and a write waits until the client has made   *)
(* room (my_write in src/common/io.c).  A client reads its reply as it      *)
(* comes (src/client/api.c), unless it is stopped.                          *)
(***************************************************************************)
EXTENDS EventStore

CONSTANTS
  Capacity,   \* how many integers a pipe holds
  Created     \* the CREATE requests answered before, with different ids

\* The result and the size of a shown event always fit into an empty pipe.
ASSUME PipeAssumption ==
  /\ Capacity \in Nat
  /\ Capacity >= 3
  /\ Created \in Seq([op : {"create"}, id : Nat, rows : Nat, cols : Nat])
  /\ Len(Created) <= MaxEvents
  /\ \A a, b \in DOMAIN Created : Created[a].id = Created[b].id => a = b

VARIABLES
  unread,   \* how many integers each client has still to read
  stopped   \* the clients that do not run

pipeVars == <<unread, stopped>>
slowVars == <<vars, pipeVars>>

SlowInit ==
  /\ Holding(Created)
  /\ unread = [w \in Workers |-> 0]
  /\ stopped = {}

-----------------------------------------------------------------------------

\* A client sends its next request when it has read its reply.
SendRequest(w) ==
  /\ w \notin stopped
  /\ unread[w] = 0
  /\ \E r \in Request : Receive(w, r)
  /\ UNCHANGED pipeVars

\* A step of an operation; one that writes waits for room.
WorkWithRoom(w) ==
  /\ Work(w)
  /\ unread' = [unread EXCEPT ![w] = @ + Len(reply'[w]) - Len(reply[w])]
  /\ unread'[w] <= Capacity
  /\ UNCHANGED stopped

\* The client reads what there is.
ReadReply(w) ==
  /\ w \notin stopped
  /\ unread[w] > 0
  /\ unread' = [unread EXCEPT ![w] = 0]
  /\ UNCHANGED <<vars, stopped>>

\* A client is stopped for good in the middle of a request; to one that is
\* stopped for a while nobody owes more than to a slow one.
Stop(w) ==
  /\ w \notin stopped
  /\ pc[w] # "idle"
  /\ stopped' = stopped \cup {w}
  /\ UNCHANGED <<vars, unread>>

StartPrint == PrintTail /\ UNCHANGED pipeVars

PrintStep == PrintEvents /\ UNCHANGED pipeVars

-----------------------------------------------------------------------------

SlowNext ==
  \/ \E w \in Workers :
       SendRequest(w) \/ WorkWithRoom(w) \/ ReadReply(w) \/ Stop(w)
  \/ StartPrint
  \/ PrintStep

\* Threads and clients are scheduled, but nobody has to stop a client or
\* send a request.
SlowSpec ==
  /\ SlowInit
  /\ [][SlowNext]_slowVars
  /\ \A w \in Workers : WF_slowVars(WorkWithRoom(w)) /\ WF_slowVars(ReadReply(w))
  /\ WF_slowVars(PrintStep)

-----------------------------------------------------------------------------
(* Properties *)

\* As long as no client is stopped, every request is answered and every print
\* ends: no path through the operations forgets a lock, and neither a lock nor
\* a full pipe makes two operations wait for each other.
AnsweredIfRead == [](stopped = {}) => RequestsAnswered

\* A stopped client holds up its own worker in the middle of a long reply; a
\* SHOW besides those who need the mutex of the same event, a LIST those who
\* CREATE.
HeldUp(t) ==
  \/ t \in stopped /\ pc[t] \in {"show_send", "list_send"}
  \/ /\ pc[t] \in {"reserve_lock", "show_lock", "stdout_lock"}
     /\ \E w \in stopped : pc[w] = "show_send" /\ mutex[found[t]] = w
  \/ /\ pc[t] = "create_wrlock"
     /\ \E w \in stopped : pc[w] = "list_send"

\* The thread u holds what t waits for.
InTheWay(u, t) ==
  \/ pc[t] = "create_wrlock" /\ (writer = u \/ u \in readers)
  \/ pc[t] \in {"reserve_rdlock", "show_rdlock", "list_rdlock", "stdout_rdlock"} /\ writer = u
  \/ pc[t] \in {"reserve_lock", "show_lock", "stdout_lock"} /\ mutex[found[t]] = u

\* Waiting never spreads.  Whoever is in another's way is in an operation that
\* will let go of the lock, waits for no lock itself, and does not wait for its
\* client to read either unless it is in the middle of a long reply: all the
\* other replies fit into the pipe (operations.c:105-162, 184-240, 269-331,
\* 426-489).
LocksComeFree ==
  \A t, u \in Threads : InTheWay(u, t) =>
    /\ pc[u] # "idle"
    /\ \A v \in Threads : ~InTheWay(v, u)
    /\ u \in Workers /\ pc[u] \notin {"show_send", "list_send"} => unread[u] = 0

\* Nobody else waits for a client that does not read: any other operation comes
\* to its end, whatever clients are stopped (operations.c:269-331, 413-489).  It
\* needs that readers pass a CREATE that waits for a stopped LIST (see Rdlock).
StallIsLocal == \A t \in Threads : pc[t] # "idle" ~> pc[t] = "idle" \/ HeldUp(t)
=============================================================================
