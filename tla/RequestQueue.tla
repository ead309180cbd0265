---------------------------- MODULE RequestQueue ----------------------------
(***************************************************************************)
(* The server's bounded buffer of session requests and its pool of workers, *)
(* src/server/main.c.  The main thread reads a client's setup message from  *)
(* the server pipe and joins a thread that inserts it; each worker waits    *)
(* for a request, retrieves one, opens three descriptors, which it never    *)
(* closes, and serves its client until it quits or dies.                    *)
(*                                                                         *)
(* Every critical section of buffer_mutex is one step, for none of them     *)
(* blocks inside.  The wait for a request and its retrieval are two         *)
(* critical sections, so they are two steps.                                *)
(***************************************************************************)
EXTENDS Integers, Sequences, FiniteSets

CONSTANTS
  Workers,   \* the worker threads
  Clients,   \* the clients, each named by its pair of pipe paths
  NoClient,  \* the empty paths of a slot that was never filled
  N,         \* MAX_SESSION_COUNT, the number of slots
  MaxFds     \* how many descriptors the process may open for sessions

\* main() creates as many workers as there are slots.
ASSUME QueueAssumption ==
  /\ N \in Nat \ {0}
  /\ IsFiniteSet(Workers)
  /\ Cardinality(Workers) = N
  /\ NoClient \notin Clients
  /\ MaxFds \in Nat

VARIABLES
  buffer,           \* the slots
  in,               \* where the next request is inserted
  out,              \* where the next request is retrieved
  count,            \* the number of requests in the buffer
  session_counter,  \* the session id of the next request
  host,             \* the thread that inserts a request: where it is and whose
  pc,               \* where each worker is
  current,          \* current_request of each worker
  client,           \* what each client is doing
  fds,              \* the descriptors opened by handle_client
  aborted,          \* the server process has died
  accepted,         \* history: the clients inserted, in order
  taken,            \* history: the clients of the requests retrieved, in order
  overdrawn         \* history: a request was retrieved from an empty buffer

ring == <<buffer, in, out, count, session_counter>>
history == <<accepted, taken, overdrawn>>
vars == <<ring, host, pc, current, client, fds, aborted, history>>

Slot == [client : Clients \cup {NoClient}, session_id : Nat]

EmptySlot == [client |-> NoClient, session_id |-> 0]

NoHost == [at |-> "none", client |-> NoClient]

Asleep == {w \in Workers : pc[w] = "asleep"}

\* What the client that w serves is doing.
ClientOf(w, states) ==
  current[w].client # NoClient /\ client[current[w].client] \in states

-----------------------------------------------------------------------------

Init ==
  /\ buffer = [i \in 0..(N - 1) |-> EmptySlot]
  /\ in = 0
  /\ out = 0
  /\ count = 0
  /\ session_counter = 0
  /\ host = NoHost
  /\ pc = [w \in Workers |-> "check"]
  /\ current = [w \in Workers |-> EmptySlot]
  /\ client = [c \in Clients |-> "new"]
  /\ fds = 0
  /\ aborted = FALSE
  /\ accepted = <<>>
  /\ taken = <<>>
  /\ overdrawn = FALSE

-----------------------------------------------------------------------------
(* The main thread: extract_requests and insert_request *)

\* A setup message is read and a thread created to insert it; the main thread
\* joins that thread, so there is one at a time.
ExtractRequest(c) ==
  /\ ~aborted
  /\ host = NoHost
  /\ client[c] = "new"
  /\ client' = [client EXCEPT ![c] = "connecting"]
  /\ host' = [at |-> "check", client |-> c]
  /\ UNCHANGED <<ring, pc, current, fds, aborted, history>>

\* Waits for not_full_cond.
InsertWaits ==
  /\ ~aborted
  /\ host.at = "check"
  /\ count = N
  /\ host' = [host EXCEPT !.at = "asleep"]
  /\ UNCHANGED <<ring, pc, current, client, fds, aborted, history>>

\* Variant: the signal is sent only when the buffer was empty before.
SignalNotEmpty_FirstOnly ==
  IF count # 0 \/ Asleep = {}
  THEN UNCHANGED pc
  ELSE \E w \in Asleep : pc' = [pc EXCEPT ![w] = "check"]

\* pthread_cond_signal(&not_empty_cond): one sleeper, if any, tests again.
SignalNotEmpty ==
  IF Asleep = {}
  THEN UNCHANGED pc
  ELSE \E w \in Asleep : pc' = [pc EXCEPT ![w] = "check"]

\* Variant: the host inserts without looking whether the buffer is full.
InsertInto_Unchecked(slot) ==
  /\ ~aborted
  /\ host.at = "check"
  /\ buffer' = [buffer EXCEPT ![slot] = [client |-> host.client, session_id |-> session_counter]]
  /\ in' = (in + 1) % N
  /\ count' = count + 1
  /\ session_counter' = session_counter + 1
  /\ SignalNotEmpty
  /\ host' = NoHost
  /\ accepted' = Append(accepted, host.client)
  /\ UNCHANGED <<out, current, client, fds, aborted, taken, overdrawn>>

InsertInto(slot) ==
  /\ ~aborted
  /\ host.at = "check"
  /\ count # N
  /\ buffer' = [buffer EXCEPT ![slot] = [client |-> host.client, session_id |-> session_counter]]
  /\ in' = (in + 1) % N
  /\ count' = count + 1
  /\ session_counter' = session_counter + 1
  /\ SignalNotEmpty
  /\ host' = NoHost
  /\ accepted' = Append(accepted, host.client)
  /\ UNCHANGED <<out, current, client, fds, aborted, taken, overdrawn>>

\* Variant: the request is stored in the slot to be retrieved next.
InsertRequest_AtOut == InsertInto(out)

InsertRequest == InsertInto(in)

-----------------------------------------------------------------------------
(* The workers: worker_function, retrieve_request and handle_client *)

\* The wait for a request.  A worker that finds one releases the mutex before
\* it retrieves it.
CheckCount(w) ==
  /\ ~aborted
  /\ pc[w] = "check"
  /\ pc' = [pc EXCEPT ![w] = IF count = 0 THEN "asleep" ELSE "retrieve"]
  /\ UNCHANGED <<ring, host, current, client, fds, aborted, history>>

\* Variant: the index is not advanced after the copy.
RetrieveRequest_SameSlot(w) ==
  /\ ~aborted
  /\ pc[w] = "retrieve"
  /\ current' = [current EXCEPT ![w] = buffer[out]]
  /\ count' = count - 1
  /\ pc' = [pc EXCEPT ![w] = "open_server"]
  /\ taken' = Append(taken, buffer[out].client)
  /\ overdrawn' = (overdrawn \/ count <= 0)
  /\ UNCHANGED <<buffer, in, out, session_counter, host, client, fds, aborted, accepted>>

\* Nothing here looks at count again, and nothing signals not_full_cond.
RetrieveRequest(w) ==
  /\ ~aborted
  /\ pc[w] = "retrieve"
  /\ current' = [current EXCEPT ![w] = buffer[out]]
  /\ out' = (out + 1) % N
  /\ count' = count - 1
  /\ pc' = [pc EXCEPT ![w] = "open_server"]
  /\ taken' = Append(taken, buffer[out].client)
  /\ overdrawn' = (overdrawn \/ count <= 0)
  /\ UNCHANGED <<buffer, in, session_counter, host, client, fds, aborted, accepted>>

\* The server holds its own pipe open for reading, so this open does not block.
\* Every request names that pipe; a slot that was never filled names none.
OpenServerPipe(w) ==
  /\ ~aborted
  /\ pc[w] = "open_server"
  /\ current[w].client # NoClient
  /\ fds < MaxFds
  /\ fds' = fds + 1
  /\ pc' = [pc EXCEPT ![w] = "open_request"]
  /\ UNCHANGED <<ring, host, current, client, aborted, history>>

\* The client holds the request pipe open for writing from its setup to its
\* end, so the open for reading waits only for one that is dead.
OpenRequestPipe(w) ==
  /\ ~aborted
  /\ pc[w] = "open_request"
  /\ ClientOf(w, {"connecting", "session"})
  /\ fds < MaxFds
  /\ fds' = fds + 1
  /\ pc' = [pc EXCEPT ![w] = "open_response"]
  /\ UNCHANGED <<ring, host, current, client, aborted, history>>

\* The pipes of a request exist once its client has made them and until it
\* removes them; one that dies leaves them behind.
PipesExist(c) == c # NoClient /\ client[c] # "gone"

Opening(w) == pc[w] \in {"open_server", "open_request", "open_response"}

\* There is no descriptor left for an open of w: an open that waits for a
\* client has its descriptor already.
NoDescriptor(w) ==
  fds + Cardinality({v \in Workers \ {w} : pc[v] \in {"open_request", "open_response"}}) >= MaxFds

\* The pipe that w opens next is not there: the server's own exists as long as
\* the server, so only the empty path of an unfilled slot is missing there.
NoPipe(w) ==
  IF pc[w] = "open_server"
  THEN current[w].client = NoClient
  ELSE ~PipesExist(current[w].client)

CannotOpen(w) == Opening(w) /\ (NoDescriptor(w) \/ NoPipe(w))

\* The pipes of a stale slot cannot be opened, nor any pipe without a
\* descriptor.  The error path frees current_request, a variable on the
\* worker's stack: undefined, the allocator aborts the process or the thread
\* goes on to exit.
OpenFails(w) ==
  /\ ~aborted
  /\ CannotOpen(w)
  /\ \/ aborted' = TRUE /\ UNCHANGED pc
     \/ pc' = [pc EXCEPT ![w] = "exited"] /\ UNCHANGED aborted
  /\ UNCHANGED <<ring, host, current, client, fds, history>>

\* The open for writing waits for the client to open the response pipe, which
\* it does for the session id and for every reply, unless it is dead.
OpenResponsePipe(w) ==
  /\ ~aborted
  /\ pc[w] = "open_response"
  /\ ClientOf(w, {"connecting", "session"})
  /\ fds < MaxFds
  /\ fds' = fds + 1
  /\ client' = [client EXCEPT ![current[w].client] = "session"]
  /\ pc' = [pc EXCEPT ![w] = "serving"]
  /\ UNCHANGED <<ring, host, current, aborted, history>>

\* Variant: only the quit message ends the loop.
EndSession_QuitOnly(w) ==
  /\ ~aborted
  /\ pc[w] = "serving"
  /\ ClientOf(w, {"gone"})
  /\ pc' = [pc EXCEPT ![w] = "check"]
  /\ UNCHANGED <<ring, host, current, client, fds, aborted, history>>

\* handle_client returns when the quit message or the end of the request pipe
\* is read, and closes nothing.
EndSession(w) ==
  /\ ~aborted
  /\ pc[w] = "serving"
  /\ ClientOf(w, {"gone", "dead"})
  /\ pc' = [pc EXCEPT ![w] = "check"]
  /\ UNCHANGED <<ring, host, current, client, fds, aborted, history>>

\* A worker that writes while its client does not have the response pipe open
\* ends the server (module Session shows when).
Sigpipe(w) ==
  /\ ~aborted
  /\ pc[w] = "serving"
  /\ aborted' = TRUE
  /\ UNCHANGED <<ring, host, pc, current, client, fds, history>>

\* ems_quit of the client: the pipes are removed.
ClientQuits(c) ==
  /\ ~aborted
  /\ client[c] = "session"
  /\ client' = [client EXCEPT ![c] = "gone"]
  /\ UNCHANGED <<ring, host, pc, current, fds, aborted, history>>

\* A client is killed after its setup message; its pipes stay where they are.
ClientDies(c) ==
  /\ ~aborted
  /\ client[c] \in {"connecting", "session"}
  /\ client' = [client EXCEPT ![c] = "dead"]
  /\ UNCHANGED <<ring, host, pc, current, fds, aborted, history>>

\* pthread_cond_wait may return without a signal; both callers test again.
WorkerWakes(w) ==
  /\ ~aborted
  /\ pc[w] = "asleep"
  /\ pc' = [pc EXCEPT ![w] = "check"]
  /\ UNCHANGED <<ring, host, current, client, fds, aborted, history>>

HostWakes ==
  /\ ~aborted
  /\ host.at = "asleep"
  /\ host' = [host EXCEPT !.at = "check"]
  /\ UNCHANGED <<ring, pc, current, client, fds, aborted, history>>

-----------------------------------------------------------------------------

Insert == InsertWaits \/ InsertRequest

Work(w) ==
  \/ CheckCount(w)
  \/ RetrieveRequest(w)
  \/ OpenServerPipe(w)
  \/ OpenRequestPipe(w)
  \/ OpenFails(w)
  \/ OpenResponsePipe(w)
  \/ EndSession(w)

Next ==
  \/ \E c \in Clients : ExtractRequest(c) \/ ClientQuits(c) \/ ClientDies(c)
  \/ Insert
  \/ \E w \in Workers : Work(w) \/ WorkerWakes(w) \/ Sigpipe(w)
  \/ HostWakes

Spec == Init /\ [][Next]_vars

\* The threads are scheduled and every client comes to the end of its jobs, for
\* a session ends (module ClientProgram); nobody owes a spurious wakeup, a
\* connection or a death.
Fairness ==
  /\ WF_vars(Insert)
  /\ \A w \in Workers : WF_vars(Work(w))
  /\ \A c \in Clients : WF_vars(ClientQuits(c))

FairSpec == Spec /\ Fairness

-----------------------------------------------------------------------------
(* Properties *)

Labels ==
  {"check", "asleep", "retrieve", "open_server", "open_request", "open_response", "serving",
   "exited"}

\* The type of every variable, and the indices, the counter and the session
\* ids as the requests inserted and retrieved so far determine them.
TypeOK ==
  /\ buffer \in [0..(N - 1) -> Slot]
  /\ in \in 0..(N - 1) /\ in = Len(accepted) % N
  /\ out \in 0..(N - 1) /\ out = Len(taken) % N
  /\ count \in Int /\ count = Len(accepted) - Len(taken)
  /\ session_counter = Len(accepted)
  /\ host \in [at : {"check", "asleep"}, client : Clients] \cup {NoHost}
  /\ pc \in [Workers -> Labels]
  /\ current \in [Workers -> Slot]
  /\ client \in [Clients -> {"new", "connecting", "session", "gone", "dead"}]
  /\ fds \in 0..MaxFds
  /\ aborted \in BOOLEAN
  /\ accepted \in Seq(Clients)
  /\ taken \in Seq(Clients \cup {NoClient})
  /\ overdrawn \in BOOLEAN

\* Until a request is retrieved from an empty buffer, the ring hands every
\* request to one worker, in the order of the server pipe: no request is
\* overwritten before it is retrieved and none is retrieved twice
\* (main.c:136-138, 165-167).
HandedInOrder ==
  ~overdrawn =>
    /\ Len(taken) <= Len(accepted)
    /\ \A k \in 1..Len(taken) : taken[k] = accepted[k]
    /\ \A k \in (Len(taken) + 1)..Len(accepted) :
         buffer[(k - 1) % N] = [client |-> accepted[k], session_id |-> k - 1]

Awake == {w \in Workers : pc[w] \in {"check", "retrieve"}}

\* No wakeup is lost: while a worker sleeps, at least as many workers are on
\* their way to the buffer as it holds requests.  Retrieving does not look at
\* the sleepers and inserting wakes at most one (main.c:144, 435-442).
NoLostWakeup == Asleep # {} => Cardinality(Awake) >= count

Busy(w) == Opening(w) \/ pc[w] = "serving"

\* Two workers never have the same session id in hand as long as the buffer
\* was not overdrawn: no client is served by two workers at once.
OneWorkerPerSession ==
  ~overdrawn =>
    \A v, w \in Workers : Busy(v) /\ Busy(w) /\ current[v] = current[w] => v = w

\* The session ids in hand were retrieved, and each by one worker.
SessionsApart ==
  ~overdrawn =>
    \A w \in Workers : Busy(w) =>
      /\ current[w].session_id < Len(taken)
      /\ \A v \in Workers : Busy(v) /\ current[v].session_id = current[w].session_id => v = w

\* A client that has sent its setup message and waits for its session.
Waiting(c) == client[c] \in {"connecting", "dead"}

\* Each client is inserted once, and the one in the host's hand was not yet.
InsertedOnce ==
  /\ \A j, k \in 1..Len(accepted) : accepted[j] = accepted[k] => j = k
  /\ \A k \in 1..Len(accepted) : client[accepted[k]] # "new"
  /\ host # NoHost =>
       client[host.client] # "new" /\ \A k \in 1..Len(accepted) : accepted[k] # host.client

\* Until the buffer is overdrawn, the clients to be inserted, those in the
\* buffer and those whose pipes are being opened wait for their session: their
\* pipes exist.
PipesKept ==
  ~overdrawn =>
    /\ host # NoHost => Waiting(host.client)
    /\ \A k \in (Len(taken) + 1)..Len(accepted) : Waiting(accepted[k])
    /\ \A w \in Workers : Busy(w) => current[w].client = accepted[current[w].session_id + 1]
    /\ \A w \in Workers : Opening(w) => Waiting(current[w].client)

At(label) == {w \in Workers : pc[w] = label}

\* No session opens more than three descriptors.
DescriptorsCounted ==
  fds + 3 * Cardinality(At("open_server")) + 2 * Cardinality(At("open_request"))
      + Cardinality(At("open_response")) <= 3 * Len(taken)

\* The inductive invariant: with the parts above, that the buffer never holds
\* more requests than it has slots (main.c:129-131).
Inv ==
  /\ TypeOK
  /\ count <= N
  /\ HandedInOrder
  /\ NoLostWakeup
  /\ SessionsApart
  /\ InsertedOnce
  /\ PipesKept
  /\ DescriptorsCounted

\* No open of a worker fails, and so no worker is lost to the free of a stack
\* variable, until the buffer is overdrawn or the sessions retrieved need more
\* descriptors than there are, three for each (main.c:184-204, 410): clients
\* that quit or die at any moment do not take the pipes of a request away.
OpensSucceed ==
  ~overdrawn /\ 3 * Len(taken) <= MaxFds => \A w \in Workers : ~CannotOpen(w)

\* A worker that waits in an open for a client that is dead waits for ever.
Stuck(w) == pc[w] \in {"open_request", "open_response"} /\ ClientOf(w, {"dead"})

\* What a client may wait for in vain: a server that is gone, descriptors that
\* are used up, or workers that all wait for clients that died too early.
NobodyServes == aborted \/ 3 * Len(taken) > MaxFds \/ \A w \in Workers : Stuck(w)

\* Until the buffer is overdrawn, a client whose request was inserted is served
\* if it does not die and someone serves at all: a death costs at most its own
\* worker, and one in a session costs none (main.c:191-222).
ClientsServed ==
  \A c \in Clients :
    client[c] = "connecting" /\ host.client # c ~>
      client[c] # "connecting" \/ overdrawn \/ NobodyServes

\* The comment at main.c:435 says of the worker "Wait if the buffer is empty":
\* no worker retrieves a request from an empty buffer.
WaitsWhenEmpty ==
  [][\A w \in Workers : pc[w] = "retrieve" /\ pc'[w] # "retrieve" => count > 0]_vars

\* The comment at main.c:40 says of not_full_cond that it is there "to signal
\* that the buffer is not full": a host that waits while a slot is free
\* inserts its request sooner or later.
HostInserts == host.at = "asleep" /\ count < N ~> host.at # "asleep" \/ aborted
=============================================================================
