# A verification development of the event management server

The repository is a small server for event bookings.  Clients send the commands
of a `.jobs` file over named pipes; two worker threads of the server execute
them on a shared list of events.  This directory models the server and its
client in TLA+, checks the models with TLC on small instances and proves
theorems about them with TLAPS.  File names below are relative to `src/`, line
numbers to the files named.

## Inventory

| part | source | state | operations |
|---|---|---|---|
| event store | `server/operations.c`, `server/eventlist.c` | list of events (head, tail, next) under a read-write lock; per event: id, size, reservation counter, seat array, mutex | `ems_create`, `ems_reserve`, `ems_show`, `ems_list_events`, `ems_show_stdout` |
| print on SIGUSR1 | `server/main.c` 67-75, 455-482 | `print_flag` | `sigusr1_handler`, `print_events` |
| request queue and workers | `server/main.c` 28-58, 82-172, 421-445 | ring buffer of two slots, `in`, `out`, `count`, `session_counter`, two condition variables | `insert_request`, `retrieve_request`, `worker_function`, `remove_session` (never called) |
| session handler | `server/main.c` 179-411 | three descriptors, the current request | `handle_client` |
| client API | `client/api.c` | session id and pipe paths | `ems_setup`, `ems_quit` and one function per command |
| registration | `server/main.c` 492-551, `client/api.c` 69-90 | bytes in the server pipe | `extract_requests`, first half of `ems_setup` |
| pipe I/O | `common/io.c` | none | `my_read`, `my_write`, printing |
| jobs parser | `client/parser.c`, `common/io.c` 105-199 | position in the file | `get_next`, `parse_*` |
| client command loop | `client/main.c` | the offset of the `.jobs` file | `main`, which calls `get_next`, one `parse_*` and one `ems_*` per command |
| start and stop | `server/main.c` 560-644, `server/operations.c` 49-97 | the pipe on the server's path, the registration of the handler | `main` up to the creation of the workers, `ems_init`, `ems_terminate` |

How they interact.  The main thread of the server reads setup messages from the
server pipe, and for each creates and joins a thread that puts the request into
the queue; workers take requests out and run one session each.  In a session the
client writes a request field by field into its request pipe, opens its response
pipe, and reads the reply; the worker reads the fields, calls an operation of
the store and writes the reply, for SHOW and LIST from inside the operation
while it holds a lock.  SIGUSR1 makes the main thread print the store.

What is hard about it, and what makes it correct:

- The store is shared by the workers and printed by the main thread.  Ids must
  stay unique, a seat must have one reservation for ever, a reply must describe
  one moment, and every path through an operation must release its locks.
- The queue couples three kinds of threads by one mutex and two condition
  variables.  Every request must reach one worker, and no thread may sleep while
  there is something for it to do.
- A session is two processes that open, read and write two pipes in an order
  both must agree on, and either may stop at any point.
- Signals interrupt the reads of the main thread, and raise SIGPIPE in a worker.
- A worker writes to a pipe while it holds a lock of the store, so a client that
  does not read holds up others; which others, is a property of the composition.
- The parser reads a `.jobs` file character by character from a descriptor, and
  what a function has consumed when it gives up decides what the next one sees.

`PROJECT.json` lists each hazard at its line, with the properties about it.

## Modules

### `Booking`: what the store promises

A list of events, each a map from seat coordinates to reservation numbers.
Every request takes effect in one step: CREATE appends or is refused, RESERVE
takes all its seats under one new number or none, SHOW and LIST return the state
of that moment.  There is no lock, pointer or index in it.

### `EventStore`: the store as the code has it

One step is what a thread does between two points where another thread can see
the difference: taking a lock, the accesses made under it, one seat of a loop,
one link of `append_to_list`.  Each worker has a program counter `pc`, named
after the operation and the place; the loop over seats in `ems_reserve`
(`ReserveSeat`) and in `ems_show` (`ShowSeat`), the sending loop of
`ems_list_events` (`ListSend`) and the walk of `print_events` take one step per
element.  `print_events` reads `next` when `ems_show_stdout` has released the mutex, in
a step of its own (`PrintNext`).

- Nodes are numbered in the order of their allocation, NULL is 0.  As events are
  only ever appended, the node after `a` is `a + 1`; `linked` counts the nodes
  reachable along `next`, `tail` is `event_list->tail`, and the two stores of
  `append_to_list` are two steps, because `print_events` reads both without a
  lock.
- `writer` and `readers` are the read-write lock, `mutex` the owner of each
  event's mutex.  The lock has default attributes (`server/eventlist.c` line 17),
  with which the C library lets a reader in past a writer that waits (`Rdlock`).
- `get_event` is the search from head to tail.  The simulated access delay is no
  step of its own: nothing depends on it but the time spent.
- The two checking loops of `ems_reserve` read under the event's mutex and change
  nothing, so they are one step with their outcome (`ReserveRefuse` or
  `ReserveAccept`).
- A failed allocation in `ems_create` is a refusal that may happen at any time
  (`CreateRefuse`).  Failures of the lock functions themselves are not modelled:
  the locks are initialised, never destroyed and used by the owner only.
- The build has `-g` and no optimisation, so the two unlocked loads of
  `print_events` happen in program order, tail before head (`PrintTail`,
  `PrintHead`).
- The reply is a sequence of integers; the pipe it goes through is `Session`'s.

The module ends with the refinement mapping to `Booking`: `db` is the list up to
the tail, and a reservation whose seats are still being written is not there yet.

### `SlowClients`: the store and its clients

`EventStore` with a response pipe of `Capacity` integers for each worker.  A step
of an operation that writes waits until the pipe has room for what it writes
(`WorkWithRoom`: `my_write` blocks in `write`), and a client reads its reply when
it likes, or never again (`Stop`).  It starts from a store that holds the events
of `Created`.  `ReadReply` takes all that is there: `my_read` takes one integer
at a time, but a pipe with room for one more is all that a blocked writer
waits for.  The clients here have their response pipe open when the worker writes:
what SIGPIPE does to the server is `Session`'s, and a server that it has ended
answers nobody.

### `RequestQueue`: the ring buffer and the worker pool

`buffer`, `in`, `out`, `count` and `session_counter` are the globals of
`main.c`.  Every critical section of `buffer_mutex` is one step.  A worker's
wait for a request (`CheckCount`) and its retrieval (`RetrieveRequest`) are two
critical sections in the code and two steps here.  A signal wakes one sleeper if
there is one, and a wait may end without a signal (`WorkerWakes`, `HostWakes`); a woken
thread tests its condition again.

`host` is the thread the main thread creates to insert a request, and joins, so
that there is one at a time.  Of `handle_client` the module has what matters to
the pool: the three opens, each of which takes one descriptor of `fds` that is
never given back, and the end of the session.  An open of a pipe without a client
at its other end waits; it has its descriptor already, which `NoDescriptor`
counts.  A client may die at any moment after its setup message (`ClientDies`):
its pipes stay on their paths, a worker that opens one of them waits for ever,
and a worker in a session reads the end of the pipe.  The pipes of a client that
quit are removed, so the opens of a stale slot fail, and a slot
that was never filled names no server pipe either (`NoPipe`).  A failed open frees
`current_request`, a variable on the worker's stack: undefined behaviour, of
which the model takes the outcomes the C library produces, the end of the process
or of the thread (`OpenFails`).  `Sigpipe` is the end of the server that
`Session` explains.

`accepted`, `taken` and `overdrawn` are history variables for the properties.
`remove_session` has no action: its only caller is the case of op_code 2, which
the condition of the loop around the switch (line 222) excludes.

### `Session`: one client and its worker

A session starts with the two `mkfifo` of `ems_setup`, on paths where an earlier
client may have left its pipes (`files`), and ends with the two `unlink` of
`ems_quit`.  The two pipes are bounded queues of tokens, one token per `write`.
All writes of a request are smaller than `PIPE_BUF`, hence atomic.  Opening a FIFO
waits for the other end: who comes first waits, and the second lets both go on.
The client keeps its write end of the request pipe from `ems_setup` on, so
per-operation opens of it never block and never matter to the end-of-file.  Its
read end of the response pipe is open only during a reply, except after a refused
call, see below.  The worker never closes its ends.

Every call takes two descriptors, one for each pipe (`Begin`, `OpenReply`), and gives
them back when it succeeds.  The early returns on a result other than 0 skip the
two `close` (`Close`): `kept` counts the calls that have left theirs open, `left`
the descriptors the client has not used up.  With none left an open fails and the
call returns 1: at the request pipe with nothing sent (`BeginFails`; `api.c` lines
188, 264, 344, 449), at the response pipe with the request sent, which
the worker will run and whose reply nobody reads (`OpenReplyFails`; lines 222,
302, 367, 468).  With the usual limit of 1024 this takes about five hundred
refused commands in one file.  `lost` records that it has happened.  `ems_quit`
comes after `client/main.c` has closed the `.jobs` and the `.out` file (lines
131-138), whose descriptors it can use (`InOut`): `OnlyRefusedLeak` shows that its
opens do not fail.  An open fails in the model only for want of a descriptor of
the client; a full table of open files of the whole system is not modelled, nor a
write to the `.out` file that fails.

`Message` is what the functions of `api.c` write, `Arguments` what the cases of
`handle_client` read; they are translated independently from the two files.  A
read at the end of the pipe returns 0, which no caller tests for: the variable
keeps what it held.  A write to a pipe without a reader raises SIGPIPE, which
ends the process that wrote: `killed` for the server, `cpc = "sigpipe"` for the
client.  A worker that is blocked on a reply nobody reads comes out of it that way
when its client ends.  `Crash` is the end of the client at any point, by a signal
or by one of the early returns of `client/main.c`.  `Talk` is what the client does
besides beginning a call (`Begin`, `BeginFails`, `BeginQuit`), `Listen` what the
worker does besides running the operation (`Execute`), so that `ClientProgram` can
take their place.

### `JobsParser` and `ClientProgram`: what a `.jobs` file makes of it

`JobsParser` has one operator for each function of `parser.c` and for
`parse_uint`.  They take the text of the file and an offset and return what was
parsed and the offset behind the last character consumed, because that is what
the descriptor keeps.  Three of its behaviours are easy to overlook:
the character behind a number is consumed with it, so `cleanup` may begin on the
next line; at the end of the file `parse_uint` reports a NUL behind the number but
does not terminate the digits, so that `strtoul` may go on with stale ones
(`stale`); and a list of exactly
`MAX_RESERVATION_SIZE` seats is refused.  `get_next` compares as many
characters as the keyword is long, whatever they are.

`ClientProgram` puts the loop of `client/main.c` in front of `Session`: it parses
a command (`CommandsAt`), skips it or calls the API, and calls `ems_quit` at the end of
the file.  A script is a sequence of lines that carry, besides their text, the
call that the help text of `main.c` (lines 117-123) makes of them; the code only
sees the text.  `FilesAssumption` says that a file is a finite number of
characters and `KeywordAssumption` that no keyword is empty, which is all that the
proofs know of strings.  The history variables `calls`, `executed` and `outcome`
record what the loop has called, what the worker has run of it, and the reply of
the last run.  A call that fails is in `calls` too; it is not made again.

### `RemoteCalls`: what the API promises

Calls are made one at a time, the operation of each runs at most once and in the
order of the calls, and a call returns after its run with the outcome of that
run.  A call may also fail (`Fail`): then no other is made, and the one under way
may still be run but returns nothing.  At last the session is closed (`Close`).
There is no pipe, token or worker in it.  `ClientProgram` ends with the refinement
mapping: the calls are the `op`s of the first `number` of `calls`, those whose
request was begun; the result of a call is what the client has read of its reply
(`got`) once that is complete (`Result`); `lost` is mapped to itself and `closed` is
`quit`.  A client that dies makes no more calls and returns from none; the run of
its last call may still happen.

### `ServerPipe`: start, registration and SIGUSR1

`pipe` is the server pipe byte by byte; a byte carries the client that wrote it
and its place in the setup, which is all that decides whether a path read is one
that a client sent.  Clients can write as soon as the main thread has opened the
pipe, before there are workers.  `written` counts the three writes of each `ems_setup`; each
is atomic, and another client's may come in between.  `at` is where the main
thread is: making the pipe, registering the handler, opening the pipe and
creating the workers (`Start`), then in `extract_requests` filling one of the
three variables, or at the test of `print_flag`, in `print_events`, or waiting for
the thread that inserts.  `Read` is one turn of the loop of `my_read`: it takes as
many bytes as are there, up to what is missing.

A SIGUSR1 runs its handler on the main thread, which may be waiting in `read` or
be elsewhere, or on a worker that has not yet blocked it: a worker blocks SIGUSR1 as the
first thing it does (`WorkersBlock`), but it is created with the mask of the main
thread (`unblocked`).  The thread that inserts a request inherits the mask
too; the main thread does nothing but wait for it, so a handler on it is one on
the main thread.  The build compiles with
`-std=c17 -D_POSIX_C_SOURCE=200809L`, for which the C library gives `signal()` its
System V meaning: the disposition is the default from the delivery until the
handler registers itself again, so a second signal ends the server, and the
read is not restarted.  If the main thread was waiting in `read` with the pipe
empty, the read fails with EINTR, `my_read` returns -2 with the bytes stored so
far forgotten, and the callers go on, for they test for -1.  A path variable that
was not filled holds what it held in the turn before: it is on the same place of
the stack in this build.

`sent`, `overlap`, `torn`, `owed` and `outcome` are history variables.

### The proofs

`EventStoreProofs`, `RequestQueueProofs`, `SessionProofs`, `ServerPipeProofs`,
`SlowClientsProofs`, `JobsParserProofs` and `ClientProgramProofs` hold the theorems
about the modules they are named after, `BookingProofs` those about the
refinement of `Booking` by `EventStore`, see below.

## Runs

| run | question | result |
|---|---|---|
| `store_bookings` | do all interleavings of operations on one event refine `Booking`, keep seats and give consistent maps? | holds |
| `store_lists` | the same for two ids, with `print_events` walking along; is the invariant of the proofs true? | holds |
| `store_answers` | is every request answered when every client reads, and who waits for a client that does not (`AnsweredIfRead`, `StallIsLocal`); does whoever is in another's way wait for no lock itself (`LocksComeFree`)? | holds: only those who need the lock its worker holds wait, so a SHOW that waits holds up no work on the other event |
| `store_print_all` | does a print show all events (`README.md` line 60)? | violated: the last one is left out |
| `queue_ring` | does each request go to one worker, in order, is no sleeper forgotten, do opens succeed, and is each client served although others die? | holds until the buffer is overdrawn or the descriptors are used up |
| `queue_empty` | does a worker wait when the buffer is empty (`main.c` line 435)? | violated: two workers retrieve one request |
| `queue_full` | does a host that waits while there is room in the buffer insert sooner or later (`main.c` line 40)? | violated: it sleeps on, for nobody signals that a slot is free |
| `session_calls` | does a file make the calls it says, line by line, once each and in order, with commands looked for only where lines start; does it implement `RemoteCalls`; are requests read and replies matched as they were written; do only refused calls cost descriptors, and what becomes of calls that find none; do client and worker never wait for each other; does a session end, give its worker back and clean up its paths? | holds unless the server is killed; calls are run at most once, and all of them unless one failed for want of a descriptor |
| `session_sigpipe` | does the server survive its clients (`README.md` line 4)? | violated: SIGPIPE |
| `pipe_setups` | is each setup settled in its turn and in the end, a raised `print_flag` printed, and the server not ended by signals that come one after the other? | holds as long as setups do not overlap |
| `pipe_mixed` | does each of two clients at the same time get its session (`README.md` line 3)? | violated: their writes mix |
| `pipe_torn` | does a read go on after a signal (`README.md` line 4)? | violated: the path is given up |

Bounds.  Two workers are what the program has (`MAX_SESSION_COUNT` is 2).

- `store_bookings` uses events of up to 2x2 seats, which include the non-square
  ones, and seat lists with one seat, with an overlap and a repetition, and with a
  seat out of every bound next to one in bounds; three requests per worker are a
  CREATE, a RESERVE and a third that meets the other worker's.
- `store_lists` has two ids and two nodes of memory, enough for a list that grows
  during a walk.
- `store_answers` starts with two events, 1 and 2, and the id of a third that can
  be created.  Each worker has one request, any of the four on any id, so that
  while the SHOW of one event waits for its client the other worker can be at work
  on the same event or on the other, send the list or append the third event.
  One request each is enough for these properties, which are about who waits at one
  moment: both workers get to every place of every operation, with every outcome,
  and a worker that has answered holds no lock, so a second request begins as the
  first did, in a store that the `Created` events and the other worker bring about as
  well.  Two requests each with the print take longer than a run may; without the
  print and on ids 1 and 2 they were checked once and hold.  The pipe holds three
  integers, the first write of a SHOW, so that its fourth waits, as do the ids of a
  LIST.
- `queue_ring` has three clients for two slots, so the ring wraps, and nine
  descriptors, which is what three sessions open.  `queue_full` has four clients,
  which it takes to fill the buffer while both workers are busy and then one more.
- `session_calls` has pipes of two tokens, smaller than every message and than the
  longest replies, so both sides block in the middle of one.  Its 723 scripts are
  all files of one or two lines out of 25 (each kind of call, an empty number, lines
  that call nothing, and lines cut off or too long at each place a function
  of the parser can give up), all triples of calls, each call four times, and a cut
  keyword in front of two lines; each with and without a newline at the end.  The
  client has five descriptors, an odd number, of which two refused calls leave one:
  the third call opens its request pipe and not its response pipe, and the fourth
  opens neither.  `UINT_MAX` is 99 and `MAX_RESERVATION_SIZE` 3, so that numbers and
  lists reach their limit; `StaleDigits` has a digit and none.  Numbers are shorter
  than the buffer of `parse_uint` and files have no NUL.
- `pipe_setups` has paths of two bytes, so that a read can begin in the middle of
  one, two clients, so that each setup can be followed by another, and three
  signals: one to spoil a setup, one to drop the next, and one more to find the
  handler unregistered.

Deadlock is checked in the runs of the store that only ask for safety, which end
only in `Finished`.  In the others the system may stop: workers sleep when all
clients are gone, a stopped client never goes on, and a session is over.

Fairness.  The runs with liveness assume that a thread that can go on sooner or
later does, which is what the scheduler of the operating system gives.

- `SlowClients` assumes it of the workers, the print and the clients that are not
  stopped; nobody owes a request or a signal.  For requests in bounded number,
  weak fairness of the operations is enough for the locks too: whoever holds one
  goes on to release it, and competitors come to an end.  A CREATE behind an endless
  stream of readers is not covered: requests are bounded.
- `RequestQueue` assumes it of the host and the workers, and that each client
  comes to the end of its jobs, as `ClientProgram` shows of one that is
  scheduled (`SessionEnds`).  It does not assume that a spurious wakeup, a new
  client or a death ever comes.
- `ClientProgram` assumes it of the client and of its worker, not that the client
  is ever interrupted.
- `ServerPipe` assumes it of the main thread and the handler, except that an
  insertion may wait for a free slot for ever; `SignalPrinted` and `SetupsSettled`
  are about the behaviours in which each insertion comes to an end.  Nobody has to
  write.

## Theorems

`EventStoreProofs` proves for every number of workers, events, seats and
requests:

- `Invariance`: `Spec => []Inv`, the inductive invariant.
- `TypeCorrect`: `Spec => []TypeOK`, no operation reaches a node outside the list
  or uses an index outside the seat array of its event, which the model would let
  pass in silence if it were not part of `TypeOK`.
- `IdsAreUnique`: `Spec => []NoDuplicateIds`.
- `NumbersHoldSeats`: `Spec => []NumbersAreSeated`.
- `SeatsAreKept`: `Spec => SeatNeverReassigned`.

The assumptions are those of `StoreAssumption`: the sets of threads are disjoint,
ids, sizes and coordinates are natural numbers, and seat lists are not empty.  The
last is a promise of the client (`client/main.c` line 78 lets none through) that
`ems_reserve` does not check: an empty list from another program would be given a
reservation number that holds no seat, and `NumbersAreSeated` says nothing of it.  The argument: `NoDuplicateIds` and
`NumbersAreSeated` are not inductive, for they say nothing of a worker in the
middle of an operation.  `Inv` adds where each lock is held (`LocksFollowCode`),
that under the write lock the searched list is the whole list
(`ListWellFormed`), that a pointer found before is still in the list
(`WorkFitsRequest`), and what a half-written reservation looks like
(`WriteInProgress`).  From the locks it follows that two workers in the critical
region of one event are one worker (`OneHolder`), hence that nobody else changes
the event in between (`HeldEventStays`); the steps of the worker itself are then
sequential reasoning.

`BookingProofs` goes on from there:

- `ShowsAreSnapshots`: `Spec => []ShowIsSnapshot`.
- `PrintsStayOnList`: `Spec => []PrintStaysOnList`.
- `Linearizable`: `Spec => TakesEffectAtOnce`, that is, `EventStore` implements
  `Booking` under the mapping at the end of `EventStore`.

`Inv` does not say what an operation has done when it takes effect.  `SnapInv`
adds it: the event in hand has the id of the request and lies before the
tail (`FoundById`), the new node is as it was built (`NewNode`), a reply begun by
SHOW or LIST is what the store holds up to the loop index (`Showing`, `Listing`), a
new number stands only on seats asked for (`OnlyAsked`), and all other operations
have written nothing (`Unanswered`).  `PrintInv` does the same for the walk of
`print_events`, which reads the tail before the head and so may have found no
tail (NULL) and nevertheless a list.  Both are inductive relative to `Inv`
(`SnapInvariance`).

The refinement has one lemma for each step at which an operation ends, and one,
`DbStays`, for all the others.  CREATE takes effect at the second store of
`append_to_list` (`CreateTakesEffect`), RESERVE when its last seat is written and the
mutex released (`ReserveTakesEffect`), SHOW and LIST with their last integer
(`ShowTakesEffect`, `ListTakesEffect`), a refusal with its answer.  Before that a
worker's writes are invisible in the abstract database, because nobody else
writes to the event (`OnlyWriter`) and the mapping takes the new number away
again (`AcceptUnseen`, `SeatUnseen`); that RESERVE books the seats it was asked
for and no others needs that no two places of the grid share a cell
(`SeatIndexInjective`), and that SHOW sends the grid row by row needs the inverse of
`seat_index` (`PlaceOf`).

`RequestQueueProofs` proves for every number of slots, workers and clients:

- `QueueInvariance`: `Spec => []Inv`.
- `QueueTypeCorrect`: `Spec => []TypeOK`.
- `RequestsInOrder`: `Spec => []HandedInOrder`.
- `WakeupsSuffice`: `Spec => []NoLostWakeup`.
- `SessionsUnshared`: `Spec => []OneWorkerPerSession`.
- `OpensAreSafe`: `Spec => []OpensSucceed`.

Of `QueueAssumption` the proofs use that there is at least one slot and that the
workers are finite in number, not that there are as many workers as slots.  `Inv`
adds to the three properties that `count` never exceeds `N` and that the ids in
hand were all retrieved (`SessionsApart`).  An insertion writes slot
`Len(accepted) % N` and the requests still to be retrieved are less than `N`
insertions back, so their slots differ (`ModDiffer`); that is the whole reason why
none is overwritten, and it needs the test of `count` in `insert_request`.
For `OpensAreSafe` it adds that a client is inserted once (`InsertedOnce`),
that those whose request is on its way wait for it, so that their pipes are still on
their paths (`PipesKept`), and that a session retrieved uses three descriptors at most,
those of its opens to come included (`DescriptorsCounted`).
`NoLostWakeup` is inductive by counting: an insertion adds one to both sides when
somebody sleeps, a retrieval takes one from both, and a worker goes to sleep only
when `count` is 0.

`SlowClientsProofs` proves, for every room in the response pipes and for clients
that read when they like or never:

- `StoreHoldsWithSlowClients`: `SlowSpec => []Inv`.
- `SeatsAreKeptWithSlowClients`: `SlowSpec => SeatNeverReassigned`.
- `ShowsAreSnapshotsWithSlowClients`: `SlowSpec => []ShowIsSnapshot`.
- `TakesEffectWithSlowClients`: `SlowSpec => EachTakesEffect`, each step is a step
  of `Booking` or none.
- `WaitingNeverSpreads`: `SlowSpec => []LocksComeFree`.

A step of `SlowClients` is one of `EventStore` that finds room, or leaves the store
alone, so the lemmas of `BookingProofs` about steps apply; but `SlowSpec` begins
with the events of `Created`, hence `EachTakesEffect` says nothing of the first
state.  `WaitingNeverSpreads` is more than that nobody waits in a circle.  It
needs `LocksFollowCode`, by which the place of a thread tells its locks, and that a
worker which is not in the loop of SHOW or of LIST has the whole pipe before it
(`Room`).

`SessionProofs` proves for every capacity of the pipes and every number of
requests and of descriptors, of `Session`'s `Spec`:

- `SessionInvariance`: `Spec => []Inv`.
- `SessionTypeCorrect`: `Spec => []TypeOK`.
- `FramingKept`: `Spec => []Framing`.
- `RepliesAreOwn`: `Spec => []RepliesMatch`.
- `DescriptorsCount`: `Spec => []OnlyRefusedLeak`.
- `PathsHavePipes`: `Spec => []PipesOnPaths`.
- `NobodyWaitsForNobody`: `Spec => []NoMutualWait`.

The argument is about streams.  What comes to the worker is the request pipe
followed by what the client has still to write (`RequestStream`): a write does not
change it and a read takes its first token (`Shift`, `Cut`).  Between two requests it
is empty or a whole request, and inside one it is the tokens of the arguments still to
be read, while the others are in their variables (`InRequest`).  A client that
dies cuts the stream short, and the worker, which does not test for the end of the
file, then completes the request with what its variables held (`Torn`); there is
no request after it.  In the other direction, what the client has got, the response
pipe and what the worker has still to send are together the reply to its last
request (`WholeReply`), and the client, which knows from the first numbers of a
reply how long it is, leaves nothing of it in the pipe.  This holds as long as the
client reads its replies at all (`Attends`): not after its death, `ems_quit` or a
call without descriptor for its reply, which leaves the reply to that call where it
is, and of which `RepliesMatch` still says that nothing is read for another.
`DescriptorsCount` needs how many descriptors the call in hand has open at each place
(`DescriptorsMatch`).  That neither waits for
the other while the other waits for it needs, besides the streams, whose turn it
is in the two opens, and that the one token of `ems_quit` that a worker leaves
unread has room in the pipe (`TurnsMatch`).

`JobsParserProofs` is about the functions of the parser, for every text, every
offset and every content of the uninitialised buffer:

- `CommandsEndLines`: at the start of a line, a turn of the loop of `client/main.c`
  leaves the offset behind the end of a line or at the end of the file, and further
  on than before; it calls `ems_quit` at the end of the file and nowhere else.
- `ReservationsFit`: after any number of turns of the loop of `parse_reserve` no more
  than `MAX_RESERVATION_SIZE` pairs are stored, and fewer before a further turn, so
  that `xs` and `ys` have room for every pair, also in a line that is refused in the
  end; and `ems_reserve` is called only with a list that was closed, of at least one
  pair and fewer than `MAX_RESERVATION_SIZE`.

The loops of the parser are recursive functions over the numbers or the seats read
so far.  The induction theorems of the library take a predicate, which the provers
cannot instantiate; `SetInduction` takes a set instead, and is proved from the least
element that its complement would have.  The provers know nothing of strings but what
`FilesAssumption` and `KeywordAssumption` say, which TLC evaluates on the files of
`session_calls`.

`ClientProgramProofs` puts the two together, for every script, capacity and number
of requests:

- `ProgramIsSession`: `ProgramSpec => Spec`.  `Session` leaves the choice of the next
  operation free; the program chooses no others, so the theorems of
  `SessionProofs` hold of it.
- `LoopReadsLines`: `ProgramSpec => []AtLineStart`.
- `ProgramInvariance`: `ProgramSpec => []ProgramInv`, the inductive invariant.
- `CallsAreExecuted`: `ProgramSpec => []ScriptExecuted`.
- `ProgramImplementsCalls`: `ProgramSpec => CallsRunOnce`, that is, `ClientProgram`
  implements `RemoteCalls`.

`ScriptExecuted` is not inductive: it does not say when the worker is one call
behind.  `ExecutedMatch` does, from the place of the worker and what is left in the
stream of requests (`Behind`, `CaughtUp`), and `CallsMatch` says that the requests are
the first calls, and all of them until a call fails.  Without a failure a call can be
made only when nothing is left in the stream; after one no request is made at
all, so the worker may stay behind by the last one, and no more.  For the refinement
`OutcomeFlows` adds that from a run on, and while the client reads, what it has
got, the response pipe and what the worker has still to send are the outcome of
that run, so that a reply which is complete is that outcome and no stretch of it,
nor of an older one.  The step lemmas say which abstract step each step is: a call
(`OpCalled`), made only when the one before has returned (`ReadyReturned`), the run
of the last call (`ExecutedOutcome`), the read that completes a reply and so returns
it (`OutcomeReturned`), or nothing that the calls see (`NothingOfCalls`); an open that
fails is `Fail` the first time, and `ems_quit` is `Close` (`OpsKept`, `ResultKept`).

`ServerPipeProofs` proves for every set of clients, every length of paths and
every number of signals:

- `ServerPipeInvariance`: `Spec => []Inv`.
- `ServerPipeTypeCorrect`: `Spec => []TypeOK`.
- `SignalsSurvived`: `Spec => SpacedSignalsSurvive`.
- `SetupsSettledInTurn`: `Spec => []EachSettledInTurn`.

As long as setups do not overlap, the bytes that were ever written are the setups
in the order of their op_codes, of which only the last can be unfinished
(`WritersInv`), and the pipe holds the end of that stream: `StreamFrom(j, c)` says
that it begins behind the first `c` bytes of the `j`-th setup.  `PlaceInv` says
where that is, for each place of the main thread.  In front of an op_code it is not
the end of the last settled setup but any place behind its op_code (`Idle`), because
what a print or an interrupted read left there is skipped byte by byte; and this is
enough, because no byte of a path is an op_code (`SetupBytes`).  In the paths it is
exactly behind what was stored, or, once a read was interrupted, somewhere
before that, so that the two reads that follow an op_code never reach the
next one.  `SignalsSurvived` needs of the invariant only that a handler that has
returned has registered itself (`SignalsInv`).

Only model-checked are the properties under fairness (`AnsweredIfRead`,
`StallIsLocal`, `ClientsServed`, `SignalPrinted`, `SetupsSettled`, `SessionEnds`,
`WorkerReturns`), which are out of the provers' reach, and `LinesKeptApart` and
`CallsMeanLines`, which compare the parser with the lines a file was put together
from.  Those depend on the characters of concatenated strings, and a string is an atom to
the provers.

## What the violations mean

The six expected violations are disagreements between the code and its own
comments or documentation, quoted in `PROJECT.json`.  `HandedInOrder`,
`OneWorkerPerSession` and `OpensSucceed` of the queue are stated up to the first
overdraw (`overdrawn`), which only `WaitsWhenEmpty` catches, and the properties of the
session up to the death of the server (`killed`), because after those events the
code promises nothing: a second retrieval hands out stale slots, and SIGPIPE
ends all sessions at once.  Those of the server pipe are stated up to the first
overlap of two setups, after which any byte of one may be read as part of the
other.

Some behaviour that looks wrong contradicts no line of the repository clearly
enough to be a violation, and is part of the properties instead:

- A signal handled during a print is lost with the flag that is cleared
  behind it (`EndPrint`, `owed`), and one that comes before the handler has
  registered itself again ends the server (`SpacedSignalsSurvive`).
- A SIGUSR1 handled while the main thread is not waiting in `read` is noticed only
  after the next op_code, and that client's setup is dropped for it
  (`EachSettledInTurn`).
- A malformed line can take the next one along, when the parser has already
  consumed its newline.  `LinesKeptApart` allows a line to be skipped behind any
  malformed line, and behind no proper one.
- A number without digits is 0.  Of a last line without a newline `CallsMeanLines`
  says: a RESERVE is refused; a CREATE or a SHOW makes the call it says, except that
  the last number may have stale digits behind its own, or no call, as when those
  make it too large; what is no proper line makes no call.
- A client that has used up its descriptors with refused calls goes through the rest
  of its file without any of it being executed, but for one call whose reply nobody
  reads, and still ends its session with `ems_quit` (`OnlyRefusedLeak`,
  `ScriptExecuted`, `SessionEnds`).
- A client that fails to start, or is killed, leaves pipes on its paths, on which
  the next run fails (`PipesOnPaths`); the server never removes its own pipe, as
  `README.md` line 35 says.

## Plan

Done, in this order: `EventStore` refining `Booking` with its first theorems;
`RequestQueue` and `Session`; `ServerPipe`; `RequestQueueProofs`; the parser and the
command loop (`JobsParser`, `ClientProgram`); clients that do not read
(`SlowClients`), clients that die and the budget of descriptors (`RequestQueue`);
the start of the server; `BookingProofs`; `SessionProofs`; `ServerPipeProofs`;
`SlowClientsProofs`; `JobsParserProofs`; `RemoteCalls` and `ClientProgramProofs`; the
descriptors of the client, which its refused calls use up, and what follows from a
failed open (`Session`, `ClientProgram`, `RemoteCalls` and their proofs).

Left: a model of several sessions on one store and one queue at the level of
tokens, which TLC could not explore, and with it the composition of the theorems of
`Session`, `RequestQueue` and `EventStore` into one about the whole server.

## Not modelled

- `ems_terminate`, `free_list` and the end of `main` (`server/main.c` 600-644) are
  reached only when the server pipe cannot be opened or read; in operation the
  server ends by a signal.
- `print_str`, `print_uint` and `print_error` write text to a terminal; no
  property is about the text.
- `parse_wait` and `get_next` can return a thread id, which the command loop never
  asks for, and `ems_wait` only spends time.
- Opens of the client that fail for another reason than its own descriptors, and
  writes to the `.out` file that fail.
- Failures of `pthread_*` and of allocations other than those of `ems_create`.
