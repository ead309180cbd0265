----------------------------- MODULE ServerPipe -----------------------------
(***************************************************************************)
(* Registration: the bytes that clients write to the server pipe            *)
(* (ems_setup in src/client/api.c), the main thread that reads them         *)
(* (extract_requests in src/server/main.c, my_read in src/common/io.c) and  *)
(* SIGUSR1, which interrupts it and asks for a print of the store.  The     *)
(* server starts on a path that an earlier one may have left its pipe on.   *)
(*                                                                         *)
(* A setup is three writes, each atomic: the op_code, the path of the       *)
(* request pipe and the path of the response pipe.  A byte knows which      *)
(* client wrote it and where in the setup it stands; no byte of a path has  *)
(* the value 1, the op_code of a setup.                                     *)
(***************************************************************************)
EXTENDS Integers, Sequences

CONSTANTS
  Clients,    \* the clients
  P,          \* MAX_PATH, the number of bytes of a path
  MaxSignals  \* bound: how often SIGUSR1 is sent

ASSUME PipeAssumption ==
  /\ P \in Nat \ {0}
  /\ MaxSignals \in Nat

VARIABLES
  file,        \* there is a pipe on the server's path
  pipe,        \* the bytes in the server pipe
  written,     \* how many of its three writes each client has made
  at,          \* where the main thread is: the variable my_read fills, or a step
  unblocked,   \* a worker has not yet blocked SIGUSR1
  done,        \* how many bytes the current my_read has stored
  buf,         \* the variables my_read fills
  print_flag,
  registered,  \* the disposition of SIGUSR1 is sigusr1_handler, not the default
  handler,     \* sigusr1_handler: its next step, and what it interrupts
  signals,     \* how often SIGUSR1 was sent
  killed,      \* the server died of SIGUSR1
  sent,        \* history: the clients in the order of their op_codes
  overlap,     \* history: a setup began while another was unfinished
  torn,        \* history: a path of the current setup was not read to its end
  owed,        \* history: the flag was raised outside a print, and none began since
  outcome      \* history: what became of the op_codes read

signal == <<print_flag, registered, handler, signals, killed>>
history == <<sent, overlap, torn, owed, outcome>>
vars == <<file, pipe, written, at, unblocked, done, buf, signal, history>>

Size == [op_code |-> 1, request_pipe_path |-> P, response_pipe_path |-> P]

Byte == [client : Clients, of : DOMAIN Size, place : 1..P]

\* The value 0 of op_code, or what an uninitialised path holds.
NoByte == [client |-> "none", of |-> "none", place |-> 0]

OpCode(c) == [client |-> c, of |-> "op_code", place |-> 1]

Path(c, of) == [i \in 1..P |-> [client |-> c, of |-> of, place |-> i]]

Paths(c) == <<Path(c, "request_pipe_path"), Path(c, "response_pipe_path")>>

\* The three writes of ems_setup.
Setup(c) == << <<OpCode(c)>> >> \o Paths(c)

NoHandler == [at |-> "none", on |-> "none"]

\* Where main is while it has not opened its pipe, and when it could not make it.
Unopened == {"mkfifo", "signal", "open", "failed"}

\* Where main is before extract_requests.
Starting == Unopened \cup {"threads"}

-----------------------------------------------------------------------------

Init ==
  /\ file \in BOOLEAN
  /\ pipe = <<>>
  /\ written = [c \in Clients |-> 0]
  /\ at = "mkfifo"
  /\ unblocked = FALSE
  /\ done = 0
  /\ buf = [v \in DOMAIN Size |-> [i \in 1..Size[v] |-> NoByte]]
  /\ print_flag = FALSE
  /\ registered = FALSE
  /\ handler = NoHandler
  /\ signals = 0
  /\ killed = FALSE
  /\ sent = <<>>
  /\ overlap = FALSE
  /\ torn = FALSE
  /\ owed = FALSE
  /\ outcome = <<>>

-----------------------------------------------------------------------------
(* The clients *)

\* A client's open of the server pipe waits until the server has opened it.
Write(c) ==
  /\ ~killed
  /\ at \notin Unopened
  /\ written[c] < Len(Setup(c))
  /\ written' = [written EXCEPT ![c] = @ + 1]
  /\ pipe' = pipe \o Setup(c)[written'[c]]
  /\ sent' = IF written[c] = 0 THEN Append(sent, c) ELSE sent
  /\ overlap' = (overlap \/ \E d \in Clients \ {c} : written[d] \in 1..(Len(Setup(d)) - 1))
  /\ UNCHANGED <<file, at, unblocked, done, buf, signal, torn, owed, outcome>>

-----------------------------------------------------------------------------
(* The main thread *)

\* A handler on the main thread, or on the thread that inserts for it and that it
\* joins, keeps the main thread from going on; one on a worker does not.
MainRuns == ~killed /\ handler.on \notin {"main", "read"}

\* The start of the server: main up to the call of extract_requests.
MakeServerPipe ==
  /\ MainRuns
  /\ at = "mkfifo"
  /\ file' = TRUE
  /\ at' = IF file THEN "failed" ELSE "signal"
  /\ UNCHANGED <<pipe, written, unblocked, done, buf, signal, history>>

Register ==
  /\ MainRuns
  /\ at = "signal"
  /\ registered' = TRUE
  /\ at' = "open"
  /\ UNCHANGED <<file, pipe, written, unblocked, done, buf, print_flag, handler, signals, killed, history>>

\* Opened for reading and writing, so without waiting for a client.
OpenServerPipe ==
  /\ MainRuns
  /\ at = "open"
  /\ at' = "threads"
  /\ UNCHANGED <<file, pipe, written, unblocked, done, buf, signal, history>>

\* The workers are created with the signal mask of main.
StartWorkers ==
  /\ MainRuns
  /\ at = "threads"
  /\ unblocked' = TRUE
  /\ at' = "op_code"
  /\ UNCHANGED <<file, pipe, written, done, buf, signal, history>>

Start == MakeServerPipe \/ Register \/ OpenServerPipe \/ StartWorkers

\* The last worker has begun worker_function.
WorkersBlock ==
  /\ ~killed
  /\ unblocked
  /\ handler.on # "worker"
  /\ unblocked' = FALSE
  /\ UNCHANGED <<file, pipe, written, at, done, buf, signal, history>>

\* What my_read is followed by.
After ==
  [op_code |-> "test", request_pipe_path |-> "response_pipe_path", response_pipe_path |-> "insert"]

Store(v, bytes) ==
  buf' = [buf EXCEPT ![v] = SubSeq(@, 1, done) \o bytes \o SubSeq(@, done + Len(bytes) + 1, Size[v])]

\* A read of up to `want` bytes: as many as the pipe holds, at least one.
ReadUpTo(want) ==
  /\ MainRuns
  /\ at \in DOMAIN Size
  /\ pipe # <<>>
  /\ LET n == IF want < Len(pipe) THEN want ELSE Len(pipe) IN
       /\ Store(at, SubSeq(pipe, 1, n))
       /\ pipe' = SubSeq(pipe, n + 1, Len(pipe))
       /\ IF done + n >= Size[at]
          THEN at' = After[at] /\ done' = 0
          ELSE done' = done + n /\ UNCHANGED at
  /\ UNCHANGED <<file, written, unblocked, signal, history>>

\* Variant: every read of the loop asks for the whole size.
Read_WholeSize == at \in DOMAIN Size /\ ReadUpTo(Size[at])

\* One turn of the loop of my_read, which asks for what is missing.
Read == at \in DOMAIN Size /\ ReadUpTo(Size[at] - done)

IsSetup == buf["op_code"][1] \in {OpCode(c) : c \in Clients}

Settle(what, paths) ==
  outcome' = Append(outcome, [what |-> what, op |-> buf["op_code"][1], paths |-> paths])

\* The top of the loop of extract_requests, where op_code is 0 again.
Again ==
  /\ at' = "op_code"
  /\ buf' = [buf EXCEPT !["op_code"] = <<NoByte>>]
  /\ torn' = FALSE

\* A set print_flag starts a print; after it `continue` drops the op_code.
StartPrint ==
  /\ MainRuns
  /\ at = "test"
  /\ print_flag
  /\ at' = "print"
  /\ IF IsSetup THEN Settle("dropped", <<>>) ELSE UNCHANGED outcome
  /\ owed' = FALSE
  /\ UNCHANGED <<file, pipe, written, unblocked, done, buf, signal, sent, overlap, torn>>

\* The print is over and print_flag is cleared.
EndPrint ==
  /\ MainRuns
  /\ at = "print"
  /\ print_flag' = FALSE
  /\ Again
  /\ UNCHANGED <<file, pipe, written, unblocked, done, registered, handler, signals, killed, sent, overlap, owed, outcome>>

\* Variant: a setup is taken without looking at print_flag.
TakeOpCode_First ==
  /\ MainRuns
  /\ at = "test"
  /\ IF IsSetup
     THEN at' = "request_pipe_path" /\ UNCHANGED <<buf, torn>>
     ELSE ~print_flag /\ Again
  /\ UNCHANGED <<file, pipe, written, unblocked, done, signal, sent, overlap, owed, outcome>>

\* Variant: whatever byte was read, two paths are expected to follow.
TakeOpCode_Any ==
  /\ MainRuns
  /\ at = "test"
  /\ ~print_flag
  /\ at' = "request_pipe_path"
  /\ UNCHANGED <<file, pipe, written, unblocked, done, buf, signal, history>>

\* A setup is read on, any other byte skipped.
TakeOpCode ==
  /\ MainRuns
  /\ at = "test"
  /\ ~print_flag
  /\ IF IsSetup
     THEN at' = "request_pipe_path" /\ UNCHANGED <<buf, torn>>
     ELSE Again
  /\ UNCHANGED <<file, pipe, written, unblocked, done, signal, sent, overlap, owed, outcome>>

\* The request is handed to a thread that inserts it, and that thread joined.
InsertRequest ==
  /\ MainRuns
  /\ at = "insert"
  /\ Settle(IF torn THEN "torn" ELSE "inserted",
            <<buf["request_pipe_path"], buf["response_pipe_path"]>>)
  /\ Again
  /\ UNCHANGED <<file, pipe, written, unblocked, done, signal, sent, overlap, owed>>

-----------------------------------------------------------------------------
(* SIGUSR1 *)

\* SIGUSR1 reaches the main thread, waiting in read or elsewhere, or a worker
\* that has not blocked it yet.  Delivery resets the disposition to the default,
\* which ends the process.
Sigusr1(on) ==
  /\ ~killed
  /\ at # "failed"
  /\ signals < MaxSignals
  /\ on = "read" => at \in DOMAIN Size /\ pipe = <<>>
  /\ on = "worker" => unblocked
  /\ signals' = signals + 1
  /\ registered' = FALSE
  /\ IF registered
     THEN handler' = [at |-> "flag", on |-> on] /\ UNCHANGED killed
     ELSE killed' = TRUE /\ UNCHANGED handler
  /\ UNCHANGED <<file, pipe, written, at, unblocked, done, buf, print_flag, history>>

RaiseFlag ==
  /\ ~killed
  /\ handler.at = "flag"
  /\ print_flag' = TRUE
  /\ handler' = [handler EXCEPT !.at = "register"]
  /\ owed' = (owed \/ at # "print")
  /\ UNCHANGED <<file, pipe, written, at, unblocked, done, buf, registered, signals, killed, sent, overlap, torn, outcome>>

\* A read that the handler interrupted fails with EINTR: my_read returns -2 and
\* forgets what it had stored, and its callers, which test for -1, go on.
Return ==
  /\ handler' = NoHandler
  /\ IF handler.on = "read"
     THEN at' = After[at] /\ done' = 0 /\ torn' = (at # "op_code")
     ELSE UNCHANGED <<at, done, torn>>

\* Variant: the handler relies on staying registered.
Reregister_Forgotten ==
  /\ ~killed
  /\ handler.at = "register"
  /\ Return
  /\ UNCHANGED <<file, pipe, written, unblocked, buf, print_flag, registered, signals, killed, sent, overlap, owed, outcome>>

\* The handler registers itself again and returns.
Reregister ==
  /\ ~killed
  /\ handler.at = "register"
  /\ registered' = TRUE
  /\ Return
  /\ UNCHANGED <<file, pipe, written, unblocked, buf, print_flag, signals, killed, sent, overlap, owed, outcome>>

-----------------------------------------------------------------------------

MainThread == Start \/ Read \/ StartPrint \/ EndPrint \/ TakeOpCode \/ InsertRequest

Handler == RaiseFlag \/ Reregister

Next ==
  \/ \E c \in Clients : Write(c)
  \/ MainThread
  \/ WorkersBlock
  \/ \E on \in {"main", "read", "worker"} : Sigusr1(on)
  \/ Handler

Spec == Init /\ [][Next]_vars

\* The main thread and the handler are scheduled.  Nobody has to write, and
\* the insertion may wait for a free slot.
FairSpec == Spec /\ WF_vars(MainThread /\ at # "insert") /\ WF_vars(Handler)

-----------------------------------------------------------------------------
(* Properties *)

\* The type of every variable: a variable that my_read fills never grows, and
\* an unfinished read has stored less than it holds.
TypeOK ==
  /\ pipe \in Seq(Byte)
  /\ written \in [Clients -> 0..3]
  /\ file \in BOOLEAN
  /\ unblocked \in BOOLEAN
  /\ at \in DOMAIN Size \cup {"test", "print", "insert"} \cup Starting
  /\ done \in Nat
  /\ done < (IF at \in DOMAIN Size THEN Size[at] ELSE 1)
  /\ \A v \in DOMAIN Size :
       DOMAIN buf[v] = 1..Size[v] /\ \A i \in 1..Size[v] : buf[v][i] \in Byte \cup {NoByte}
  /\ print_flag \in BOOLEAN
  /\ registered \in BOOLEAN
  /\ handler \in [at : {"flag", "register"}, on : {"main", "read", "worker"}] \cup {NoHandler}
  /\ signals \in 0..MaxSignals
  /\ killed \in BOOLEAN
  /\ sent \in Seq(Clients)
  /\ overlap \in BOOLEAN
  /\ torn \in BOOLEAN
  /\ owed \in BOOLEAN
  /\ DOMAIN outcome = 1..Len(outcome)

\* As long as setups do not overlap in the pipe, each is settled in its turn:
\* it is inserted with its own two paths, dropped by a print, or spoilt by a
\* read that was interrupted, and none of this touches the setups behind it.
\* Those that are not settled are still in the pipe or being read
\* (main.c:496-549).
EachSettledInTurn ==
  ~overlap =>
    /\ Len(outcome) <= Len(sent)
    /\ \A i \in DOMAIN outcome :
         /\ outcome[i].op = OpCode(sent[i])
         /\ outcome[i].what = "inserted" => outcome[i].paths = Paths(sent[i])
    /\ \A i \in (Len(outcome) + 1)..Len(sent) :
         \/ \E k \in DOMAIN pipe : pipe[k] = OpCode(sent[i])
         \/ i = Len(outcome) + 1 /\ buf["op_code"] = <<OpCode(sent[i])>>

OpCodeWaits == \E k \in DOMAIN pipe : pipe[k].of = "op_code"

\* A signal handled while no print is under way leads to a print that begins
\* after it, once an op_code is in the pipe, as long as setups do not overlap and
\* insertions come to an end; only one handled during a print may be lost with
\* the flag that is cleared behind it (main.c:508-513).
SignalPrinted ==
  []<>(at # "insert") =>
    (owed /\ OpCodeWaits ~> at = "print" \/ overlap \/ killed)

\* A signal ends the server only if it comes before the handler of the one
\* before has returned, signal() being one-shot in this build, or before main
\* has registered the handler, and then no client has begun a setup
\* (main.c:67-75, 595).
SpacedSignalsSurvive ==
  [][killed' # killed => handler # NoHandler \/ (at \in {"mkfifo", "signal"} /\ sent = <<>>)]_vars

\* A setup that was written whole is settled in the end, whatever signals
\* interrupt its reading or that of the setups before it, as long as setups do not
\* overlap and insertions come to an end (main.c:496-549).
SetupsSettled ==
  []<>(at # "insert") =>
    \A c \in Clients :
      written[c] = 3 ~> (\E i \in DOMAIN outcome : outcome[i].op = OpCode(c)) \/ overlap \/ killed

\* Every request handed to the queue names the two pipes of one client.
PathsWhole ==
  \A i \in DOMAIN outcome :
    outcome[i].what # "dropped" => \E c \in Clients : outcome[i].paths = Paths(c)

\* The README (line 3) says "Multiple clients can access the server at the
\* same time": a client whose setup is written while another's is gets its own
\* session all the same.
ClientsTogether == signals = 0 => PathsWhole

\* The README (line 4) says of my_read and my_write that they "are designed to
\* resume their actions if they're interrupted by signals": a setup whose
\* reading a signal interrupts still names the two pipes of its client.
ReadsResume == ~overlap => PathsWhole
=============================================================================
