------------------------------- MODULE Session -------------------------------
(***************************************************************************)
(* One session: a client (src/client/api.c) and the worker that serves it   *)
(* (handle_client in src/server/main.c) over the client's two named pipes.  *)
(* The client makes its pipes and sends its setup message, which a worker   *)
(* retrieves at once (modules ServerPipe and RequestQueue follow its way).  *)
(* The module follows each field of a request and each number of a reply    *)
(* through the pipes.                                                       *)
(*                                                                         *)
(* A write is one token; pipes hold Capacity tokens.  The client opens the  *)
(* response pipe anew for every reply; both ends of the request pipe, and   *)
(* the server's end of the response pipe, stay open once opened.  A write   *)
(* to a pipe with no reader raises SIGPIPE, which nobody handles.           *)
(*                                                                         *)
(* Every call opens both pipes, and one that is refused returns before it    *)
(* closes them: its two descriptors are lost for good.  When none is left    *)
(* the opens fail and the call returns, with nothing sent or with its reply  *)
(* never read.                                                              *)
(***************************************************************************)
EXTENDS Integers, Sequences

CONSTANTS
  Capacity,    \* bound: how many tokens a pipe holds
  MaxRequests, \* bound: how many requests the client sends
  Descriptors  \* how many descriptors the client can still open when it has its files open

ASSUME SessionAssumption ==
  /\ Capacity \in Nat \ {0, 1}  \* a pipe has room for the two tokens of ems_quit
  /\ MaxRequests \in Nat
  /\ Descriptors \in Nat

VARIABLES
  cpc,         \* where the client is
  spc,         \* where the worker is
  files,       \* which of the client's two paths have a pipe
  requestPipe,
  responsePipe,
  number,      \* how many requests the client has begun
  asked,       \* the operation of its last request
  toSend,      \* the tokens of its request still to be written
  got,         \* what it has read of the reply
  left,        \* how many descriptors it can still open
  kept,        \* how many refused calls have left both their descriptors open
  lost,        \* a call has found no descriptor, for its request or its reply
  quit,        \* the client has called ems_quit
  serverEnds,  \* the pipe ends the worker holds open
  cur,         \* the op_code token the worker has read
  toRead,      \* the fields of the request it still has to read
  local,       \* what its local variables were last read from
  answer,      \* the tokens of its reply still to be written
  killed       \* the server process has died of SIGPIPE

clientVars == <<number, asked, toSend, got, left, kept, lost, quit>>
serverVars == <<serverEnds, cur, toRead, local, answer>>
vars == <<cpc, spc, files, requestPipe, responsePipe, clientVars, serverVars, killed>>

Ops == {"create", "reserve", "show", "list"}

\* The files of the loop, which main closes before it calls ems_quit.
InOut == 2

-----------------------------------------------------------------------------
(* The protocol *)

\* What each function of api.c writes, in the order it writes it.
Message(op) ==
  CASE op = "create"  -> <<"op_code", "session_id", "event_id", "num_rows", "num_cols">>
    [] op = "reserve" -> <<"op_code", "session_id", "event_id", "num_seats", "xs", "ys">>
    [] op = "show"    -> <<"op_code", "session_id", "event_id">>
    [] op = "list"    -> <<"op_code", "session_id">>
    [] op = "quit"    -> <<"op_code", "session_id">>

Tokens(op, k) ==
  [i \in DOMAIN Message(op) |-> [op |-> op, number |-> k, field |-> Message(op)[i]]]

Fields == {"session_id", "event_id", "num_rows", "num_cols", "num_seats", "xs", "ys"}

\* Variant: the case of ems_create reads the columns before the rows.
Arguments_Swapped(op) ==
  CASE op = "create"  -> <<"session_id", "event_id", "num_cols", "num_rows">>
    [] op = "reserve" -> <<"session_id", "event_id", "num_seats", "xs", "ys">>
    [] op = "show"    -> <<"session_id", "event_id">>
    [] op = "list"    -> <<"session_id">>

\* What each case of handle_client reads after the op_code.
Arguments(op) ==
  CASE op = "create"  -> <<"session_id", "event_id", "num_rows", "num_cols">>
    [] op = "reserve" -> <<"session_id", "event_id", "num_seats", "xs", "ys">>
    [] op = "show"    -> <<"session_id", "event_id">>
    [] op = "list"    -> <<"session_id">>

\* The replies of the operations: a result, then for a shown event its size
\* and seats, and for a list its length and ids.
Replies(op) ==
  CASE op \in {"create", "reserve"} -> {<<0>>, <<1>>}
    [] op = "show" -> {<<1>>, <<0, 1, 1, 0>>, <<0, 1, 2, 0, 0>>, <<0, 0, 2>>}
    [] op = "list" -> {<<2>>, <<0, 1, 7>>, <<0, 2, 7, 8>>}

\* Variant: the loops that read seats and ids stop one short.
ReplyComplete_OneShort(op, n) ==
  /\ Len(n) >= 1
  /\ \/ op \in {"create", "reserve"}
     \/ n[1] # 0
     \/ op = "show" /\ Len(n) >= 3 /\ Len(n) + 1 >= 3 + n[2] * n[3]
     \/ op = "list" /\ Len(n) >= 2 /\ Len(n) + 1 >= 2 + n[2]

\* Whether the client that has read these numbers expects no more of them.
ReplyComplete(op, n) ==
  /\ Len(n) >= 1
  /\ \/ op \in {"create", "reserve"}
     \/ n[1] # 0
     \/ op = "show" /\ Len(n) >= 3 /\ Len(n) = 3 + n[2] * n[3]
     \/ op = "list" /\ Len(n) >= 2 /\ Len(n) = 2 + n[2]

Numbers(tokens) == [i \in DOMAIN tokens |-> tokens[i].value]

NoToken == [op |-> "none", number |-> 0, field |-> "none"]

-----------------------------------------------------------------------------
(* The pipes *)

Both == {"request", "response"}

ClientAlive == cpc \notin {"done", "failed", "crashed", "sigpipe"}

\* The client holds the request pipe open from ems_setup to its end, and the
\* response pipe only while it reads a reply, unless an error return kept it.
RequestWriter == ClientAlive

ResponseReader ==
  /\ ClientAlive
  /\ kept > 0 \/ cpc \in {"read_id", "read_reply"}

-----------------------------------------------------------------------------

\* An earlier client with the same paths may have left pipes behind.
Init ==
  /\ cpc = "make_response"
  /\ spc = "absent"
  /\ files \in SUBSET Both
  /\ requestPipe = <<>>
  /\ responsePipe = <<>>
  /\ number = 0
  /\ asked = "none"
  /\ toSend = <<>>
  /\ got = <<>>
  /\ left = Descriptors
  /\ kept = 0
  /\ lost = FALSE
  /\ quit = FALSE
  /\ serverEnds = {}
  /\ cur = NoToken
  /\ toRead = <<>>
  /\ local = [f \in Fields |-> NoToken]
  /\ answer = <<>>
  /\ killed = FALSE

-----------------------------------------------------------------------------
(* Making the pipes: the first half of ems_setup *)

\* mkfifo fails on a path that has a pipe, and ems_setup with it.
MakePipe(file, label) ==
  /\ ~killed
  /\ files' = files \cup {file}
  /\ cpc' = IF file \in files THEN "failed" ELSE label
  /\ UNCHANGED <<spc, requestPipe, responsePipe, clientVars, serverVars, killed>>

MakeResponse == cpc = "make_response" /\ MakePipe("response", "make_request")

MakeRequest == cpc = "make_request" /\ MakePipe("request", "setup")

\* The setup message gets the client a worker; without a server pipe there is
\* nobody to write to.
Setup ==
  /\ ~killed
  /\ cpc = "setup"
  /\ \/ cpc' = "open_request" /\ spc' = "open_request"
     \/ cpc' = "failed" /\ UNCHANGED spc
  /\ UNCHANGED <<files, requestPipe, responsePipe, clientVars, serverVars, killed>>

-----------------------------------------------------------------------------
(* Opening the pipes: each open waits for the other end *)

RequestPipeOpen ==
  /\ cpc' = "open_response"
  /\ spc' = "open_response"
  /\ serverEnds' = serverEnds \cup {"request"}

ClientOpensRequest ==
  /\ ~killed
  /\ cpc = "open_request"
  /\ IF spc = "wait_request"
     THEN RequestPipeOpen
     ELSE cpc' = "wait_request" /\ UNCHANGED <<spc, serverEnds>>
  /\ UNCHANGED <<files, requestPipe, responsePipe, clientVars, cur, toRead, local, answer, killed>>

ServerOpensRequest ==
  /\ ~killed
  /\ spc = "open_request"
  /\ IF cpc = "wait_request"
     THEN RequestPipeOpen
     ELSE spc' = "wait_request" /\ UNCHANGED <<cpc, serverEnds>>
  /\ UNCHANGED <<files, requestPipe, responsePipe, clientVars, cur, toRead, local, answer, killed>>

ResponsePipeOpen ==
  /\ cpc' = "read_id"
  /\ spc' = "send_id"
  /\ serverEnds' = serverEnds \cup {"response"}

ClientOpensResponse ==
  /\ ~killed
  /\ cpc = "open_response"
  /\ IF spc = "wait_response"
     THEN ResponsePipeOpen
     ELSE cpc' = "wait_response" /\ UNCHANGED <<spc, serverEnds>>
  /\ UNCHANGED <<files, requestPipe, responsePipe, clientVars, cur, toRead, local, answer, killed>>

ServerOpensResponse ==
  /\ ~killed
  /\ spc = "open_response"
  /\ IF cpc = "wait_response"
     THEN ResponsePipeOpen
     ELSE spc' = "wait_response" /\ UNCHANGED <<cpc, serverEnds>>
  /\ UNCHANGED <<files, requestPipe, responsePipe, clientVars, cur, toRead, local, answer, killed>>

-----------------------------------------------------------------------------
(* The client: api.c *)

\* The session id is read and the response pipe closed.
ReadSessionId ==
  /\ ~killed
  /\ cpc = "read_id"
  /\ responsePipe # <<>>
  /\ responsePipe' = Tail(responsePipe)
  /\ cpc' = "ready"
  /\ UNCHANGED <<spc, files, requestPipe, clientVars, serverVars, killed>>

\* An operation opens the request pipe again.
Begin(op) ==
  /\ ~killed
  /\ cpc = "ready"
  /\ "request" \in serverEnds
  /\ number < MaxRequests
  /\ left > 0
  /\ left' = left - 1
  /\ number' = number + 1
  /\ asked' = op
  /\ toSend' = Tokens(op, number + 1)
  /\ got' = <<>>
  /\ cpc' = "send"
  /\ UNCHANGED <<spc, files, requestPipe, responsePipe, kept, lost, quit, serverVars, killed>>

\* No descriptor for the request pipe: the operation returns at once.
BeginFails ==
  /\ ~killed
  /\ cpc = "ready"
  /\ left = 0
  /\ lost' = TRUE
  /\ UNCHANGED <<cpc, spc, files, requestPipe, responsePipe, number, asked, toSend, got, left, kept, quit,
                 serverVars, killed>>

\* main has closed its two files when it calls ems_quit, which opens the
\* request pipe in their place, and returns with the pipes still there if it
\* cannot.
BeginQuit ==
  /\ ~killed
  /\ cpc = "ready"
  /\ "request" \in serverEnds
  /\ quit' = TRUE
  /\ IF left + InOut > 0
     THEN cpc' = "send" /\ left' = left + InOut - 1 /\ toSend' = Tokens("quit", number + 1)
     ELSE cpc' = "failed" /\ UNCHANGED <<left, toSend>>
  /\ UNCHANGED <<spc, files, requestPipe, responsePipe, number, asked, got, kept, lost, serverVars, killed>>

\* Variant: the function for CREATE returns when its request is written.
SendField_NoReply ==
  /\ ~killed
  /\ cpc = "send"
  /\ IF "request" \notin serverEnds
     THEN cpc' = "sigpipe" /\ UNCHANGED <<requestPipe, toSend>>
     ELSE /\ Len(requestPipe) < Capacity
          /\ requestPipe' = Append(requestPipe, Head(toSend))
          /\ toSend' = Tail(toSend)
          /\ cpc' = IF Len(toSend) > 1 THEN "send"
                    ELSE IF asked = "create" /\ ~quit THEN "ready" ELSE "open_reply"
  /\ UNCHANGED <<spc, files, responsePipe, number, asked, got, left, kept, lost, quit, serverVars, killed>>

\* One field of the request; after the last one the reply is awaited.
SendField ==
  /\ ~killed
  /\ cpc = "send"
  /\ IF "request" \notin serverEnds
     THEN cpc' = "sigpipe" /\ UNCHANGED <<requestPipe, toSend>>
     ELSE /\ Len(requestPipe) < Capacity
          /\ requestPipe' = Append(requestPipe, Head(toSend))
          /\ toSend' = Tail(toSend)
          /\ cpc' = IF Len(toSend) = 1 THEN "open_reply" ELSE "send"
  /\ UNCHANGED <<spc, files, responsePipe, number, asked, got, left, kept, lost, quit, serverVars, killed>>

\* The response pipe is opened again, for as long as the reply takes.
OpenReply ==
  /\ ~killed
  /\ cpc = "open_reply"
  /\ ~quit
  /\ "response" \in serverEnds
  /\ left > 0
  /\ left' = left - 1
  /\ cpc' = "read_reply"
  /\ UNCHANGED <<spc, files, requestPipe, responsePipe, number, asked, toSend, got, kept, lost, quit,
                 serverVars, killed>>

\* No descriptor for the response pipe: the operation returns, with its request
\* sent, its end of the request pipe open and its reply still to come.
OpenReplyFails ==
  /\ ~killed
  /\ cpc = "open_reply"
  /\ ~quit
  /\ left = 0
  /\ lost' = TRUE
  /\ cpc' = "ready"
  /\ UNCHANGED <<spc, files, requestPipe, responsePipe, number, asked, toSend, got, left, kept, quit,
                 serverVars, killed>>

\* Variant: of an operation that succeeds only the response pipe is closed.
Close_ResponseOnly ==
  IF got'[1].value = 0
  THEN left' = left + 1 /\ UNCHANGED kept
  ELSE kept' = kept + 1 /\ UNCHANGED left

\* At the end of the reply both pipes are closed, unless the result is not 0:
\* the operation then returns before the closes.
Close ==
  IF got'[1].value = 0
  THEN left' = left + 2 /\ UNCHANGED kept
  ELSE kept' = kept + 1 /\ UNCHANGED left

\* One number of the reply.
ReadReply ==
  /\ ~killed
  /\ cpc = "read_reply"
  /\ responsePipe # <<>>
  /\ responsePipe' = Tail(responsePipe)
  /\ got' = Append(got, Head(responsePipe))
  /\ IF ReplyComplete(asked, Numbers(got'))
     THEN cpc' = "ready" /\ Close
     ELSE UNCHANGED <<cpc, left, kept>>
  /\ UNCHANGED <<spc, files, requestPipe, number, asked, toSend, lost, quit, serverVars, killed>>

\* ems_quit opens the response pipe and closes it, then removes both pipes.
FinishQuit ==
  /\ ~killed
  /\ cpc = "open_reply"
  /\ quit
  /\ "response" \in serverEnds
  /\ cpc' = "unlink_request"
  /\ UNCHANGED <<spc, files, requestPipe, responsePipe, clientVars, serverVars, killed>>

\* Variant: only the request pipe is removed.
Unlink_RequestOnly ==
  /\ ~killed
  /\ cpc = "unlink_request"
  /\ files' = files \ {"request"}
  /\ cpc' = "done"
  /\ UNCHANGED <<spc, requestPipe, responsePipe, clientVars, serverVars, killed>>

Unlink ==
  /\ ~killed
  /\ \/ cpc = "unlink_request" /\ files' = files \ {"request"} /\ cpc' = "unlink_response"
     \/ cpc = "unlink_response" /\ files' = files \ {"response"} /\ cpc' = "done"
  /\ UNCHANGED <<spc, requestPipe, responsePipe, clientVars, serverVars, killed>>

\* The client is interrupted, or leaves without ems_quit.
Crash ==
  /\ ~killed
  /\ ClientAlive
  /\ cpc' = "crashed"
  /\ UNCHANGED <<spc, files, requestPipe, responsePipe, clientVars, serverVars, killed>>

-----------------------------------------------------------------------------
(* The worker: handle_client *)

\* Writes one token to the response pipe and goes on to a label.
WriteResponse(token, label) ==
  IF ResponseReader
  THEN /\ Len(responsePipe) < Capacity
       /\ responsePipe' = Append(responsePipe, token)
       /\ spc' = label
       /\ UNCHANGED killed
  ELSE killed' = TRUE /\ UNCHANGED <<responsePipe, spc>>

SendSessionId ==
  /\ ~killed
  /\ spc = "send_id"
  /\ WriteResponse([number |-> 0, value |-> 0], "read_op")
  /\ UNCHANGED <<cpc, files, requestPipe, clientVars, serverVars>>

\* Every op_code but that of ems_quit starts a case of the switch.
ReadOpCode ==
  /\ ~killed
  /\ spc = "read_op"
  /\ requestPipe # <<>>
  /\ Head(requestPipe).field = "op_code"
  /\ Head(requestPipe).op # "quit"
  /\ cur' = Head(requestPipe)
  /\ toRead' = Arguments(cur'.op)
  /\ requestPipe' = Tail(requestPipe)
  /\ spc' = "read_args"
  /\ UNCHANGED <<cpc, files, responsePipe, clientVars, serverEnds, local, answer, killed>>

\* Variant: the pipes are closed when the loop ends, before the client is done.
ReadQuit_Close ==
  /\ ~killed
  /\ spc = "read_op"
  /\ requestPipe # <<>>
  /\ Head(requestPipe).field = "op_code"
  /\ Head(requestPipe).op = "quit"
  /\ requestPipe' = Tail(requestPipe)
  /\ serverEnds' = {}
  /\ spc' = "returned"
  /\ UNCHANGED <<cpc, files, responsePipe, clientVars, cur, toRead, local, answer, killed>>

\* The loop condition stops at the op_code of ems_quit, so the case that would
\* close the pipes and remove the session never runs.
ReadQuit ==
  /\ ~killed
  /\ spc = "read_op"
  /\ requestPipe # <<>>
  /\ Head(requestPipe).field = "op_code"
  /\ Head(requestPipe).op = "quit"
  /\ requestPipe' = Tail(requestPipe)
  /\ spc' = "returned"
  /\ UNCHANGED <<cpc, files, responsePipe, clientVars, serverVars, killed>>

\* Variant: only an error, not the end of the pipe, ends the loop.
ReadEnd_Ignored == ~killed /\ spc = "read_op" /\ requestPipe = <<>> /\ ~RequestWriter /\ UNCHANGED vars

\* The pipe is empty and the client is gone: my_read returns 0.
ReadEnd ==
  /\ ~killed
  /\ spc = "read_op"
  /\ requestPipe = <<>>
  /\ ~RequestWriter
  /\ spc' = "returned"
  /\ UNCHANGED <<cpc, files, requestPipe, responsePipe, clientVars, serverVars, killed>>

\* One argument.  At the end of the pipe my_read returns 0, not -1: the
\* variable keeps what it held and the case goes on.
ReadArgument ==
  /\ ~killed
  /\ spc = "read_args"
  /\ \/ /\ requestPipe # <<>>
        /\ local' = [local EXCEPT ![Head(toRead)] = Head(requestPipe)]
        /\ requestPipe' = Tail(requestPipe)
     \/ /\ requestPipe = <<>>
        /\ ~RequestWriter
        /\ UNCHANGED <<local, requestPipe>>
  /\ toRead' = Tail(toRead)
  /\ spc' = IF Len(toRead) = 1 THEN "execute" ELSE "read_args"
  /\ UNCHANGED <<cpc, files, responsePipe, clientVars, serverEnds, cur, answer, killed>>

\* The operation of operations.c, whose outcome the store decides.
Execute ==
  /\ ~killed
  /\ spc = "execute"
  /\ \E n \in Replies(cur.op) :
       answer' = [i \in DOMAIN n |-> [number |-> cur.number, value |-> n[i]]]
  /\ spc' = "reply"
  /\ UNCHANGED <<cpc, files, requestPipe, responsePipe, clientVars, serverEnds, cur, toRead, local, killed>>

WriteReply ==
  /\ ~killed
  /\ spc = "reply"
  /\ WriteResponse(Head(answer), IF Len(answer) = 1 THEN "read_op" ELSE "reply")
  /\ answer' = Tail(answer)
  /\ UNCHANGED <<cpc, files, requestPipe, clientVars, serverEnds, cur, toRead, local>>

-----------------------------------------------------------------------------

\* What the client does apart from choosing the next request.
Talk ==
  \/ MakeResponse \/ MakeRequest \/ Setup
  \/ ClientOpensRequest \/ ClientOpensResponse \/ ReadSessionId
  \/ SendField \/ OpenReply \/ OpenReplyFails \/ ReadReply \/ FinishQuit \/ Unlink

Client == Talk \/ (\E op \in Ops : Begin(op)) \/ BeginFails \/ BeginQuit

\* What the worker does apart from running the operation.
Listen ==
  \/ ServerOpensRequest \/ ServerOpensResponse \/ SendSessionId
  \/ ReadOpCode \/ ReadQuit \/ ReadEnd \/ ReadArgument \/ WriteReply

Server == Listen \/ Execute

Next == Client \/ Server \/ Crash

Spec == Init /\ [][Next]_vars

\* Both processes are scheduled; nobody has to interrupt the client.
FairSpec == Spec /\ WF_vars(Client) /\ WF_vars(Server)

-----------------------------------------------------------------------------
(* Properties *)

Token == [op : Ops \cup {"quit"}, number : Nat, field : Fields \cup {"op_code"}]

ReplyToken == [number : Nat, value : Nat]

\* The type of every variable; a local variable is only ever read from the
\* field it is named after.
TypeOK ==
  /\ cpc \in {"make_response", "make_request", "setup", "unlink_request", "unlink_response",
              "failed", "open_request", "wait_request", "open_response", "wait_response", "read_id",
              "ready", "send", "open_reply", "read_reply", "done", "crashed", "sigpipe"}
  /\ files \subseteq Both
  /\ spc \in {"absent", "open_request", "wait_request", "open_response", "wait_response", "send_id",
              "read_op", "read_args", "execute", "reply", "returned"}
  /\ requestPipe \in Seq(Token) /\ Len(requestPipe) <= Capacity
  /\ responsePipe \in Seq(ReplyToken) /\ Len(responsePipe) <= Capacity
  /\ number \in Nat
  /\ asked \in Ops \cup {"none"}
  /\ toSend \in Seq(Token)
  /\ got \in Seq(ReplyToken)
  /\ left \in Nat
  /\ kept \in Nat
  /\ lost \in BOOLEAN
  /\ quit \in BOOLEAN
  /\ serverEnds \subseteq {"request", "response"}
  /\ cur \in Token \cup {NoToken}
  /\ toRead \in Seq(Fields)
  /\ \A f \in Fields : local[f] = NoToken \/ (local[f] \in Token /\ local[f].field = f)
  /\ answer \in Seq(ReplyToken)
  /\ killed \in BOOLEAN

\* An operation runs on the arguments of its own request, each read into the
\* variable it was meant for, unless the client died in the middle of writing
\* that request: then the case runs on what the variables held before
\* (main.c:268-300, api.c:192-218).
Framing ==
  spc = "execute" =>
    \/ \A i \in DOMAIN Arguments(cur.op) :
         LET f == Arguments(cur.op)[i] IN
         local[f] = [op |-> cur.op, number |-> cur.number, field |-> f]
    \/ cpc = "crashed" /\ toSend # <<>> /\ ~quit

\* What a client reads answers the request it has just made, from the first
\* number to the last, and nothing is left in the pipe for the next request,
\* unless a call had no descriptor to read its reply with: then the client never
\* reads again (api.c:226-248, 371-422, 473-517).
RepliesMatch ==
  /\ \A i \in DOMAIN got : got[i].number = number
  /\ cpc = "ready" /\ ~lost =>
       /\ responsePipe = <<>>
       /\ number > 0 => Numbers(got) \in Replies(asked)

\* The pipes are on their paths whenever one side may open them by name.  A
\* client that ends with ems_quit leaves none of them behind, and one that
\* fails to start leaves something behind, on which the next client with its
\* paths fails again (api.c:59-73, 171-172).
PipesOnPaths ==
  /\ spc \in {"open_request", "open_response"} => files = Both
  /\ cpc \in {"open_request", "open_response", "ready", "send", "open_reply"} => files = Both
  /\ cpc = "done" => files = {}
  /\ cpc = "failed" => files # {}

\* Only refused calls cost descriptors, two each, so that no call fails before
\* they have used up all but one; and ems_quit, which comes after the closes of
\* the files, finds one whatever they have cost, so that no client that has got
\* its worker leaves its pipes behind (api.c:187-248, client/main.c:130-142).
OnlyRefusedLeak ==
  /\ cpc = "ready" /\ ~lost => left + 2 * kept = Descriptors
  /\ lost => Descriptors <= 2 * kept + 1
  /\ cpc = "failed" => spc = "absent"

\* The client can do nothing before the worker does something: an open, a read
\* or a write of its own does not return.
ClientWaits ==
  \/ cpc \in {"wait_request", "wait_response"}
  \/ cpc \in {"read_id", "read_reply"} /\ responsePipe = <<>>
  \/ cpc = "ready" /\ "request" \notin serverEnds
  \/ cpc = "send" /\ "request" \in serverEnds /\ Len(requestPipe) = Capacity
  \/ cpc = "open_reply" /\ "response" \notin serverEnds

\* The worker can do nothing before the client does: it is not there, or an
\* open, a read or a write does not return, or it has read a token that is no
\* op_code.
WorkerWaits ==
  \/ spc \in {"absent", "wait_request", "wait_response", "returned"}
  \/ spc \in {"read_op", "read_args"} /\ requestPipe = <<>> /\ RequestWriter
  \/ spc = "read_op" /\ requestPipe # <<>> /\ Head(requestPipe).field # "op_code"
  \/ spc \in {"send_id", "reply"} /\ ResponseReader /\ Len(responsePipe) = Capacity

\* The client and its worker never wait for each other: both agree on who opens,
\* writes and reads next, however little a pipe holds, and the worker that
\* leaves at ems_quit has read enough for the client to get out
\* (api.c:92-168, main.c:190-260).
NoMutualWait == ~killed => ~(ClientWaits /\ WorkerWaits)

\* A client that is not interrupted and gets its pipes gets through its requests
\* and ems_quit, or the server dies: neither side waits for an end of a pipe the
\* other will not open or a token it will not write, and a reply nobody reads
\* keeps no client from ending.
SessionEnds == <>(cpc \in {"done", "failed", "crashed"} \/ killed)

\* Once both pipes are open, the end of the client, orderly or not, frees the
\* worker for the next session, or kills the server (main.c:222, 410).
WorkerReturns ==
  serverEnds = {"request", "response"} /\ ~ClientAlive ~> spc = "returned" \/ killed

\* The README (line 4) says that my_read and my_write are "ensuring they don't
\* terminate abruptly": a client that is not interrupted never makes a write
\* of the server end the process.
ServerSurvives == cpc # "crashed" => ~killed
=============================================================================
