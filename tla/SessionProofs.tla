---------------------------- MODULE SessionProofs ----------------------------
(***************************************************************************)
(* Theorems about Session, for every capacity of the pipes and every number *)
(* of requests: the inductive invariant Inv and what follows from it.       *)
(*                                                                         *)
(* What is in a pipe and what its writer still has to write are one stream: *)
(* writing moves a token from the one to the other and leaves the stream as *)
(* it is, reading takes its head (Shift, Cut).  The stream of requests is   *)
(* what the worker still has to read of the current request, token by       *)
(* token, and behind it the two tokens of ems_quit if the client has called *)
(* it; the stream of replies, with what the client has read, is one whole   *)
(* reply, as long as the client reads its replies.                          *)
(***************************************************************************)
EXTENDS Session, SequenceTheorems, TLAPS

-----------------------------------------------------------------------------
(* The inductive invariant *)

\* The worker from its first open to the session id.
Opening == {"open_request", "wait_request", "open_response", "wait_response", "send_id"}

\* Which states of the worker go with the states of a client that is not gone.
PhasesMatch ==
  /\ cpc \in {"make_response", "make_request", "setup", "failed"} => spc = "absent"
  /\ cpc \in {"open_request", "wait_request"} => spc \in {"open_request", "wait_request"}
  /\ cpc \in {"open_response", "wait_response"} => spc \in {"open_response", "wait_response"}
  /\ cpc = "read_id" => spc \in {"send_id", "read_op"}
  /\ cpc = "ready" => spc \in {"read_op", "read_args", "execute", "reply"}
  /\ cpc = "ready" /\ ~lost => spc = "read_op"
  /\ cpc \in {"send", "open_reply", "read_reply", "unlink_request", "unlink_response", "done"} =>
       spc \notin Opening \cup {"absent"}
  /\ spc = "returned" => quit \/ ~ClientAlive
  /\ spc \notin {"absent", "open_request", "wait_request"} => "request" \in serverEnds
  /\ spc \in Opening \cup {"absent"} => ~lost /\ ~quit
  /\ cpc # "sigpipe"

\* Which states of the client go with ems_quit.
QuitMatch ==
  /\ quit => cpc \in {"send", "open_reply", "unlink_request", "unlink_response", "done", "crashed"}
  /\ quit => Len(toSend) <= 2
  /\ cpc \in {"unlink_request", "unlink_response", "done"} => quit

\* How many descriptors the call that is under way has taken.
InUse ==
  CASE cpc \in {"send", "open_reply"} -> 1
    [] cpc = "read_reply"             -> 2
    [] OTHER                          -> 0

\* Where the client's descriptors are, and what follows when there is none: all
\* it can do then is fail again, or call ems_quit.
DescriptorsMatch ==
  /\ ~lost /\ ~quit /\ cpc # "crashed" => left + 2 * kept + InUse = Descriptors
  /\ lost /\ ~quit => left = 0 /\ cpc \in {"ready", "crashed"}
  /\ lost => Descriptors <= 2 * kept + 1

\* What is on the client's paths, as long as it or the worker needs it.
FilesMatch ==
  /\ cpc = "make_request" => "response" \in files
  /\ cpc = "failed" => files # {}
  /\ cpc \in {"setup", "open_request", "wait_request", "open_response", "wait_response", "read_id",
              "ready", "send", "open_reply", "read_reply", "unlink_request"} => files = Both
  /\ cpc = "unlink_response" => files \subseteq {"response"}
  /\ cpc = "done" => files = {}
  /\ spc \in Opening => files = Both

\* The request from where the worker will read on to where the client will
\* have written it.
RequestStream == requestPipe \o toSend

\* The tokens of these fields of the client's last request.
FieldTokens(fields) ==
  [i \in DOMAIN fields |-> [op |-> asked, number |-> number, field |-> fields[i]]]

OpToken == [op |-> asked, number |-> number, field |-> "op_code"]

Read(f) == local[f] = [op |-> asked, number |-> number, field |-> f]

\* What ems_quit adds to it.
Farewell == IF quit THEN Tokens("quit", number + 1) ELSE <<>>

\* The client died before it had written what the worker expects.
Torn == cpc = "crashed" /\ toSend # <<>> /\ requestPipe = <<>> /\ ~quit

\* The worker is inside the client's last request: every argument has been
\* read into its variable or is still to be read, and what is to be read is
\* what comes.
InRequest ==
  /\ asked \in Ops
  /\ cur = OpToken
  /\ \/ /\ RequestStream = FieldTokens(toRead) \o Farewell
        /\ \A i \in DOMAIN Arguments(asked) :
             \/ Read(Arguments(asked)[i])
             \/ \E j \in DOMAIN toRead : toRead[j] = Arguments(asked)[i]
     \/ Torn

\* What the worker is about to read, or has read.
WorkerRequests ==
  /\ local \in [Fields -> Token \cup {NoToken}]
  /\ spc \in Opening \cup {"absent"} => RequestStream = <<>>
  /\ spc = "read_op" =>
       \/ RequestStream = Farewell
       \/ asked \in Ops /\ RequestStream = Tokens(asked, number) \o Farewell
  /\ spc = "read_args" => InRequest /\ toRead # <<>>
  /\ spc = "execute" => InRequest /\ toRead = <<>>
  /\ spc = "reply" =>
       asked \in Ops /\ (RequestStream = Farewell \/ cpc = "crashed") /\ (killed \/ answer # <<>>)

\* What the client has still to write.
ClientRequests ==
  /\ cpc = "send" => toSend # <<>> /\ (quit \/ (asked \in Ops /\ spc \notin {"execute", "reply"}))
  /\ cpc \in {"ready", "open_reply", "read_reply"} => toSend = <<>>
  /\ cpc \in {"open_reply", "read_reply"} => quit \/ asked \in Ops
  /\ cpc = "read_id" \/ (cpc = "ready" /\ ~lost) => RequestStream = <<>>

RequestsMatch == WorkerRequests /\ ClientRequests

\* The reply with these numbers to the client's last request.
ReplyTokens(n) == [i \in DOMAIN n |-> [number |-> number, value |-> n[i]]]

WholeReply == \E n \in Replies(asked) : got \o (responsePipe \o answer) = ReplyTokens(n)

Unanswered == got = <<>> /\ responsePipe = <<>>

\* The client is there and reads its replies.
Attends == cpc # "crashed" /\ ~killed /\ ~lost /\ ~quit

\* The reply is whole when the worker has begun to write it, and the client
\* has read no number of it before.
RepliesFlow ==
  /\ spc = "reply" => WholeReply
  /\ spc # "reply" => answer = <<>>
  /\ spc \in {"read_args", "execute"} => Unanswered
  /\ spc = "read_op" /\ RequestStream # <<>> => Unanswered
  /\ cpc = "send" => Unanswered
  /\ cpc = "open_reply" => got = <<>>
  /\ cpc \in {"open_reply", "read_reply"} /\ spc = "read_op" /\ RequestStream = <<>> => WholeReply
  /\ cpc = "read_id" => IF spc = "send_id" THEN responsePipe = <<>> ELSE Len(responsePipe) = 1
  /\ spc \in Opening \cup {"absent"} => responsePipe = <<>>
  /\ cpc = "read_id" \/ spc \in Opening \cup {"absent"} => number = 0 /\ got = <<>>

RepliesInv ==
  /\ \A i \in DOMAIN got : got[i].number = number
  /\ Attends => RepliesFlow
  /\ killed => spc \in {"send_id", "reply"}

Inv ==
  /\ TypeOK
  /\ PhasesMatch
  /\ QuitMatch
  /\ DescriptorsMatch
  /\ FilesMatch
  /\ RequestsMatch
  /\ RepliesInv
  /\ RepliesMatch

-----------------------------------------------------------------------------
(* Sequences and streams *)

\* Moving the head of one sequence to the end of another leaves what they make
\* together as it is.
LEMMA Shift ==
  ASSUME NEW S, NEW p \in Seq(S), NEW a \in Seq(S), a # <<>>
  PROVE  /\ Append(p, Head(a)) \o Tail(a) = p \o a
         /\ Append(p, Head(a)) \in Seq(S)
         /\ Tail(a) \in Seq(S)
         /\ Len(Tail(a)) = Len(a) - 1
  BY SMT

\* The same between the first two of three.
LEMMA ShiftOfThree ==
  ASSUME NEW S, NEW g \in Seq(S), NEW p \in Seq(S), NEW a \in Seq(S), p # <<>>
  PROVE  g \o (p \o a) = Append(g, Head(p)) \o (Tail(p) \o a)
<1> DEFINE h == <<Head(p)>>
           q == Tail(p)
<1>1. Head(p) \in S /\ q \in Seq(S) /\ h \in Seq(S)
  BY HeadTailProperties
<1>2. p = h \o q
  BY SMT
<1>3. Append(g, Head(p)) = g \o h
  BY <1>1, AppendIsConcat
<1> HIDE DEF h, q
<1> DEFINE w == q \o a
<1>4. w \in Seq(S)
  BY <1>1, ConcatProperties
<1> HIDE DEF w
<1>5. (g \o h) \o w = g \o (h \o w)
  BY SMTT(30), <1>1, <1>4, ConcatAssociative
<1>6. (h \o q) \o a = h \o (q \o a)
  BY SMTT(30), <1>1, ConcatAssociative
<1> QED
  BY <1>2, <1>3, <1>5, <1>6 DEF h, q, w

\* Taking the head of a sequence takes the head of what it makes with another.
LEMMA Cut ==
  ASSUME NEW S, NEW p \in Seq(S), NEW a \in Seq(S), p # <<>>
  PROVE  /\ p \o a # <<>>
         /\ Head(p \o a) = Head(p)
         /\ Tail(p \o a) = Tail(p) \o a
         /\ Tail(p) \in Seq(S)
         /\ Head(p) \in S
  BY SMT

\* What the tail of a sequence is.
LEMMA TailIs ==
  ASSUME NEW S, NEW s \in Seq(S), NEW r \in Seq(S), s # <<>>,
         Len(r) = Len(s) - 1, \A i \in 1..Len(r) : r[i] = s[i + 1]
  PROVE  Tail(s) = r
<1>1. /\ Tail(s) \in Seq(S)
      /\ Len(Tail(s)) = Len(s) - 1
      /\ \A i \in 1..Len(Tail(s)) : Tail(s)[i] = s[i + 1]
  BY HeadTailProperties
<1> QED
  BY <1>1, SeqEqual

\* A sequence has one element if its tail is empty.
LEMMA LastOne ==
  ASSUME NEW S, NEW s \in Seq(S), s # <<>>
  PROVE  Tail(s) = <<>> <=> Len(s) = 1
<1>1. Tail(s) \in Seq(S) /\ Len(Tail(s)) = Len(s) - 1
  BY HeadTailProperties
<1>2. Len(s) \in Nat
  BY LenProperties
<1>3. Tail(s) = <<>> <=> Len(Tail(s)) = 0
  BY <1>1, EmptySeq
<1> QED
  BY <1>1, <1>2, <1>3

\* A message is its op_code followed by what the server reads of it.
LEMMA MessageParts ==
  ASSUME NEW op \in Ops
  PROVE  /\ Arguments(op) \in Seq(Fields)
         /\ Arguments(op) # <<>>
         /\ Message(op) = <<"op_code">> \o Arguments(op)
<1>1. CASE op = "create"
  BY <1>1 DEF Arguments, Message, Fields
<1>2. CASE op = "reserve"
  BY <1>2 DEF Arguments, Message, Fields
<1>3. CASE op = "show"
  BY <1>3 DEF Arguments, Message, Fields
<1>4. CASE op = "list"
  BY <1>4 DEF Arguments, Message, Fields
<1> QED
  BY <1>1, <1>2, <1>3, <1>4 DEF Ops

\* What the tokens of a message are.
LEMMA MessageTokens ==
  ASSUME NEW op \in Ops \cup {"quit"}, NEW k \in Nat
  PROVE  /\ Tokens(op, k) \in Seq(Token)
         /\ Tokens(op, k) # <<>>
         /\ Head(Tokens(op, k)) = [op |-> op, number |-> k, field |-> "op_code"]
<1> DEFINE m == Message(op)
<1>1. m \in Seq(Fields \cup {"op_code"}) /\ m # <<>> /\ m[1] = "op_code"
  <2>1. CASE op \in Ops
    BY <2>1, MessageParts
  <2>2. CASE op = "quit"
    BY <2>2 DEF Message, Fields
  <2> QED
    BY <2>1, <2>2
<1> HIDE DEF m
<1>2. Tokens(op, k) = [i \in DOMAIN m |-> [op |-> op, number |-> k, field |-> m[i]]]
  BY DEF Tokens, m
<1>3. \A i \in 1..Len(m) : [op |-> op, number |-> k, field |-> m[i]] \in Token
  BY <1>1 DEF Token
<1>4. [i \in 1..Len(m) |-> [op |-> op, number |-> k, field |-> m[i]]] \in Seq(Token)
  BY <1>1, <1>3
<1> QED
  BY <1>1, <1>2, <1>4

\* Without its op_code, a message is the tokens of its arguments.
LEMMA ArgumentTokens ==
  ASSUME NEW op \in Ops, NEW k \in Nat
  PROVE  Tail(Tokens(op, k)) = [i \in DOMAIN Arguments(op) |-> [op |-> op, number |-> k, field |-> Arguments(op)[i]]]
<1> DEFINE m == Message(op)
           a == Arguments(op)
<1>1. a \in Seq(Fields) /\ m = <<"op_code">> \o a
  BY MessageParts
<1> HIDE DEF m, a
<1>2. m \in Seq(Fields \cup {"op_code"}) /\ Len(m) = Len(a) + 1 /\ \A i \in 1..Len(a) : m[i + 1] = a[i]
  BY <1>1
<1>3. Tokens(op, k) = [i \in 1..Len(m) |-> [op |-> op, number |-> k, field |-> m[i]]]
  BY <1>2 DEF Tokens, m
<1>4. Tokens(op, k) \in Seq(Token) /\ Tokens(op, k) # <<>> /\ Len(Tokens(op, k)) = Len(m)
  BY <1>2, <1>3, MessageTokens
<1> DEFINE r == [i \in 1..Len(a) |-> [op |-> op, number |-> k, field |-> a[i]]]
<1>5. \A i \in 1..Len(a) : [op |-> op, number |-> k, field |-> a[i]] \in Token
  BY <1>1 DEF Token
<1>6. r \in Seq(Token) /\ Len(r) = Len(a)
  BY <1>1, <1>5
<1>7. \A i \in 1..Len(a) : r[i] = Tokens(op, k)[i + 1]
  BY <1>1, <1>2, <1>3
<1> HIDE DEF r
<1>8. Tail(Tokens(op, k)) = r
  BY <1>2, <1>4, <1>6, <1>7, TailIs
<1> QED
  BY <1>1, <1>8 DEF r, a

\* Reading the first of the fields leaves the tokens of the others.
LEMMA FieldTokensParts ==
  ASSUME NEW fields \in Seq(Fields), fields # <<>>, asked \in Ops, number \in Nat
  PROVE  /\ FieldTokens(fields) # <<>>
         /\ FieldTokens(fields) \in Seq(Token)
         /\ Head(FieldTokens(fields)) = [op |-> asked, number |-> number, field |-> Head(fields)]
         /\ Tail(FieldTokens(fields)) = FieldTokens(Tail(fields))
<1> DEFINE F(f) == [op |-> asked, number |-> number, field |-> f]
           r == Tail(fields)
<1>1. r \in Seq(Fields) /\ Len(r) = Len(fields) - 1 /\ \A i \in 1..Len(r) : r[i] = fields[i + 1]
  BY HeadTailProperties
<1>2. \A f \in Fields : F(f) \in Token
  BY DEF Token
<1>3. FieldTokens(fields) = [i \in 1..Len(fields) |-> F(fields[i])]
  BY DEF FieldTokens
<1>4. FieldTokens(r) = [i \in 1..Len(r) |-> F(r[i])]
  BY <1>1 DEF FieldTokens
<1> HIDE DEF F, r
<1>5. FieldTokens(fields) \in Seq(Token) /\ Len(FieldTokens(fields)) = Len(fields)
  BY <1>2, <1>3
<1>6. FieldTokens(r) \in Seq(Token) /\ Len(FieldTokens(r)) = Len(r)
  BY <1>1, <1>2, <1>4
<1>7. \A i \in 1..Len(r) : FieldTokens(r)[i] = FieldTokens(fields)[i + 1]
  BY <1>1, <1>3, <1>4
<1>8. Len(fields) # 0
  BY SMT
<1>9. FieldTokens(fields) # <<>> /\ Head(FieldTokens(fields)) = F(Head(fields))
  BY <1>3, <1>5, <1>8
<1>10. Tail(FieldTokens(fields)) = FieldTokens(r)
  BY <1>1, <1>5, <1>6, <1>7, <1>9, TailIs
<1> QED
  BY <1>5, <1>9, <1>10 DEF F, r

\* The replies of an operation, one by one.
LEMMA ReplyCases ==
  ASSUME NEW op \in Ops, NEW n \in Replies(op)
  PROVE  \/ op \in {"create", "reserve"} /\ n \in {<<0>>, <<1>>}
         \/ op = "show" /\ n \in {<<1>>, <<0, 1, 1, 0>>, <<0, 1, 2, 0, 0>>, <<0, 0, 2>>}
         \/ op = "list" /\ n \in {<<2>>, <<0, 1, 7>>, <<0, 2, 7, 8>>}
<1>1. CASE op \in {"create", "reserve"}
  <2>1. Replies(op) = {<<0>>, <<1>>}
    BY <1>1, Zenon DEF Replies
  <2> QED
    BY <1>1, <2>1
<1>2. CASE op = "show"
  <2>1. op \notin {"create", "reserve"} /\ op # "list"
    BY <1>2
  <2>2. Replies(op) = {<<1>>, <<0, 1, 1, 0>>, <<0, 1, 2, 0, 0>>, <<0, 0, 2>>}
    BY <1>2, <2>1, Zenon DEF Replies
  <2> QED
    BY <1>2, <2>2
<1>3. CASE op = "list"
  <2>1. op \notin {"create", "reserve"} /\ op # "show"
    BY <1>3
  <2>2. Replies(op) = {<<2>>, <<0, 1, 7>>, <<0, 2, 7, 8>>}
    BY <1>3, <2>1, Zenon DEF Replies
  <2> QED
    BY <1>3, <2>2
<1> QED
  BY <1>1, <1>2, <1>3 DEF Ops

\* Every reply is a sequence of numbers, and says itself how long it is.
LEMMA ReplyLength ==
  ASSUME NEW op \in Ops, NEW n \in Replies(op)
  PROVE  /\ n \in Seq(Nat)
         /\ \/ Len(n) = 1 /\ (op \in {"create", "reserve"} \/ n[1] # 0)
            \/ op = "show" /\ n[1] = 0 /\ Len(n) >= 3 /\ Len(n) = 3 + n[2] * n[3]
            \/ op = "list" /\ n[1] = 0 /\ Len(n) >= 2 /\ Len(n) = 2 + n[2]
<1>1. CASE op \in {"create", "reserve"}
  <2>1. CASE n = <<0>>
    BY <1>1, <2>1
  <2>2. CASE n = <<1>>
    BY <1>1, <2>2
  <2> QED
    BY <1>1, <2>1, <2>2, ReplyCases
<1>2. CASE op = "show"
  <2>1. CASE n = <<1>>
    BY <2>1
  <2>2. CASE n = <<0, 1, 1, 0>>
    <3>1. n \in Seq(Nat) /\ Len(n) = 4 /\ n[1] = 0 /\ n[2] = 1 /\ n[3] = 1
      BY <2>2
    <3> QED
      BY <1>2, <3>1
  <2>3. CASE n = <<0, 1, 2, 0, 0>>
    <3>1. n \in Seq(Nat) /\ Len(n) = 5 /\ n[1] = 0 /\ n[2] = 1 /\ n[3] = 2
      BY <2>3
    <3> QED
      BY <1>2, <3>1
  <2>4. CASE n = <<0, 0, 2>>
    <3>1. n \in Seq(Nat) /\ Len(n) = 3 /\ n[1] = 0 /\ n[2] = 0 /\ n[3] = 2
      BY <2>4
    <3> QED
      BY <1>2, <3>1
  <2> QED
    BY <1>2, <2>1, <2>2, <2>3, <2>4, ReplyCases
<1>3. CASE op = "list"
  <2>1. CASE n = <<2>>
    BY <2>1
  <2>2. CASE n = <<0, 1, 7>>
    <3>1. n \in Seq(Nat) /\ Len(n) = 3 /\ n[1] = 0 /\ n[2] = 1
      BY <2>2
    <3> QED
      BY <1>3, <3>1
  <2>3. CASE n = <<0, 2, 7, 8>>
    <3>1. n \in Seq(Nat) /\ Len(n) = 4 /\ n[1] = 0 /\ n[2] = 2
      BY <2>3
    <3> QED
      BY <1>3, <3>1
  <2> QED
    BY <1>3, <2>1, <2>2, <2>3, ReplyCases
<1> QED
  BY <1>1, <1>2, <1>3 DEF Ops

\* The client reads on as long as the reply is not whole, and no further.
LEMMA CompleteWhole ==
  ASSUME NEW op \in Ops, NEW n \in Replies(op), NEW m \in Seq(Nat),
         m # <<>>, Len(m) <= Len(n), \A i \in 1..Len(m) : m[i] = n[i]
  PROVE  ReplyComplete(op, m) <=> Len(m) = Len(n)
<1>1. Len(m) \in Nat \ {0} /\ Len(n) \in Nat
  BY ReplyLength
<1>2. CASE Len(n) = 1 /\ (op \in {"create", "reserve"} \/ n[1] # 0)
  <2> DEFINE l == Len(m)
  <2>1. l \in Nat \ {0} /\ l <= 1
    BY <1>1, <1>2
  <2> HIDE DEF l
  <2>2. l = 1
    BY <2>1
  <2>3. Len(m) = 1
    BY <2>2 DEF l
  <2>4. 1 \in 1..Len(m)
    BY <2>3
  <2>5. m[1] = n[1]
    BY <2>4
  <2> QED
    BY <1>2, <2>3, <2>5 DEF ReplyComplete
<1>3. CASE op = "show" /\ n[1] = 0 /\ Len(n) >= 3 /\ Len(n) = 3 + n[2] * n[3]
  <2>1. m[1] = 0
    BY <1>1, <1>3
  <2>2. Len(m) >= 3 => m[2] * m[3] = n[2] * n[3]
    BY <1>1
  <2>3. ReplyComplete(op, m) <=> Len(m) >= 3 /\ Len(m) = 3 + m[2] * m[3]
    BY <1>1, <1>3, <2>1 DEF ReplyComplete
  <2> QED
    BY <1>3, <2>2, <2>3
<1>4. CASE op = "list" /\ n[1] = 0 /\ Len(n) >= 2 /\ Len(n) = 2 + n[2]
  <2>1. m[1] = 0 /\ (Len(m) >= 2 => m[2] = n[2])
    BY <1>1, <1>4
  <2> QED
    BY <1>1, <1>4, <2>1 DEF ReplyComplete
<1> QED
  BY <1>2, <1>3, <1>4, ReplyLength

-----------------------------------------------------------------------------
(* What the streams say of the next token *)

\* What ems_quit writes is two tokens.
LEMMA FarewellLength ==
  ASSUME NEW k \in Nat
  PROVE  Len(Tokens("quit", k)) = 2
<1>1. Tokens("quit", k) \in Seq(Token)
  BY MessageTokens
<1>2. Message("quit") = <<"op_code", "session_id">>
  BY DEF Message
<1>3. Tokens("quit", k) = [i \in 1..2 |-> [op |-> "quit", number |-> k, field |-> Message("quit")[i]]]
  BY <1>2 DEF Tokens
<1> QED
  BY <1>1, <1>3

\* They come behind the requests if the client has called it, its op_code first.
LEMMA FarewellParts ==
  ASSUME number \in Nat, quit \in BOOLEAN
  PROVE  /\ Farewell \in Seq(Token)
         /\ ~quit => Farewell = <<>>
         /\ quit => /\ Len(Farewell) = 2
                    /\ Head(Farewell) = [op |-> "quit", number |-> number + 1, field |-> "op_code"]
<1>1. CASE ~quit
  BY <1>1 DEF Farewell
<1>2. CASE quit
  <2>1. number + 1 \in Nat
    OBVIOUS
  <2>2. /\ Tokens("quit", number + 1) \in Seq(Token)
        /\ Head(Tokens("quit", number + 1)) = [op |-> "quit", number |-> number + 1, field |-> "op_code"]
    BY <2>1, MessageTokens
  <2>5. Len(Tokens("quit", number + 1)) = 2
    BY <2>1, FarewellLength
  <2> QED
    BY <1>2, <2>2, <2>5 DEF Farewell
<1> QED
  BY <1>1, <1>2

\* While the client waits for its session id or has no request, there is none
\* in the pipe.
LEMMA NothingAsked ==
  ASSUME Inv, cpc = "read_id" \/ (cpc = "ready" /\ ~lost)
  PROVE  requestPipe = <<>> /\ toSend = <<>>
<1>1. RequestStream = <<>> /\ requestPipe \in Seq(Token) /\ toSend \in Seq(Token)
  BY DEF Inv, RequestsMatch, ClientRequests, TypeOK
<1> QED
  BY <1>1, ConcatEqualIffEmpty DEF RequestStream

\* The worker that waits for an op_code gets that of the client's last request,
\* or after it that of ems_quit.
LEMMA NextOpCode ==
  ASSUME Inv, spc = "read_op", requestPipe # <<>>
  PROVE  /\ Head(requestPipe).field = "op_code"
         /\ \/ /\ quit /\ RequestStream = Farewell /\ Head(requestPipe).op = "quit"
            \/ /\ asked \in Ops /\ RequestStream = Tokens(asked, number) \o Farewell
               /\ Head(requestPipe) = OpToken
<1>1. requestPipe \in Seq(Token) /\ toSend \in Seq(Token) /\ number \in Nat /\ quit \in BOOLEAN
  BY DEF Inv, TypeOK
<1>2. RequestStream # <<>> /\ Head(RequestStream) = Head(requestPipe)
  BY <1>1, Cut DEF RequestStream
<1>3. \/ RequestStream = Farewell
      \/ asked \in Ops /\ RequestStream = Tokens(asked, number) \o Farewell
  BY DEF Inv, RequestsMatch, WorkerRequests
<1>4. CASE RequestStream = Farewell
  <2>1. quit
    BY <1>1, <1>2, <1>4, FarewellParts
  <2>2. Head(Farewell) = [op |-> "quit", number |-> number + 1, field |-> "op_code"]
    BY <1>1, <2>1, FarewellParts
  <2> QED
    BY <1>2, <1>4, <2>1, <2>2
<1>5. CASE asked \in Ops /\ RequestStream = Tokens(asked, number) \o Farewell
  <2>1. /\ Tokens(asked, number) \in Seq(Token) /\ Tokens(asked, number) # <<>>
        /\ Head(Tokens(asked, number)) = OpToken
    BY <1>1, <1>5, MessageTokens DEF OpToken
  <2>2. Head(Tokens(asked, number) \o Farewell) = OpToken
    BY <1>1, <2>1, Cut, FarewellParts
  <2> QED
    BY <1>2, <1>5, <2>2 DEF OpToken
<1> QED
  BY <1>3, <1>4, <1>5

\* The worker inside a request reads its next argument, and has then the others
\* before it.
LEMMA NextArgument ==
  ASSUME Inv, spc = "read_args", requestPipe # <<>>
  PROVE  /\ RequestStream = FieldTokens(toRead) \o Farewell
         /\ Head(requestPipe) = [op |-> asked, number |-> number, field |-> Head(toRead)]
         /\ Tail(requestPipe) \o toSend = FieldTokens(Tail(toRead)) \o Farewell
<1>1. /\ requestPipe \in Seq(Token) /\ toSend \in Seq(Token) /\ number \in Nat /\ quit \in BOOLEAN
      /\ toRead \in Seq(Fields)
  BY DEF Inv, TypeOK
<1>2. asked \in Ops /\ toRead # <<>> /\ RequestStream = FieldTokens(toRead) \o Farewell
  BY DEF Inv, RequestsMatch, WorkerRequests, InRequest, Torn
<1>3. /\ FieldTokens(toRead) # <<>> /\ FieldTokens(toRead) \in Seq(Token)
      /\ Head(FieldTokens(toRead)) = [op |-> asked, number |-> number, field |-> Head(toRead)]
      /\ Tail(FieldTokens(toRead)) = FieldTokens(Tail(toRead))
  BY <1>1, <1>2, FieldTokensParts
<1>4. Head(RequestStream) = Head(requestPipe) /\ Tail(RequestStream) = Tail(requestPipe) \o toSend
  BY <1>1, Cut DEF RequestStream
<1>5. Farewell \in Seq(Token)
  BY <1>1, FarewellParts
<1>6. /\ Head(FieldTokens(toRead) \o Farewell) = Head(FieldTokens(toRead))
      /\ Tail(FieldTokens(toRead) \o Farewell) = Tail(FieldTokens(toRead)) \o Farewell
  <2> DEFINE t == FieldTokens(toRead)
             w == Farewell
  <2>1. t \in Seq(Token) /\ t # <<>> /\ w \in Seq(Token)
    BY <1>3, <1>5
  <2> HIDE DEF t, w
  <2>2. Head(t \o w) = Head(t) /\ Tail(t \o w) = Tail(t) \o w
    BY <2>1, Cut
  <2> QED
    BY <2>2 DEF t, w
<1> QED
  BY <1>2, <1>3, <1>4, <1>6, Zenon

\* The worker inside a request finds the pipe empty and the client gone only
\* when the client died while it wrote that request.
LEMMA EndInRequest ==
  ASSUME Inv, spc = "read_args", requestPipe = <<>>, ~ClientAlive
  PROVE  Torn
<1>1. /\ toSend \in Seq(Token) /\ number \in Nat /\ quit \in BOOLEAN /\ toRead \in Seq(Fields)
  BY DEF Inv, TypeOK
<1>2. asked \in Ops /\ toRead # <<>> /\ (RequestStream = FieldTokens(toRead) \o Farewell \/ Torn)
  BY DEF Inv, RequestsMatch, WorkerRequests, InRequest
<1>3. SUFFICES ASSUME RequestStream = FieldTokens(toRead) \o Farewell PROVE Torn
  BY <1>2
<1>4. FieldTokens(toRead) # <<>> /\ FieldTokens(toRead) \in Seq(Token)
  BY <1>1, <1>2, FieldTokensParts
<1>5. toSend = FieldTokens(toRead) \o Farewell
  BY <1>1, <1>3, ConcatEmptySeq DEF RequestStream
<1>6. Farewell \in Seq(Token) /\ (quit => Len(Farewell) = 2)
  BY <1>1, FarewellParts
<1>7. Len(toSend) = Len(FieldTokens(toRead)) + Len(Farewell) /\ Len(FieldTokens(toRead)) # 0
  <2> DEFINE t == FieldTokens(toRead)
             w == Farewell
  <2>1. t \in Seq(Token) /\ t # <<>> /\ w \in Seq(Token) /\ toSend = t \o w
    BY <1>4, <1>5, <1>6
  <2> HIDE DEF t, w
  <2>2. Len(toSend) = Len(t) + Len(w) /\ Len(t) # 0
    BY <2>1, ConcatProperties, EmptySeq
  <2> QED
    BY <2>2 DEF t, w
<1>8. Len(FieldTokens(toRead)) \in Nat /\ Len(Farewell) \in Nat
  BY <1>4, <1>6
<1>9. ~quit
  BY <1>6, <1>7, <1>8 DEF Inv, QuitMatch
<1>10. toSend # <<>>
  BY <1>7, <1>8
<1>11. cpc = "crashed"
  BY <1>9 DEF Inv, PhasesMatch, QuitMatch, ClientAlive
<1> QED
  BY <1>9, <1>10, <1>11 DEF Torn

-----------------------------------------------------------------------------
(* Types *)

\* The initial states have the types, and so have those a step leads to.
LEMMA InitType == Init => TypeOK
<1> SUFFICES ASSUME Init PROVE TypeOK
  OBVIOUS
<1>1. /\ requestPipe \in Seq(Token) /\ Len(requestPipe) <= Capacity
      /\ responsePipe \in Seq(ReplyToken) /\ Len(responsePipe) <= Capacity
      /\ toSend \in Seq(Token) /\ got \in Seq(ReplyToken)
      /\ toRead \in Seq(Fields) /\ answer \in Seq(ReplyToken)
  BY SessionAssumption DEF Init
<1>2. \A f \in Fields : local[f] = NoToken
  BY DEF Init
<1> QED
  BY <1>1, <1>2, SessionAssumption DEF Init, TypeOK

\* A pipe that a token is taken from, or written to with room for it, keeps to
\* its capacity.
LEMMA PipeFits ==
  ASSUME NEW S, NEW s \in Seq(S), Len(s) <= Capacity
  PROVE  /\ s # <<>> => Head(s) \in S /\ Tail(s) \in Seq(S) /\ Len(Tail(s)) <= Capacity
         /\ \A e \in S : Len(s) < Capacity => Append(s, e) \in Seq(S) /\ Len(Append(s, e)) <= Capacity
  BY SessionAssumption

\* Opening the pipes leaves what is in them alone.
OpeningStep ==
  \/ MakeResponse \/ MakeRequest \/ Setup
  \/ ClientOpensRequest \/ ClientOpensResponse \/ ServerOpensRequest \/ ServerOpensResponse

\* No step leaves the types.
LEMMA TypeStep ==
  ASSUME Inv, Next
  PROVE  TypeOK'
<1> USE DEF Inv
<1>1. CASE OpeningStep
  <2>1. /\ UNCHANGED <<requestPipe, responsePipe, number, asked, toSend, got, left, kept, lost, quit,
                      cur, toRead, local, answer, killed>>
        /\ files' \subseteq Both /\ serverEnds' \subseteq {"request", "response"}
    BY <1>1 DEF TypeOK, OpeningStep, MakeResponse, MakeRequest, MakePipe, Setup, ClientOpensRequest,
       ClientOpensResponse, ServerOpensRequest, ServerOpensResponse, RequestPipeOpen, ResponsePipeOpen,
       Both, clientVars, serverVars
  <2>2. /\ cpc' = cpc \/ cpc' \in {"make_request", "setup", "failed", "open_request", "wait_request",
                                 "open_response", "wait_response", "read_id"}
        /\ spc' = spc \/ spc' \in {"open_request", "wait_request", "open_response", "wait_response", "send_id"}
    BY <1>1 DEF OpeningStep, MakeResponse, MakeRequest, MakePipe, Setup, ClientOpensRequest,
       ClientOpensResponse, ServerOpensRequest, ServerOpensResponse, RequestPipeOpen, ResponsePipeOpen,
       serverVars
  <2> HIDE DEF Inv
  <2>3. TypeOK
    BY DEF Inv
  <2> QED
    BY <2>1, <2>2, <2>3 DEF TypeOK
<1>2. CASE OpenReply \/ OpenReplyFails \/ BeginFails \/ FinishQuit \/ Unlink \/ Crash \/ ReadEnd
  <2>1. /\ UNCHANGED <<requestPipe, responsePipe, number, asked, toSend, got, kept, quit,
                      serverEnds, cur, toRead, local, answer, killed>>
        /\ files' \subseteq files
        /\ left' = left \/ (left > 0 /\ left' = left - 1)
        /\ lost' = lost \/ lost' = TRUE
    BY <1>2 DEF OpenReply, OpenReplyFails, BeginFails, FinishQuit, Unlink, Crash, ReadEnd, clientVars, serverVars
  <2>2. /\ cpc' = cpc \/ cpc' \in {"ready", "read_reply", "unlink_request", "unlink_response", "done", "crashed"}
        /\ spc' = spc \/ spc' = "returned"
    BY <1>2 DEF OpenReply, OpenReplyFails, BeginFails, FinishQuit, Unlink, Crash, ReadEnd, serverVars
  <2> HIDE DEF Inv
  <2>3. TypeOK
    BY DEF Inv
  <2>4. left' \in Nat /\ files' \subseteq Both
    BY <2>1, <2>3 DEF TypeOK
  <2>6. lost' \in BOOLEAN
    BY <2>1, <2>3, Zenon DEF TypeOK
  <2>5. /\ cpc' \in {"make_response", "make_request", "setup", "unlink_request", "unlink_response",
                    "failed", "open_request", "wait_request", "open_response", "wait_response", "read_id",
                    "ready", "send", "open_reply", "read_reply", "done", "crashed", "sigpipe"}
        /\ spc' \in {"absent", "open_request", "wait_request", "open_response", "wait_response", "send_id",
                    "read_op", "read_args", "execute", "reply", "returned"}
    BY <2>2, <2>3 DEF TypeOK
  <2> QED
    BY <2>1, <2>3, <2>4, <2>5, <2>6 DEF TypeOK
<1>3. CASE ReadSessionId
  <2>1. Tail(responsePipe) \in Seq(ReplyToken) /\ Len(Tail(responsePipe)) <= Capacity
    BY <1>3, PipeFits DEF TypeOK, ReadSessionId
  <2> QED
    BY <1>3, <2>1 DEF TypeOK, ReadSessionId, clientVars, serverVars
<1>4. CASE SendField
  <2>1. CASE "request" \notin serverEnds
    BY <1>4, <2>1 DEF TypeOK, SendField, clientVars, serverVars
  <2>2. CASE "request" \in serverEnds
    <3>1. toSend \in Seq(Token) /\ toSend # <<>> /\ requestPipe \in Seq(Token)
      BY <1>4 DEF TypeOK, RequestsMatch, WorkerRequests, ClientRequests, SendField
    <3>2. requestPipe' = Append(requestPipe, Head(toSend)) /\ toSend' = Tail(toSend)
            /\ Len(requestPipe) < Capacity
      BY <1>4, <2>2 DEF SendField
    <3>3. requestPipe' \in Seq(Token) /\ Len(requestPipe') <= Capacity /\ toSend' \in Seq(Token)
      <4> HIDE DEF Inv
      <4> QED
        BY <3>1, <3>2, Shift, SessionAssumption
    <3> QED
      BY <1>4, <3>3 DEF TypeOK, SendField, clientVars, serverVars
  <2> QED
    BY <2>1, <2>2
<1>5. CASE ReadReply
  <2>1. /\ Tail(responsePipe) \in Seq(ReplyToken) /\ Len(Tail(responsePipe)) <= Capacity
        /\ Head(responsePipe) \in ReplyToken
    BY <1>5, PipeFits DEF TypeOK, ReadReply
  <2>2. Append(got, Head(responsePipe)) \in Seq(ReplyToken)
    BY <2>1 DEF TypeOK
  <2>3. left' \in Nat /\ kept' \in Nat
    BY <1>5 DEF TypeOK, ReadReply, Close
  <2> QED
    BY <1>5, <2>1, <2>2, <2>3 DEF TypeOK, ReadReply, serverVars
<1>6. ASSUME NEW op \in Ops, Begin(op) PROVE TypeOK'
  <2>1. Tokens(op, number + 1) \in Seq(Token)
    <3>1. number + 1 \in Nat
      BY DEF TypeOK
    <3> QED
      BY <1>6, <3>1, MessageTokens
  <2> QED
    BY <1>6, <2>1 DEF TypeOK, Begin, serverVars
<1>13. CASE BeginQuit
  <2>1. Tokens("quit", number + 1) \in Seq(Token)
    <3>1. number + 1 \in Nat
      BY DEF TypeOK
    <3> QED
      BY <3>1, MessageTokens
  <2>2. left' \in Nat /\ quit' \in BOOLEAN /\ toSend' \in Seq(Token)
    BY <1>13, <2>1 DEF TypeOK, BeginQuit, InOut
  <2> QED
    BY <1>13, <2>2 DEF TypeOK, BeginQuit, serverVars
<1>7. CASE SendSessionId
  <2>1. [number |-> 0, value |-> 0] \in ReplyToken
    BY DEF ReplyToken
  <2>2. Len(responsePipe) < Capacity =>
          /\ Append(responsePipe, [number |-> 0, value |-> 0]) \in Seq(ReplyToken)
          /\ Len(Append(responsePipe, [number |-> 0, value |-> 0])) <= Capacity
    BY <2>1, PipeFits DEF TypeOK
  <2> QED
    BY <1>7, <2>2 DEF TypeOK, SendSessionId, WriteResponse, clientVars, serverVars
<1>8. CASE ReadOpCode
  <2>1. Head(requestPipe) \in Token /\ Tail(requestPipe) \in Seq(Token)
          /\ Len(Tail(requestPipe)) <= Capacity
    BY <1>8, SessionAssumption DEF TypeOK, ReadOpCode
  <2>2. Head(requestPipe).op \in Ops
    BY <1>8, <2>1 DEF ReadOpCode, Token
  <2>3. Arguments(Head(requestPipe).op) \in Seq(Fields)
    BY <2>2, MessageParts
  <2> QED
    BY <1>8, <2>1, <2>3 DEF TypeOK, ReadOpCode, clientVars, serverVars
<1>9. CASE ReadQuit
  <2>1. Tail(requestPipe) \in Seq(Token) /\ Len(Tail(requestPipe)) <= Capacity
    BY <1>9, PipeFits DEF TypeOK, ReadQuit
  <2> QED
    BY <1>9, <2>1 DEF TypeOK, ReadQuit, clientVars, serverVars
<1>10. CASE ReadArgument
  <2>1. toRead \in Seq(Fields) /\ toRead # <<>>
    BY <1>10 DEF TypeOK, RequestsMatch, WorkerRequests, ClientRequests, ReadArgument
  <2>2. Head(toRead) \in Fields /\ Tail(toRead) \in Seq(Fields)
    BY <2>1
  <2>3. local \in [Fields -> Token \cup {NoToken}]
    BY DEF RequestsMatch, WorkerRequests
  <2>4. CASE requestPipe # <<>>
    <3>1. Head(requestPipe) \in Token /\ Tail(requestPipe) \in Seq(Token)
            /\ Len(Tail(requestPipe)) <= Capacity
      BY <2>4, SessionAssumption DEF TypeOK
    <3>2. Head(requestPipe).field = Head(toRead)
      <4>1. spc = "read_args"
        BY <1>10 DEF ReadArgument
      <4>2. Head(requestPipe) = [op |-> asked, number |-> number, field |-> Head(toRead)]
        BY <2>4, <4>1, NextArgument
      <4> QED
        BY <4>2
    <3>3. local' = [local EXCEPT ![Head(toRead)] = Head(requestPipe)] /\ requestPipe' = Tail(requestPipe)
      BY <1>10, <2>4 DEF ReadArgument
    <3>4. \A f \in Fields : local'[f] = NoToken \/ (local'[f] \in Token /\ local'[f].field = f)
      BY <2>2, <2>3, <3>1, <3>2, <3>3 DEF TypeOK
    <3> QED
      BY <1>10, <2>2, <3>1, <3>3, <3>4 DEF TypeOK, ReadArgument, clientVars, serverVars
  <2>5. CASE requestPipe = <<>>
    BY <1>10, <2>2, <2>5 DEF TypeOK, ReadArgument, clientVars, serverVars
  <2> QED
    BY <2>4, <2>5
<1>11. CASE Execute
  <2>1. cur.op \in Ops /\ cur.number \in Nat
    BY <1>11 DEF TypeOK, RequestsMatch, WorkerRequests, ClientRequests, Execute, InRequest, OpToken
  <2>2. PICK n \in Replies(cur.op) :
          answer' = [i \in DOMAIN n |-> [number |-> cur.number, value |-> n[i]]]
    BY <1>11 DEF Execute
  <2>3. n \in Seq(Nat)
    BY <2>1, ReplyLength
  <2>4. \A i \in 1..Len(n) : [number |-> cur.number, value |-> n[i]] \in ReplyToken
    BY <2>1, <2>3 DEF ReplyToken
  <2>5. answer' \in Seq(ReplyToken)
    BY <2>2, <2>3, <2>4
  <2> QED
    BY <1>11, <2>5 DEF TypeOK, Execute, clientVars, serverVars
<1>12. CASE WriteReply
  <2>1. answer \in Seq(ReplyToken) /\ answer # <<>> /\ responsePipe \in Seq(ReplyToken)
    BY <1>12 DEF TypeOK, RequestsMatch, WorkerRequests, ClientRequests, WriteReply
  <2>2. Head(answer) \in ReplyToken /\ Tail(answer) \in Seq(ReplyToken)
    BY <2>1
  <2>3. Len(responsePipe) < Capacity =>
          /\ Append(responsePipe, Head(answer)) \in Seq(ReplyToken)
          /\ Len(Append(responsePipe, Head(answer))) <= Capacity
    BY <2>2, PipeFits DEF TypeOK
  <2> QED
    BY <1>12, <2>2, <2>3 DEF TypeOK, WriteReply, WriteResponse, clientVars, serverVars
<1> QED
  BY <1>1, <1>2, <1>3, <1>4, <1>5, <1>6, <1>7, <1>8, <1>9, <1>10, <1>11, <1>12, <1>13
     DEF Next, Client, Talk, Server, Listen, OpeningStep

-----------------------------------------------------------------------------
(* What the client reads *)

\* The client that reads a number reads the next one of a whole reply, and is
\* done with it at its end, when the worker has written all of it.
LEMMA ReadOn ==
  ASSUME Inv, ReadReply
  PROVE  /\ spc \in {"read_op", "reply"}
         /\ ~quit /\ ~lost
         /\ RequestStream = <<>>
         /\ WholeReply
         /\ Head(responsePipe).number = number
         /\ ReplyComplete(asked, Numbers(got')) =>
              /\ spc = "read_op"
              /\ responsePipe' = <<>>
              /\ Numbers(got') \in Replies(asked)
<1>1. /\ cpc = "read_reply" /\ responsePipe # <<>> /\ ~killed
      /\ got' = Append(got, Head(responsePipe)) /\ responsePipe' = Tail(responsePipe)
  BY DEF ReadReply
<1>b. ~quit /\ ~lost
  BY <1>1 DEF Inv, QuitMatch, DescriptorsMatch
<1>2. asked \in Ops /\ RepliesFlow
  BY <1>1, <1>b DEF Inv, RequestsMatch, ClientRequests, RepliesInv, Attends
<1>3. spc \in {"read_op", "reply"}
  BY <1>1, <1>2, <1>b DEF Inv, TypeOK, PhasesMatch, ClientAlive, Opening, RepliesFlow, Unanswered
<1>0. RequestStream = <<>>
  BY <1>1, <1>2, <1>3, <1>b DEF Inv, RequestsMatch, WorkerRequests, RepliesFlow, Unanswered, Farewell
<1>4. WholeReply
  <2>2. CASE spc = "reply"
    BY <1>2, <2>2 DEF RepliesFlow
  <2>3. CASE spc = "read_op"
    BY <1>0, <1>1, <1>2, <2>3 DEF RepliesFlow
  <2> QED
    BY <1>3, <2>2, <2>3
<1>5. PICK n \in Replies(asked) : got \o (responsePipe \o answer) = ReplyTokens(n)
  BY <1>4 DEF WholeReply
<1>6. n \in Seq(Nat) /\ got \in Seq(ReplyToken) /\ responsePipe \in Seq(ReplyToken) /\ answer \in Seq(ReplyToken)
  BY <1>2, ReplyLength DEF Inv, TypeOK
<1>7. ReplyTokens(n) = [i \in 1..Len(n) |-> [number |-> number, value |-> n[i]]]
  BY <1>6 DEF ReplyTokens
<1> DEFINE t == ReplyTokens(n)
           g == Append(got, Head(responsePipe))
           m == Numbers(g)
<1>8. Len(n) = Len(got) + (Len(responsePipe) + Len(answer)) /\ Len(t) = Len(n)
  BY <1>5, <1>6, <1>7
<1>9. g \in Seq(ReplyToken) /\ Len(g) = Len(got) + 1
  BY <1>1, <1>6
<1>10. \A i \in 1..Len(g) : g[i] = t[i]
  <2>1. t = g \o (Tail(responsePipe) \o answer)
    <3>1. got \o (responsePipe \o answer) = Append(got, Head(responsePipe)) \o (Tail(responsePipe) \o answer)
      BY SMTT(30), <1>1, <1>6, ShiftOfThree
    <3> QED
      BY <1>5, <3>1
  <2>2. Tail(responsePipe) \o answer \in Seq(ReplyToken)
    BY <1>1, <1>6
  <2> HIDE DEF t, g
  <2> QED
    BY <1>9, <2>1, <2>2
<1>11. Len(responsePipe) \in Nat \ {0} /\ Len(answer) \in Nat /\ Len(got) \in Nat
  BY <1>1, <1>6
<1>12. \A i \in 1..Len(g) : g[i].number = number /\ g[i].value = n[i]
  <2>1. \A i \in 1..Len(g) : i \in 1..Len(n)
    BY <1>8, <1>9, <1>11
  <2>2. \A i \in 1..Len(n) : t[i].number = number /\ t[i].value = n[i]
    BY <1>7
  <2> HIDE DEF g, t
  <2> QED
    BY <1>10, <2>1, <2>2
<1>13. m \in Seq(Nat) /\ Len(m) = Len(g) /\ \A i \in 1..Len(m) : m[i] = n[i]
  <2>1. m = [i \in 1..Len(g) |-> g[i].value]
    BY <1>9 DEF Numbers
  <2>2. \A i \in 1..Len(g) : g[i].value \in Nat
    <3> HIDE DEF g
    <3>1. \A i \in 1..Len(g) : g[i] \in ReplyToken
      BY <1>9
    <3> QED
      BY <3>1 DEF ReplyToken
  <2> HIDE DEF g, m
  <2> QED
    BY <1>9, <1>12, <2>1, <2>2
<1>14. Head(responsePipe).number = number
  BY <1>1, <1>6, <1>9, <1>11, <1>12
<1>15. ReplyComplete(asked, m) <=> Len(m) = Len(n)
  <2>1. m # <<>> /\ Len(m) <= Len(n)
    BY <1>8, <1>9, <1>11, <1>13
  <2> HIDE DEF m
  <2> QED
    BY <1>2, <1>13, <2>1, CompleteWhole
<1>16. ASSUME ReplyComplete(asked, m)
       PROVE  spc = "read_op" /\ Tail(responsePipe) = <<>> /\ m \in Replies(asked)
  <2> HIDE DEF g, m, t
  <2>5. Len(g) = Len(n)
    BY <1>13, <1>15, <1>16
  <2>6. Len(responsePipe) = 1 /\ Len(answer) = 0
    <3>1. Len(got) + 1 = Len(got) + (Len(responsePipe) + Len(answer))
      BY <1>8, <1>9, <2>5
    <3> DEFINE x == Len(got)
               y == Len(responsePipe)
               z == Len(answer)
    <3>2. x \in Nat /\ y \in Nat /\ y # 0 /\ z \in Nat /\ x + 1 = x + (y + z)
      BY <1>11, <3>1
    <3> HIDE DEF x, y, z
    <3>3. y = 1 /\ z = 0
      BY <3>2
    <3> QED
      BY <3>3 DEF y, z
  <2>1. answer = <<>>
    BY <1>6, <2>6
  <2>2. spc = "read_op"
    BY <1>1, <1>3, <2>1 DEF Inv, RequestsMatch, WorkerRequests
  <2>3. Tail(responsePipe) = <<>>
    BY <1>1, <1>6, <2>6, HeadTailProperties, EmptySeq
  <2>4. m = n
    BY <1>6, <1>13, <1>15, <1>16, SeqEqual
  <2> QED
    BY <1>5, <2>2, <2>3, <2>4
<1> QED
  BY <1>0, <1>1, <1>b, <1>3, <1>4, <1>14, <1>16

-----------------------------------------------------------------------------
(* The phases of the session, and the files *)

\* The client and the worker go through their states together (api.c:59-113,
\* main.c:184-222).
LEMMA PhasesStep ==
  ASSUME Inv, Next
  PROVE  PhasesMatch'
<1> USE DEF PhasesMatch, Opening, ClientAlive
<1>0. PhasesMatch /\ spc \in {"absent", "returned", "read_op", "read_args", "execute", "reply"} \cup Opening
  BY DEF Inv, TypeOK
<1>1. CASE OpeningStep
  BY <1>0, <1>1 DEF OpeningStep, MakeResponse, MakeRequest, MakePipe, Setup, ClientOpensRequest,
       ClientOpensResponse, ServerOpensRequest, ServerOpensResponse, RequestPipeOpen,
       ResponsePipeOpen, clientVars, serverVars
<1>2. CASE FinishQuit \/ Unlink \/ Crash \/ OpenReply
  BY <1>0, <1>2 DEF FinishQuit, Unlink, Crash, OpenReply, clientVars, serverVars
<1>3. CASE ReadSessionId
  <2>1. cpc = "read_id" /\ ~killed /\ responsePipe # <<>> /\ spc \in {"send_id", "read_op"}
    BY <1>0, <1>3 DEF ReadSessionId
  <2>2. ~quit /\ ~lost
    BY <2>1 DEF Inv, QuitMatch, DescriptorsMatch
  <2>3. spc = "read_op"
    BY <2>1, <2>2 DEF Inv, RepliesInv, RepliesFlow, Attends
  <2> QED
    BY <1>0, <1>3, <2>3 DEF ReadSessionId, clientVars, serverVars
<1>4. CASE SendField
  BY <1>0, <1>4 DEF SendField, serverVars
<1>5. CASE ReadReply
  <2>1. spc \in {"read_op", "reply"} /\ (cpc' = "ready" => spc = "read_op")
    BY <1>5, ReadOn DEF ReadReply
  <2>2. /\ cpc = "read_reply" /\ cpc' \in {"ready", "read_reply"}
        /\ UNCHANGED <<spc, lost, quit, serverEnds>>
    BY <1>5 DEF ReadReply, serverVars
  <2> QED
    BY <1>0, <2>1, <2>2
<1>6. CASE BeginFails \/ \E op \in Ops : Begin(op)
  BY <1>0, <1>6 DEF Begin, BeginFails, serverVars
<1>12. CASE BeginQuit
  <2>1. left + InOut > 0
    BY DEF Inv, TypeOK, InOut
  <2> QED
    BY <1>0, <1>12, <2>1 DEF BeginQuit, serverVars
<1>13. CASE OpenReplyFails
  <2>1. spc \in {"read_op", "read_args", "execute", "reply"}
    BY <1>0, <1>13 DEF OpenReplyFails
  <2> QED
    BY <1>0, <1>13, <2>1 DEF OpenReplyFails, serverVars
<1>7. CASE SendSessionId \/ WriteReply
  BY <1>0, <1>7 DEF SendSessionId, WriteReply, WriteResponse, clientVars, serverVars
<1>8. CASE ReadOpCode
  <2>1. cpc # "read_id" /\ (cpc = "ready" => lost)
    BY <1>8, NothingAsked DEF ReadOpCode
  <2> QED
    BY <1>0, <1>8, <2>1 DEF ReadOpCode, clientVars
<1>11. CASE ReadArgument \/ Execute
  BY <1>0, <1>11 DEF ReadArgument, Execute, clientVars
<1>9. CASE ReadQuit
  <2>1. quit
    <3>1. spc = "read_op" /\ requestPipe # <<>> /\ Head(requestPipe).op = "quit"
      BY <1>9 DEF ReadQuit
    <3> QED
      BY <3>1, NextOpCode DEF OpToken, Ops
  <2>2. cpc \notin {"read_id", "ready"}
    BY <2>1 DEF Inv, QuitMatch
  <2> QED
    BY <1>0, <1>9, <2>1, <2>2 DEF ReadQuit, clientVars, serverVars
<1>10. CASE ReadEnd
  BY <1>0, <1>10 DEF ReadEnd, RequestWriter, clientVars, serverVars
<1> QED
  BY <1>1, <1>2, <1>3, <1>4, <1>5, <1>6, <1>7, <1>8, <1>9, <1>10, <1>11, <1>12, <1>13
     DEF Next, Client, Talk, Server, Listen, OpeningStep

\* Once ems_quit is called the client does nothing but what ems_quit does
\* (api.c:127-176).
LEMMA QuitStep ==
  ASSUME Inv, Next
  PROVE  QuitMatch'
<1> USE DEF QuitMatch
<1>0. QuitMatch /\ toSend \in Seq(Token) /\ number \in Nat /\ quit \in BOOLEAN
  BY DEF Inv, TypeOK
<1>1. CASE OpeningStep
  BY <1>0, <1>1 DEF OpeningStep, MakeResponse, MakeRequest, MakePipe, Setup, ClientOpensRequest,
       ClientOpensResponse, ServerOpensRequest, ServerOpensResponse, RequestPipeOpen,
       ResponsePipeOpen, clientVars, serverVars
<1>2. CASE ReadSessionId \/ OpenReply \/ OpenReplyFails \/ BeginFails \/ FinishQuit \/ Unlink \/ Crash
  BY <1>0, <1>2 DEF ReadSessionId, OpenReply, OpenReplyFails, BeginFails, FinishQuit, Unlink, Crash, clientVars
<1>3. CASE ReadReply
  BY <1>0, <1>3 DEF ReadReply
<1>4. CASE \E op \in Ops : Begin(op)
  BY <1>0, <1>4 DEF Begin
<1>5. CASE BeginQuit
  <2>1. left + InOut > 0
    BY DEF Inv, TypeOK, InOut
  <2>2. quit' /\ cpc' = "send" /\ toSend' = Tokens("quit", number + 1)
    BY <1>5, <2>1 DEF BeginQuit
  <2>3. number + 1 \in Nat
    BY <1>0
  <2>4. Len(toSend') = 2
    BY <2>2, <2>3, FarewellLength
  <2> QED
    BY <2>2, <2>4
<1>6. CASE SendField
  <2>1. "request" \in serverEnds /\ toSend # <<>>
    BY <1>6 DEF Inv, PhasesMatch, Opening, SendField, RequestsMatch, ClientRequests
  <2>2. /\ toSend' = Tail(toSend) /\ cpc' \in {"open_reply", "send"} /\ UNCHANGED quit
    BY <1>6, <2>1 DEF SendField
  <2>3. Len(toSend') = Len(toSend) - 1 /\ Len(toSend) \in Nat
    BY <1>0, <2>1, <2>2
  <2>4. quit => Len(toSend') <= 2
    BY <1>0, <2>3
  <2>5. quit' => quit
    BY <2>2
  <2> QED
    BY <2>2, <2>4, <2>5
<1>7. CASE SendSessionId \/ ReadOpCode \/ ReadQuit \/ ReadEnd \/ ReadArgument \/ WriteReply \/ Execute
  <2>1. UNCHANGED <<cpc, quit, toSend>>
    BY <1>7 DEF SendSessionId, ReadOpCode, ReadQuit, ReadEnd, ReadArgument, WriteReply, Execute, clientVars
  <2> QED
    BY <1>0, <2>1
<1> QED
  BY <1>1, <1>2, <1>3, <1>4, <1>5, <1>6, <1>7 DEF Next, Client, Talk, Server, Listen, OpeningStep

\* A call gives back the descriptors it took, or the client is one refused call
\* further (api.c:187-248, client/main.c:130-142).
LEMMA DescriptorsStep ==
  ASSUME Inv, Next
  PROVE  DescriptorsMatch'
<1> USE DEF DescriptorsMatch, InUse
<1>0. /\ DescriptorsMatch /\ QuitMatch /\ PhasesMatch /\ left \in Nat /\ kept \in Nat /\ Descriptors \in Nat
      /\ lost \in BOOLEAN /\ quit \in BOOLEAN
  BY SessionAssumption DEF Inv, TypeOK
<1>1. CASE OpeningStep
  <2>1. UNCHANGED <<left, kept, lost, quit>>
    BY <1>1 DEF OpeningStep, MakeResponse, MakeRequest, MakePipe, Setup, ClientOpensRequest, ClientOpensResponse,
       ServerOpensRequest, ServerOpensResponse, clientVars
  <2>2. /\ cpc \notin {"ready", "crashed", "send", "open_reply", "read_reply"} \/ cpc' = cpc
        /\ cpc' \notin {"crashed", "send", "open_reply", "read_reply"} \/ cpc' = cpc
    BY <1>1 DEF OpeningStep, MakeResponse, MakeRequest, MakePipe, Setup, ClientOpensRequest, ClientOpensResponse,
       ServerOpensRequest, ServerOpensResponse, RequestPipeOpen, ResponsePipeOpen, Opening
  <2> QED
    BY <1>0, <2>1, <2>2
<1>2. CASE ReadSessionId \/ FinishQuit \/ Unlink \/ Crash
  <2>1. UNCHANGED <<left, kept, lost, quit>>
    BY <1>2 DEF ReadSessionId, FinishQuit, Unlink, Crash, clientVars
  <2>2. \/ cpc = "read_id" /\ cpc' = "ready"
        \/ quit
        \/ cpc' = "crashed"
    BY <1>0, <1>2 DEF ReadSessionId, FinishQuit, Unlink, Crash, QuitMatch
  <2> QED
    BY <1>0, <2>1, <2>2
<1>3. CASE OpenReply
  <2>1. cpc = "open_reply" /\ ~quit /\ left' = left - 1 /\ cpc' = "read_reply" /\ UNCHANGED <<kept, lost, quit>>
    BY <1>3 DEF OpenReply
  <2> QED
    BY <1>0, <2>1
<1>4. CASE OpenReplyFails \/ BeginFails
  <2>1. /\ cpc \in {"open_reply", "ready"} /\ cpc' = "ready" /\ left = 0 /\ lost' = TRUE
        /\ UNCHANGED <<left, kept, quit>>
    BY <1>4 DEF OpenReplyFails, BeginFails
  <2>2. ~quit
    BY <1>0, <1>4 DEF OpenReplyFails, BeginFails, QuitMatch
  <2>3. Descriptors <= 2 * kept + 1
    BY <1>0, <2>1, <2>2
  <2> QED
    BY <2>1, <2>3
<1>5. CASE ReadReply
  <2>1. ~quit /\ ~lost
    BY <1>5, ReadOn
  <2>2. /\ cpc = "read_reply" /\ UNCHANGED <<lost, quit>>
        /\ \/ cpc' = "ready" /\ left' = left + 2 /\ kept' = kept
           \/ cpc' = "ready" /\ left' = left /\ kept' = kept + 1
           \/ cpc' = cpc /\ left' = left /\ kept' = kept
    BY <1>5 DEF ReadReply, Close
  <2> QED
    BY <1>0, <2>1, <2>2
<1>6. CASE \E op \in Ops : Begin(op)
  <2>1. cpc = "ready" /\ left > 0 /\ left' = left - 1 /\ cpc' = "send" /\ UNCHANGED <<kept, lost, quit>>
    BY <1>6 DEF Begin
  <2> QED
    BY <1>0, <2>1 DEF QuitMatch
<1>7. CASE BeginQuit
  BY <1>0, <1>7 DEF BeginQuit
<1>8. CASE SendField
  <2>1. "request" \in serverEnds
    BY <1>0, <1>8 DEF PhasesMatch, Opening, SendField
  <2>2. cpc = "send" /\ cpc' \in {"open_reply", "send"} /\ UNCHANGED <<left, kept, lost, quit>>
    BY <1>8, <2>1 DEF SendField
  <2> QED
    BY <1>0, <2>2
<1>9. CASE Listen \/ Execute
  <2>1. CASE ServerOpensRequest \/ ServerOpensResponse
    BY <1>1, <2>1 DEF OpeningStep
  <2>2. CASE SendSessionId \/ ReadOpCode \/ ReadQuit \/ ReadEnd \/ ReadArgument \/ WriteReply \/ Execute
    <3>1. UNCHANGED <<cpc, left, kept, lost, quit>>
      BY <2>2 DEF SendSessionId, ReadOpCode, ReadQuit, ReadEnd, ReadArgument, WriteReply, Execute, clientVars
    <3> QED
      BY <1>0, <3>1
  <2> QED
    BY <1>9, <2>1, <2>2 DEF Listen
<1> QED
  BY <1>1, <1>2, <1>3, <1>4, <1>5, <1>6, <1>7, <1>8, <1>9 DEF Next, Client, Talk, Server, OpeningStep

\* Nobody removes a pipe that is still needed (api.c:59-73, 171-172).
LEMMA FilesStep ==
  ASSUME Inv, Next
  PROVE  FilesMatch'
<1> USE DEF FilesMatch, Opening, Both
<1>0. FilesMatch /\ PhasesMatch /\ files \subseteq Both
  BY DEF Inv, TypeOK
<1>1. CASE MakeResponse \/ MakeRequest \/ Setup
  BY <1>0, <1>1 DEF MakeResponse, MakeRequest, MakePipe, Setup, PhasesMatch
<1>2. CASE ClientOpensRequest \/ ClientOpensResponse \/ ServerOpensRequest \/ ServerOpensResponse
  BY <1>0, <1>2 DEF ClientOpensRequest, ClientOpensResponse, ServerOpensRequest,
       ServerOpensResponse, RequestPipeOpen, ResponsePipeOpen
<1>3. CASE Unlink
  BY <1>0, <1>3 DEF Unlink, PhasesMatch
<1>4. CASE ReadSessionId \/ SendField \/ OpenReply \/ OpenReplyFails \/ ReadReply \/ FinishQuit \/ Crash
  BY <1>0, <1>4 DEF ReadSessionId, SendField, OpenReply, OpenReplyFails, ReadReply, FinishQuit, Crash
<1>5. CASE BeginFails \/ BeginQuit \/ \E op \in Ops : Begin(op)
  BY <1>0, <1>5 DEF Begin, BeginFails, BeginQuit
<1>6. CASE SendSessionId \/ WriteReply
  BY <1>0, <1>6 DEF SendSessionId, WriteReply, WriteResponse
<1>7. CASE ReadOpCode \/ ReadQuit \/ ReadEnd \/ ReadArgument \/ Execute
  BY <1>0, <1>7 DEF ReadOpCode, ReadQuit, ReadEnd, ReadArgument, Execute
<1> QED
  BY <1>1, <1>2, <1>3, <1>4, <1>5, <1>6, <1>7 DEF Next, Client, Talk, Server, Listen

-----------------------------------------------------------------------------
(* The stream of requests *)

\* The worker stays inside a request that nobody touches; only a client that
\* lives can go on to another state.
LEMMA InRequestKept ==
  ASSUME InRequest, UNCHANGED <<asked, number, quit, cur, toRead, local, requestPipe, toSend>>,
         cpc' = cpc \/ cpc # "crashed"
  PROVE  InRequest'
  BY DEF InRequest, RequestStream, FieldTokens, OpToken, Read, Torn, Farewell, Tokens

\* Writing a field and reading one leave the rest of the request in order
\* (api.c:192-218, main.c:229-365).
LEMMA RequestsStep ==
  ASSUME Inv, Next
  PROVE  RequestsMatch'
<1>0. RequestsMatch /\ PhasesMatch /\ QuitMatch /\ DescriptorsMatch
  BY DEF Inv
<1>a. /\ requestPipe \in Seq(Token) /\ toSend \in Seq(Token) /\ toRead \in Seq(Fields)
      /\ number \in Nat /\ quit \in BOOLEAN
  BY DEF Inv, TypeOK
<1>b. Farewell \in Seq(Token) /\ (~quit => Farewell = <<>>)
  BY <1>a, FarewellParts
<1>1. CASE OpeningStep
  <2>1. /\ spc \in Opening \cup {"absent"} /\ spc' \in Opening \cup {"absent"}
        /\ cpc' \notin {"ready", "send", "open_reply", "read_reply"}
    <3>1. CASE MakeResponse \/ MakeRequest \/ Setup
      BY <1>0, <3>1 DEF MakeResponse, MakeRequest, MakePipe, Setup, Opening, PhasesMatch
    <3>2. CASE ClientOpensRequest \/ ClientOpensResponse
      BY <1>0, <3>2 DEF ClientOpensRequest, ClientOpensResponse, RequestPipeOpen, ResponsePipeOpen,
           Opening, PhasesMatch
    <3>3. CASE ServerOpensRequest \/ ServerOpensResponse
      BY <1>0, <3>3 DEF ServerOpensRequest, ServerOpensResponse, RequestPipeOpen, ResponsePipeOpen,
           Opening, PhasesMatch
    <3> QED
      BY <1>1, <3>1, <3>2, <3>3 DEF OpeningStep
  <2>2. UNCHANGED <<requestPipe, toSend, local>>
    BY <1>1 DEF OpeningStep, MakeResponse, MakeRequest, MakePipe, Setup, ClientOpensRequest,
         ClientOpensResponse, ServerOpensRequest, ServerOpensResponse, clientVars, serverVars
  <2>3. RequestStream' = <<>> /\ local' \in [Fields -> Token \cup {NoToken}]
    BY <1>0, <2>1, <2>2 DEF RequestStream, RequestsMatch, WorkerRequests
  <2>4. WorkerRequests'
    BY <2>1, <2>3 DEF WorkerRequests, Opening
  <2> QED
    BY <2>1, <2>3, <2>4 DEF RequestsMatch, ClientRequests
<1>2. CASE ReadSessionId \/ OpenReply \/ OpenReplyFails \/ BeginFails \/ FinishQuit \/ Unlink \/ Crash \/ ReadReply
  <2>1. UNCHANGED <<asked, number, quit, cur, toRead, local, requestPipe, toSend, answer, killed, spc>>
    BY <1>2 DEF ReadSessionId, OpenReply, OpenReplyFails, BeginFails, FinishQuit, Unlink, Crash, ReadReply,
       clientVars, serverVars
  <2>2. cpc # "crashed" /\ ~killed
    BY <1>2 DEF ReadSessionId, OpenReply, OpenReplyFails, BeginFails, FinishQuit, Unlink, Crash, ReadReply,
       ClientAlive
  <2>3. InRequest => InRequest'
    BY <2>1, <2>2, InRequestKept
  <2>4. RequestStream' = RequestStream /\ Tokens(asked, number)' = Tokens(asked, number) /\ Farewell' = Farewell
    BY <2>1 DEF RequestStream, Tokens, Farewell
  <2>5. WorkerRequests'
    BY <1>0, <2>1, <2>2, <2>3, <2>4 DEF RequestsMatch, WorkerRequests
  <2>6. ClientRequests'
    <3>1. CASE ReadSessionId
      <4>1. cpc = "read_id" /\ cpc' = "ready" /\ RequestStream = <<>>
        BY <1>0, <3>1 DEF ReadSessionId, RequestsMatch, ClientRequests
      <4>2. toSend = <<>>
        BY <4>1, NothingAsked
      <4> QED
        BY <2>1, <2>4, <4>1, <4>2 DEF ClientRequests
    <3>2. CASE OpenReply \/ OpenReplyFails
      <4>1. cpc = "open_reply" /\ (cpc' = "read_reply" \/ (cpc' = "ready" /\ lost' = TRUE))
        BY <3>2 DEF OpenReply, OpenReplyFails
      <4>2. toSend = <<>> /\ (quit \/ asked \in Ops)
        BY <1>0, <4>1 DEF RequestsMatch, ClientRequests
      <4> QED
        BY <2>1, <4>1, <4>2 DEF ClientRequests
    <3>3. CASE BeginFails
      <4>1. cpc = "ready" /\ cpc' = "ready" /\ lost' = TRUE
        BY <3>3 DEF BeginFails
      <4>2. toSend = <<>>
        BY <1>0, <4>1 DEF RequestsMatch, ClientRequests
      <4> QED
        BY <2>1, <4>1, <4>2 DEF ClientRequests
    <3>4. CASE FinishQuit \/ Unlink \/ Crash
      <4>1. cpc' \in {"unlink_request", "unlink_response", "done", "crashed"}
        BY <3>4 DEF FinishQuit, Unlink, Crash
      <4> QED
        BY <4>1 DEF ClientRequests
    <3>5. CASE ReadReply
      <4>1. cpc = "read_reply" /\ cpc' \in {"read_reply", "ready"} /\ RequestStream = <<>> /\ ~quit
        BY <3>5, ReadOn DEF ReadReply
      <4>2. toSend = <<>> /\ asked \in Ops
        BY <1>0, <4>1 DEF RequestsMatch, ClientRequests
      <4> QED
        BY <2>1, <2>4, <4>1, <4>2 DEF ClientRequests
    <3> QED
      BY <1>2, <3>1, <3>2, <3>3, <3>4, <3>5
  <2> QED
    BY <2>5, <2>6 DEF RequestsMatch
<1>3. CASE SendField
  <2>1. "request" \in serverEnds /\ toSend # <<>> /\ (quit \/ (asked \in Ops /\ spc \notin {"execute", "reply"}))
    BY <1>0, <1>3 DEF PhasesMatch, Opening, SendField, RequestsMatch, ClientRequests
  <2>2. /\ cpc = "send" /\ requestPipe' = Append(requestPipe, Head(toSend)) /\ toSend' = Tail(toSend)
        /\ cpc' = IF Len(toSend) = 1 THEN "open_reply" ELSE "send"
        /\ UNCHANGED <<asked, number, quit, cur, toRead, local, spc, answer, killed>>
    BY <1>3, <2>1 DEF SendField, serverVars
  <2>3. /\ requestPipe' \o toSend' = requestPipe \o toSend
        /\ toSend' \in Seq(Token) /\ Len(toSend') = Len(toSend) - 1
    BY SMTT(30), <1>a, <2>1, <2>2, Shift
  <2>4. RequestStream' = RequestStream /\ Farewell' = Farewell /\ Tokens(asked, number)' = Tokens(asked, number)
    BY <2>2, <2>3 DEF RequestStream, Farewell, Tokens
  <2>5. InRequest => InRequest'
    BY <2>2, <2>4 DEF InRequest, FieldTokens, OpToken, Read, Torn
  <2>6. WorkerRequests'
    BY <1>0, <2>2, <2>4, <2>5 DEF RequestsMatch, WorkerRequests
  <2>7. (cpc' = "send" => toSend' # <<>>) /\ (cpc' = "open_reply" => toSend' = <<>>)
    BY <1>a, <2>1, <2>2, LastOne
  <2>8. cpc' \in {"send", "open_reply"}
    BY <2>2
  <2>9. ClientRequests'
    BY <2>1, <2>2, <2>7, <2>8 DEF ClientRequests
  <2> QED
    BY <2>6, <2>9 DEF RequestsMatch
<1>4. ASSUME NEW op \in Ops, Begin(op) PROVE RequestsMatch'
  <2>1. /\ cpc = "ready" /\ cpc' = "send" /\ left # 0
        /\ asked' = op /\ number' = number + 1 /\ toSend' = Tokens(op, number + 1)
        /\ UNCHANGED <<requestPipe, local, quit, spc>>
    BY <1>4 DEF Begin, serverVars
  <2>a. ~quit /\ ~lost
    BY <1>0, <2>1 DEF QuitMatch, DescriptorsMatch
  <2>b. spc = "read_op" /\ spc' = "read_op"
    BY <1>0, <2>1, <2>a DEF PhasesMatch
  <2>2. requestPipe = <<>>
    BY <2>1, <2>a, NothingAsked
  <2>3. Tokens(op, number + 1) \in Seq(Token) /\ Tokens(op, number + 1) # <<>>
    <3>1. number + 1 \in Nat
      BY <1>a
    <3> QED
      BY <1>4, <3>1, MessageTokens
  <2>4. requestPipe' \o toSend' = Tokens(op, number + 1)
    BY <2>1, <2>2, <2>3, ConcatEmptySeq
  <2>5. RequestStream' = Tokens(op, number + 1) \o <<>>
    BY <2>3, <2>4, ConcatEmptySeq DEF RequestStream
  <2>6. Farewell' = <<>>
    BY <2>1, <2>a DEF Farewell
  <2>7. RequestStream' = (Tokens(asked, number) \o Farewell)'
    BY <2>1, <2>5, <2>6 DEF Tokens
  <2>8. WorkerRequests'
    BY <1>0, <1>4, <2>1, <2>b, <2>7 DEF RequestsMatch, WorkerRequests, Opening
  <2>9. ClientRequests'
    BY <1>4, <2>1, <2>b, <2>3 DEF ClientRequests
  <2> QED
    BY <2>8, <2>9 DEF RequestsMatch
<1>11. CASE BeginQuit
  <2>1. left + InOut > 0
    BY DEF Inv, TypeOK, InOut
  <2>2. /\ cpc = "ready" /\ cpc' = "send" /\ quit' = TRUE /\ toSend' = Tokens("quit", number + 1)
        /\ UNCHANGED <<requestPipe, number, asked, local, spc, cur, toRead, answer, killed>>
    BY <1>11, <2>1 DEF BeginQuit, serverVars
  <2>3. ~quit /\ toSend = <<>> /\ Farewell = <<>>
    BY <1>0, <1>b, <2>2 DEF QuitMatch, RequestsMatch, ClientRequests
  <2>4. Tokens("quit", number + 1) \in Seq(Token) /\ Tokens("quit", number + 1) # <<>>
    <3>1. number + 1 \in Nat
      BY <1>a
    <3> QED
      BY <3>1, MessageTokens
  <2>5. Farewell' = toSend'
    BY <2>2 DEF Farewell, Tokens
  <2>6. RequestStream = requestPipe
    BY <1>a, <2>3, ConcatEmptySeq DEF RequestStream
  <2>7. RequestStream' = RequestStream \o Farewell'
    BY <2>2, <2>5, <2>6 DEF RequestStream
  <2>8. \A t \in Seq(Token) : RequestStream = t \o Farewell => RequestStream' = t \o Farewell'
    BY <2>3, <2>7, ConcatEmptySeq
  <2>9. RequestStream = <<>> => RequestStream' = Farewell'
    BY <2>2, <2>4, <2>5, <2>7, ConcatEmptySeq
  <2>10. spc = "read_op" =>
           RequestStream' = Farewell' \/ (asked \in Ops /\ RequestStream' = (Tokens(asked, number) \o Farewell)')
    <3> SUFFICES ASSUME spc = "read_op", RequestStream # <<>>
                 PROVE  asked \in Ops /\ RequestStream' = (Tokens(asked, number) \o Farewell)'
      BY <2>9
    <3>1. asked \in Ops /\ RequestStream = Tokens(asked, number) \o Farewell
      BY <1>0, <2>3 DEF RequestsMatch, WorkerRequests
    <3>2. Tokens(asked, number) \in Seq(Token)
      BY <1>a, <3>1, MessageTokens
    <3>3. Tokens(asked, number)' = Tokens(asked, number)
      BY <2>2 DEF Tokens
    <3> QED
      BY <2>8, <3>1, <3>2, <3>3
  <2>11. spc \in {"read_args", "execute"} => InRequest'
    <3> SUFFICES ASSUME spc \in {"read_args", "execute"} PROVE InRequest'
      OBVIOUS
    <3>1. InRequest /\ RequestStream = FieldTokens(toRead) \o Farewell
      BY <1>0, <2>2 DEF RequestsMatch, WorkerRequests, InRequest, Torn
    <3>2. FieldTokens(toRead) \in Seq(Token)
      <4>1. CASE toRead = <<>>
        BY <4>1 DEF FieldTokens
      <4>2. CASE toRead # <<>>
        BY <1>a, <3>1, <4>2, FieldTokensParts DEF InRequest
      <4> QED
        BY <4>1, <4>2
    <3>3. FieldTokens(toRead)' = FieldTokens(toRead)
      BY <2>2 DEF FieldTokens
    <3>4. RequestStream' = (FieldTokens(toRead) \o Farewell)'
      BY <2>8, <3>1, <3>2, <3>3
    <3>5. \A f \in Fields : Read(f)' <=> Read(f)
      BY <2>2 DEF Read
    <3>6. cur' = OpToken' /\ asked' \in Ops
      BY <2>2, <3>1 DEF InRequest, OpToken
    <3>7. \A i \in DOMAIN Arguments(asked) :
            \/ Read(Arguments(asked)[i])
            \/ \E j \in DOMAIN toRead : toRead[j] = Arguments(asked)[i]
      BY <2>2, <3>1 DEF InRequest, Torn
    <3> QED
      BY <2>2, <3>4, <3>6, <3>7 DEF InRequest, Read
  <2>12. spc = "reply" => RequestStream' = Farewell'
    BY <1>0, <2>2, <2>3, <2>9 DEF RequestsMatch, WorkerRequests
  <2>13. WorkerRequests'
    BY <1>0, <2>2, <2>10, <2>11, <2>12 DEF RequestsMatch, WorkerRequests, PhasesMatch, Opening
  <2>14. ClientRequests'
    BY <2>2, <2>4 DEF ClientRequests
  <2> QED
    BY <2>13, <2>14 DEF RequestsMatch
<1>5. CASE SendSessionId
  <2>1. /\ spc = "send_id" /\ spc' \in {"send_id", "read_op"}
        /\ UNCHANGED <<cpc, requestPipe, toSend, local, asked, number, quit, lost>>
    BY <1>5 DEF SendSessionId, WriteResponse, clientVars, serverVars
  <2>2. RequestStream' = RequestStream /\ RequestStream = <<>>
    BY <1>0, <2>1 DEF RequestStream, RequestsMatch, WorkerRequests, Opening
  <2>3. Farewell' = <<>>
    BY <1>0, <2>1 DEF Farewell, PhasesMatch, Opening
  <2>4. WorkerRequests'
    BY <1>0, <2>1, <2>2, <2>3 DEF RequestsMatch, WorkerRequests, Opening
  <2>5. ClientRequests'
    BY <1>0, <2>1, <2>2 DEF RequestsMatch, ClientRequests
  <2> QED
    BY <2>4, <2>5 DEF RequestsMatch
<1>6. CASE ReadOpCode
  <2>1. /\ spc = "read_op" /\ requestPipe # <<>> /\ Head(requestPipe).op # "quit"
        /\ cur' = Head(requestPipe) /\ toRead' = Arguments(cur'.op)
        /\ requestPipe' = Tail(requestPipe) /\ spc' = "read_args"
        /\ UNCHANGED <<cpc, asked, number, quit, lost, toSend, local>>
    BY <1>6 DEF ReadOpCode, clientVars
  <2>2. asked \in Ops /\ RequestStream = Tokens(asked, number) \o Farewell /\ cur' = OpToken
    BY <2>1, NextOpCode
  <2>3. toRead' = Arguments(asked)
    BY <2>1, <2>2 DEF OpToken
  <2>4. requestPipe' \o toSend' = Tail(RequestStream)
    BY <1>a, <2>1, Cut DEF RequestStream
  <2>5. RequestStream' = (FieldTokens(toRead) \o Farewell)'
    <3>1. Tokens(asked, number) \in Seq(Token) /\ Tokens(asked, number) # <<>>
      BY <1>a, <2>2, MessageTokens
    <3>2. Tail(Tokens(asked, number) \o Farewell) = Tail(Tokens(asked, number)) \o Farewell
      <4> DEFINE t == Tokens(asked, number)
                 w == Farewell
      <4>1. t \in Seq(Token) /\ t # <<>> /\ w \in Seq(Token)
        BY <1>b, <3>1
      <4> HIDE DEF t, w
      <4>2. Tail(t \o w) = Tail(t) \o w
        BY <4>1, Cut
      <4> QED
        BY <4>2 DEF t, w
    <3>3. Tail(Tokens(asked, number)) =
            [i \in DOMAIN Arguments(asked) |-> [op |-> asked, number |-> number, field |-> Arguments(asked)[i]]]
      BY <1>a, <2>2, ArgumentTokens
    <3>4. FieldTokens(toRead)' =
            [i \in DOMAIN Arguments(asked) |-> [op |-> asked, number |-> number, field |-> Arguments(asked)[i]]]
      BY <2>1, <2>3 DEF FieldTokens
    <3>5. Farewell' = Farewell
      BY <2>1 DEF Farewell, Tokens
    <3> QED
      BY <2>2, <2>4, <3>2, <3>3, <3>4, <3>5 DEF RequestStream
  <2>6. InRequest'
    BY <2>1, <2>2, <2>3, <2>5 DEF InRequest, OpToken
  <2>7. toRead' # <<>>
    BY <2>2, <2>3, MessageParts
  <2>8. WorkerRequests'
    BY <1>0, <2>1, <2>6, <2>7 DEF RequestsMatch, WorkerRequests, Opening
  <2>9. cpc # "read_id" /\ (cpc = "ready" => lost)
    BY <2>1, NothingAsked
  <2>10. ClientRequests'
    BY <1>0, <2>1, <2>9 DEF RequestsMatch, ClientRequests
  <2> QED
    BY <2>8, <2>10 DEF RequestsMatch
<1>7. CASE ReadQuit \/ ReadEnd
  <2>1. /\ spc' = "returned"
        /\ UNCHANGED <<cpc, asked, toSend, local, quit, lost>>
    BY <1>7 DEF ReadQuit, ReadEnd, clientVars, serverVars
  <2>2. cpc \notin {"read_id", "ready"}
    <3>1. PhasesMatch'
      BY PhasesStep
    <3>2. quit \/ ~ClientAlive
      BY <2>1, <3>1 DEF PhasesMatch, ClientAlive
    <3> QED
      BY <1>0, <3>2 DEF QuitMatch, ClientAlive
  <2> QED
    BY <1>0, <2>1, <2>2 DEF RequestsMatch, WorkerRequests, ClientRequests, Opening
<1>8. CASE ReadArgument
  <2>1. /\ spc = "read_args" /\ toRead' = Tail(toRead)
        /\ spc' = IF Len(toRead) = 1 THEN "execute" ELSE "read_args"
        /\ UNCHANGED <<cpc, asked, number, quit, lost, toSend, cur>>
    BY <1>8 DEF ReadArgument, clientVars
  <2>2. InRequest /\ toRead # <<>> /\ local \in [Fields -> Token \cup {NoToken}]
    BY <1>0, <2>1 DEF RequestsMatch, WorkerRequests
  <2>3. /\ Head(toRead) \in Fields /\ Tail(toRead) \in Seq(Fields)
        /\ Len(Tail(toRead)) = Len(toRead) - 1
        /\ \A j \in 1..Len(Tail(toRead)) : Tail(toRead)[j] = toRead[j + 1]
    BY <1>a, <2>2, HeadTailProperties
  <2>4. spc' \in {"read_args", "execute"} /\ (spc' = "read_args" <=> toRead' # <<>>)
    BY <1>a, <2>1, <2>2, LastOne
  <2>a. asked \in Ops /\ cur' = OpToken'
    BY <2>1, <2>2 DEF InRequest, OpToken
  <2>5. CASE requestPipe # <<>>
    <3>1. local' = [local EXCEPT ![Head(toRead)] = Head(requestPipe)] /\ requestPipe' = Tail(requestPipe)
      BY <1>8, <2>5 DEF ReadArgument
    <3>3. /\ RequestStream = FieldTokens(toRead) \o Farewell
          /\ Head(requestPipe) = [op |-> asked, number |-> number, field |-> Head(toRead)]
          /\ Tail(requestPipe) \o toSend = FieldTokens(Tail(toRead)) \o Farewell
      BY <2>1, <2>5, NextArgument
    <3>4. Head(requestPipe) \in Token
      BY <1>a, <2>5
    <3>5. RequestStream' = (FieldTokens(toRead) \o Farewell)'
      <4>1. FieldTokens(toRead)' = FieldTokens(Tail(toRead)) /\ Farewell' = Farewell
        BY <2>1 DEF FieldTokens, Farewell, Tokens
      <4> QED
        BY <2>1, <3>1, <3>3, <4>1 DEF RequestStream
    <3>6. \A f \in Fields : f = Head(toRead) \/ Read(f) => Read(f)'
      <4> SUFFICES ASSUME NEW f \in Fields, f = Head(toRead) \/ Read(f) PROVE Read(f)'
        OBVIOUS
      <4>1. CASE f = Head(toRead)
        <5>1. local'[f] = Head(requestPipe)
          BY <2>2, <3>1, <3>4, <4>1
        <5> QED
          BY <2>1, <3>3, <4>1, <5>1 DEF Read
      <4>2. CASE f # Head(toRead) /\ Read(f)
        <5>1. local'[f] = local[f]
          BY <2>2, <3>1, <4>2
        <5> QED
          BY <2>1, <4>2, <5>1 DEF Read
      <4> QED
        BY <4>1, <4>2
    <3>7. ASSUME NEW i \in DOMAIN Arguments(asked)
          PROVE  \/ Read(Arguments(asked)[i])'
                 \/ \E j \in DOMAIN toRead' : toRead'[j] = Arguments(asked)[i]
      <4>1. PICK f \in Fields : f = Arguments(asked)[i]
        BY <2>a, MessageParts
      <4>2. CASE Read(f)
        BY <2>1, <3>6, <4>1, <4>2 DEF Read
      <4>3. CASE \E j \in DOMAIN toRead : toRead[j] = f
        <5>1. PICK j \in 1..Len(toRead) : toRead[j] = f
          BY <1>a, <4>3
        <5>2. CASE j = 1
          <6>1. f = Head(toRead)
            BY <1>a, <2>2, <5>1, <5>2
          <6> QED
            BY <2>1, <3>6, <4>1, <6>1 DEF Read
        <5>3. CASE j # 1
          <6>1. j - 1 \in 1..Len(Tail(toRead)) /\ Tail(toRead)[j - 1] = f
            BY <1>a, <2>3, <5>1, <5>3
          <6>2. j - 1 \in DOMAIN toRead' /\ toRead'[j - 1] = f
            BY <2>1, <2>3, <6>1
          <6> QED
            BY <4>1, <6>2
        <5> QED
          BY <5>2, <5>3
      <4> QED
        BY <2>2, <2>5, <4>1, <4>2, <4>3 DEF InRequest, Torn
    <3>8. InRequest'
      BY <2>1, <2>a, <3>5, <3>7 DEF InRequest
    <3>9. local' \in [Fields -> Token \cup {NoToken}]
      BY <2>2, <3>1, <3>4
    <3>10. WorkerRequests'
      BY <2>4, <3>8, <3>9 DEF WorkerRequests, Opening
    <3>11. spc' = "execute" => quit \/ toSend = <<>>
      <4>1. SUFFICES ASSUME spc' = "execute", ~quit PROVE toSend = <<>>
        OBVIOUS
      <4>2. FieldTokens(toRead)' = <<>> /\ Farewell' = <<>>
        BY <2>1, <2>4, <4>1 DEF FieldTokens, Farewell
      <4>3. Tail(requestPipe) \o toSend = <<>> /\ Tail(requestPipe) \in Seq(Token)
        BY <1>a, <2>1, <2>5, <3>1, <3>5, <4>2, HeadTailProperties, ConcatEmptySeq DEF RequestStream
      <4> QED
        BY <1>a, <4>3, ConcatEqualIffEmpty
    <3>12. cpc # "read_id" /\ (cpc = "ready" => lost)
      BY <2>5, NothingAsked
    <3>13. ClientRequests'
      BY <1>0, <2>1, <2>4, <3>11, <3>12 DEF RequestsMatch, ClientRequests
    <3> QED
      BY <3>10, <3>13 DEF RequestsMatch
  <2>6. CASE requestPipe = <<>>
    <3>1. local' = local /\ requestPipe' = requestPipe /\ ~ClientAlive
      BY <1>8, <2>6 DEF ReadArgument, RequestWriter
    <3>2. Torn
      BY <2>1, <2>6, <3>1, EndInRequest
    <3>4. InRequest'
      BY <2>1, <2>6, <2>a, <3>1, <3>2 DEF InRequest, Torn
    <3>5. WorkerRequests'
      BY <2>2, <2>4, <3>1, <3>4 DEF WorkerRequests, Opening
    <3>6. ClientRequests'
      BY <2>1, <3>2 DEF ClientRequests, Torn
    <3> QED
      BY <3>5, <3>6 DEF RequestsMatch
  <2> QED
    BY <2>5, <2>6
<1>9. CASE Execute
  <2>1. /\ spc = "execute" /\ spc' = "reply"
        /\ UNCHANGED <<cpc, requestPipe, toSend, local, asked, number, quit, lost>>
    BY <1>9 DEF Execute, clientVars
  <2>2. InRequest /\ toRead = <<>>
    BY <1>0, <2>1 DEF RequestsMatch, WorkerRequests
  <2>3. RequestStream = Farewell \/ cpc = "crashed"
    <3>1. FieldTokens(toRead) = <<>>
      BY <2>2 DEF FieldTokens
    <3> QED
      BY <1>b, <2>2, <3>1, ConcatEmptySeq DEF InRequest, Torn
  <2>4. RequestStream' = RequestStream /\ Farewell' = Farewell
    BY <2>1 DEF RequestStream, Farewell, Tokens
  <2>5. answer' # <<>>
    <3>1. PICK n \in Replies(cur.op) :
            answer' = [i \in DOMAIN n |-> [number |-> cur.number, value |-> n[i]]]
      BY <1>9 DEF Execute
    <3>2. cur.op \in Ops
      BY <2>2 DEF InRequest, OpToken
    <3>3. n \in Seq(Nat) /\ Len(n) # 0
      BY <3>2, ReplyLength
    <3> QED
      BY <3>1, <3>3
  <2>6. WorkerRequests'
    BY <1>0, <2>1, <2>2, <2>3, <2>4, <2>5 DEF RequestsMatch, WorkerRequests, Opening, InRequest
  <2>7. cpc = "send" => quit
    BY <1>0, <2>1 DEF RequestsMatch, ClientRequests
  <2>8. ClientRequests'
    BY <1>0, <2>1, <2>4, <2>7 DEF RequestsMatch, ClientRequests
  <2> QED
    BY <2>6, <2>8 DEF RequestsMatch
<1>10. CASE WriteReply
  <2>1. /\ spc = "reply" /\ answer' = Tail(answer) /\ ~killed
        /\ UNCHANGED <<cpc, requestPipe, toSend, local, asked, number, quit, lost>>
        /\ \/ killed' /\ spc' = "reply"
           \/ cpc # "crashed" /\ spc' = IF Len(answer) = 1 THEN "read_op" ELSE "reply"
    BY <1>10 DEF WriteReply, WriteResponse, ResponseReader, ClientAlive, clientVars
  <2>2. /\ asked \in Ops /\ answer # <<>> /\ answer \in Seq(ReplyToken)
        /\ RequestStream = Farewell \/ cpc = "crashed"
    BY <1>0, <2>1 DEF Inv, TypeOK, RequestsMatch, WorkerRequests
  <2>3. RequestStream' = RequestStream /\ Farewell' = Farewell
    BY <2>1 DEF RequestStream, Farewell, Tokens
  <2>4. Len(answer) # 1 => Tail(answer) # <<>>
    BY <2>2, LastOne
  <2>5. WorkerRequests'
    BY <1>0, <2>1, <2>2, <2>3, <2>4 DEF RequestsMatch, WorkerRequests, Opening
  <2>6. cpc = "send" => quit
    BY <1>0, <2>1 DEF RequestsMatch, ClientRequests
  <2>7. ClientRequests'
    BY <1>0, <2>1, <2>3, <2>6 DEF RequestsMatch, ClientRequests
  <2> QED
    BY <2>5, <2>7 DEF RequestsMatch
<1> QED
  BY <1>1, <1>2, <1>3, <1>4, <1>5, <1>6, <1>7, <1>8, <1>9, <1>10, <1>11
     DEF Next, Client, Talk, Server, Listen, OpeningStep

-----------------------------------------------------------------------------
(* The stream of replies *)

\* A step that touches neither the reply nor the request, taken by a client
\* that goes on to another state or by a worker that does not reply.
RepliesUntouched == UNCHANGED <<asked, number, got, responsePipe, answer, killed, lost, quit>>

\* It keeps what there is of the reply.
LEMMA WholeKept ==
  ASSUME RepliesUntouched
  PROVE  (WholeReply <=> WholeReply') /\ (Unanswered <=> Unanswered')
  BY DEF RepliesUntouched, WholeReply, ReplyTokens, Unanswered

\* Writing a number and reading one leave the reply whole (main.c:229-365,
\* api.c:226-248, 371-422, 473-517).
LEMMA RepliesStep ==
  ASSUME Inv, Next
  PROVE  RepliesInv' /\ RepliesMatch'
<1>0. /\ RequestsMatch /\ PhasesMatch /\ QuitMatch /\ DescriptorsMatch /\ RepliesInv /\ RepliesMatch
      /\ (Attends => RepliesFlow)
  BY DEF Inv, RepliesInv
<1>a. /\ requestPipe \in Seq(Token) /\ toSend \in Seq(Token)
      /\ responsePipe \in Seq(ReplyToken) /\ got \in Seq(ReplyToken) /\ answer \in Seq(ReplyToken)
      /\ number \in Nat
  BY DEF Inv, TypeOK
<1>b. ~quit => Farewell = <<>>
  BY DEF Farewell
<1>1. CASE OpeningStep
  <2>1. /\ RepliesUntouched /\ UNCHANGED <<requestPipe, toSend>> /\ ~killed /\ (cpc' # "crashed" => cpc # "crashed")
    BY <1>1 DEF OpeningStep, MakeResponse, MakeRequest, MakePipe, Setup, ClientOpensRequest,
         ClientOpensResponse, ServerOpensRequest, ServerOpensResponse, RequestPipeOpen,
         ResponsePipeOpen, clientVars, serverVars, RepliesUntouched
  <2>2. /\ spc \in Opening \cup {"absent"} /\ spc' \in Opening \cup {"absent"}
        /\ cpc' \notin {"send", "open_reply", "read_reply", "ready"}
        /\ cpc' = "read_id" => spc' = "send_id"
    <3>1. CASE MakeResponse \/ MakeRequest \/ Setup
      BY <1>0, <3>1 DEF MakeResponse, MakeRequest, MakePipe, Setup, Opening, PhasesMatch
    <3>2. CASE ClientOpensRequest \/ ClientOpensResponse
      BY <1>0, <3>2 DEF ClientOpensRequest, ClientOpensResponse, RequestPipeOpen, ResponsePipeOpen,
           Opening, PhasesMatch
    <3>3. CASE ServerOpensRequest \/ ServerOpensResponse
      BY <1>0, <3>3 DEF ServerOpensRequest, ServerOpensResponse, RequestPipeOpen, ResponsePipeOpen,
           Opening, PhasesMatch
    <3> QED
      BY <1>1, <3>1, <3>2, <3>3 DEF OpeningStep
  <2>3. Attends' => RepliesFlow'
    BY <1>0, <2>1, <2>2 DEF RepliesFlow, RepliesUntouched, Opening, Attends
  <2> QED
    BY <1>0, <2>1, <2>2, <2>3 DEF RepliesInv, RepliesMatch, RepliesUntouched
<1>2. CASE ReadSessionId
  <2>1. /\ cpc = "read_id" /\ cpc' = "ready" /\ responsePipe # <<>> /\ responsePipe' = Tail(responsePipe) /\ ~killed
        /\ UNCHANGED <<requestPipe, toSend, spc, asked, number, got, answer, killed, lost, quit>>
    BY <1>2 DEF ReadSessionId, clientVars, serverVars
  <2>2. RepliesFlow
    BY <1>0, <2>1 DEF Attends, QuitMatch, DescriptorsMatch
  <2>3. Len(responsePipe) = 1 /\ spc = "read_op" /\ number = 0 /\ got = <<>> /\ RequestStream = <<>>
    BY <1>0, <2>1, <2>2 DEF RepliesFlow, PhasesMatch, RequestsMatch, ClientRequests
  <2>4. responsePipe' = <<>>
    BY <1>a, <2>1, <2>3, LastOne
  <2>5. RequestStream' = <<>>
    BY <2>1, <2>3 DEF RequestStream
  <2>6. RepliesFlow'
    BY <2>1, <2>2, <2>3, <2>4, <2>5 DEF RepliesFlow, Opening
  <2> QED
    BY <1>0, <2>1, <2>3, <2>4, <2>6 DEF RepliesInv, RepliesMatch
<1>3. CASE OpenReply
  <2>1. /\ UNCHANGED <<asked, number, got, responsePipe, answer, killed, lost, quit, requestPipe, toSend, spc>>
        /\ cpc = "open_reply" /\ cpc' = "read_reply" /\ ~killed /\ ~quit
    BY <1>3 DEF OpenReply, serverVars
  <2>2. RequestStream' = RequestStream /\ RepliesUntouched
    BY <2>1 DEF RequestStream, RepliesUntouched
  <2>3. RepliesFlow
    BY <1>0, <2>1 DEF Attends, DescriptorsMatch
  <2>4. RepliesFlow'
    BY <2>1, <2>2, <2>3, WholeKept DEF RepliesFlow, Unanswered
  <2> QED
    BY <1>0, <2>1, <2>4 DEF RepliesInv, RepliesMatch
<1>13. CASE FinishQuit \/ Unlink \/ Crash \/ OpenReplyFails \/ BeginFails \/ BeginQuit
  <2>1. /\ UNCHANGED <<number, got, responsePipe, killed, spc>>
        /\ \/ quit' \/ lost'
           \/ cpc' = "crashed"
    BY <1>0, <1>13 DEF FinishQuit, Unlink, Crash, OpenReplyFails, BeginFails, BeginQuit, clientVars, serverVars, QuitMatch
  <2>2. cpc' = "ready" => lost'
    BY <1>13 DEF FinishQuit, Unlink, Crash, OpenReplyFails, BeginFails, BeginQuit
  <2> QED
    BY <1>0, <2>1, <2>2 DEF RepliesInv, RepliesMatch, Attends
<1>4. ASSUME NEW op \in Ops, Begin(op) PROVE RepliesInv' /\ RepliesMatch'
  <2>1. /\ cpc = "ready" /\ cpc' = "send" /\ got' = <<>> /\ ~killed /\ left # 0
        /\ UNCHANGED <<responsePipe, spc, answer, killed, lost, quit>>
    BY <1>4 DEF Begin, serverVars
  <2>2. ~quit /\ ~lost
    BY <1>0, <2>1 DEF QuitMatch, DescriptorsMatch
  <2>3. spc = "read_op" /\ responsePipe = <<>> /\ answer = <<>>
    BY <1>0, <2>1, <2>2 DEF PhasesMatch, RepliesMatch, RepliesFlow, Attends
  <2>4. RepliesFlow'
    BY <2>1, <2>3 DEF RepliesFlow, Unanswered, Opening
  <2> QED
    BY <2>1, <2>3, <2>4 DEF RepliesInv, RepliesMatch
<1>5. CASE SendField
  <2>1. "request" \in serverEnds /\ toSend # <<>> /\ (quit \/ spc \notin {"execute", "reply"})
    BY <1>0, <1>5 DEF PhasesMatch, Opening, SendField, RequestsMatch, ClientRequests
  <2>2. /\ RepliesUntouched /\ UNCHANGED spc /\ cpc = "send" /\ cpc' \in {"send", "open_reply"} /\ ~killed
        /\ requestPipe' = Append(requestPipe, Head(toSend)) /\ toSend' = Tail(toSend)
    BY <1>5, <2>1 DEF SendField, serverVars, RepliesUntouched
  <2>3. requestPipe' \o toSend' = requestPipe \o toSend
    BY SMTT(30), <1>a, <2>1, <2>2, Shift
  <2>4. RequestStream' = RequestStream /\ RequestStream # <<>>
    BY <1>a, <2>1, <2>3, ConcatEqualIffEmpty DEF RequestStream
  <2>5. Attends' => RepliesFlow'
    <3> SUFFICES ASSUME Attends' PROVE RepliesFlow'
      OBVIOUS
    <3>1. Attends /\ RepliesFlow
      BY <1>0, <2>2 DEF Attends, RepliesUntouched
    <3>2. spc \notin {"execute", "reply"}
      BY <2>1, <3>1 DEF Attends
    <3> QED
      BY <2>2, <2>4, <3>1, <3>2, WholeKept DEF RepliesFlow, RepliesUntouched, Unanswered
  <2> QED
    BY <1>0, <2>2, <2>5 DEF RepliesInv, RepliesMatch, RepliesUntouched
<1>6. CASE ReadReply
  <2>1. /\ cpc = "read_reply" /\ responsePipe # <<>> /\ got' = Append(got, Head(responsePipe)) /\ ~killed
        /\ responsePipe' = Tail(responsePipe)
        /\ cpc' = IF ReplyComplete(asked, Numbers(got')) THEN "ready" ELSE "read_reply"
        /\ UNCHANGED <<requestPipe, toSend, spc, asked, number, answer, killed>>
    BY <1>6 DEF ReadReply, serverVars
  <2>2. /\ spc \in {"read_op", "reply"} /\ RequestStream = <<>> /\ WholeReply /\ Head(responsePipe).number = number
        /\ ~quit /\ ~lost
    BY <1>6, ReadOn
  <2>3. RequestStream' = <<>>
    BY <2>1, <2>2 DEF RequestStream
  <2>4. got' \o (responsePipe' \o answer') = got \o (responsePipe \o answer)
    BY SMTT(30), <1>a, <2>1, ShiftOfThree
  <2>5. WholeReply'
    BY <2>1, <2>2, <2>4 DEF WholeReply, ReplyTokens
  <2>6. RepliesFlow
    BY <1>0, <2>1, <2>2 DEF Attends
  <2>7. RepliesFlow'
    BY <2>1, <2>2, <2>3, <2>5, <2>6 DEF RepliesFlow, Opening
  <2>8. \A i \in DOMAIN got' : got'[i].number = number
    <3>1. got' \in Seq(ReplyToken) /\ Len(got') = Len(got) + 1 /\ Len(got) \in Nat
            /\ got'[Len(got) + 1] = Head(responsePipe) /\ \A i \in 1..Len(got) : got'[i] = got[i]
      BY <1>a, <2>1
    <3>2. \A i \in 1..Len(got) : got[i].number = number
      BY <1>0, <1>a DEF RepliesInv
    <3> QED
      BY <2>2, <3>1, <3>2
  <2>9. RepliesMatch'
    BY <1>6, <2>1, <2>8, ReadOn DEF RepliesMatch
  <2> QED
    BY <2>1, <2>7, <2>8, <2>9 DEF RepliesInv
<1>7. CASE SendSessionId
  <2>1. /\ spc = "send_id" /\ ~killed
        /\ UNCHANGED <<cpc, asked, number, got, requestPipe, toSend, answer, lost, quit>>
        /\ \/ killed' /\ UNCHANGED <<responsePipe, spc>>
           \/ /\ ResponseReader /\ spc' = "read_op" /\ ~killed'
              /\ responsePipe' = Append(responsePipe, [number |-> 0, value |-> 0])
    BY <1>7 DEF SendSessionId, WriteResponse, clientVars, serverVars
  <2>2. cpc # "ready"
    BY <1>0, <2>1 DEF PhasesMatch
  <2>3. CASE killed'
    BY <1>0, <2>1, <2>2, <2>3 DEF RepliesInv, RepliesMatch, Attends
  <2>4. CASE ~killed'
    <3>1. cpc = "read_id"
      BY <1>0, <2>1, <2>4 DEF PhasesMatch, ResponseReader, ClientAlive, Inv, TypeOK, Opening
    <3>2. RepliesFlow
      BY <1>0, <2>1, <3>1 DEF Attends, PhasesMatch, Opening
    <3>3. RequestStream' = <<>> /\ responsePipe = <<>> /\ number = 0 /\ got = <<>> /\ answer = <<>>
      BY <1>0, <2>1, <3>1, <3>2 DEF RequestStream, RequestsMatch, ClientRequests, RepliesFlow
    <3>4. Len(responsePipe') = 1
      BY <2>1, <2>4, <3>3
    <3>5. RepliesFlow'
      BY <2>1, <2>4, <3>1, <3>3, <3>4 DEF RepliesFlow, Opening
    <3> QED
      BY <1>0, <2>1, <2>2, <2>4, <3>5 DEF RepliesInv, RepliesMatch
  <2> QED
    BY <2>3, <2>4
<1>8. CASE ReadOpCode
  <2>1. /\ spc = "read_op" /\ requestPipe # <<>> /\ spc' = "read_args" /\ ~killed
        /\ RepliesUntouched /\ UNCHANGED cpc
    BY <1>8 DEF ReadOpCode, clientVars, RepliesUntouched
  <2>2. RequestStream # <<>>
    BY <1>a, <2>1, ConcatEqualIffEmpty DEF RequestStream
  <2>3. cpc # "read_id" /\ (cpc = "ready" => lost)
    BY <2>1, NothingAsked
  <2>4. Attends' => RepliesFlow'
    BY <1>0, <2>1, <2>2, <2>3, WholeKept DEF RepliesFlow, Opening, RepliesUntouched, Attends
  <2> QED
    BY <1>0, <2>1, <2>3, <2>4 DEF RepliesInv, RepliesMatch, RepliesUntouched
<1>9. CASE ReadQuit \/ ReadEnd
  <2>1. /\ spc = "read_op" /\ spc' = "returned" /\ ~killed
        /\ RepliesUntouched /\ UNCHANGED cpc
    BY <1>9 DEF ReadQuit, ReadEnd, clientVars, serverVars, RepliesUntouched
  <2>2. PhasesMatch'
    BY PhasesStep
  <2>3. quit \/ ~ClientAlive
    BY <2>1, <2>2 DEF PhasesMatch, ClientAlive, RepliesUntouched
  <2>4. cpc \notin {"read_id", "ready"}
    BY <1>0, <2>3 DEF QuitMatch, ClientAlive
  <2>5. Attends' => RepliesFlow'
    BY <1>0, <2>1, <2>3, <2>4, WholeKept DEF RepliesFlow, Opening, RepliesUntouched, Attends, ClientAlive,
       PhasesMatch, QuitMatch
  <2> QED
    BY <1>0, <2>1, <2>4, <2>5 DEF RepliesInv, RepliesMatch, RepliesUntouched
<1>10. CASE ReadArgument
  <2>1. /\ spc = "read_args" /\ spc' \in {"read_args", "execute"} /\ ~killed
        /\ RepliesUntouched /\ UNCHANGED cpc
    BY <1>10 DEF ReadArgument, clientVars, RepliesUntouched
  <2>2. cpc # "read_id" /\ (cpc = "ready" => lost)
    BY <1>0, <2>1 DEF PhasesMatch
  <2>3. Attends' => RepliesFlow'
    BY <1>0, <2>1, <2>2, WholeKept DEF RepliesFlow, Opening, RepliesUntouched, Attends
  <2> QED
    BY <1>0, <2>1, <2>2, <2>3 DEF RepliesInv, RepliesMatch, RepliesUntouched
<1>11. CASE Execute
  <2>1. /\ spc = "execute" /\ spc' = "reply" /\ ~killed
        /\ UNCHANGED <<cpc, asked, number, got, responsePipe, killed, lost, quit>>
    BY <1>11 DEF Execute, clientVars
  <2>2. cpc # "read_id" /\ (cpc = "ready" => lost) /\ (cpc = "send" => quit) /\ cur = OpToken
    BY <1>0, <2>1 DEF PhasesMatch, RequestsMatch, WorkerRequests, ClientRequests, InRequest
  <2>3. PICK n \in Replies(asked) : answer' = ReplyTokens(n)
    BY <1>11, <2>2 DEF Execute, OpToken, ReplyTokens
  <2>4. Attends' => RepliesFlow'
    <3> SUFFICES ASSUME Attends' PROVE RepliesFlow'
      OBVIOUS
    <3>0. RepliesFlow /\ ~lost /\ ~quit
      BY <1>0, <2>1 DEF Attends
    <3>1. got = <<>> /\ responsePipe = <<>>
      BY <2>1, <3>0 DEF RepliesFlow, Unanswered
    <3>2. answer' \in Seq(ReplyToken)
      BY TypeStep DEF TypeOK
    <3>3. got' \o (responsePipe' \o answer') = answer'
      BY <2>1, <3>1, <3>2, ConcatEmptySeq
    <3>4. WholeReply'
      BY <2>1, <2>3, <3>3 DEF WholeReply, ReplyTokens
    <3> QED
      BY <2>1, <2>2, <3>0, <3>1, <3>4 DEF RepliesFlow, Opening
  <2> QED
    BY <1>0, <2>1, <2>2, <2>4 DEF RepliesInv, RepliesMatch
<1>12. CASE WriteReply
  <2>1. /\ spc = "reply" /\ answer' = Tail(answer) /\ ~killed
        /\ UNCHANGED <<cpc, asked, number, got, requestPipe, toSend, lost, quit>>
        /\ \/ killed' /\ UNCHANGED spc
           \/ /\ ~killed' /\ cpc # "crashed" /\ spc' = IF Len(answer) = 1 THEN "read_op" ELSE "reply"
              /\ responsePipe' = Append(responsePipe, Head(answer))
    BY <1>12 DEF WriteReply, WriteResponse, ResponseReader, ClientAlive, clientVars
  <2>2. cpc # "read_id" /\ (cpc = "ready" => lost) /\ (cpc = "send" => quit)
    BY <1>0, <2>1 DEF PhasesMatch, RequestsMatch, ClientRequests
  <2>3. CASE killed'
    BY <1>0, <2>1, <2>2, <2>3 DEF RepliesInv, RepliesMatch, Attends
  <2>4. CASE ~killed'
    <3>0. SUFFICES Attends' => RepliesFlow'
      BY <1>0, <2>1, <2>2, <2>4 DEF RepliesInv, RepliesMatch
    <3> SUFFICES ASSUME Attends PROVE RepliesFlow'
      BY <2>1, <3>0 DEF Attends
    <3>1. RepliesFlow /\ WholeReply /\ answer # <<>> /\ RequestStream = <<>> /\ ~quit /\ ~lost
      BY <1>0, <1>b, <2>1, <2>4 DEF RepliesFlow, RequestsMatch, WorkerRequests, Attends
    <3>2. RequestStream' = <<>>
      BY <2>1, <3>1 DEF RequestStream
    <3>3. responsePipe' \o answer' = responsePipe \o answer
      BY ZenonT(60), <1>a, <2>1, <2>4, <3>1, Shift
    <3>4. WholeReply'
      BY <2>1, <3>1, <3>3 DEF WholeReply, ReplyTokens
    <3>5. Len(answer) = 1 => answer' = <<>>
      BY <1>a, <2>1, <3>1, LastOne
    <3> QED
      BY <2>1, <2>2, <2>4, <3>1, <3>2, <3>4, <3>5 DEF RepliesFlow, Opening
  <2> QED
    BY <2>3, <2>4
<1> QED
  BY <1>1, <1>2, <1>3, <1>4, <1>5, <1>6, <1>7, <1>8, <1>9, <1>10, <1>11, <1>12, <1>13
     DEF Next, Client, Talk, Server, Listen, OpeningStep

-----------------------------------------------------------------------------
(* The theorems *)

\* The invariant holds before anything is opened.
LEMMA InitInv == Init => Inv
<1> SUFFICES ASSUME Init PROVE Inv
  OBVIOUS
<1>1. /\ cpc = "make_response" /\ spc = "absent" /\ requestPipe = <<>> /\ responsePipe = <<>>
      /\ number = 0 /\ toSend = <<>> /\ got = <<>> /\ answer = <<>> /\ killed = FALSE
      /\ local = [f \in Fields |-> NoToken]
      /\ left = Descriptors /\ kept = 0 /\ lost = FALSE /\ quit = FALSE
  BY DEF Init
<1>2. RequestStream = <<>>
  BY <1>1 DEF RequestStream
<1>3. PhasesMatch /\ QuitMatch /\ FilesMatch
  BY <1>1 DEF PhasesMatch, QuitMatch, FilesMatch, ClientAlive, Opening
<1>6. DescriptorsMatch
  BY <1>1, SessionAssumption DEF DescriptorsMatch, InUse
<1>4. RequestsMatch
  BY <1>1, <1>2 DEF RequestsMatch, WorkerRequests, ClientRequests
<1>5. RepliesInv /\ RepliesMatch
  BY <1>1 DEF RepliesInv, RepliesFlow, RepliesMatch, Opening
<1> QED
  BY <1>3, <1>4, <1>5, <1>6, InitType DEF Inv

\* Every step keeps the invariant.
LEMMA InvStep ==
  ASSUME Inv, [Next]_vars
  PROVE  Inv'
<1>1. CASE Next
  BY <1>1, TypeStep, PhasesStep, QuitStep, DescriptorsStep, FilesStep, RequestsStep, RepliesStep DEF Inv
<1>2. CASE UNCHANGED vars
  <2>1. TypeOK' /\ PhasesMatch' /\ QuitMatch' /\ FilesMatch'
    BY <1>2 DEF Inv, TypeOK, PhasesMatch, QuitMatch, FilesMatch, ClientAlive, vars, clientVars, serverVars
  <2>2. DescriptorsMatch'
    BY <1>2 DEF Inv, DescriptorsMatch, InUse, vars, clientVars
  <2>3. RequestsMatch'
    BY <1>2 DEF Inv, RequestsMatch, WorkerRequests, ClientRequests, InRequest, RequestStream, FieldTokens,
       OpToken, Read, Torn, Tokens, Farewell, vars, clientVars, serverVars
  <2>4. RepliesInv' /\ RepliesMatch'
    BY <1>2 DEF Inv, RepliesInv, RepliesFlow, Attends, RequestStream, WholeReply, ReplyTokens, Unanswered,
       RepliesMatch, vars, clientVars, serverVars
  <2> QED
    BY <2>1, <2>2, <2>3, <2>4 DEF Inv
<1> QED
  BY <1>1, <1>2

\* The inductive invariant of the session holds in every state.
THEOREM SessionInvariance == Spec => []Inv
<1>1. Inv /\ [Next]_vars => Inv'
  BY InvStep
<1> QED
  BY InitInv, <1>1, PTL DEF Spec

\* Pipes never hold more than their capacity, and each local variable of the
\* worker is only read from the field it is named after.
THEOREM SessionTypeCorrect == Spec => []TypeOK
<1>1. Inv => TypeOK
  BY DEF Inv
<1> QED
  BY SessionInvariance, <1>1, PTL

\* However the writes of the client and the reads of the worker interleave in
\* the pipe, an operation runs on the arguments of its own request, unless the
\* client died while it wrote them (main.c:268-300, api.c:192-218).
THEOREM FramingKept == Spec => []Framing
<1>1. Inv => Framing
  <2> SUFFICES ASSUME Inv, spc = "execute"
               PROVE  \/ \A i \in DOMAIN Arguments(cur.op) :
                           local[Arguments(cur.op)[i]] =
                             [op |-> cur.op, number |-> cur.number, field |-> Arguments(cur.op)[i]]
                      \/ cpc = "crashed" /\ toSend # <<>> /\ ~quit
    BY DEF Framing
  <2>1. InRequest /\ toRead = <<>>
    BY DEF Inv, RequestsMatch, WorkerRequests
  <2>2. cur.op = asked /\ cur.number = number
    BY <2>1 DEF InRequest, OpToken
  <2> QED
    BY <2>1, <2>2 DEF InRequest, Torn, Read
<1> QED
  BY SessionInvariance, <1>1, PTL

\* The replies the client reads are those to its own requests, each read to its
\* end and no further (api.c:226-248, 371-422, 473-517).
THEOREM RepliesAreOwn == Spec => []RepliesMatch
<1>1. Inv => RepliesMatch
  BY DEF Inv
<1> QED
  BY SessionInvariance, <1>1, PTL

\* Nobody opens a pipe by name that is not there, and only ems_quit leaves no
\* pipe behind (api.c:59-73, 171-172).
THEOREM PathsHavePipes == Spec => []PipesOnPaths
<1>1. Inv => PipesOnPaths
  BY DEF Inv, FilesMatch, PipesOnPaths, Opening
<1> QED
  BY SessionInvariance, <1>1, PTL

\* Of the client's descriptors only refused calls cost any, two each, and what
\* they leave is enough for ems_quit (api.c:187-248, client/main.c:130-142).
THEOREM DescriptorsCount == Spec => []OnlyRefusedLeak
<1>1. Inv => OnlyRefusedLeak
  <2> SUFFICES ASSUME Inv PROVE OnlyRefusedLeak
    OBVIOUS
  <2>1. ASSUME cpc = "ready", ~lost PROVE left + 2 * kept = Descriptors
    <3>1. InUse = 0 /\ ~quit
      BY <2>1 DEF Inv, QuitMatch, InUse
    <3>2. left \in Nat /\ kept \in Nat
      BY DEF Inv, TypeOK
    <3> QED
      BY <2>1, <3>1, <3>2 DEF Inv, DescriptorsMatch
  <2>2. (lost => Descriptors <= 2 * kept + 1) /\ (cpc = "failed" => spc = "absent")
    BY DEF Inv, DescriptorsMatch, PhasesMatch
  <2> QED
    BY <2>1, <2>2 DEF OnlyRefusedLeak
<1> QED
  BY SessionInvariance, <1>1, PTL

-----------------------------------------------------------------------------
(* Nobody waits for nobody *)

\* Whose turn it is: of two that meet in an open the second waits for nobody,
\* the worker that has left after the op_code of ems_quit has made room for the
\* one token that is left, and the client reads only while its reply is not
\* whole.
TurnsMatch ==
  /\ cpc = "wait_request" => spc = "open_request"
  /\ cpc = "wait_response" => spc = "open_response"
  /\ spc \notin {"absent", "open_request", "wait_request", "open_response", "wait_response"} =>
       "response" \in serverEnds
  /\ cpc = "send" /\ spc = "returned" => requestPipe = <<>> /\ Len(toSend) = 1
  /\ cpc = "read_reply" => ~ReplyComplete(asked, Numbers(got))

\* With only ems_quit in the stream, two tokens are in the pipe or to be written.
LEMMA StreamAtQuit ==
  ASSUME Inv, quit, RequestStream = Farewell
  PROVE  Len(requestPipe) + Len(toSend) = 2
<1>1. requestPipe \in Seq(Token) /\ toSend \in Seq(Token) /\ number \in Nat /\ quit \in BOOLEAN
  BY DEF Inv, TypeOK
<1>2. Len(requestPipe \o toSend) = Len(requestPipe) + Len(toSend)
  BY <1>1, ConcatProperties
<1>3. Len(Farewell) = 2
  BY <1>1, FarewellParts
<1> QED
  BY <1>2, <1>3, Zenon DEF RequestStream

\* When the worker reads the op_code of ems_quit while the client still writes,
\* the pipe holds nothing else, and one token is left to write.
LEMMA QuitTokens ==
  ASSUME Inv, ReadQuit, cpc = "send"
  PROVE  requestPipe' = <<>> /\ Len(toSend) = 1
<1>1. /\ requestPipe \in Seq(Token) /\ toSend \in Seq(Token) /\ number \in Nat /\ quit \in BOOLEAN
      /\ requestPipe # <<>> /\ requestPipe' = Tail(requestPipe) /\ spc = "read_op"
      /\ Head(requestPipe).op = "quit"
  BY DEF Inv, TypeOK, ReadQuit
<1>2. toSend # <<>>
  BY DEF Inv, RequestsMatch, ClientRequests
<1>3. quit /\ RequestStream = Farewell
  BY <1>1, NextOpCode DEF OpToken, Ops
<1>4. Len(requestPipe) + Len(toSend) = 2
  BY <1>1, <1>3, StreamAtQuit
<1>6. Len(requestPipe) \in Nat /\ Len(toSend) \in Nat /\ Len(requestPipe) # 0 /\ Len(toSend) # 0
  BY <1>1, <1>2
<1>7. Len(requestPipe) = 1 /\ Len(toSend) = 1
  <2>1. \A m, n \in Nat : m # 0 /\ n # 0 /\ m + n = 2 => m = 1 /\ n = 1
    OBVIOUS
  <2> QED
    BY <1>4, <1>6, <2>1, Zenon
<1>8. Tail(requestPipe) = <<>>
  BY <1>1, <1>7, LastOne
<1> QED
  BY <1>1, <1>7, <1>8

\* Every step leaves the turns as they should be.
LEMMA TurnsStep ==
  ASSUME Inv, TurnsMatch, Next
  PROVE  TurnsMatch'
<1>1. CASE MakeResponse \/ MakeRequest \/ Setup
  BY <1>1 DEF MakeResponse, MakeRequest, MakePipe, Setup, TurnsMatch, Inv, PhasesMatch, clientVars, serverVars
<1>2. CASE ClientOpensRequest \/ ServerOpensRequest
  BY <1>2 DEF ClientOpensRequest, ServerOpensRequest, RequestPipeOpen, TurnsMatch, Inv, PhasesMatch, clientVars
<1>3. CASE ClientOpensResponse \/ ServerOpensResponse
  BY <1>3 DEF ClientOpensResponse, ServerOpensResponse, ResponsePipeOpen, TurnsMatch, Inv, PhasesMatch, clientVars
<1>4. CASE ReadSessionId \/ FinishQuit \/ Unlink \/ Crash \/ OpenReplyFails \/ BeginFails
  BY <1>4 DEF ReadSessionId, FinishQuit, Unlink, Crash, OpenReplyFails, BeginFails, TurnsMatch, clientVars, serverVars
<1>5. CASE BeginQuit \/ \E op \in Ops : Begin(op)
  BY <1>5 DEF Begin, BeginQuit, TurnsMatch, Inv, PhasesMatch, serverVars
<1>6. CASE SendField
  <2>1. requestPipe \in Seq(Token) /\ toSend \in Seq(Token) /\ toSend # <<>>
    BY <1>6 DEF SendField, Inv, TypeOK, RequestsMatch, ClientRequests
  <2>2. /\ UNCHANGED <<spc, asked, got, serverEnds>> /\ cpc = "send"
        /\ cpc' \in {"sigpipe", "open_reply", "send"}
        /\ cpc' = "send" => Len(toSend) # 1
    BY <1>6 DEF SendField, serverVars
  <2> QED
    BY <2>2 DEF TurnsMatch
<1>7. CASE OpenReply
  <2>1. got = <<>>
    BY <1>7 DEF OpenReply, Inv, DescriptorsMatch, RepliesInv, RepliesFlow, Attends
  <2>2. ~ReplyComplete(asked, Numbers(got))
    BY <2>1 DEF Numbers, ReplyComplete
  <2> QED
    BY <1>7, <2>2 DEF OpenReply, TurnsMatch, Numbers, clientVars, serverVars
<1>8. CASE ReadReply
  <2>1. /\ UNCHANGED <<spc, asked, serverEnds>> /\ cpc = "read_reply"
        /\ cpc' = "ready" \/ (cpc' = cpc /\ ~ReplyComplete(asked, Numbers(got')))
    BY <1>8 DEF ReadReply, serverVars
  <2> QED
    BY <2>1 DEF TurnsMatch, Numbers
<1>9. CASE ReadQuit
  <2>1. UNCHANGED <<cpc, asked, got, toSend, serverEnds>> /\ spc = "read_op" /\ spc' = "returned"
    BY <1>9 DEF ReadQuit, clientVars, serverVars
  <2> QED
    BY <1>9, <2>1, QuitTokens DEF TurnsMatch, Numbers
<1>10. CASE ReadEnd
  BY <1>10 DEF ReadEnd, TurnsMatch, RequestWriter, ClientAlive, Numbers, clientVars, serverVars
<1>11. CASE SendSessionId \/ ReadOpCode \/ ReadArgument \/ Execute \/ WriteReply
  <2>1. /\ UNCHANGED <<cpc, asked, got, toSend, serverEnds>>
        /\ spc \in {"send_id", "read_op", "read_args", "execute", "reply"}
        /\ spc' \in {"send_id", "read_op", "read_args", "execute", "reply"}
    BY <1>11 DEF SendSessionId, ReadOpCode, ReadArgument, Execute, WriteReply, WriteResponse, clientVars, serverVars
  <2> QED
    BY <2>1 DEF TurnsMatch, Numbers
<1> QED
  BY <1>1, <1>2, <1>3, <1>4, <1>5, <1>6, <1>7, <1>8, <1>9, <1>10, <1>11
  DEF Next, Client, Talk, Server, Listen

\* A client that waits has a worker that can go on.
LEMMA TurnsSuffice ==
  ASSUME Inv, TurnsMatch
  PROVE  NoMutualWait
<1> SUFFICES ASSUME ~killed, ClientWaits, WorkerWaits PROVE FALSE
  BY DEF NoMutualWait
<1>1. /\ requestPipe \in Seq(Token) /\ toSend \in Seq(Token) /\ responsePipe \in Seq(ReplyToken)
      /\ got \in Seq(ReplyToken) /\ answer \in Seq(ReplyToken)
      /\ Capacity \in Nat \ {0, 1} /\ number \in Nat /\ quit \in BOOLEAN
      /\ spc \in {"absent", "open_request", "wait_request", "open_response", "wait_response", "send_id",
              "read_op", "read_args", "execute", "reply", "returned"}
  BY SessionAssumption DEF Inv, TypeOK
<1>2. CASE cpc \in {"wait_request", "wait_response"}
  BY <1>2 DEF TurnsMatch, WorkerWaits
<1>3. CASE cpc = "read_id" /\ responsePipe = <<>>
  <2>1. RepliesFlow /\ spc \in {"send_id", "read_op"}
    BY <1>3 DEF Inv, RepliesInv, PhasesMatch, QuitMatch, DescriptorsMatch, Attends
  <2>2. spc = "send_id"
    BY <1>3, <2>1 DEF RepliesFlow
  <2> QED
    BY <1>1, <1>3, <2>2 DEF WorkerWaits
<1>4. CASE cpc = "read_reply" /\ responsePipe = <<>>
  <2>a. ~quit /\ ~lost
    BY <1>4 DEF Inv, QuitMatch, DescriptorsMatch
  <2>1. RepliesFlow /\ asked \in Ops /\ toSend = <<>> /\ spc \notin Opening \cup {"absent"} /\ spc # "returned"
    BY <1>4, <2>a DEF Inv, RepliesInv, RequestsMatch, ClientRequests, PhasesMatch, ClientAlive, Attends
  <2>2. CASE spc \in {"read_op", "read_args"} /\ requestPipe = <<>>
    <3>1. RequestStream = <<>>
      BY <2>1, <2>2, ConcatEmptySeq DEF RequestStream
    <3>2. spc # "read_args"
      <4> SUFFICES ASSUME spc = "read_args" PROVE FALSE
        OBVIOUS
      <4>1. InRequest /\ toRead # <<>> /\ toRead \in Seq(Fields)
        BY DEF Inv, TypeOK, RequestsMatch, WorkerRequests
      <4>2. FieldTokens(toRead) # <<>> /\ FieldTokens(toRead) \in Seq(Token)
        BY <1>1, <2>1, <4>1, FieldTokensParts
      <4>3. RequestStream = FieldTokens(toRead)
        BY <1>4, <2>a, <4>1, <4>2, ConcatEmptySeq DEF InRequest, Torn, Farewell
      <4> QED
        BY <3>1, <4>2, <4>3
    <3>3. WholeReply /\ answer = <<>>
      <4>1. spc = "read_op"
        BY <2>2, <3>2
      <4> QED
        BY <1>4, <2>1, <3>1, <4>1 DEF RepliesFlow
    <3>4. PICK n \in Replies(asked) : got \o (responsePipe \o answer) = ReplyTokens(n)
      BY <3>3 DEF WholeReply
    <3>5. got = ReplyTokens(n)
      BY <1>1, <1>4, <3>3, <3>4, ConcatEmptySeq
    <3>6. n \in Seq(Nat) /\ n # <<>>
      BY <2>1, ReplyLength
    <3>7. DOMAIN n = 1..Len(n)
      BY <3>6
    <3>8. Numbers(got) = n
      BY <3>5, <3>6, <3>7 DEF Numbers, ReplyTokens
    <3>9. ReplyComplete(asked, n)
      BY <2>1, <3>6, CompleteWhole
    <3> QED
      BY <1>4, <3>8, <3>9 DEF TurnsMatch
  <2>3. CASE spc = "read_op" /\ requestPipe # <<>>
    BY <1>1, <2>3, NextOpCode DEF WorkerWaits
  <2>4. CASE spc = "reply"
    BY <1>1, <1>4, <2>4 DEF WorkerWaits
  <2> QED
    BY <2>1, <2>2, <2>3, <2>4 DEF WorkerWaits, Opening
<1>5. CASE cpc = "ready" /\ "request" \notin serverEnds
  BY <1>5 DEF Inv, PhasesMatch
<1>6. CASE cpc = "send" /\ Len(requestPipe) = Capacity
  <2>1. requestPipe # <<>>
    BY <1>1, <1>6
  <2>2. spc # "reply"
    <3> SUFFICES ASSUME spc = "reply" PROVE FALSE
      OBVIOUS
    <3>1. quit /\ toSend # <<>> /\ RequestStream = Farewell
      BY <1>6 DEF Inv, RequestsMatch, WorkerRequests, ClientRequests
    <3>2. Len(requestPipe) + Len(toSend) = 2
      BY <3>1, StreamAtQuit
    <3>3. Len(requestPipe) \in Nat /\ Len(toSend) \in Nat /\ Len(toSend) # 0
      BY <1>1, <3>1
    <3> QED
      BY <1>1, <1>6, <3>2, <3>3
  <2>4. spc \notin {"absent", "wait_request", "wait_response", "send_id", "reply", "returned"}
    BY <1>6, <2>1, <2>2 DEF Inv, PhasesMatch, Opening, TurnsMatch
  <2>3. spc = "read_op" => Head(requestPipe).field = "op_code"
    BY <2>1, NextOpCode
  <2> QED
    BY <2>1, <2>3, <2>4 DEF WorkerWaits
<1>7. CASE cpc = "open_reply" /\ "response" \notin serverEnds
  BY <1>1, <1>7 DEF TurnsMatch, Inv, PhasesMatch, Opening
<1> QED
  BY <1>2, <1>3, <1>4, <1>5, <1>6, <1>7 DEF ClientWaits

\* The client and its worker never wait for each other, however little a pipe
\* holds and wherever either stops (api.c:92-168, main.c:190-260).
THEOREM NobodyWaitsForNobody == Spec => []NoMutualWait
<1>1. Init => TurnsMatch
  BY DEF Init, TurnsMatch
<1>2. Inv /\ TurnsMatch /\ Next => TurnsMatch'
  BY TurnsStep
<1>3. TurnsMatch /\ UNCHANGED vars => TurnsMatch'
  BY DEF TurnsMatch, Numbers, vars, clientVars, serverVars
<1>4. Inv /\ TurnsMatch => NoMutualWait
  BY TurnsSuffice
<1> QED
  BY <1>1, <1>2, <1>3, <1>4, SessionInvariance, PTL DEF Spec
=============================================================================
