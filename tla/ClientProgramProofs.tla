------------------------- MODULE ClientProgramProofs -------------------------
(***************************************************************************)
(* Theorems about ClientProgram, for every script, every capacity of the    *)
(* pipes and every length of the arrays: the session of the program is one  *)
(* of Session, the loop stops only at starts of lines, and the program      *)
(* implements RemoteCalls.                                                  *)
(*                                                                         *)
(* The worker is behind the loop by one operation from when the loop makes  *)
(* a call to when the worker executes it, and by none otherwise: what is    *)
(* still in the stream of requests tells which (ExecutedMatch).  From then  *)
(* on the stream of replies is the outcome of that run, not just some reply *)
(* (OutcomeFlows), for as long as the client reads its replies at all.      *)
(***************************************************************************)
EXTENDS ClientProgram, SessionProofs, JobsParserProofs

-----------------------------------------------------------------------------
(* The inductive invariant *)

\* The first calls are the requests, and as long as no call has failed there is
\* none behind them but that of ems_quit.
CallsMatch ==
  /\ \E S : calls \in Seq(S)
  /\ number <= Len(calls)
  /\ ~lost => Len(calls) = IF quit THEN number + 1 ELSE number
  /\ \A k \in 1..number : calls[k].op \in Ops
  /\ IF number = 0 THEN asked = "none" ELSE calls[number].op = asked

\* The worker has still to run the last operation.
Behind == spc \in {"read_args", "execute"} \/ (spc = "read_op" /\ RequestStream # Farewell)

\* It has run it.
CaughtUp == spc = "reply" \/ (spc = "read_op" /\ RequestStream = Farewell)

\* How far the worker is behind the calls.
ExecutedMatch ==
  /\ executed \in Seq([op : Ops, number : Nat])
  /\ \A k \in DOMAIN executed : executed[k].op = calls[k].op /\ executed[k].number = k
  /\ Len(executed) = number \/ Len(executed) + 1 = number
  /\ spc \in Opening \cup {"absent"} => number = 0
  /\ Behind => Len(executed) + 1 = number
  /\ CaughtUp => Len(executed) = number

\* ems_quit is the last call, at the end of the file.
QuitLast == quit => pos > Len(file) /\ (~lost => Len(executed) = number)

\* What the client has read and will read is the outcome of the last run.
OutcomeFlows ==
  /\ outcome \in Seq(Nat)
  /\ Attends /\ number > 0 /\ Len(executed) = number =>
       got \o (responsePipe \o answer) = ReplyTokens(outcome)

\* The file is one of a script, of which the next character starts a line.
FileMatch ==
  /\ file \in Files
  /\ AtLineStart

\* The session is as in Session, and the histories go with it.
ProgramInv ==
  /\ Inv
  /\ TurnsMatch
  /\ FileMatch
  /\ CallsMatch
  /\ ExecutedMatch
  /\ QuitLast
  /\ OutcomeFlows

-----------------------------------------------------------------------------
(* The loop and the file *)

\* What the loop finds at the start of a line, of any file.
LEMMA LoopCommand ==
  ASSUME FileMatch, NEW c \in CommandsAt[file][pos]
  PROVE  /\ LineStart(file, c.at)
         /\ c.at > pos \/ (pos > Len(file) /\ c.at = pos)
         /\ IF pos > Len(file) THEN c.call.op = "quit" ELSE c.call = NoCall \/ c.call.op \in Ops
<1>1. file \in Files /\ IsText(file) /\ LineStart(file, pos)
  BY FilesAssumption DEF FileMatch, AtLineStart
<1>2. pos \in 1..(Len(file) + 1)
  BY <1>1 DEF LineStart
<1>3. CommandsAt[file][pos] = {Command(file, pos, stale) : stale \in StaleDigits}
  BY <1>1, <1>2 DEF CommandsAt
<1>4. PICK stale \in StaleDigits : c = Command(file, pos, stale)
  BY <1>3
<1> QED
  BY <1>1, <1>2, <1>4, CommandsEndLines DEF Ops

\* Every step of the program is one of the session, or leaves it alone.
LEMMA SessionSteps ==
  ASSUME FileMatch, [ProgramNext]_programVars
  PROVE  [Next]_vars
<1>1. ASSUME NEW c \in CommandsAt[file][pos], CallCommand(c)
      PROVE  Next
  BY <1>1 DEF CallCommand, Next, Client
<1>2. ASSUME NEW c \in CommandsAt[file][pos], SkipCommand(c)
      PROVE  UNCHANGED vars
  BY <1>2 DEF SkipCommand
<1>3. CASE ClientTalks \/ WorkerListens \/ WorkerExecutes \/ ClientCrashes
  BY <1>3 DEF ClientTalks, WorkerListens, WorkerExecutes, ClientCrashes, Next, Client, Server
<1>4. CASE UNCHANGED programVars
  BY <1>4 DEF programVars
<1> QED
  BY <1>1, <1>2, <1>3, <1>4 DEF ProgramNext, Loop

\* The loop stays at starts of lines.
LEMMA FileStep ==
  ASSUME FileMatch, [ProgramNext]_programVars
  PROVE  FileMatch'
<1>1. ASSUME NEW c \in CommandsAt[file][pos], SkipCommand(c) \/ CallCommand(c)
      PROVE  FileMatch'
  <2>1. file' = file /\ pos' = c.at
    BY <1>1 DEF SkipCommand, CallCommand, inputVars
  <2>2. LineStart(file, c.at)
    BY LoopCommand
  <2> QED
    BY <2>1, <2>2 DEF FileMatch, AtLineStart
<1>2. CASE ClientTalks \/ WorkerListens \/ WorkerExecutes \/ ClientCrashes \/ UNCHANGED programVars
  <2>1. UNCHANGED <<file, pos>>
    BY <1>2 DEF ClientTalks, WorkerListens, WorkerExecutes, ClientCrashes, programVars, inputVars
  <2> QED
    BY <2>1 DEF FileMatch, AtLineStart
<1> QED
  BY <1>1, <1>2 DEF ProgramNext, Loop

\* The files of the scripts are texts, of which the first offset starts a line.
LEMMA FileInit ==
  ASSUME ProgramInit
  PROVE  FileMatch
<1>1. file \in Files /\ pos = 1
  BY DEF ProgramInit, Files
<1>2. Len(file) \in Nat
  BY <1>1, FilesAssumption, TextParts
<1>3. pos \in 1..(Len(file) + 1)
  BY <1>1, <1>2
<1> QED
  BY <1>1, <1>3 DEF FileMatch, AtLineStart, LineStart

\* The program is a client of Session with a worker (main.c:50-143).
THEOREM ProgramIsSession == ProgramSpec => Spec
<1>1. ProgramInit => FileMatch /\ Init
  BY FileInit DEF ProgramInit
<1>2. FileMatch /\ [ProgramNext]_programVars => FileMatch' /\ [Next]_vars
  BY FileStep, SessionSteps
<1> QED
  BY <1>1, <1>2, PTL DEF ProgramSpec, Spec

\* The loop never looks for a command inside a line, whatever the file has in
\* it (parser.c:10-14, main.c:60-144).
THEOREM LoopReadsLines == ProgramSpec => []AtLineStart
<1>1. ProgramInit => FileMatch
  BY FileInit
<1>2. FileMatch /\ [ProgramNext]_programVars => FileMatch'
  BY FileStep
<1>3. FileMatch => AtLineStart
  BY DEF FileMatch
<1> QED
  BY <1>1, <1>2, <1>3, PTL DEF ProgramSpec

-----------------------------------------------------------------------------
(* The calls and their runs *)

\* Only a call of the loop makes a request, or ems_quit; and a call that has
\* failed has failed for good.
LEMMA NoCallMade ==
  ASSUME ProgramNext, ~(\E c \in CommandsAt[file][pos] : CallCommand(c))
  PROVE  /\ UNCHANGED <<number, asked, calls>> /\ quit' = quit
         /\ lost => lost'
<1>1. CASE ClientTalks
  BY <1>1 DEF ClientTalks, Talk, MakeResponse, MakeRequest, MakePipe, Setup, ClientOpensRequest, ClientOpensResponse,
     ReadSessionId, SendField, OpenReply, OpenReplyFails, ReadReply, FinishQuit, Unlink, clientVars
<1>2. CASE WorkerListens
  BY <1>2 DEF WorkerListens, Listen, ServerOpensRequest, ServerOpensResponse, SendSessionId, ReadOpCode, ReadQuit,
     ReadEnd, ReadArgument, WriteReply, clientVars
<1>3. CASE WorkerExecutes \/ ClientCrashes \/ \E c \in CommandsAt[file][pos] : SkipCommand(c)
  BY <1>3 DEF WorkerExecutes, Execute, ClientCrashes, Crash, SkipCommand, vars, clientVars
<1> QED
  BY <1>1, <1>2, <1>3 DEF ProgramNext, Loop

\* What the three ways to take a call do to the session.
LEMMA CallWays ==
  ASSUME Inv, FileMatch, NEW c \in CommandsAt[file][pos], CallCommand(c)
  PROVE  /\ cpc = "ready" /\ ~quit
         /\ calls' = Append(calls, c.call) /\ pos' = c.at
         /\ UNCHANGED <<spc, requestPipe, responsePipe, answer, killed, file, executed>>
         /\ \/ /\ c.call.op \in Ops /\ Begin(c.call.op) /\ ~lost /\ outcome' = <<>>
               /\ number' = number + 1 /\ asked' = c.call.op /\ toSend' = Tokens(c.call.op, number + 1)
               /\ got' = <<>> /\ ~lost' /\ ~quit' /\ lost' = lost /\ quit' = quit
            \/ /\ c.call.op \in Ops /\ BeginFails /\ lost' /\ ~quit' /\ lost' = TRUE /\ quit' = quit
               /\ UNCHANGED <<number, asked, toSend, got, outcome>>
            \/ /\ c.call.op = "quit" /\ BeginQuit /\ quit' /\ quit' = TRUE /\ c.at > Len(file)
               /\ toSend' = Tokens("quit", number + 1) /\ lost' = lost
               /\ UNCHANGED <<number, asked, got, outcome>>
<1>1. /\ c.call # NoCall /\ pos' = c.at /\ calls' = Append(calls, c.call) /\ UNCHANGED <<file, executed>>
      /\ \/ c.call.op \in Ops /\ Begin(c.call.op) /\ outcome' = <<>>
         \/ c.call.op \in Ops /\ BeginFails /\ UNCHANGED outcome
         \/ c.call.op = "quit" /\ BeginQuit /\ UNCHANGED outcome
  BY DEF CallCommand, inputVars
<1>2. /\ quit \in BOOLEAN /\ lost \in BOOLEAN /\ left \in Nat
      /\ cpc = "ready" => ~quit /\ (lost => left = 0)
  BY DEF Inv, TypeOK, QuitMatch, DescriptorsMatch
<1>3. CASE c.call.op \in Ops /\ Begin(c.call.op) /\ outcome' = <<>>
  BY <1>1, <1>2, <1>3 DEF Begin, serverVars
<1>4. CASE c.call.op \in Ops /\ BeginFails /\ UNCHANGED outcome
  BY <1>1, <1>2, <1>4 DEF BeginFails, serverVars
<1>5. CASE c.call.op = "quit" /\ BeginQuit /\ UNCHANGED outcome
  <2>1. c.at > Len(file)
    <3>1. LineStart(file, c.at) /\ (c.at > pos \/ (pos > Len(file) /\ c.at = pos)) /\ pos > Len(file)
      <4>1. c.call.op \notin Ops
        BY <1>5 DEF Ops
      <4> QED
        BY <1>1, <4>1, LoopCommand
    <3>2. pos \in 1..(Len(file) + 1) /\ c.at \in 1..(Len(file) + 1) /\ Len(file) \in Nat
      BY <3>1, FilesAssumption, TextParts DEF FileMatch, AtLineStart, LineStart
    <3> QED
      BY <3>1, <3>2
  <2>2. left + InOut > 0
    BY <1>2 DEF InOut
  <2> QED
    BY <1>1, <1>2, <1>5, <2>1, <2>2 DEF BeginQuit, serverVars
<1> QED
  BY <1>1, <1>3, <1>4, <1>5

\* A call and its request are begun in one step.
LEMMA CallsStep ==
  ASSUME Inv, CallsMatch, FileMatch, ProgramNext
  PROVE  CallsMatch'
<1>0. number \in Nat
  BY DEF Inv, TypeOK
<1>1. CASE ~(\E c \in CommandsAt[file][pos] : CallCommand(c))
  BY <1>1, NoCallMade DEF CallsMatch
<1>2. ASSUME NEW c \in CommandsAt[file][pos], CallCommand(c)
      PROVE  CallsMatch'
  <2>1. PICK S : calls \in Seq(S)
    BY DEF CallsMatch
  <2>2. /\ \E T : Append(calls, c.call) \in Seq(T)
        /\ Len(Append(calls, c.call)) = Len(calls) + 1
        /\ \A k \in 1..Len(calls) : Append(calls, c.call)[k] = calls[k]
        /\ Append(calls, c.call)[Len(calls) + 1] = c.call
    BY <2>1, Appended, Zenon
  <2>3. ~quit /\ calls' = Append(calls, c.call)
    BY <1>2, CallWays
  <2>4. /\ \E T : calls' \in Seq(T)
        /\ Len(calls') = Len(calls) + 1
        /\ \A k \in 1..Len(calls) : calls'[k] = calls[k]
        /\ calls'[Len(calls) + 1] = c.call
    BY <2>2, <2>3, Zenon
  <2>5. Len(calls) \in Nat /\ number <= Len(calls) /\ (~lost => Len(calls) = number)
    BY <2>1, <2>3 DEF CallsMatch
  <2>6. CASE c.call.op \in Ops /\ ~lost /\ number' = number + 1 /\ asked' = c.call.op /\ ~lost' /\ ~quit'
    <3>1. Len(calls') = number' /\ calls'[number'] = c.call /\ \A k \in 1..number : calls'[k] = calls[k]
      BY <1>0, <2>4, <2>5, <2>6
    <3>2. \A k \in 1..number' : k \in 1..number \/ k = number'
      BY <1>0, <2>6
    <3>3. \A k \in 1..number' : calls'[k].op \in Ops
      BY <2>6, <3>1, <3>2 DEF CallsMatch
    <3>4. number' <= Len(calls') /\ number' # 0
      BY <1>0, <2>6, <3>1
    <3> QED
      BY <2>4, <2>6, <3>1, <3>3, <3>4 DEF CallsMatch
  <2>7. CASE UNCHANGED <<number, asked>> /\ (lost' \/ (quit' /\ lost' = lost))
    <3>1. \A k \in 1..number : calls'[k] = calls[k]
      BY <1>0, <2>4, <2>5
    <3>2. number <= Len(calls') /\ (~lost' => quit' /\ Len(calls') = number' + 1)
      BY <1>0, <2>4, <2>5, <2>7
    <3>3. number # 0 => number \in 1..number
      BY <1>0
    <3>4. IF number' = 0 THEN asked' = "none" ELSE calls'[number'].op = asked'
      BY <2>7, <3>1, <3>3 DEF CallsMatch
    <3>5. \A k \in 1..number' : calls'[k].op \in Ops
      BY <2>7, <3>1 DEF CallsMatch
    <3> QED
      BY <2>4, <2>7, <3>2, <3>4, <3>5 DEF CallsMatch
  <2> QED
    BY <1>2, <2>6, <2>7, CallWays
<1> QED
  BY <1>1, <1>2

\* The loop that takes a command has no call under way, unless one has failed.
LEMMA ReadyForCall ==
  ASSUME Inv, ExecutedMatch, cpc = "ready", ~lost
  PROVE  /\ spc = "read_op"
         /\ requestPipe = <<>> /\ RequestStream = <<>>
         /\ Len(executed) = number
<1>1. spc = "read_op" /\ RequestStream = <<>> /\ ~quit
  BY DEF Inv, PhasesMatch, RequestsMatch, ClientRequests, QuitMatch
<1>2. requestPipe = <<>>
  BY NothingAsked
<1>3. Farewell = <<>>
  BY <1>1 DEF Farewell
<1> QED
  BY <1>1, <1>2, <1>3 DEF ExecutedMatch, CaughtUp

\* Writing a field leaves the stream of requests as it is.
LEMMA StreamKept ==
  ASSUME Inv, SendField
  PROVE  RequestStream' = RequestStream
<1>1. requestPipe \in Seq(Token) /\ toSend \in Seq(Token) /\ toSend # <<>>
  BY DEF SendField, Inv, TypeOK, RequestsMatch, ClientRequests
<1>2. CASE "request" \notin serverEnds
  BY <1>2 DEF SendField, RequestStream
<1>3. CASE "request" \in serverEnds
  <2>1. requestPipe' = Append(requestPipe, Head(toSend)) /\ toSend' = Tail(toSend)
    BY <1>3 DEF SendField
  <2>2. Append(requestPipe, Head(toSend)) \o Tail(toSend) = requestPipe \o toSend
    BY <1>1, Shift
  <2> QED
    BY <2>1, <2>2 DEF RequestStream
<1> QED
  BY <1>2, <1>3

\* The tokens of ems_quit come behind what there is, and leave it what it was.
LEMMA QuitBehind ==
  ASSUME NEW p \in Seq(Token), NEW k \in Nat
  PROVE  p \o Tokens("quit", k) = Tokens("quit", k) <=> p = <<>>
<1> DEFINE w == Tokens("quit", k)
<1>1. w \in Seq(Token)
  BY MessageTokens
<1> HIDE DEF w
<1>2. Len(p \o w) = Len(p) + Len(w) /\ Len(p) \in Nat /\ Len(w) \in Nat
  BY <1>1, ConcatProperties
<1>3. p \o w = w => p = <<>>
  <2>1. p \o w = w => Len(p) = 0
    BY <1>2
  <2> QED
    BY <2>1, EmptySeq
<1>4. p = <<>> => p \o w = w
  BY <1>1, ConcatEmptySeq
<1> QED
  BY <1>3, <1>4 DEF w

\* A request is not all that ems_quit writes.
LEMMA RequestBehind ==
  ASSUME Inv, asked \in Ops
  PROVE  Tokens(asked, number) \o Farewell # Farewell
<1> DEFINE t == Tokens(asked, number)
           w == Farewell
<1>1. t \in Seq(Token) /\ t # <<>> /\ w \in Seq(Token)
  BY MessageTokens, FarewellParts DEF Inv, TypeOK
<1> HIDE DEF t, w
<1>2. Len(t \o w) = Len(t) + Len(w) /\ Len(t) \in Nat /\ Len(w) \in Nat /\ Len(t) # 0
  BY <1>1, ConcatProperties, EmptySeq
<1>3. Len(t \o w) # Len(w)
  BY <1>2
<1> QED
  BY <1>3 DEF t, w

\* The worker is behind the loop by one operation while the request is on its
\* way, and by none when it has run (main.c:222-320).
LEMMA ExecutedStep ==
  ASSUME ProgramInv, ProgramNext
  PROVE  ExecutedMatch'
<1> USE DEF Opening
<1>0. /\ Inv /\ ExecutedMatch /\ CallsMatch /\ QuitLast /\ FileMatch
      /\ number \in Nat /\ executed \in Seq([op : Ops, number : Nat]) /\ Len(executed) \in Nat
      /\ PhasesMatch /\ RequestsMatch /\ RepliesInv
      /\ requestPipe \in Seq(Token) /\ quit \in BOOLEAN
  BY DEF ProgramInv, Inv, TypeOK, ExecutedMatch
<1>1. ASSUME UNCHANGED <<spc, number, calls, executed>>, RequestStream' = RequestStream, Farewell' = Farewell
      PROVE  ExecutedMatch'
  BY <1>0, <1>1 DEF ExecutedMatch, Behind, CaughtUp
<1>2. CASE \E c \in CommandsAt[file][pos] : SkipCommand(c)
  <2>1. UNCHANGED <<spc, requestPipe, toSend, number, quit, calls, executed>>
    BY <1>2 DEF SkipCommand, vars, clientVars
  <2> QED
    BY <1>1, <2>1 DEF RequestStream, Farewell, Tokens
<1>3. ASSUME NEW c \in CommandsAt[file][pos], CallCommand(c)
      PROVE  ExecutedMatch'
  <2>1. /\ cpc = "ready" /\ ~quit /\ spc' = spc /\ executed' = executed /\ requestPipe' = requestPipe
        /\ calls' = Append(calls, c.call)
    BY <1>0, <1>3, CallWays
  <2>2. \A k \in DOMAIN executed : calls'[k] = calls[k]
    <3>1. PICK S : calls \in Seq(S)
      BY <1>0 DEF CallsMatch
    <3>5. /\ \E T : Append(calls, c.call) \in Seq(T)
          /\ Len(Append(calls, c.call)) = Len(calls) + 1
          /\ \A k \in 1..Len(calls) : Append(calls, c.call)[k] = calls[k]
          /\ Append(calls, c.call)[Len(calls) + 1] = c.call
      BY <3>1, Appended, Zenon
    <3>2. \A k \in 1..Len(calls) : Append(calls, c.call)[k] = calls[k]
      BY <3>5
    <3>3. DOMAIN executed = 1..Len(executed) /\ Len(executed) <= number /\ number <= Len(calls) /\ Len(calls) \in Nat
      BY <1>0, <3>1 DEF CallsMatch, ExecutedMatch
    <3>4. DOMAIN executed \subseteq 1..Len(calls)
      BY <1>0, <3>3
    <3> QED
      BY <2>1, <3>2, <3>4, Zenon
  <2>3. /\ executed' \in Seq([op : Ops, number : Nat])
        /\ \A k \in DOMAIN executed' : executed'[k].op = calls'[k].op /\ executed'[k].number = k
        /\ spc \notin Opening \cup {"absent"}
    BY <1>0, <2>1, <2>2 DEF ExecutedMatch, PhasesMatch
  <2>4. toSend = <<>> /\ RequestStream = requestPipe /\ Farewell = <<>>
    <3>1. toSend = <<>>
      BY <1>0, <2>1 DEF RequestsMatch, ClientRequests
    <3> QED
      BY <1>0, <2>1, <3>1, ConcatEmptySeq DEF RequestStream, Farewell
  <2>5. CASE /\ c.call.op \in Ops /\ ~lost /\ ~quit' /\ number' = number + 1
             /\ toSend' = Tokens(c.call.op, number + 1)
    <3>1. spc = "read_op" /\ requestPipe = <<>> /\ Len(executed) = number
      BY <1>0, <2>1, <2>5, ReadyForCall
    <3>2. Tokens(c.call.op, number + 1) # <<>> /\ Tokens(c.call.op, number + 1) \in Seq(Token)
      <4>1. number + 1 \in Nat
        BY <1>0
      <4> QED
        BY <2>5, <4>1, MessageTokens, Zenon
    <3>3. RequestStream' = Tokens(c.call.op, number + 1)
      BY <2>1, <2>5, <3>1, <3>2, ConcatEmptySeq DEF RequestStream
    <3>4. Farewell' = <<>>
      BY <2>5 DEF Farewell
    <3>5. Len(executed') + 1 = number'
      BY <1>0, <2>1, <2>5, <3>1
    <3>6. ~CaughtUp'
      BY <2>1, <3>1, <3>2, <3>3, <3>4 DEF CaughtUp
    <3> QED
      BY <1>0, <2>1, <2>3, <3>5, <3>6 DEF ExecutedMatch
  <2>6. CASE UNCHANGED <<number, toSend>> /\ ~quit'
    <3>1. RequestStream' = RequestStream /\ Farewell' = Farewell
      BY <2>1, <2>6 DEF RequestStream, Farewell
    <3> QED
      BY <1>0, <2>1, <2>3, <2>6, <3>1 DEF ExecutedMatch, Behind, CaughtUp
  <2>7. CASE number' = number /\ quit' /\ toSend' = Tokens("quit", number + 1)
    <3>1. RequestStream' = requestPipe \o Tokens("quit", number + 1) /\ Farewell' = Tokens("quit", number + 1)
      BY <2>1, <2>7 DEF RequestStream, Farewell
    <3>2. number + 1 \in Nat
      BY <1>0
    <3>3. RequestStream' = Farewell' <=> RequestStream = Farewell
      BY <1>0, <2>4, <3>1, <3>2, QuitBehind
    <3> QED
      BY <1>0, <2>1, <2>3, <2>7, <3>3 DEF ExecutedMatch, Behind, CaughtUp
  <2> QED
    BY <1>0, <1>3, <2>5, <2>6, <2>7, CallWays
<1>4. CASE ClientTalks \/ ClientCrashes
  <2>0. UNCHANGED <<calls, executed>> /\ (Talk \/ Crash)
    BY <1>4 DEF ClientTalks, ClientCrashes
  <2>1. CASE MakeResponse \/ MakeRequest \/ ReadSessionId \/ OpenReply \/ OpenReplyFails \/ ReadReply \/ FinishQuit
             \/ Unlink \/ Crash
    <3>1. UNCHANGED <<spc, requestPipe, toSend, number, quit>>
      BY <2>1 DEF MakeResponse, MakeRequest, MakePipe, ReadSessionId, OpenReply, OpenReplyFails, ReadReply, FinishQuit,
         Unlink, Crash, clientVars
    <3> QED
      BY <1>1, <2>0, <3>1 DEF RequestStream, Farewell, Tokens
  <2>2. CASE Setup \/ ClientOpensRequest \/ ClientOpensResponse
    <3>1. /\ UNCHANGED number /\ spc \in {"absent"} \cup Opening /\ spc' \in {"absent"} \cup Opening
      BY <1>0, <2>2 DEF Setup, ClientOpensRequest, RequestPipeOpen, ClientOpensResponse, ResponsePipeOpen,
         PhasesMatch, clientVars
    <3> QED
      BY <1>0, <2>0, <3>1 DEF ExecutedMatch, Behind, CaughtUp
  <2>3. CASE SendField
    <3>1. UNCHANGED <<spc, number, quit>> /\ RequestStream' = RequestStream
      BY <1>0, <2>3, StreamKept DEF SendField, serverVars
    <3> QED
      BY <1>1, <2>0, <3>1 DEF Farewell, Tokens
  <2> QED
    BY <2>0, <2>1, <2>2, <2>3 DEF Talk
<1>5. CASE WorkerListens
  <2>0. UNCHANGED <<calls, executed>> /\ Listen
    BY <1>5 DEF WorkerListens
  <2>1. CASE ServerOpensRequest \/ ServerOpensResponse
    <3>1. UNCHANGED number /\ spc \in Opening /\ spc' \in Opening
      BY <2>1 DEF ServerOpensRequest, RequestPipeOpen, ServerOpensResponse, ResponsePipeOpen, clientVars
    <3> QED
      BY <1>0, <2>0, <3>1 DEF ExecutedMatch, Behind, CaughtUp
  <2>2. CASE SendSessionId
    <3>1. UNCHANGED <<number, quit, requestPipe, toSend>> /\ spc = "send_id" /\ spc' \in {"send_id", "read_op"}
      BY <2>2 DEF SendSessionId, WriteResponse, clientVars
    <3>2. RequestStream = <<>> /\ RequestStream' = RequestStream /\ ~quit
      BY <1>0, <3>1 DEF RequestsMatch, WorkerRequests, RequestStream, PhasesMatch
    <3>3. number = 0 /\ Len(executed) = 0
      BY <1>0, <3>1 DEF ExecutedMatch
    <3>4. ~Behind'
      BY <3>1, <3>2 DEF Behind, Farewell
    <3> QED
      BY <1>0, <2>0, <3>1, <3>3, <3>4 DEF ExecutedMatch
  <2>3. CASE ReadOpCode
    <3>1. UNCHANGED number /\ spc = "read_op" /\ requestPipe # <<>> /\ spc' = "read_args" /\ Head(requestPipe).op # "quit"
      BY <2>3 DEF ReadOpCode, clientVars
    <3>2. asked \in Ops /\ RequestStream = Tokens(asked, number) \o Farewell
      BY <1>0, <3>1, NextOpCode
    <3>3. Len(executed) + 1 = number
      BY <1>0, <3>1, <3>2, RequestBehind DEF ExecutedMatch, Behind
    <3> QED
      BY <1>0, <2>0, <3>1, <3>3 DEF ExecutedMatch, CaughtUp
  <2>4. CASE ReadQuit \/ ReadEnd
    <3>1. UNCHANGED number /\ spc' = "returned"
      BY <2>4 DEF ReadQuit, ReadEnd, clientVars
    <3> QED
      BY <1>0, <2>0, <3>1 DEF ExecutedMatch, Behind, CaughtUp
  <2>5. CASE ReadArgument
    <3>1. UNCHANGED number /\ spc = "read_args" /\ spc' \in {"read_args", "execute"}
      BY <2>5 DEF ReadArgument, clientVars
    <3> QED
      BY <1>0, <2>0, <3>1 DEF ExecutedMatch, Behind, CaughtUp
  <2>6. CASE WriteReply
    <3>1. /\ UNCHANGED <<number, quit, requestPipe, toSend>> /\ spc = "reply" /\ spc' \in {"reply", "read_op"}
          /\ spc' = "read_op" => ClientAlive
      BY <2>6 DEF WriteReply, WriteResponse, ResponseReader, clientVars
    <3>2. spc' = "read_op" => RequestStream = Farewell
      BY <1>0, <3>1 DEF RequestsMatch, WorkerRequests, ClientAlive
    <3>3. RequestStream' = RequestStream /\ Farewell' = Farewell
      BY <3>1 DEF RequestStream, Farewell, Tokens
    <3>4. Len(executed) = number
      BY <1>0, <3>1 DEF ExecutedMatch, CaughtUp
    <3> QED
      BY <1>0, <2>0, <3>1, <3>2, <3>3, <3>4 DEF ExecutedMatch, Behind
  <2> QED
    BY <2>0, <2>1, <2>2, <2>3, <2>4, <2>5, <2>6 DEF Listen
<1>6. CASE WorkerExecutes
  <2> DEFINE E == [op : Ops, number : Nat]
             e == [op |-> cur.op, number |-> cur.number]
  <2>1. /\ UNCHANGED <<number, calls>> /\ spc = "execute" /\ spc' = "reply"
        /\ executed' = Append(executed, e)
    BY <1>6 DEF WorkerExecutes, Execute, clientVars
  <2>2. asked \in Ops /\ cur.op = asked /\ cur.number = number
    BY <1>0, <2>1 DEF RequestsMatch, WorkerRequests, InRequest, OpToken
  <2>3. Len(executed) + 1 = number
    BY <1>0, <2>1 DEF ExecutedMatch, Behind
  <2>5. e \in E /\ e.op = asked /\ e.number = number
    BY <1>0, <2>2
  <2>6. executed \in Seq(E)
    BY <1>0
  <2> HIDE DEF E, e
  <2>7. /\ executed' \in Seq(E) /\ Len(executed') = number
        /\ \A k \in 1..Len(executed) : executed'[k] = executed[k]
        /\ executed'[number] = e
    BY <2>1, <2>3, <2>5, <2>6, AppendIs
  <2>8. \A k \in 1..number : k \in 1..Len(executed) \/ k = number
    BY <1>0, <2>3
  <2>9. DOMAIN executed = 1..Len(executed) /\ DOMAIN executed' = 1..number
    BY <2>6, <2>7
  <2>10. number > 0
    BY <1>0, <2>3
  <2>11. calls[number].op = asked
    BY <1>0, <2>10 DEF CallsMatch
  <2>12. \A k \in DOMAIN executed' : executed'[k].op = calls'[k].op /\ executed'[k].number = k
    BY <1>0, <2>1, <2>5, <2>7, <2>8, <2>9, <2>11 DEF ExecutedMatch
  <2>13. executed' \in Seq([op : Ops, number : Nat])
    BY <2>7 DEF E
  <2> QED
    BY <1>0, <2>1, <2>7, <2>12, <2>13 DEF ExecutedMatch, Behind
<1> QED
  BY <1>2, <1>3, <1>4, <1>5, <1>6 DEF ProgramNext, Loop

\* Nothing is called behind ems_quit.
LEMMA QuitLastStep ==
  ASSUME ProgramInv, ProgramNext
  PROVE  QuitLast'
<1>0. Inv /\ QuitLast /\ ExecutedMatch /\ FileMatch /\ number \in Nat /\ Len(executed) \in Nat
  BY DEF ProgramInv, Inv, TypeOK, ExecutedMatch
<1>1. ASSUME NEW c \in CommandsAt[file][pos], CallCommand(c)
      PROVE  QuitLast'
  <2>1. CASE ~quit'
    BY <2>1 DEF QuitLast
  <2>2. CASE /\ quit' /\ c.at > Len(file) /\ lost' = lost /\ number' = number
    <3>1. cpc = "ready" /\ pos' = c.at /\ UNCHANGED <<file, executed>>
      BY <1>0, <1>1, CallWays
    <3>2. ~lost => Len(executed) = number
      BY <1>0, <3>1, ReadyForCall
    <3> QED
      BY <2>2, <3>1, <3>2 DEF QuitLast
  <2> QED
    BY <1>0, <1>1, <2>1, <2>2, CallWays
<1>2. ASSUME NEW c \in CommandsAt[file][pos], SkipCommand(c)
      PROVE  QuitLast'
  <2>1. ~quit /\ quit' = quit
    BY <1>0, <1>2 DEF SkipCommand, Inv, QuitMatch, vars, clientVars
  <2> QED
    BY <2>1 DEF QuitLast
<1>3. CASE (WorkerListens \/ ClientTalks \/ ClientCrashes) /\ ~(\E c \in CommandsAt[file][pos] : CallCommand(c))
  <2>1. quit' = quit /\ (lost => lost') /\ UNCHANGED <<number, executed, file, pos>>
    BY <1>3, NoCallMade DEF WorkerListens, ClientTalks, ClientCrashes, inputVars
  <2> QED
    BY <1>0, <2>1 DEF QuitLast
<1>4. CASE WorkerExecutes
  <2>1. quit' = quit /\ lost' = lost /\ UNCHANGED <<file, pos>> /\ spc = "execute"
    BY <1>4 DEF WorkerExecutes, Execute, inputVars, clientVars
  <2>2. Len(executed) # number
    BY <1>0, <2>1 DEF ExecutedMatch, Behind
  <2> QED
    BY <1>0, <2>1, <2>2 DEF QuitLast
<1> QED
  BY <1>1, <1>2, <1>3, <1>4 DEF ProgramNext, Loop

-----------------------------------------------------------------------------
(* The outcome *)

\* The values of a sequence of tokens, and the tokens of the values.
LEMMA NumbersOf ==
  ASSUME NEW t \in Seq(ReplyToken), \A i \in 1..Len(t) : t[i].number = number
  PROVE  /\ Numbers(t) \in Seq(Nat)
         /\ ReplyTokens(Numbers(t)) = t
<1>1. DOMAIN t = 1..Len(t) /\ Len(t) \in Nat /\ \A i \in 1..Len(t) : t[i] \in ReplyToken
  OBVIOUS
<1>2. Numbers(t) = [i \in 1..Len(t) |-> t[i].value]
  BY <1>1 DEF Numbers
<1>3. \A i \in 1..Len(t) : t[i].value \in Nat /\ t[i] = [number |-> number, value |-> t[i].value]
  BY <1>1 DEF ReplyToken
<1>4. Numbers(t) \in Seq(Nat)
  BY <1>1, <1>2, <1>3
<1>5. DOMAIN Numbers(t) = 1..Len(t) /\ \A i \in 1..Len(t) : Numbers(t)[i] = t[i].value
  BY <1>2
<1>6. ReplyTokens(Numbers(t)) = [i \in 1..Len(t) |-> t[i]]
  BY <1>3, <1>5 DEF ReplyTokens
<1>7. t = [i \in 1..Len(t) |-> t[i]]
  BY <1>1
<1> QED
  BY <1>4, <1>6, <1>7

\* The tokens of numbers have these numbers.
LEMMA TokensOf ==
  ASSUME NEW n \in Seq(Nat)
  PROVE  Numbers(ReplyTokens(n)) = n
<1>1. DOMAIN n = 1..Len(n) /\ n = [i \in 1..Len(n) |-> n[i]]
  OBVIOUS
<1>2. /\ ReplyTokens(n) = [i \in 1..Len(n) |-> [number |-> number, value |-> n[i]]]
  BY <1>1 DEF ReplyTokens
<1>3. DOMAIN ReplyTokens(n) = 1..Len(n) /\ \A i \in 1..Len(n) : ReplyTokens(n)[i].value = n[i]
  BY <1>2
<1>4. Numbers(ReplyTokens(n)) = [i \in 1..Len(n) |-> n[i]]
  BY <1>3 DEF Numbers
<1> QED
  BY <1>1, <1>4

\* The run of an operation gives one of its replies, and the worker begins to
\* write just that.
LEMMA ExecutedOutcome ==
  ASSUME Inv, WorkerExecutes
  PROVE  /\ asked \in Ops /\ cur.op = asked /\ cur.number = number
         /\ outcome' \in Replies(asked)
         /\ outcome' \in Seq(Nat)
         /\ answer' = ReplyTokens(outcome')
<1>1. spc = "execute" /\ outcome' = Numbers(answer')
  BY DEF WorkerExecutes, Execute
<1>2. asked \in Ops /\ cur.op = asked /\ cur.number = number /\ number \in Nat
  BY <1>1 DEF Inv, TypeOK, RequestsMatch, WorkerRequests, InRequest, OpToken
<1>3. PICK n \in Replies(asked) : answer' = [i \in DOMAIN n |-> [number |-> number, value |-> n[i]]]
  BY <1>2 DEF WorkerExecutes, Execute
<1>4. n \in Seq(Nat)
  BY <1>2, ReplyLength
<1>5. answer' = ReplyTokens(n)
  BY <1>3 DEF ReplyTokens
<1>6. outcome' = n
  BY <1>1, <1>4, <1>5, TokensOf
<1> QED
  BY <1>2, <1>4, <1>5, <1>6

\* From its run on, the outcome of the last operation is what the client reads
\* (main.c:268-400, api.c:226-248, 371-422, 473-517).
LEMMA OutcomeStep ==
  ASSUME ProgramInv, ProgramNext
  PROVE  OutcomeFlows'
<1>0. /\ Inv /\ FileMatch /\ ExecutedMatch /\ OutcomeFlows /\ RequestsMatch /\ RepliesInv
      /\ number \in Nat /\ Len(executed) \in Nat
      /\ got \in Seq(ReplyToken) /\ responsePipe \in Seq(ReplyToken) /\ answer \in Seq(ReplyToken)
  BY DEF ProgramInv, Inv, TypeOK, ExecutedMatch
<1>1. ASSUME UNCHANGED <<got, responsePipe, answer, number, executed, outcome, killed>>, lost' = lost, quit' = quit,
             cpc' # "crashed" => cpc # "crashed"
      PROVE  OutcomeFlows'
  BY <1>0, <1>1 DEF OutcomeFlows, ReplyTokens, Attends
<1>2. ASSUME UNCHANGED <<number, outcome>>, number = 0
      PROVE  OutcomeFlows'
  BY <1>0, <1>2 DEF OutcomeFlows
<1>3. CASE \E c \in CommandsAt[file][pos] : SkipCommand(c)
  BY <1>1, <1>3 DEF SkipCommand, vars, clientVars, serverVars
<1>4. ASSUME NEW c \in CommandsAt[file][pos], CallCommand(c)
      PROVE  OutcomeFlows'
  <2>1. CASE ~lost /\ outcome' = <<>> /\ number' = number + 1
    <3>1. cpc = "ready" /\ executed' = executed
      BY <1>0, <1>4, CallWays
    <3>2. Len(executed) = number
      BY <1>0, <2>1, <3>1, ReadyForCall
    <3>3. Len(executed') # number'
      BY <1>0, <2>1, <3>1, <3>2
    <3> QED
      BY <2>1, <3>3 DEF OutcomeFlows
  <2>2. CASE (lost' \/ quit') /\ outcome' = outcome
    BY <1>0, <2>2 DEF OutcomeFlows, Attends
  <2> QED
    BY <1>0, <1>4, <2>1, <2>2, CallWays
<1>5. CASE ClientTalks
  <2>0. UNCHANGED <<executed, outcome>> /\ Talk
    BY <1>5 DEF ClientTalks
  <2>1. CASE MakeResponse \/ MakeRequest \/ Setup \/ ClientOpensRequest \/ ClientOpensResponse
    BY <1>1, <2>0, <2>1 DEF MakeResponse, MakeRequest, MakePipe, Setup, ClientOpensRequest, RequestPipeOpen,
       ClientOpensResponse, ResponsePipeOpen, clientVars, serverVars
  <2>2. CASE SendField \/ OpenReply \/ FinishQuit \/ Unlink
    BY <1>1, <2>0, <2>2 DEF SendField, OpenReply, FinishQuit, Unlink, clientVars, serverVars
  <2>3. CASE ReadSessionId
    <3>1. number = 0
      BY <1>0, <2>3 DEF ReadSessionId, RepliesInv, RepliesFlow, Attends, Inv, QuitMatch, DescriptorsMatch
    <3> QED
      BY <1>2, <2>0, <2>3, <3>1 DEF ReadSessionId, clientVars
  <2>5. CASE OpenReplyFails
    BY <1>0, <2>0, <2>5 DEF OpenReplyFails, OutcomeFlows, Attends
  <2>4. CASE ReadReply
    <3>1. /\ responsePipe # <<>> /\ responsePipe' = Tail(responsePipe) /\ got' = Append(got, Head(responsePipe))
          /\ UNCHANGED <<answer, number, killed>> /\ cpc # "crashed" /\ lost' = lost /\ quit' = quit
      BY <2>4 DEF ReadReply, serverVars
    <3>2. got \o (responsePipe \o answer) = Append(got, Head(responsePipe)) \o (Tail(responsePipe) \o answer)
      <4>1. /\ got \in Seq(ReplyToken) /\ responsePipe \in Seq(ReplyToken) /\ answer \in Seq(ReplyToken)
            /\ responsePipe # <<>>
        BY <1>0, <3>1
      <4> QED
        BY <4>1, ShiftOfThree
    <3>3. got \o (responsePipe \o answer) = got' \o (responsePipe' \o answer')
      BY <3>1, <3>2
    <3> QED
      BY <1>0, <2>0, <3>1, <3>3 DEF OutcomeFlows, ReplyTokens, Attends
  <2> QED
    BY <2>0, <2>1, <2>2, <2>3, <2>4, <2>5 DEF Talk
<1>6. CASE WorkerListens
  <2>0. UNCHANGED <<executed, outcome>> /\ Listen
    BY <1>6 DEF WorkerListens
  <2>1. CASE ServerOpensRequest \/ ServerOpensResponse
    BY <1>1, <2>0, <2>1 DEF ServerOpensRequest, RequestPipeOpen, ServerOpensResponse, ResponsePipeOpen, clientVars
  <2>2. CASE ReadOpCode \/ ReadQuit \/ ReadEnd \/ ReadArgument
    BY <1>1, <2>0, <2>2 DEF ReadOpCode, ReadQuit, ReadEnd, ReadArgument, clientVars, serverVars
  <2>3. CASE SendSessionId
    <3>1. number = 0
      BY <1>0, <2>3 DEF SendSessionId, ExecutedMatch, Opening
    <3> QED
      BY <1>2, <2>0, <2>3, <3>1 DEF SendSessionId, clientVars
  <2>4. CASE WriteReply
    <3>1. UNCHANGED <<cpc, got, number>> /\ lost' = lost /\ quit' = quit /\ spc = "reply" /\ ~killed
      BY <2>4 DEF WriteReply, clientVars
    <3>2. CASE killed'
      BY <1>0, <2>0, <3>2 DEF OutcomeFlows, Attends
    <3>3. CASE ~killed'
      <4>1. responsePipe' = Append(responsePipe, Head(answer)) /\ answer' = Tail(answer)
        BY <2>4, <3>3 DEF WriteReply, WriteResponse
      <4>2. answer # <<>>
        BY <1>0, <3>1 DEF RequestsMatch, WorkerRequests
      <4>3. responsePipe' \o answer' = responsePipe \o answer
        BY <1>0, <4>1, <4>2, Shift
      <4> QED
        BY <1>0, <2>0, <3>1, <4>3 DEF OutcomeFlows, ReplyTokens, Attends
    <3> QED
      BY <3>2, <3>3
  <2> QED
    BY <2>0, <2>1, <2>2, <2>3, <2>4 DEF Listen
<1>7. CASE WorkerExecutes
  <2>1. UNCHANGED <<cpc, got, responsePipe, number, killed>> /\ lost' = lost /\ quit' = quit /\ spc = "execute"
    BY <1>7 DEF WorkerExecutes, Execute, clientVars
  <2>2. outcome' \in Seq(Nat) /\ answer' = ReplyTokens(outcome')
    BY <1>0, <1>7, ExecutedOutcome
  <2>3. Attends => got = <<>> /\ responsePipe = <<>>
    BY <1>0, <2>1 DEF RepliesInv, RepliesFlow, Unanswered
  <2>4. <<>> \o (<<>> \o answer') = answer'
    <3>1. answer' \in Seq(ReplyToken)
      BY <1>0, <1>7, InvStep DEF Inv, TypeOK, WorkerExecutes, Next, Server
    <3> QED
      BY <3>1, ConcatEmptySeq
  <2>5. Attends => got' \o (responsePipe' \o answer') = answer'
    BY <2>1, <2>3, <2>4
  <2>6. ReplyTokens(outcome') = ReplyTokens(outcome)'
    BY <2>1 DEF ReplyTokens
  <2> QED
    BY <2>1, <2>2, <2>5, <2>6 DEF OutcomeFlows, Attends
<1>8. CASE ClientCrashes
  BY <1>1, <1>8 DEF ClientCrashes, Crash, clientVars, serverVars
<1> QED
  BY <1>3, <1>4, <1>5, <1>6, <1>7, <1>8 DEF ProgramNext, Loop

-----------------------------------------------------------------------------
(* The invariant holds *)

\* Nothing is called, run or read in the beginning.
LEMMA ProgramInitInv == ProgramInit => ProgramInv
<1> SUFFICES ASSUME ProgramInit PROVE ProgramInv
  OBVIOUS
<1>1. Inv /\ FileMatch
  BY InitInv, FileInit DEF ProgramInit
<1>2. /\ cpc = "make_response" /\ spc = "absent" /\ number = 0 /\ asked = "none"
      /\ calls = <<>> /\ executed = <<>> /\ outcome = <<>> /\ ~lost /\ ~quit
  BY DEF ProgramInit, Init
<1>3. TurnsMatch /\ QuitLast
  BY <1>2 DEF TurnsMatch, QuitLast
<1>4. CallsMatch
  <2>1. calls \in Seq({}) /\ Len(calls) = number
    BY <1>2
  <2> QED
    BY <1>2, <2>1 DEF CallsMatch
<1>5. ExecutedMatch
  <2>1. executed \in Seq([op : Ops, number : Nat]) /\ Len(executed) = 0 /\ DOMAIN executed = {}
    BY <1>2
  <2> QED
    BY <1>2, <2>1 DEF ExecutedMatch, Behind, CaughtUp
<1>6. OutcomeFlows
  BY <1>2 DEF OutcomeFlows
<1> QED
  BY <1>1, <1>3, <1>4, <1>5, <1>6 DEF ProgramInv

\* Every step of the program keeps the invariant.
LEMMA ProgramStepInv ==
  ASSUME ProgramInv, [ProgramNext]_programVars
  PROVE  ProgramInv'
<1>0. Inv /\ TurnsMatch /\ FileMatch /\ CallsMatch
  BY DEF ProgramInv
<1>1. [Next]_vars
  BY <1>0, SessionSteps
<1>2. Inv' /\ FileMatch'
  BY <1>0, <1>1, InvStep, FileStep
<1>3. TurnsMatch'
  <2>1. CASE Next
    BY <1>0, <2>1, TurnsStep
  <2>2. CASE UNCHANGED vars
    BY <1>0, <2>2 DEF TurnsMatch, vars, clientVars, serverVars
  <2> QED
    BY <1>1, <2>1, <2>2
<1>4. CASE ProgramNext
  BY <1>0, <1>2, <1>3, <1>4, CallsStep, ExecutedStep, QuitLastStep, OutcomeStep DEF ProgramInv
<1>5. CASE UNCHANGED programVars
  <2>1. UNCHANGED <<vars, file, pos, calls, executed, outcome>>
    BY <1>5 DEF programVars, inputVars
  <2>2. CallsMatch'
    BY <1>0, <2>1 DEF CallsMatch, vars, clientVars
  <2>3. ExecutedMatch'
    BY <2>1 DEF ProgramInv, ExecutedMatch, Behind, CaughtUp, RequestStream, Farewell, Tokens, vars, clientVars
  <2>4. QuitLast'
    BY <2>1 DEF ProgramInv, QuitLast, vars, clientVars
  <2>5. OutcomeFlows'
    BY <2>1 DEF ProgramInv, OutcomeFlows, Attends, ReplyTokens, vars, clientVars, serverVars
  <2> QED
    BY <1>2, <1>3, <2>2, <2>3, <2>4, <2>5 DEF ProgramInv
<1> QED
  BY <1>4, <1>5

\* The session, the offset in the file and the histories agree with each other.
THEOREM ProgramInvariance == ProgramSpec => []ProgramInv
<1> QED
  BY ProgramInitInv, ProgramStepInv, PTL DEF ProgramSpec

\* The worker runs the calls of the loop, each at most once and in order.  As long
\* as no call has failed for want of a descriptor it does not fall behind, and
\* runs all of them before ems_quit, which the end of the file makes
\* (main.c:60-143, api.c).
THEOREM CallsAreExecuted == ProgramSpec => []ScriptExecuted
<1>1. ProgramInv => ScriptExecuted
  <2> SUFFICES ASSUME ProgramInv PROVE ScriptExecuted
    OBVIOUS
  <2>1. CallsMatch /\ ExecutedMatch /\ QuitLast /\ number \in Nat /\ Len(executed) \in Nat
    BY DEF ProgramInv, Inv, TypeOK, ExecutedMatch
  <2>2. Len(calls) \in Nat /\ number <= Len(calls) /\ (Len(executed) = number \/ Len(executed) + 1 = number)
    BY <2>1 DEF CallsMatch, ExecutedMatch
  <2>3. Len(executed) <= Len(calls)
    BY <2>1, <2>2
  <2>4. ASSUME ~lost
        PROVE  Len(calls) - Len(executed) \in {0, 1} /\ (quit => Len(calls) = Len(executed) + 1)
    <3>1. CASE quit
      <4>1. Len(calls) = number + 1 /\ Len(executed) = number
        BY <2>1, <2>4, <3>1 DEF CallsMatch, QuitLast
      <4> QED
        BY <2>1, <4>1
    <3>2. CASE ~quit
      <4>1. Len(calls) = number
        BY <2>1, <2>4, <3>2 DEF CallsMatch
      <4> QED
        BY <2>1, <2>2, <3>2, <4>1
    <3> QED
      BY <3>1, <3>2
  <2>5. quit => pos > Len(file)
    BY <2>1 DEF QuitLast
  <2> QED
    BY <2>1, <2>3, <2>4, <2>5 DEF ScriptExecuted, ExecutedMatch
<1> QED
  BY <1>1, ProgramInvariance, PTL

-----------------------------------------------------------------------------
(* The program implements RemoteCalls *)

\* The calls as RemoteCalls sees them.
OpsCalled == [k \in 1..number |-> calls[k].op]

\* They are as many as the requests, one by one.
LEMMA OpsCalledAre ==
  ASSUME NEW n \in Nat, NEW s, \A k \in 1..n : s[k].op \in Ops
  PROVE  /\ [k \in 1..n |-> s[k].op] \in Seq(Ops)
         /\ Len([k \in 1..n |-> s[k].op]) = n
         /\ \A k \in 1..n : [j \in 1..n |-> s[j].op][k] = s[k].op
  OBVIOUS

\* A request is one more call.
LEMMA OpCalled ==
  ASSUME CallsMatch, CallsMatch', number \in Nat, NEW c, c.call.op \in Ops, ~lost, ~quit,
         number' = number + 1, calls' = Append(calls, c.call)
  PROVE  OpsCalled' = Append(OpsCalled, c.call.op)
<1>2. PICK S : calls \in Seq(S)
  BY DEF CallsMatch
<1>3. OpsCalled \in Seq(Ops) /\ Len(OpsCalled) = number /\ \A k \in 1..number : OpsCalled[k] = calls[k].op
  BY OpsCalledAre DEF CallsMatch, OpsCalled
<1>4. /\ OpsCalled' \in Seq(Ops) /\ Len(OpsCalled') = number + 1
      /\ \A k \in 1..(number + 1) : OpsCalled'[k] = calls'[k].op
  <2>1. number + 1 \in Nat /\ \A k \in 1..(number + 1) : calls'[k].op \in Ops
    BY DEF CallsMatch
  <2> QED
    BY <2>1, OpsCalledAre DEF OpsCalled
<1>5. Len(calls) = number
  BY DEF CallsMatch
<1>6. /\ \E T : Append(calls, c.call) \in Seq(T)
      /\ Len(Append(calls, c.call)) = Len(calls) + 1
      /\ \A k \in 1..Len(calls) : Append(calls, c.call)[k] = calls[k]
      /\ Append(calls, c.call)[Len(calls) + 1] = c.call
  BY <1>2, Appended, Zenon
<1>7. (\A k \in 1..number : calls'[k] = calls[k]) /\ calls'[number + 1] = c.call
  BY <1>5, <1>6, Zenon
<1> DEFINE s == Append(OpsCalled, c.call.op)
           e == c.call.op
<1>9. /\ s \in Seq(Ops) /\ Len(s) = number + 1
      /\ \A k \in 1..number : s[k] = OpsCalled[k]
      /\ s[number + 1] = e
  BY <1>3, AppendIs
<1>10. \A k \in 1..(number + 1) : OpsCalled'[k] = s[k]
  <2>1. \A k \in 1..(number + 1) : k \in 1..number \/ k = number + 1
    OBVIOUS
  <2> HIDE DEF s
  <2>2. \A k \in 1..number : OpsCalled'[k] = s[k]
    <3>1. \A k \in 1..number : k \in 1..(number + 1)
      OBVIOUS
    <3> QED
      BY <1>3, <1>4, <1>7, <1>9, <3>1, Zenon
  <2>3. OpsCalled'[number + 1] = s[number + 1]
    <3>1. number + 1 \in 1..(number + 1)
      OBVIOUS
    <3> QED
      BY <1>4, <1>7, <1>9, <3>1, Zenon
  <2> QED
    BY <2>1, <2>2, <2>3
<1> HIDE DEF s
<1>11. OpsCalled' = s
  BY <1>4, <1>9, <1>10, SeqEqual
<1> QED
  BY <1>11 DEF s

\* A call that is no request is none more.
LEMMA OpsKept ==
  ASSUME CallsMatch, number \in Nat, number' = number, NEW e, calls' = Append(calls, e)
  PROVE  OpsCalled' = OpsCalled
<1>1. PICK S : calls \in Seq(S)
  BY DEF CallsMatch
<1>2. \A k \in 1..Len(calls) : Append(calls, e)[k] = calls[k]
  BY <1>1, Appended, Zenon
<1>3. Len(calls) \in Nat /\ number <= Len(calls)
  BY <1>1 DEF CallsMatch
<1>4. \A k \in 1..number : calls'[k] = calls[k]
  BY <1>2, <1>3
<1> QED
  BY <1>4 DEF OpsCalled

\* Nothing has been returned while nothing has been read.
LEMMA NothingReturned ==
  ASSUME got = <<>>
  PROVE  Result = <<>>
<1>1. Numbers(got) = <<>>
  BY DEF Numbers
<1> QED
  BY <1>1 DEF Result

\* The result stays what it is as long as nothing is called and nothing read.
LEMMA ResultKept ==
  ASSUME UNCHANGED <<asked, got>>
  PROVE  Result' = Result
  BY DEF Result, Numbers, ReplyComplete

\* The loop that takes a command has the result of its last call, unless one has
\* failed.
LEMMA ReadyReturned ==
  ASSUME ProgramInv, cpc = "ready", ~lost, number # 0
  PROVE  Result # <<>>
<1>1. Inv /\ number \in Nat /\ CallsMatch
  BY DEF ProgramInv, Inv, TypeOK
<1>2. Numbers(got) \in Replies(asked)
  BY <1>1 DEF Inv, RepliesMatch
<1>3. asked \in Ops
  <2>1. number \in 1..number
    BY <1>1
  <2> QED
    BY <1>1, <2>1 DEF CallsMatch
<1>4. Numbers(got) \in Seq(Nat) /\ Numbers(got) # <<>>
  BY <1>2, <1>3, ReplyLength
<1>5. ReplyComplete(asked, Numbers(got))
  <2>1. Len(Numbers(got)) \in Nat
    BY <1>4
  <2> QED
    BY <1>2, <1>3, <1>4, <2>1, CompleteWhole
<1> QED
  BY <1>4, <1>5 DEF Result

\* It has then no call under way.
LEMMA ReadyIdle ==
  ASSUME ProgramInv, cpc = "ready", ~lost
  PROVE  OpsCalled # <<>> => Result # <<>>
<1>1. number \in Nat /\ CallsMatch
  BY DEF ProgramInv, Inv, TypeOK
<1>2. number = 0 => OpsCalled = <<>>
  <2>1. OpsCalled \in Seq(Ops) /\ Len(OpsCalled) = number
    BY <1>1, OpsCalledAre DEF CallsMatch, OpsCalled
  <2> QED
    BY <2>1, EmptySeq
<1> QED
  BY <1>2, ReadyReturned

\* The reply that is read to its end is the outcome of the run.
LEMMA OutcomeReturned ==
  ASSUME ProgramInv, ProgramNext, ReadReply, ReplyComplete(asked, Numbers(got'))
  PROVE  /\ number # 0 /\ Len(executed) = number
         /\ ~lost /\ ~quit
         /\ Result = <<>>
         /\ Result' = outcome
<1>1. /\ Inv /\ ExecutedMatch /\ CallsMatch /\ OutcomeFlows /\ TurnsMatch /\ number \in Nat
      /\ got \in Seq(ReplyToken) /\ outcome \in Seq(Nat)
  BY DEF ProgramInv, Inv, TypeOK, OutcomeFlows
<1>2. cpc = "read_reply" /\ cpc' = "ready" /\ ~killed /\ UNCHANGED <<spc, number, asked, answer, killed>>
  BY DEF ReadReply, serverVars
<1>3. spc = "read_op" /\ RequestStream = <<>> /\ responsePipe' = <<>> /\ ~lost /\ ~quit
  BY <1>1, ReadOn
<1>4. asked \in Ops /\ asked # "none"
  BY <1>1, <1>2, <1>3 DEF Inv, RequestsMatch, ClientRequests, Ops
<1>5. number # 0 /\ Len(executed) = number
  BY <1>1, <1>3, <1>4 DEF CallsMatch, ExecutedMatch, CaughtUp, Farewell
<1>6. UNCHANGED <<executed, outcome>>
  BY <1>2 DEF ProgramNext, Loop, SkipCommand, CallCommand, Begin, BeginFails, BeginQuit, ClientTalks, WorkerListens, WorkerExecutes, Execute,
     ClientCrashes, Crash
<1>7. answer = <<>>
  BY <1>1, <1>2, <1>3 DEF Inv, RepliesInv, RepliesFlow, Attends
<1>8. OutcomeFlows'
  BY OutcomeStep
<1>9. got' \o (<<>> \o <<>>) = ReplyTokens(outcome)
  <2>1. lost' = lost /\ quit' = quit
    BY DEF ReadReply
  <2> QED
    BY <1>1, <1>2, <1>3, <1>5, <1>6, <1>7, <1>8, <2>1 DEF OutcomeFlows, ReplyTokens, Attends
<1>10. got' = ReplyTokens(outcome)
  <2>1. got' \in Seq(ReplyToken)
    BY <1>1, InvStep DEF Inv, TypeOK, Next, Client, Talk
  <2>2. <<>> \o <<>> = <<>>
    OBVIOUS
  <2> QED
    BY <1>9, <2>1, <2>2, ConcatEmptySeq
<1>11. Numbers(got') = outcome
  BY <1>1, <1>10, TokensOf
<1>12. Result' = outcome
  BY <1>2, <1>11 DEF Result
<1>13. Result = <<>>
  BY <1>1, <1>2 DEF TurnsMatch, Result
<1> QED
  BY <1>3, <1>5, <1>12, <1>13

\* The steps that are none of RemoteCalls.
LEMMA NothingOfCalls ==
  ASSUME UNCHANGED <<number, calls, executed, outcome>>, lost' = lost, quit' = quit, Result' = Result
  PROVE  UNCHANGED Abstract!callVars
  BY DEF Abstract!callVars

\* What a step of the program is for RemoteCalls: its Call, Run, Return, Fail or
\* Close, or nothing at all.
LEMMA ProgramRefines ==
  ASSUME ProgramInv, [ProgramNext]_programVars
  PROVE  [Abstract!Next]_(Abstract!callVars)
<1>0. /\ Inv /\ FileMatch /\ CallsMatch /\ ExecutedMatch /\ number \in Nat /\ lost \in BOOLEAN /\ quit \in BOOLEAN
  BY DEF ProgramInv, Inv, TypeOK
<1>1. CASE UNCHANGED programVars \/ \E c \in CommandsAt[file][pos] : SkipCommand(c)
  <2>1. UNCHANGED <<number, calls, executed, outcome, asked, got>> /\ lost' = lost /\ quit' = quit
    BY <1>1 DEF programVars, SkipCommand, vars, clientVars
  <2> QED
    BY <2>1, ResultKept, NothingOfCalls
<1>2. ASSUME NEW c \in CommandsAt[file][pos], CallCommand(c)
      PROVE  [Abstract!Next]_(Abstract!callVars)
  <2>1. cpc = "ready" /\ ~quit /\ executed' = executed /\ calls' = Append(calls, c.call)
    BY <1>0, <1>2, CallWays
  <2>2. ~lost => (OpsCalled # <<>> => Result # <<>>)
    BY <2>1, ReadyIdle
  <2>3. CASE /\ c.call.op \in Ops /\ Begin(c.call.op) /\ ~lost /\ outcome' = <<>> /\ number' = number + 1
             /\ got' = <<>> /\ lost' = lost /\ quit' = quit
    <3>1. CallsMatch'
      BY <1>0, <1>2, CallsStep DEF ProgramNext, Loop
    <3>2. OpsCalled' = Append(OpsCalled, c.call.op)
      BY <1>0, <2>1, <2>3, <3>1, OpCalled
    <3>3. Result' = <<>>
      BY <2>3 DEF Result, Numbers
    <3>4. Abstract!Call(c.call.op)
      BY <2>1, <2>2, <2>3, <3>2, <3>3 DEF Abstract!Call, Abstract!Idle, OpsCalled
    <3> QED
      BY <2>3, <3>4 DEF Abstract!Next
  <2>4. CASE lost' = TRUE /\ quit' = quit /\ UNCHANGED <<number, asked, got, outcome>>
    <3>1. OpsCalled' = OpsCalled /\ Result' = Result
      BY <1>0, <2>1, <2>4, OpsKept, ResultKept
    <3>2. CASE lost
      <4>1. lost' = lost
        BY <1>0, <2>4, <3>2, Zenon
      <4> QED
        BY <2>1, <2>4, <3>1, <4>1, Zenon DEF Abstract!callVars, OpsCalled
    <3>3. CASE ~lost
      <4>1. Abstract!Fail
        BY <1>0, <2>1, <2>4, <3>1, <3>3 DEF Abstract!Fail, OpsCalled
      <4> QED
        BY <4>1 DEF Abstract!Next
    <3> QED
      BY <3>2, <3>3
  <2>5. CASE quit' = TRUE /\ lost' = lost /\ UNCHANGED <<number, asked, got, outcome>>
    <3>1. OpsCalled' = OpsCalled /\ Result' = Result
      BY <1>0, <2>1, <2>5, OpsKept, ResultKept
    <3>2. Abstract!Close
      BY <1>0, <2>1, <2>2, <2>5, <3>1 DEF Abstract!Close, Abstract!Idle, OpsCalled
    <3> QED
      BY <3>2 DEF Abstract!Next
  <2> QED
    BY <1>0, <1>2, <2>3, <2>4, <2>5, CallWays
<1>3. CASE WorkerExecutes
  <2>1. /\ asked \in Ops /\ cur.op = asked /\ cur.number = number /\ outcome' \in Replies(asked)
    BY <1>0, <1>3, ExecutedOutcome
  <2>2. spc = "execute" /\ UNCHANGED <<number, calls, asked, got>> /\ lost' = lost /\ quit' = quit
        /\ executed' = Append(executed, [op |-> cur.op, number |-> cur.number])
    BY <1>3 DEF WorkerExecutes, Execute, clientVars
  <2>3. Len(executed) + 1 = number /\ number # 0
    BY <1>0, <2>2 DEF ExecutedMatch, Behind
  <2>4. Len(OpsCalled) = number /\ OpsCalled[number] = asked
    <3>1. number \in 1..number
      BY <1>0, <2>3
    <3>2. Len(OpsCalled) = number /\ OpsCalled[number] = calls[number].op
      BY <1>0, <3>1, OpsCalledAre DEF CallsMatch, OpsCalled
    <3> QED
      BY <1>0, <2>3, <3>2 DEF CallsMatch
  <2>5. Outcomes[asked] = Replies(asked)
    BY <2>1 DEF Outcomes, Ops
  <2>6. Result' = Result
    BY <2>2, ResultKept
  <2>7. outcome' \in Outcomes[OpsCalled[Len(OpsCalled)]]
    BY <2>1, <2>4, <2>5
  <2>8. executed' = Append(executed, [op |-> OpsCalled[Len(OpsCalled)], number |-> Len(OpsCalled)])
    BY <2>1, <2>2, <2>4
  <2>9. Abstract!Run
    BY <2>2, <2>3, <2>4, <2>6, <2>7, <2>8 DEF Abstract!Run, OpsCalled
  <2> QED
    BY <2>9 DEF Abstract!Next
<1>4. CASE WorkerListens \/ ClientCrashes
  <2>1. UNCHANGED <<number, calls, executed, outcome, asked, got>> /\ lost' = lost /\ quit' = quit
    BY <1>4 DEF WorkerListens, ClientCrashes, Listen, ServerOpensRequest, RequestPipeOpen, ServerOpensResponse,
       ResponsePipeOpen, SendSessionId, ReadOpCode, ReadQuit, ReadEnd, ReadArgument, WriteReply, Crash, clientVars
  <2> QED
    BY <2>1, ResultKept, NothingOfCalls
<1>5. CASE ClientTalks
  <2>0. UNCHANGED <<calls, executed, outcome>> /\ Talk
    BY <1>5 DEF ClientTalks
  <2>1. CASE Talk /\ ~ReadReply /\ ~OpenReplyFails
    <3>1. UNCHANGED <<number, asked, got>> /\ lost' = lost /\ quit' = quit
      BY <2>1 DEF Talk, MakeResponse, MakeRequest, MakePipe, Setup, ClientOpensRequest, RequestPipeOpen,
         ClientOpensResponse, ResponsePipeOpen, ReadSessionId, SendField, OpenReply, FinishQuit, Unlink, clientVars
    <3> QED
      BY <2>0, <3>1, ResultKept, NothingOfCalls
  <2>4. CASE OpenReplyFails
    <3>1. UNCHANGED <<number, asked, got>> /\ ~lost /\ lost' = TRUE /\ ~quit /\ quit' = quit
      BY <1>0, <2>4 DEF OpenReplyFails, Inv, DescriptorsMatch
    <3>2. Result' = Result
      BY <3>1, ResultKept
    <3>3. Abstract!Fail
      BY <1>0, <2>0, <3>1, <3>2 DEF Abstract!Fail
    <3> QED
      BY <3>3 DEF Abstract!Next
  <2>2. CASE ReadReply /\ ~ReplyComplete(asked, Numbers(got'))
    <3>1. cpc = "read_reply" /\ UNCHANGED <<number, asked>> /\ lost' = lost /\ quit' = quit
      BY <2>2 DEF ReadReply
    <3>2. Result = <<>> /\ Result' = <<>>
      BY <2>2, <3>1 DEF ProgramInv, TurnsMatch, Result
    <3> QED
      BY <2>0, <3>1, <3>2, NothingOfCalls
  <2>3. CASE ReadReply /\ ReplyComplete(asked, Numbers(got'))
    <3>1. ProgramNext
      BY <1>5 DEF ProgramNext
    <3>2. number # 0 /\ Len(executed) = number /\ ~lost /\ ~quit /\ Result = <<>> /\ Result' = outcome
      BY <2>3, <3>1, OutcomeReturned
    <3>3. Len(OpsCalled) = number
      BY <1>0, OpsCalledAre DEF CallsMatch, OpsCalled
    <3>4. OpsCalled # <<>>
      BY <3>2, <3>3
    <3>5. number' = number /\ lost' = lost /\ quit' = quit
      BY <2>3 DEF ReadReply
    <3>6. Abstract!Return
      BY <1>0, <2>0, <3>2, <3>3, <3>4, <3>5 DEF Abstract!Return, OpsCalled
    <3> QED
      BY <3>6 DEF Abstract!Next
  <2> QED
    BY <2>0, <2>1, <2>2, <2>3, <2>4
<1> QED
  BY <1>1, <1>2, <1>3, <1>4, <1>5 DEF ProgramNext, Loop

\* Over pipes of any size, with replies in pieces, error returns, opens that fail
\* for want of a descriptor and a client that dies anywhere, each call of a script
\* is run at most once, in order, and returns the outcome of its own run; one that
\* fails returns none, and nor does any behind it (api.c, main.c:190-410).
THEOREM ProgramImplementsCalls == ProgramSpec => CallsRunOnce
<1>1. ProgramInit => Abstract!Init
  <2> SUFFICES ASSUME ProgramInit PROVE Abstract!Init
    OBVIOUS
  <2>1. number = 0 /\ executed = <<>> /\ outcome = <<>> /\ got = <<>> /\ lost = FALSE /\ quit = FALSE
    BY DEF ProgramInit, Init
  <2>2. OpsCalled = <<>>
    BY <2>1 DEF OpsCalled
  <2> QED
    BY <2>1, <2>2, NothingReturned DEF Abstract!Init, OpsCalled
<1>2. ProgramInv /\ [ProgramNext]_programVars => [Abstract!Next]_(Abstract!callVars)
  BY ProgramRefines
<1> QED
  BY <1>1, <1>2, ProgramInvariance, PTL DEF ProgramSpec, CallsRunOnce, Abstract!Spec
=============================================================================
