-------------------------- MODULE ServerPipeProofs --------------------------
(***************************************************************************)
(* Theorems about ServerPipe, for every set of clients, every length of     *)
(* paths and every number of signals: the inductive invariant Inv and what  *)
(* follows from it.                                                         *)
(*                                                                         *)
(* As long as setups do not overlap, the bytes in the pipe are a stretch of *)
(* the setups in their order.  Where the stretch begins is a place (j, c):  *)
(* c bytes of the j-th setup are read.  An interrupted my_read forgets      *)
(* bytes but never asks for more than the two paths that follow an op_code, *)
(* so the place does not leave a setup before its op_code has an outcome.   *)
(***************************************************************************)
EXTENDS ServerPipe, SequenceTheorems, TLAPS

-----------------------------------------------------------------------------
(* The stream of setups *)

\* The number of bytes of a setup.
W == 2 * P + 1

\* The r-th byte of a client's setup.
SetupByte(client, r) ==
  IF r = 1 THEN OpCode(client)
  ELSE IF r <= P + 1 THEN [client |-> client, of |-> "request_pipe_path", place |-> r - 1]
  ELSE [client |-> client, of |-> "response_pipe_path", place |-> r - 1 - P]

\* How many bytes k writes of a setup are.
Bytes(k) == IF k = 0 THEN 0 ELSE IF k = 1 THEN 1 ELSE IF k = 2 THEN P + 1 ELSE W

\* How many bytes of the last setup are written.
WrittenOfLast == IF sent = <<>> THEN W ELSE Bytes(written[sent[Len(sent)]])

\* How far the beginning of setup i is behind that of setup j.
Between(j, i) == (i - j) * W

\* Where byte r of setup i is in the pipe, when c bytes of setup j are read.
PlaceInPipe(i, r, j, c) == Between(j, i) + r - c

\* The next byte of the pipe is the one after byte c of setup j.
StreamFrom(j, c) ==
  /\ Len(pipe) = PlaceInPipe(Len(sent), WrittenOfLast, j, c)
  /\ \A i \in 1..Len(sent), r \in 1..W :
       PlaceInPipe(i, r, j, c) \in 1..Len(pipe) => pipe[PlaceInPipe(i, r, j, c)] = SetupByte(sent[i], r)

-----------------------------------------------------------------------------
(* The inductive invariant *)

\* The handler keeps the main thread where the signal found it, and only the
\* start of the server and an unfinished handler leave the signal to the
\* default.
SignalsInv ==
  /\ handler.on = "read" => at \in DOMAIN Size
  /\ handler = NoHandler /\ ~killed => registered \/ at \in {"mkfifo", "signal", "failed"}
  /\ at \in Unopened => sent = <<>>

Outcome ==
  [what : {"dropped", "torn", "inserted"}, op : Byte \cup {NoByte}, paths : Seq(Seq(Byte \cup {NoByte}))]

BuffersInv ==
  /\ buf \in [DOMAIN Size -> Seq(Byte \cup {NoByte})]
  /\ outcome \in Seq(Outcome)

\* Unless setups overlap, only the last one can be unfinished.
WritersInv ==
  /\ \A i \in 1..Len(sent) : written[sent[i]] # 0
  /\ \A d \in Clients : written[d] \in 1..2 => sent # <<>> /\ d = sent[Len(sent)]

\* The first bytes of a path that my_read has stored.
Stored(v, n) == \A i \in 1..n : buf[v][i] = [client |-> sent[Len(outcome) + 1], of |-> v, place |-> i]

\* Every op_code that was read has its outcome.
Idle == \E c \in 1..W :
  /\ Len(outcome) = 0 => c = W
  /\ Len(outcome) <= Len(sent)
  /\ StreamFrom(Len(outcome), c)

\* The op_code of the next setup was read, and c bytes of the setup altogether.
Busy(c) ==
  /\ Len(outcome) < Len(sent)
  /\ buf["op_code"] = <<OpCode(sent[Len(outcome) + 1])>>
  /\ StreamFrom(Len(outcome) + 1, c)

PlaceInv ==
  /\ at \in Starting \cup {"op_code"} => Idle /\ buf["op_code"] = <<NoByte>>
  /\ at \in Starting \cup {"op_code", "test", "print", "insert"} => done = 0
  /\ at = "test" => (Idle /\ ~IsSetup) \/ Busy(1)
  /\ at \in {"test", "op_code"} \cup Starting => ~torn
  /\ at = "print" => Idle
  /\ at = "request_pipe_path" => ~torn /\ Busy(done + 1) /\ Stored("request_pipe_path", done)
  /\ at = "response_pipe_path" =>
       IF torn THEN \E c \in 1..(P + done) : Busy(c)
       ELSE Busy(P + done + 1) /\ Stored("request_pipe_path", P) /\ Stored("response_pipe_path", done)
  /\ at = "insert" =>
       IF torn THEN \E c \in 1..W : Busy(c)
       ELSE Busy(W) /\ Stored("request_pipe_path", P) /\ Stored("response_pipe_path", P)

OutcomesInv ==
  \A i \in 1..Len(outcome) :
    /\ outcome[i].op = OpCode(sent[i])
    /\ outcome[i].what = "inserted" => outcome[i].paths = Paths(sent[i])

Inv ==
  /\ TypeOK
  /\ SignalsInv
  /\ BuffersInv
  /\ ~overlap => WritersInv /\ PlaceInv /\ OutcomesInv

-----------------------------------------------------------------------------
(* Types *)

LEMMA Sizes ==
  /\ DOMAIN Size = {"op_code", "request_pipe_path", "response_pipe_path"}
  /\ Size["op_code"] = 1 /\ Size["request_pipe_path"] = P /\ Size["response_pipe_path"] = P
  /\ \A v \in DOMAIN Size : Size[v] \in Nat \ {0}
  BY PipeAssumption DEF Size

LEMMA TupleConcat ==
  ASSUME NEW x, NEW y, NEW z
  PROVE  <<x>> \o <<y, z>> = <<x, y, z>>
<1> DEFINE S == {x, y, z}
           s == <<x>>
           r == <<y, z>>
           u == <<x, y, z>>
<1>1. /\ s \in Seq(S) /\ Len(s) = 1 /\ s[1] = x
      /\ r \in Seq(S) /\ Len(r) = 2 /\ r[1] = y /\ r[2] = z
      /\ u \in Seq(S) /\ Len(u) = 3 /\ u[1] = x /\ u[2] = y /\ u[3] = z
  OBVIOUS
<1> HIDE DEF S, s, r, u
<1>2. s \o r \in Seq(S) /\ Len(s \o r) = 3 /\ (s \o r)[1] = x /\ (s \o r)[2] = y /\ (s \o r)[3] = z
  <2>1. /\ s \o r \in Seq(S) /\ Len(s \o r) = Len(s) + Len(r)
        /\ \A i \in 1..(Len(s) + Len(r)) : (s \o r)[i] = IF i <= Len(s) THEN s[i] ELSE r[i - Len(s)]
    BY <1>1, ConcatProperties
  <2>2. \A i \in 1..3 : (s \o r)[i] = IF i <= 1 THEN s[i] ELSE r[i - 1]
    BY <1>1, <2>1
  <2>3. (s \o r)[1] = s[1] /\ (s \o r)[2] = r[1] /\ (s \o r)[3] = r[2]
    <3> DEFINE w == s \o r
    <3>1. \A i \in 1..3 : w[i] = IF i <= 1 THEN s[i] ELSE r[i - 1]
      BY <2>2
    <3> HIDE DEF w
    <3>2. w[1] = s[1]
      BY <3>1
    <3>3. w[2] = r[2 - 1]
      BY <3>1
    <3>4. w[3] = r[3 - 1]
      BY <3>1
    <3> QED
      BY <3>2, <3>3, <3>4 DEF w
  <2> QED
    BY <1>1, <2>1, <2>3
<1>3. s \o r = u
  BY <1>1, <1>2, SeqEqual
<1> QED
  BY <1>3 DEF s, r, u

\* The three writes of a setup.
LEMMA SetupWrites ==
  ASSUME NEW c \in Clients
  PROVE  /\ Len(Setup(c)) = 3
         /\ Setup(c)[1] = <<OpCode(c)>>
         /\ Setup(c)[2] = Path(c, "request_pipe_path")
         /\ Setup(c)[3] = Path(c, "response_pipe_path")
         /\ OpCode(c) \in Byte
         /\ Path(c, "request_pipe_path") \in Seq(Byte) /\ Len(Path(c, "request_pipe_path")) = P
         /\ Path(c, "response_pipe_path") \in Seq(Byte) /\ Len(Path(c, "response_pipe_path")) = P
<1> DEFINE a == Path(c, "request_pipe_path")
           b == Path(c, "response_pipe_path")
<1>1. P \in Nat \ {0}
  BY PipeAssumption
<1>2. OpCode(c) \in Byte
  BY <1>1, Sizes DEF OpCode, Byte
<1>3. \A i \in 1..P : /\ [client |-> c, of |-> "request_pipe_path", place |-> i] \in Byte
                      /\ [client |-> c, of |-> "response_pipe_path", place |-> i] \in Byte
  BY Sizes DEF Byte
<1>4. a \in Seq(Byte) /\ Len(a) = P /\ b \in Seq(Byte) /\ Len(b) = P
  <2>1. /\ a = [i \in 1..P |-> [client |-> c, of |-> "request_pipe_path", place |-> i]]
        /\ b = [i \in 1..P |-> [client |-> c, of |-> "response_pipe_path", place |-> i]]
    BY DEF Path
  <2> HIDE DEF a, b
  <2> QED
    BY <1>1, <1>3, <2>1
<1> HIDE DEF a, b
<1>5. Setup(c) = << <<OpCode(c)>> >> \o <<a, b>>
  BY DEF Setup, Paths, a, b
<1>6. << <<OpCode(c)>> >> \o <<a, b>> = << <<OpCode(c)>>, a, b >>
  BY TupleConcat
<1> QED
  BY <1>2, <1>4, <1>5, <1>6 DEF a, b

\* One turn of my_read takes n bytes from the front of the pipe and stores them
\* behind those it has (io.c:21-58).
LEMMA ReadTurn ==
  ASSUME TypeOK, BuffersInv, Read
  PROVE  \E n \in 1..Len(pipe) :
           /\ at \in DOMAIN Size /\ done + n <= Size[at]
           /\ pipe' \in Seq(Byte) /\ Len(pipe') = Len(pipe) - n
           /\ \A k \in 1..Len(pipe') : pipe'[k] = pipe[k + n]
           /\ buf' \in [DOMAIN Size -> Seq(Byte \cup {NoByte})]
           /\ \A v \in DOMAIN Size : v # at => buf'[v] = buf[v]
           /\ Len(buf'[at]) = Size[at]
           /\ \A i \in 1..Size[at] :
                buf'[at][i] = IF i \in (done + 1)..(done + n) THEN pipe[i - done] ELSE buf[at][i]
           /\ IF done + n = Size[at]
              THEN at' = After[at] /\ done' = 0
              ELSE at' = at /\ done' = done + n
<1> DEFINE want == Size[at] - done
           n == IF want < Len(pipe) THEN want ELSE Len(pipe)
           Any == Byte \cup {NoByte}
           s == buf[at]
           a == SubSeq(s, 1, done)
           b == SubSeq(pipe, 1, n)
           d == SubSeq(s, done + Len(b) + 1, Size[at])
<1>1. /\ at \in DOMAIN Size /\ pipe # <<>>
      /\ buf' = [buf EXCEPT ![at] = a \o b \o d]
      /\ pipe' = SubSeq(pipe, n + 1, Len(pipe))
      /\ IF done + n >= Size[at] THEN at' = After[at] /\ done' = 0 ELSE done' = done + n /\ at' = at
  BY DEF Read, ReadUpTo, Store
<1>2. /\ pipe \in Seq(Byte) /\ Len(pipe) \in Nat /\ Len(pipe) # 0 /\ Size[at] \in Nat \ {0}
      /\ done \in Nat /\ done < Size[at] /\ s \in Seq(Any) /\ Len(s) = Size[at]
  <2>1. pipe \in Seq(Byte) /\ done \in Nat /\ done < Size[at] /\ DOMAIN s = 1..Size[at]
    BY <1>1 DEF TypeOK
  <2>2. Size[at] \in Nat \ {0} /\ s \in Seq(Any)
    BY <1>1, Sizes DEF BuffersInv
  <2> HIDE DEF s, Any
  <2>3. Len(s) = Size[at]
    BY <2>1, <2>2
  <2>4. Len(pipe) \in Nat /\ Len(pipe) # 0
    BY <1>1, <2>1
  <2> QED
    BY <2>1, <2>2, <2>3, <2>4
<1>3. n \in 1..Len(pipe) /\ done + n <= Size[at] /\ n \in Nat
  BY <1>2
<1> HIDE DEF n, s
<1>4. /\ pipe' \in Seq(Byte) /\ Len(pipe') = Len(pipe) - n
      /\ \A k \in 1..Len(pipe') : pipe'[k] = pipe[k + n]
  BY <1>1, <1>2, <1>3
<1>5. b \in Seq(Any) /\ Len(b) = n /\ \A i \in 1..n : b[i] = pipe[i]
  <2>1. b \in Seq(Byte) /\ Len(b) = n /\ \A i \in 1..n : b[i] = pipe[i]
    BY <1>2, <1>3
  <2> QED
    BY <2>1, SeqMonotonic
<1>6. a \in Seq(Any) /\ Len(a) = done /\ \A i \in 1..done : a[i] = s[i]
  BY <1>2
<1>7. /\ d \in Seq(Any) /\ Len(d) = Size[at] - done - n
      /\ \A i \in 1..(Size[at] - done - n) : d[i] = s[i + done + n]
  BY <1>2, <1>3, <1>5
<1> HIDE DEF a, b, d
<1> DEFINE ab == a \o b
<1>8. ab \in Seq(Any) /\ Len(ab) = done + n /\ \A i \in 1..(done + n) : ab[i] = IF i <= done THEN s[i] ELSE pipe[i - done]
  <2>1. /\ ab \in Seq(Any) /\ Len(ab) = Len(a) + Len(b)
        /\ \A i \in 1..(Len(a) + Len(b)) : ab[i] = IF i <= Len(a) THEN a[i] ELSE b[i - Len(a)]
    BY <1>5, <1>6, ConcatProperties
  <2> HIDE DEF ab
  <2>2. \A i \in 1..(done + n) : i > done => b[i - done] = pipe[i - done]
    BY <1>2, <1>3, <1>5
  <2> QED
    BY <1>2, <1>3, <1>5, <1>6, <2>1, <2>2
<1> HIDE DEF ab
<1> DEFINE abd == ab \o d
<1>9. /\ abd \in Seq(Any) /\ Len(abd) = Size[at]
      /\ \A i \in 1..Size[at] : abd[i] = IF i \in (done + 1)..(done + n) THEN pipe[i - done] ELSE s[i]
  <2>1. /\ abd \in Seq(Any) /\ Len(abd) = Len(ab) + Len(d)
        /\ \A i \in 1..(Len(ab) + Len(d)) : abd[i] = IF i <= Len(ab) THEN ab[i] ELSE d[i - Len(ab)]
    BY <1>7, <1>8, ConcatProperties
  <2> HIDE DEF abd
  <2> DEFINE size == Size[at]
  <2>2. size \in Nat /\ done \in Nat /\ n \in Nat /\ done + n <= size
    BY <1>2, <1>3
  <2>3. Len(ab) = done + n /\ Len(d) = size - done - n
    BY <1>7, <1>8
  <2> HIDE DEF size
  <2>4. Len(abd) = size
    BY <2>1, <2>2, <2>3
  <2>5. \A i \in 1..size : abd[i] = IF i <= done + n THEN ab[i] ELSE d[i - (done + n)]
    BY <2>1, <2>2, <2>3
  <2>6. \A i \in 1..size : i > done + n => d[i - (done + n)] = s[i]
    <3> SUFFICES ASSUME NEW i \in 1..size, i > done + n PROVE d[i - (done + n)] = s[i]
      OBVIOUS
    <3>1. i - (done + n) \in 1..(size - done - n) /\ (i - (done + n)) + done + n = i
      BY <2>2
    <3> QED
      BY <1>7, <3>1 DEF size
  <2>7. \A i \in 1..size : abd[i] = IF i \in (done + 1)..(done + n) THEN pipe[i - done] ELSE s[i]
    BY <1>8, <2>2, <2>5, <2>6
  <2> QED
    BY <2>1, <2>4, <2>7 DEF size
<1>10. buf' = [buf EXCEPT ![at] = abd]
  BY <1>1 DEF ab
<1> HIDE DEF abd
<1>11. /\ buf' \in [DOMAIN Size -> Seq(Any)]
       /\ buf'[at] = abd
       /\ \A v \in DOMAIN Size : v # at => buf'[v] = buf[v]
  BY <1>1, <1>9, <1>10 DEF BuffersInv
<1>12. IF done + n = Size[at] THEN at' = After[at] /\ done' = 0 ELSE at' = at /\ done' = done + n
  <2> DEFINE size == Size[at]
  <2>1. size \in Nat /\ done \in Nat /\ n \in Nat /\ done + n <= size
    BY <1>2, <1>3
  <2>2. IF done + n >= size THEN at' = After[at] /\ done' = 0 ELSE done' = done + n /\ at' = at
    BY <1>1
  <2> HIDE DEF size
  <2>3. done + n >= size <=> done + n = size
    BY <2>1
  <2> QED
    BY <2>2, <2>3 DEF size
<1> QED
  BY <1>1, <1>3, <1>4, <1>9, <1>11, <1>12 DEF s

Typed == TypeOK /\ BuffersInv

LEMMA InitTyped == Init => Typed
<1> SUFFICES ASSUME Init PROVE Typed
  OBVIOUS
<1>1. pipe \in Seq(Byte) /\ sent \in Seq(Clients) /\ outcome \in Seq(Outcome) /\ Len(outcome) = 0
        /\ DOMAIN outcome = 1..Len(outcome)
  BY DEF Init
<1>2. /\ \A v \in DOMAIN Size : [i \in 1..Size[v] |-> NoByte] \in Seq(Byte \cup {NoByte})
      /\ buf = [v \in DOMAIN Size |-> [i \in 1..Size[v] |-> NoByte]]
  BY Sizes DEF Init
<1>3. /\ buf \in [DOMAIN Size -> Seq(Byte \cup {NoByte})]
      /\ \A v \in DOMAIN Size : DOMAIN buf[v] = 1..Size[v] /\ \A i \in 1..Size[v] : buf[v][i] = NoByte
  BY <1>2
<1>4. at \notin DOMAIN Size
  BY Sizes DEF Init
<1>5. /\ at \in DOMAIN Size \cup {"test", "print", "insert"} \cup Starting
      /\ done \in Nat /\ done < (IF at \in DOMAIN Size THEN Size[at] ELSE 1)
  BY <1>4 DEF Init, Starting, Unopened
<1>6. handler \in [at : {"flag", "register"}, on : {"main", "read", "worker"}] \cup {NoHandler}
  BY DEF Init
<1>7. written \in [Clients -> 0..3] /\ signals \in 0..MaxSignals
  BY PipeAssumption DEF Init
<1>8. /\ file \in BOOLEAN /\ unblocked \in BOOLEAN /\ print_flag \in BOOLEAN /\ registered \in BOOLEAN
      /\ killed \in BOOLEAN /\ overlap \in BOOLEAN /\ torn \in BOOLEAN /\ owed \in BOOLEAN
  BY DEF Init
<1>9. TypeOK
  BY <1>1, <1>3, <1>5, <1>6, <1>7, <1>8 DEF TypeOK
<1> QED
  BY <1>1, <1>3, <1>9 DEF Typed, BuffersInv

\* Back at the top of the loop.
LEMMA AgainTyped ==
  ASSUME Typed, Again
  PROVE  /\ buf' \in [DOMAIN Size -> Seq(Byte \cup {NoByte})]
         /\ \A v \in DOMAIN Size :
              DOMAIN buf'[v] = 1..Size[v] /\ \A i \in 1..Size[v] : buf'[v][i] \in Byte \cup {NoByte}
<1>1. <<NoByte>> \in Seq(Byte \cup {NoByte}) /\ DOMAIN <<NoByte>> = 1..1 /\ <<NoByte>>[1] = NoByte
  OBVIOUS
<1>2. buf' = [buf EXCEPT !["op_code"] = <<NoByte>>]
  BY DEF Again
<1> QED
  BY <1>1, <1>2, Sizes DEF Typed, TypeOK, BuffersInv

\* An op_code gets its outcome.
LEMMA SettleTyped ==
  ASSUME Typed, NEW what \in {"dropped", "torn", "inserted"},
         NEW paths \in Seq(Seq(Byte \cup {NoByte})), Settle(what, paths)
  PROVE  outcome' \in Seq(Outcome) /\ DOMAIN outcome' = 1..Len(outcome')
<1>1. buf["op_code"][1] \in Byte \cup {NoByte}
  BY Sizes DEF Typed, TypeOK
<1>2. [what |-> what, op |-> buf["op_code"][1], paths |-> paths] \in Outcome
  BY <1>1 DEF Outcome
<1>3. outcome' = Append(outcome, [what |-> what, op |-> buf["op_code"][1], paths |-> paths])
  BY DEF Settle
<1>4. outcome' \in Seq(Outcome)
  BY <1>2, <1>3, AppendProperties DEF Typed, BuffersInv
<1> QED
  BY <1>4

LEMMA TypedStep ==
  ASSUME Typed, SignalsInv, Next
  PROVE  Typed'
<1> USE DEF Typed
<1>1. ASSUME NEW c \in Clients, Write(c) PROVE Typed'
  <2>1. written[c] \in 0..2 /\ written' = [written EXCEPT ![c] = @ + 1] /\ pipe' = pipe \o Setup(c)[written'[c]]
    <3>1. written[c] < 3 /\ written' = [written EXCEPT ![c] = @ + 1] /\ pipe' = pipe \o Setup(c)[written'[c]]
      BY <1>1, SetupWrites DEF Write
    <3>2. written[c] \in 0..3
      BY DEF TypeOK
    <3> QED
      BY <3>1, <3>2
  <2>2. written' \in [Clients -> 0..3] /\ written'[c] \in 1..3
    BY <2>1 DEF TypeOK
  <2>3. Setup(c)[written'[c]] \in Seq(Byte)
    <3>1. <<OpCode(c)>> \in Seq(Byte)
      BY SetupWrites
    <3>2. Setup(c)[1] \in Seq(Byte) /\ Setup(c)[2] \in Seq(Byte) /\ Setup(c)[3] \in Seq(Byte)
      BY <3>1, SetupWrites
    <3>3. written'[c] = 1 \/ written'[c] = 2 \/ written'[c] = 3
      BY <2>2
    <3> QED
      BY <3>2, <3>3
  <2>4. pipe' \in Seq(Byte)
    BY <2>1, <2>3, ConcatProperties DEF TypeOK
  <2>5. sent' \in Seq(Clients)
    BY <1>1 DEF Write, TypeOK
  <2>6. overlap' \in BOOLEAN
    BY <1>1 DEF Write, TypeOK
  <2> QED
    BY <1>1, <2>2, <2>4, <2>5, <2>6 DEF Write, TypeOK, BuffersInv, signal
<1>2. CASE Start
  BY ZenonT(60), <1>2, Sizes DEF Start, MakeServerPipe, Register, OpenServerPipe, StartWorkers, TypeOK, BuffersInv,
     Starting, Unopened, signal, history
<1>3. CASE WorkersBlock
  BY ZenonT(60), <1>3 DEF WorkersBlock, TypeOK, BuffersInv, signal, history
<1>4. CASE Read
  <2>1. PICK n \in 1..Len(pipe) :
           /\ at \in DOMAIN Size /\ done + n <= Size[at]
           /\ pipe' \in Seq(Byte)
           /\ buf' \in [DOMAIN Size -> Seq(Byte \cup {NoByte})]
           /\ \A v \in DOMAIN Size : v # at => buf'[v] = buf[v]
           /\ Len(buf'[at]) = Size[at]
           /\ IF done + n = Size[at]
              THEN at' = After[at] /\ done' = 0
              ELSE at' = at /\ done' = done + n
    BY <1>4, ReadTurn
  <2>2. /\ at' \in DOMAIN Size \cup {"test", "print", "insert"} \cup Starting
        /\ done' \in Nat /\ done' < (IF at' \in DOMAIN Size THEN Size[at'] ELSE 1)
    <3>1. After[at] \in DOMAIN Size \cup {"test", "insert"}
      BY <2>1, Sizes DEF After
    <3>2. done \in Nat /\ n \in Nat /\ Size[at] \in Nat
      BY <2>1, Sizes DEF TypeOK
    <3>3. CASE done + n = Size[at]
      BY <2>1, <3>1, <3>3, Sizes
    <3>4. CASE done + n # Size[at]
      <4> DEFINE size == Size[at]
      <4>1. done \in Nat /\ n \in Nat /\ size \in Nat /\ done + n <= size /\ done + n # size
        BY <2>1, <3>2, <3>4
      <4> HIDE DEF size
      <4>2. done + n \in Nat /\ done + n < size
        BY <4>1
      <4> QED
        BY <2>1, <3>4, <4>2 DEF size
    <3> QED
      BY <3>3, <3>4
  <2>3. \A v \in DOMAIN Size :
          DOMAIN buf'[v] = 1..Size[v] /\ \A i \in 1..Size[v] : buf'[v][i] \in Byte \cup {NoByte}
    <3> SUFFICES ASSUME NEW v \in DOMAIN Size
                 PROVE  DOMAIN buf'[v] = 1..Size[v] /\ \A i \in 1..Size[v] : buf'[v][i] \in Byte \cup {NoByte}
      OBVIOUS
    <3>1. CASE v = at
      <4>1. buf'[v] \in Seq(Byte \cup {NoByte}) /\ Len(buf'[v]) = Size[v]
        BY <2>1, <3>1
      <4> QED
        BY <4>1
    <3>2. CASE v # at
      BY <2>1, <3>2 DEF TypeOK
    <3> QED
      BY <3>1, <3>2
  <2>4. UNCHANGED <<file, written, unblocked, signal, history>>
    BY <1>4 DEF Read, ReadUpTo
  <2> QED
    BY <2>1, <2>2, <2>3, <2>4 DEF TypeOK, BuffersInv, signal, history
<1>5. CASE StartPrint
  <2>1. outcome' \in Seq(Outcome) /\ DOMAIN outcome' = 1..Len(outcome')
    <3>1. CASE IsSetup
      BY <1>5, <3>1, SettleTyped, EmptySeq DEF StartPrint
    <3>2. CASE ~IsSetup
      BY <1>5, <3>2 DEF StartPrint, TypeOK, BuffersInv
    <3> QED
      BY <3>1, <3>2
  <2>2. "print" \notin DOMAIN Size /\ "test" \notin DOMAIN Size
    BY Sizes
  <2> QED
    BY <1>5, <2>1, <2>2 DEF StartPrint, TypeOK, BuffersInv, signal
<1>6. CASE EndPrint
  <2>1. "print" \notin DOMAIN Size /\ "op_code" \in DOMAIN Size /\ Size["op_code"] = 1
    BY Sizes
  <2>2. Again
    BY <1>6 DEF EndPrint
  <2>3. at' = "op_code" /\ torn' = FALSE
    BY <2>2 DEF Again
  <2> QED
    BY ZenonT(60), <1>6, <2>1, <2>2, <2>3, AgainTyped DEF EndPrint, TypeOK, BuffersInv
<1>7. CASE TakeOpCode
  <2>1. "test" \notin DOMAIN Size /\ "op_code" \in DOMAIN Size /\ Size["op_code"] = 1
          /\ "request_pipe_path" \in DOMAIN Size /\ Size["request_pipe_path"] \in Nat \ {0}
    BY Sizes
  <2>2. CASE IsSetup
    BY <1>7, <2>1, <2>2 DEF TakeOpCode, TypeOK, BuffersInv, signal
  <2>3. CASE ~IsSetup
    <3>1. Again
      BY <1>7, <2>3 DEF TakeOpCode
    <3>2. at' = "op_code" /\ torn' = FALSE
      BY <3>1 DEF Again
    <3> QED
      BY ZenonT(60), <1>7, <2>1, <3>1, <3>2, AgainTyped DEF TakeOpCode, TypeOK, BuffersInv, signal
  <2> QED
    BY <2>2, <2>3
<1>8. CASE InsertRequest
  <2>1. "insert" \notin DOMAIN Size /\ "op_code" \in DOMAIN Size /\ Size["op_code"] = 1
    BY Sizes
  <2>2. Again
    BY <1>8 DEF InsertRequest
  <2>3. at' = "op_code" /\ torn' = FALSE
    BY <2>2 DEF Again
  <2>4. <<buf["request_pipe_path"], buf["response_pipe_path"]>> \in Seq(Seq(Byte \cup {NoByte}))
    <3>1. buf["request_pipe_path"] \in Seq(Byte \cup {NoByte}) /\ buf["response_pipe_path"] \in Seq(Byte \cup {NoByte})
      BY Sizes DEF BuffersInv
    <3> QED
      BY <3>1
  <2>5. (IF torn THEN "torn" ELSE "inserted") \in {"dropped", "torn", "inserted"}
    OBVIOUS
  <2>6. outcome' \in Seq(Outcome) /\ DOMAIN outcome' = 1..Len(outcome')
    BY <1>8, <2>4, <2>5, SettleTyped DEF InsertRequest
  <2> QED
    BY ZenonT(60), <1>8, <2>1, <2>2, <2>3, <2>6, AgainTyped DEF InsertRequest, TypeOK, BuffersInv, signal
<1>9. ASSUME NEW on \in {"main", "read", "worker"}, Sigusr1(on) PROVE Typed'
  <2>1. handler' \in [at : {"flag", "register"}, on : {"main", "read", "worker"}] \cup {NoHandler}
    BY <1>9 DEF Sigusr1, TypeOK
  <2>2. signals' \in 0..MaxSignals
    BY <1>9, PipeAssumption DEF Sigusr1, TypeOK
  <2>3. registered' \in BOOLEAN /\ killed' \in BOOLEAN
    BY <1>9 DEF Sigusr1, TypeOK
  <2>4. UNCHANGED <<file, pipe, written, at, unblocked, done, buf, print_flag, sent, overlap, torn, owed, outcome>>
    BY <1>9 DEF Sigusr1, history
  <2> QED
    BY <2>1, <2>2, <2>3, <2>4 DEF TypeOK, BuffersInv
<1>10. CASE RaiseFlag
  <2>1. handler \in [at : {"flag", "register"}, on : {"main", "read", "worker"}]
    BY <1>10 DEF RaiseFlag, TypeOK, NoHandler
  <2>2. handler' \in [at : {"flag", "register"}, on : {"main", "read", "worker"}]
    BY <1>10, <2>1 DEF RaiseFlag
  <2>3. owed' \in BOOLEAN
    BY <1>10 DEF RaiseFlag, TypeOK
  <2> QED
    BY <1>10, <2>2, <2>3 DEF RaiseFlag, TypeOK, BuffersInv
<1>11. CASE Reregister
  <2>1. /\ at' \in DOMAIN Size \cup {"test", "print", "insert"} \cup Starting
        /\ done' \in Nat /\ done' < (IF at' \in DOMAIN Size THEN Size[at'] ELSE 1)
        /\ torn' \in BOOLEAN
    <3>1. CASE handler.on = "read"
      <4>1. at \in DOMAIN Size
        BY <3>1 DEF SignalsInv
      <4>2. After[at] \in DOMAIN Size \cup {"test", "insert"}
        BY <4>1, Sizes DEF After
      <4>3. at' = After[at] /\ done' = 0 /\ torn' = (at # "op_code")
        BY <1>11, <3>1 DEF Reregister, Return
      <4> QED
        BY <4>2, <4>3, Sizes
    <3>2. CASE handler.on # "read"
      BY <1>11, <3>2 DEF Reregister, Return, TypeOK
    <3> QED
      BY <3>1, <3>2
  <2>2. handler' = NoHandler
    BY <1>11 DEF Reregister, Return
  <2> QED
    BY <1>11, <2>1, <2>2 DEF Reregister, TypeOK, BuffersInv
<1> QED
  BY <1>1, <1>2, <1>3, <1>4, <1>5, <1>6, <1>7, <1>8, <1>9, <1>10, <1>11 DEF Next, MainThread, Handler

-----------------------------------------------------------------------------
(* Signals *)

\* Only an unfinished handler, or a server that has not registered it yet,
\* leaves the signal to the default (main.c:67-75, 595).
LEMMA SignalsStep ==
  ASSUME Typed, SignalsInv, Next
  PROVE  SignalsInv'
<1> USE DEF SignalsInv, Starting, Unopened
<1>0. /\ DOMAIN Size = {"op_code", "request_pipe_path", "response_pipe_path"}
      /\ registered \in BOOLEAN /\ killed \in BOOLEAN
  BY Sizes DEF Typed, TypeOK
<1>1. ASSUME NEW c \in Clients, Write(c) PROVE SignalsInv'
  BY <1>1 DEF Write, signal
<1>2. CASE Start
  BY <1>0, <1>2 DEF Start, MakeServerPipe, Register, OpenServerPipe, StartWorkers, MainRuns, signal, history
<1>3. CASE WorkersBlock
  BY <1>3 DEF WorkersBlock, signal, history
<1>4. CASE Read
  <2>1. at \in DOMAIN Size /\ at' \notin Starting /\ handler.on # "read"
    <3>1. at \in DOMAIN Size /\ (at' = After[at] \/ at' = at) /\ handler.on # "read"
      BY <1>4 DEF Read, ReadUpTo, MainRuns
    <3> QED
      BY <1>0, <3>1 DEF After
  <2> QED
    BY <1>0, <1>4, <2>1 DEF Read, ReadUpTo, signal, history
<1>5. CASE StartPrint \/ EndPrint \/ TakeOpCode \/ InsertRequest
  BY <1>0, <1>5 DEF StartPrint, EndPrint, TakeOpCode, InsertRequest, Again, MainRuns, signal
<1>6. ASSUME NEW on \in {"main", "read", "worker"}, Sigusr1(on) PROVE SignalsInv'
  BY <1>0, <1>6 DEF Sigusr1, NoHandler, history
<1>7. CASE RaiseFlag
  <2>1. handler # NoHandler /\ handler'.on = handler.on /\ handler'.at = "register"
    BY <1>7 DEF RaiseFlag, Typed, TypeOK, NoHandler
  <2> QED
    BY <1>7, <2>1 DEF RaiseFlag, NoHandler
<1>8. CASE Reregister
  <2>1. at' \in Unopened => at' = at
    BY <1>0, <1>8 DEF Reregister, Return, After
  <2> QED
    BY <1>8, <2>1 DEF Reregister, Return, NoHandler
<1> QED
  BY <1>1, <1>2, <1>3, <1>4, <1>5, <1>6, <1>7, <1>8 DEF Next, MainThread, Handler

LEMMA StreamlessInvariance == Spec => [](Typed /\ SignalsInv)
<1>1. Init => Typed /\ SignalsInv
  <2>1. Init => SignalsInv
    BY DEF Init, SignalsInv, Starting, Unopened, NoHandler
  <2> QED
    BY <2>1, InitTyped
<1>2. Typed /\ SignalsInv /\ [Next]_vars => (Typed /\ SignalsInv)'
  <2>1. CASE Next
    BY <2>1, TypedStep, SignalsStep
  <2>2. CASE UNCHANGED vars
    BY <2>2 DEF vars, signal, history, Typed, TypeOK, BuffersInv, SignalsInv
  <2> QED
    BY <2>1, <2>2
<1> QED
  BY <1>1, <1>2, PTL DEF Spec

\* Every variable keeps its type; in particular my_read never stores more than
\* its variable holds (io.c:21-58).
THEOREM ServerPipeTypeCorrect == Spec => []TypeOK
<1>1. Typed /\ SignalsInv => TypeOK
  BY DEF Typed
<1> QED
  BY <1>1, StreamlessInvariance, PTL

\* A signal ends the server only while the handler of the one before has not
\* returned, or before the handler is registered (main.c:67-75, 595).
THEOREM SignalsSurvived == Spec => SpacedSignalsSurvive
<1>1. Typed /\ SignalsInv /\ [Next]_vars
        => [killed' # killed => handler # NoHandler \/ (at \in {"mkfifo", "signal"} /\ sent = <<>>)]_vars
  <2> SUFFICES ASSUME Typed, SignalsInv, Next, killed' # killed
               PROVE  handler # NoHandler \/ (at \in {"mkfifo", "signal"} /\ sent = <<>>)
    BY DEF vars
  <2>1. PICK on \in {"main", "read", "worker"} : Sigusr1(on)
    BY DEF Next, MainThread, Handler, Write, Start, MakeServerPipe, Register, OpenServerPipe, StartWorkers,
       WorkersBlock, Read, ReadUpTo, StartPrint, EndPrint, TakeOpCode, InsertRequest, RaiseFlag, Reregister,
       signal
  <2>2. ~killed /\ at # "failed" /\ ~registered
    BY <2>1 DEF Sigusr1, Typed, TypeOK
  <2> QED
    BY <2>2 DEF SignalsInv, Starting, Unopened
<1> QED
  BY <1>1, StreamlessInvariance, PTL DEF Spec, SpacedSignalsSurvive

-----------------------------------------------------------------------------
(* Places in the stream *)

LEMMA Width == P \in Nat \ {0} /\ W \in Nat /\ W = 2 * P + 1
  BY PipeAssumption DEF W

LEMMA ProductOrder ==
  ASSUME NEW a \in Int, NEW b \in Int, NEW w \in Nat, a <= b
  PROVE  a * w <= b * w
<1>1. (b - a) * w >= 0
  OBVIOUS
<1>2. (b - a) * w = b * w - a * w
  OBVIOUS
<1> QED
  BY <1>1, <1>2

\* Setups follow each other.
LEMMA Distances ==
  ASSUME NEW i \in Int, NEW j \in Int
  PROVE  /\ Between(j, i) \in Int
         /\ Between(j, j) = 0
         /\ Between(j + 1, i) = Between(j, i) - W
         /\ Between(j, i + 1) = Between(j, i) + W
         /\ \A h \in Int : h <= i => Between(j, h) <= Between(j, i)
<1>1. W \in Nat
  BY Width
<1> HIDE DEF W
<1>2. (j - j) * W = 0
  <2>1. j - j = 0
    OBVIOUS
  <2> QED
    BY <1>1, <2>1
<1>3. (i - j) * W \in Int
  BY <1>1
<1>4. (i - (j + 1)) * W = (i - j) * W - W /\ (i + 1 - j) * W = (i - j) * W + W
  BY <1>1
<1>5. \A h \in Int : h <= i => (h - j) * W <= (i - j) * W
  BY <1>1, ProductOrder
<1> QED
  BY <1>1, <1>2, <1>3, <1>4, <1>5 DEF Between

\* What the bytes of the stream are does not depend on where it is read.
LEMMA StreamRead ==
  ASSUME NEW j \in Int, NEW c \in Int, NEW n \in 1..Len(pipe), StreamFrom(j, c),
         pipe \in Seq(Byte), sent \in Seq(Clients),
         Len(pipe') = Len(pipe) - n, \A k \in 1..Len(pipe') : pipe'[k] = pipe[k + n],
         UNCHANGED <<sent, written>>
  PROVE  StreamFrom(j, c + n)'
<1> DEFINE wl == WrittenOfLast
<1>1. WrittenOfLast' = wl
  BY DEF WrittenOfLast
<1>2. wl \in Int
  <2>1. W \in Int /\ P + 1 \in Int
    BY Width
  <2> HIDE DEF W
  <2> QED
    BY <2>1 DEF WrittenOfLast, Bytes
<1> HIDE DEF wl
<1>3. Len(sent) \in Int /\ Len(pipe) \in Nat /\ n \in Int /\ W \in Nat
  BY Width
<1>4. Len(pipe') = PlaceInPipe(Len(sent), wl, j, c + n)
  <2>1. Between(j, Len(sent)) \in Int
    BY <1>3, Distances
  <2>2. Len(pipe) = Between(j, Len(sent)) + wl - c
    BY DEF StreamFrom, PlaceInPipe, wl
  <2> QED
    BY <1>2, <1>3, <2>1, <2>2 DEF PlaceInPipe
<1>5. ASSUME NEW i \in 1..Len(sent), NEW r \in 1..W, PlaceInPipe(i, r, j, c + n) \in 1..Len(pipe')
      PROVE  pipe'[PlaceInPipe(i, r, j, c + n)] = SetupByte(sent[i], r)
  <2> DEFINE k == PlaceInPipe(i, r, j, c)
  <2>1. k \in Int /\ PlaceInPipe(i, r, j, c + n) = k - n
    <3>1. Between(j, i) \in Int
      BY Distances
    <3> QED
      BY <1>3, <3>1 DEF PlaceInPipe
  <2>2. k \in 1..Len(pipe) => pipe[k] = SetupByte(sent[i], r)
    BY DEF StreamFrom
  <2> HIDE DEF k
  <2>3. k - n \in 1..Len(pipe') /\ k \in 1..Len(pipe)
    BY <1>3, <1>5, <2>1
  <2>4. pipe'[k - n] = pipe[k - n + n] /\ k - n + n = k
    BY <1>3, <2>1, <2>3
  <2> QED
    BY <2>1, <2>2, <2>3, <2>4
<1> QED
  BY <1>1, <1>4, <1>5 DEF StreamFrom

\* The place behind a whole setup is the place before the next one.
LEMMA StreamNext ==
  ASSUME NEW j \in Int, StreamFrom(j, W), sent \in Seq(Clients)
  PROVE  StreamFrom(j + 1, 0)
<1>1. WrittenOfLast \in Int /\ Len(sent) \in Int /\ W \in Nat
  BY Width DEF WrittenOfLast, Bytes
<1>2. \A i \in Int, r \in Int : PlaceInPipe(i, r, j, W) = PlaceInPipe(i, r, j + 1, 0)
  <2> SUFFICES ASSUME NEW i \in Int, NEW r \in Int
               PROVE  PlaceInPipe(i, r, j, W) = PlaceInPipe(i, r, j + 1, 0)
    OBVIOUS
  <2>1. Between(j + 1, i) = Between(j, i) - W /\ Between(j, i) \in Int
    BY Distances
  <2>2. Between(j, i) + r - W = (Between(j, i) - W) + r - 0
    BY <1>1, <2>1
  <2> QED
    BY <2>1, <2>2 DEF PlaceInPipe
<1> QED
  BY <1>1, <1>2 DEF StreamFrom

\* The next bytes of the stream, when it is inside a setup.
LEMMA StreamBytes ==
  ASSUME NEW j \in 1..Len(sent), NEW c \in 0..W, NEW k \in 1..Len(pipe), StreamFrom(j, c), c + k <= W,
         pipe \in Seq(Byte), sent \in Seq(Clients)
  PROVE  pipe[k] = SetupByte(sent[j], c + k)
<1>1. c + k \in 1..W /\ j \in Int /\ c \in Int /\ k \in Int
  BY Width
<1>2. PlaceInPipe(j, c + k, j, c) = k
  <2>1. PlaceInPipe(j, c + k, j, c) = c + k - c
    BY <1>1, Distances DEF PlaceInPipe
  <2> QED
    BY <1>1, <2>1
<1> QED
  BY <1>1, <1>2 DEF StreamFrom

\* New bytes at the end of the stream, after the first `before` bytes of setup
\* number `last`.
LEMMA StreamWrite ==
  ASSUME NEW j \in Int, NEW c \in Int, StreamFrom(j, c),
         NEW last \in Nat, NEW before \in 0..W, NEW bytes \in Seq(Byte), before + Len(bytes) <= W,
         pipe \in Seq(Byte), sent \in Seq(Clients),
         Len(sent') = last, WrittenOfLast' = before + Len(bytes),
         Len(pipe) = PlaceInPipe(last, before, j, c),
         pipe' = pipe \o bytes,
         \A i \in 1..last : i < last \/ before # 0 => i \in 1..Len(sent) /\ sent'[i] = sent[i],
         \A m \in 1..Len(bytes) : bytes[m] = SetupByte(sent'[last], before + m)
  PROVE  StreamFrom(j, c)'
<1>1. W \in Nat /\ Len(pipe) \in Nat /\ Len(bytes) \in Nat /\ before \in Int /\ last \in Int
  BY Width
<1>2. /\ Len(pipe') = Len(pipe) + Len(bytes)
      /\ \A k \in 1..(Len(pipe) + Len(bytes)) :
           pipe'[k] = IF k <= Len(pipe) THEN pipe[k] ELSE bytes[k - Len(pipe)]
  BY ConcatProperties
<1>3. Len(pipe') = PlaceInPipe(last, before + Len(bytes), j, c)
  <2>1. Between(j, last) \in Int
    BY <1>1, Distances
  <2>2. Len(pipe) = Between(j, last) + before - c
    BY DEF PlaceInPipe
  <2>3. Between(j, last) + before - c + Len(bytes) = Between(j, last) + (before + Len(bytes)) - c
    BY <1>1, <2>1
  <2> QED
    BY <1>2, <2>2, <2>3 DEF PlaceInPipe
<1>4. ASSUME NEW i \in 1..last, NEW r \in 1..W, PlaceInPipe(i, r, j, c) \in 1..Len(pipe')
      PROVE  pipe'[PlaceInPipe(i, r, j, c)] = SetupByte(sent'[i], r)
  <2> DEFINE k == PlaceInPipe(i, r, j, c)
             q == Between(j, i) - c
             e == Between(j, last) - c
  <2>1. /\ k \in Int /\ q \in Int /\ e \in Int /\ r \in Int
        /\ k = q + r
        /\ Len(pipe) = e + before
        /\ i + 1 <= last => q + W <= e
    <3>1. Between(j, i) \in Int /\ Between(j, last) \in Int /\ Between(j, i + 1) = Between(j, i) + W
      <4>1. i \in Int /\ last \in Int
        BY <1>1
      <4> QED
        BY <4>1, Distances
    <3>2. i + 1 <= last => Between(j, i + 1) <= Between(j, last)
      BY <1>1, Distances
    <3>3. k = Between(j, i) + r - c /\ Len(pipe) = Between(j, last) + before - c
      BY DEF PlaceInPipe
    <3> DEFINE f == Between(j, i)
               g == Between(j, last)
               l == Len(pipe)
    <3>4. /\ f \in Int /\ g \in Int /\ c \in Int /\ r \in Int /\ W \in Int /\ before \in Int
          /\ k = f + r - c /\ l = g + before - c /\ (i + 1 <= last => f + W <= g)
      BY <1>1, <3>1, <3>2, <3>3
    <3> HIDE DEF k, f, g, l
    <3>5. /\ k \in Int /\ f - c \in Int /\ g - c \in Int
          /\ k = (f - c) + r
          /\ l = (g - c) + before
          /\ i + 1 <= last => (f - c) + W <= g - c
      BY <3>4
    <3> QED
      BY <3>4, <3>5 DEF f, g, l
  <2>2. k \in 1..Len(pipe) /\ i \in 1..Len(sent) => pipe[k] = SetupByte(sent[i], r)
    BY DEF StreamFrom
  <2>3. k \in 1..(Len(pipe) + Len(bytes))
    BY <1>2, <1>4
  <2> HIDE DEF k, q, e
  <2>4. CASE i < last
    <3>1. k <= Len(pipe)
      BY <1>1, <2>1, <2>4
    <3>2. i \in 1..Len(sent) /\ sent'[i] = sent[i]
      BY <2>4
    <3>3. pipe'[k] = pipe[k] /\ k \in 1..Len(pipe)
      BY SMTT(30), <1>1, <1>2, <2>3, <3>1
    <3> QED
      BY <2>2, <3>2, <3>3 DEF k
  <2>5. CASE i = last /\ r <= before
    <3>1. k <= Len(pipe) /\ before # 0
      BY SMTT(30), <1>1, <2>1, <2>5 DEF q, e
    <3>2. i \in 1..Len(sent) /\ sent'[i] = sent[i]
      BY <3>1
    <3>3. pipe'[k] = pipe[k] /\ k \in 1..Len(pipe)
      BY <1>1, <1>2, <2>3, <3>1
    <3> QED
      BY <2>2, <3>2, <3>3 DEF k
  <2>6. CASE i = last /\ r > before
    <3>1. q = e
      BY <2>6 DEF q, e
    <3>2. k - Len(pipe) = r - before /\ k > Len(pipe) /\ r - before \in 1..Len(bytes)
      BY <1>1, <2>1, <2>3, <2>6, <3>1
    <3>3. pipe'[k] = bytes[r - before]
      BY SMTT(30), <1>1, <1>2, <2>3, <3>2
    <3>4. before + (r - before) = r
      BY <1>1, <2>1
    <3>5. bytes[r - before] = SetupByte(sent'[last], before + (r - before))
      BY <3>2
    <3> QED
      BY <2>6, <3>3, <3>4, <3>5 DEF k
  <2>7. i < last \/ i = last
    BY <1>1
  <2>8. r <= before \/ r > before
    BY <1>1
  <2> QED
    BY <2>4, <2>5, <2>6, <2>7, <2>8
<1> QED
  BY <1>3, <1>4 DEF StreamFrom

LEMMA SetupBytes ==
  ASSUME NEW client
  PROVE  /\ SetupByte(client, 1) = OpCode(client)
         /\ \A r \in 2..W : SetupByte(client, r).of # "op_code"
         /\ \A m \in 1..P :
              /\ SetupByte(client, 1 + m) = [client |-> client, of |-> "request_pipe_path", place |-> m]
              /\ SetupByte(client, P + 1 + m) = [client |-> client, of |-> "response_pipe_path", place |-> m]
<1>1. P \in Nat \ {0} /\ W \in Nat
  BY Width
<1>2. SetupByte(client, 1) = OpCode(client)
  BY DEF SetupByte
<1>3. ASSUME NEW r \in 2..W PROVE SetupByte(client, r).of # "op_code"
  <2>1. r # 1
    BY <1>1
  <2>2. \/ SetupByte(client, r) = [client |-> client, of |-> "request_pipe_path", place |-> r - 1]
        \/ SetupByte(client, r) = [client |-> client, of |-> "response_pipe_path", place |-> r - 1 - P]
    <3>1. CASE r <= P + 1
      BY <2>1, <3>1 DEF SetupByte
    <3>2. CASE ~(r <= P + 1)
      BY <2>1, <3>2 DEF SetupByte
    <3> QED
      BY <3>1, <3>2
  <2> QED
    BY <2>2
<1>4. ASSUME NEW m \in 1..P
      PROVE  SetupByte(client, 1 + m) = [client |-> client, of |-> "request_pipe_path", place |-> m]
  <2>1. 1 + m # 1 /\ 1 + m <= P + 1 /\ 1 + m - 1 = m
    BY <1>1
  <2> QED
    BY <2>1 DEF SetupByte
<1>5. ASSUME NEW m \in 1..P
      PROVE  SetupByte(client, P + 1 + m) = [client |-> client, of |-> "response_pipe_path", place |-> m]
  <2> DEFINE r == P + 1 + m
  <2>1. r # 1 /\ ~(r <= P + 1) /\ r - 1 - P = m
    BY <1>1
  <2> HIDE DEF r
  <2>2. SetupByte(client, r) = [client |-> client, of |-> "response_pipe_path", place |-> r - 1 - P]
    BY <2>1 DEF SetupByte
  <2> QED
    BY <2>1, <2>2 DEF r
<1> QED
  BY <1>2, <1>3, <1>4, <1>5

\* How much of the last setup is written.
LEMMA LastWritten ==
  ASSUME TypeOK
  PROVE  /\ WrittenOfLast \in 0..W
         /\ WritersInv /\ sent # <<>> => WrittenOfLast # 0
<1>1. W \in Nat \ {0} /\ P + 1 \in 1..W
  BY Width
<1> HIDE DEF W
<1>2. CASE sent = <<>>
  BY <1>1, <1>2 DEF WrittenOfLast
<1>3. CASE sent # <<>>
  <2>1. Len(sent) \in 1..Len(sent) /\ sent[Len(sent)] \in Clients
    BY <1>3 DEF TypeOK
  <2>2. written[sent[Len(sent)]] \in 0..3
    BY <2>1 DEF TypeOK
  <2>3. WrittenOfLast = Bytes(written[sent[Len(sent)]])
    BY <1>3 DEF WrittenOfLast
  <2>4. WritersInv => written[sent[Len(sent)]] # 0
    BY <2>1 DEF WritersInv
  <2>5. \A k \in 0..3 : Bytes(k) \in 0..W /\ (k # 0 => Bytes(k) # 0)
    BY <1>1 DEF Bytes
  <2> QED
    BY <2>2, <2>3, <2>4, <2>5
<1> QED
  BY <1>2, <1>3

-----------------------------------------------------------------------------
(* Setups that do not overlap *)

Ordered == WritersInv /\ PlaceInv /\ OutcomesInv

\* The main thread is between two setups or in the one after those settled.
LEMMA Somewhere ==
  ASSUME TypeOK, PlaceInv
  PROVE  Idle \/ \E c \in 1..W : Busy(c)
<1>1. P \in Nat \ {0} /\ W \in Nat /\ W = 2 * P + 1 /\ done \in Nat
  BY Width DEF TypeOK
<1> HIDE DEF W
<1>2. at \in {"op_code", "test", "print", "insert", "request_pipe_path", "response_pipe_path"} \cup Starting
  BY Sizes DEF TypeOK
<1>3. CASE at \in Starting \cup {"op_code", "print"}
  BY <1>3 DEF PlaceInv
<1>4. CASE at = "test"
  <2>1. 1 \in 1..W
    BY <1>1
  <2> QED
    BY <1>4, <2>1 DEF PlaceInv
<1>5. CASE at = "request_pipe_path"
  <2>1. done < P
    BY <1>5, Sizes DEF TypeOK
  <2>2. done + 1 \in 1..W
    BY <1>1, <2>1
  <2> QED
    BY <1>5, <2>2 DEF PlaceInv
<1>6. CASE at = "response_pipe_path"
  <2>1. done < P
    BY <1>6, Sizes DEF TypeOK
  <2>2. P + done + 1 \in 1..W /\ \A c \in 1..(P + done) : c \in 1..W
    BY <1>1, <2>1
  <2> QED
    BY <1>6, <2>2 DEF PlaceInv
<1>7. CASE at = "insert"
  <2>1. W \in 1..W
    BY <1>1
  <2> QED
    BY <1>7, <2>1 DEF PlaceInv
<1> QED
  BY <1>2, <1>3, <1>4, <1>5, <1>6, <1>7

\* my_read takes the bytes of the setup it is in and no others.
LEMMA ReadOrdered ==
  ASSUME Inv, Ordered, Read
  PROVE  Ordered'
<1>1. PICK n \in 1..Len(pipe) :
        /\ at \in DOMAIN Size /\ done + n <= Size[at]
        /\ Len(pipe') = Len(pipe) - n
        /\ \A k \in 1..Len(pipe') : pipe'[k] = pipe[k + n]
        /\ \A v \in DOMAIN Size : v # at => buf'[v] = buf[v]
        /\ Len(buf'[at]) = Size[at]
        /\ buf' \in [DOMAIN Size -> Seq(Byte \cup {NoByte})]
        /\ \A i \in 1..Size[at] :
             buf'[at][i] = IF i \in (done + 1)..(done + n) THEN pipe[i - done] ELSE buf[at][i]
        /\ IF done + n = Size[at]
           THEN at' = After[at] /\ done' = 0
           ELSE at' = at /\ done' = done + n
  BY ReadTurn DEF Inv
<1>2. UNCHANGED <<written, sent, overlap, torn, outcome>>
  BY DEF Read, ReadUpTo, history
<1>3. PICK j \in Nat : j = Len(outcome)
  BY DEF Inv, BuffersInv
<1>4. /\ pipe \in Seq(Byte) /\ sent \in Seq(Clients) /\ Len(sent) \in Nat /\ Len(pipe) \in Nat
      /\ done \in Nat /\ n \in Nat \ {0} /\ n <= Len(pipe)
  BY DEF Inv, TypeOK
<1>5. P \in Nat \ {0} /\ W \in Nat /\ W = 2 * P + 1
  BY Width
<1> HIDE DEF W
<1>6. ASSUME NEW i \in Int, NEW c \in Int, StreamFrom(i, c) PROVE StreamFrom(i, c + n)'
  BY <1>1, <1>2, <1>4, <1>6, StreamRead
<1>7. (WritersInv /\ OutcomesInv)'
  BY <1>2 DEF Ordered, WritersInv, OutcomesInv
<1>8. CASE at = "op_code"
  <2>1. done = 0 /\ n = 1 /\ at' = "test" /\ done' = 0 /\ ~torn' /\ Len(buf'["op_code"]) = 1
        /\ buf'["op_code"][1] = pipe[1]
    <3>1. done = 0 /\ Size["op_code"] = 1 /\ After["op_code"] = "test"
      BY <1>8, Sizes DEF Ordered, PlaceInv, After
    <3>2. n = 1 /\ done + n = 1
      BY <1>1, <1>4, <1>8, <3>1
    <3>3. buf'["op_code"][1] = IF 1 \in (0 + 1)..(0 + 1) THEN pipe[1 - 0] ELSE buf["op_code"][1]
      BY <1>1, <1>8, <3>1, <3>2
    <3>4. ~torn'
      BY <1>2, <1>8 DEF Ordered, PlaceInv
    <3> QED
      BY <1>1, <1>8, <3>1, <3>2, <3>3, <3>4
  <2>2. PICK c \in 1..W : (j = 0 => c = W) /\ j <= Len(sent) /\ StreamFrom(j, c)
    BY <1>3, <1>8 DEF Ordered, PlaceInv, Idle
  <2>3. CASE c # W
    <3>1. j \in 1..Len(sent) /\ c \in 0..W /\ 1 \in 1..Len(pipe) /\ c + 1 \in 2..W
      BY <1>4, <1>5, <2>2, <2>3
    <3>2. pipe[1] = SetupByte(sent[j], c + 1)
      BY <1>4, <2>2, <3>1, StreamBytes
    <3>3. buf'["op_code"][1].of # "op_code"
      BY <2>1, <3>1, <3>2, SetupBytes
    <3>4. ~IsSetup'
      BY <3>3 DEF IsSetup, OpCode
    <3>5. StreamFrom(j, c + 1)'
      BY <1>6, <2>1, <2>2
    <3>6. Idle'
      BY <1>2, <1>3, <1>5, <2>2, <3>1, <3>5 DEF Idle
    <3>7. PlaceInv'
      BY <2>1, <3>4, <3>6 DEF PlaceInv, Starting, Unopened
    <3> QED
      BY <1>7, <3>7 DEF Ordered
  <2>4. CASE c = W
    <3>1. j < Len(sent)
      <4>1. Len(pipe) = Between(j, Len(sent)) + WrittenOfLast - W
        BY <2>2, <2>4 DEF StreamFrom, PlaceInPipe
      <4>2. WrittenOfLast \in 0..W
        BY LastWritten DEF Inv
      <4>3. j # Len(sent)
        <5> SUFFICES ASSUME j = Len(sent) PROVE FALSE
          OBVIOUS
        <5>1. Between(j, Len(sent)) = 0
          BY <1>3, Distances
        <5> QED
          BY <1>4, <1>5, <4>1, <4>2, <5>1
      <4> QED
        BY <1>4, <2>2, <4>3
    <3>2. StreamFrom(j + 1, 0)
      BY <1>3, <1>4, <2>2, <2>4, StreamNext
    <3>3. j + 1 \in 1..Len(sent) /\ 0 \in 0..W /\ 1 \in 1..Len(pipe) /\ 0 + 1 <= W
      BY <1>4, <1>5, <3>1
    <3>4. pipe[1] = SetupByte(sent[j + 1], 0 + 1)
      BY <1>4, <3>2, <3>3, StreamBytes
    <3>5. pipe[1] = OpCode(sent[j + 1])
      BY <3>4, SetupBytes
    <3>6. buf'["op_code"] = <<OpCode(sent[j + 1])>>
      <4>1. buf'["op_code"] \in Seq(Byte \cup {NoByte})
        BY <1>1, Sizes
      <4> QED
        BY <2>1, <3>5, <4>1
    <3>7. StreamFrom(j + 1, 0 + 1)'
      BY <1>6, <2>1, <3>2, <3>3
    <3>8. Busy(1)'
      BY <1>2, <1>3, <3>1, <3>6, <3>7 DEF Busy
    <3>9. PlaceInv'
      BY <2>1, <3>8 DEF PlaceInv, Starting, Unopened
    <3> QED
      BY <1>7, <3>9 DEF Ordered
  <2> QED
    BY <2>3, <2>4
<1>9. CASE at \in {"request_pipe_path", "response_pipe_path"}
  <2>1. Size[at] = P /\ done + n <= P /\ done < P
    BY <1>1, <1>9, Sizes DEF Inv, TypeOK
  <2>2. buf'["op_code"] = buf["op_code"]
    BY <1>1, <1>9, Sizes
  <2>3. ASSUME NEW c \in 1..W, Busy(c) PROVE Busy(c + n)'
    <3>1. j < Len(sent) /\ buf["op_code"] = <<OpCode(sent[j + 1])>> /\ StreamFrom(j + 1, c)
      BY <1>3, <2>3 DEF Busy
    <3>2. StreamFrom(j + 1, c + n)'
      BY <1>3, <1>6, <3>1
    <3> QED
      BY <1>2, <1>3, <2>2, <3>1, <3>2 DEF Busy
  <2>4. ASSUME NEW c \in 1..W, Busy(c), NEW k \in 1..n, c + n <= W
        PROVE  pipe[k] = SetupByte(sent[j + 1], c + k)
    <3>1. j < Len(sent) /\ StreamFrom(j + 1, c)
      BY <1>3, <2>4 DEF Busy
    <3>2. j + 1 \in 1..Len(sent) /\ c \in 0..W /\ k \in 1..Len(pipe) /\ c + k <= W
      BY <1>4, <1>5, <2>4, <3>1
    <3> QED
      BY <1>4, <3>1, <3>2, StreamBytes
  <2>5. CASE at = "request_pipe_path"
    <3>1. ~torn /\ Busy(done + 1) /\ Stored("request_pipe_path", done)
      BY <2>5 DEF Ordered, PlaceInv
    <3>2. done + 1 \in 1..W /\ done + 1 + n <= W /\ done + n \in Nat /\ done + 1 + n = done + n + 1
      BY <1>4, <1>5, <2>1
    <3>3. PICK m \in Nat : m = done + n
      BY <3>2
    <3>4. Busy(m + 1)'
      <4> PICK c \in 1..W : c = done + 1
        BY <3>2
      <4>1. Busy(c)
        BY <3>1
      <4>2. Busy(c + n)'
        BY <2>3, <4>1
      <4>3. c + n = m + 1
        BY <3>2, <3>3
      <4> QED
        BY <4>2, <4>3
    <3>5. \A i \in 1..m : buf'["request_pipe_path"][i] = [client |-> sent[j + 1], of |-> "request_pipe_path", place |-> i]
      <4> SUFFICES ASSUME NEW i \in 1..m
                   PROVE  buf'["request_pipe_path"][i] = [client |-> sent[j + 1], of |-> "request_pipe_path", place |-> i]
        OBVIOUS
      <4>0. i \in 1..P /\ buf'["request_pipe_path"][i] = IF i \in (done + 1)..(done + n) THEN pipe[i - done] ELSE buf["request_pipe_path"][i]
        <5>1. i \in 1..P
          BY <1>4, <1>5, <2>1, <3>3
        <5> QED
          BY <1>1, <2>1, <2>5, <5>1
      <4>1. CASE i <= done
        <5>1. i \in 1..done /\ i \notin (done + 1)..(done + n)
          BY <1>4, <4>1
        <5>2. buf["request_pipe_path"][i] = [client |-> sent[j + 1], of |-> "request_pipe_path", place |-> i]
          BY <1>3, <3>1, <5>1 DEF Stored
        <5> QED
          BY <4>0, <5>1, <5>2
      <4>2. CASE i > done
        <5>1. i \in (done + 1)..(done + n) /\ i - done \in 1..n /\ done + 1 + (i - done) = 1 + i
          BY <1>4, <3>3, <4>2
        <5>2. pipe[i - done] = SetupByte(sent[j + 1], done + 1 + (i - done))
          BY <2>4, <3>1, <3>2, <5>1
        <5>3. SetupByte(sent[j + 1], 1 + i) = [client |-> sent[j + 1], of |-> "request_pipe_path", place |-> i]
          BY <4>0, SetupBytes
        <5> QED
          BY <4>0, <5>1, <5>2, <5>3
      <4> QED
        BY <1>4, <4>1, <4>2
    <3>6. CASE m = P
      <4>1. at' = "response_pipe_path" /\ done' = 0
        BY <1>1, <2>1, <2>5, <3>3, <3>6 DEF After
      <4>2. Busy(P + 0 + 1)'
        <5>1. P + 0 + 1 = m + 1
          BY <1>5, <3>6
        <5> QED
          BY <3>4, <5>1
      <4>3. Busy(P + done + 1)'
        BY <4>1, <4>2 DEF Busy
      <4>4. Stored("request_pipe_path", P)'
        BY <1>2, <1>3, <3>5, <3>6 DEF Stored
      <4>5. Stored("response_pipe_path", done)'
        BY <4>1 DEF Stored
      <4>6. PlaceInv'
        BY <1>2, <3>1, <4>1, <4>3, <4>4, <4>5 DEF PlaceInv, Starting, Unopened
      <4> QED
        BY <1>7, <4>6 DEF Ordered
    <3>7. CASE m # P
      <4>1. at' = "request_pipe_path" /\ done' = m
        BY <1>1, <2>1, <2>5, <3>3, <3>7
      <4>2. Busy(done + 1)'
        BY <3>4, <4>1 DEF Busy
      <4>3. Stored("request_pipe_path", done)'
        BY <1>2, <1>3, <3>5, <4>1 DEF Stored
      <4>4. PlaceInv'
        BY <1>2, <3>1, <4>1, <4>2, <4>3 DEF PlaceInv, Starting, Unopened
      <4> QED
        BY <1>7, <4>4 DEF Ordered
    <3> QED
      BY <3>6, <3>7
  <2>6. CASE at = "response_pipe_path" /\ torn
    <3>1. PICK c \in 1..(P + done) : Busy(c)
      BY <2>6 DEF Ordered, PlaceInv
    <3>2. c \in 1..W /\ c + n \in 1..(P + (done + n)) /\ (P + P) + 1 = W
      BY <1>4, <1>5, <2>1
    <3>3. Busy(c + n)'
      BY <2>3, <3>1, <3>2
    <3>4. CASE done + n = P
      <4>1. at' = "insert" /\ done' = 0 /\ torn'
        BY <1>1, <1>2, <2>1, <2>6, <3>4 DEF After
      <4>2. c + n \in 1..W
        BY <1>4, <1>5, <3>2, <3>4
      <4>3. PlaceInv'
        BY <3>3, <4>1, <4>2 DEF PlaceInv, Starting, Unopened
      <4> QED
        BY <1>7, <4>3 DEF Ordered
    <3>5. CASE done + n # P
      <4>1. at' = "response_pipe_path" /\ done' = done + n /\ torn'
        BY <1>1, <1>2, <2>1, <2>6, <3>5
      <4>2. c + n \in 1..(P + done')
        BY <3>2, <4>1
      <4>3. PlaceInv'
        BY <3>3, <4>1, <4>2 DEF PlaceInv, Starting, Unopened
      <4> QED
        BY <1>7, <4>3 DEF Ordered
    <3> QED
      BY <3>4, <3>5
  <2>7. CASE at = "response_pipe_path" /\ ~torn
    <3>1. Busy(P + done + 1) /\ Stored("request_pipe_path", P) /\ Stored("response_pipe_path", done)
      BY <2>7 DEF Ordered, PlaceInv
    <3>2. P + done + 1 \in 1..W /\ P + done + 1 + n <= W /\ done + n \in Nat /\ P + done + 1 + n = P + (done + n) + 1
      BY <1>4, <1>5, <2>1
    <3>3. PICK m \in Nat : m = done + n
      BY <3>2
    <3>4. Busy(P + m + 1)'
      <4> PICK c \in 1..W : c = P + done + 1
        BY <3>2
      <4>1. Busy(c)
        BY <3>1
      <4>2. Busy(c + n)'
        BY <2>3, <4>1
      <4>3. c + n = P + m + 1
        BY <3>2, <3>3
      <4> QED
        BY <4>2, <4>3
    <3>5. \A i \in 1..m : buf'["response_pipe_path"][i] = [client |-> sent[j + 1], of |-> "response_pipe_path", place |-> i]
      <4> SUFFICES ASSUME NEW i \in 1..m
                   PROVE  buf'["response_pipe_path"][i] = [client |-> sent[j + 1], of |-> "response_pipe_path", place |-> i]
        OBVIOUS
      <4>0. i \in 1..P /\ buf'["response_pipe_path"][i] = IF i \in (done + 1)..(done + n) THEN pipe[i - done] ELSE buf["response_pipe_path"][i]
        <5>1. i \in 1..P
          BY <1>4, <1>5, <2>1, <3>3
        <5> QED
          BY <1>1, <2>1, <2>7, <5>1
      <4>1. CASE i <= done
        <5>1. i \in 1..done /\ i \notin (done + 1)..(done + n)
          BY <1>4, <4>1
        <5>2. buf["response_pipe_path"][i] = [client |-> sent[j + 1], of |-> "response_pipe_path", place |-> i]
          BY <1>3, <3>1, <5>1 DEF Stored
        <5> QED
          BY <4>0, <5>1, <5>2
      <4>2. CASE i > done
        <5>1. i \in (done + 1)..(done + n) /\ i - done \in 1..n /\ P + done + 1 + (i - done) = P + 1 + i
          BY <1>4, <1>5, <3>3, <4>2
        <5>2. pipe[i - done] = SetupByte(sent[j + 1], P + done + 1 + (i - done))
          BY <2>4, <3>1, <3>2, <5>1
        <5>3. SetupByte(sent[j + 1], P + 1 + i) = [client |-> sent[j + 1], of |-> "response_pipe_path", place |-> i]
          BY <4>0, SetupBytes
        <5> QED
          BY <4>0, <5>1, <5>2, <5>3
      <4> QED
        BY <1>4, <4>1, <4>2
    <3>6. Stored("request_pipe_path", P)'
      <4>1. buf'["request_pipe_path"] = buf["request_pipe_path"]
        BY <1>1, <2>7, Sizes
      <4> QED
        BY <1>2, <3>1, <4>1 DEF Stored
    <3>7. CASE m = P
      <4>1. at' = "insert" /\ done' = 0
        BY <1>1, <2>1, <2>7, <3>3, <3>7 DEF After
      <4>2. Busy(W)'
        <5>1. W = P + m + 1
          BY <1>5, <3>7
        <5> QED
          BY <3>4, <5>1
      <4>3. Stored("response_pipe_path", P)'
        BY <1>2, <1>3, <3>5, <3>7 DEF Stored
      <4>4. PlaceInv'
        BY <1>2, <2>7, <3>6, <4>1, <4>2, <4>3 DEF PlaceInv, Starting, Unopened
      <4> QED
        BY <1>7, <4>4 DEF Ordered
    <3>8. CASE m # P
      <4>1. at' = "response_pipe_path" /\ done' = m
        BY <1>1, <2>1, <2>7, <3>3, <3>8
      <4>2. Busy(P + done + 1)'
        BY <3>4, <4>1 DEF Busy
      <4>3. Stored("response_pipe_path", done)'
        BY <1>2, <1>3, <3>5, <4>1 DEF Stored
      <4>4. PlaceInv'
        BY <1>2, <2>7, <3>6, <4>1, <4>2, <4>3 DEF PlaceInv, Starting, Unopened
      <4> QED
        BY <1>7, <4>4 DEF Ordered
    <3> QED
      BY <3>7, <3>8
  <2> QED
    BY <1>9, <2>5, <2>6, <2>7
<1> QED
  BY <1>1, <1>8, <1>9, Sizes

\* Bytes at the end of the stream change nothing for the main thread.
LEMMA StreamGrows ==
  ASSUME Inv, Ordered,
         \A j \in Int, c \in Int : StreamFrom(j, c) => StreamFrom(j, c)',
         sent' \in Seq(Clients), Len(sent) <= Len(sent'), \A i \in 1..Len(sent) : sent'[i] = sent[i],
         UNCHANGED <<at, done, torn, buf, outcome>>
  PROVE  PlaceInv' /\ OutcomesInv'
<1>1. PICK j \in Nat : j = Len(outcome)
  BY DEF Inv, BuffersInv
<1>2. PICK L \in Nat, M \in Nat : L = Len(sent) /\ M = Len(sent') /\ L <= M
  BY DEF Inv, TypeOK
<1>3. P \in Nat \ {0} /\ W \in Nat /\ W = 2 * P + 1 /\ done \in Nat
  BY Width DEF Inv, TypeOK
<1> HIDE DEF W
<1>4. Idle => Idle'
  <2> SUFFICES ASSUME NEW c \in 1..W, Len(outcome) = 0 => c = W, Len(outcome) <= Len(sent), StreamFrom(Len(outcome), c)
               PROVE  Idle'
    BY DEF Idle
  <2>1. StreamFrom(j, c)'
    BY <1>1, <1>3
  <2>2. j <= M
    BY <1>1, <1>2
  <2> QED
    BY <1>1, <1>2, <2>1, <2>2 DEF Idle
<1>5. ASSUME NEW c \in Int, Busy(c) PROVE Busy(c)'
  <2>1. j < L /\ buf["op_code"] = <<OpCode(sent[j + 1])>> /\ StreamFrom(j + 1, c)
    BY <1>1, <1>2, <1>5 DEF Busy
  <2>2. StreamFrom(j + 1, c)' /\ j < M /\ sent'[j + 1] = sent[j + 1]
    BY <1>1, <1>2, <2>1
  <2> QED
    BY <1>1, <1>2, <2>1, <2>2 DEF Busy
<1>6. ASSUME NEW c \in Int, Busy(c), NEW v \in DOMAIN Size, NEW n \in Nat, Stored(v, n) PROVE Stored(v, n)'
  <2>1. sent'[Len(outcome) + 1] = sent[Len(outcome) + 1]
    BY <1>1, <1>2, <1>6 DEF Busy
  <2> QED
    BY <1>6, <2>1 DEF Stored
<1>7. OutcomesInv'
  <2>1. j <= L
    <3>1. Idle \/ \E c \in 1..W : Busy(c)
      BY Somewhere DEF Inv, Ordered
    <3> QED
      BY <1>1, <1>2, <3>1 DEF Idle, Busy
  <2> QED
    BY <1>1, <1>2, <2>1 DEF Ordered, OutcomesInv
<1>8. \A c \in 1..W : Busy(c) => Busy(c)'
  BY <1>3, <1>5
<1>9. at \notin {"request_pipe_path", "response_pipe_path", "insert"} => PlaceInv'
  BY <1>4, <1>5 DEF Ordered, PlaceInv, IsSetup, Starting, Unopened
<1>10. at = "request_pipe_path" => PlaceInv'
  <2> SUFFICES ASSUME at = "request_pipe_path" PROVE PlaceInv'
    OBVIOUS
  <2>1. PICK d \in Nat : d = done
    BY <1>3
  <2>2. ~torn /\ Busy(d + 1) /\ Stored("request_pipe_path", d)
    BY <2>1 DEF Ordered, PlaceInv
  <2>3. Busy(d + 1)' /\ Stored("request_pipe_path", d)'
    BY <1>5, <1>6, <2>2, Sizes
  <2>4. Busy(done + 1)' /\ Stored("request_pipe_path", done)'
    BY <2>1, <2>3 DEF Busy, Stored
  <2> QED
    BY <2>2, <2>4 DEF PlaceInv, Starting, Unopened
<1>11. at = "response_pipe_path" /\ torn => PlaceInv'
  <2> SUFFICES ASSUME at = "response_pipe_path", torn PROVE PlaceInv'
    OBVIOUS
  <2>1. PICK c \in 1..(P + done) : Busy(c)
    BY DEF Ordered, PlaceInv
  <2>2. Busy(c)' /\ c \in 1..(P + done')
    BY <1>3, <1>5, <2>1
  <2> QED
    BY <2>2 DEF PlaceInv, Starting, Unopened
<1>12. at = "response_pipe_path" /\ ~torn => PlaceInv'
  <2> SUFFICES ASSUME at = "response_pipe_path", ~torn PROVE PlaceInv'
    OBVIOUS
  <2>1. PICK d \in Nat : d = done
    BY <1>3
  <2>2. Busy(P + d + 1) /\ Stored("request_pipe_path", P) /\ Stored("response_pipe_path", d)
    BY <2>1 DEF Ordered, PlaceInv
  <2>3. P + d + 1 \in Int
    BY <1>3
  <2>4. Busy(P + d + 1)' /\ Stored("request_pipe_path", P)' /\ Stored("response_pipe_path", d)'
    BY <1>3, <1>5, <1>6, <2>2, <2>3, Sizes
  <2>5. Busy(P + done + 1)' /\ Stored("response_pipe_path", done)'
    BY <2>1, <2>4 DEF Busy, Stored
  <2> QED
    BY <2>4, <2>5 DEF PlaceInv, Starting, Unopened
<1>13. at = "insert" => PlaceInv'
  <2> SUFFICES ASSUME at = "insert" PROVE PlaceInv'
    OBVIOUS
  <2>1. CASE torn
    BY <1>8, <2>1 DEF Ordered, PlaceInv, Starting, Unopened
  <2>2. CASE ~torn
    <3>1. Busy(W) /\ Stored("request_pipe_path", P) /\ Stored("response_pipe_path", P) /\ done = 0
      BY <2>2 DEF Ordered, PlaceInv
    <3>2. Busy(W)' /\ Stored("request_pipe_path", P)' /\ Stored("response_pipe_path", P)'
      BY <1>3, <1>5, <1>6, <3>1, Sizes
    <3> QED
      BY <2>2, <3>1, <3>2 DEF PlaceInv, Starting, Unopened
  <2> QED
    BY <2>1, <2>2
<1> QED
  BY <1>7, <1>9, <1>10, <1>11, <1>12, <1>13

\* A write continues the stream where the last one ended (api.c, ems_setup).
LEMMA WriteOrdered ==
  ASSUME Inv, Ordered, NEW c \in Clients, Write(c), ~overlap'
  PROVE  Ordered'
<1>1. P \in Nat \ {0} /\ W \in Nat /\ W = 2 * P + 1 /\ W = P + 1 + P
  BY Width
<1> HIDE DEF W
<1>2. PICK L \in Nat, w \in 0..2 : L = Len(sent) /\ w = written[c]
  <2>1. written[c] \in 0..3 /\ written[c] < 3
    BY SetupWrites DEF Write, Inv, TypeOK
  <2>2. written[c] \in 0..2
    BY <2>1
  <2> QED
    BY <2>2 DEF Inv, TypeOK
<1>3. /\ written' = [written EXCEPT ![c] = w + 1] /\ written \in [Clients -> 0..3]
      /\ pipe' = pipe \o Setup(c)[w + 1]
      /\ sent' = IF w = 0 THEN Append(sent, c) ELSE sent
      /\ UNCHANGED <<at, done, torn, buf, outcome>>
  <2>1. written'[c] = w + 1 /\ written' = [written EXCEPT ![c] = w + 1]
    BY <1>2 DEF Write, Inv, TypeOK
  <2> QED
    BY <1>2, <2>1 DEF Write, Inv, TypeOK
<1>4. \A d \in Clients \ {c} : written[d] \notin 1..2
  <2>1. \A d \in Clients \ {c} : written[d] \notin 1..(Len(Setup(d)) - 1)
    BY DEF Write
  <2>2. \A d \in Clients : Len(Setup(d)) = 3
    BY SetupWrites
  <2> QED
    BY SMTT(30), <2>1, <2>2
<1>5. /\ pipe \in Seq(Byte) /\ sent \in Seq(Clients) /\ OutcomesInv
      /\ \A i \in 1..Len(sent) : written[sent[i]] # 0
      /\ written[c] \in 1..2 => sent # <<>> /\ c = sent[L]
  BY <1>2 DEF Ordered, WritersInv, Inv, TypeOK
<1>6. CASE w = 0
  <2>1. sent' \in Seq(Clients) /\ Len(sent') = L + 1 /\ sent'[L + 1] = c /\ \A i \in 1..L : sent'[i] = sent[i]
    BY <1>2, <1>3, <1>5, <1>6, AppendProperties
  <2>2. WrittenOfLast = W
    <3>1. CASE sent = <<>>
      BY <3>1 DEF WrittenOfLast
    <3>2. CASE sent # <<>>
      <4>1. L \in 1..Len(sent) /\ sent[L] \in Clients
        BY <1>2, <1>5, <3>2
      <4>2. written[sent[L]] # 0 /\ sent[L] # c
        BY <1>2, <1>5, <1>6, <4>1
      <4>3. written[sent[L]] = 3
        BY <1>3, <1>4, <4>1, <4>2
      <4> QED
        BY <1>2, <3>2, <4>3 DEF WrittenOfLast, Bytes
    <3> QED
      BY <3>1, <3>2
  <2>3. WrittenOfLast' = 0 + Len(<<OpCode(c)>>)
    <3>1. sent' # <<>> /\ written'[c] = 1
      BY SMTT(30), <1>2, <1>3, <1>6, <2>1
    <3>2. WrittenOfLast' = 1
      BY <2>1, <3>1 DEF WrittenOfLast, Bytes
    <3> QED
      BY <3>2
  <2>4. ASSUME NEW j \in Int, NEW c0 \in Int, StreamFrom(j, c0) PROVE StreamFrom(j, c0)'
    <3>1. Len(pipe) = PlaceInPipe(L + 1, 0, j, c0)
      <4>1. Between(j, L) \in Int /\ Between(j, L + 1) = Between(j, L) + W
        BY Distances
      <4>2. Len(pipe) = Between(j, L) + W - c0
        BY <1>2, <2>2, <2>4 DEF StreamFrom, PlaceInPipe
      <4>3. Between(j, L) + W - c0 = (Between(j, L) + W) + 0 - c0
        BY <1>1, <4>1
      <4> QED
        BY <4>1, <4>2, <4>3 DEF PlaceInPipe
    <3>2. <<OpCode(c)>> \in Seq(Byte) /\ Len(<<OpCode(c)>>) = 1 /\ <<OpCode(c)>>[1] = OpCode(c)
      BY SetupWrites
    <3>3. pipe' = pipe \o <<OpCode(c)>>
      <4>1. w + 1 = 1
        BY <1>6
      <4>2. pipe' = pipe \o Setup(c)[1]
        BY <1>3, <4>1
      <4> QED
        BY <4>2, SetupWrites
    <3>4. \A m \in 1..Len(<<OpCode(c)>>) : <<OpCode(c)>>[m] = SetupByte(sent'[L + 1], 0 + m)
      BY <2>1, <3>2, SetupBytes
    <3>5. \A i \in 1..(L + 1) : i < L + 1 \/ 0 # 0 => i \in 1..Len(sent) /\ sent'[i] = sent[i]
      BY <1>2, <2>1
    <3>6. L + 1 \in Nat /\ 0 \in 0..W /\ 0 + Len(<<OpCode(c)>>) <= W
      BY <1>1, <3>2
    <3> QED
      BY <1>5, <2>1, <2>3, <2>4, <3>1, <3>2, <3>3, <3>4, <3>5, <3>6, StreamWrite
  <2>5. WritersInv'
    <3>1. \A i \in 1..(L + 1) : written'[sent'[i]] # 0
      <4> SUFFICES ASSUME NEW i \in 1..(L + 1) PROVE written'[sent'[i]] # 0
        OBVIOUS
      <4>1. CASE i = L + 1
        BY <1>3, <1>6, <2>1, <4>1
      <4>2. CASE i # L + 1
        <5>1. i \in 1..L /\ sent'[i] = sent[i] /\ sent[i] \in Clients
          BY <1>2, <1>5, <2>1, <4>2
        <5> QED
          BY <1>2, <1>3, <1>5, <1>6, <5>1
      <4> QED
        BY <4>1, <4>2
    <3>2. \A d \in Clients : written'[d] \in 1..2 => sent' # <<>> /\ d = sent'[L + 1]
      BY <1>3, <1>4, <2>1
    <3> QED
      BY <2>1, <3>1, <3>2 DEF WritersInv
  <2>6. Len(sent) <= Len(sent')
    BY <1>2, <2>1
  <2>7. PlaceInv' /\ OutcomesInv'
    BY <1>2, <1>3, <2>1, <2>4, <2>6, StreamGrows
  <2> QED
    BY <2>5, <2>7 DEF Ordered
<1>7. CASE w # 0
  <2> DEFINE bytes == Setup(c)[w + 1]
             before == Bytes(w)
  <2>1. sent' = sent /\ L # 0 /\ c = sent[L] /\ written'[c] = w + 1 /\ sent # <<>>
    BY <1>2, <1>3, <1>5, <1>7
  <2>2. w \in 1..2
    BY <1>7
  <2>3. /\ before \in 0..W /\ before # 0 /\ Bytes(w + 1) = before + P /\ before + P <= W
        /\ bytes \in Seq(Byte) /\ Len(bytes) = P
        /\ \A m \in 1..P : bytes[m] = SetupByte(c, before + m)
    <3>1. CASE w = 1
      <4>1. before = 1 /\ Bytes(w + 1) = P + 1 /\ bytes = Path(c, "request_pipe_path")
        BY <3>1, SetupWrites DEF Bytes
      <4>2. \A m \in 1..P : Path(c, "request_pipe_path")[m] = SetupByte(c, 1 + m)
        BY SetupBytes DEF Path
      <4> HIDE DEF bytes, before
      <4> QED
        BY <1>1, <4>1, <4>2, SetupWrites
    <3>2. CASE w = 2
      <4>1. before = P + 1 /\ Bytes(w + 1) = W /\ bytes = Path(c, "response_pipe_path")
        BY <3>2, SetupWrites DEF Bytes
      <4>2. \A m \in 1..P : Path(c, "response_pipe_path")[m] = SetupByte(c, P + 1 + m)
        BY SetupBytes DEF Path
      <4> HIDE DEF bytes, before
      <4> QED
        BY <1>1, <4>1, <4>2, SetupWrites
    <3> QED
      BY <2>2, <3>1, <3>2
  <2>4. WrittenOfLast = before /\ WrittenOfLast' = before + Len(bytes)
    <3>1. WrittenOfLast = before
      BY <1>2, <2>1 DEF WrittenOfLast
    <3>2. WrittenOfLast' = Bytes(w + 1)
      BY <1>2, <2>1 DEF WrittenOfLast
    <3> QED
      BY <2>3, <3>1, <3>2
  <2>5. pipe' = pipe \o bytes
    BY <1>3
  <2> HIDE DEF bytes, before
  <2>6. ASSUME NEW j \in Int, NEW c0 \in Int, StreamFrom(j, c0) PROVE StreamFrom(j, c0)'
    <3>1. Len(pipe) = PlaceInPipe(L, before, j, c0)
      BY <1>2, <2>4, <2>6 DEF StreamFrom
    <3>2. \A m \in 1..Len(bytes) : bytes[m] = SetupByte(sent'[L], before + m)
      BY <2>1, <2>3
    <3>3. before + Len(bytes) <= W
      BY <2>3
    <3>4. \A i \in 1..L : i < L \/ before # 0 => i \in 1..Len(sent) /\ sent'[i] = sent[i]
      BY <1>2, <2>1
    <3>5. Len(sent') = L
      BY <1>2, <2>1
    <3> QED
      BY <1>5, <2>3, <2>4, <2>5, <2>6, <3>1, <3>2, <3>3, <3>4, <3>5, StreamWrite
  <2>7. WritersInv'
    <3>1. \A i \in 1..L : written'[sent[i]] # 0
      <4> SUFFICES ASSUME NEW i \in 1..L PROVE written'[sent[i]] # 0
        OBVIOUS
      <4>1. sent[i] \in Clients /\ written[sent[i]] # 0
        BY <1>2, <1>5
      <4> QED
        BY <1>3, <2>2, <4>1
    <3>2. \A d \in Clients : written'[d] \in 1..2 => d = sent[L]
      BY <1>3, <1>4, <2>1
    <3> QED
      BY <1>2, <2>1, <3>1, <3>2 DEF WritersInv
  <2>8. sent' \in Seq(Clients) /\ Len(sent) <= Len(sent') /\ \A i \in 1..Len(sent) : sent'[i] = sent[i]
    BY <1>2, <1>5, <2>1
  <2>9. PlaceInv' /\ OutcomesInv'
    BY <1>3, <2>6, <2>8, StreamGrows
  <2> QED
    BY <2>7, <2>9 DEF Ordered
<1> QED
  BY <1>6, <1>7

\* Main before extract_requests.
LEMMA StartOrdered ==
  ASSUME Ordered, Start
  PROVE  Ordered'
<1>1. /\ at \in Starting /\ at' \in Starting \cup {"op_code"}
      /\ UNCHANGED <<written, sent, pipe, buf, done, torn, outcome>>
  BY DEF Start, MakeServerPipe, Register, OpenServerPipe, StartWorkers, Starting, Unopened, history
<1>2. Idle /\ buf["op_code"] = <<NoByte>> /\ done = 0 /\ ~torn
  BY <1>1 DEF Ordered, PlaceInv
<1>3. Idle'
  BY <1>1, <1>2 DEF Idle, StreamFrom, WrittenOfLast
<1>4. PlaceInv'
  BY <1>1, <1>2, <1>3 DEF PlaceInv, Starting, Unopened
<1> QED
  BY <1>1, <1>4 DEF Ordered, WritersInv, OutcomesInv

\* Neither the workers nor the arrival of a signal move the main thread.
LEMMA StillOrdered ==
  ASSUME Ordered, UNCHANGED <<written, sent, pipe, buf, at, done, torn, outcome>>
  PROVE  Ordered'
  BY DEF Ordered, WritersInv, PlaceInv, OutcomesInv, Idle, Busy, StreamFrom, WrittenOfLast, Stored, IsSetup

\* The setup in hand gets its outcome, and the main thread is between setups.
LEMMA Settled ==
  ASSUME Inv, Ordered, NEW what, NEW paths, Settle(what, paths), NEW c \in 1..W, Busy(c),
         UNCHANGED <<written, sent, pipe>>,
         what = "inserted" => paths = Paths(sent[Len(outcome) + 1])
  PROVE  WritersInv' /\ OutcomesInv' /\ Idle'
<1>1. PICK j \in Nat : j = Len(outcome)
  BY DEF Inv, BuffersInv
<1>2. j < Len(sent) /\ buf["op_code"] = <<OpCode(sent[j + 1])>> /\ StreamFrom(j + 1, c) /\ Len(sent) \in Nat
  BY <1>1 DEF Busy, Inv, TypeOK
<1> DEFINE new == [what |-> what, op |-> OpCode(sent[j + 1]), paths |-> paths]
<1>3. outcome' = Append(outcome, new) /\ outcome \in Seq(Outcome)
  BY <1>2 DEF Settle, Inv, BuffersInv
<1>4. /\ Len(outcome') = j + 1
      /\ \A i \in 1..j : outcome'[i] = outcome[i]
      /\ outcome'[j + 1] = new
  <2> DEFINE S == Outcome \cup {new}
  <2>1. outcome \in Seq(S) /\ new \in S
    BY <1>3, SeqMonotonic
  <2> HIDE DEF S, new
  <2> QED
    BY <1>1, <1>3, <2>1, AppendProperties
<1>5. WritersInv'
  BY DEF Ordered, WritersInv
<1>6. OutcomesInv'
  <2> SUFFICES ASSUME NEW i \in 1..(j + 1)
               PROVE  /\ outcome'[i].op = OpCode(sent[i])
                      /\ outcome'[i].what = "inserted" => outcome'[i].paths = Paths(sent[i])
    BY <1>4 DEF OutcomesInv
  <2>1. CASE i = j + 1
    <3>1. outcome'[i] = new
      BY <1>4, <2>1
    <3>2. new.op = OpCode(sent[i]) /\ new.what = what /\ new.paths = paths
      BY <2>1
    <3> QED
      BY <1>1, <2>1, <3>1, <3>2
  <2>2. CASE i # j + 1
    <3>1. i \in 1..j
      BY <1>1, <2>2
    <3> QED
      BY <1>1, <1>4, <3>1 DEF Ordered, OutcomesInv
  <2> QED
    BY <2>1, <2>2
<1>7. StreamFrom(j + 1, c)'
  BY <1>2 DEF StreamFrom, WrittenOfLast
<1>8. j + 1 <= Len(sent) /\ j + 1 # 0
  BY <1>1, <1>2
<1>9. Idle'
  BY <1>4, <1>7, <1>8 DEF Idle
<1> QED
  BY <1>5, <1>6, <1>9

\* Back at the top of the loop, between setups.
LEMMA AgainOrdered ==
  ASSUME Inv, Again, (WritersInv /\ OutcomesInv /\ Idle)', done' = 0
  PROVE  Ordered'
<1>1. at' = "op_code" /\ buf'["op_code"] = <<NoByte>> /\ ~torn'
  BY Sizes DEF Again, Inv, BuffersInv
<1>2. PlaceInv'
  BY <1>1 DEF PlaceInv, Starting, Unopened
<1> QED
  BY <1>2 DEF Ordered

LEMMA IdleStays ==
  ASSUME Idle, UNCHANGED <<written, sent, pipe, outcome>>
  PROVE  Idle'
  BY DEF Idle, StreamFrom, WrittenOfLast

LEMMA StartPrintOrdered ==
  ASSUME Inv, Ordered, StartPrint
  PROVE  Ordered'
<1>1. at = "test" /\ at' = "print" /\ done = 0 /\ done' = 0 /\ UNCHANGED <<written, sent, pipe>>
  BY DEF StartPrint, Ordered, PlaceInv
<1>2. 1 \in 1..W
  BY Width
<1>3. CASE IsSetup
  <2>1. Busy(1)
    BY <1>1, <1>3 DEF Ordered, PlaceInv
  <2>2. Settle("dropped", <<>>)
    BY <1>3 DEF StartPrint
  <2>3. WritersInv' /\ OutcomesInv' /\ Idle'
    BY <1>1, <1>2, <2>1, <2>2, Settled
  <2> QED
    BY <1>1, <2>3 DEF Ordered, PlaceInv, Starting, Unopened
<1>4. CASE ~IsSetup
  <2>1. outcome' = outcome
    BY <1>4 DEF StartPrint
  <2>2. Idle
    <3>1. ASSUME Busy(1) PROVE IsSetup
      <4>1. Len(outcome) + 1 \in 1..Len(sent) /\ sent \in Seq(Clients)
        BY <3>1 DEF Busy, Inv, TypeOK, BuffersInv
      <4>2. sent[Len(outcome) + 1] \in Clients
        BY <4>1
      <4> QED
        BY <3>1, <4>2 DEF Busy, IsSetup
    <3> QED
      BY <1>1, <1>4, <3>1 DEF Ordered, PlaceInv
  <2>3. Idle'
    BY <1>1, <2>1, <2>2, IdleStays
  <2> QED
    BY <1>1, <2>1, <2>3 DEF Ordered, PlaceInv, Starting, Unopened, WritersInv, OutcomesInv
<1> QED
  BY <1>3, <1>4

LEMMA TakeOpCodeOrdered ==
  ASSUME Inv, Ordered, TakeOpCode
  PROVE  Ordered'
<1>1. /\ at = "test" /\ done = 0 /\ ~torn
      /\ UNCHANGED <<written, sent, pipe, outcome, done>>
  BY DEF TakeOpCode, Ordered, PlaceInv
<1>2. WritersInv' /\ OutcomesInv'
  BY <1>1 DEF Ordered, WritersInv, OutcomesInv
<1>3. CASE IsSetup
  <2>1. at' = "request_pipe_path" /\ buf' = buf /\ torn' = torn
    BY <1>3 DEF TakeOpCode
  <2>2. Busy(1)
    BY <1>1, <1>3 DEF Ordered, PlaceInv
  <2>3. Busy(0 + 1)'
    BY <1>1, <2>1, <2>2 DEF Busy, StreamFrom, WrittenOfLast
  <2>4. Busy(done + 1)' /\ Stored("request_pipe_path", done)'
    BY <1>1, <2>3 DEF Busy, Stored
  <2>5. PlaceInv'
    BY <1>1, <2>1, <2>4 DEF PlaceInv, Starting, Unopened
  <2> QED
    BY <1>2, <2>5 DEF Ordered
<1>4. CASE ~IsSetup
  <2>1. Idle
    <3>1. ASSUME Busy(1) PROVE IsSetup
      <4>1. Len(outcome) + 1 \in 1..Len(sent) /\ sent \in Seq(Clients)
        BY <3>1 DEF Busy, Inv, TypeOK, BuffersInv
      <4>2. sent[Len(outcome) + 1] \in Clients
        BY <4>1
      <4> QED
        BY <3>1, <4>2 DEF Busy, IsSetup
    <3> QED
      BY <1>1, <1>4, <3>1 DEF Ordered, PlaceInv
  <2>2. Idle'
    BY <1>1, <2>1, IdleStays
  <2>3. Again /\ done' = 0
    BY <1>1, <1>4 DEF TakeOpCode
  <2> QED
    BY <1>2, <2>2, <2>3, AgainOrdered
<1> QED
  BY <1>3, <1>4

LEMMA InsertOrdered ==
  ASSUME Inv, Ordered, InsertRequest
  PROVE  Ordered'
<1> DEFINE what == IF torn THEN "torn" ELSE "inserted"
           paths == <<buf["request_pipe_path"], buf["response_pipe_path"]>>
<1>1. /\ at = "insert" /\ done = 0 /\ Settle(what, paths) /\ Again
      /\ UNCHANGED <<written, sent, pipe, done>>
  BY DEF InsertRequest, Ordered, PlaceInv
<1>2. PICK c \in 1..W : Busy(c)
  <2>1. W \in 1..W
    BY Width
  <2> QED
    BY <1>1, <2>1 DEF Ordered, PlaceInv
<1>3. what = "inserted" => paths = Paths(sent[Len(outcome) + 1])
  <2> SUFFICES ASSUME ~torn PROVE paths = Paths(sent[Len(outcome) + 1])
    OBVIOUS
  <2> DEFINE client == sent[Len(outcome) + 1]
  <2>1. Stored("request_pipe_path", P) /\ Stored("response_pipe_path", P)
    BY <1>1 DEF Ordered, PlaceInv
  <2>2. ASSUME NEW v \in {"request_pipe_path", "response_pipe_path"} PROVE buf[v] = Path(client, v)
    <3> DEFINE S == Byte \cup {NoByte}
               s == buf[v]
               p == Path(client, v)
    <3>1. s \in Seq(S) /\ Len(s) = P
      <4>1. buf[v] \in Seq(S) /\ DOMAIN buf[v] = 1..P /\ P \in Nat
        BY Sizes, PipeAssumption DEF Inv, TypeOK, BuffersInv
      <4> QED
        BY <4>1
    <3>2. \A i \in 1..P : s[i] = [client |-> client, of |-> v, place |-> i]
      BY <2>1 DEF Stored
    <3>3. p \in Seq(Byte) /\ Len(p) = P
      <4>1. client \in Clients
        <5>1. Len(outcome) + 1 \in 1..Len(sent) /\ sent \in Seq(Clients)
          BY <1>2 DEF Busy, Inv, TypeOK, BuffersInv
        <5> QED
          BY <5>1
      <4> HIDE DEF client
      <4> QED
        BY <4>1, SetupWrites
    <3>4. \A i \in 1..P : p[i] = [client |-> client, of |-> v, place |-> i]
      BY DEF Path
    <3> HIDE DEF client, s, p
    <3>5. p \in Seq(S)
      BY <3>3, SeqMonotonic DEF S
    <3> HIDE DEF S
    <3>6. s = p
      BY <3>1, <3>2, <3>3, <3>4, <3>5, SeqEqual
    <3> QED
      BY <3>6 DEF s, p
  <2> QED
    BY <2>2 DEF Paths
<1> HIDE DEF what, paths
<1>4. WritersInv' /\ OutcomesInv' /\ Idle'
  BY <1>1, <1>2, <1>3, Settled
<1> QED
  BY <1>1, <1>4, AgainOrdered

\* The handler returns: an interrupted read is given up, with the bytes it took.
LEMMA ReregisterOrdered ==
  ASSUME Inv, Ordered, Reregister
  PROVE  Ordered'
<1>1. UNCHANGED <<written, sent, pipe, buf, outcome>>
  BY DEF Reregister
<1>2. P \in Nat \ {0} /\ W \in Nat /\ W = 2 * P + 1 /\ done \in Nat
  BY Width DEF Inv, TypeOK
<1> HIDE DEF W
<1>3. WritersInv' /\ OutcomesInv'
  BY <1>1 DEF Ordered, WritersInv, OutcomesInv
<1>4. ASSUME NEW c \in Int, Busy(c) PROVE Busy(c)'
  BY <1>1, <1>4 DEF Busy, StreamFrom, WrittenOfLast
<1>5. CASE handler.on # "read"
  BY <1>1, <1>5, StillOrdered DEF Reregister, Return
<1>6. CASE handler.on = "read"
  <2>1. /\ at \in DOMAIN Size /\ at' = After[at] /\ done' = 0 /\ torn' = (at # "op_code")
        /\ done < Size[at]
    BY <1>6 DEF Reregister, Return, Inv, SignalsInv, TypeOK
  <2>2. CASE at = "op_code"
    <3>1. Idle /\ buf["op_code"] = <<NoByte>>
      BY <2>2 DEF Ordered, PlaceInv
    <3>2. Idle'
      BY <1>1, <3>1, IdleStays
    <3>3. ~IsSetup'
      <4>1. buf'["op_code"][1] = NoByte
        BY <1>1, <3>1
      <4>2. \A c \in Clients : NoByte # OpCode(c)
        BY DEF NoByte, OpCode
      <4> QED
        BY <4>1, <4>2 DEF IsSetup
    <3>4. at' = "test" /\ ~torn'
      BY <2>1, <2>2 DEF After
    <3>5. PlaceInv'
      BY <2>1, <3>2, <3>3, <3>4 DEF PlaceInv, Starting, Unopened
    <3> QED
      BY <1>3, <3>5 DEF Ordered
  <2>3. CASE at = "request_pipe_path"
    <3>1. Busy(done + 1) /\ done < P
      BY <2>1, <2>3, Sizes DEF Ordered, PlaceInv
    <3>2. PICK c \in 1..P : c = done + 1
      BY <1>2, <3>1
    <3>3. Busy(c)' /\ c \in 1..(P + done')
      BY <1>2, <1>4, <2>1, <3>1, <3>2
    <3>4. at' = "response_pipe_path" /\ torn'
      BY <2>1, <2>3 DEF After
    <3>5. PlaceInv'
      BY <3>3, <3>4 DEF PlaceInv, Starting, Unopened
    <3> QED
      BY <1>3, <3>5 DEF Ordered
  <2>4. CASE at = "response_pipe_path"
    <3>1. done < P
      BY <2>1, <2>4, Sizes
    <3>2. PICK c \in 1..W : Busy(c)
      <4>1. P + done + 1 \in 1..W /\ \A c \in 1..(P + done) : c \in 1..W
        BY <1>2, <3>1
      <4> QED
        BY <2>4, <4>1 DEF Ordered, PlaceInv
    <3>3. Busy(c)'
      BY <1>2, <1>4, <3>2
    <3>4. at' = "insert" /\ torn'
      BY <2>1, <2>4 DEF After
    <3>5. PlaceInv'
      BY <2>1, <3>3, <3>4 DEF PlaceInv, Starting, Unopened
    <3> QED
      BY <1>3, <3>5 DEF Ordered
  <2> QED
    BY <2>1, <2>2, <2>3, <2>4, Sizes
<1> QED
  BY <1>5, <1>6

-----------------------------------------------------------------------------
(* The theorems *)

LEMMA InitInv == Init => Inv
<1> SUFFICES ASSUME Init PROVE Inv
  OBVIOUS
<1>1. Typed /\ SignalsInv
  BY InitTyped DEF Init, SignalsInv, Starting, Unopened, NoHandler
<1>2. W \in Nat \ {0} /\ W \in 1..W
  BY Width
<1> HIDE DEF W
<1>3. Len(sent) = 0 /\ Len(outcome) = 0 /\ Len(pipe) = 0 /\ WrittenOfLast = W
  BY DEF Init, WrittenOfLast
<1>4. StreamFrom(0, W)
  <2>1. PlaceInPipe(0, W, 0, W) = 0
    BY <1>2, Distances DEF PlaceInPipe
  <2> QED
    BY <1>3, <2>1 DEF StreamFrom
<1>5. Idle
  BY <1>2, <1>3, <1>4 DEF Idle
<1>6. WritersInv /\ OutcomesInv
  BY <1>3 DEF Init, WritersInv, OutcomesInv
<1>7. buf["op_code"] = <<NoByte>>
  <2>1. buf["op_code"] = [i \in 1..1 |-> NoByte]
    BY Sizes DEF Init
  <2> QED
    BY <2>1
<1>8. PlaceInv
  BY <1>5, <1>7 DEF Init, PlaceInv, Starting, Unopened
<1> QED
  BY <1>1, <1>6, <1>8 DEF Inv, Typed

LEMMA InvStep == Inv /\ [Next]_vars => Inv'
<1> SUFFICES ASSUME Inv, [Next]_vars PROVE Inv'
  OBVIOUS
<1>1. CASE Next
  <2>1. Typed' /\ SignalsInv'
    BY <1>1, TypedStep, SignalsStep DEF Inv, Typed
  <2>2. ASSUME ~overlap' PROVE Ordered'
    <3>1. Ordered
      <4>1. ~overlap
        BY <1>1, <2>2 DEF Next, MainThread, Handler, Write, Start, MakeServerPipe, Register, OpenServerPipe,
           StartWorkers, WorkersBlock, Read, ReadUpTo, StartPrint, EndPrint, TakeOpCode, InsertRequest, Sigusr1,
           RaiseFlag, Reregister, history
      <4> QED
        BY <4>1 DEF Inv, Ordered
    <3>2. ASSUME NEW c \in Clients, Write(c) PROVE Ordered'
      BY <2>2, <3>1, <3>2, WriteOrdered
    <3>3. CASE Start
      BY <3>1, <3>3, StartOrdered
    <3>4. CASE Read
      BY <3>1, <3>4, ReadOrdered
    <3>5. CASE StartPrint
      BY <3>1, <3>5, StartPrintOrdered
    <3>6. CASE EndPrint
      <4>1. Again /\ at = "print" /\ UNCHANGED <<written, sent, pipe, outcome, done>>
        BY <3>6 DEF EndPrint
      <4>2. Idle /\ done = 0
        BY <3>1, <4>1 DEF Ordered, PlaceInv
      <4>3. WritersInv' /\ OutcomesInv'
        BY <3>1, <4>1 DEF Ordered, WritersInv, OutcomesInv
      <4>4. Idle'
        BY <4>1, <4>2, IdleStays
      <4> QED
        BY <4>1, <4>2, <4>3, <4>4, AgainOrdered
    <3>7. CASE TakeOpCode
      BY <3>1, <3>7, TakeOpCodeOrdered
    <3>8. CASE InsertRequest
      BY <3>1, <3>8, InsertOrdered
    <3>9. CASE WorkersBlock
      BY <3>1, <3>9, StillOrdered DEF WorkersBlock, history
    <3>10. ASSUME NEW on \in {"main", "read", "worker"}, Sigusr1(on) PROVE Ordered'
      BY <3>1, <3>10, StillOrdered DEF Sigusr1, history
    <3>11. CASE RaiseFlag
      BY <3>1, <3>11, StillOrdered DEF RaiseFlag
    <3>12. CASE Reregister
      BY <3>1, <3>12, ReregisterOrdered
    <3> QED
      BY <1>1, <3>2, <3>3, <3>4, <3>5, <3>6, <3>7, <3>8, <3>9, <3>10, <3>11, <3>12 DEF Next, MainThread, Handler
  <2> QED
    BY <2>1, <2>2 DEF Inv, Typed, Ordered
<1>2. CASE UNCHANGED vars
  <2>1. (TypeOK /\ SignalsInv /\ BuffersInv)'
    BY <1>2 DEF vars, signal, history, TypeOK, BuffersInv, SignalsInv, Inv
  <2>2. ~overlap' => Ordered'
    BY <1>2, StillOrdered DEF vars, history, Inv, Ordered
  <2> QED
    BY <2>1, <2>2 DEF Inv, Ordered
<1> QED
  BY <1>1, <1>2

\* The inductive invariant: while setups do not overlap, the pipe holds a stretch
\* of the setups in their order, and it begins in the setup in hand or behind the
\* op_code of the last one settled (main.c:496-549).
THEOREM ServerPipeInvariance == Spec => []Inv
  BY InitInv, InvStep, PTL DEF Spec

\* Each setup is inserted with its own paths, dropped or spoilt in its turn, and
\* none of the setups behind it is touched (main.c:496-549).
THEOREM SetupsSettledInTurn == Spec => []EachSettledInTurn
<1>1. Inv => EachSettledInTurn
  <2> SUFFICES ASSUME Inv, ~overlap
               PROVE  /\ Len(outcome) <= Len(sent)
                      /\ \A i \in DOMAIN outcome :
                           /\ outcome[i].op = OpCode(sent[i])
                           /\ outcome[i].what = "inserted" => outcome[i].paths = Paths(sent[i])
                      /\ \A i \in (Len(outcome) + 1)..Len(sent) :
                           \/ \E k \in DOMAIN pipe : pipe[k] = OpCode(sent[i])
                           \/ i = Len(outcome) + 1 /\ buf["op_code"] = <<OpCode(sent[i])>>
    BY DEF EachSettledInTurn
  <2>1. TypeOK /\ Ordered
    BY DEF Inv, Ordered
  <2>2. PICK j \in Nat, L \in Nat : j = Len(outcome) /\ L = Len(sent)
    <3>1. outcome \in Seq(Outcome) /\ sent \in Seq(Clients)
      BY DEF Inv, TypeOK, BuffersInv
    <3>2. Len(outcome) \in Nat /\ Len(sent) \in Nat
      BY <3>1
    <3> QED
      BY <3>2
  <2>3. Idle \/ \E c \in 1..W : Busy(c)
    BY <2>1, Somewhere DEF Ordered
  <2>4. j <= L
    BY <2>2, <2>3 DEF Idle, Busy
  <2>5. \A i \in DOMAIN outcome :
          /\ outcome[i].op = OpCode(sent[i])
          /\ outcome[i].what = "inserted" => outcome[i].paths = Paths(sent[i])
    BY <2>1 DEF Ordered, OutcomesInv, TypeOK
  <2>6. ASSUME NEW h \in Int, NEW c \in 1..W, StreamFrom(h, c), NEW i \in 1..L, h < i
        PROVE  \E k \in DOMAIN pipe : pipe[k] = OpCode(sent[i])
    <3> DEFINE k == PlaceInPipe(i, 1, h, c)
               e == Between(h, i)
               f == Between(h, L)
               w == WrittenOfLast
    <3>1. W \in Nat /\ W # 0
      BY Width
    <3> HIDE DEF W
    <3>2. e \in Int /\ f \in Int /\ e <= f
      BY <2>2, <2>6, Distances
    <3>3. W <= e
      <4>1. Between(h, h) = 0 /\ Between(h, h + 1) = Between(h, h) + W
        BY <2>6, Distances
      <4>2. h + 1 <= i => Between(h, h + 1) <= e
        BY <2>6, Distances
      <4>3. h + 1 <= i /\ 0 + W = W
        BY <2>2, <2>6, <3>1
      <4> QED
        BY <4>1, <4>2, <4>3
    <3>4. w \in 1..W
      <4>1. sent # <<>>
        BY <2>2, <2>6
      <4> QED
        BY <2>1, <3>1, <4>1, LastWritten DEF Ordered
    <3>5. Len(pipe) = f + w - c /\ k = e + 1 - c
      BY <2>2, <2>6 DEF StreamFrom, PlaceInPipe
    <3>6. k \in 1..Len(pipe) => pipe[k] = SetupByte(sent[i], 1)
      <4>1. 1 \in 1..W
        BY <3>1
      <4> QED
        BY <2>2, <2>6, <4>1 DEF StreamFrom
    <3> HIDE DEF k, e, f, w
    <3>7. k \in 1..Len(pipe)
      BY <3>1, <3>2, <3>3, <3>4, <3>5
    <3>8. k \in DOMAIN pipe
      BY <3>7 DEF TypeOK, Inv
    <3> QED
      BY <3>6, <3>7, <3>8, SetupBytes
  <2>7. ASSUME NEW i \in (j + 1)..L
        PROVE  \/ \E k \in DOMAIN pipe : pipe[k] = OpCode(sent[i])
               \/ i = j + 1 /\ buf["op_code"] = <<OpCode(sent[i])>>
    <3>1. i \in 1..L /\ j < i /\ j \in Int /\ j + 1 \in Int /\ (i = j + 1 \/ j + 1 < i)
      BY <2>2
    <3>2. CASE Idle
      <4>1. PICK c \in 1..W : StreamFrom(j, c)
        BY <2>2, <3>2 DEF Idle
      <4> QED
        BY <2>6, <3>1, <4>1
    <3>3. ASSUME NEW c \in 1..W, Busy(c)
          PROVE  \/ \E k \in DOMAIN pipe : pipe[k] = OpCode(sent[i])
                 \/ i = j + 1 /\ buf["op_code"] = <<OpCode(sent[i])>>
      <4>1. buf["op_code"] = <<OpCode(sent[j + 1])>> /\ StreamFrom(j + 1, c)
        BY <2>2, <3>3 DEF Busy
      <4>2. CASE i = j + 1
        BY <4>1, <4>2
      <4>3. CASE j + 1 < i
        BY <2>6, <3>1, <4>1, <4>3
      <4> QED
        BY <3>1, <4>2, <4>3
    <3> QED
      BY <2>3, <3>2, <3>3
  <2> QED
    BY <2>2, <2>4, <2>5, <2>7
<1> QED
  BY <1>1, ServerPipeInvariance, PTL
=============================================================================
