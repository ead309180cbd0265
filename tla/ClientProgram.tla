---------------------------- MODULE ClientProgram ----------------------------
(***************************************************************************)
(* The client program as a whole, src/client/main.c: the loop that reads    *)
(* one command after the other from a .jobs file (JobsParser) and calls the *)
(* API, in a session with a worker of the server (Session).                 *)
(*                                                                         *)
(* A script is the sequence of the file's lines, each with its text, the    *)
(* call that the help text of main.c makes of it, and whether it is a       *)
(* proper line at all.  The code sees only the text.                        *)
(***************************************************************************)
EXTENDS Session, JobsParser

CONSTANTS
  Scripts,     \* the scripts clients have
  StaleDigits  \* the strings of digits that may stand in unwritten memory

VARIABLES
  script,    \* the lines of the file
  file,      \* its text
  pos,       \* the offset of in_fd
  calls,     \* history: the calls the loop has made
  executed,  \* history: the operations the worker has run
  outcome    \* history: the reply of the last of them, <<>> before it

inputVars == <<script, file>>
programVars == <<vars, inputVars, pos, calls, executed, outcome>>

\* The lines in a row; the last may have no newline.
Written(lines, ended) ==
  LET text[i \in 0..Len(lines)] ==
        IF i = 0 THEN ""
        ELSE text[i - 1] \o lines[i].text \o (IF i < Len(lines) \/ ended THEN "\n" ELSE "")
  IN  text[Len(lines)]

Files == {Written(lines, ended) : lines \in Scripts, ended \in BOOLEAN}

\* A file has no NUL byte, which the parser would take for the end of the file.
ASSUME FilesAssumption == \A f \in Files : IsText(f)

\* The commands of all files, tabulated once.
CommandsAt ==
  [f \in Files |-> [p \in 1..(Len(f) + 1) |-> {Command(f, p, stale) : stale \in StaleDigits}]]

ProgramInit ==
  /\ Init
  /\ script \in Scripts
  /\ \E ended \in BOOLEAN : file = Written(script, ended)
  /\ pos = 1
  /\ calls = <<>>
  /\ executed = <<>>
  /\ outcome = <<>>

-----------------------------------------------------------------------------

\* A command that calls nothing: empty, invalid, HELP or WAIT.
SkipCommand(c) ==
  /\ ~killed
  /\ cpc = "ready"
  /\ c.call = NoCall
  /\ pos' = c.at
  /\ UNCHANGED <<vars, inputVars, calls, executed, outcome>>

\* A command that calls a function of the API, or the end of the file, at
\* which ems_quit is called.  A call that fails is not made again.
CallCommand(c) ==
  /\ c.call # NoCall
  /\ \/ c.call.op \in Ops /\ Begin(c.call.op) /\ outcome' = <<>>
     \/ c.call.op \in Ops /\ BeginFails /\ UNCHANGED outcome
     \/ c.call.op = "quit" /\ BeginQuit /\ UNCHANGED outcome
  /\ pos' = c.at
  /\ calls' = Append(calls, c.call)
  /\ UNCHANGED <<inputVars, executed>>

ClientTalks == Talk /\ UNCHANGED <<inputVars, pos, calls, executed, outcome>>

WorkerListens == Listen /\ UNCHANGED <<inputVars, pos, calls, executed, outcome>>

WorkerExecutes ==
  /\ Execute
  /\ executed' = Append(executed, [op |-> cur.op, number |-> cur.number])
  /\ outcome' = Numbers(answer')
  /\ UNCHANGED <<inputVars, pos, calls>>

ClientCrashes == Crash /\ UNCHANGED <<inputVars, pos, calls, executed, outcome>>

-----------------------------------------------------------------------------

Loop == \E c \in CommandsAt[file][pos] : SkipCommand(c) \/ CallCommand(c)

ProgramNext == Loop \/ ClientTalks \/ WorkerListens \/ WorkerExecutes \/ ClientCrashes

\* Both processes are scheduled.
ProgramSpec ==
  /\ ProgramInit
  /\ [][ProgramNext]_programVars
  /\ WF_programVars(Loop \/ ClientTalks)
  /\ WF_programVars(WorkerListens \/ WorkerExecutes)

-----------------------------------------------------------------------------
(* Properties *)

\* Where line i begins.  Behind the last line is the end of the file.
Start(i) == Min({Len(Written(SubSeq(script, 1, i - 1), TRUE)), Len(file)}) + 1

\* The offset moves from the start of a line to the start of a later one, so
\* that no command is ever looked for inside a line; and it moves to the very
\* next one if the line is proper.  Only after a malformed line, which may take
\* its newline along into the command, can lines be skipped (parser.c:10-14).
LinesKeptApart ==
  [][pos' # pos =>
       \E i \in 1..Len(script), j \in 1..(Len(script) + 1) :
         /\ i < j /\ pos = Start(i) /\ pos' = Start(j)
         /\ script[i].proper => j = i + 1]_programVars

\* What strtoul can make of a number when stale digits follow its own, if it fits.
Continued(v) ==
  {n \in 0..UINT_MAX : \E tail \in StaleDigits : n = v * 10^Len(tail) + Value(tail)}

\* What a line with a newline calls, at most one call.
Said(line) == IF line.call = NoCall THEN {<<>>} ELSE {<<line.call>>}

\* What a last line without newline may call: RESERVE ends in no number and is
\* refused, the last number of CREATE and SHOW may go on with stale digits, and
\* be too large for them.
SaidAtEnd(line) ==
  CASE line.call.op = "reserve" -> {<<>>}
    [] line.call.op = "create"  -> {<<>>} \cup {<<[line.call EXCEPT !.cols = n]>> : n \in Continued(line.call.cols)}
    [] line.call.op = "show"    -> {<<>>} \cup {<<[line.call EXCEPT !.id = n]>> : n \in Continued(line.call.id)}
    [] OTHER                    -> Said(line)

\* A proper line makes the call it says, with its numbers and seats, and a line
\* that is not proper makes none, with a newline or without.  Without one the
\* last line makes no other call than the one it says; only its last number may
\* not be the one it says (main.c:66-144, io.c:113-130).
CallsMeanLines ==
  [][pos' # pos =>
       \E i \in 1..Len(script) :
         /\ pos = Start(i)
         /\ \E made \in IF i = Len(script) /\ file = Written(script, FALSE)
                        THEN SaidAtEnd(script[i]) ELSE Said(script[i]) :
              calls' = calls \o made]_programVars

\* The worker executes the calls of the loop, each once and in the order of the
\* file.  As long as no call has failed for want of a descriptor, none is behind
\* when the next one is made, and when the end of the file makes ems_quit every
\* call is executed (main.c:60-143, api.c).
ScriptExecuted ==
  /\ Len(executed) <= Len(calls)
  /\ \A k \in DOMAIN executed : executed[k].op = calls[k].op /\ executed[k].number = k
  /\ ~lost => Len(calls) - Len(executed) \in {0, 1}
  /\ quit => pos > Len(file) /\ (~lost => Len(calls) = Len(executed) + 1)

\* Whatever the file has in it, the loop looks for a command only at the start
\* of a line or at the end of the file: a line that is cut short, too long or
\* wrong in the middle is read to its end before the next (parser.c:10-14).
AtLineStart == LineStart(file, pos)

-----------------------------------------------------------------------------
(* The program implements RemoteCalls *)

\* A reply the client has read to its end is the result of its last call.
Result == IF ReplyComplete(asked, Numbers(got)) THEN Numbers(got) ELSE <<>>

Outcomes == [op \in Ops |-> Replies(op)]

\* The calls RemoteCalls sees are the requests that were begun.
Abstract == INSTANCE RemoteCalls WITH
  Operations <- Ops,
  calls <- [k \in 1..number |-> calls[k].op],
  result <- Result,
  closed <- quit

\* Over pipes that hold few tokens, with replies in pieces, error returns, opens
\* that fail and a client that dies anywhere, the calls are still what
\* RemoteCalls says: each is run at most once, in order, and returns the outcome
\* of its own run.
CallsRunOnce == Abstract!Spec
=============================================================================
