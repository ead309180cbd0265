----------------------------- MODULE JobsParser -----------------------------
(***************************************************************************)
(* The parser of .jobs files, src/client/parser.c and parse_uint of         *)
(* src/common/io.c, with what the loop of src/client/main.c makes of it.    *)
(*                                                                         *)
(* A file f is a string without NUL bytes, p the offset of the next         *)
(* character to be read, Len(f) + 1 at the end.  The functions of the       *)
(* source read from a descriptor and move its offset; the operators below   *)
(* return the new offset as `at`.                                           *)
(***************************************************************************)
EXTENDS Integers, Sequences, FiniteSetsExt

CONSTANTS
  UINT_MAX,              \* the largest unsigned int
  MAX_RESERVATION_SIZE   \* the length of the arrays xs and ys

ASSUME ParserAssumption ==
  /\ UINT_MAX \in Nat
  /\ MAX_RESERVATION_SIZE \in Nat \ {0}

\* What a file is: a number of characters, none of them empty.
IsText(f) == Len(f) \in Nat /\ \A p \in 1..Len(f) : SubSeq(f, p, p) # ""

Newline == "\n"

NoCall == [op |-> "none"]

-----------------------------------------------------------------------------
(* Reading *)

\* The character at an offset, "" at the end of the file.
Char(f, p) == IF p > Len(f) THEN "" ELSE SubSeq(f, p, p)

\* The offset after a read of n characters, which stops at the end.
Ahead(f, p, n) == Min({p + n, Len(f) + 1})

\* What a read of n characters stores.
Text(f, p, n) == SubSeq(f, p, Ahead(f, p, n) - 1)

\* Where the first character that is not in the set stands, or the end.
Beyond(f, p, set) == Min({q \in p..(Len(f) + 1) : Char(f, q) \notin set})

\* Reads on until a newline has been read, or the end.
cleanup(f, p) == Ahead(f, Min({q \in p..(Len(f) + 1) : Char(f, q) \in {Newline, ""}}), 1)

\* The first character of a line, or the end.
LineStart(f, p) ==
  /\ p \in 1..(Len(f) + 1)
  /\ p = 1 \/ p > Len(f) \/ Char(f, p - 1) = Newline

Digits == {"0", "1", "2", "3", "4", "5", "6", "7", "8", "9"}

DigitValue == [c \in Digits |-> CHOOSE d \in 0..9 : SubSeq("0123456789", d + 1, d + 1) = c]

\* strtoul on a string of digits; no digit at all is 0.
Value(s) ==
  LET value[k \in 0..Len(s)] ==
        IF k = 0 THEN 0 ELSE 10 * value[k - 1] + DigitValue[SubSeq(s, k, k)]
  IN  value[Len(s)]

\* Variant: the number is cut to the width of an unsigned int unseen.
parse_uint_Wraps(f, p, stale) ==
  LET q == Beyond(f, p, Digits)
      v == Value(SubSeq(f, p, q - 1) \o (IF q > Len(f) THEN stale ELSE ""))
  IN  [ok |-> TRUE, value |-> v % (UINT_MAX + 1), next |-> Char(f, q), at |-> Ahead(f, q, 1)]

\* The character that ends the digits is consumed with them.  At the end of the
\* file the buffer is not terminated: strtoul goes on with the stale digits
\* that happen to be behind.
parse_uint(f, p, stale) ==
  LET q == Beyond(f, p, Digits)
      v == Value(SubSeq(f, p, q - 1) \o (IF q > Len(f) THEN stale ELSE ""))
  IN  [ok |-> v <= UINT_MAX, value |-> v, next |-> Char(f, q), at |-> Ahead(f, q, 1)]

\* One more number after those read, if these were all in order.
NextNumber(f, read, end, stale) ==
  LET u == parse_uint(f, read.at, stale) IN
  IF ~read.ok THEN read
  ELSE [ok |-> u.ok /\ u.next \in end, values |-> Append(read.values, u.value), at |-> u.at]

\* Numbers one after the other, the k-th followed by a character of ends[k].
\* The first failure ends it, and `at` is where the caller's cleanup begins.
ParseNumbers(f, p, ends, stale) ==
  LET read[k \in 0..Len(ends)] ==
        IF k = 0 THEN [ok |-> TRUE, values |-> <<>>, at |-> p]
        ELSE NextNumber(f, read[k - 1], ends[k], stale)
  IN  read[Len(ends)]

\* parse_uint reports the end of the file as '\0', which ends a line too.
LineEnd == {Newline, ""}

Invalid(f, p) == [call |-> NoCall, at |-> cleanup(f, p)]

-----------------------------------------------------------------------------
(* The commands *)

\* Variant: an invalid CREATE is left without reading to its end.
parse_create_NoCleanup(f, p, stale) ==
  LET n == ParseNumbers(f, p, <<{" "}, {" "}, LineEnd>>, stale) IN
  IF n.ok
  THEN [call |-> [op |-> "create", id |-> n.values[1], rows |-> n.values[2], cols |-> n.values[3]],
        at |-> n.at]
  ELSE [call |-> NoCall, at |-> n.at]

parse_create(f, p, stale) ==
  LET n == ParseNumbers(f, p, <<{" "}, {" "}, LineEnd>>, stale) IN
  IF n.ok
  THEN [call |-> [op |-> "create", id |-> n.values[1], rows |-> n.values[2], cols |-> n.values[3]],
        at |-> n.at]
  ELSE Invalid(f, n.at)

\* One more seat of a RESERVE: "more" are to follow, the list is "closed", or a
\* character is not the one expected.
NextSeat(f, list, stale) ==
  LET xy == ParseNumbers(f, Ahead(f, list.at, 1), <<{","}, {")"}>>, stale) IN
  IF list.state # "more" THEN list
  ELSE IF Char(f, list.at) # "("
  THEN [state |-> "bad", seats |-> list.seats, at |-> Ahead(f, list.at, 1)]
  ELSE IF ~xy.ok THEN [state |-> "bad", seats |-> list.seats, at |-> xy.at]
  ELSE [state |-> CASE Char(f, xy.at) = " " -> "more"
                    [] Char(f, xy.at) = "]" -> "closed"
                    [] OTHER -> "bad",
        seats |-> Append(list.seats, xy.values), at |-> Ahead(f, xy.at, 1)]

\* The seats after k turns of the loop.
Seats(f, p, k, stale) ==
  LET list[i \in 0..k] ==
        IF i = 0 THEN [state |-> "more", seats |-> <<>>, at |-> p]
        ELSE NextSeat(f, list[i - 1], stale)
  IN  list[k]

\* Variant: what follows the list is not looked at.
EndReserve_AnyEnd(f, id, list) ==
  IF list.state = "bad" \/ Len(list.seats) = MAX_RESERVATION_SIZE THEN Invalid(f, list.at)
  ELSE [call |-> [op |-> "reserve", id |-> id, seats |-> list.seats],
        at |-> Ahead(f, list.at, 1)]

\* A list of as many seats as fit is refused like one that is longer.
EndReserve(f, id, list) ==
  IF list.state = "bad" \/ Len(list.seats) = MAX_RESERVATION_SIZE THEN Invalid(f, list.at)
  ELSE IF Char(f, list.at) # Newline THEN Invalid(f, Ahead(f, list.at, 1))
  ELSE [call |-> [op |-> "reserve", id |-> id, seats |-> list.seats],
        at |-> Ahead(f, list.at, 1)]

parse_reserve(f, p, stale) ==
  LET id == ParseNumbers(f, p, <<{" "}>>, stale) IN
  IF ~id.ok THEN Invalid(f, id.at)
  ELSE IF Char(f, id.at) # "[" THEN Invalid(f, Ahead(f, id.at, 1))
  ELSE EndReserve(f, id.values[1], Seats(f, Ahead(f, id.at, 1), MAX_RESERVATION_SIZE, stale))

parse_show(f, p, stale) ==
  LET n == ParseNumbers(f, p, <<LineEnd>>, stale) IN
  IF n.ok
  THEN [call |-> [op |-> "show", id |-> n.values[1]], at |-> n.at]
  ELSE Invalid(f, n.at)

\* The loop asks for no thread id: what follows the delay is skipped.
parse_wait(f, p, stale) ==
  LET n == ParseNumbers(f, p, <<LineEnd>>, stale) IN
  IF n.ok THEN [call |-> NoCall, at |-> n.at] ELSE Invalid(f, n.at)

Keyword ==
  [C |-> "CREATE ", R |-> "RESERVE ", S |-> "SHOW ", L |-> "LIST", W |-> "WAIT ", H |-> "HELP"]

\* What the provers, to which a string is an atom, are told of these.
ASSUME KeywordAssumption == \A c \in DOMAIN Keyword : Len(Keyword[c]) \in Nat \ {0}

\* The first character decides how many more are read and compared.
get_next(f, p) ==
  LET c    == Char(f, p)
      word == Keyword[c]
      q    == Ahead(f, p, Len(word))
  IN  IF p > Len(f) THEN [cmd |-> "EOC", at |-> p]
      ELSE IF c = Newline THEN [cmd |-> "EMPTY", at |-> p + 1]
      ELSE IF c = "#" THEN [cmd |-> "EMPTY", at |-> cleanup(f, p + 1)]
      ELSE IF c \notin DOMAIN Keyword THEN [cmd |-> "INVALID", at |-> cleanup(f, p + 1)]
      ELSE IF Text(f, p, Len(word)) # word THEN [cmd |-> "INVALID", at |-> cleanup(f, q)]
      ELSE IF word \notin {"LIST", "HELP"} THEN [cmd |-> word, at |-> q]
      ELSE IF Char(f, q) \in LineEnd THEN [cmd |-> word, at |-> Ahead(f, q, 1)]
      ELSE [cmd |-> "INVALID", at |-> cleanup(f, Ahead(f, q, 1))]

\* One turn of the loop of main: the function of the API it calls, if any.
Command(f, p, stale) ==
  LET next == get_next(f, p) IN
  CASE next.cmd = "CREATE "  -> parse_create(f, next.at, stale)
    [] next.cmd = "RESERVE " -> parse_reserve(f, next.at, stale)
    [] next.cmd = "SHOW "    -> parse_show(f, next.at, stale)
    [] next.cmd = "LIST"     -> [call |-> [op |-> "list"], at |-> next.at]
    [] next.cmd = "WAIT "    -> parse_wait(f, next.at, stale)
    [] next.cmd = "EOC"      -> [call |-> [op |-> "quit"], at |-> next.at]
    [] OTHER                 -> [call |-> NoCall, at |-> next.at]
=============================================================================
