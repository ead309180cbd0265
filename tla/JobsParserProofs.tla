-------------------------- MODULE JobsParserProofs --------------------------
(***************************************************************************)
(* Theorems about JobsParser, for every text of a file, every value of      *)
(* UINT_MAX and every length of the arrays: wherever the loop of main takes *)
(* a command, parser.c leaves the file at the start of a line or at the     *)
(* end, and further on than before.                                         *)
(***************************************************************************)
EXTENDS JobsParser, WellFoundedInduction, TLAPS

-----------------------------------------------------------------------------
(* The least number, and induction over a set *)

\* A set of numbers has a least one.
LEMMA LeastNumber ==
  ASSUME NEW S, S \subseteq Nat, S # {}
  PROVE  Min(S) \in S /\ \A n \in S : Min(S) <= n
<1>1. PICK x \in S : \A y \in S : ~(<<y, x>> \in OpToRel(<, Nat))
  BY NatLessThanWellFounded, WFMin
<1>2. \A y \in S : ~(y < x)
  BY <1>1, Zenon DEF OpToRel
<1>3. \A y \in S : x <= y
  BY <1>2
<1> QED
  BY <1>3 DEF Min

\* A set of numbers with 0 and all successors is the set of all.
LEMMA SetInduction ==
  ASSUME NEW S, 0 \in S, \A n \in Nat : n \in S => n + 1 \in S
  PROVE  Nat \subseteq S
<1> DEFINE T == Nat \ S
           m == Min(T)
<1> SUFFICES ASSUME T # {} PROVE FALSE
  OBVIOUS
<1>1. m \in T /\ \A n \in T : m <= n
  BY LeastNumber
<1> HIDE DEF m
<1>2. m - 1 \in Nat /\ m - 1 \notin T
  BY <1>1
<1> QED
  BY <1>1, <1>2

-----------------------------------------------------------------------------
(* Reading *)

\* No character of a text is empty, and at its end there is none.
LEMMA TextParts ==
  ASSUME NEW f, IsText(f)
  PROVE  /\ Len(f) \in Nat
         /\ \A q \in 1..Len(f) : Char(f, q) # ""
         /\ Char(f, Len(f) + 1) = ""
<1>1. Len(f) \in Nat
  BY Zenon DEF IsText
<1>2. \A q \in 1..Len(f) : SubSeq(f, q, q) # ""
  BY Zenon DEF IsText
<1>3. \A q \in 1..Len(f) : ~(q > Len(f))
  BY <1>1
<1>4. Len(f) + 1 > Len(f)
  BY <1>1
<1> QED
  BY <1>1, <1>2, <1>3, <1>4, Zenon DEF Char

\* A read stops after so many characters or at the end of the file.
LEMMA AheadIs ==
  ASSUME NEW f, IsText(f), NEW p \in 1..(Len(f) + 1), NEW n \in Nat
  PROVE  /\ p + n <= Len(f) + 1 => Ahead(f, p, n) = p + n
         /\ p + n > Len(f) + 1 => Ahead(f, p, n) = Len(f) + 1
         /\ Ahead(f, p, n) \in p..(Len(f) + 1)
<1> DEFINE S == {p + n, Len(f) + 1}
           m == Min(S)
<1>1. Len(f) \in Nat
  BY TextParts
<1>2. m \in S /\ \A k \in S : m <= k
  BY <1>1, LeastNumber
<1>3. m \in {p + n, Len(f) + 1} /\ m <= p + n /\ m <= Len(f) + 1 /\ Ahead(f, p, n) = m
  BY <1>2 DEF Ahead
<1> HIDE DEF S, m
<1> QED
  BY <1>1, <1>3

\* The first offset at which a character of a kind stands that the end of the
\* file is of.
LEMMA FirstFrom ==
  ASSUME NEW f, IsText(f), NEW p \in 1..(Len(f) + 1),
         NEW S, S \subseteq p..(Len(f) + 1), Len(f) + 1 \in S
  PROVE  Min(S) \in S /\ Min(S) \in p..(Len(f) + 1)
<1>1. Len(f) \in Nat
  BY TextParts
<1>2. S \subseteq Nat
  BY <1>1
<1> QED
  BY <1>2, LeastNumber

\* cleanup reads to the start of a line, and stands still only at the end.
LEMMA CleanupEnds ==
  ASSUME NEW f, IsText(f), NEW p \in 1..(Len(f) + 1)
  PROVE  /\ cleanup(f, p) \in p..(Len(f) + 1)
         /\ LineStart(f, cleanup(f, p))
<1> DEFINE S == {q \in p..(Len(f) + 1) : Char(f, q) \in {Newline, ""}}
           m == Min(S)
<1>1. Len(f) \in Nat
  BY TextParts
<1>2. Len(f) + 1 \in p..(Len(f) + 1)
  BY <1>1
<1>3. Len(f) + 1 \in S
  BY <1>2, TextParts, Zenon
<1>4. m \in S /\ m \in p..(Len(f) + 1)
  BY <1>3, FirstFrom
<1>5. cleanup(f, p) = Ahead(f, m, 1)
  BY DEF cleanup
<1>9. Char(f, m) \in {Newline, ""}
  BY <1>4, Zenon
<1> HIDE DEF S, m
<1>6. m \in 1..(Len(f) + 1)
  BY <1>1, <1>4
<1>7. CASE m <= Len(f)
  <2>1. cleanup(f, p) = m + 1
    BY <1>1, <1>5, <1>6, <1>7, AheadIs
  <2>2. m \in 1..Len(f)
    BY <1>1, <1>6, <1>7
  <2>3. Char(f, m) = Newline
    BY <1>9, <2>2, TextParts
  <2>4. m + 1 \in p..(Len(f) + 1) /\ m + 1 \in 1..(Len(f) + 1) /\ (m + 1) - 1 = m
    BY <1>1, <1>4, <1>7
  <2> QED
    BY <2>1, <2>3, <2>4 DEF LineStart
<1>8. CASE m > Len(f)
  <2>1. cleanup(f, p) = Len(f) + 1
    BY <1>1, <1>5, <1>6, <1>8, AheadIs
  <2>2. Len(f) + 1 \in 1..(Len(f) + 1) /\ Len(f) + 1 > Len(f)
    BY <1>1
  <2> QED
    BY <1>2, <2>1, <2>2 DEF LineStart
<1> QED
  BY <1>1, <1>4, <1>7, <1>8

\* parse_uint consumes the character behind the digits, so that after one that
\* ends a line the next line begins.
LEMMA UintEnds ==
  ASSUME NEW f, IsText(f), NEW p \in 1..(Len(f) + 1), NEW stale
  PROVE  LET u == parse_uint(f, p, stale) IN
         /\ u.at \in p..(Len(f) + 1)
         /\ u.next \in LineEnd => LineStart(f, u.at)
<1> DEFINE S == {q \in p..(Len(f) + 1) : Char(f, q) \notin Digits}
           m == Min(S)
           u == parse_uint(f, p, stale)
<1>1. Len(f) \in Nat
  BY TextParts
<1>2. Len(f) + 1 \in p..(Len(f) + 1)
  BY <1>1
<1>3. Len(f) + 1 \in S
  <2>1. "" \notin Digits
    BY DEF Digits
  <2> QED
    BY <1>2, <2>1, TextParts, Zenon
<1>4. m \in S /\ m \in p..(Len(f) + 1)
  BY <1>3, FirstFrom
<1>5. u.at = Ahead(f, m, 1) /\ u.next = Char(f, m)
  BY DEF parse_uint, Beyond
<1> HIDE DEF S, m, u
<1>6. m \in 1..(Len(f) + 1)
  BY <1>1, <1>4
<1>7. CASE m <= Len(f)
  <2>1. u.at = m + 1
    BY <1>1, <1>5, <1>6, <1>7, AheadIs
  <2>2. m \in 1..Len(f)
    BY <1>1, <1>6, <1>7
  <2>3. u.next \in LineEnd => Char(f, m) = Newline
    BY <1>5, <2>2, TextParts DEF LineEnd
  <2>4. m + 1 \in p..(Len(f) + 1) /\ m + 1 \in 1..(Len(f) + 1) /\ (m + 1) - 1 = m
    BY <1>1, <1>4, <1>7
  <2> QED
    BY <2>1, <2>3, <2>4 DEF LineStart, u
<1>8. CASE m > Len(f)
  <2>1. u.at = Len(f) + 1
    BY <1>1, <1>5, <1>6, <1>8, AheadIs
  <2>2. Len(f) + 1 \in 1..(Len(f) + 1) /\ Len(f) + 1 > Len(f)
    BY <1>1
  <2> QED
    BY <1>2, <2>1, <2>2 DEF LineStart, u
<1> QED
  BY <1>1, <1>4, <1>7, <1>8

\* Appending to a sequence.
LEMMA AppendIs ==
  ASSUME NEW S, NEW s \in Seq(S), NEW e \in S
  PROVE  /\ Append(s, e) \in Seq(S)
         /\ Len(Append(s, e)) = Len(s) + 1
         /\ \A k \in 1..Len(s) : Append(s, e)[k] = s[k]
         /\ Append(s, e)[Len(s) + 1] = e
  OBVIOUS

\* The same for an element of any kind.
LEMMA Appended ==
  ASSUME NEW s, NEW S, s \in Seq(S), NEW e
  PROVE  /\ \E T : Append(s, e) \in Seq(T)
         /\ Len(Append(s, e)) = Len(s) + 1
         /\ \A k \in 1..Len(s) : Append(s, e)[k] = s[k]
         /\ Append(s, e)[Len(s) + 1] = e
<1> DEFINE T == S \cup {e}
<1>1. s \in Seq(T) /\ e \in T
  <2>1. \A k \in 1..Len(s) : s[k] \in T
    OBVIOUS
  <2> HIDE DEF T
  <2> QED
    BY <2>1, e \in S \cup {e} DEF T
<1> HIDE DEF T
<1> QED
  BY <1>1, AppendIs

-----------------------------------------------------------------------------
(* Numbers *)

\* What has been read after k of the numbers.
Reading(r, f, p, ends, stale) ==
  r = [k \in 0..Len(ends) |->
         IF k = 0 THEN [ok |-> TRUE, values |-> <<>>, at |-> p]
         ELSE NextNumber(f, r[k - 1], ends[k], stale)]

\* The recursion of ParseNumbers has a solution.
LEMMA NumbersRead ==
  ASSUME NEW f, NEW p, NEW ends, Len(ends) \in Nat, NEW stale
  PROVE  \E r : Reading(r, f, p, ends, stale) /\ ParseNumbers(f, p, ends, stale) = r[Len(ends)]
<1> DEFINE first == [ok |-> TRUE, values |-> <<>>, at |-> p]
           F(r, m) == [k \in 0..m |-> IF k = 0 THEN first ELSE NextNumber(f, r[k - 1], ends[k], stale)]
           S == {m \in Nat : \E r : r = F(r, m)}
           read == CHOOSE r : r = F(r, Len(ends))
<1>1. 0 \in S
  <2> DEFINE g == [k \in 0..0 |-> first]
  <2>1. g = F(g, 0)
    OBVIOUS
  <2> QED
    BY <2>1
<1>2. ASSUME NEW m \in Nat, m \in S
      PROVE  m + 1 \in S
  <2>1. PICK g : g = F(g, m)
    BY <1>2
  <2> DEFINE next == NextNumber(f, g[m], ends[m + 1], stale)
             h == [k \in 0..(m + 1) |-> IF k = m + 1 THEN next ELSE g[k]]
  <2>2. ASSUME NEW k \in 0..(m + 1)
        PROVE  h[k] = IF k = 0 THEN first ELSE NextNumber(f, h[k - 1], ends[k], stale)
    <3>1. CASE k = m + 1
      BY <3>1
    <3>2. CASE k # m + 1
      <4>1. k \in 0..m /\ h[k] = g[k] /\ (k # 0 => h[k - 1] = g[k - 1])
        BY <3>2
      <4>2. g[k] = IF k = 0 THEN first ELSE NextNumber(f, g[k - 1], ends[k], stale)
        BY <2>1, <4>1
      <4> QED
        BY <4>1, <4>2
    <3> QED
      BY <3>1, <3>2
  <2>3. h = F(h, m + 1)
    BY <2>2
  <2>4. \E r : r = F(r, m + 1)
    <3> HIDE DEF h, F
    <3> QED
      BY <2>3
  <2>5. m + 1 \in Nat
    OBVIOUS
  <2> QED
    BY <2>4, <2>5
<1>3. Nat \subseteq S
  BY <1>1, <1>2, SetInduction
<1>4. \E r : r = F(r, Len(ends))
  BY <1>3
<1>5. read = F(read, Len(ends))
  BY <1>4
<1>6. ParseNumbers(f, p, ends, stale) = read[Len(ends)]
  BY DEF ParseNumbers
<1>7. Reading(read, f, p, ends, stale)
  BY <1>5 DEF Reading
<1> HIDE DEF read
<1> QED
  BY <1>6, <1>7

\* Numbers are read forward, and behind the last of them a line begins if it
\* had to be followed by the end of one.
LEMMA NumbersEnd ==
  ASSUME NEW f, IsText(f), NEW p \in 1..(Len(f) + 1), NEW ends, Len(ends) \in Nat \ {0}, NEW stale
  PROVE  LET n == ParseNumbers(f, p, ends, stale) IN
         /\ n.at \in p..(Len(f) + 1)
         /\ n.ok /\ ends[Len(ends)] = LineEnd => LineStart(f, n.at)
<1>0. Len(ends) \in Nat
  OBVIOUS
<1>1. PICK r : Reading(r, f, p, ends, stale) /\ ParseNumbers(f, p, ends, stale) = r[Len(ends)]
  BY <1>0, NumbersRead, Zenon
<1>2. r[0] = [ok |-> TRUE, values |-> <<>>, at |-> p]
  BY <1>0, <1>1 DEF Reading
<1>3. \A k \in 1..Len(ends) : r[k] = NextNumber(f, r[k - 1], ends[k], stale)
  <2>1. \A k \in 1..Len(ends) : k \in 0..Len(ends) /\ k # 0
    OBVIOUS
  <2> QED
    BY <1>1, <2>1, Zenon DEF Reading
<1>4. ASSUME NEW k \in 1..Len(ends), r[k - 1].at \in p..(Len(f) + 1)
      PROVE  /\ r[k].at \in p..(Len(f) + 1)
             /\ r[k].ok /\ ends[k] = LineEnd => LineStart(f, r[k].at)
  <2> DEFINE u == parse_uint(f, r[k - 1].at, stale)
  <2>1. Len(f) \in Nat
    BY TextParts
  <2>2. r[k - 1].at \in 1..(Len(f) + 1)
    BY <1>4, <2>1
  <2>3. u.at \in r[k - 1].at..(Len(f) + 1) /\ (u.next \in LineEnd => LineStart(f, u.at))
    BY <2>2, UintEnds
  <2>4. u.at \in p..(Len(f) + 1)
    BY <1>4, <2>1, <2>3
  <2>5. r[k] = IF ~r[k - 1].ok THEN r[k - 1]
               ELSE [ok |-> u.ok /\ u.next \in ends[k], values |-> Append(r[k - 1].values, u.value),
                     at |-> u.at]
    BY <1>3 DEF NextNumber
  <2> HIDE DEF u
  <2>6. CASE ~r[k - 1].ok
    BY <1>4, <2>5, <2>6
  <2>7. CASE r[k - 1].ok
    <3> DEFINE ok == u.ok /\ u.next \in ends[k]
               values == Append(r[k - 1].values, u.value)
               at == u.at
    <3>1. r[k] = [ok |-> ok, values |-> values, at |-> at]
      BY <2>5, <2>7, Zenon
    <3> HIDE DEF ok, values, at
    <3>2. r[k].at = at /\ r[k].ok = ok
      BY <3>1
    <3> QED
      BY <2>3, <2>4, <3>2, Zenon DEF ok, at
  <2> QED
    BY <2>6, <2>7
<1> DEFINE S == {k \in Nat : k <= Len(ends) => r[k].at \in p..(Len(f) + 1)}
<1>5. 0 \in S
  <2>1. Len(f) \in Nat
    BY TextParts
  <2>2. p \in p..(Len(f) + 1)
    BY <2>1
  <2> QED
    BY <1>2, <2>2
<1>6. ASSUME NEW k \in Nat, k \in S PROVE k + 1 \in S
  <2>1. CASE k + 1 <= Len(ends)
    <3>1. k + 1 \in 1..Len(ends) /\ (k + 1) - 1 = k /\ k <= Len(ends)
      BY <2>1
    <3>2. r[k + 1].at \in p..(Len(f) + 1)
      BY <1>4, <1>6, <3>1
    <3> QED
      BY <3>2
  <2>2. CASE ~(k + 1 <= Len(ends))
    BY <2>2
  <2> QED
    BY <2>1, <2>2
<1>7. Nat \subseteq S
  BY <1>5, <1>6, SetInduction
<1>8. Len(ends) - 1 \in Nat /\ Len(ends) - 1 <= Len(ends) /\ Len(ends) \in 1..Len(ends)
  OBVIOUS
<1>9. r[Len(ends) - 1].at \in p..(Len(f) + 1)
  BY <1>7, <1>8
<1> QED
  BY <1>1, <1>4, <1>8, <1>9

\* All numbers asked for have been read if none of them failed.
LEMMA NumbersCounted ==
  ASSUME NEW f, NEW p, NEW ends, Len(ends) \in Nat, NEW stale, ParseNumbers(f, p, ends, stale).ok
  PROVE  Len(ParseNumbers(f, p, ends, stale).values) = Len(ends)
<1> DEFINE n == Len(ends)
<1>1. PICK r : Reading(r, f, p, ends, stale) /\ ParseNumbers(f, p, ends, stale) = r[n]
  BY NumbersRead, Zenon
<1>2. r[0] = [ok |-> TRUE, values |-> <<>>, at |-> p]
  BY <1>1 DEF Reading
<1>3. \A k \in 1..n : r[k] = NextNumber(f, r[k - 1], ends[k], stale)
  <2>1. \A k \in 1..n : k \in 0..n /\ k # 0
    OBVIOUS
  <2> QED
    BY <1>1, <2>1, Zenon DEF Reading
<1> DEFINE Counted(k) == \E S : r[k].values \in Seq(S) /\ Len(r[k].values) = k
           S == {k \in Nat : k <= n /\ r[k].ok => Counted(k)}
<1>4. 0 \in S
  <2>1. r[0].values \in Seq({}) /\ Len(r[0].values) = 0
    BY <1>2
  <2> QED
    BY <2>1
<1>5. ASSUME NEW k \in Nat, k \in S PROVE k + 1 \in S
  <2> SUFFICES ASSUME k + 1 <= n, r[k + 1].ok PROVE Counted(k + 1)
    OBVIOUS
  <2> DEFINE u == parse_uint(f, r[k].at, stale)
             ok == u.ok /\ u.next \in ends[k + 1]
             values == Append(r[k].values, u.value)
  <2>1. k + 1 \in 1..n /\ (k + 1) - 1 = k /\ k <= n
    OBVIOUS
  <2>2. r[k + 1] = IF ~r[k].ok THEN r[k] ELSE [ok |-> ok, values |-> values, at |-> u.at]
    BY <1>3, <2>1 DEF NextNumber
  <2> HIDE DEF ok, values
  <2>3. r[k].ok
    BY <2>2
  <2>4. r[k + 1].values = values
    BY <2>2, <2>3
  <2>5. PICK T : r[k].values \in Seq(T) /\ Len(r[k].values) = k
    BY <1>5, <2>1, <2>3
  <2>6. (\E U : values \in Seq(U)) /\ Len(values) = k + 1
    <3> DEFINE s == r[k].values
               e == u.value
    <3>1. s \in Seq(T) /\ Len(s) = k
      BY <2>5
    <3> HIDE DEF s, e
    <3>2. (\E U : Append(s, e) \in Seq(U)) /\ Len(Append(s, e)) = Len(s) + 1
      BY <3>1, Appended, Zenon
    <3> QED
      BY <3>1, <3>2 DEF values, s, e
  <2> QED
    BY <2>4, <2>6
<1>6. Nat \subseteq S
  BY <1>4, <1>5, SetInduction
<1> QED
  BY <1>1, <1>6

-----------------------------------------------------------------------------
(* Seats *)

\* The list of seats after i turns of the loop.
Listing(list, f, p, k, stale) ==
  list = [i \in 0..k |-> IF i = 0 THEN [state |-> "more", seats |-> <<>>, at |-> p]
                         ELSE NextSeat(f, list[i - 1], stale)]

\* The recursion of Seats has a solution.
LEMMA SeatsRead ==
  ASSUME NEW f, NEW p, NEW n \in Nat, NEW stale
  PROVE  \E list : Listing(list, f, p, n, stale) /\ Seats(f, p, n, stale) = list[n]
<1> DEFINE first == [state |-> "more", seats |-> <<>>, at |-> p]
           F(r, m) == [k \in 0..m |-> IF k = 0 THEN first ELSE NextSeat(f, r[k - 1], stale)]
           S == {m \in Nat : \E r : r = F(r, m)}
           list == CHOOSE r : r = F(r, n)
<1>1. 0 \in S
  <2> DEFINE g == [k \in 0..0 |-> first]
  <2>1. g = F(g, 0)
    OBVIOUS
  <2> QED
    BY <2>1
<1>2. ASSUME NEW m \in Nat, m \in S
      PROVE  m + 1 \in S
  <2>1. PICK g : g = F(g, m)
    BY <1>2
  <2> DEFINE next == NextSeat(f, g[m], stale)
             h == [k \in 0..(m + 1) |-> IF k = m + 1 THEN next ELSE g[k]]
  <2>2. ASSUME NEW k \in 0..(m + 1)
        PROVE  h[k] = IF k = 0 THEN first ELSE NextSeat(f, h[k - 1], stale)
    <3>1. CASE k = m + 1
      BY <3>1
    <3>2. CASE k # m + 1
      <4>1. k \in 0..m /\ h[k] = g[k] /\ (k # 0 => h[k - 1] = g[k - 1])
        BY <3>2
      <4>2. g[k] = IF k = 0 THEN first ELSE NextSeat(f, g[k - 1], stale)
        BY <2>1, <4>1
      <4> QED
        BY <4>1, <4>2
    <3> QED
      BY <3>1, <3>2
  <2>3. h = F(h, m + 1)
    BY <2>2
  <2>4. \E r : r = F(r, m + 1)
    <3> HIDE DEF h, F
    <3> QED
      BY <2>3
  <2>5. m + 1 \in Nat
    OBVIOUS
  <2> QED
    BY <2>4, <2>5
<1>3. Nat \subseteq S
  BY <1>1, <1>2, SetInduction
<1>4. \E r : r = F(r, n)
  BY <1>3
<1>5. list = F(list, n)
  BY <1>4
<1>6. Seats(f, p, n, stale) = list[n]
  BY DEF Seats
<1>7. Listing(list, f, p, n, stale)
  BY <1>5 DEF Listing
<1> HIDE DEF list
<1> QED
  BY <1>6, <1>7

\* One turn of the loop reads forward.
LEMMA NextSeatAhead ==
  ASSUME NEW f, IsText(f), NEW p \in 1..(Len(f) + 1), NEW stale,
         NEW list, list.at \in p..(Len(f) + 1)
  PROVE  NextSeat(f, list, stale).at \in p..(Len(f) + 1)
<1> DEFINE ends == <<{","}, {")"}>>
           q == Ahead(f, list.at, 1)
           xy == ParseNumbers(f, q, ends, stale)
           r == Ahead(f, xy.at, 1)
<1>1. Len(f) \in Nat
  BY TextParts
<1>2. Len(ends) \in Nat \ {0}
  OBVIOUS
<1>3. list.at \in 1..(Len(f) + 1)
  BY <1>1
<1>4. q \in list.at..(Len(f) + 1)
  BY <1>3, AheadIs
<1> HIDE DEF ends, q
<1>5. q \in 1..(Len(f) + 1) /\ q \in p..(Len(f) + 1)
  BY <1>1, <1>3, <1>4
<1>6. xy.at \in q..(Len(f) + 1)
  BY <1>2, <1>5, NumbersEnd
<1> HIDE DEF xy
<1>7. xy.at \in 1..(Len(f) + 1) /\ xy.at \in p..(Len(f) + 1)
  BY <1>1, <1>5, <1>6
<1>8. r \in xy.at..(Len(f) + 1)
  BY <1>7, AheadIs
<1> HIDE DEF r
<1>9. r \in p..(Len(f) + 1)
  BY <1>1, <1>7, <1>8
<1> DEFINE state == CASE Char(f, xy.at) = " " -> "more"
                      [] Char(f, xy.at) = "]" -> "closed"
                      [] OTHER -> "bad"
           seats == Append(list.seats, xy.values)
<1>10. NextSeat(f, list, stale) =
         IF list.state # "more" THEN list
         ELSE IF Char(f, list.at) # "(" THEN [state |-> "bad", seats |-> list.seats, at |-> q]
         ELSE IF ~xy.ok THEN [state |-> "bad", seats |-> list.seats, at |-> xy.at]
         ELSE [state |-> state, seats |-> seats, at |-> r]
  BY DEF NextSeat, ends, q, xy, r
<1> HIDE DEF state, seats
<1> QED
  BY <1>5, <1>7, <1>9, <1>10

\* The seats are read forward, however many there are.
LEMMA SeatsAhead ==
  ASSUME NEW f, IsText(f), NEW p \in 1..(Len(f) + 1), NEW n \in Nat, NEW stale
  PROVE  Seats(f, p, n, stale).at \in p..(Len(f) + 1)
<1>1. PICK list : Listing(list, f, p, n, stale) /\ Seats(f, p, n, stale) = list[n]
  BY SeatsRead
<1>2. list[0].at = p
  BY <1>1 DEF Listing
<1>3. \A i \in 1..n : list[i] = NextSeat(f, list[i - 1], stale)
  <2>1. \A i \in 1..n : i \in 0..n /\ i # 0
    OBVIOUS
  <2> QED
    BY <1>1, <2>1, Zenon DEF Listing
<1> DEFINE S == {i \in Nat : i <= n => list[i].at \in p..(Len(f) + 1)}
<1>4. 0 \in S
  <2>1. Len(f) \in Nat
    BY TextParts
  <2>2. p \in p..(Len(f) + 1)
    BY <2>1
  <2> QED
    BY <1>2, <2>2
<1>5. ASSUME NEW i \in Nat, i \in S PROVE i + 1 \in S
  <2>1. CASE i + 1 <= n
    <3>1. i + 1 \in 1..n /\ (i + 1) - 1 = i /\ i <= n
      BY <2>1
    <3>2. list[i + 1].at \in p..(Len(f) + 1)
      BY <1>3, <1>5, <3>1, NextSeatAhead
    <3> QED
      BY <3>2
  <2>2. CASE ~(i + 1 <= n)
    BY <2>2
  <2> QED
    BY <2>1, <2>2
<1>6. Nat \subseteq S
  BY <1>4, <1>5, SetInduction
<1> QED
  BY <1>1, <1>6

\* Any number of seats, each a row and a column.
Pairs(s) == \E S : s \in Seq(S) /\ \A x \in S : Len(x) = 2

\* After k turns of the loop there are as many seats, unless it was left before.
Counted(list, k) ==
  /\ list.state \in {"more", "closed", "bad"}
  /\ Pairs(list.seats)
  /\ Len(list.seats) \in 0..k
  /\ list.state = "more" => Len(list.seats) = k
  /\ list.state = "closed" => Len(list.seats) > 0

\* One more pair.
LEMMA PairAppended ==
  ASSUME NEW s, Pairs(s), NEW x, Len(x) = 2
  PROVE  Pairs(Append(s, x)) /\ Len(Append(s, x)) = Len(s) + 1 /\ Len(s) \in Nat
<1>1. PICK S : s \in Seq(S) /\ \A y \in S : Len(y) = 2
  BY DEF Pairs
<1> DEFINE T == S \cup {x}
<1>2. s \in Seq(T)
  <2>1. \A k \in 1..Len(s) : s[k] \in S
    BY <1>1
  <2>2. \A y \in S : y \in T
    OBVIOUS
  <2> HIDE DEF T
  <2> QED
    BY <1>1, <2>1, <2>2
<1>3. x \in T /\ \A y \in T : Len(y) = 2
  BY <1>1
<1> HIDE DEF T
<1>4. Append(s, x) \in Seq(T) /\ Len(Append(s, x)) = Len(s) + 1
  BY <1>2, <1>3, AppendIs
<1>5. Pairs(Append(s, x))
  BY <1>3, <1>4 DEF Pairs
<1>6. Len(s) \in Nat
  BY <1>1
<1> QED
  BY <1>4, <1>5, <1>6

\* One turn of the loop reads one pair or leaves it (parser.c:132-163).
LEMMA NextSeatCounted ==
  ASSUME NEW f, NEW stale, NEW k \in Nat, NEW list, Counted(list, k)
  PROVE  Counted(NextSeat(f, list, stale), k + 1)
<1> DEFINE ends == <<{","}, {")"}>>
           q == Ahead(f, list.at, 1)
           xy == ParseNumbers(f, q, ends, stale)
           state == CASE Char(f, xy.at) = " " -> "more"
                      [] Char(f, xy.at) = "]" -> "closed"
                      [] OTHER -> "bad"
           pair == xy.values
           seats == Append(list.seats, pair)
           at == Ahead(f, xy.at, 1)
           next == NextSeat(f, list, stale)
<1>1. Len(ends) = 2
  OBVIOUS
<1> HIDE DEF ends
<1>2. xy.ok => Len(pair) = 2
  BY <1>1, NumbersCounted
<1>3. state \in {"more", "closed", "bad"}
  OBVIOUS
<1>4. next = IF list.state # "more" THEN list
             ELSE IF Char(f, list.at) # "(" THEN [state |-> "bad", seats |-> list.seats, at |-> q]
             ELSE IF ~xy.ok THEN [state |-> "bad", seats |-> list.seats, at |-> xy.at]
             ELSE [state |-> state, seats |-> seats, at |-> at]
  BY DEF NextSeat, ends
<1> HIDE DEF q, xy, state, at, next, pair
<1>5. Len(list.seats) \in 0..k /\ k + 1 \in Nat
  BY DEF Counted
<1>6. Len(list.seats) \in 0..(k + 1)
  BY <1>5
<1>7. CASE list.state # "more"
  BY <1>4, <1>6, <1>7 DEF Counted, next
<1>8. CASE list.state = "more" /\ (Char(f, list.at) # "(" \/ ~xy.ok)
  <2>1. next.state = "bad" /\ next.seats = list.seats
    BY <1>4, <1>8
  <2> QED
    BY <1>6, <2>1 DEF Counted, next
<1>9. CASE list.state = "more" /\ Char(f, list.at) = "(" /\ xy.ok
  <2>1. Pairs(seats) /\ Len(seats) = Len(list.seats) + 1
    BY <1>2, <1>9, PairAppended DEF Counted
  <2>2. Len(list.seats) = k
    BY <1>9 DEF Counted
  <2> HIDE DEF seats
  <2>3. next.state = state /\ next.seats = seats
    BY <1>4, <1>9
  <2>4. Len(seats) \in 0..(k + 1) /\ Len(seats) = k + 1 /\ Len(seats) > 0
    BY <2>1, <2>2
  <2> QED
    BY <1>3, <2>1, <2>3, <2>4 DEF Counted, next
<1> QED
  BY <1>7, <1>8, <1>9

\* After any number of turns.
LEMMA SeatsCounted ==
  ASSUME NEW f, NEW p, NEW n \in Nat, NEW stale
  PROVE  Counted(Seats(f, p, n, stale), n)
<1>1. PICK list : Listing(list, f, p, n, stale) /\ Seats(f, p, n, stale) = list[n]
  BY SeatsRead
<1>2. list[0] = [state |-> "more", seats |-> <<>>, at |-> p]
  BY <1>1 DEF Listing
<1>3. \A i \in 1..n : list[i] = NextSeat(f, list[i - 1], stale)
  <2>1. \A i \in 1..n : i \in 0..n /\ i # 0
    OBVIOUS
  <2> QED
    BY <1>1, <2>1, Zenon DEF Listing
<1> DEFINE S == {i \in Nat : i <= n => Counted(list[i], i)}
<1>4. 0 \in S
  <2>1. list[0].state = "more" /\ list[0].seats = <<>>
    BY <1>2
  <2>2. Pairs(<<>>)
    <3> DEFINE E == {}
    <3>1. <<>> \in Seq(E) /\ \A x \in E : Len(x) = 2
      OBVIOUS
    <3> HIDE DEF E
    <3> QED
      BY <3>1 DEF Pairs
  <2>3. Len(<<>>) = 0 /\ 0 \in 0..0
    OBVIOUS
  <2> QED
    BY <2>1, <2>2, <2>3 DEF Counted
<1>5. ASSUME NEW i \in Nat, i \in S PROVE i + 1 \in S
  <2>1. CASE i + 1 <= n
    <3>1. i + 1 \in 1..n /\ (i + 1) - 1 = i /\ i <= n
      BY <2>1
    <3>2. Counted(list[i + 1], i + 1)
      BY <1>3, <1>5, <3>1, NextSeatCounted
    <3> QED
      BY <3>2
  <2>2. CASE ~(i + 1 <= n)
    BY <2>2
  <2> QED
    BY <2>1, <2>2
<1>6. Nat \subseteq S
  BY <1>4, <1>5, SetInduction
<1> QED
  BY <1>1, <1>6

\* The arrays xs and ys of MAX_RESERVATION_SIZE places hold every seat that is
\* read, of a line that is refused too: a turn of the loop stores behind the
\* seats read before, which never fill the arrays when it begins.  A RESERVE is
\* called only with a list that was closed, of one seat at least and of fewer
\* than the arrays have room for (parser.c:119-176, main.c:63, 77-84).
THEOREM ReservationsFit ==
  ASSUME NEW f, NEW p, NEW stale
  PROVE  LET first == Ahead(f, ParseNumbers(f, p, <<{" "}>>, stale).at, 1)
             call  == parse_reserve(f, p, stale).call
         IN  /\ \A turns \in 0..MAX_RESERVATION_SIZE :
                  LET stored == Len(Seats(f, first, turns, stale).seats) IN
                  /\ stored \in 0..MAX_RESERVATION_SIZE
                  /\ turns < MAX_RESERVATION_SIZE => stored < MAX_RESERVATION_SIZE
             /\ call # NoCall => /\ Pairs(call.seats)
                                 /\ Len(call.seats) \in 1..(MAX_RESERVATION_SIZE - 1)
<1> DEFINE id == ParseNumbers(f, p, <<{" "}>>, stale)
           first == Ahead(f, id.at, 1)
           list == Seats(f, first, MAX_RESERVATION_SIZE, stale)
           call == parse_reserve(f, p, stale).call
<1>1. MAX_RESERVATION_SIZE \in Nat
  BY ParserAssumption
<1>2. ASSUME NEW turns \in 0..MAX_RESERVATION_SIZE
      PROVE  LET stored == Len(Seats(f, first, turns, stale).seats) IN
             /\ stored \in 0..MAX_RESERVATION_SIZE
             /\ turns < MAX_RESERVATION_SIZE => stored < MAX_RESERVATION_SIZE
  <2> DEFINE stored == Len(Seats(f, first, turns, stale).seats)
  <2>1. turns \in Nat /\ turns <= MAX_RESERVATION_SIZE
    BY <1>1
  <2>2. Counted(Seats(f, first, turns, stale), turns)
    BY <2>1, SeatsCounted
  <2>3. stored \in 0..turns
    BY <2>2 DEF Counted
  <2> HIDE DEF stored
  <2>4. stored \in 0..MAX_RESERVATION_SIZE
        /\ (turns < MAX_RESERVATION_SIZE => stored < MAX_RESERVATION_SIZE)
    BY <1>1, <2>1, <2>3
  <2> QED
    BY <2>4 DEF stored
<1>3. ASSUME call # NoCall
      PROVE  Pairs(call.seats) /\ Len(call.seats) \in 1..(MAX_RESERVATION_SIZE - 1)
  <2>1. Counted(list, MAX_RESERVATION_SIZE)
    BY <1>1, SeatsCounted
  <2>2. /\ list.state # "bad" /\ Len(list.seats) # MAX_RESERVATION_SIZE
        /\ call = [op |-> "reserve", id |-> id.values[1], seats |-> list.seats]
    BY <1>3, Zenon DEF parse_reserve, EndReserve, Invalid
  <2> HIDE DEF list, id, call
  <2>3. call.seats = list.seats
    BY <2>2
  <2>4. Pairs(list.seats) /\ Len(list.seats) \in 0..MAX_RESERVATION_SIZE /\ Len(list.seats) > 0
    BY <1>1, <2>1, <2>2 DEF Counted
  <2>5. Len(list.seats) \in 1..(MAX_RESERVATION_SIZE - 1)
    BY <1>1, <2>2, <2>4
  <2> QED
    BY <2>3, <2>4, <2>5
<1> QED
  BY <1>2, <1>3

-----------------------------------------------------------------------------
(* The commands *)

\* What a function of the parser called at p leaves behind: the next line, or
\* the end, and a call of its own or none.
Settled(f, p, c, op) ==
  /\ c.at \in p..(Len(f) + 1)
  /\ LineStart(f, c.at)
  /\ c.call = NoCall \/ c.call.op = op

\* An invalid command is read to the end of its line.
LEMMA InvalidSettled ==
  ASSUME NEW f, IsText(f), NEW p \in 1..(Len(f) + 1), NEW q \in p..(Len(f) + 1), NEW op
  PROVE  Settled(f, p, Invalid(f, q), op)
<1>1. Len(f) \in Nat
  BY TextParts
<1>2. q \in 1..(Len(f) + 1)
  BY <1>1
<1>3. cleanup(f, q) \in q..(Len(f) + 1) /\ LineStart(f, cleanup(f, q))
  BY <1>2, CleanupEnds
<1>4. cleanup(f, q) \in p..(Len(f) + 1)
  BY <1>1, <1>3
<1> QED
  BY <1>3, <1>4 DEF Settled, Invalid

\* A command of numbers, the last of which ends the line.
LEMMA NumbersSettled ==
  ASSUME NEW f, IsText(f), NEW p \in 1..(Len(f) + 1), NEW stale, NEW op, NEW call,
         NEW ends, Len(ends) \in Nat \ {0}, ends[Len(ends)] = LineEnd,
         call = NoCall \/ call.op = op
  PROVE  LET n == ParseNumbers(f, p, ends, stale) IN
         Settled(f, p, IF n.ok THEN [call |-> call, at |-> n.at] ELSE Invalid(f, n.at), op)
<1> DEFINE n == ParseNumbers(f, p, ends, stale)
<1>1. n.at \in p..(Len(f) + 1) /\ (n.ok => LineStart(f, n.at))
  BY NumbersEnd
<1> HIDE DEF n
<1>2. Settled(f, p, Invalid(f, n.at), op)
  BY <1>1, InvalidSettled
<1>3. n.ok => Settled(f, p, [call |-> call, at |-> n.at], op)
  BY <1>1 DEF Settled
<1>4. Settled(f, p, IF n.ok THEN [call |-> call, at |-> n.at] ELSE Invalid(f, n.at), op)
  BY <1>2, <1>3
<1> QED
  BY <1>4 DEF n

\* A CREATE reads to the end of its line (parser.c:94-117).
LEMMA CreateSettled ==
  ASSUME NEW f, IsText(f), NEW p \in 1..(Len(f) + 1), NEW stale
  PROVE  Settled(f, p, parse_create(f, p, stale), "create")
<1> DEFINE ends == <<{" "}, {" "}, LineEnd>>
           n == ParseNumbers(f, p, ends, stale)
           call == [op |-> "create", id |-> n.values[1], rows |-> n.values[2], cols |-> n.values[3]]
<1>1. Len(ends) \in Nat \ {0} /\ ends[Len(ends)] = LineEnd
  OBVIOUS
<1>2. call.op = "create"
  OBVIOUS
<1>3. parse_create(f, p, stale) = IF n.ok THEN [call |-> call, at |-> n.at] ELSE Invalid(f, n.at)
  BY DEF parse_create
<1> HIDE DEF call, ends
<1> QED
  BY <1>1, <1>2, <1>3, NumbersSettled

\* So does a SHOW (parser.c:178-187).
LEMMA ShowSettled ==
  ASSUME NEW f, IsText(f), NEW p \in 1..(Len(f) + 1), NEW stale
  PROVE  Settled(f, p, parse_show(f, p, stale), "show")
<1> DEFINE ends == <<LineEnd>>
           n == ParseNumbers(f, p, ends, stale)
           call == [op |-> "show", id |-> n.values[1]]
<1>1. Len(ends) \in Nat \ {0} /\ ends[Len(ends)] = LineEnd
  OBVIOUS
<1>2. call.op = "show"
  OBVIOUS
<1>3. parse_show(f, p, stale) = IF n.ok THEN [call |-> call, at |-> n.at] ELSE Invalid(f, n.at)
  BY DEF parse_show
<1> HIDE DEF call, ends
<1> QED
  BY <1>1, <1>2, <1>3, NumbersSettled

\* And a WAIT, which calls nothing (parser.c:189-215).
LEMMA WaitSettled ==
  ASSUME NEW f, IsText(f), NEW p \in 1..(Len(f) + 1), NEW stale
  PROVE  Settled(f, p, parse_wait(f, p, stale), "none") /\ parse_wait(f, p, stale).call = NoCall
<1> DEFINE ends == <<LineEnd>>
           n == ParseNumbers(f, p, ends, stale)
<1>1. Len(ends) \in Nat \ {0} /\ ends[Len(ends)] = LineEnd
  OBVIOUS
<1>2. parse_wait(f, p, stale) = IF n.ok THEN [call |-> NoCall, at |-> n.at] ELSE Invalid(f, n.at)
  BY DEF parse_wait
<1>3. parse_wait(f, p, stale).call = NoCall
  BY <1>2 DEF Invalid
<1> HIDE DEF ends
<1> QED
  BY <1>1, <1>2, <1>3, NumbersSettled

\* A list of seats that is closed is followed by the end of the line, or read
\* on to it.
LEMMA ReserveSettled ==
  ASSUME NEW f, IsText(f), NEW p \in 1..(Len(f) + 1), NEW stale
  PROVE  Settled(f, p, parse_reserve(f, p, stale), "reserve")
<1> DEFINE ends == <<{" "}>>
           id == ParseNumbers(f, p, ends, stale)
           q == Ahead(f, id.at, 1)
           list == Seats(f, q, MAX_RESERVATION_SIZE, stale)
           r == Ahead(f, list.at, 1)
           call == [op |-> "reserve", id |-> id.values[1], seats |-> list.seats]
<1>0. Len(ends) \in Nat \ {0}
  OBVIOUS
<1>1. Len(f) \in Nat /\ MAX_RESERVATION_SIZE \in Nat
  BY TextParts, ParserAssumption
<1>2. id.at \in p..(Len(f) + 1)
  BY <1>0, NumbersEnd
<1> HIDE DEF ends, id
<1>3. id.at \in 1..(Len(f) + 1)
  BY <1>1, <1>2
<1>4. q \in id.at..(Len(f) + 1)
  BY <1>3, AheadIs
<1> HIDE DEF q
<1>5. q \in p..(Len(f) + 1) /\ q \in 1..(Len(f) + 1)
  BY <1>1, <1>2, <1>3, <1>4
<1>6. list.at \in q..(Len(f) + 1)
  BY <1>1, <1>5, SeatsAhead
<1> HIDE DEF list
<1>7. list.at \in p..(Len(f) + 1) /\ list.at \in 1..(Len(f) + 1)
  BY <1>1, <1>5, <1>6
<1>8. /\ r \in list.at..(Len(f) + 1)
      /\ list.at + 1 <= Len(f) + 1 => r = list.at + 1
      /\ list.at + 1 > Len(f) + 1 => r = Len(f) + 1
  BY <1>7, AheadIs
<1> HIDE DEF r
<1>9. r \in p..(Len(f) + 1) /\ r \in 1..(Len(f) + 1)
  BY <1>1, <1>7, <1>8
<1>10. /\ Settled(f, p, Invalid(f, id.at), "reserve") /\ Settled(f, p, Invalid(f, q), "reserve")
       /\ Settled(f, p, Invalid(f, list.at), "reserve") /\ Settled(f, p, Invalid(f, r), "reserve")
  BY <1>2, <1>5, <1>7, <1>9, InvalidSettled
<1>11. ASSUME Char(f, list.at) = Newline
       PROVE  Settled(f, p, [call |-> call, at |-> r], "reserve")
  <2>1. LineStart(f, r)
    <3>1. CASE list.at <= Len(f)
      <4>1. r = list.at + 1 /\ r - 1 = list.at
        BY <1>1, <1>7, <1>8, <3>1
      <4> QED
        BY <1>9, <1>11, <4>1 DEF LineStart
    <3>2. CASE list.at > Len(f)
      <4>1. r = Len(f) + 1 /\ r > Len(f)
        BY <1>1, <1>7, <1>8, <3>2
      <4> QED
        BY <1>9, <4>1 DEF LineStart
    <3> QED
      BY <1>1, <1>7, <3>1, <3>2
  <2>2. call.op = "reserve"
    OBVIOUS
  <2> HIDE DEF call
  <2> QED
    BY <1>9, <2>1, <2>2 DEF Settled
<1>12. parse_reserve(f, p, stale) =
         IF ~id.ok THEN Invalid(f, id.at)
         ELSE IF Char(f, id.at) # "[" THEN Invalid(f, q)
         ELSE IF list.state = "bad" \/ Len(list.seats) = MAX_RESERVATION_SIZE THEN Invalid(f, list.at)
         ELSE IF Char(f, list.at) # Newline THEN Invalid(f, r)
         ELSE [call |-> call, at |-> r]
  BY DEF parse_reserve, EndReserve, ends, id, q, list, r
<1> HIDE DEF call
<1> QED
  BY <1>10, <1>11, <1>12

\* The words get_next compares with.
Words == {"CREATE ", "RESERVE ", "SHOW ", "LIST", "WAIT ", "HELP"}

\* get_next reads at least one character unless it is at the end, and to the end
\* of the line unless there are arguments to be read.
LEMMA NextCommand ==
  ASSUME NEW f, IsText(f), NEW p \in 1..(Len(f) + 1)
  PROVE  LET next == get_next(f, p) IN
         /\ p > Len(f) => next = [cmd |-> "EOC", at |-> p]
         /\ p <= Len(f) =>
              /\ next.cmd \in Words \cup {"EMPTY", "INVALID"}
              /\ next.at \in (p + 1)..(Len(f) + 1)
              /\ next.cmd \in {"EMPTY", "INVALID", "LIST", "HELP"} => LineStart(f, next.at)
<1>1. Len(f) \in Nat
  BY TextParts
<1>2. CASE p > Len(f)
  BY <1>2 DEF get_next
<1>3. CASE p <= Len(f)
  <2> DEFINE c == Char(f, p)
             word == Keyword[c]
             q == Ahead(f, p, Len(word))
             r == Ahead(f, q, 1)
             next == get_next(f, p)
  <2>1. next = IF c = Newline THEN [cmd |-> "EMPTY", at |-> p + 1]
               ELSE IF c = "#" THEN [cmd |-> "EMPTY", at |-> cleanup(f, p + 1)]
               ELSE IF c \notin DOMAIN Keyword THEN [cmd |-> "INVALID", at |-> cleanup(f, p + 1)]
               ELSE IF Text(f, p, Len(word)) # word THEN [cmd |-> "INVALID", at |-> cleanup(f, q)]
               ELSE IF word \notin {"LIST", "HELP"} THEN [cmd |-> word, at |-> q]
               ELSE IF Char(f, q) \in LineEnd THEN [cmd |-> word, at |-> r]
               ELSE [cmd |-> "INVALID", at |-> cleanup(f, r)]
    <3>1. ~(p > Len(f))
      BY <1>1, <1>3
    <3> QED
      BY <3>1, Zenon DEF get_next
  <2>2. p + 1 \in 1..(Len(f) + 1) /\ p + 1 \in (p + 1)..(Len(f) + 1) /\ (p + 1) - 1 = p
    BY <1>1, <1>3
  <2>3. cleanup(f, p + 1) \in (p + 1)..(Len(f) + 1) /\ LineStart(f, cleanup(f, p + 1))
    BY <2>2, CleanupEnds
  <2>4. c = Newline => LineStart(f, p + 1)
    BY <2>2 DEF LineStart
  <2>5. ASSUME c \in DOMAIN Keyword
        PROVE  /\ word \in Words
               /\ q \in (p + 1)..(Len(f) + 1)
               /\ r \in (p + 1)..(Len(f) + 1)
               /\ LineStart(f, cleanup(f, q)) /\ cleanup(f, q) \in (p + 1)..(Len(f) + 1)
               /\ LineStart(f, cleanup(f, r)) /\ cleanup(f, r) \in (p + 1)..(Len(f) + 1)
               /\ Char(f, q) \in LineEnd => LineStart(f, r)
    <3>1. word \in Words
      <4>1. c \in {"C", "R", "S", "L", "W", "H"}
        BY <2>5 DEF Keyword
      <4>2. /\ Keyword["C"] = "CREATE " /\ Keyword["R"] = "RESERVE " /\ Keyword["S"] = "SHOW "
            /\ Keyword["L"] = "LIST" /\ Keyword["W"] = "WAIT " /\ Keyword["H"] = "HELP"
        BY DEF Keyword
      <4> HIDE DEF c
      <4> QED
        BY <4>1, <4>2, Zenon DEF Words
    <3> DEFINE n == Len(word)
    <3>2. n \in Nat \ {0}
      BY <2>5, KeywordAssumption
    <3> HIDE DEF n
    <3>3. /\ p + n <= Len(f) + 1 => Ahead(f, p, n) = p + n
          /\ p + n > Len(f) + 1 => Ahead(f, p, n) = Len(f) + 1
      BY <3>2, AheadIs
    <3>4. q \in (p + 1)..(Len(f) + 1) /\ q \in 1..(Len(f) + 1)
      <4>1. Ahead(f, p, n) \in (p + 1)..(Len(f) + 1) /\ Ahead(f, p, n) \in 1..(Len(f) + 1)
        BY <1>1, <1>3, <3>2, <3>3
      <4> QED
        BY <4>1 DEF n
    <3> HIDE DEF q, c, word
    <3>5. /\ r \in q..(Len(f) + 1)
          /\ q + 1 <= Len(f) + 1 => r = q + 1
          /\ q + 1 > Len(f) + 1 => r = Len(f) + 1
      BY <3>4, AheadIs
    <3> HIDE DEF r
    <3>6. r \in (p + 1)..(Len(f) + 1) /\ r \in 1..(Len(f) + 1)
      BY <1>1, <3>4, <3>5
    <3>7. /\ LineStart(f, cleanup(f, q)) /\ cleanup(f, q) \in q..(Len(f) + 1)
          /\ LineStart(f, cleanup(f, r)) /\ cleanup(f, r) \in r..(Len(f) + 1)
      BY <3>4, <3>6, CleanupEnds
    <3>8. cleanup(f, q) \in (p + 1)..(Len(f) + 1) /\ cleanup(f, r) \in (p + 1)..(Len(f) + 1)
      BY <1>1, <3>4, <3>6, <3>7
    <3>9. ASSUME Char(f, q) \in LineEnd PROVE LineStart(f, r)
      <4>1. CASE q <= Len(f)
        <5>1. q \in 1..Len(f) /\ r = q + 1 /\ r - 1 = q
          BY <1>1, <3>4, <3>5, <4>1
        <5>2. Char(f, q) = Newline
          BY <3>9, <5>1, TextParts DEF LineEnd
        <5> QED
          BY <3>6, <5>1, <5>2 DEF LineStart
      <4>2. CASE q > Len(f)
        <5>1. r = Len(f) + 1 /\ r > Len(f)
          BY <1>1, <3>4, <3>5, <4>2
        <5> QED
          BY <3>6, <5>1 DEF LineStart
      <4> QED
        BY <1>1, <3>4, <4>1, <4>2
    <3> QED
      BY <3>1, <3>4, <3>6, <3>7, <3>8, <3>9
  <2> HIDE DEF c, word, q, r, next
  <2>6. word \notin {"LIST", "HELP"} => word \notin {"EMPTY", "INVALID", "LIST", "HELP"} \/ word \notin Words
    BY DEF Words
  <2>7. /\ next.cmd \in Words \cup {"EMPTY", "INVALID"}
        /\ next.at \in (p + 1)..(Len(f) + 1)
        /\ next.cmd \in {"EMPTY", "INVALID", "LIST", "HELP"} => LineStart(f, next.at)
    <3>1. CASE c = Newline
      BY <2>1, <2>2, <2>4, <3>1
    <3>2. CASE c # Newline /\ (c = "#" \/ c \notin DOMAIN Keyword)
      BY <2>1, <2>3, <3>2
    <3>3. CASE c # Newline /\ c # "#" /\ c \in DOMAIN Keyword
      BY <2>1, <2>5, <2>6, <3>3
    <3> QED
      BY <3>1, <3>2, <3>3
  <2> QED
    BY <1>1, <1>3, <2>7 DEF next
<1> QED
  BY <1>1, <1>2, <1>3

\* The loop of main turns once: whatever is in the file, it goes on from the
\* start of a line or the end, further on than before, and ems_quit is called
\* at the end and only there (main.c:60-144, parser.c).
THEOREM CommandsEndLines ==
  ASSUME NEW f, IsText(f), NEW p \in 1..(Len(f) + 1), NEW stale
  PROVE  LET c == Command(f, p, stale) IN
         /\ LineStart(f, c.at)
         /\ c.at > p \/ (p > Len(f) /\ c.at = p)
         /\ IF p > Len(f) THEN c.call.op = "quit"
            ELSE c.call = NoCall \/ c.call.op \in {"create", "reserve", "show", "list"}
<1> DEFINE next == get_next(f, p)
           c == Command(f, p, stale)
           Good(d) == /\ d.at \in (p + 1)..(Len(f) + 1)
                      /\ LineStart(f, d.at)
                      /\ d.call = NoCall \/ d.call.op \in {"create", "reserve", "show", "list"}
<1>1. Len(f) \in Nat
  BY TextParts
<1>2. c = CASE next.cmd = "CREATE "  -> parse_create(f, next.at, stale)
            [] next.cmd = "RESERVE " -> parse_reserve(f, next.at, stale)
            [] next.cmd = "SHOW "    -> parse_show(f, next.at, stale)
            [] next.cmd = "LIST"     -> [call |-> [op |-> "list"], at |-> next.at]
            [] next.cmd = "WAIT "    -> parse_wait(f, next.at, stale)
            [] next.cmd = "EOC"      -> [call |-> [op |-> "quit"], at |-> next.at]
            [] OTHER                 -> [call |-> NoCall, at |-> next.at]
  BY Zenon DEF Command
<1>3. CASE p > Len(f)
  <2>1. next = [cmd |-> "EOC", at |-> p]
    BY <1>3, NextCommand
  <2> HIDE DEF next, c
  <2>2. next.cmd = "EOC" /\ next.at = p
    BY <2>1
  <2>3. c = [call |-> [op |-> "quit"], at |-> p]
    BY <1>2, <2>2
  <2>4. c.at = p /\ c.call.op = "quit"
    BY <2>3
  <2>5. LineStart(f, p)
    BY <1>3 DEF LineStart
  <2> QED
    BY <1>3, <2>4, <2>5 DEF c
<1>4. CASE p <= Len(f)
  <2>1. /\ next.cmd \in Words \cup {"EMPTY", "INVALID"}
        /\ next.at \in (p + 1)..(Len(f) + 1)
        /\ next.cmd \in {"EMPTY", "INVALID", "LIST", "HELP"} => LineStart(f, next.at)
    BY <1>4, NextCommand
  <2>2. next.at \in 1..(Len(f) + 1)
    BY <1>1, <2>1
  <2> HIDE DEF next, c
  <2>3. ASSUME NEW d, NEW op, Settled(f, next.at, d, op),
               op \in {"create", "reserve", "show"} \/ d.call = NoCall
        PROVE  Good(d)
    <3>1. d.at \in (p + 1)..(Len(f) + 1)
      BY <1>1, <2>1, <2>3 DEF Settled
    <3>2. d.call = NoCall \/ d.call.op = op
      BY <2>3, Zenon DEF Settled
    <3> QED
      BY <2>3, <3>1, <3>2 DEF Settled
  <2>4. Good(c)
    <3>1. CASE next.cmd = "CREATE "
      BY <1>2, <2>2, <2>3, <3>1, CreateSettled
    <3>2. CASE next.cmd = "RESERVE "
      BY <1>2, <2>2, <2>3, <3>2, ReserveSettled
    <3>3. CASE next.cmd = "SHOW "
      BY <1>2, <2>2, <2>3, <3>3, ShowSettled
    <3>4. CASE next.cmd = "WAIT "
      BY <1>2, <2>2, <2>3, <3>4, WaitSettled
    <3>5. CASE next.cmd = "LIST"
      BY <1>2, <2>1, <3>5
    <3>6. CASE next.cmd \in {"EMPTY", "INVALID", "HELP"}
      BY <1>2, <2>1, <3>6
    <3> QED
      BY <2>1, <3>1, <3>2, <3>3, <3>4, <3>5, <3>6 DEF Words
  <2> QED
    BY <1>1, <1>4, <2>4 DEF c
<1> QED
  BY <1>1, <1>3, <1>4
=============================================================================
