------------------------- MODULE RequestQueueProofs -------------------------
(***************************************************************************)
(* Theorems about RequestQueue, for every number of slots, workers and      *)
(* clients: the inductive invariant Inv and what follows from it.           *)
(*                                                                         *)
(* Inserting and retrieving are the only steps that touch the ring.  Their  *)
(* indices are the numbers of insertions and retrievals modulo N, so the    *)
(* order of the requests is a matter of arithmetic modulo N (ModSucc,       *)
(* ModDiffer).  That no wakeup is lost is a count: each insertion wakes a   *)
(* sleeper, and only an empty buffer puts a worker to sleep.                *)
(***************************************************************************)
EXTENDS RequestQueue, FiniteSetTheorems, TLAPS

-----------------------------------------------------------------------------
(* Arithmetic modulo N *)

\* Division with remainder.
LEMMA ModRange ==
  ASSUME NEW n \in Nat \ {0}, NEW a \in Nat
  PROVE  a % n \in 0..(n - 1) /\ a = n * (a \div n) + (a % n) /\ a \div n \in Nat
  BY SMT

\* The remainder is determined by the decomposition.
LEMMA ModUnique ==
  ASSUME NEW n \in Nat \ {0}, NEW q \in Nat, NEW r \in 0..(n - 1)
  PROVE  (n * q + r) % n = r
  BY SMT

\* Stepping an index modulo N is the same as counting on and taking the
\* remainder (the updates of in and out, main.c:138, 167).
LEMMA ModSucc ==
  ASSUME NEW n \in Nat \ {0}, NEW a \in Nat
  PROVE  (a + 1) % n = ((a % n) + 1) % n
<1> DEFINE q == a \div n
           r == a % n
<1>1. r \in 0..(n - 1) /\ a = n * q + r /\ q \in Nat
  BY ModRange
<1>2. CASE r + 1 < n
  <2>1. r + 1 \in 0..(n - 1)
    BY <1>1, <1>2
  <2>2. (n * q + (r + 1)) % n = r + 1
    BY <1>1, <2>1, ModUnique
  <2>3. (n * 0 + (r + 1)) % n = r + 1
    BY <2>1, ModUnique
  <2>4. n * 0 + (r + 1) = r + 1 /\ n * q + (r + 1) = a + 1
    BY <1>1
  <2> QED
    BY <2>2, <2>3, <2>4
<1>3. CASE r + 1 = n
  <2>1. (n * (q + 1) + 0) % n = 0 /\ (n * 1 + 0) % n = 0
    BY <1>1, ModUnique
  <2>2. n * (q + 1) + 0 = a + 1 /\ n * 1 + 0 = r + 1
    BY <1>1, <1>3
  <2> QED
    BY <2>1, <2>2
<1> QED
  BY <1>1, <1>2, <1>3

\* Numbers less than N apart have different slots.
LEMMA ModDiffer ==
  ASSUME NEW n \in Nat \ {0}, NEW a \in Nat, NEW b \in Nat, a < b, b - a < n
  PROVE  a % n # b % n
<1> SUFFICES ASSUME a % n = b % n PROVE FALSE
  OBVIOUS
<1>1. PICK p \in Nat : a = n * p + (a % n)
  BY ModRange
<1>2. PICK q \in Nat : b = n * q + (a % n)
  BY ModRange
<1>3. a % n \in Nat
  BY ModRange
<1>4. CASE q <= p
  <2>1. n * q <= n * p
    BY <1>4
  <2> QED
    BY <1>1, <1>2, <1>3, <2>1
<1>5. CASE q >= p + 1
  <2>1. n * q >= n * p + n
    BY <1>5
  <2> QED
    BY <1>1, <1>2, <1>3, <2>1
<1> QED
  BY <1>4, <1>5

-----------------------------------------------------------------------------
(* Small facts *)

\* A thread that inserts or waits to insert has a client's request in hand.
LEMMA HostIsRecord ==
  ASSUME TypeOK, host.at \in {"check", "asleep"}
  PROVE  host \in [at : {"check", "asleep"}, client : Clients]
  BY DEF TypeOK, NoHost

\* What TypeOK says of the ring and of its history.
LEMMA RingFacts ==
  ASSUME TypeOK
  PROVE  /\ N \in Nat \ {0}
         /\ accepted \in Seq(Clients) /\ Len(accepted) \in Nat
         /\ taken \in Seq(Clients \cup {NoClient}) /\ Len(taken) \in Nat
         /\ in = Len(accepted) % N
         /\ out = Len(taken) % N
         /\ count = Len(accepted) - Len(taken)
         /\ session_counter = Len(accepted)
<1>1. accepted \in Seq(Clients) /\ taken \in Seq(Clients \cup {NoClient})
  BY DEF TypeOK
<1>2. Len(accepted) \in Nat /\ Len(taken) \in Nat
  BY <1>1
<1> QED
  BY <1>1, <1>2, QueueAssumption DEF TypeOK

\* Waking a sleeper leaves the types of the program counters.
LEMMA SignalType ==
  ASSUME TypeOK, SignalNotEmpty
  PROVE  pc' \in [Workers -> Labels]
  BY DEF TypeOK, SignalNotEmpty, Labels, Asleep

-----------------------------------------------------------------------------
(* TypeOK *)

\* Inserting keeps the types: the index and the counter follow the number of
\* insertions (main.c:133-144).
LEMMA InsertType ==
  ASSUME TypeOK, InsertRequest
  PROVE  TypeOK'
<1>1. host.client \in Clients
  BY HostIsRecord DEF InsertRequest, InsertInto
<1>2. session_counter \in Nat /\ Len(accepted) \in Nat /\ N \in Nat \ {0}
  BY RingFacts
<1>3. accepted' \in Seq(Clients) /\ Len(accepted') = Len(accepted) + 1
  BY <1>1 DEF TypeOK, InsertRequest, InsertInto
<1>4. buffer' \in [0..(N - 1) -> Slot]
  BY <1>1, <1>2 DEF TypeOK, InsertRequest, InsertInto, Slot
<1>5. in' \in 0..(N - 1) /\ in' = Len(accepted') % N
  <2>1. in' = ((Len(accepted) % N) + 1) % N
    <3>1. in' = (in + 1) % N
      BY DEF InsertRequest, InsertInto
    <3>2. in = Len(accepted) % N
      BY RingFacts
    <3> QED
      BY <3>1, <3>2
  <2>2. in' = Len(accepted') % N
    BY <1>2, <1>3, <2>1, ModSucc
  <2>3. Len(accepted') \in Nat
    BY <1>2, <1>3
  <2> QED
    BY <1>2, <2>2, <2>3, ModRange
<1>6. count' \in Int /\ count' = Len(accepted') - Len(taken')
  BY <1>3, RingFacts DEF InsertRequest, InsertInto
<1>7. pc' \in [Workers -> Labels]
  BY SignalType DEF InsertRequest, InsertInto
<1>8. UNCHANGED <<out, current, client, fds, aborted, taken, overdrawn>>
  BY DEF InsertRequest, InsertInto
<1>9. host' = NoHost /\ session_counter' = Len(accepted')
  BY <1>3 DEF TypeOK, InsertRequest, InsertInto
<1> QED
  BY <1>3, <1>4, <1>5, <1>6, <1>7, <1>8, <1>9 DEF TypeOK

\* Retrieving keeps the types, even from an empty buffer (main.c:165-168).
LEMMA RetrieveType ==
  ASSUME TypeOK, NEW w \in Workers, RetrieveRequest(w)
  PROVE  TypeOK'
<1>1. Len(taken) \in Nat /\ Len(accepted) \in Nat /\ N \in Nat \ {0}
  BY RingFacts
<1>2. buffer[out] \in Slot
  BY DEF TypeOK
<1>3. taken' \in Seq(Clients \cup {NoClient}) /\ Len(taken') = Len(taken) + 1
  BY <1>2, RingFacts DEF RetrieveRequest, Slot
<1>4. current' \in [Workers -> Slot]
  BY <1>2 DEF TypeOK, RetrieveRequest
<1>5. out' \in 0..(N - 1) /\ out' = Len(taken') % N
  <2>1. out' = ((Len(taken) % N) + 1) % N
    <3>1. out' = (out + 1) % N
      BY DEF RetrieveRequest
    <3>2. out = Len(taken) % N
      BY RingFacts
    <3> QED
      BY <3>1, <3>2
  <2>2. out' = Len(taken') % N
    BY <1>1, <1>3, <2>1, ModSucc
  <2>3. Len(taken') \in Nat
    BY <1>1, <1>3
  <2> QED
    BY <1>1, <2>2, <2>3, ModRange
<1>6. count' \in Int /\ count' = Len(accepted') - Len(taken')
  BY <1>3, RingFacts DEF RetrieveRequest
<1>7. pc' \in [Workers -> Labels]
  BY DEF TypeOK, RetrieveRequest, Labels
<1>8. overdrawn' \in BOOLEAN
  BY DEF TypeOK, RetrieveRequest
<1>9. UNCHANGED <<buffer, in, session_counter, host, client, fds, aborted, accepted>>
  BY DEF RetrieveRequest
<1> QED
  BY <1>3, <1>4, <1>5, <1>6, <1>7, <1>8, <1>9 DEF TypeOK

\* No other step touches the ring or the history.
LEMMA OtherType ==
  ASSUME TypeOK, UNCHANGED <<ring, current, history>>,
         host' \in [at : {"check", "asleep"}, client : Clients] \cup {NoHost},
         pc' \in [Workers -> Labels],
         client' \in [Clients -> {"new", "connecting", "session", "gone", "dead"}],
         fds' \in 0..MaxFds,
         aborted' \in BOOLEAN
  PROVE  TypeOK'
  BY DEF TypeOK, ring, history

\* An open counts one descriptor, and there was one.
LEMMA DescriptorsFit ==
  ASSUME TypeOK, fds < MaxFds
  PROVE  fds + 1 \in 0..MaxFds
  BY QueueAssumption DEF TypeOK

\* Every step keeps the types.
LEMMA TypeStep ==
  ASSUME TypeOK, [Next]_vars
  PROVE  TypeOK'
<1> USE DEF Labels
<1>1. ASSUME NEW c \in Clients, ExtractRequest(c) PROVE TypeOK'
  BY <1>1, OtherType DEF TypeOK, ExtractRequest
<1>2. ASSUME NEW c \in Clients, ClientQuits(c) PROVE TypeOK'
  BY <1>2, OtherType DEF TypeOK, ClientQuits
<1>14. ASSUME NEW c \in Clients, ClientDies(c) PROVE TypeOK'
  BY <1>14, OtherType DEF TypeOK, ClientDies
<1>15. ASSUME NEW w \in Workers, OpenServerPipe(w) PROVE TypeOK'
  BY <1>15, OtherType, DescriptorsFit DEF TypeOK, OpenServerPipe
<1>16. ASSUME NEW w \in Workers, Sigpipe(w) PROVE TypeOK'
  BY <1>16, OtherType DEF TypeOK, Sigpipe
<1>3. ASSUME InsertWaits PROVE TypeOK'
  <2>1. host \in [at : {"check", "asleep"}, client : Clients]
    BY <1>3, HostIsRecord DEF InsertWaits
  <2>2. host' \in [at : {"check", "asleep"}, client : Clients]
    BY <1>3, <2>1 DEF InsertWaits
  <2> QED
    BY <1>3, <2>2, OtherType DEF TypeOK, InsertWaits
<1>4. ASSUME InsertRequest PROVE TypeOK'
  BY <1>4, InsertType
<1>5. ASSUME NEW w \in Workers, CheckCount(w) PROVE TypeOK'
  BY <1>5, OtherType DEF TypeOK, CheckCount
<1>6. ASSUME NEW w \in Workers, RetrieveRequest(w) PROVE TypeOK'
  BY <1>6, RetrieveType
<1>7. ASSUME NEW w \in Workers, OpenRequestPipe(w) PROVE TypeOK'
  BY <1>7, OtherType, DescriptorsFit DEF TypeOK, OpenRequestPipe
<1>8. ASSUME NEW w \in Workers, OpenFails(w) PROVE TypeOK'
  BY <1>8, OtherType DEF TypeOK, OpenFails
<1>9. ASSUME NEW w \in Workers, OpenResponsePipe(w) PROVE TypeOK'
  BY <1>9, OtherType, DescriptorsFit DEF TypeOK, OpenResponsePipe
<1>10. ASSUME NEW w \in Workers, EndSession(w) PROVE TypeOK'
  BY <1>10, OtherType DEF TypeOK, EndSession
<1>11. ASSUME NEW w \in Workers, WorkerWakes(w) PROVE TypeOK'
  BY <1>11, OtherType DEF TypeOK, WorkerWakes
<1>12. ASSUME HostWakes PROVE TypeOK'
  <2>1. host \in [at : {"check", "asleep"}, client : Clients]
    BY <1>12, HostIsRecord DEF HostWakes
  <2>2. host' \in [at : {"check", "asleep"}, client : Clients]
    BY <1>12, <2>1 DEF HostWakes
  <2> QED
    BY <1>12, <2>2, OtherType DEF TypeOK, HostWakes
<1>13. ASSUME UNCHANGED vars PROVE TypeOK'
  BY <1>13, OtherType DEF TypeOK, vars
<1> QED
  BY <1>1, <1>2, <1>3, <1>4, <1>5, <1>6, <1>7, <1>8, <1>9, <1>10, <1>11, <1>12, <1>13,
     <1>14, <1>15, <1>16 DEF Next, Insert, Work

-----------------------------------------------------------------------------
(* The buffer never holds more than N requests *)

\* Only an insertion adds to count, and it tests count first (main.c:129).
LEMMA CapacityStep ==
  ASSUME TypeOK, count <= N, [Next]_vars
  PROVE  count' <= N
<1>1. N \in Nat /\ count \in Int
  BY RingFacts
<1>2. ASSUME InsertRequest PROVE count' <= N
  <2>1. count # N /\ count' = count + 1
    BY <1>2 DEF InsertRequest, InsertInto
  <2> QED
    BY <1>1, <2>1
<1>3. ASSUME NEW w \in Workers, RetrieveRequest(w) PROVE count' <= N
  <2>1. count' = count - 1
    BY <1>3 DEF RetrieveRequest
  <2> QED
    BY <1>1, <2>1
<1> QED
  BY <1>2, <1>3 DEF Next, Insert, Work, vars, ring, ExtractRequest, ClientQuits, ClientDies, InsertWaits,
     CheckCount, OpenServerPipe, OpenRequestPipe, OpenFails, OpenResponsePipe, EndSession, Sigpipe,
     WorkerWakes, HostWakes

-----------------------------------------------------------------------------
(* HandedInOrder *)

\* An insertion writes a slot that holds no request still to be retrieved
\* (main.c:136-138).
LEMMA InsertKeepsOrder ==
  ASSUME TypeOK, count <= N, HandedInOrder, InsertRequest
  PROVE  HandedInOrder'
<1> SUFFICES ASSUME ~overdrawn'
             PROVE  /\ Len(taken') <= Len(accepted')
                    /\ \A k \in 1..Len(taken') : taken'[k] = accepted'[k]
                    /\ \A k \in (Len(taken') + 1)..Len(accepted') :
                         buffer'[(k - 1) % N] = [client |-> accepted'[k], session_id |-> k - 1]
  BY DEF HandedInOrder
<1> DEFINE a == Len(accepted)
           t == Len(taken)
<1>1. a \in Nat /\ t \in Nat /\ N \in Nat \ {0} /\ a - t < N
  <2>1. a \in Nat /\ t \in Nat /\ N \in Nat \ {0} /\ count = a - t
    BY RingFacts
  <2>2. count # N
    BY DEF InsertRequest, InsertInto
  <2> QED
    BY <2>1, <2>2
<1>2. /\ t <= a
      /\ \A k \in 1..t : taken[k] = accepted[k]
      /\ \A k \in (t + 1)..a : buffer[(k - 1) % N] = [client |-> accepted[k], session_id |-> k - 1]
  BY DEF HandedInOrder, InsertRequest, InsertInto
<1>3. host.client \in Clients
  BY HostIsRecord DEF InsertRequest, InsertInto
<1>4. /\ Len(accepted') = a + 1
      /\ \A k \in 1..a : accepted'[k] = accepted[k]
      /\ accepted'[a + 1] = host.client
  BY <1>3, RingFacts DEF InsertRequest, InsertInto
<1>5. taken' = taken
  BY DEF InsertRequest, InsertInto
<1>6. buffer' = [buffer EXCEPT ![a % N] = [client |-> host.client, session_id |-> a]]
  BY RingFacts DEF InsertRequest, InsertInto
<1>7. DOMAIN buffer = 0..(N - 1)
  BY DEF TypeOK
<1>8. ASSUME NEW k \in (t + 1)..(a + 1)
      PROVE  buffer'[(k - 1) % N] = [client |-> accepted'[k], session_id |-> k - 1]
  <2>1. k - 1 \in Nat /\ (k - 1) % N \in 0..(N - 1) /\ a % N \in 0..(N - 1)
    <3>1. k - 1 \in Nat
      BY <1>1
    <3> QED
      BY <1>1, <3>1, ModRange
  <2>2. CASE k = a + 1
    <3>1. k - 1 = a
      BY <1>1, <2>2
    <3> QED
      BY <1>4, <1>6, <1>7, <2>1, <2>2, <3>1
  <2>3. CASE k # a + 1
    <3>1. k \in (t + 1)..a /\ k \in 1..a /\ k - 1 < a /\ a - (k - 1) < N
      BY <1>1, <2>3
    <3>2. (k - 1) % N # a % N
      BY <1>1, <2>1, <3>1, ModDiffer
    <3>3. buffer'[(k - 1) % N] = buffer[(k - 1) % N]
      BY <1>6, <1>7, <2>1, <3>2
    <3> QED
      BY <1>2, <1>4, <3>1, <3>3
  <2> QED
    BY <2>2, <2>3
<1>9. t <= a + 1 /\ \A k \in 1..t : taken'[k] = accepted'[k]
  BY <1>1, <1>2, <1>4, <1>5
<1> QED
  BY <1>4, <1>5, <1>8, <1>9

\* A retrieval that does not overdraw takes the oldest request (main.c:165-167).
LEMMA RetrieveKeepsOrder ==
  ASSUME TypeOK, HandedInOrder, NEW w \in Workers, RetrieveRequest(w)
  PROVE  HandedInOrder'
<1> SUFFICES ASSUME ~overdrawn'
             PROVE  /\ Len(taken') <= Len(accepted')
                    /\ \A k \in 1..Len(taken') : taken'[k] = accepted'[k]
                    /\ \A k \in (Len(taken') + 1)..Len(accepted') :
                         buffer'[(k - 1) % N] = [client |-> accepted'[k], session_id |-> k - 1]
  BY DEF HandedInOrder
<1> DEFINE a == Len(accepted)
           t == Len(taken)
<1>1. a \in Nat /\ t \in Nat /\ N \in Nat \ {0} /\ t < a
  <2>1. a \in Nat /\ t \in Nat /\ N \in Nat \ {0} /\ count = a - t
    BY RingFacts
  <2>2. ~(count <= 0)
    BY DEF RetrieveRequest
  <2> QED
    BY <2>1, <2>2
<1>2. /\ \A k \in 1..t : taken[k] = accepted[k]
      /\ \A k \in (t + 1)..a : buffer[(k - 1) % N] = [client |-> accepted[k], session_id |-> k - 1]
  BY DEF HandedInOrder, RetrieveRequest
<1>3. buffer[t % N].client = accepted[t + 1]
  <2>1. t + 1 \in (t + 1)..a /\ (t + 1) - 1 = t
    BY <1>1
  <2>2. buffer[((t + 1) - 1) % N] = [client |-> accepted[t + 1], session_id |-> (t + 1) - 1]
    BY <1>2, <2>1
  <2>3. buffer[((t + 1) - 1) % N].client = accepted[t + 1]
    BY <2>2
  <2>4. ((t + 1) - 1) % N = t % N
    BY <2>1
  <2> QED
    BY <2>3, <2>4
<1>4. buffer' = buffer /\ accepted' = accepted
  BY DEF RetrieveRequest
<1>5. buffer[out].client \in Clients \cup {NoClient}
  BY DEF TypeOK, Slot
<1>6. /\ Len(taken') = t + 1
      /\ \A k \in 1..t : taken'[k] = taken[k]
      /\ taken'[t + 1] = buffer[t % N].client
  BY <1>5, RingFacts DEF RetrieveRequest
<1>7. ASSUME NEW k \in 1..(t + 1) PROVE taken'[k] = accepted'[k]
  <2>1. CASE k = t + 1
    BY <1>3, <1>4, <1>6, <2>1
  <2>2. CASE k # t + 1
    <3>1. k \in 1..t
      BY <1>1, <2>2
    <3> QED
      BY <1>2, <1>4, <1>6, <3>1
  <2> QED
    BY <2>1, <2>2
<1>8. (t + 1) <= a /\ \A k \in (t + 1 + 1)..a : k \in (t + 1)..a
  BY <1>1
<1> QED
  BY <1>2, <1>4, <1>6, <1>7, <1>8

\* Every step keeps the order.
LEMMA OrderStep ==
  ASSUME TypeOK, count <= N, HandedInOrder, [Next]_vars
  PROVE  HandedInOrder'
<1>1. ASSUME UNCHANGED <<buffer, accepted, taken, overdrawn>> PROVE HandedInOrder'
  BY <1>1 DEF HandedInOrder
<1>2. ASSUME UNCHANGED <<ring, history>> PROVE HandedInOrder'
  BY <1>1, <1>2 DEF ring, history
<1> QED
  BY <1>2, InsertKeepsOrder, RetrieveKeepsOrder
     DEF Next, Insert, Work, vars, ExtractRequest, ClientQuits, ClientDies, InsertWaits,
     CheckCount, OpenServerPipe, OpenRequestPipe, OpenFails, OpenResponsePipe, EndSession, Sigpipe,
     WorkerWakes, HostWakes

-----------------------------------------------------------------------------
(* NoLostWakeup *)

\* A worker that comes back to the buffer is one more on its way to it.
LEMMA OneMoreAwake ==
  ASSUME TypeOK, NEW w \in Workers, w \notin Awake,
         NEW l \in {"check", "retrieve"}, pc' = [pc EXCEPT ![w] = l]
  PROVE  /\ Asleep' \subseteq Asleep
         /\ Cardinality(Awake') = Cardinality(Awake) + 1
         /\ Cardinality(Awake) \in Nat
<1>1. IsFiniteSet(Awake)
  BY QueueAssumption, FS_Subset DEF Awake
<1>2. Awake' = Awake \cup {w}
  BY DEF TypeOK, Awake
<1>3. Asleep' \subseteq Asleep
  BY DEF TypeOK, Asleep
<1> QED
  BY <1>1, <1>2, <1>3, FS_AddElement, FS_CardinalityType

\* A worker that leaves the buffer, to sleep or to serve, is one less.
LEMMA OneLessAwake ==
  ASSUME TypeOK, NEW w \in Workers, w \in Awake,
         NEW l \in Labels \ {"check", "retrieve"}, pc' = [pc EXCEPT ![w] = l]
  PROVE  /\ Cardinality(Awake') = Cardinality(Awake) - 1
         /\ Cardinality(Awake) \in Nat \ {0}
<1>1. IsFiniteSet(Awake)
  BY QueueAssumption, FS_Subset DEF Awake
<1>2. Awake' = Awake \ {w}
  BY DEF TypeOK, Awake
<1>3. Awake # {}
  OBVIOUS
<1> QED
  BY <1>1, <1>2, <1>3, FS_RemoveElement, FS_EmptySet, FS_CardinalityType

\* An insertion into a buffer with sleepers wakes one of them (main.c:144).
LEMMA InsertKeepsWakeups ==
  ASSUME TypeOK, NoLostWakeup, InsertRequest
  PROVE  NoLostWakeup'
<1>1. count' = count + 1 /\ SignalNotEmpty
  BY DEF InsertRequest, InsertInto
<1>2. CASE Asleep = {}
  <2>1. Asleep' = {}
    BY <1>1, <1>2 DEF SignalNotEmpty, Asleep
  <2> QED
    BY <2>1 DEF NoLostWakeup
<1>3. CASE Asleep # {}
  <2>1. PICK w \in Asleep : pc' = [pc EXCEPT ![w] = "check"]
    BY <1>1, <1>3 DEF SignalNotEmpty
  <2>2. w \in Workers /\ w \notin Awake
    BY DEF Asleep, Awake
  <2>3. Cardinality(Awake') = Cardinality(Awake) + 1 /\ Cardinality(Awake) \in Nat
    BY <2>1, <2>2, OneMoreAwake
  <2>4. Cardinality(Awake) >= count
    BY <1>3 DEF NoLostWakeup
  <2>5. count \in Int
    BY RingFacts
  <2> QED
    BY <1>1, <2>3, <2>4, <2>5 DEF NoLostWakeup
<1> QED
  BY <1>2, <1>3

\* A retrieval takes one worker and one request off the count (main.c:439-442).
LEMMA RetrieveKeepsWakeups ==
  ASSUME TypeOK, NoLostWakeup, NEW w \in Workers, RetrieveRequest(w)
  PROVE  NoLostWakeup'
<1> SUFFICES ASSUME Asleep' # {} PROVE Cardinality(Awake') >= count'
  BY DEF NoLostWakeup
<1>1. count' = count - 1 /\ pc[w] = "retrieve" /\ pc' = [pc EXCEPT ![w] = "open_server"]
  BY DEF RetrieveRequest
<1>2. w \in Awake
  BY <1>1 DEF Awake
<1>3. Cardinality(Awake') = Cardinality(Awake) - 1 /\ Cardinality(Awake) \in Nat
  BY <1>1, <1>2, OneLessAwake DEF Labels
<1>4. Asleep # {}
  BY <1>1 DEF TypeOK, Asleep
<1>5. Cardinality(Awake) >= count /\ count \in Int
  BY <1>4, RingFacts DEF NoLostWakeup
<1> QED
  BY <1>1, <1>3, <1>5

\* A worker goes to sleep only when the buffer is empty (main.c:436).
LEMMA CheckKeepsWakeups ==
  ASSUME TypeOK, NoLostWakeup, NEW w \in Workers, CheckCount(w)
  PROVE  NoLostWakeup'
<1>1. count' = count /\ pc[w] = "check" /\ count \in Int
  BY RingFacts DEF CheckCount, ring
<1>2. CASE count = 0
  <2>1. pc' = [pc EXCEPT ![w] = "asleep"]
    BY <1>2 DEF CheckCount
  <2>2. w \in Awake
    BY <1>1 DEF Awake
  <2>3. Cardinality(Awake') = Cardinality(Awake) - 1 /\ Cardinality(Awake) \in Nat \ {0}
    BY <2>1, <2>2, OneLessAwake DEF Labels
  <2> QED
    BY <1>1, <1>2, <2>3 DEF NoLostWakeup
<1>3. CASE count # 0
  <2>1. pc' = [pc EXCEPT ![w] = "retrieve"]
    BY <1>3 DEF CheckCount
  <2>2. Asleep' = Asleep /\ Awake' = Awake
    BY <1>1, <2>1 DEF TypeOK, Asleep, Awake
  <2> QED
    BY <1>1, <2>2 DEF NoLostWakeup
<1> QED
  BY <1>2, <1>3

\* A step after which a worker is back at the buffer.
LEMMA ReturnKeepsWakeups ==
  ASSUME TypeOK, NoLostWakeup, NEW w \in Workers, w \notin Awake,
         pc' = [pc EXCEPT ![w] = "check"], UNCHANGED count
  PROVE  NoLostWakeup'
<1>1. /\ Asleep' \subseteq Asleep
      /\ Cardinality(Awake') = Cardinality(Awake) + 1
      /\ Cardinality(Awake) \in Nat
  BY OneMoreAwake
<1>2. count \in Int
  BY RingFacts
<1> QED
  BY <1>1, <1>2 DEF NoLostWakeup

\* A step that changes neither who sleeps nor who is on the way to the buffer.
LEMMA SameKeepsWakeups ==
  ASSUME NoLostWakeup, UNCHANGED count, Asleep' = Asleep, Awake' = Awake
  PROVE  NoLostWakeup'
  BY DEF NoLostWakeup

\* Every step keeps the count of those on their way.
LEMMA WakeStep ==
  ASSUME TypeOK, NoLostWakeup, [Next]_vars
  PROVE  NoLostWakeup'
<1>1. ASSUME UNCHANGED <<pc, ring>> PROVE NoLostWakeup'
  BY <1>1, SameKeepsWakeups DEF ring, Asleep, Awake
<1>2. ASSUME NEW w \in Workers, OpenRequestPipe(w) PROVE NoLostWakeup'
  <2>1. Asleep' = Asleep /\ Awake' = Awake
    BY <1>2 DEF TypeOK, OpenRequestPipe, Asleep, Awake
  <2> QED
    BY <1>2, <2>1, SameKeepsWakeups DEF OpenRequestPipe, ring
<1>7. ASSUME NEW w \in Workers, OpenServerPipe(w) PROVE NoLostWakeup'
  <2>1. Asleep' = Asleep /\ Awake' = Awake
    BY <1>7 DEF TypeOK, OpenServerPipe, Asleep, Awake
  <2> QED
    BY <1>7, <2>1, SameKeepsWakeups DEF OpenServerPipe, ring
<1>3. ASSUME NEW w \in Workers, OpenFails(w) PROVE NoLostWakeup'
  <2>1. Asleep' = Asleep /\ Awake' = Awake
    BY <1>3 DEF TypeOK, OpenFails, CannotOpen, Opening, Asleep, Awake
  <2> QED
    BY <1>3, <2>1, SameKeepsWakeups DEF OpenFails, ring
<1>4. ASSUME NEW w \in Workers, OpenResponsePipe(w) PROVE NoLostWakeup'
  <2>1. Asleep' = Asleep /\ Awake' = Awake
    BY <1>4 DEF TypeOK, OpenResponsePipe, Asleep, Awake
  <2> QED
    BY <1>4, <2>1, SameKeepsWakeups DEF OpenResponsePipe, ring
<1>5. ASSUME NEW w \in Workers, EndSession(w) PROVE NoLostWakeup'
  <2>1. w \notin Awake
    BY <1>5 DEF EndSession, Awake
  <2> QED
    BY <1>5, <2>1, ReturnKeepsWakeups DEF EndSession, ring
<1>6. ASSUME NEW w \in Workers, WorkerWakes(w) PROVE NoLostWakeup'
  <2>1. w \notin Awake
    BY <1>6 DEF WorkerWakes, Awake
  <2> QED
    BY <1>6, <2>1, ReturnKeepsWakeups DEF WorkerWakes, ring
<1> QED
  BY <1>1, <1>2, <1>3, <1>4, <1>5, <1>6, <1>7, InsertKeepsWakeups, RetrieveKeepsWakeups, CheckKeepsWakeups
     DEF Next, Insert, Work, vars, ExtractRequest, ClientQuits, ClientDies, InsertWaits,
     HostWakes, Sigpipe

-----------------------------------------------------------------------------
(* SessionsApart *)

\* A retrieval that does not overdraw gives the worker an id nobody had before.
LEMMA RetrieveKeepsApart ==
  ASSUME TypeOK, HandedInOrder, SessionsApart, NEW w \in Workers, RetrieveRequest(w)
  PROVE  SessionsApart'
<1> SUFFICES ASSUME ~overdrawn', NEW v \in Workers, Busy(v)'
             PROVE  /\ current'[v].session_id < Len(taken')
                    /\ \A u \in Workers :
                         Busy(u)' /\ current'[u].session_id = current'[v].session_id => u = v
  BY DEF SessionsApart
<1>1. ~overdrawn /\ count > 0
  <2>1. ~overdrawn /\ ~(count <= 0)
    BY DEF RetrieveRequest
  <2> QED
    BY <2>1, RingFacts
<1>2. Len(taken) \in Nat /\ Len(taken') = Len(taken) + 1
  <2>1. buffer[out].client \in Clients \cup {NoClient}
    BY DEF TypeOK, Slot
  <2> QED
    BY <2>1, RingFacts DEF RetrieveRequest
<1>3. buffer[out].session_id = Len(taken)
  <2>1. Len(taken) + 1 \in (Len(taken) + 1)..Len(accepted) /\ (Len(taken) + 1) - 1 = Len(taken)
    BY <1>1, RingFacts
  <2>2. buffer[((Len(taken) + 1) - 1) % N]
          = [client |-> accepted[Len(taken) + 1], session_id |-> (Len(taken) + 1) - 1]
    BY <1>1, <2>1 DEF HandedInOrder
  <2>3. buffer[((Len(taken) + 1) - 1) % N].session_id = (Len(taken) + 1) - 1
    BY <2>2
  <2>4. ((Len(taken) + 1) - 1) % N = Len(taken) % N /\ out = Len(taken) % N
    BY <2>1, RingFacts
  <2> QED
    BY <2>1, <2>3, <2>4
<1>4. current' = [current EXCEPT ![w] = buffer[out]] /\ pc' = [pc EXCEPT ![w] = "open_server"]
  BY DEF RetrieveRequest
<1>5. current'[w].session_id = Len(taken)
  BY <1>3, <1>4 DEF TypeOK
<1>6. ASSUME NEW u \in Workers, Busy(u)', u # w
      PROVE  Busy(u) /\ current'[u] = current[u] /\ current[u].session_id < Len(taken)
  <2>1. Busy(u) /\ current'[u] = current[u]
    BY <1>4, <1>6 DEF TypeOK, Busy, Opening
  <2> QED
    BY <1>1, <2>1 DEF SessionsApart
<1>7. \A u \in Workers : current[u].session_id \in Nat
  BY DEF TypeOK, Slot
<1>8. current'[v].session_id < Len(taken')
  <2>1. CASE v = w
    BY <1>2, <1>5, <2>1
  <2>2. CASE v # w
    BY <1>2, <1>6, <1>7, <2>2
  <2> QED
    BY <2>1, <2>2
<1>9. ASSUME NEW u \in Workers, Busy(u)', current'[u].session_id = current'[v].session_id
      PROVE  u = v
  <2>1. CASE u = w /\ v # w
    <3>1. current'[v].session_id < Len(taken)
      BY <1>6, <2>1
    <3> QED
      BY <1>2, <1>5, <1>9, <2>1, <3>1
  <2>2. CASE u # w /\ v = w
    <3>1. current'[u].session_id < Len(taken)
      BY <1>6, <1>9, <2>2
    <3> QED
      BY <1>2, <1>5, <1>9, <2>2, <3>1
  <2>3. CASE u # w /\ v # w
    <3>1. Busy(u) /\ Busy(v) /\ current[u].session_id = current[v].session_id
      BY <1>6, <1>9, <2>3
    <3> QED
      BY <1>1, <3>1 DEF SessionsApart
  <2> QED
    BY <2>1, <2>2, <2>3
<1> QED
  BY <1>8, <1>9

\* No other step makes a worker busy or changes what it has in hand.
LEMMA SameKeepsApart ==
  ASSUME SessionsApart, UNCHANGED <<current, taken, overdrawn>>,
         \A w \in Workers : Busy(w)' => Busy(w)
  PROVE  SessionsApart'
  BY DEF SessionsApart

\* Every step keeps the sessions apart.
LEMMA ApartStep ==
  ASSUME TypeOK, HandedInOrder, SessionsApart, [Next]_vars
  PROVE  SessionsApart'
<1>1. ASSUME UNCHANGED <<pc, current, history>> PROVE SessionsApart'
  BY <1>1, SameKeepsApart DEF history, Busy, Opening
<1>2. ASSUME InsertRequest PROVE SessionsApart'
  <2>1. \A w \in Workers : Busy(w)' => Busy(w)
    BY <1>2 DEF TypeOK, InsertRequest, InsertInto, SignalNotEmpty, Asleep, Busy, Opening
  <2> QED
    BY <1>2, <2>1, SameKeepsApart DEF InsertRequest, InsertInto
<1>3. ASSUME NEW w \in Workers,
             \/ CheckCount(w) \/ OpenServerPipe(w) \/ OpenRequestPipe(w) \/ OpenFails(w)
             \/ OpenResponsePipe(w) \/ EndSession(w) \/ Sigpipe(w) \/ WorkerWakes(w)
      PROVE  SessionsApart'
  <2>1. \A v \in Workers : Busy(v)' => Busy(v)
    BY <1>3 DEF TypeOK, CheckCount, OpenServerPipe, OpenRequestPipe, OpenFails, CannotOpen,
       OpenResponsePipe, EndSession, Sigpipe, WorkerWakes, Busy, Opening
  <2>2. UNCHANGED <<current, taken, overdrawn>>
    BY <1>3 DEF CheckCount, OpenServerPipe, OpenRequestPipe, OpenFails, OpenResponsePipe,
       EndSession, Sigpipe, WorkerWakes, history
  <2> QED
    BY <2>1, <2>2, SameKeepsApart
<1> QED
  BY <1>1, <1>2, <1>3, RetrieveKeepsApart
     DEF Next, Insert, Work, vars, ExtractRequest, ClientQuits, ClientDies, InsertWaits,
     HostWakes, Sigpipe

-----------------------------------------------------------------------------
(* InsertedOnce *)

\* The inserted clients and the one to be inserted are clients.
LEMMA ClientTypes ==
  ASSUME TypeOK
  PROVE  /\ \A k \in 1..Len(accepted) : accepted[k] \in Clients
         /\ host # NoHost => host.client \in Clients /\ host.at \in {"check", "asleep"}
         /\ client \in [Clients -> {"new", "connecting", "session", "gone", "dead"}]
<1>1. \A k \in 1..Len(accepted) : accepted[k] \in Clients
  BY RingFacts
<1> QED
  BY <1>1 DEF TypeOK

\* A new client has not been inserted.
LEMMA ExtractKeepsOnce ==
  ASSUME TypeOK, InsertedOnce, NEW c \in Clients, ExtractRequest(c)
  PROVE  InsertedOnce'
<1>1. /\ client[c] = "new"
      /\ client' = [client EXCEPT ![c] = "connecting"]
      /\ host'.client = c
      /\ accepted' = accepted
  BY DEF ExtractRequest, history
<1>2. client'[c] # "new"
  BY <1>1, ClientTypes
<1>3. \A k \in 1..Len(accepted) : accepted[k] # c /\ client'[accepted[k]] # "new"
  BY <1>1, <1>2, ClientTypes DEF InsertedOnce
<1> QED
  BY <1>1, <1>2, <1>3 DEF InsertedOnce

\* The client in the host's hand joins those inserted (main.c:120-152).
LEMMA InsertKeepsOnce ==
  ASSUME TypeOK, InsertedOnce, InsertRequest
  PROVE  InsertedOnce'
<1>1. host # NoHost /\ host.client \in Clients
  BY HostIsRecord DEF InsertRequest, InsertInto, NoHost
<1>2. host' = NoHost /\ client' = client /\ accepted' = Append(accepted, host.client)
  BY DEF InsertRequest, InsertInto
<1>3. /\ Len(accepted) \in Nat
      /\ Len(accepted') = Len(accepted) + 1
      /\ \A k \in 1..Len(accepted) : accepted'[k] = accepted[k]
      /\ accepted'[Len(accepted) + 1] = host.client
  BY <1>1, <1>2, RingFacts
<1>4. \A k \in 1..Len(accepted') : k \in 1..Len(accepted) \/ k = Len(accepted) + 1
  BY <1>3
<1>5. client[host.client] # "new" /\ \A k \in 1..Len(accepted) : accepted[k] # host.client
  BY <1>1 DEF InsertedOnce
<1>6. \A k \in 1..Len(accepted') : client'[accepted'[k]] # "new"
  BY <1>2, <1>3, <1>4, <1>5 DEF InsertedOnce
<1>7. \A j, k \in 1..Len(accepted') : accepted'[j] = accepted'[k] => j = k
  BY <1>3, <1>4, <1>5 DEF InsertedOnce
<1> QED
  BY <1>2, <1>6, <1>7 DEF InsertedOnce

\* Every step keeps the insertions apart.
LEMMA OnceStep ==
  ASSUME TypeOK, InsertedOnce, [Next]_vars
  PROVE  InsertedOnce'
<1>1. ASSUME UNCHANGED <<accepted, client, host>> PROVE InsertedOnce'
  BY <1>1 DEF InsertedOnce
<1>2. ASSUME UNCHANGED <<accepted, host>>, NEW c, NEW s \in {"session", "gone", "dead"},
             client' = [client EXCEPT ![c] = s]
      PROVE  InsertedOnce'
  <2>1. \A x \in Clients : client[x] # "new" => client'[x] # "new"
    BY <1>2, ClientTypes
  <2> QED
    BY <1>2, <2>1, ClientTypes DEF InsertedOnce
<1>3. ASSUME UNCHANGED <<accepted, client>>, host # NoHost, host'.client = host.client
      PROVE  InsertedOnce'
  BY <1>3 DEF InsertedOnce
<1>4. ASSUME InsertWaits \/ HostWakes PROVE InsertedOnce'
  <2>1. host \in [at : {"check", "asleep"}, client : Clients] /\ host # NoHost
    BY <1>4, HostIsRecord DEF InsertWaits, HostWakes, NoHost
  <2>2. host'.client = host.client
    BY <1>4, <2>1 DEF InsertWaits, HostWakes
  <2> QED
    BY <1>3, <1>4, <2>1, <2>2 DEF InsertWaits, HostWakes, history
<1>5. ASSUME NEW c \in Clients, ClientQuits(c) \/ ClientDies(c) PROVE InsertedOnce'
  BY <1>2, <1>5 DEF ClientQuits, ClientDies, history
<1>6. ASSUME NEW w \in Workers, OpenResponsePipe(w) PROVE InsertedOnce'
  BY <1>2, <1>6 DEF OpenResponsePipe, history
<1>7. ASSUME NEW w \in Workers,
             \/ CheckCount(w) \/ RetrieveRequest(w) \/ OpenServerPipe(w) \/ OpenRequestPipe(w)
             \/ OpenFails(w) \/ EndSession(w) \/ Sigpipe(w) \/ WorkerWakes(w)
      PROVE  InsertedOnce'
  BY <1>1, <1>7 DEF CheckCount, RetrieveRequest, OpenServerPipe, OpenRequestPipe, OpenFails,
     EndSession, Sigpipe, WorkerWakes, history
<1>8. ASSUME UNCHANGED vars PROVE InsertedOnce'
  BY <1>1, <1>8 DEF vars, history
<1> QED
  BY <1>4, <1>5, <1>6, <1>7, <1>8, ExtractKeepsOnce, InsertKeepsOnce DEF Next, Insert, Work

-----------------------------------------------------------------------------
(* PipesKept *)

\* A client waits for its session after the step.
WaitsNext(c) == client'[c] \in {"connecting", "dead"}

\* A step that takes or inserts no request, starts no open, and after which
\* whoever waited still waits.
LEMMA SameKeepsPipes ==
  ASSUME TypeOK, PipesKept, UNCHANGED <<accepted, current, taken, overdrawn>>,
         \A w \in Workers : Busy(w)' => Busy(w),
         \A w \in Workers : Opening(w)' => Opening(w) /\ WaitsNext(current[w].client),
         \A k \in 1..Len(accepted) :
           k > Len(taken) /\ Waiting(accepted[k]) => WaitsNext(accepted[k]),
         ~overdrawn /\ host' # NoHost => WaitsNext(host'.client)
  PROVE  PipesKept'
<1>1. \A k \in (Len(taken) + 1)..Len(accepted) : k \in 1..Len(accepted) /\ k > Len(taken)
  BY RingFacts
<1> QED
  BY <1>1 DEF PipesKept, Waiting, WaitsNext

\* What a client's step leaves: a client that waits goes on waiting unless its
\* session begins.
LEMMA WaitingKeeps ==
  ASSUME TypeOK, PipesKept, UNCHANGED <<pc, accepted, current, taken, overdrawn>>,
         \A c \in Clients : Waiting(c) => WaitsNext(c),
         \A w \in Workers : Opening(w) /\ ~overdrawn => current[w].client \in Clients,
         ~overdrawn /\ host' # NoHost => WaitsNext(host'.client)
  PROVE  PipesKept'
<1>1. \A k \in (Len(taken) + 1)..Len(accepted) : accepted[k] \in Clients
  BY RingFacts
<1> QED
  BY <1>1 DEF PipesKept, Waiting, WaitsNext, Busy, Opening

\* The request in the hand of a busy worker is one of those inserted.
LEMMA InHand ==
  ASSUME TypeOK, HandedInOrder, SessionsApart, PipesKept, ~overdrawn,
         NEW w \in Workers, Busy(w)
  PROVE  /\ current[w].session_id \in Nat
         /\ current[w].session_id + 1 \in 1..Len(taken)
         /\ current[w].session_id + 1 \in 1..Len(accepted)
         /\ current[w].client = accepted[current[w].session_id + 1]
         /\ current[w].client \in Clients
<1>1. current[w].session_id \in Nat
  BY DEF TypeOK, Slot
<1>2. current[w].session_id < Len(taken)
  BY DEF SessionsApart
<1>3. Len(taken) <= Len(accepted) /\ Len(taken) \in Nat /\ Len(accepted) \in Nat
  BY RingFacts DEF HandedInOrder
<1>4. current[w].session_id + 1 \in 1..Len(accepted) /\ current[w].session_id + 1 \in 1..Len(taken)
  BY <1>1, <1>2, <1>3
<1>5. current[w].client = accepted[current[w].session_id + 1]
  BY DEF PipesKept
<1> QED
  BY <1>1, <1>4, <1>5, ClientTypes

\* The client inserted was waiting (main.c:120-152).
LEMMA InsertKeepsPipes ==
  ASSUME TypeOK, HandedInOrder, SessionsApart, PipesKept, InsertRequest
  PROVE  PipesKept'
<1> SUFFICES ASSUME ~overdrawn' PROVE PipesKept'
  BY DEF PipesKept
<1>1. /\ host # NoHost /\ host.client \in Clients
      /\ host' = NoHost /\ accepted' = Append(accepted, host.client)
      /\ UNCHANGED <<client, current, taken, overdrawn>>
      /\ SignalNotEmpty
  BY HostIsRecord DEF InsertRequest, InsertInto, NoHost
<1>2. /\ Len(accepted) \in Nat /\ Len(taken) \in Nat
      /\ Len(accepted') = Len(accepted) + 1
      /\ \A k \in 1..Len(accepted) : accepted'[k] = accepted[k]
      /\ accepted'[Len(accepted) + 1] = host.client
  BY <1>1, RingFacts
<1>3. \A w \in Workers : (Busy(w)' => Busy(w)) /\ (Opening(w)' => Opening(w))
  BY <1>1 DEF TypeOK, SignalNotEmpty, Asleep, Busy, Opening
<1>4. ASSUME NEW k \in (Len(taken') + 1)..Len(accepted') PROVE WaitsNext(accepted'[k])
  <2>1. k = Len(accepted) + 1 \/ k \in (Len(taken) + 1)..Len(accepted)
    BY <1>1, <1>2
  <2>2. CASE k = Len(accepted) + 1
    BY <1>1, <1>2, <2>2 DEF PipesKept, Waiting, WaitsNext
  <2>3. CASE k \in (Len(taken) + 1)..Len(accepted)
    <3>1. k \in 1..Len(accepted)
      BY <1>2, <2>3
    <3> QED
      BY <1>1, <1>2, <2>3, <3>1 DEF PipesKept, Waiting, WaitsNext
  <2> QED
    BY <2>1, <2>2, <2>3
<1>5. ASSUME NEW w \in Workers, Busy(w)'
      PROVE  current'[w].client = accepted'[current'[w].session_id + 1]
  <2>1. /\ current[w].session_id + 1 \in 1..Len(accepted)
        /\ current[w].client = accepted[current[w].session_id + 1]
    BY <1>1, <1>3, <1>5, InHand
  <2> QED
    BY <1>1, <1>2, <2>1
<1>6. \A w \in Workers : Opening(w)' => WaitsNext(current[w].client)
  BY <1>1, <1>3 DEF PipesKept, Waiting, WaitsNext
<1> QED
  BY <1>1, <1>4, <1>5, <1>6 DEF PipesKept, Waiting, WaitsNext

\* The request retrieved is one whose client waits (main.c:159-172).
LEMMA RetrieveKeepsPipes ==
  ASSUME TypeOK, HandedInOrder, SessionsApart, PipesKept, NEW w \in Workers, RetrieveRequest(w)
  PROVE  PipesKept'
<1> SUFFICES ASSUME ~overdrawn' PROVE PipesKept'
  BY DEF PipesKept
<1>1. /\ ~overdrawn /\ count > 0
      /\ current' = [current EXCEPT ![w] = buffer[out]]
      /\ pc' = [pc EXCEPT ![w] = "open_server"]
      /\ UNCHANGED <<host, client, accepted>>
  <2>1. ~overdrawn /\ ~(count <= 0)
    BY DEF RetrieveRequest
  <2> QED
    BY <2>1, RingFacts DEF RetrieveRequest
<1>2. Len(taken) \in Nat /\ Len(accepted) \in Nat /\ Len(taken') = Len(taken) + 1
  <2>1. buffer[out].client \in Clients \cup {NoClient}
    BY DEF TypeOK, Slot
  <2> QED
    BY <2>1, RingFacts DEF RetrieveRequest
<1>3. Len(taken) + 1 \in (Len(taken) + 1)..Len(accepted) /\ (Len(taken) + 1) - 1 = Len(taken)
  BY <1>1, RingFacts
<1>4. buffer[out] = [client |-> accepted[Len(taken) + 1], session_id |-> Len(taken)]
  <2>1. buffer[((Len(taken) + 1) - 1) % N]
          = [client |-> accepted[Len(taken) + 1], session_id |-> (Len(taken) + 1) - 1]
    BY <1>1, <1>3 DEF HandedInOrder
  <2>2. ((Len(taken) + 1) - 1) % N = out
    BY <1>3, RingFacts
  <2> QED
    BY <1>3, <2>1, <2>2
<1>5. current'[w] = [client |-> accepted[Len(taken) + 1], session_id |-> Len(taken)]
  BY <1>1, <1>4 DEF TypeOK
<1>6. current'[w].client = accepted[Len(taken) + 1] /\ current'[w].session_id = Len(taken)
  BY <1>5
<1>7. Waiting(accepted[Len(taken) + 1])
  BY <1>1, <1>3 DEF PipesKept
<1>8. ASSUME NEW v \in Workers, v # w
      PROVE  current'[v] = current[v] /\ (Busy(v)' => Busy(v)) /\ (Opening(v)' => Opening(v))
  BY <1>1, <1>8 DEF TypeOK, Busy, Opening
<1>9. ASSUME NEW v \in Workers, Busy(v)'
      PROVE  current'[v].client = accepted'[current'[v].session_id + 1]
  <2>1. CASE v = w
    BY <1>1, <1>6, <2>1
  <2>2. CASE v # w
    BY <1>1, <1>8, <1>9, <2>2 DEF PipesKept
  <2> QED
    BY <2>1, <2>2
<1>10. ASSUME NEW v \in Workers, Opening(v)' PROVE WaitsNext(current'[v].client)
  <2>1. CASE v = w
    BY <1>1, <1>6, <1>7, <2>1 DEF Waiting, WaitsNext
  <2>2. CASE v # w
    BY <1>1, <1>8, <1>10, <2>2 DEF PipesKept, Waiting, WaitsNext
  <2> QED
    BY <2>1, <2>2
<1>11. ASSUME NEW k \in (Len(taken') + 1)..Len(accepted') PROVE WaitsNext(accepted'[k])
  <2>1. k \in (Len(taken) + 1)..Len(accepted)
    BY <1>1, <1>2
  <2> QED
    BY <1>1, <2>1 DEF PipesKept, Waiting, WaitsNext
<1> QED
  BY <1>1, <1>9, <1>10, <1>11 DEF PipesKept, Waiting, WaitsNext

\* A session that begins is nobody else's (main.c:198-213).
LEMMA BeginKeepsPipes ==
  ASSUME TypeOK, HandedInOrder, SessionsApart, InsertedOnce, PipesKept,
         NEW w \in Workers, OpenResponsePipe(w)
  PROVE  PipesKept'
<1> SUFFICES ASSUME ~overdrawn' PROVE PipesKept'
  BY DEF PipesKept
<1> DEFINE c == current[w].client
           s == current[w].session_id
<1>1. /\ ~overdrawn /\ pc[w] = "open_response"
      /\ client' = [client EXCEPT ![c] = "session"]
      /\ pc' = [pc EXCEPT ![w] = "serving"]
      /\ UNCHANGED <<host, accepted, taken, current, overdrawn>>
  BY DEF OpenResponsePipe, history
<1>2. Busy(w)
  BY <1>1 DEF Busy, Opening
<1>3. s \in Nat /\ s + 1 \in 1..Len(taken) /\ s + 1 \in 1..Len(accepted) /\ c = accepted[s + 1]
  BY <1>1, <1>2, InHand
<1>4. \A x : x # c => client'[x] = client[x]
  BY <1>1, ClientTypes
<1>5. host # NoHost => host.client # c
  BY <1>3 DEF InsertedOnce
<1>6. ASSUME NEW k \in 1..Len(accepted), k > Len(taken) PROVE accepted[k] # c
  <2>1. k # s + 1
    BY <1>3, <1>6, RingFacts
  <2> QED
    BY <1>3, <2>1 DEF InsertedOnce
<1>7. ASSUME NEW v \in Workers, Opening(v)'
      PROVE  Opening(v) /\ current[v].client # c
  <2>1. v # w
    BY <1>1, <1>7 DEF TypeOK, Opening
  <2>2. Opening(v) /\ Busy(v)
    BY <1>1, <1>7, <2>1 DEF TypeOK, Opening, Busy
  <2>3. /\ current[v].session_id \in Nat
        /\ current[v].session_id + 1 \in 1..Len(accepted)
        /\ current[v].client = accepted[current[v].session_id + 1]
    BY <1>1, <2>2, InHand
  <2>4. current[v].session_id # s
    BY <1>1, <1>2, <2>1, <2>2 DEF SessionsApart
  <2>5. current[v].session_id + 1 # s + 1
    BY <1>3, <2>3, <2>4
  <2> QED
    BY <1>3, <2>2, <2>3, <2>5 DEF InsertedOnce
<1>8. \A v \in Workers : Busy(v)' => Busy(v)
  BY <1>1 DEF TypeOK, Busy, Opening
<1>9. \A v \in Workers : Opening(v)' => Opening(v) /\ WaitsNext(current[v].client)
  BY <1>1, <1>4, <1>7 DEF PipesKept, Waiting, WaitsNext
<1>10. \A k \in 1..Len(accepted) :
         k > Len(taken) /\ Waiting(accepted[k]) => WaitsNext(accepted[k])
  BY <1>4, <1>6 DEF Waiting, WaitsNext
<1>11. host' # NoHost => WaitsNext(host'.client)
  BY <1>1, <1>4, <1>5 DEF PipesKept, Waiting, WaitsNext
<1> QED
  BY <1>1, <1>8, <1>9, <1>10, <1>11, SameKeepsPipes

\* Every step keeps the pipes of the requests that are not served yet.
LEMMA PipesStep ==
  ASSUME TypeOK, HandedInOrder, SessionsApart, InsertedOnce, PipesKept, [Next]_vars
  PROVE  PipesKept'
<1>1. ~overdrawn => \A w \in Workers : Opening(w) => current[w].client \in Clients
  BY InHand DEF Busy
<1>2. ASSUME NEW c \in Clients, ExtractRequest(c) PROVE PipesKept'
  <2>1. /\ client' = [client EXCEPT ![c] = "connecting"]
        /\ host' = [at |-> "check", client |-> c]
        /\ UNCHANGED <<pc, accepted, current, taken, overdrawn>>
    BY <1>2 DEF ExtractRequest, history
  <2>2. WaitsNext(host'.client) /\ \A x \in Clients : Waiting(x) => WaitsNext(x)
    BY <2>1, ClientTypes DEF Waiting, WaitsNext
  <2> QED
    BY <1>1, <2>1, <2>2, WaitingKeeps
<1>3. ASSUME NEW c \in Clients, ClientQuits(c) \/ ClientDies(c) PROVE PipesKept'
  <2>1. UNCHANGED <<host, pc, accepted, current, taken, overdrawn>>
    BY <1>3 DEF ClientQuits, ClientDies, history
  <2>2. \A x \in Clients : Waiting(x) => WaitsNext(x)
    BY <1>3, ClientTypes DEF ClientQuits, ClientDies, Waiting, WaitsNext
  <2>3. ~overdrawn /\ host' # NoHost => WaitsNext(host'.client)
    BY <2>1, <2>2, ClientTypes DEF PipesKept
  <2> QED
    BY <1>1, <2>1, <2>2, <2>3, WaitingKeeps
<1>4. ASSUME InsertWaits \/ HostWakes PROVE PipesKept'
  <2>1. host \in [at : {"check", "asleep"}, client : Clients] /\ host # NoHost
    BY <1>4, HostIsRecord DEF InsertWaits, HostWakes, NoHost
  <2>2. host'.client = host.client
    BY <1>4, <2>1 DEF InsertWaits, HostWakes
  <2>3. UNCHANGED <<client, pc, accepted, current, taken, overdrawn>>
    BY <1>4 DEF InsertWaits, HostWakes, history
  <2>4. (~overdrawn => WaitsNext(host'.client)) /\ \A x \in Clients : Waiting(x) => WaitsNext(x)
    BY <2>1, <2>2, <2>3 DEF PipesKept, Waiting, WaitsNext
  <2> QED
    BY <1>1, <2>3, <2>4, WaitingKeeps
<1>5. ASSUME NEW w \in Workers,
             \/ CheckCount(w) \/ OpenServerPipe(w) \/ OpenRequestPipe(w) \/ OpenFails(w)
             \/ EndSession(w) \/ Sigpipe(w) \/ WorkerWakes(w)
      PROVE  PipesKept'
  <2>1. \A v \in Workers : (Busy(v)' => Busy(v)) /\ (Opening(v)' => Opening(v))
    BY <1>5 DEF TypeOK, CheckCount, OpenServerPipe, OpenRequestPipe, OpenFails, CannotOpen,
       EndSession, Sigpipe, WorkerWakes, Busy, Opening
  <2>2. UNCHANGED <<host, client, accepted, current, taken, overdrawn>>
    BY <1>5 DEF CheckCount, OpenServerPipe, OpenRequestPipe, OpenFails,
       EndSession, Sigpipe, WorkerWakes, history
  <2> QED
    BY <2>1, <2>2 DEF PipesKept, Waiting, WaitsNext
<1>6. ASSUME UNCHANGED vars PROVE PipesKept'
  BY <1>6 DEF vars, history, PipesKept, Waiting, WaitsNext, Busy, Opening
<1> QED
  BY <1>2, <1>3, <1>4, <1>5, <1>6, InsertKeepsPipes, RetrieveKeepsPipes, BeginKeepsPipes
     DEF Next, Insert, Work

-----------------------------------------------------------------------------
(* DescriptorsCounted *)

\* The number of workers at a label when one worker moves.
LEMMA AtCounts ==
  ASSUME TypeOK, NEW w \in Workers, NEW m \in Labels, pc' = [pc EXCEPT ![w] = m],
         NEW l \in Labels
  PROVE  /\ Cardinality(At(l)) \in Nat
         /\ pc[w] = l /\ m # l => Cardinality(At(l)') = Cardinality(At(l)) - 1
         /\ pc[w] # l /\ m = l => Cardinality(At(l)') = Cardinality(At(l)) + 1
         /\ pc[w] # l /\ m # l => Cardinality(At(l)') = Cardinality(At(l))
<1>1. IsFiniteSet(At(l)) /\ Cardinality(At(l)) \in Nat
  BY QueueAssumption, FS_Subset, FS_CardinalityType DEF At
<1>2. ASSUME pc[w] = l, m # l PROVE Cardinality(At(l)') = Cardinality(At(l)) - 1
  <2>1. At(l)' = At(l) \ {w} /\ w \in At(l)
    BY <1>2 DEF TypeOK, At
  <2> QED
    BY <1>1, <2>1, FS_RemoveElement
<1>3. ASSUME pc[w] # l, m = l PROVE Cardinality(At(l)') = Cardinality(At(l)) + 1
  <2>1. At(l)' = At(l) \cup {w} /\ w \notin At(l)
    BY <1>3 DEF TypeOK, At
  <2> QED
    BY <1>1, <2>1, FS_AddElement
<1>4. ASSUME pc[w] # l, m # l PROVE Cardinality(At(l)') = Cardinality(At(l))
  <2>1. At(l)' = At(l)
    BY <1>4 DEF TypeOK, At
  <2> QED
    BY <2>1
<1> QED
  BY <1>1, <1>2, <1>3, <1>4

\* Nobody comes to an open or leaves one.
LEMMA SameKeepsCount ==
  ASSUME TypeOK, DescriptorsCounted, UNCHANGED <<fds, taken>>,
         \A v \in Workers : pc'[v] # pc[v] =>
           {pc[v], pc'[v]} \cap {"open_server", "open_request", "open_response"} = {}
  PROVE  DescriptorsCounted'
<1>1. /\ At("open_server")' = At("open_server")
      /\ At("open_request")' = At("open_request")
      /\ At("open_response")' = At("open_response")
  BY DEF At
<1> QED
  BY <1>1 DEF DescriptorsCounted

\* Each open takes one descriptor of the three a request stands for.
LEMMA CountStep ==
  ASSUME TypeOK, DescriptorsCounted, [Next]_vars
  PROVE  DescriptorsCounted'
<1> DEFINE a == Cardinality(At("open_server"))
           b == Cardinality(At("open_request"))
           c == Cardinality(At("open_response"))
<1>0. /\ a \in Nat /\ b \in Nat /\ c \in Nat /\ fds \in Nat /\ Len(taken) \in Nat
      /\ fds + 3 * a + 2 * b + c <= 3 * Len(taken)
  <2>1. \A l : IsFiniteSet(At(l))
    BY QueueAssumption, FS_Subset DEF At
  <2>2. fds \in Nat
    BY QueueAssumption DEF TypeOK
  <2> QED
    BY <2>1, <2>2, FS_CardinalityType, RingFacts DEF DescriptorsCounted
<1>1. ASSUME NEW w \in Workers, RetrieveRequest(w) PROVE DescriptorsCounted'
  <2>1. pc[w] = "retrieve" /\ pc' = [pc EXCEPT ![w] = "open_server"] /\ fds' = fds
    BY <1>1 DEF RetrieveRequest
  <2>2. a' = a + 1 /\ b' = b /\ c' = c
    BY <2>1, AtCounts DEF Labels
  <2>3. Len(taken') = Len(taken) + 1
    <3>1. buffer[out].client \in Clients \cup {NoClient}
      BY DEF TypeOK, Slot
    <3> QED
      BY <1>1, <3>1, RingFacts DEF RetrieveRequest
  <2> QED
    BY SMTT(30), <1>0, <2>1, <2>2, <2>3 DEF DescriptorsCounted
<1>2. ASSUME NEW w \in Workers, OpenServerPipe(w) PROVE DescriptorsCounted'
  <2>1. /\ pc[w] = "open_server" /\ pc' = [pc EXCEPT ![w] = "open_request"]
        /\ fds' = fds + 1 /\ taken' = taken
    BY <1>2 DEF OpenServerPipe, history
  <2>2. a' = a - 1 /\ b' = b + 1 /\ c' = c
    BY <2>1, AtCounts DEF Labels
  <2> HIDE DEF a, b, c
  <2>3. fds' + 3 * a' + 2 * b' + c' <= 3 * Len(taken')
    BY <1>0, <2>1, <2>2
  <2> QED
    BY <2>3 DEF DescriptorsCounted, a, b, c
<1>3. ASSUME NEW w \in Workers, OpenRequestPipe(w) PROVE DescriptorsCounted'
  <2>1. /\ pc[w] = "open_request" /\ pc' = [pc EXCEPT ![w] = "open_response"]
        /\ fds' = fds + 1 /\ taken' = taken
    BY <1>3 DEF OpenRequestPipe, history
  <2>2. a' = a /\ b' = b - 1 /\ c' = c + 1
    BY <2>1, AtCounts DEF Labels
  <2> QED
    BY <1>0, <2>1, <2>2 DEF DescriptorsCounted
<1>4. ASSUME NEW w \in Workers, OpenResponsePipe(w) PROVE DescriptorsCounted'
  <2>1. /\ pc[w] = "open_response" /\ pc' = [pc EXCEPT ![w] = "serving"]
        /\ fds' = fds + 1 /\ taken' = taken
    BY <1>4 DEF OpenResponsePipe, history
  <2>2. a' = a /\ b' = b /\ c' = c - 1
    BY <2>1, AtCounts DEF Labels
  <2> QED
    BY <1>0, <2>1, <2>2 DEF DescriptorsCounted
<1>5. ASSUME NEW w \in Workers, OpenFails(w) PROVE DescriptorsCounted'
  <2>1. fds' = fds /\ taken' = taken /\ pc[w] \in {"open_server", "open_request", "open_response"}
    BY <1>5 DEF OpenFails, CannotOpen, Opening, history
  <2>2. CASE pc' = pc
    BY <2>1, <2>2, SameKeepsCount
  <2>3. CASE pc' = [pc EXCEPT ![w] = "exited"]
    <3>1. a' <= a /\ b' <= b /\ c' <= c /\ a' \in Nat /\ b' \in Nat /\ c' \in Nat
      <4>1. \A l \in {"open_server", "open_request", "open_response"} :
              \/ Cardinality(At(l)') = Cardinality(At(l)) - 1 /\ pc[w] = l
              \/ Cardinality(At(l)') = Cardinality(At(l))
        BY <2>3, AtCounts DEF Labels
      <4>2. \A l : IsFiniteSet(At(l)')
        BY QueueAssumption, FS_Subset DEF At
      <4> QED
        BY <1>0, <4>1, <4>2, FS_CardinalityType
    <3> QED
      BY SMTT(30), <1>0, <2>1, <3>1 DEF DescriptorsCounted
  <2> QED
    BY <1>5, <2>2, <2>3 DEF OpenFails
<1>6. ASSUME InsertRequest PROVE DescriptorsCounted'
  <2>1. SignalNotEmpty /\ UNCHANGED <<fds, taken>>
    BY <1>6 DEF InsertRequest, InsertInto
  <2> QED
    BY <2>1, SameKeepsCount DEF TypeOK, SignalNotEmpty, Asleep
<1>7. ASSUME NEW w \in Workers, CheckCount(w) \/ EndSession(w) \/ WorkerWakes(w)
      PROVE  DescriptorsCounted'
  <2>1. /\ pc[w] \notin {"open_server", "open_request", "open_response"}
        /\ \E l \in {"check", "asleep", "retrieve"} : pc' = [pc EXCEPT ![w] = l]
        /\ UNCHANGED <<fds, taken>>
    BY <1>7 DEF CheckCount, EndSession, WorkerWakes, history
  <2> QED
    BY <2>1, SameKeepsCount DEF TypeOK
<1>8. ASSUME UNCHANGED <<pc, fds, taken>> PROVE DescriptorsCounted'
  BY <1>8 DEF DescriptorsCounted, At
<1> QED
  BY <1>1, <1>2, <1>3, <1>4, <1>5, <1>6, <1>7, <1>8
     DEF Next, Insert, Work, vars, history, ExtractRequest, ClientQuits, ClientDies, InsertWaits,
     HostWakes, Sigpipe

-----------------------------------------------------------------------------
(* OpensSucceed *)

\* The workers at an open need the descriptors that DescriptorsCounted keeps.
LEMMA DescriptorLeft ==
  ASSUME TypeOK, DescriptorsCounted, 3 * Len(taken) <= MaxFds, NEW w \in Workers, Opening(w)
  PROVE  ~NoDescriptor(w)
<1> DEFINE A == At("open_server")
           B == At("open_request")
           C == At("open_response")
           others == {v \in Workers \ {w} : pc[v] \in {"open_request", "open_response"}}
<1>1. IsFiniteSet(A) /\ IsFiniteSet(B) /\ IsFiniteSet(C) /\ IsFiniteSet(others)
  BY QueueAssumption, FS_Subset DEF At
<1>2. /\ Cardinality(A) \in Nat /\ Cardinality(B) \in Nat /\ Cardinality(C) \in Nat
      /\ Cardinality(others) \in Nat /\ fds \in Nat /\ Len(taken) \in Nat /\ MaxFds \in Nat
  BY SMTT(30), <1>1, FS_CardinalityType, QueueAssumption, RingFacts DEF TypeOK
<1>3. fds + 3 * Cardinality(A) + 2 * Cardinality(B) + Cardinality(C) <= MaxFds
  BY <1>2 DEF DescriptorsCounted
<1>4. IsFiniteSet(B \cup C) /\ Cardinality(B \cup C) = Cardinality(B) + Cardinality(C)
  <2>1. B \cap C = {}
    BY DEF At
  <2>2. Cardinality(B \cap C) = 0
    BY <2>1, FS_EmptySet
  <2>3. /\ IsFiniteSet(B \cup C)
        /\ Cardinality(B \cup C) = Cardinality(B) + Cardinality(C) - Cardinality(B \cap C)
    BY <1>1, FS_Union
  <2> QED
    BY <1>2, <2>2, <2>3
<1>5. CASE w \in B \cup C
  <2>1. others = (B \cup C) \ {w}
    BY DEF At
  <2>2. Cardinality(others) = Cardinality(B \cup C) - 1
    BY ZenonT(60), <1>4, <1>5, <2>1, FS_RemoveElement
  <2> QED
    BY SMTT(30), <1>2, <1>3, <1>4, <2>2 DEF NoDescriptor
<1>6. CASE w \in A
  <2>1. others = B \cup C
    BY <1>6 DEF At
  <2>2. Cardinality(A) # 0
    BY <1>1, <1>6, FS_EmptySet
  <2>3. Cardinality(others) = Cardinality(B) + Cardinality(C)
    BY <1>4, <2>1
  <2>4. fds + Cardinality(others) < MaxFds
    <3>1. ASSUME NEW x \in Nat \ {0}, NEW y \in Nat, NEW z \in Nat, NEW f \in Nat, NEW m \in Nat,
                 f + 3 * x + 2 * y + z <= m
          PROVE  f + (y + z) < m
      BY <3>1
    <3>2. Cardinality(A) \in Nat \ {0}
      BY <1>2, <2>2
    <3>3. fds + (Cardinality(B) + Cardinality(C)) < MaxFds
      BY <1>2, <1>3, <3>1, <3>2, Zenon
    <3> QED
      BY <2>3, <3>3
  <2> QED
    BY <1>2, <2>4 DEF NoDescriptor, others
<1> QED
  BY <1>5, <1>6 DEF Opening, At

\* No open fails: the pipes are those of a client that waits, and there is a
\* descriptor.
LEMMA InvOpens ==
  ASSUME Inv
  PROVE  OpensSucceed
<1> SUFFICES ASSUME ~overdrawn, 3 * Len(taken) <= MaxFds, NEW w \in Workers, Opening(w)
             PROVE  ~CannotOpen(w)
  BY DEF OpensSucceed, CannotOpen
<1>1. ~NoDescriptor(w)
  BY DescriptorLeft DEF Inv
<1>2. current[w].client \in Clients
  BY InHand DEF Inv, Busy
<1>3. Waiting(current[w].client)
  BY DEF Inv, PipesKept
<1>4. PipesExist(current[w].client)
  BY <1>2, <1>3, QueueAssumption DEF PipesExist, Waiting
<1>5. ~NoPipe(w)
  BY <1>2, <1>4, QueueAssumption DEF NoPipe
<1> QED
  BY <1>1, <1>5 DEF CannotOpen

-----------------------------------------------------------------------------
(* The theorems *)

\* The invariant holds when the threads start (main.c:28-58).
LEMMA InitInv == Init => Inv
<1> SUFFICES ASSUME Init PROVE Inv
  OBVIOUS
<1>1. N \in Nat \ {0} /\ 0 % N = 0
  <2>1. N \in Nat \ {0} /\ 0 \in 0..(N - 1) /\ N * 0 + 0 = 0
    BY QueueAssumption
  <2>2. (N * 0 + 0) % N = 0
    BY <2>1, ModUnique
  <2> QED
    BY <2>1, <2>2
<1>2. Len(accepted) = 0 /\ Len(taken) = 0
  BY DEF Init
<1>3. EmptySlot \in Slot
  BY DEF EmptySlot, Slot
<1>4. TypeOK
  <2>1. /\ buffer \in [0..(N - 1) -> Slot]
        /\ current \in [Workers -> Slot]
        /\ pc \in [Workers -> Labels]
        /\ client \in [Clients -> {"new", "connecting", "session", "gone", "dead"}]
    BY <1>3 DEF Init, Labels
  <2>2. /\ in \in 0..(N - 1) /\ in = Len(accepted) % N
        /\ out \in 0..(N - 1) /\ out = Len(taken) % N
    <3>1. in = 0 /\ out = 0
      BY DEF Init
    <3>2. 0 \in 0..(N - 1)
      BY <1>1
    <3> QED
      BY <1>1, <1>2, <3>1, <3>2
  <2>3. count \in Int /\ count = Len(accepted) - Len(taken) /\ session_counter = Len(accepted)
    BY <1>2 DEF Init
  <2>4. host = NoHost /\ aborted = FALSE /\ overdrawn = FALSE /\ fds \in 0..MaxFds
    BY QueueAssumption DEF Init
  <2>5. accepted \in Seq(Clients) /\ taken \in Seq(Clients \cup {NoClient})
    BY DEF Init
  <2> QED
    BY <2>1, <2>2, <2>3, <2>4, <2>5 DEF TypeOK
<1>5. count <= N
  BY <1>1 DEF Init
<1>6. HandedInOrder
  BY <1>2 DEF HandedInOrder
<1>7. NoLostWakeup /\ SessionsApart
  BY DEF Init, NoLostWakeup, SessionsApart, Asleep, Busy, Opening
<1>8. InsertedOnce /\ PipesKept
  BY <1>2 DEF Init, InsertedOnce, PipesKept, Busy, Opening
<1>9. DescriptorsCounted
  <2>1. At("open_server") = {} /\ At("open_request") = {} /\ At("open_response") = {}
    BY DEF Init, At
  <2>2. fds = 0
    BY DEF Init
  <2>3. Cardinality({}) = 0
    BY FS_EmptySet
  <2>4. Cardinality(At("open_server")) = 0 /\ Cardinality(At("open_request")) = 0
          /\ Cardinality(At("open_response")) = 0
    BY <2>1, <2>3
  <2> QED
    BY <1>2, <2>2, <2>4 DEF DescriptorsCounted
<1> QED
  BY <1>4, <1>5, <1>6, <1>7, <1>8, <1>9 DEF Inv

\* The inductive invariant of the buffer and its workers holds in every state.
THEOREM QueueInvariance == Spec => []Inv
<1>1. Inv /\ [Next]_vars => Inv'
  BY TypeStep, CapacityStep, OrderStep, WakeStep, ApartStep, OnceStep, PipesStep, CountStep DEF Inv
<1> QED
  BY InitInv, <1>1, PTL DEF Spec

\* No step leaves the types, and indices, count and session ids are what the
\* numbers of insertions and retrievals make them.
THEOREM QueueTypeCorrect == Spec => []TypeOK
<1>1. Inv => TypeOK
  BY DEF Inv
<1> QED
  BY QueueInvariance, <1>1, PTL

\* Until the buffer is overdrawn, requests are handed to the workers one by one
\* in the order of their insertion (main.c:136-138, 165-167).
THEOREM RequestsInOrder == Spec => []HandedInOrder
<1>1. Inv => HandedInOrder
  BY DEF Inv
<1> QED
  BY QueueInvariance, <1>1, PTL

\* One signal for each insertion is enough: there is never a sleeping worker
\* and more requests than workers on their way to them (main.c:144, 435-442).
THEOREM WakeupsSuffice == Spec => []NoLostWakeup
<1>1. Inv => NoLostWakeup
  BY DEF Inv
<1> QED
  BY QueueInvariance, <1>1, PTL

\* Until the buffer is overdrawn, no two workers have the same session in hand.
THEOREM SessionsUnshared == Spec => []OneWorkerPerSession
<1>1. Inv => OneWorkerPerSession
  BY DEF Inv, SessionsApart, OneWorkerPerSession
<1> QED
  BY QueueInvariance, <1>1, PTL

\* Until the buffer is overdrawn or three descriptors for each session are more
\* than there are, no open of a worker fails, whatever clients quit or die
\* (main.c:184-204).
THEOREM OpensAreSafe == Spec => []OpensSucceed
<1> QED
  BY QueueInvariance, InvOpens, PTL
=============================================================================
