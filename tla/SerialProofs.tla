---------------------------- MODULE SerialProofs ----------------------------
(***************************************************************************)
(* Proofs about Serial, for interrupt queues of any size and any number of *)
(* readers and writers.                                                    *)
(***************************************************************************)
EXTENDS Serial, Integers, TLAPS

N == INTQ_BUFSIZE
Pos == 0 .. N - 1
Sleeper == Thread \cup {NULL}

Queue == [buf : [Pos -> Nat], head : Pos, tail : Pos,
          lock : Sleeper, not_full : Sleeper, not_empty : Sleeper]

\* The number of bytes in a queue, and the place of the i-th of them.
Span(h, t) == IF h >= t THEN h - t ELSE h + N - t
At(t, i) == IF t + i - 1 < N THEN t + i - 1 ELSE t + i - 1 - N
Count(q) == Span(q.head, q.tail)
Place(q, i) == At(q.tail, i)

\* A queue holds the bytes after number lo up to number hi.
Holds(q, lo, hi) ==
    /\ hi = lo + Count(q)
    /\ \A i \in 1 .. Count(q) : q.buf[Place(q, i)] = lo + i

SerialType ==
    /\ txq \in Queue /\ buffer \in Queue
    /\ mode \in {"POLL", "QUEUE"} /\ ier \subseteq {"xmit", "recv"}
    /\ thr_full \in BOOLEAN /\ rbr_full \in BOOLEAN
    /\ console \in Writer \cup {NULL}
    /\ pc \in [Thread -> {"idle", "lock", "wait", "woken", "print", "panic"}]
    /\ line \in Nat /\ written \in 0 .. MaxTx
    /\ got \in Nat /\ received \in 0 .. MaxRx

\* The bytes; before queued mode everything goes straight to the port, and a byte the
\* port holds is one that may still be received.
BytesInv ==
    /\ Holds(txq, line, written)
    /\ Holds(buffer, got, received)
    /\ mode = "POLL" => intq_empty(txq)
    /\ rbr_full => received < MaxRx

\* The sleepers: the thread that waits for a condition, or was woken from it, holds the
\* queue's lock or, if it prints, the console; what a queue knows as its sleeper sleeps.
SleepInv ==
    /\ \A t \in Reader :
          /\ pc[t] \in {"wait", "woken"} => buffer.lock = t
          /\ pc[t] = "wait" => buffer.not_empty = t /\ intq_empty(buffer)
    /\ \A t \in Writer :
          /\ pc[t] \in {"print", "wait", "woken"} => console = t
          /\ pc[t] = "wait" => txq.not_full = t /\ txq.lock = t /\ intq_full(txq)
          /\ pc[t] \in {"wait", "woken"} => mode = "QUEUE"
    /\ buffer.not_empty # NULL => buffer.not_empty \in Reader /\ pc[buffer.not_empty] = "wait"
    /\ txq.not_full # NULL => txq.not_full \in Writer /\ pc[txq.not_full] = "wait"

IerInv ==
    mode = "QUEUE" =>
        /\ ~intq_empty(txq) => "xmit" \in ier
        /\ "recv" \in ier <=> ~intq_full(buffer)

SerialInv == SerialType /\ BytesInv /\ SleepInv /\ IerInv

-----------------------------------------------------------------------------
(* Interrupt queues.                                                       *)

\* The constants.
LEMMA Size == N \in Nat /\ N > 1 /\ NULL \notin Thread /\ Reader \cap Writer = {}
BY SerialAssumption DEF N, Thread

\* Positions wrap around once at most.
LEMMA Wraps ==
    ASSUME NEW x \in 0 .. 2 * N - 1
    PROVE  x % N = IF x < N THEN x ELSE x - N
<1>1. CASE x < N
  BY <1>1, Size
<1>2. CASE ~(x < N)
  BY <1>2, Size
<1>3. QED
  BY <1>1, <1>2

\* The position after x.
LEMMA NextPos ==
    ASSUME NEW x \in Pos
    PROVE  next(x) = (IF x = N - 1 THEN 0 ELSE x + 1) /\ next(x) \in Pos
<1>1. x + 1 \in 0 .. 2 * N - 1
  BY Size DEF Pos
<1>2. QED
  BY <1>1, Size, Wraps DEF next, N, Pos

\* Arithmetic on the head h and the tail t of a queue.
LEMMA Spans ==
    ASSUME NEW h \in Pos, NEW t \in Pos
    PROVE  /\ Span(h, t) \in 0 .. N - 1
           /\ h = t <=> Span(h, t) = 0
           /\ next(h) = t <=> Span(h, t) = N - 1
           /\ \A i \in 1 .. N : At(t, i) \in Pos
           /\ At(t, Span(h, t) + 1) = h
           /\ At(t, 1) = t
           /\ \A i \in 1 .. Span(h, t) : At(t, i) # h
           /\ (h + N - t) % N = Span(h, t)
           /\ \A i \in 1 .. N : (t + i - 1) % N = At(t, i)
<1>1. h \in Int /\ t \in Int /\ 0 <= h /\ h < N /\ 0 <= t /\ t < N /\ N \in Int /\ N > 1
  BY Size DEF Pos
<1>2. Span(h, t) \in Int /\ 0 <= Span(h, t) /\ Span(h, t) < N /\ (h = t <=> (Span(h, t) = 0))
  BY <1>1 DEF Span
<1>3. At(t, Span(h, t) + 1) = h /\ At(t, 1) = t
  BY <1>1 DEF Span, At
<1>4. \A i \in 1 .. N : At(t, i) \in Pos
  BY <1>1 DEF At, Pos
<1>5. next(h) = t <=> Span(h, t) = N - 1
  <2>1. next(h) = IF h = N - 1 THEN 0 ELSE h + 1
    BY NextPos
  <2>2. QED
    BY <1>1, <2>1 DEF Span
<1>6. \A i \in 1 .. Span(h, t) : At(t, i) # h
  BY <1>1 DEF Span, At
<1>7. (h + N - t) % N = Span(h, t)
  <2>1. h + N - t \in 0 .. 2 * N - 1
    BY <1>1
  <2> DEFINE x == h + N - t
  <2> HIDE DEF x
  <2>2. x % N = IF x < N THEN x ELSE x - N
    BY <2>1, Wraps DEF x
  <2>3. QED
    BY <1>1, <2>2 DEF Span, x
<1>8. ASSUME NEW i \in 1 .. N PROVE (t + i - 1) % N = At(t, i)
  <2>1. t + i - 1 \in 0 .. 2 * N - 1
    BY <1>1
  <2> DEFINE x == t + i - 1
  <2> HIDE DEF x
  <2>2. x % N = IF x < N THEN x ELSE x - N
    BY <2>1, Wraps DEF x
  <2>3. QED
    BY <1>1, <2>2 DEF At, x
<1>9. Span(h, t) \in 0 .. N - 1
  BY <1>1, <1>2
<1>10. QED
  BY <1>2, <1>3, <1>4, <1>5, <1>6, <1>7, <1>8, <1>9

\* One byte more at the head, one less at the tail.
LEMMA SpanSteps ==
    ASSUME NEW h \in Pos, NEW t \in Pos
    PROVE  /\ next(h) # t => Span(next(h), t) = Span(h, t) + 1
           /\ h # t => Span(h, next(t)) = Span(h, t) - 1
           /\ \A i \in 1 .. N - 1 : At(next(t), i) = At(t, i + 1)
<1>1. h \in Int /\ t \in Int /\ 0 <= h /\ h < N /\ 0 <= t /\ t < N /\ N \in Int /\ N > 1
  BY Size DEF Pos
<1>2. /\ next(h) = IF h = N - 1 THEN 0 ELSE h + 1
      /\ next(t) = IF t = N - 1 THEN 0 ELSE t + 1
  BY NextPos
<1>3. next(h) # t => Span(next(h), t) = Span(h, t) + 1
  BY <1>1, <1>2 DEF Span
<1>4. h # t => Span(h, next(t)) = Span(h, t) - 1
  BY <1>1, <1>2 DEF Span
<1>5. \A i \in 1 .. N - 1 : At(next(t), i) = At(t, i + 1)
  BY <1>1, <1>2 DEF At
<1>6. QED
  BY <1>3, <1>4, <1>5

\* What intq_empty and intq_full say about the number of bytes in a queue.
LEMMA QueueFacts ==
    ASSUME NEW q \in Queue
    PROVE  /\ q.head \in Pos /\ q.tail \in Pos /\ q.buf \in [Pos -> Nat]
           /\ Count(q) \in 0 .. N - 1
           /\ intq_empty(q) <=> Count(q) = 0
           /\ intq_full(q) <=> Count(q) = N - 1
<1>1. q.head \in Pos /\ q.tail \in Pos /\ q.buf \in [Pos -> Nat]
  BY DEF Queue
<1>2. QED
  BY <1>1, Spans DEF Count, intq_empty, intq_full

\* What Bytes makes of a queue that holds the bytes between lo and hi.
LEMMA HoldsBytes ==
    ASSUME NEW q \in Queue, NEW lo \in Nat, NEW hi \in Nat, Holds(q, lo, hi)
    PROVE  /\ Bytes(q) = [i \in 1 .. hi - lo |-> lo + i]
           /\ Count(q) > 0 => Bytes(q)[Len(Bytes(q))] = hi
<1>1. (q.head + N - q.tail) % N = Count(q) /\ Count(q) \in 0 .. N - 1
  BY QueueFacts, Spans DEF Count
<1>2. ASSUME NEW i \in 1 .. Count(q) PROVE (q.tail + i - 1) % N = Place(q, i)
  <2>1. i \in 1 .. N
    BY <1>1, Size
  <2>2. QED
    BY <2>1, QueueFacts, Spans DEF Place
<1>3. Bytes(q) = [i \in 1 .. Count(q) |-> q.buf[Place(q, i)]]
  BY <1>1, <1>2 DEF Bytes, N
<1>4. Bytes(q) = [i \in 1 .. Count(q) |-> lo + i] /\ hi - lo = Count(q)
  BY <1>1, <1>3 DEF Holds
<1>5. Count(q) > 0 => Bytes(q)[Len(Bytes(q))] = hi
  <2>1. Bytes(q) \in Seq(Nat) /\ Len(Bytes(q)) = Count(q)
    BY <1>1, <1>4
  <2>2. QED
    BY <1>1, <1>4, <2>1
<1>6. QED
  BY <1>4, <1>5

\* intq_putc at a queue with room.
LEMMA PutHolds ==
    ASSUME NEW q \in Queue, ~intq_full(q), NEW lo \in Nat, NEW hi \in Nat, Holds(q, lo, hi)
    PROVE  /\ Put(q, hi + 1) \in Queue
           /\ Holds(Put(q, hi + 1), lo, hi + 1)
           /\ ~intq_empty(Put(q, hi + 1))
           /\ Put(q, hi + 1).lock = q.lock /\ Put(q, hi + 1).not_full = q.not_full
           /\ Put(q, hi + 1).not_empty = NULL
<1> DEFINE p == Put(q, hi + 1)
<1>1. q.head \in Pos /\ q.tail \in Pos /\ q.buf \in [Pos -> Nat] /\ next(q.head) \in Pos
  BY QueueFacts, NextPos
<1>2. /\ p \in Queue
      /\ p.head = next(q.head) /\ p.tail = q.tail /\ p.buf = [q.buf EXCEPT ![q.head] = hi + 1]
      /\ p.lock = q.lock /\ p.not_full = q.not_full /\ p.not_empty = NULL
  <2> DEFINE b == [q.buf EXCEPT ![q.head] = hi + 1]
  <2>1. b \in [Pos -> Nat]
    BY <1>1
  <2>2. p = [[[q EXCEPT !.buf = b] EXCEPT !.head = next(q.head)] EXCEPT !.not_empty = NULL]
    BY DEF Put, Queue
  <2> HIDE DEF b, p
  <2>3. QED
    BY <1>1, <2>1, <2>2 DEF Queue, Sleeper, b
<1> HIDE DEF p
<1>3. Count(q) \in 0 .. N - 2 /\ Place(q, Count(q) + 1) = q.head
  <2>1. Count(q) \in 0 .. N - 1 /\ Count(q) # N - 1
    BY QueueFacts
  <2>2. Place(q, Count(q) + 1) = q.head
    BY <1>1, Spans DEF Count, Place
  <2>3. QED
    BY <2>1, <2>2, Size
<1>4. Count(p) = Count(q) + 1
  BY <1>1, <1>2, SpanSteps DEF Count, intq_full
<1>5. ASSUME NEW i \in 1 .. Count(p) PROVE p.buf[Place(p, i)] = lo + i
  <2>1. Place(p, i) = Place(q, i) /\ Place(q, i) \in Pos
    <3>1. i \in 1 .. N
      BY <1>3, <1>4, Size
    <3>2. QED
      BY <1>1, <1>2, <3>1, Spans DEF Place
  <2>2. CASE i = Count(q) + 1
    <3>1. Place(p, i) = q.head /\ hi = lo + Count(q)
      BY <1>3, <2>1, <2>2 DEF Holds
    <3>2. p.buf[Place(p, i)] = hi + 1
      BY <1>1, <1>2, <3>1
    <3>3. QED
      BY <1>3, <2>2, <3>1, <3>2
  <2>3. CASE i # Count(q) + 1
    <3>1. i \in 1 .. Count(q)
      BY <1>3, <1>4, <2>3
    <3>2. Place(q, i) # q.head
      BY <1>1, <3>1, Spans DEF Place, Count
    <3>3. QED
      BY <1>1, <1>2, <2>1, <3>1, <3>2 DEF Holds
  <2>4. QED
    BY <2>2, <2>3
<1>6. Holds(p, lo, hi + 1)
  BY <1>3, <1>4, <1>5 DEF Holds
<1>7. ~intq_empty(p)
  BY <1>2, <1>3, <1>4, QueueFacts
<1>8. QED
  BY <1>2, <1>6, <1>7 DEF p

\* intq_getc at a queue with a byte.
LEMMA GotHolds ==
    ASSUME NEW q \in Queue, ~intq_empty(q), NEW lo \in Nat, NEW hi \in Nat, Holds(q, lo, hi)
    PROVE  /\ Got(q) \in Queue
           /\ Holds(Got(q), lo + 1, hi) /\ q.buf[q.tail] = lo + 1
           /\ ~intq_full(Got(q))
           /\ Got(q).lock = q.lock /\ Got(q).not_empty = q.not_empty
           /\ Got(q).not_full = NULL
<1> DEFINE p == Got(q)
<1>1. q.head \in Pos /\ q.tail \in Pos /\ q.buf \in [Pos -> Nat] /\ next(q.tail) \in Pos
  BY QueueFacts, NextPos
<1>2. /\ p \in Queue
      /\ p.head = q.head /\ p.tail = next(q.tail) /\ p.buf = q.buf
      /\ p.lock = q.lock /\ p.not_empty = q.not_empty /\ p.not_full = NULL
  BY <1>1, Size DEF Got, Queue, Sleeper
<1> HIDE DEF p
<1>3. Count(q) \in 1 .. N - 1 /\ Place(q, 1) = q.tail
  <2>1. Count(q) \in 0 .. N - 1 /\ Count(q) # 0
    BY QueueFacts
  <2>2. Place(q, 1) = q.tail
    BY <1>1, Spans DEF Count, Place
  <2>3. QED
    BY <2>1, <2>2, Size
<1>4. Count(p) = Count(q) - 1
  BY <1>1, <1>2, SpanSteps DEF Count, intq_empty
<1>5. q.buf[q.tail] = lo + 1
  BY <1>3 DEF Holds
<1>6. ASSUME NEW i \in 1 .. Count(p) PROVE p.buf[Place(p, i)] = lo + 1 + i
  <2>1. i + 1 \in 1 .. Count(q) /\ i \in 1 .. N - 1
    BY <1>3, <1>4, Size
  <2>2. Place(p, i) = Place(q, i + 1)
    BY <1>1, <1>2, <2>1, SpanSteps DEF Place
  <2>3. QED
    BY <1>2, <2>1, <2>2 DEF Holds
<1>7. Holds(p, lo + 1, hi)
  BY <1>3, <1>4, <1>6 DEF Holds
<1>8. ~intq_full(p)
  BY <1>2, <1>3, <1>4, QueueFacts, Size
<1>9. QED
  BY <1>2, <1>5, <1>7, <1>8 DEF p

\* The lock and the sleepers of a queue say nothing about its bytes.
LEMMA SameBytes ==
    ASSUME NEW q \in Queue, NEW r \in Queue,
           r.head = q.head, r.tail = q.tail, r.buf = q.buf, NEW lo, NEW hi, Holds(q, lo, hi)
    PROVE  /\ Holds(r, lo, hi)
           /\ intq_empty(r) <=> intq_empty(q)
           /\ intq_full(r) <=> intq_full(q)
BY DEF Holds, Count, Place, intq_empty, intq_full

\* A queue whose lock changes hands.
LEMMA Unlock ==
    ASSUME NEW q \in Queue, NEW l \in Sleeper
    PROVE  LET p == [q EXCEPT !.lock = l]
           IN  /\ p \in Queue
               /\ p.head = q.head /\ p.tail = q.tail /\ p.buf = q.buf
               /\ p.lock = l /\ p.not_empty = q.not_empty /\ p.not_full = q.not_full
BY DEF Queue

\* A queue on which a reader goes to sleep.
LEMMA SleepForByte ==
    ASSUME NEW q \in Queue, NEW l \in Sleeper
    PROVE  LET p == [q EXCEPT !.lock = l, !.not_empty = l]
           IN  /\ p \in Queue
               /\ p.head = q.head /\ p.tail = q.tail /\ p.buf = q.buf
               /\ p.lock = l /\ p.not_empty = l /\ p.not_full = q.not_full
BY DEF Queue

\* A queue on which a writer goes to sleep.
LEMMA SleepForRoom ==
    ASSUME NEW q \in Queue, NEW l \in Sleeper
    PROVE  LET p == [q EXCEPT !.lock = l, !.not_full = l]
           IN  /\ p \in Queue
               /\ p.head = q.head /\ p.tail = q.tail /\ p.buf = q.buf
               /\ p.lock = l /\ p.not_full = l /\ p.not_empty = q.not_empty
BY DEF Queue

\* What is left when serial_flush has emptied a queue.
LEMMA FlushHolds ==
    ASSUME NEW q \in Queue, NEW hi \in Nat
    PROVE  LET p == [q EXCEPT !.tail = q.head, !.not_full = NULL]
           IN  /\ p \in Queue /\ Holds(p, hi, hi) /\ intq_empty(p)
               /\ p.lock = q.lock /\ p.not_empty = q.not_empty /\ p.not_full = NULL
<1> DEFINE p == [q EXCEPT !.tail = q.head, !.not_full = NULL]
<1>1. /\ p \in Queue /\ p.head = p.tail
      /\ p.lock = q.lock /\ p.not_empty = q.not_empty /\ p.not_full = NULL
  BY DEF Queue, Sleeper
<1> HIDE DEF p
<1>2. intq_empty(p) /\ Count(p) = 0
  BY <1>1, QueueFacts DEF intq_empty
<1>3. Holds(p, hi, hi)
  BY <1>2 DEF Holds
<1>4. QED
  BY <1>1, <1>2, <1>3 DEF p

-----------------------------------------------------------------------------
(* Steps.                                                                  *)

\* Once around the loop of intq_getc, by a reader that just came or that was woken.
LEMMA GetStep ==
    ASSUME SerialInv, NEW t \in Reader, NEW q,
           \/ pc[t] = "idle" /\ q = buffer
           \/ pc[t] = "woken" /\ q = [buffer EXCEPT !.lock = NULL],
           GetOrWait(t, q),
           UNCHANGED <<txq, mode, thr_full, rbr_full, console, line, written, received>>
    PROVE  SerialInv'
<1> USE DEF Thread
<1>1. /\ q \in Queue /\ Holds(q, got, received)
      /\ intq_empty(q) <=> intq_empty(buffer)
      /\ intq_full(q) <=> intq_full(buffer)
      /\ q.not_empty = buffer.not_empty
      /\ q.lock = NULL \/ (pc[t] = "idle" /\ q = buffer)
  <2>1. CASE pc[t] = "idle" /\ q = buffer
    BY <2>1 DEF SerialInv, SerialType, BytesInv
  <2>2. CASE q = [buffer EXCEPT !.lock = NULL]
    <3>1. buffer \in Queue /\ Holds(buffer, got, received) /\ NULL \in Sleeper
      BY DEF SerialInv, SerialType, BytesInv, Sleeper
    <3>2. /\ q \in Queue /\ q.lock = NULL /\ q.not_empty = buffer.not_empty
          /\ q.head = buffer.head /\ q.tail = buffer.tail /\ q.buf = buffer.buf
      BY <2>2, <3>1, Unlock
    <3>3. QED
      BY <3>1, <3>2, SameBytes
  <2>3. QED
    BY <2>1, <2>2
<1>2. got \in Nat /\ received \in Nat /\ pc \in [Thread -> {"idle", "lock", "wait", "woken", "print", "panic"}]
  BY SerialAssumption DEF SerialInv, SerialType
\* Nobody else sleeps when q's lock is free, and t sleeps nowhere.
<1>3. /\ \A r \in Reader \ {t} : pc[r] \in {"wait", "woken"} => q.lock = r
      /\ q.lock = NULL => q.not_empty = NULL
      /\ pc[t] # "wait"
  <2>1. CASE pc[t] = "idle" /\ q = buffer
    BY <2>1, Size DEF SerialInv, SleepInv
  <2>2. CASE pc[t] = "woken" /\ q = [buffer EXCEPT !.lock = NULL]
    BY <1>1, <2>2, Size DEF SerialInv, SleepInv
  <2>3. QED
    BY <2>1, <2>2
<1>4. CASE ~intq_empty(q) /\ buffer' = Got(q) /\ got' = q.buf[q.tail]
           /\ ier' = Notified(txq, Got(q)) /\ pc' = [pc EXCEPT ![t] = "idle"]
  <2>1. /\ buffer' \in Queue /\ Holds(buffer', got + 1, received) /\ got' = got + 1
        /\ ~intq_full(buffer') /\ buffer'.lock = q.lock /\ buffer'.not_empty = q.not_empty
    BY <1>1, <1>2, <1>4, GotHolds
  <2>2. SerialType'
    BY <1>2, <1>4, <2>1 DEF SerialInv, SerialType, Notified, IerFor
  <2>3. BytesInv'
    BY <2>1 DEF SerialInv, BytesInv
  <2>4. SleepInv'
    BY <1>1, <1>2, <1>3, <1>4, <2>1, Size DEF SerialInv, SleepInv
  <2>5. IerInv'
    BY <1>4, <2>1 DEF SerialInv, IerInv, Notified, IerFor
  <2>6. QED
    BY <2>2, <2>3, <2>4, <2>5 DEF SerialInv
<1>5. CASE intq_empty(q) /\ q.lock = NULL /\ buffer' = [q EXCEPT !.lock = t, !.not_empty = t]
           /\ pc' = [pc EXCEPT ![t] = "wait"] /\ UNCHANGED <<ier, got>>
  <2>1. /\ buffer' \in Queue /\ buffer'.lock = t /\ buffer'.not_empty = t
        /\ Holds(buffer', got, received)
        /\ intq_empty(buffer') /\ (intq_full(buffer') <=> intq_full(buffer))
    <3>1. /\ buffer' \in Queue /\ buffer'.lock = t /\ buffer'.not_empty = t
          /\ buffer'.head = q.head /\ buffer'.tail = q.tail /\ buffer'.buf = q.buf
      <4>1. t \in Sleeper
        BY DEF Sleeper
      <4>2. QED
        BY <1>1, <1>5, <4>1, SleepForByte
    <3>2. QED
      BY <1>1, <1>5, <3>1, SameBytes
  <2>2. SerialType'
    BY <1>2, <1>5, <2>1 DEF SerialInv, SerialType
  <2>3. BytesInv'
    BY <1>5, <2>1 DEF SerialInv, BytesInv
  <2>4. SleepInv'
    BY <1>2, <1>3, <1>5, <2>1, Size DEF SerialInv, SleepInv
  <2>5. IerInv'
    BY <1>5, <2>1 DEF SerialInv, IerInv
  <2>6. QED
    BY <2>2, <2>3, <2>4, <2>5 DEF SerialInv
<1>6. CASE intq_empty(q) /\ q.lock # NULL /\ buffer' = q
           /\ pc' = [pc EXCEPT ![t] = "lock"] /\ UNCHANGED <<ier, got>>
  <2>1. buffer' = buffer
    BY <1>1, <1>6
  <2>2. SerialType'
    BY <1>2, <1>6, <2>1 DEF SerialInv, SerialType
  <2>3. BytesInv'
    BY <1>6, <2>1 DEF SerialInv, BytesInv
  <2>4. SleepInv'
    BY <1>1, <1>2, <1>3, <1>6, <2>1, Size DEF SerialInv, SleepInv
  <2>5. IerInv'
    BY <1>6, <2>1 DEF SerialInv, IerInv
  <2>6. QED
    BY <2>2, <2>3, <2>4, <2>5 DEF SerialInv
<1>7. QED
  BY <1>4, <1>5, <1>6 DEF GetOrWait

\* Once around the loop of intq_putc, by the thread that has the console.
LEMMA PutStep ==
    ASSUME SerialInv, NEW t \in Writer, NEW q,
           \/ pc[t] = "print" /\ q = txq
           \/ pc[t] = "woken" /\ q = [txq EXCEPT !.lock = NULL],
           mode = "QUEUE", written < MaxTx, PutOrWait(t, q),
           UNCHANGED <<buffer, mode, thr_full, rbr_full, console, line, received, got>>
    PROVE  SerialInv'
<1> USE DEF Thread
<1>1. /\ q \in Queue /\ Holds(q, line, written)
      /\ intq_empty(q) <=> intq_empty(txq)
      /\ intq_full(q) <=> intq_full(txq)
      /\ q.not_full = txq.not_full
  <2>1. CASE q = txq
    BY <2>1 DEF SerialInv, SerialType, BytesInv
  <2>2. CASE q = [txq EXCEPT !.lock = NULL]
    <3>1. txq \in Queue /\ Holds(txq, line, written) /\ NULL \in Sleeper
      BY DEF SerialInv, SerialType, BytesInv, Sleeper
    <3>2. /\ q \in Queue /\ q.lock = NULL /\ q.not_full = txq.not_full
          /\ q.head = txq.head /\ q.tail = txq.tail /\ q.buf = txq.buf
      BY <2>2, <3>1, Unlock
    <3>3. QED
      BY <3>1, <3>2, SameBytes
  <2>3. QED
    BY <2>1, <2>2
<1>2. /\ line \in Nat /\ written \in Nat /\ MaxTx \in Nat
      /\ pc \in [Thread -> {"idle", "lock", "wait", "woken", "print", "panic"}]
  BY SerialAssumption DEF SerialInv, SerialType
\* t has the console, so no writer sleeps.
<1>3. /\ console = t
      /\ \A w \in Writer \ {t} : pc[w] \notin {"print", "wait", "woken"}
      /\ \A w \in Writer : pc[w] # "wait"
      /\ txq.not_full = NULL
  BY DEF SerialInv, SleepInv
<1>4. CASE ~intq_full(q) /\ txq' = Put(q, written + 1) /\ written' = written + 1
           /\ ier' = IerFor(Put(q, written + 1), buffer) /\ pc' = [pc EXCEPT ![t] = "print"]
  <2>1. /\ txq' \in Queue /\ Holds(txq', line, written + 1)
        /\ ~intq_empty(txq') /\ txq'.lock = q.lock /\ txq'.not_full = q.not_full
    BY <1>1, <1>2, <1>4, PutHolds
  <2>2. SerialType'
    BY <1>2, <1>4, <2>1 DEF SerialInv, SerialType, IerFor
  <2>3. BytesInv'
    BY <1>4, <2>1 DEF SerialInv, BytesInv
  <2>4. SleepInv'
    BY <1>1, <1>2, <1>3, <1>4, <2>1, Size DEF SerialInv, SleepInv
  <2>5. IerInv'
    BY <1>4, <2>1 DEF SerialInv, IerInv, IerFor
  <2>6. QED
    BY <2>2, <2>3, <2>4, <2>5 DEF SerialInv
<1>5. CASE intq_full(q) /\ txq' = [q EXCEPT !.lock = t, !.not_full = t]
           /\ pc' = [pc EXCEPT ![t] = "wait"] /\ UNCHANGED <<ier, written>>
  <2>1. /\ txq' \in Queue /\ txq'.lock = t /\ txq'.not_full = t
        /\ Holds(txq', line, written)
        /\ intq_full(txq') /\ (intq_empty(txq') <=> intq_empty(txq))
    <3>1. /\ txq' \in Queue /\ txq'.lock = t /\ txq'.not_full = t
          /\ txq'.head = q.head /\ txq'.tail = q.tail /\ txq'.buf = q.buf
      <4>1. t \in Sleeper
        BY DEF Sleeper
      <4>2. QED
        BY <1>1, <1>5, <4>1, SleepForRoom
    <3>2. QED
      BY <1>1, <1>5, <3>1, SameBytes
  <2>2. SerialType'
    BY <1>2, <1>5, <2>1 DEF SerialInv, SerialType
  <2>3. BytesInv'
    BY <1>5, <2>1 DEF SerialInv, BytesInv
  <2>4. SleepInv'
    BY <1>2, <1>3, <1>5, <2>1, Size DEF SerialInv, SleepInv
  <2>5. IerInv'
    BY <1>5, <2>1 DEF SerialInv, IerInv
  <2>6. QED
    BY <2>2, <2>3, <2>4, <2>5 DEF SerialInv
<1>6. QED
  BY <1>4, <1>5 DEF PutOrWait

\* A signal wakes the thread that is known to sleep.
LEMMA Wakes ==
    ASSUME SerialInv, NEW ws
    PROVE  /\ Signal(ws, pc) \in [Thread -> {"idle", "lock", "wait", "woken", "print", "panic"}]
           /\ \A t \in Thread : Signal(ws, pc)[t] = IF t \in ws THEN "woken" ELSE pc[t]
BY DEF SerialInv, SerialType, Signal

\* Every step keeps the invariant.
LEMMA SerialStep == SerialInv /\ [Next]_vars => SerialInv'
<1> SUFFICES ASSUME SerialInv, [Next]_vars PROVE SerialInv'
  OBVIOUS
<1> USE DEF Thread
<1>1. /\ txq \in Queue /\ buffer \in Queue
      /\ line \in Nat /\ got \in Nat /\ written \in Nat /\ received \in Nat
      /\ MaxTx \in Nat /\ MaxRx \in Nat
      /\ pc \in [Thread -> {"idle", "lock", "wait", "woken", "print", "panic"}]
  BY SerialAssumption DEF SerialInv, SerialType
<1>2. Holds(txq, line, written) /\ Holds(buffer, got, received)
  BY DEF SerialInv, BytesInv
<1>3. ASSUME NEW t \in Reader, input_getc(t) PROVE SerialInv'
  BY <1>3, GetStep DEF input_getc
<1>4. ASSUME NEW t \in Reader, getc_lock(t) PROVE SerialInv'
  <2> USE <1>4 DEF getc_lock
  \* Nobody sleeps: the lock is free.
  <2>1. /\ \A r \in Reader : pc[r] \notin {"wait", "woken"}
        /\ buffer.not_empty = NULL
    BY Size DEF SerialInv, SleepInv
  <2>2. t \in Sleeper
    BY DEF Sleeper
  <2>3. CASE intq_empty(buffer) /\ buffer' = [buffer EXCEPT !.lock = t, !.not_empty = t]
             /\ pc' = [pc EXCEPT ![t] = "wait"]
    <3>1. /\ buffer' \in Queue /\ buffer'.lock = t /\ buffer'.not_empty = t
          /\ buffer'.head = buffer.head /\ buffer'.tail = buffer.tail /\ buffer'.buf = buffer.buf
      BY <1>1, <2>2, <2>3, SleepForByte
    <3>2. /\ Holds(buffer', got, received) /\ intq_empty(buffer')
          /\ intq_full(buffer') <=> intq_full(buffer)
      <4>1. buffer \in Queue /\ Holds(buffer, got, received) /\ intq_empty(buffer)
        BY <1>1, <1>2, <2>3
      <4> HIDE <1>4
      <4>2. QED
        BY <3>1, <4>1, SameBytes
    <3>3. SerialType'
      BY <1>1, <2>3, <3>1 DEF SerialInv, SerialType
    <3>4. BytesInv'
      BY <3>2 DEF SerialInv, BytesInv
    <3>5. SleepInv'
      BY <1>1, <2>1, <2>3, <3>1, <3>2, Size DEF SerialInv, SleepInv
    <3>6. IerInv'
      BY <3>2 DEF SerialInv, IerInv
    <3>7. QED
      BY <3>3, <3>4, <3>5, <3>6 DEF SerialInv
  <2>4. CASE ~intq_empty(buffer) /\ buffer' = [buffer EXCEPT !.lock = t]
             /\ pc' = [pc EXCEPT ![t] = "panic"]
    <3>1. /\ buffer' \in Queue /\ buffer'.lock = t /\ buffer'.not_empty = buffer.not_empty
          /\ buffer'.head = buffer.head /\ buffer'.tail = buffer.tail /\ buffer'.buf = buffer.buf
      BY <1>1, <2>2, <2>4, Unlock
    <3>2. /\ Holds(buffer', got, received) /\ ~intq_empty(buffer')
          /\ intq_full(buffer') <=> intq_full(buffer)
      BY <1>1, <1>2, <2>4, <3>1, SameBytes
    <3>3. SerialType'
      BY <1>1, <2>4, <3>1 DEF SerialInv, SerialType
    <3>4. BytesInv'
      BY <3>2 DEF SerialInv, BytesInv
    <3>5. SleepInv'
      BY <1>1, <2>1, <2>4, <3>1, <3>2, Size DEF SerialInv, SleepInv
    <3>6. IerInv'
      BY <3>2 DEF SerialInv, IerInv
    <3>7. QED
      BY <3>3, <3>4, <3>5, <3>6 DEF SerialInv
  <2>5. QED
    BY <2>3, <2>4
<1>5. ASSUME NEW t \in Reader, getc_woken(t) PROVE SerialInv'
  BY <1>5, GetStep DEF getc_woken
<1>6. ASSUME NEW t \in Writer, acquire_console(t) PROVE SerialInv'
  <2> USE <1>6 DEF acquire_console
  <2>1. SerialType' /\ BytesInv' /\ IerInv'
    BY <1>1 DEF SerialInv, SerialType, BytesInv, IerInv
  <2>2. SleepInv'
    BY <1>1, Size DEF SerialInv, SleepInv
  <2>3. QED
    BY <2>1, <2>2 DEF SerialInv
<1>7. ASSUME NEW t \in Writer, release_console(t) PROVE SerialInv'
  <2> USE <1>7 DEF release_console
  <2>1. SerialType' /\ BytesInv' /\ IerInv'
    BY <1>1 DEF SerialInv, SerialType, BytesInv, IerInv
  <2>2. SleepInv'
    BY <1>1, Size DEF SerialInv, SleepInv
  <2>3. QED
    BY <2>1, <2>2 DEF SerialInv
<1>8. ASSUME NEW t \in Writer, serial_putc(t) PROVE SerialInv'
  <2>1. CASE mode = "QUEUE"
    BY <1>8, <2>1, PutStep DEF serial_putc
  <2>2. CASE mode = "POLL"
    <3> USE <1>8, <2>2 DEF serial_putc, Poll
    <3>1. Holds(txq, written + 1, written + 1)
      <4>1. Count(txq) = 0
        BY <1>1, QueueFacts DEF SerialInv, BytesInv
      <4>2. QED
        BY <1>1, <4>1 DEF Holds
    <3>2. line' \in Nat /\ written' \in 0 .. MaxTx
      BY <1>1
    <3>3. SerialType'
      BY <3>2 DEF SerialInv, SerialType
    <3>4. BytesInv'
      BY <3>1 DEF SerialInv, BytesInv
    <3>5. SleepInv' /\ IerInv'
      BY DEF SerialInv, SleepInv, IerInv
    <3>6. QED
      BY <3>3, <3>4, <3>5 DEF SerialInv
  <2>3. QED
    BY <2>1, <2>2 DEF SerialInv, SerialType
<1>9. ASSUME NEW t \in Writer, putc_woken(t) PROVE SerialInv'
  <2>1. mode = "QUEUE"
    BY <1>9 DEF putc_woken, SerialInv, SleepInv
  <2>2. QED
    BY <1>9, <2>1, PutStep DEF putc_woken
<1>10. CASE serial_putc_off
  <2> USE <1>10 DEF serial_putc_off
  <2>1. ~intq_full(txq) => /\ txq.not_full = NULL
                           /\ \A w \in Writer : pc[w] # "wait"
    BY DEF SerialInv, SleepInv
  <2>2. CASE intq_full(txq) /\ Poll(txq.buf[txq.tail]) /\ pc' = Signal({txq.not_full}, pc)
             /\ txq' = Put(Got(txq), written + 1)
    <3>1. ~intq_empty(txq)
      BY <1>1, <2>2, QueueFacts, Size
    <3>2. /\ Got(txq) \in Queue /\ Holds(Got(txq), line + 1, written) /\ ~intq_full(Got(txq))
          /\ txq.buf[txq.tail] = line + 1 /\ Got(txq).not_full = NULL
      BY <1>1, <1>2, <3>1, GotHolds
    <3>3. /\ txq' \in Queue /\ Holds(txq', line + 1, written + 1) /\ ~intq_empty(txq')
          /\ txq'.not_full = NULL
      BY <1>1, <2>2, <3>2, PutHolds
    <3>4. SerialType'
      BY <1>1, <2>2, <3>2, <3>3, Wakes DEF SerialInv, SerialType, Poll, IerFor
    <3>5. BytesInv'
      BY <2>2, <3>2, <3>3 DEF SerialInv, BytesInv, Poll
    <3>6. SleepInv'
      BY <2>2, <3>3, Wakes, Size DEF SerialInv, SleepInv
    <3>7. IerInv'
      BY <3>3 DEF IerInv, IerFor
    <3>8. QED
      BY <3>4, <3>5, <3>6, <3>7 DEF SerialInv
  <2>3. CASE ~intq_full(txq) /\ txq' = Put(txq, written + 1) /\ UNCHANGED <<pc, line, thr_full>>
    <3>1. /\ txq' \in Queue /\ Holds(txq', line, written + 1) /\ ~intq_empty(txq')
          /\ txq'.not_full = NULL
      BY <1>1, <1>2, <2>1, <2>3, PutHolds
    <3>2. SerialType'
      BY <1>1, <2>3, <3>1 DEF SerialInv, SerialType, IerFor
    <3>3. BytesInv'
      BY <2>3, <3>1 DEF SerialInv, BytesInv
    <3>4. SleepInv'
      BY <2>1, <2>3, <3>1 DEF SerialInv, SleepInv
    <3>5. IerInv'
      BY <3>1 DEF IerInv, IerFor
    <3>6. QED
      BY <3>2, <3>3, <3>4, <3>5 DEF SerialInv
  <2>4. QED
    BY <2>2, <2>3
<1>11. CASE serial_flush
  <2> USE <1>11 DEF serial_flush
  <2>1. Bytes(txq)[Len(Bytes(txq))] = written
    <3>1. Count(txq) > 0
      BY <1>1, QueueFacts
    <3>2. QED
      BY <1>1, <1>2, <3>1, HoldsBytes
  <2>2. /\ txq' \in Queue /\ Holds(txq', written, written) /\ intq_empty(txq')
        /\ txq'.not_full = NULL
    BY <1>1, FlushHolds
  <2>3. SerialType'
    BY <1>1, <2>1, <2>2, Wakes DEF SerialInv, SerialType, Poll
  <2>4. BytesInv'
    BY <2>1, <2>2 DEF SerialInv, BytesInv, Poll
  <2>5. SleepInv'
    BY <2>2, Wakes, Size DEF SerialInv, SleepInv
  <2>6. IerInv'
    BY <2>2 DEF SerialInv, IerInv
  <2>7. QED
    BY <2>3, <2>4, <2>5, <2>6 DEF SerialInv
<1>12. CASE serial_init_queue
  <2> USE <1>12 DEF serial_init_queue
  <2>1. SerialType' /\ IerInv'
    BY DEF SerialInv, SerialType, IerInv, IerFor
  <2>2. BytesInv' /\ SleepInv'
    BY DEF SerialInv, BytesInv, SleepInv
  <2>3. QED
    BY <2>1, <2>2 DEF SerialInv
<1>13. CASE serial_interrupt
  <2> DEFINE rx == rbr_full /\ ~intq_full(buffer)
             tx == ~thr_full /\ ~intq_empty(txq)
             ws == (IF rx THEN {buffer.not_empty} ELSE {}) \cup
                   (IF tx THEN {txq.not_full} ELSE {})
  <2>1. /\ mode = "QUEUE"
        /\ buffer' = IF rx THEN Put(buffer, received + 1) ELSE buffer
        /\ received' = IF rx THEN received + 1 ELSE received
        /\ rbr_full' = (rbr_full /\ ~rx)
        /\ txq' = IF tx THEN Got(txq) ELSE txq
        /\ line' = IF tx THEN txq.buf[txq.tail] ELSE line
        /\ thr_full' = (thr_full \/ tx)
        /\ pc' = Signal(ws, pc)
        /\ ier' = IerFor(txq', buffer')
        /\ UNCHANGED <<mode, console, written, got>>
    BY <1>13 DEF serial_interrupt, IerAfter
  <2>2. /\ buffer' \in Queue /\ Holds(buffer', got, received') /\ buffer'.lock = buffer.lock
        /\ rx => buffer'.not_empty = NULL
        /\ ~rx => buffer' = buffer
    BY <1>1, <1>2, <2>1, PutHolds
  <2>3. /\ txq' \in Queue /\ Holds(txq', line', written) /\ line' \in Nat
        /\ tx => txq'.not_full = NULL
        /\ ~tx => txq' = txq
    BY <1>1, <1>2, <2>1, GotHolds
  <2>4. /\ received' \in 0 .. MaxRx
        /\ rbr_full' => received' < MaxRx
    <3>1. rbr_full => received < MaxRx
      BY DEF SerialInv, BytesInv
    <3>2. received \in 0 .. MaxRx
      BY DEF SerialInv, SerialType
    <3>3. CASE rx
      <4>1. ~rbr_full' /\ received' = received + 1 /\ received < MaxRx
        BY <2>1, <3>1, <3>3
      <4>2. QED
        BY <1>1, <4>1
    <3>4. CASE ~rx
      BY <2>1, <3>1, <3>2, <3>4
    <3>5. QED
      BY <3>3, <3>4
  <2> HIDE DEF ws, rx, tx
  <2>5. SerialType'
    <3>1. thr_full' \in BOOLEAN /\ rbr_full' \in BOOLEAN
      BY <2>1 DEF SerialInv, SerialType, rx, tx
    <3>2. QED
      BY <1>1, <2>1, <2>2, <2>3, <2>4, <3>1, Wakes DEF SerialInv, SerialType, IerFor
  <2>6. BytesInv'
    BY <2>1, <2>2, <2>3, <2>4 DEF SerialInv, BytesInv
  <2>7. SleepInv'
    BY <2>1, <2>2, <2>3, Wakes, Size DEF SerialInv, SleepInv, ws
  <2>8. IerInv'
    BY <2>1 DEF IerInv, IerFor
  <2>9. QED
    BY <2>5, <2>6, <2>7, <2>8 DEF SerialInv
<1>14. CASE keyboard_interrupt
  <2> USE <1>14 DEF keyboard_interrupt
  <2>1. /\ buffer' \in Queue /\ Holds(buffer', got, received + 1)
        /\ buffer'.lock = buffer.lock /\ buffer'.not_empty = NULL
    BY <1>1, <1>2, PutHolds
  <2>2. /\ received + 1 \in 0 .. MaxRx
        /\ rbr_full => received + 1 < MaxRx
    BY <1>1 DEF Pending
  <2>3. SerialType'
    BY <1>1, <2>1, <2>2, Wakes DEF SerialInv, SerialType, Notified, IerFor
  <2>4. BytesInv'
    BY <2>1, <2>2 DEF SerialInv, BytesInv
  <2>5. SleepInv'
    BY <2>1, Wakes, Size DEF SerialInv, SleepInv
  <2>6. IerInv'
    BY DEF SerialInv, IerInv, Notified, IerFor
  <2>7. QED
    BY <2>3, <2>4, <2>5, <2>6 DEF SerialInv
<1>15. CASE port_sent
  BY <1>15 DEF port_sent, SerialInv, SerialType, BytesInv, SleepInv, IerInv
<1>16. CASE port_receives
  BY <1>16 DEF port_receives, SerialInv, SerialType, BytesInv, SleepInv, IerInv
<1>17. CASE UNCHANGED vars
  BY <1>17 DEF vars, SerialInv, SerialType, BytesInv, SleepInv, IerInv
<1>18. QED
  BY <1>3, <1>4, <1>5, <1>6, <1>7, <1>8, <1>9, <1>10, <1>11, <1>12, <1>13, <1>14, <1>15,
     <1>16, <1>17 DEF Next

\* The queues begin empty and nobody sleeps.
LEMMA SerialInit == Init => SerialInv
<1> SUFFICES ASSUME Init PROVE SerialInv
  OBVIOUS
<1>1. NewQueue \in Queue /\ NewQueue.head = NewQueue.tail
      /\ NewQueue.not_full = NULL /\ NewQueue.not_empty = NULL /\ NewQueue.lock = NULL
  BY Size DEF NewQueue, Queue, Pos, N, Sleeper
<1>2. intq_empty(NewQueue) /\ Count(NewQueue) = 0
  BY <1>1, QueueFacts DEF intq_empty
<1>3. Holds(NewQueue, 0, 0)
  BY <1>2 DEF Holds
<1>4. SerialType
  <2>1. line \in Nat /\ got \in Nat /\ written \in 0 .. MaxTx /\ received \in 0 .. MaxRx
    BY SerialAssumption DEF Init
  <2>2. QED
    BY <1>1, <2>1 DEF Init, SerialType
<1>5. BytesInv /\ SleepInv /\ IerInv
  BY <1>1, <1>2, <1>3 DEF Init, BytesInv, SleepInv, IerInv, Thread
<1>6. QED
  BY <1>4, <1>5 DEF SerialInv

\* The invariant says what the two properties promise.
LEMMA SerialSafe == SerialInv => InOrder /\ NoMissedSignal
<1> SUFFICES ASSUME SerialInv PROVE InOrder /\ NoMissedSignal
  OBVIOUS
<1>1. /\ txq \in Queue /\ buffer \in Queue /\ line \in Nat /\ got \in Nat
      /\ written \in 0 .. MaxTx /\ received \in 0 .. MaxRx /\ MaxTx \in Nat /\ MaxRx \in Nat
      /\ Holds(txq, line, written) /\ Holds(buffer, got, received)
  BY SerialAssumption DEF SerialInv, SerialType, BytesInv
<1>2. line \in 0 .. MaxTx /\ got \in 0 .. MaxRx
  <2>1. Count(txq) \in Nat /\ Count(buffer) \in Nat
    BY <1>1, QueueFacts, Size
  <2>2. written = line + Count(txq) /\ received = got + Count(buffer)
    BY <1>1 DEF Holds
  <2>3. QED
    BY <1>1, <2>1, <2>2
<1>3. QueueType(txq) /\ QueueType(buffer)
  BY <1>1 DEF Queue, QueueType, Pos, N, Sleeper
<1>4. TypeOK
  BY <1>2, <1>3 DEF SerialInv, SerialType, TypeOK
<1>5. InOrder
  BY <1>1, <1>4, HoldsBytes DEF InOrder
<1>6. NoMissedSignal
  BY DEF SerialInv, SleepInv, IerInv, NoMissedSignal, Thread
<1>7. QED
  BY <1>5, <1>6

\* Whatever the size of the interrupt queues and however many threads read and print,
\* bytes leave for the port in the order written and reach readers in the order they
\* came, none lost and none twice.
THEOREM BytesInOrder == Spec => []InOrder
BY SerialInit, SerialStep, SerialSafe, PTL DEF Spec

\* A thread never sleeps for a byte or for room that is there, nor with the queue having
\* forgotten it, and in queued mode the port is told to interrupt whenever it has to.
THEOREM SignalsKept == Spec => []NoMissedSignal
BY SerialInit, SerialStep, SerialSafe, PTL DEF Spec

=============================================================================
