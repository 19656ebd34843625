-------------------------- MODULE SchedulerProofs --------------------------
(***************************************************************************)
(* Proofs about the queues and the scheduler of Threads, on top of the     *)
(* proofs about types and locks.                                           *)
(***************************************************************************)
EXTENDS ThreadsProofs, SequenceTheorems, FiniteSetTheorems

-----------------------------------------------------------------------------
(* Queues as sequences: what appending and removing does to membership.    *)

In(q, t) == \E i \in DOMAIN q : q[i] = t

\* What is on a list once is on it.
LEMMA OnceIsIn ==
    ASSUME NEW q, NEW t, Once(q, t)
    PROVE  In(q, t)
BY DEF Once, In

\* A thread that joins a list at its end.
LEMMA AppendOnce ==
    ASSUME NEW S, NEW q \in Seq(S), NEW t \in S
    PROVE  /\ ~In(q, t) => Once(Append(q, t), t)
           /\ \A u : u # t /\ Once(q, u) => Once(Append(q, t), u)
           /\ \A u : In(Append(q, t), u) <=> In(q, u) \/ u = t
<1>1. /\ Len(q) \in Nat /\ DOMAIN q = 1 .. Len(q)
      /\ DOMAIN Append(q, t) = 1 .. Len(q) + 1
      /\ \A i \in 1 .. Len(q) : Append(q, t)[i] = q[i]
      /\ Append(q, t)[Len(q) + 1] = t
  OBVIOUS
<1>2. QED
  BY <1>1 DEF Once, In

\* The first thread leaves a list.
LEMMA TailOnce ==
    ASSUME NEW S, NEW q \in Seq(S), q # <<>>
    PROVE  /\ In(q, Head(q))
           /\ \A u : u # Head(q) /\ Once(q, u) => Once(Tail(q), u)
           /\ \A u : In(Tail(q), u) => In(q, u)
           /\ Once(q, Head(q)) => ~In(Tail(q), Head(q))
<1>1. /\ Len(q) \in Nat \ {0} /\ DOMAIN q = 1 .. Len(q)
      /\ DOMAIN Tail(q) = 1 .. Len(q) - 1
      /\ \A i \in 1 .. Len(q) - 1 : Tail(q)[i] = q[i + 1]
      /\ Head(q) = q[1]
  OBVIOUS
<1>2. \A u : u # Head(q) /\ Once(q, u) => Once(Tail(q), u)
  <2> SUFFICES ASSUME NEW u, u # Head(q), Once(q, u) PROVE Once(Tail(q), u)
    OBVIOUS
  <2>1. PICK i \in 1 .. Len(q) : q[i] = u /\ \A j \in 1 .. Len(q) : q[j] = u => j = i
    BY <1>1 DEF Once
  <2>2. i - 1 \in 1 .. Len(q) - 1 /\ Tail(q)[i - 1] = u
    BY <1>1, <2>1
  <2>3. \A j \in 1 .. Len(q) - 1 : Tail(q)[j] = u => j = i - 1
    BY <1>1, <2>1
  <2>4. QED
    BY <1>1, <2>2, <2>3 DEF Once
<1>3. QED
  BY <1>1, <1>2 DEF Once, In

\* A thread leaves a list from the middle.
LEMMA WithoutOnce ==
    ASSUME NEW S, NEW q \in Seq(S), NEW i \in DOMAIN q
    PROVE  /\ Without(q, i) \in Seq(S)
           /\ \A u : u # q[i] /\ Once(q, u) => Once(Without(q, i), u)
           /\ \A u : In(Without(q, i), u) => In(q, u)
           /\ Once(q, q[i]) => ~In(Without(q, i), q[i])
<1>1. Len(q) \in Nat /\ DOMAIN q = 1 .. Len(q) /\ i \in 1 .. Len(q)
  OBVIOUS
<1> DEFINE w == Without(q, i)
<1>2. /\ w \in Seq(S) /\ DOMAIN w = 1 .. Len(q) - 1
      /\ \A j \in 1 .. Len(q) - 1 : w[j] = IF j < i THEN q[j] ELSE q[j + 1]
  <2> DEFINE a == SubSeq(q, 1, i - 1)
             b == SubSeq(q, i + 1, Len(q))
  <2>1. /\ a \in Seq(S) /\ Len(a) = i - 1
        /\ \A j \in 1 .. i - 1 : a[j] = q[j]
    BY <1>1
  <2>2. /\ b \in Seq(S) /\ Len(b) = Len(q) - i
        /\ \A j \in 1 .. Len(q) - i : b[j] = q[i + j]
    BY <1>1
  <2> HIDE DEF a, b
  <2>3. /\ a \o b \in Seq(S) /\ Len(a \o b) = Len(a) + Len(b)
        /\ \A j \in 1 .. Len(a) + Len(b) :
             (a \o b)[j] = IF j <= Len(a) THEN a[j] ELSE b[j - Len(a)]
    BY <2>1, <2>2, ConcatProperties
  <2>4. ASSUME NEW j \in 1 .. Len(q) - 1
        PROVE  (a \o b)[j] = IF j < i THEN q[j] ELSE q[j + 1]
    <3>1. CASE j < i
      BY <1>1, <2>1, <2>2, <2>3, <3>1
    <3>2. CASE ~(j < i)
      <4>1. j - Len(a) \in 1 .. Len(q) - i /\ i + (j - Len(a)) = j + 1
        BY <1>1, <2>1, <3>2
      <4>2. j \in 1 .. Len(a) + Len(b) /\ ~(j <= Len(a))
        BY <1>1, <2>1, <2>2, <3>2
      <4>3. (a \o b)[j] = b[j - Len(a)]
        BY <2>3, <4>2
      <4>4. QED
        BY <2>2, <3>2, <4>1, <4>3
    <3>3. QED
      BY <3>1, <3>2
  <2>5. w = a \o b
    BY DEF Without, a, b
  <2>6. Len(a \o b) = Len(q) - 1 /\ DOMAIN (a \o b) = 1 .. Len(a \o b)
    BY <1>1, <2>1, <2>2, <2>3
  <2>7. QED
    BY <2>3, <2>4, <2>5, <2>6
<1> HIDE DEF w
<1>3. \A u : u # q[i] /\ Once(q, u) => Once(w, u)
  <2> SUFFICES ASSUME NEW u, u # q[i], Once(q, u) PROVE Once(w, u)
    OBVIOUS
  <2>1. PICK k \in 1 .. Len(q) : q[k] = u /\ \A j \in 1 .. Len(q) : q[j] = u => j = k
    BY <1>1 DEF Once
  <2> DEFINE m == IF k < i THEN k ELSE k - 1
  <2>2. m \in 1 .. Len(q) - 1 /\ w[m] = u
    BY <1>1, <1>2, <2>1
  <2>3. \A j \in 1 .. Len(q) - 1 : w[j] = u => j = m
    BY <1>1, <1>2, <2>1
  <2>4. QED
    BY <1>2, <2>2, <2>3 DEF Once
<1>4. \A u : In(w, u) => In(q, u)
  BY <1>1, <1>2 DEF In
<1>5. Once(q, q[i]) => ~In(w, q[i])
  BY <1>1, <1>2 DEF Once, In
<1>6. QED
  BY <1>2, <1>3, <1>4, <1>5 DEF w

-----------------------------------------------------------------------------
(* The queues.  QueuesAgree is inductive together with what is known of the *)
(* places: the idle thread is only in its loop, and the thread that         *)
(* thread_create has made is blocked, in no queue, and known to its creator *)
(* alone.                                                                   *)

\* The lists r hold the threads of S, each once, on the list of its priority.
Listed(r, S, pri) ==
    /\ \A p \in Pri : \A t \in AnyThread : In(r[p], t) => t \in S /\ pri[t] = p
    /\ \A t \in S : Once(r[pri[t]], t)

ReadySet == {t \in Thread : status[t] = "READY"}

WaitersAgree ==
    \A s \in AnySema, t \in AnyThread :
        /\ In(waiters[s], t) => Waiting(t, s)
        /\ Waiting(t, s) => Once(waiters[s], t)

\* The idle thread's code is its own.
IdleAt == \A t \in AnyThread : pc[t] \in {"hlt", "loop"} <=> t = idle_thread

MadeInv ==
    \A t \in AnyThread : pc[t] = "made" =>
        /\ arg[t] \in Thread
        /\ status[arg[t]] = "BLOCKED" /\ pc[arg[t]] = "run"
        /\ \A u \in AnyThread : pc[u] = "made" /\ arg[u] = arg[t] => u = t

QueueInv ==
    /\ TypeInv
    /\ \A t \in AnyThread : status[t] = "RUNNING" <=> t = cur
    /\ \A t \in AnyThread : status[t] \in Dead <=> pc[t] = "none"
    /\ IdleAt
    /\ MadeInv
    /\ Listed(ready, ReadySet, priority)
    /\ WaitersAgree

-----------------------------------------------------------------------------
\* list_push_back of a thread that is on no list.
LEMMA PushListed ==
    ASSUME TypeOK, NEW r \in ReadyLists, NEW S \in SUBSET AnyThread,
           Listed(r, S, priority), NEW t \in AnyThread \ S
    PROVE  Listed(Push(r, t), S \cup {t}, priority)
<1> DEFINE n == Push(r, t)
<1>1. priority[t] \in Pri /\ \A u \in AnyThread : priority[u] \in Pri
  BY DEF TypeOK
<1>2. \A p \in Pri : r[p] \in Seq(AnyThread)
  BY DEF ReadyLists
<1>3. \A p \in Pri : n[p] = IF p = priority[t] THEN Append(r[p], t) ELSE r[p]
  BY <1>1 DEF Push, ReadyLists
<1>4. ~In(r[priority[t]], t)
  BY <1>1 DEF Listed
<1>5. /\ Once(Append(r[priority[t]], t), t)
      /\ \A u : u # t /\ Once(r[priority[t]], u) => Once(Append(r[priority[t]], t), u)
      /\ \A u : In(Append(r[priority[t]], t), u) <=> In(r[priority[t]], u) \/ u = t
  BY <1>1, <1>2, <1>4, AppendOnce
<1>6. \A p \in Pri : \A u \in AnyThread : In(n[p], u) => u \in S \cup {t} /\ priority[u] = p
  BY <1>3, <1>5 DEF Listed
<1>7. \A u \in S \cup {t} : Once(n[priority[u]], u)
  BY <1>1, <1>3, <1>5 DEF Listed
<1>8. QED
  BY <1>6, <1>7 DEF Listed

\* schedule () takes the first thread of the highest priority off its list, or the
\* idle thread if the lists are empty.
LEMMA SwitchListed ==
    ASSUME TypeOK, NEW r \in ReadyLists, NEW S \in SUBSET AnyThread,
           Listed(r, S, priority), NEW st, schedule(r, st)
    PROVE  /\ Listed(ready', S \ {cur'}, priority)
           /\ \/ cur' = idle_thread /\ S = {}
              \/ cur' \in S /\ \A t \in S : priority[t] <= priority[cur']
<1>1. PICK p \in Pri :
        /\ IsTop(r, p)
        /\ cur' = IF r[p] = <<>> THEN idle_thread ELSE Head(r[p])
        /\ ready' = IF r[p] = <<>> THEN r ELSE [r EXCEPT ![p] = Tail(@)]
  BY DEF schedule
<1>2. \A q \in Pri : r[q] \in Seq(AnyThread)
  BY DEF ReadyLists
<1>3. \A t \in AnyThread : priority[t] \in Pri
  BY DEF TypeOK
<1>4. ASSUME NEW t \in S PROVE r[priority[t]] # <<>>
  BY <1>2, <1>3 DEF Listed, Once
<1>5. CASE r[p] = <<>>
  <2>1. \A q \in Pri : r[q] = <<>>
    BY <1>1, <1>5 DEF IsTop
  <2>2. S = {}
    BY <1>3, <1>4, <2>1
  <2>3. QED
    BY <1>1, <1>5, <2>2
<1>6. CASE r[p] # <<>>
  <2> DEFINE h == Head(r[p])
  <2>1. cur' = h /\ ready' = [r EXCEPT ![p] = Tail(@)]
    BY <1>1, <1>6
  <2>2. /\ In(r[p], h) /\ h \in AnyThread
        /\ \A u : u # h /\ Once(r[p], u) => Once(Tail(r[p]), u)
        /\ \A u : In(Tail(r[p]), u) => In(r[p], u)
        /\ Once(r[p], h) => ~In(Tail(r[p]), h)
    BY <1>2, <1>6, TailOnce
  <2>3. h \in S /\ priority[h] = p /\ Once(r[p], h)
    BY <2>2 DEF Listed
  <2>4. \A q \in Pri : ready'[q] = IF q = p THEN Tail(r[p]) ELSE r[q]
    BY <2>1 DEF ReadyLists
  <2>5. \A q \in Pri : \A u \in AnyThread : In(ready'[q], u) => u \in S \ {h} /\ priority[u] = q
    BY <2>2, <2>3, <2>4 DEF Listed
  <2>6. \A u \in S \ {h} : Once(ready'[priority[u]], u)
    BY <1>3, <2>2, <2>4 DEF Listed
  <2>7. \A t \in S : priority[t] <= p
    <3> SUFFICES ASSUME NEW t \in S, priority[t] > p PROVE FALSE
      BY <1>3 DEF Pri
    <3>1. r[priority[t]] = <<>>
      BY <1>1, <1>3, <1>6 DEF IsTop
    <3>2. QED
      BY <1>4, <3>1
  <2>8. QED
    BY <2>1, <2>3, <2>5, <2>6, <2>7 DEF Listed
<1>7. QED
  BY <1>5, <1>6

\* What a switch away from `cur', which is left in status st, does to the queues.
Switched(st) ==
    /\ cur' \in AnyThread
    /\ \A t \in AnyThread : status'[t] = "RUNNING" <=> t = cur'
    /\ \A t \in AnyThread \ {cur, cur'} : status'[t] = status[t]
    /\ cur' # cur => /\ status'[cur] = IF st = "DYING" /\ cur # initial_thread THEN "NONE" ELSE st
                     /\ status[cur'] = "READY" \/ cur' = idle_thread
    /\ cur' = cur => st = "READY" \/ cur = idle_thread
    /\ Listed(ready', ReadySet', priority)
    /\ cur' = idle_thread => ReadySet' = {}
    /\ cur' # idle_thread => \A t \in ReadySet' : priority[t] <= priority[cur']

\* schedule, with the threads of S on the ready lists.
LEMMA SwitchQueues ==
    ASSUME QueueInv, NEW r \in ReadyLists, NEW st \in Status \ {"RUNNING"}, schedule(r, st),
           NEW S \in SUBSET Thread, Listed(r, S, priority),
           S = ReadySet \cup (IF st = "READY" /\ cur # idle_thread THEN {cur} ELSE {})
    PROVE  Switched(st)
<1>1. TypeOK /\ S \in SUBSET AnyThread /\ cur \in AnyThread
  BY DEF QueueInv, TypeInv, TypeOK, AnyThread
<1>2. /\ Listed(ready', S \ {cur'}, priority)
      /\ \/ cur' = idle_thread /\ S = {}
         \/ cur' \in S /\ \A t \in S : priority[t] <= priority[cur']
  BY <1>1, SwitchListed
<1>3. PICK p \in Pri :
        status' = [status EXCEPT ![cur] = IF st = "DYING" /\ cur # initial_thread
                                          THEN "NONE" ELSE st,
                                 ![cur'] = "RUNNING"]
  BY DEF schedule
<1>4. cur' \in AnyThread
  BY <1>1, <1>2 DEF AnyThread
<1>5. \A t \in AnyThread :
        status'[t] = IF t = cur' THEN "RUNNING"
                     ELSE IF t = cur
                     THEN IF st = "DYING" /\ cur # initial_thread THEN "NONE" ELSE st
                     ELSE status[t]
  BY <1>1, <1>3, <1>4 DEF TypeOK
<1>6. \A t \in AnyThread : status[t] = "RUNNING" <=> t = cur
  BY DEF QueueInv
<1>7. \A t \in AnyThread : status'[t] = "RUNNING" <=> t = cur'
  BY <1>4, <1>5, <1>6
<1>8. ReadySet' = S \ {cur'}
  <2>1. ASSUME NEW t \in Thread
        PROVE  status'[t] = "READY" <=> t \in S /\ t # cur'
    <3>1. t \in AnyThread /\ t # idle_thread
      BY ThreadsAssumption DEF AnyThread
    <3>2. CASE t = cur
      <4>1. t \in S <=> st = "READY"
        BY <1>6, <3>1, <3>2 DEF ReadySet
      <4>2. QED
        BY <1>5, <3>1, <3>2, <4>1
    <3>3. CASE t # cur
      <4>1. t \in S <=> status[t] = "READY"
        BY <3>3 DEF ReadySet
      <4>2. QED
        BY <1>5, <3>1, <3>3, <4>1
    <3>4. QED
      BY <3>2, <3>3
  <2>2. QED
    BY <2>1 DEF ReadySet
<1>9. cur' # cur => status[cur'] = "READY" \/ cur' = idle_thread
  BY <1>2 DEF ReadySet
<1>10. cur' = idle_thread => ReadySet' = {}
  BY <1>2, <1>8, ThreadsAssumption
<1>11. cur' = cur => st = "READY" \/ cur = idle_thread
  BY <1>2, <1>6, <1>1 DEF ReadySet
<1>12. QED
  BY <1>1, <1>2, <1>4, <1>5, <1>7, <1>8, <1>9, <1>10, <1>11 DEF Switched

\* thread_block and thread_exit switch to another thread.
LEMMA BlockSwitch ==
    ASSUME QueueInv, NEW st \in {"BLOCKED", "DYING"}, schedule(ready, st)
    PROVE  Switched(st)
<1>1. /\ ready \in ReadyLists /\ ReadySet \in SUBSET Thread
      /\ Listed(ready, ReadySet, priority)
  BY DEF QueueInv, TypeInv, TypeOK, ReadyLists, ReadySet
<1>2. st \in Status \ {"RUNNING"} /\ st # "READY"
  BY DEF Status
<1>3. QED
  BY <1>1, <1>2, SwitchQueues

\* thread_yield switches to another thread, or back to the same.
LEMMA YieldSwitch ==
    ASSUME QueueInv, NEW now, Yield(ready, now)
    PROVE  Switched("READY")
<1>1. /\ ready \in ReadyLists /\ ReadySet \in SUBSET Thread /\ TypeOK /\ cur \in AnyThread
      /\ Listed(ready, ReadySet, priority)
  BY DEF QueueInv, TypeInv, TypeOK, ReadyLists, ReadySet
<1>2. "READY" \in Status \ {"RUNNING"}
  BY DEF Status
<1>3. CASE cur = idle_thread
  BY <1>1, <1>2, <1>3, SwitchQueues DEF Yield
<1>4. CASE cur # idle_thread
  <2>1. cur \in Thread /\ cur \notin ReadySet
    BY <1>1, <1>4 DEF QueueInv, ReadySet, AnyThread
  <2>2. Push(ready, cur) \in ReadyLists
    BY <1>1, PushType
  <2>3. Listed(Push(ready, cur), ReadySet \cup {cur}, priority)
    <3>1. ReadySet \in SUBSET AnyThread /\ cur \in AnyThread \ ReadySet
      BY <1>1, <2>1 DEF AnyThread
    <3>2. QED
      BY <1>1, <3>1, PushListed
  <2>4. ReadySet \cup {cur} \in SUBSET Thread
    BY <1>1, <2>1
  <2>5. schedule(Push(ready, cur), "READY")
    BY <1>4 DEF Yield
  <2>6. QED
    BY <1>2, <1>4, <2>2, <2>3, <2>4, <2>5, SwitchQueues
<1>5. QED
  BY <1>3, <1>4

-----------------------------------------------------------------------------
\* The running thread moves on in its code and the others stay where they are.
MovesOn ==
    /\ \A t \in AnyThread \ {cur} : pc'[t] = pc[t] /\ arg'[t] = arg[t]
    /\ pc'[cur] = "made" => pc[cur] = "made" /\ arg'[cur] = arg[cur]
    /\ pc'[cur] \in {"hlt", "loop"} <=> cur = idle_thread

\* A thread that the queues know as blocked and made keeps its place; so MadeInv holds
\* as long as it is not unblocked.
LEMMA MadeStays ==
    ASSUME QueueInv, TypeInv', MovesOn,
           \A t \in Thread \ {cur} : status[t] = "BLOCKED" /\ pc[t] = "run" => status'[t] = "BLOCKED"
    PROVE  MadeInv'
<1> SUFFICES ASSUME NEW t \in AnyThread, pc'[t] = "made"
             PROVE  /\ arg'[t] \in Thread
                    /\ status'[arg'[t]] = "BLOCKED" /\ pc'[arg'[t]] = "run"
                    /\ \A u \in AnyThread : pc'[u] = "made" /\ arg'[u] = arg'[t] => u = t
  BY DEF MadeInv
<1>1. \A u \in AnyThread : pc'[u] = "made" => pc[u] = "made" /\ arg'[u] = arg[u]
  BY DEF MovesOn
<1>2. /\ arg[t] \in Thread
      /\ status[arg[t]] = "BLOCKED" /\ pc[arg[t]] = "run"
      /\ \A u \in AnyThread : pc[u] = "made" /\ arg[u] = arg[t] => u = t
  BY <1>1 DEF QueueInv, MadeInv
<1>3. arg[t] \in AnyThread \ {cur}
  BY <1>2 DEF QueueInv, AnyThread
<1>4. QED
  BY <1>1, <1>2, <1>3 DEF MovesOn

\* A step without a switch: nobody's status changes, and the priority of the running
\* thread at most.
LEMMA MoveKeepsQueues ==
    ASSUME QueueInv, TypeInv', MovesOn, UNCHANGED <<status, ready, cur, waiters>>,
           pc'[cur] # "none", \A t \in AnyThread \ {cur} : priority'[t] = priority[t]
    PROVE  QueueInv'
<1>1. cur \in AnyThread /\ status[cur] = "RUNNING"
  BY DEF QueueInv, TypeInv, TypeOK
<1>2. MadeInv'
  BY MadeStays
<1>3. ReadySet' = ReadySet /\ cur \notin ReadySet
  BY <1>1 DEF ReadySet
<1>4. Listed(ready', ReadySet', priority')
  BY <1>3, ThreadsAssumption DEF QueueInv, Listed, ReadySet, AnyThread
<1>5. \A t \in AnyThread, s \in AnySema : Waiting(t, s)' <=> Waiting(t, s)
  BY <1>1 DEF Waiting, MovesOn
<1>6. WaitersAgree'
  BY <1>5 DEF QueueInv, WaitersAgree
<1>7. (\A t \in AnyThread : status[t] \in Dead <=> pc[t] = "none")'
  BY <1>1 DEF QueueInv, Dead, MovesOn
<1>8. IdleAt'
  BY DEF QueueInv, IdleAt, MovesOn, AnyThread
<1>9. QED
  BY <1>2, <1>4, <1>6, <1>7, <1>8 DEF QueueInv

\* What a switch keeps whatever the status the running thread is left in, but for the
\* waiters.
LEMMA SwitchKeeps ==
    ASSUME QueueInv, TypeInv', MovesOn, UNCHANGED priority,
           NEW st \in {"READY", "BLOCKED", "DYING"}, Switched(st),
           st = "DYING" <=> pc'[cur] = "none"
    PROVE  /\ \A t \in AnyThread : status'[t] = "RUNNING" <=> t = cur'
           /\ \A t \in AnyThread : status'[t] \in Dead <=> pc'[t] = "none"
           /\ IdleAt'
           /\ MadeInv'
           /\ Listed(ready', ReadySet', priority')
           /\ \A t \in AnyThread \ {cur}, s \in AnySema : Waiting(t, s)' <=> Waiting(t, s)
           /\ ~(cur' = cur /\ status'[cur] = "BLOCKED")
<1>1. cur \in AnyThread /\ status[cur] = "RUNNING" /\ cur' \in AnyThread
  BY DEF QueueInv, TypeInv, TypeOK, Switched
<1>2. \A t \in AnyThread \ {cur} : t # cur' => status'[t] = status[t]
  BY DEF Switched
<1>3. cur' # cur => status[cur'] = "READY" \/ cur' = idle_thread
  BY DEF Switched
<1>4. MadeInv'
  <2>1. \A t \in Thread \ {cur} : status[t] = "BLOCKED" => status'[t] = "BLOCKED"
    BY <1>2, <1>3, ThreadsAssumption DEF AnyThread
  <2>2. QED
    BY <2>1, MadeStays
<1>5. IdleAt'
  BY DEF QueueInv, IdleAt, MovesOn, AnyThread
<1>6. \A t \in AnyThread \ {cur}, s \in AnySema : Waiting(t, s)' <=> Waiting(t, s)
  <2> SUFFICES ASSUME NEW t \in AnyThread \ {cur}, NEW s \in AnySema
               PROVE  Waiting(t, s)' <=> Waiting(t, s)
    OBVIOUS
  <2>1. pc'[t] = pc[t] /\ arg'[t] = arg[t]
    BY DEF MovesOn
  <2>2. CASE t # cur'
    BY <1>2, <2>1, <2>2 DEF Waiting
  <2>3. CASE t = cur'
    <3>1. status'[t] = "RUNNING"
      BY <2>3 DEF Switched
    <3>2. status[t] = "READY" \/ pc[t] # "down"
      BY <1>3, <2>3 DEF QueueInv, IdleAt
    <3>3. QED
      BY <3>1, <3>2 DEF Waiting
  <2>4. QED
    BY <2>2, <2>3
<1>7. \A t \in AnyThread : status'[t] \in Dead <=> pc'[t] = "none"
  <2> SUFFICES ASSUME NEW t \in AnyThread PROVE status'[t] \in Dead <=> pc'[t] = "none"
    OBVIOUS
  <2>1. t = cur' => status'[t] \notin Dead
    BY DEF Switched, Dead
  <2>2. CASE t = cur
    <3>1. CASE cur' = cur
      BY <2>1, <2>2, <3>1, <1>5 DEF Switched, IdleAt, MovesOn
    <3>2. CASE cur' # cur
      BY <2>2, <3>2 DEF Switched, Dead
    <3>3. QED
      BY <3>1, <3>2
  <2>3. CASE t # cur
    <3>1. CASE t = cur'
      BY <1>3, <1>1, <2>1, <2>3, <3>1 DEF QueueInv, IdleAt, MovesOn, Dead
    <3>2. CASE t # cur'
      BY <1>2, <2>3, <3>2 DEF QueueInv, MovesOn
    <3>3. QED
      BY <3>1, <3>2
  <2>4. QED
    BY <2>2, <2>3
<1>8. QED
  BY <1>1, <1>4, <1>5, <1>6, <1>7 DEF Switched

\* A step in which the running thread yields.
LEMMA YieldKeepsQueues ==
    ASSUME QueueInv, TypeInv', MovesOn, UNCHANGED <<priority, waiters>>, pc'[cur] # "none",
           NEW now, Yield(ready, now)
    PROVE  QueueInv' /\ Switched("READY")
<1>1. Switched("READY")
  BY YieldSwitch
<1>2. /\ \A t \in AnyThread : status'[t] = "RUNNING" <=> t = cur'
      /\ \A t \in AnyThread : status'[t] \in Dead <=> pc'[t] = "none"
      /\ IdleAt'
      /\ MadeInv'
      /\ Listed(ready', ReadySet', priority')
      /\ \A t \in AnyThread \ {cur}, s \in AnySema : Waiting(t, s)' <=> Waiting(t, s)
  BY <1>1, SwitchKeeps
<1>3. cur \in AnyThread /\ status[cur] # "BLOCKED" /\ status'[cur] # "BLOCKED"
  BY <1>1 DEF QueueInv, TypeInv, TypeOK, Switched
<1>4. \A t \in AnyThread, s \in AnySema : (Waiting(t, s)' <=> Waiting(t, s))
  <2>1. \A s \in AnySema, t \in {cur} : ~Waiting(t, s) /\ ~Waiting(t, s)'
    BY <1>3 DEF Waiting
  <2>2. QED
    BY <1>2, <2>1
<1>5. WaitersAgree'
  BY <1>4 DEF QueueInv, WaitersAgree
<1>6. QED
  BY <1>1, <1>2, <1>5 DEF QueueInv

\* The places a thread goes to with Goto and Return.
LEMMA GotoMoves ==
    ASSUME QueueInv, NEW p \in Place, NEW a, NEW n, Goto(p, a, n)
    PROVE  /\ \A t \in AnyThread : pc'[t] = IF t = cur THEN p ELSE pc[t]
           /\ \A t \in AnyThread : arg'[t] = IF t = cur THEN a ELSE arg[t]
           /\ \A t \in AnyThread : loc'[t] = IF t = cur THEN n ELSE loc[t]
           /\ p # "made" /\ (p \in {"hlt", "loop"} <=> cur = idle_thread) => MovesOn
BY DEF Goto, QueueInv, TypeInv, TypeOK, MovesOn

\* sema_down finds no unit: the thread joins the waiters and blocks.
LEMMA DownBlockQueues ==
    ASSUME QueueInv, TypeInv', NEW s \in AnySema, cur # idle_thread, thread_block,
           UNCHANGED priority,
           waiters' = [waiters EXCEPT ![s] = Append(@, cur)], Goto("down", s, 0)
    PROVE  QueueInv' /\ Switched("BLOCKED")
<1>1. Switched("BLOCKED")
  BY BlockSwitch DEF thread_block
<1>2. /\ \A t \in AnyThread : pc'[t] = IF t = cur THEN "down" ELSE pc[t]
      /\ \A t \in AnyThread : arg'[t] = IF t = cur THEN s ELSE arg[t]
      /\ MovesOn
  BY GotoMoves DEF Place
<1>3. cur \in AnyThread /\ waiters \in [AnySema -> Seq(AnyThread)] /\ status[cur] = "RUNNING"
  BY DEF QueueInv, TypeInv, TypeOK
<1>4. /\ \A t \in AnyThread : status'[t] = "RUNNING" <=> t = cur'
      /\ \A t \in AnyThread : status'[t] \in Dead <=> pc'[t] = "none"
      /\ IdleAt'
      /\ MadeInv'
      /\ Listed(ready', ReadySet', priority')
      /\ \A t \in AnyThread \ {cur}, k \in AnySema : Waiting(t, k)' <=> Waiting(t, k)
  BY <1>1, <1>2, <1>3, SwitchKeeps
<1>5. cur' # cur /\ status'[cur] = "BLOCKED"
  BY <1>1 DEF Switched
<1>6. \A k \in AnySema : waiters'[k] = IF k = s THEN Append(waiters[s], cur) ELSE waiters[k]
  BY <1>3
<1>7. \A k \in AnySema : ~In(waiters[k], cur)
  BY <1>3 DEF QueueInv, WaitersAgree, Waiting
<1>8. /\ Once(Append(waiters[s], cur), cur)
      /\ \A u : u # cur /\ Once(waiters[s], u) => Once(Append(waiters[s], cur), u)
      /\ \A u : In(Append(waiters[s], cur), u) <=> In(waiters[s], u) \/ u = cur
  BY <1>3, <1>7, AppendOnce
<1>9. \A t \in {cur}, k \in AnySema : Waiting(t, k)' <=> k = s
  BY <1>2, <1>3, <1>5 DEF Waiting
<1>10. WaitersAgree'
  <2> SUFFICES ASSUME NEW k \in AnySema, NEW t \in AnyThread
               PROVE  /\ In(waiters'[k], t) => Waiting(t, k)'
                      /\ Waiting(t, k)' => Once(waiters'[k], t)
    BY DEF WaitersAgree
  <2>1. CASE t = cur
    BY <1>6, <1>7, <1>8, <1>9, <2>1
  <2>2. CASE t # cur
    BY <1>4, <1>6, <1>8, <2>2 DEF QueueInv, WaitersAgree
  <2>3. QED
    BY <2>1, <2>2
<1>11. QED
  BY <1>1, <1>4, <1>10 DEF QueueInv

\* The idle thread blocks, or a thread dies.
LEMMA LeaveQueues ==
    ASSUME QueueInv, TypeInv', NEW st \in {"BLOCKED", "DYING"}, schedule(ready, st),
           NEW p \in {"hlt", "none"}, Goto(p, NULL, 0), UNCHANGED <<priority, waiters>>,
           p = "none" <=> st = "DYING", p = "none" <=> cur # idle_thread
    PROVE  QueueInv' /\ Switched(st)
<1>1. Switched(st)
  BY BlockSwitch
<1>2. /\ \A t \in AnyThread : pc'[t] = IF t = cur THEN p ELSE pc[t]
      /\ MovesOn
  BY GotoMoves DEF Place
<1>3. cur \in AnyThread /\ status[cur] = "RUNNING"
  BY DEF QueueInv, TypeInv, TypeOK
<1>4. /\ \A t \in AnyThread : status'[t] = "RUNNING" <=> t = cur'
      /\ \A t \in AnyThread : status'[t] \in Dead <=> pc'[t] = "none"
      /\ IdleAt'
      /\ MadeInv'
      /\ Listed(ready', ReadySet', priority')
      /\ \A t \in AnyThread \ {cur}, k \in AnySema : Waiting(t, k)' <=> Waiting(t, k)
  BY <1>1, <1>2, <1>3, SwitchKeeps
<1>5. \A t \in {cur}, k \in AnySema : ~Waiting(t, k) /\ ~Waiting(t, k)'
  BY <1>2, <1>3 DEF Waiting
<1>6. WaitersAgree'
  BY <1>4, <1>5 DEF QueueInv, WaitersAgree
<1>7. QED
  BY <1>1, <1>4, <1>6 DEF QueueInv

\* sema_up with interrupts off: the woken thread goes from the waiters to the ready
\* list of its priority; the running thread moves on or stays.
LEMMA RaiseKeepsQueues ==
    ASSUME QueueInv, TypeInv', MovesOn, NEW s \in AnySema, Raise(s), pc'[cur] # "none"
    PROVE  QueueInv'
<1>1. /\ cur \in AnyThread /\ status[cur] = "RUNNING" /\ TypeOK /\ ready \in ReadyLists
      /\ waiters[s] \in Seq(AnyThread) /\ waiters \in [AnySema -> Seq(AnyThread)]
      /\ status \in [AnyThread -> Status] /\ UNCHANGED <<cur, priority>>
  BY DEF QueueInv, TypeInv, TypeOK, Raise, ReadyLists, Status
<1>2. CASE UNCHANGED <<waiters, ready, status>>
  BY <1>1, <1>2, MoveKeepsQueues
<1>3. ASSUME NEW i \in DOMAIN waiters[s],
             waiters' = [waiters EXCEPT ![s] = Without(@, i)],
             ready' = Push(ready, waiters[s][i]),
             status' = [status EXCEPT ![waiters[s][i]] = "READY"]
      PROVE  QueueInv'
  <2> DEFINE w == waiters[s][i]
  <2>1. w \in AnyThread /\ In(waiters[s], w)
    BY <1>1 DEF In
  <2>2. status[w] = "BLOCKED" /\ pc[w] = "down" /\ arg[w] = s /\ Once(waiters[s], w)
    BY <2>1 DEF QueueInv, WaitersAgree, Waiting
  <2>3. w \in Thread /\ w # cur /\ w \notin ReadySet
    BY <1>1, <2>1, <2>2 DEF QueueInv, IdleAt, AnyThread, ReadySet
  <2>4. \A t \in AnyThread : status'[t] = IF t = w THEN "READY" ELSE status[t]
    BY <1>1, <1>3
  <2>5. ReadySet' = ReadySet \cup {w}
    BY <2>3, <2>4 DEF ReadySet, AnyThread
  <2>6. Listed(ready', ReadySet', priority')
    <3>1. ReadySet \in SUBSET AnyThread /\ w \in AnyThread \ ReadySet
      BY <2>1, <2>3 DEF ReadySet, AnyThread
    <3>2. QED
      BY <1>1, <1>3, <2>5, <3>1, PushListed DEF QueueInv
  <2>7. pc'[w] = "down" /\ arg'[w] = s
    BY <2>1, <2>2, <2>3 DEF MovesOn
  <2>8. MadeInv'
    <3>1. \A t \in Thread \ {cur} : status[t] = "BLOCKED" /\ pc[t] = "run" => status'[t] = "BLOCKED"
      BY <2>2, <2>4 DEF AnyThread
    <3>2. QED
      BY <3>1, MadeStays
  <2>9. \A t \in AnyThread \ {w}, k \in AnySema : Waiting(t, k)' <=> Waiting(t, k)
    BY <1>1, <2>4 DEF Waiting, MovesOn
  <2>10. \A t \in {w}, k \in AnySema : ~Waiting(t, k)' /\ (Waiting(t, k) => k = s)
    BY <2>1, <2>2, <2>4 DEF Waiting
  <2>11. /\ \A u : u # w /\ Once(waiters[s], u) => Once(Without(waiters[s], i), u)
         /\ \A u : In(Without(waiters[s], i), u) => In(waiters[s], u)
         /\ ~In(Without(waiters[s], i), w)
    BY <1>1, <2>2, WithoutOnce
  <2>12. \A k \in AnySema : waiters'[k] = IF k = s THEN Without(waiters[s], i) ELSE waiters[k]
    BY <1>1, <1>3
  <2>13. WaitersAgree'
    <3> SUFFICES ASSUME NEW k \in AnySema, NEW t \in AnyThread
                 PROVE  /\ In(waiters'[k], t) => Waiting(t, k)'
                        /\ Waiting(t, k)' => Once(waiters'[k], t)
      BY DEF WaitersAgree
    <3> HIDE DEF w
    <3>1. CASE t = w
      BY <2>1, <2>10, <2>11, <2>12, <3>1 DEF QueueInv, WaitersAgree
    <3>2. CASE t # w
      BY <2>9, <2>11, <2>12, <3>2 DEF QueueInv, WaitersAgree
    <3>3. QED
      BY <3>1, <3>2
  <2>14. (\A t \in AnyThread : status[t] \in Dead <=> pc[t] = "none")'
    BY <1>1, <2>1, <2>2, <2>4, <2>7 DEF QueueInv, Dead, MovesOn
  <2>15. (\A t \in AnyThread : status[t] = "RUNNING" <=> t = cur)'
    BY <1>1, <2>2, <2>4 DEF QueueInv
  <2>16. IdleAt'
    BY DEF QueueInv, IdleAt, MovesOn, AnyThread
  <2>17. QED
    BY <2>6, <2>8, <2>13, <2>14, <2>15, <2>16 DEF QueueInv
<1>4. QED
  BY <1>2, <1>3 DEF Raise, WakeOne

\* thread_create: the new thread is blocked and on no list.
LEMMA CreateKeepsQueues ==
    ASSUME QueueInv, TypeInv', NEW t \in Thread, NEW p \in Pri, thread_create(t, p)
    PROVE  QueueInv'
<1>1. /\ cur \in AnyThread /\ t \in AnyThread /\ status[cur] = "RUNNING" /\ status[t] = "NONE"
      /\ t # cur /\ t # idle_thread /\ cur # idle_thread /\ pc[t] = "none" /\ pc[cur] = "run"
      /\ UNCHANGED <<ready, cur, waiters>>
  BY ThreadsAssumption
     DEF QueueInv, TypeInv, TypeOK, thread_create, AnyThread, Running, Dead, synch
<1>2. \A u \in AnyThread : status'[u] = IF u = t THEN "BLOCKED" ELSE status[u]
  BY DEF QueueInv, TypeInv, TypeOK, thread_create
<1>3. \A u \in AnyThread : pc'[u] = IF u = t THEN "run" ELSE IF u = cur THEN "made" ELSE pc[u]
  BY <1>1 DEF QueueInv, TypeInv, TypeOK, thread_create
<1>4. \A u \in AnyThread : arg'[u] = IF u = cur THEN t ELSE arg[u]
  BY DEF QueueInv, TypeInv, TypeOK, thread_create
<1>5. \A u \in AnyThread \ {t} : priority'[u] = priority[u]
  BY DEF QueueInv, TypeInv, TypeOK, thread_create
<1>6. ReadySet' = ReadySet /\ t \notin ReadySet
  BY <1>1, <1>2 DEF ReadySet, AnyThread
<1>7. Listed(ready', ReadySet', priority')
  BY <1>1, <1>5, <1>6 DEF QueueInv, Listed, ReadySet, AnyThread
<1>8. MadeInv'
  <2> SUFFICES ASSUME NEW u \in AnyThread, pc'[u] = "made"
               PROVE  /\ arg'[u] \in Thread
                      /\ status'[arg'[u]] = "BLOCKED" /\ pc'[arg'[u]] = "run"
                      /\ \A v \in AnyThread : pc'[v] = "made" /\ arg'[v] = arg'[u] => v = u
    BY DEF MadeInv
  <2>1. \A v \in AnyThread \ {cur} : pc'[v] = "made" =>
          /\ pc[v] = "made" /\ arg[v] \in Thread /\ status[arg[v]] = "BLOCKED" /\ pc[arg[v]] = "run"
          /\ arg[v] # t /\ arg[v] # cur /\ arg'[v] = arg[v]
    BY <1>1, <1>3, <1>4 DEF QueueInv, MadeInv
  <2>2. CASE u = cur
    BY <1>1, <1>2, <1>3, <1>4, <2>1, <2>2
  <2>3. CASE u # cur
    <3>1. arg'[u] \in Thread /\ status'[arg'[u]] = "BLOCKED" /\ pc'[arg'[u]] = "run"
      BY <1>2, <1>3, <2>1, <2>3 DEF AnyThread
    <3>2. ASSUME NEW v \in AnyThread, pc'[v] = "made", arg'[v] = arg'[u] PROVE v = u
      BY <1>1, <1>4, <2>1, <2>3, <3>2 DEF QueueInv, MadeInv
    <3>3. QED
      BY <3>1, <3>2
  <2>4. QED
    BY <2>2, <2>3
<1>9. \A u \in AnyThread, k \in AnySema : Waiting(u, k)' <=> Waiting(u, k)
  BY <1>1, <1>2, <1>3, <1>4 DEF Waiting
<1>10. WaitersAgree'
  BY <1>1, <1>9 DEF QueueInv, WaitersAgree
<1>11. (\A u \in AnyThread : status[u] \in Dead <=> pc[u] = "none")'
  BY <1>1, <1>2, <1>3 DEF QueueInv, Dead
<1>12. (\A u \in AnyThread : status[u] = "RUNNING" <=> u = cur)'
  BY <1>1, <1>2 DEF QueueInv
<1>13. IdleAt'
  BY <1>1, <1>3 DEF QueueInv, IdleAt, AnyThread
<1>14. QED
  BY <1>7, <1>8, <1>10, <1>11, <1>12, <1>13 DEF QueueInv

\* thread_unblock in thread_create: the new thread goes to a ready list.
LEMMA UnblockKeepsQueues ==
    ASSUME QueueInv, TypeInv', thread_unblock
    PROVE  QueueInv'
<1> DEFINE w == arg[cur]
<1>1. /\ cur \in AnyThread /\ status[cur] = "RUNNING" /\ pc[cur] = "made" /\ TypeOK
      /\ ready \in ReadyLists /\ status \in [AnyThread -> Status]
      /\ UNCHANGED <<cur, priority, waiters>>
  BY DEF QueueInv, TypeInv, TypeOK, thread_unblock, synch, ReadyLists, Status
<1>2. /\ w \in Thread /\ status[w] = "BLOCKED" /\ pc[w] = "run"
      /\ \A u \in AnyThread : pc[u] = "made" /\ arg[u] = w => u = cur
  BY <1>1 DEF QueueInv, MadeInv
<1>3. w \in AnyThread /\ w # cur /\ w \notin ReadySet /\ cur # idle_thread
  BY <1>1, <1>2 DEF QueueInv, IdleAt, AnyThread, ReadySet
<1>4. PICK top \in Pri : Goto("unbl", w, top)
  BY DEF thread_unblock
<1>5. /\ \A t \in AnyThread : pc'[t] = IF t = cur THEN "unbl" ELSE pc[t]
      /\ \A t \in AnyThread : arg'[t] = arg[t]
      /\ MovesOn
  BY <1>3, <1>4, GotoMoves DEF Place
<1>6. \A t \in AnyThread : status'[t] = IF t = w THEN "READY" ELSE status[t]
  BY <1>1 DEF thread_unblock
<1>7. ReadySet' = ReadySet \cup {w}
  BY <1>2, <1>6 DEF ReadySet, AnyThread
<1>8. Listed(ready', ReadySet', priority')
  <2>1. ReadySet \in SUBSET AnyThread /\ w \in AnyThread \ ReadySet
    BY <1>3 DEF ReadySet, AnyThread
  <2>2. ready' = Push(ready, w)
    BY DEF thread_unblock
  <2>3. QED
    BY <1>1, <1>7, <2>1, <2>2, PushListed DEF QueueInv
<1>9. MadeInv'
  <2> SUFFICES ASSUME NEW t \in AnyThread, pc'[t] = "made"
               PROVE  /\ arg'[t] \in Thread
                      /\ status'[arg'[t]] = "BLOCKED" /\ pc'[arg'[t]] = "run"
                      /\ \A u \in AnyThread : pc'[u] = "made" /\ arg'[u] = arg'[t] => u = t
    BY DEF MadeInv
  <2>1. pc[t] = "made" /\ t # cur
    BY <1>5
  <2>2. /\ arg[t] \in Thread /\ status[arg[t]] = "BLOCKED" /\ pc[arg[t]] = "run"
        /\ \A u \in AnyThread : pc[u] = "made" /\ arg[u] = arg[t] => u = t
    BY <2>1 DEF QueueInv, MadeInv
  <2>3. arg[t] \in AnyThread /\ arg[t] # w /\ arg[t] # cur
    BY <1>1, <1>2, <2>1, <2>2 DEF AnyThread
  <2> HIDE DEF w
  <2>4. QED
    BY <1>5, <1>6, <2>2, <2>3
<1>10. \A t \in AnyThread, k \in AnySema : Waiting(t, k)' <=> Waiting(t, k)
  BY <1>1, <1>2, <1>5, <1>6 DEF Waiting
<1>11. WaitersAgree'
  BY <1>1, <1>10 DEF QueueInv, WaitersAgree
<1>12. (\A t \in AnyThread : status[t] \in Dead <=> pc[t] = "none")'
  BY <1>1, <1>2, <1>3, <1>5, <1>6 DEF QueueInv, Dead
<1>13. (\A t \in AnyThread : status[t] = "RUNNING" <=> t = cur)'
  BY <1>1, <1>2, <1>6 DEF QueueInv
<1>14. IdleAt'
  BY <1>3, <1>5 DEF QueueInv, IdleAt, AnyThread
<1>15. QED
  BY <1>8, <1>9, <1>11, <1>12, <1>13, <1>14 DEF QueueInv

-----------------------------------------------------------------------------
\* Where only a thread other than the idle thread can be.
LEMMA NotIdle ==
    ASSUME QueueInv, pc[cur] \notin {"hlt", "loop"}
    PROVE  cur # idle_thread
BY DEF QueueInv, IdleAt, TypeInv, TypeOK

\* A return from an operation, with or without a yield before it.
LEMMA ReturnKeepsQueues ==
    ASSUME QueueInv, TypeInv', pc[cur] \notin {"hlt", "loop"}, Return,
           Yield(ready, ticks) \/ UNCHANGED sched, UNCHANGED <<priority, waiters>>
    PROVE  QueueInv'
<1>1. MovesOn /\ cur \in AnyThread /\ pc'[cur] = "run"
  <2>1. cur # idle_thread /\ cur \in AnyThread
    BY NotIdle DEF QueueInv, TypeInv, TypeOK
  <2>2. QED
    BY <2>1, GotoMoves DEF Return, Place
<1>2. CASE Yield(ready, ticks)
  BY <1>1, <1>2, YieldKeepsQueues
<1>3. CASE UNCHANGED sched
  BY <1>1, <1>3, MoveKeepsQueues DEF sched
<1>4. QED
  BY <1>2, <1>3

\* One round of sema_down.
LEMMA DownKeepsQueues ==
    ASSUME QueueInv, TypeInv', pc[cur] \notin {"hlt", "loop"}, NEW s \in AnySema, DownRound(s),
           UNCHANGED priority
    PROVE  QueueInv'
<1>0. cur # idle_thread /\ cur \in AnyThread
  BY NotIdle DEF QueueInv, TypeInv, TypeOK
<1>1. CASE value[s] > 0
  <2>1. UNCHANGED <<sched, waiters>> /\ (Goto("hold", s, 0) \/ Return)
    BY <1>1 DEF DownRound
  <2>2. MovesOn /\ pc'[cur] # "none"
    BY <1>0, <2>1, GotoMoves DEF Return, Place
  <2>3. QED
    BY <2>1, <2>2, MoveKeepsQueues DEF sched
<1>2. CASE ~(value[s] > 0)
  BY <1>0, <1>2, DownBlockQueues DEF DownRound
<1>3. QED
  BY <1>1, <1>2

\* An interrupt takes the idle thread out of hlt.
LEMMA LeaveHltMoves ==
    ASSUME QueueInv, LeaveHlt, UNCHANGED arg
    PROVE  MovesOn /\ pc'[cur] # "none" /\ (pc[cur] # "hlt" => pc'[cur] = pc[cur])
<1>1. cur \in AnyThread /\ status[cur] = "RUNNING"
  BY DEF QueueInv, TypeInv, TypeOK
<1>2. \A t \in AnyThread : pc'[t] = IF t = cur /\ pc[t] = "hlt" THEN "loop" ELSE pc[t]
  BY DEF LeaveHlt, QueueInv, TypeInv, TypeOK
<1>3. pc[cur] # "none"
  BY <1>1 DEF QueueInv, Dead
<1>4. QED
  BY <1>1, <1>2, <1>3 DEF MovesOn, QueueInv, IdleAt

\* Every step of the kernel keeps the queues in agreement.
LEMMA QueueStep == QueueInv /\ [Next]_vars => QueueInv'
<1> SUFFICES ASSUME QueueInv, [Next]_vars PROVE QueueInv'
  OBVIOUS
<1>0. TypeInv'
  BY TypeStep DEF QueueInv
<1>a. cur \in AnyThread /\ ticks \in Nat
  BY ThreadsAssumption DEF QueueInv, TypeInv, TypeOK
<1>b. ASSUME Running PROVE pc[cur] \notin {"hlt", "loop"} /\ cur # idle_thread
  BY <1>b DEF Running
<1>1. ASSUME NEW s \in AnySema, sema_down(s) PROVE QueueInv'
  BY <1>0, <1>1, <1>b, DownKeepsQueues DEF sema_down
<1>2. ASSUME sema_down_resume PROVE QueueInv'
  <2>1. arg[cur] \in AnySema
    BY <1>2, <1>a DEF sema_down_resume, QueueInv, TypeInv, ArgOK
  <2>2. QED
    BY <1>0, <1>2, <2>1, DownKeepsQueues DEF sema_down_resume
<1>3. ASSUME NEW s \in AnySema, sema_try_down(s) PROVE QueueInv'
  <2>1. MovesOn /\ pc'[cur] # "none"
    BY <1>3, <1>a, <1>b, GotoMoves DEF sema_try_down, Return, Place
  <2>2. QED
    BY <1>0, <1>3, <2>1, MoveKeepsQueues DEF sema_try_down, sched
<1>4. ASSUME NEW s \in AnySema, SemaUp(s), pc[cur] \notin {"hlt", "loop"} PROVE QueueInv'
  <2>1. PICK n \in PriMax(s) : Goto("upd", s, n)
    BY <1>4 DEF SemaUp
  <2>2. MovesOn /\ pc'[cur] # "none"
    BY <1>4, <1>a, <2>1, GotoMoves, NotIdle DEF Place
  <2>3. QED
    BY <1>0, <1>4, <2>2, RaiseKeepsQueues DEF SemaUp
<1>5. ASSUME sema_up_yield \/ set_priority_yield \/ unblock_yield PROVE QueueInv'
  BY <1>0, <1>5, ReturnKeepsQueues
     DEF sema_up_yield, set_priority_yield, unblock_yield, synch
<1>6. ASSUME lock_set_holder PROVE QueueInv'
  BY <1>0, <1>6, ReturnKeepsQueues DEF lock_set_holder
<1>7. ASSUME NEW l \in Lock, lock_release(l) PROVE QueueInv'
  <2>1. MovesOn /\ pc'[cur] # "none"
    BY <1>7, <1>a, <1>b, GotoMoves DEF lock_release, Place
  <2>2. QED
    BY <1>0, <1>7, <2>1, MoveKeepsQueues DEF lock_release, sched
<1>8. ASSUME lock_release_up PROVE QueueInv'
  <2>1. arg[cur] \in AnySema
    BY <1>8, <1>a DEF lock_release_up, QueueInv, TypeInv, ArgOK, AnySema
  <2>2. QED
    BY <1>4, <1>8, <2>1 DEF lock_release_up
<1>9. ASSUME thread_yield PROVE QueueInv'
  <2>1. MovesOn /\ pc'[cur] # "none"
    BY <1>9, <1>b DEF thread_yield, local, MovesOn, Running
  <2>2. QED
    BY <1>0, <1>9, <2>1, YieldKeepsQueues DEF thread_yield, synch
<1>10. ASSUME NEW p \in Pri, thread_set_priority(p) PROVE QueueInv'
  <2>1. MovesOn /\ pc'[cur] # "none"
    BY <1>10, <1>a, <1>b, GotoMoves DEF thread_set_priority, Place
  <2>2. \A t \in AnyThread \ {cur} : priority'[t] = priority[t]
    BY <1>10 DEF thread_set_priority, QueueInv, TypeInv, TypeOK
  <2>3. QED
    BY <1>0, <1>10, <2>1, <2>2, MoveKeepsQueues DEF thread_set_priority, sched, synch
<1>11. ASSUME NEW t \in Thread, NEW p \in Pri, thread_create(t, p) PROVE QueueInv'
  BY <1>0, <1>11, CreateKeepsQueues
<1>12. ASSUME thread_unblock PROVE QueueInv'
  BY <1>0, <1>12, UnblockKeepsQueues
<1>13. ASSUME thread_exit PROVE QueueInv'
  BY <1>0, <1>13, <1>b, LeaveQueues DEF thread_exit, synch
<1>14. ASSUME idle PROVE QueueInv'
  <2>1. cur = idle_thread
    <3>1. pc[cur] = "loop"
      BY <1>14 DEF idle
    <3>2. QED
      BY <1>a, <3>1 DEF QueueInv, IdleAt
  <2>2. QED
    BY <1>0, <1>14, <2>1, LeaveQueues DEF idle, synch, thread_block
<1>15. ASSUME Tick PROVE QueueInv'
  <2>1. MovesOn /\ pc'[cur] # "none"
    BY <1>15, LeaveHltMoves DEF Tick
  <2>2. CASE thread_ticks + 1 >= TIME_SLICE
    BY <1>0, <1>15, <2>1, <2>2, YieldKeepsQueues DEF Tick, synch
  <2>3. CASE ~(thread_ticks + 1 >= TIME_SLICE)
    BY <1>0, <1>15, <2>1, <2>3, MoveKeepsQueues DEF Tick, synch
  <2>4. QED
    BY <2>2, <2>3
<1>16. ASSUME NEW s \in IntrSema, InterruptUp(s) PROVE QueueInv'
  <2>1. s \in AnySema
    BY ThreadsAssumption DEF AnySema
  <2>2. QED
    BY <1>0, <1>16, <2>1, LeaveHltMoves, RaiseKeepsQueues DEF InterruptUp
<1>17. ASSUME UNCHANGED vars PROVE QueueInv'
  <2>1. MovesOn /\ pc'[cur] # "none"
    BY <1>17, <1>a DEF vars, local, MovesOn, QueueInv, IdleAt, Dead
  <2>2. QED
    BY <1>0, <1>17, <2>1, MoveKeepsQueues DEF vars, sched, synch
<1>18. QED
  BY <1>1, <1>2, <1>3, <1>4, <1>5, <1>6, <1>7, <1>8, <1>9, <1>10, <1>11, <1>12, <1>13,
     <1>14, <1>15, <1>16, <1>17, <1>b
     DEF Next, ThreadStep, sema_up, lock_acquire, lock_try_acquire, AnySema

\* The lists when the kernel starts.
LEMMA QueueInit == Init => QueueInv
<1> SUFFICES ASSUME Init PROVE QueueInv
  OBVIOUS
<1>1. TypeInv
  BY TypeInit
<1>2. /\ \A t \in AnyThread : status[t] = IF t = initial_thread THEN "RUNNING"
                                          ELSE IF t = idle_thread THEN "READY" ELSE "NONE"
      /\ \A t \in AnyThread : pc[t] = IF t = initial_thread THEN "run"
                                      ELSE IF t = idle_thread THEN "loop" ELSE "none"
      /\ \A p \in Pri : ready[p] = <<>>
      /\ \A s \in AnySema : waiters[s] = <<>>
      /\ cur = initial_thread /\ initial_thread # idle_thread
  BY ThreadsAssumption DEF Init
<1>3. ReadySet = {}
  BY <1>2, ThreadsAssumption DEF ReadySet, AnyThread
<1>4. Listed(ready, ReadySet, priority)
  BY <1>2, <1>3 DEF Listed, In
<1>5. MadeInv /\ WaitersAgree /\ IdleAt
  BY <1>2 DEF MadeInv, WaitersAgree, IdleAt, In, Waiting
<1>6. QED
  BY <1>1, <1>2, <1>4, <1>5 DEF QueueInv, Dead

\* The invariant of the lists holds in every state.
LEMMA QueueInvariant == Spec => []QueueInv
<1>1. QueueInv /\ [Next]_vars => QueueInv'
  BY QueueStep
<1>2. QED
  BY <1>1, QueueInit, PTL DEF Spec

\* Every thread is on the list its status asks for and on no other, at all times and
\* for any number of threads, semaphores, locks and priorities (thread_unblock,
\* thread_yield, sema_down and sema_up move the one list element of a thread).
THEOREM KernelConsistent == Spec => []Consistent
<1>1. QueueInv => Consistent
  <2> SUFFICES ASSUME QueueInv PROVE Consistent
    OBVIOUS
  <2>1. TypeOK
    BY DEF QueueInv, TypeInv
  <2>2. \A p \in Pri : \A i \in DOMAIN ready[p] :
            ready[p][i] \in AnyThread /\ In(ready[p], ready[p][i])
    BY <2>1 DEF In, TypeOK
  <2>3. \A p \in Pri : \A i \in DOMAIN ready[p] :
            ready[p][i] \in Thread /\ status[ready[p][i]] = "READY" /\ priority[ready[p][i]] = p
    BY <2>2 DEF QueueInv, Listed, ReadySet
  <2>4. \A t \in Thread : status[t] = "READY" => Once(ready[priority[t]], t)
    BY DEF QueueInv, Listed, ReadySet
  <2>5. \A s \in AnySema : \A i \in DOMAIN waiters[s] :
            waiters[s][i] \in AnyThread /\ In(waiters[s], waiters[s][i])
    BY <2>1 DEF In, TypeOK
  <2>6. \A s \in AnySema : \A i \in DOMAIN waiters[s] : Waiting(waiters[s][i], s)
    BY <2>5 DEF QueueInv, WaitersAgree
  <2>7. \A s \in AnySema, t \in AnyThread : Waiting(t, s) => Once(waiters[s], t)
    BY DEF QueueInv, WaitersAgree
  <2>8. QED
    BY <2>1, <2>3, <2>4, <2>6, <2>7 DEF Consistent, QueuesAgree, QueueInv
<1>2. QED
  BY <1>1, QueueInvariant, PTL

-----------------------------------------------------------------------------
(* Priority scheduling without interrupt handlers that wake threads.  A    *)
(* thread may become ready with a higher priority than the running one's,  *)
(* or be left ready by a lowered priority; the running thread then stands  *)
(* before one of the three tests that give the processor away, and what it *)
(* compares there is what it has to.                                       *)

\* While the running thread is at one of three places, it has yet to compare its
\* priority with that of a thread it made ready or with those that were ready.
Outranked(t) ==
    \/ pc[cur] = "setp"
    \/ pc[cur] = "upd" /\ priority[t] <= loc[cur]
    \/ pc[cur] = "unbl" /\ t = arg[cur]

PriorityInv ==
    /\ \A t \in AnyThread :
          /\ pc[t] = "setp" => loc[t] = priority[t]
          /\ pc[t] = "unbl" => loc[t] <= priority[t]
    /\ cur = idle_thread => ReadySet = {}
    /\ cur # idle_thread =>
          \A t \in ReadySet : priority[t] <= priority[cur] \/ Outranked(t)

\* The locals of the tests ahead are left alone.
LocalsKept ==
    \A t \in AnyThread : pc'[t] \in {"setp", "unbl"} =>
        pc'[t] = pc[t] /\ loc'[t] = loc[t] /\ priority'[t] = priority[t]

\* Whoever was switched to has the highest priority of all that are ready.
LEMMA SwitchPriority ==
    ASSUME QueueInv, PriorityInv, NEW st, Switched(st), UNCHANGED priority, LocalsKept
    PROVE  PriorityInv'
<1>1. \A t \in AnyThread : /\ pc'[t] = "setp" => loc'[t] = priority'[t]
                           /\ pc'[t] = "unbl" => loc'[t] <= priority'[t]
  BY DEF PriorityInv, LocalsKept
<1>2. QED
  BY <1>1 DEF PriorityInv, Switched

\* A step that lets the running thread run on.
LEMMA StayPriority ==
    ASSUME QueueInv, PriorityInv, UNCHANGED cur, LocalsKept, ReadySet' \subseteq ReadySet,
           \A t \in ReadySet' : priority'[t] = priority[t], priority'[cur] = priority[cur],
           \A t \in ReadySet' : Outranked(t) => priority[t] <= priority[cur] \/ Outranked(t)'
    PROVE  PriorityInv'
<1>1. \A t \in AnyThread : /\ pc'[t] = "setp" => loc'[t] = priority'[t]
                           /\ pc'[t] = "unbl" => loc'[t] <= priority'[t]
  BY DEF PriorityInv, LocalsKept
<1>2. cur = idle_thread => ReadySet' = {}
  BY DEF PriorityInv
<1>3. ASSUME cur # idle_thread, NEW t \in ReadySet'
      PROVE  priority'[t] <= priority'[cur] \/ Outranked(t)'
  BY <1>3 DEF PriorityInv
<1>4. QED
  BY <1>1, <1>2, <1>3 DEF PriorityInv

\* The running thread goes to a place without a test from one without a test.
LEMMA GotoPriority ==
    ASSUME QueueInv, PriorityInv, NEW p \in Place \ {"setp", "unbl"}, NEW a, NEW n,
           Goto(p, a, n), UNCHANGED priority
    PROVE  /\ LocalsKept
           /\ pc[cur] \notin {"setp", "upd", "unbl"} /\ UNCHANGED <<status, cur>>
                => PriorityInv'
<1>1. /\ \A t \in AnyThread : pc'[t] = IF t = cur THEN p ELSE pc[t]
      /\ \A t \in AnyThread : loc'[t] = IF t = cur THEN n ELSE loc[t]
  BY GotoMoves
<1>2. LocalsKept
  BY <1>1 DEF LocalsKept
<1>3. ASSUME pc[cur] \notin {"setp", "upd", "unbl"}, UNCHANGED <<status, cur>>
      PROVE  PriorityInv'
  <2>1. \A t : ~Outranked(t)
    BY <1>3 DEF Outranked
  <2>2. ReadySet' = ReadySet
    BY <1>3 DEF ReadySet
  <2>3. QED
    BY <1>2, <1>3, <2>1, <2>2, StayPriority
<1>4. QED
  BY <1>2, <1>3

\* A round of sema_down.
LEMMA DownPriority ==
    ASSUME QueueInv, PriorityInv, NEW s \in AnySema, DownRound(s), UNCHANGED priority,
           pc[cur] \notin {"setp", "upd", "unbl"}
    PROVE  PriorityInv'
<1>1. CASE value[s] > 0
  <2>1. UNCHANGED <<status, cur>> /\ (Goto("hold", s, 0) \/ Goto("run", NULL, 0))
    BY <1>1 DEF DownRound, Return, sched
  <2>2. QED
    BY <2>1, GotoPriority DEF Place
<1>2. CASE ~(value[s] > 0)
  <2>1. schedule(ready, "BLOCKED") /\ Goto("down", s, 0)
    BY <1>2 DEF DownRound, thread_block
  <2>2. Switched("BLOCKED")
    BY <2>1, BlockSwitch
  <2>3. LocalsKept
    BY <2>1, GotoPriority DEF Place
  <2>4. QED
    BY <2>2, <2>3, SwitchPriority
<1>3. QED
  BY <1>1, <1>2

\* sema_up: pri_max is the priority of the thread it wakes.
LEMMA UpPriority ==
    ASSUME QueueInv, PriorityInv, NEW s \in AnySema, SemaUp(s), pc[cur] \in {"run", "rel"}
    PROVE  PriorityInv'
<1>1. /\ cur \in AnyThread /\ waiters[s] \in Seq(AnyThread) /\ priority \in [AnyThread -> Pri]
      /\ status \in [AnyThread -> Status] /\ UNCHANGED <<cur, priority>> /\ WakeOne(s)
  BY DEF QueueInv, TypeInv, TypeOK, SemaUp, Raise, Status
<1>2. PICK n \in PriMax(s) : Goto("upd", s, n)
  BY DEF SemaUp
<1>3. /\ \A t \in AnyThread : pc'[t] = IF t = cur THEN "upd" ELSE pc[t]
      /\ \A t \in AnyThread : loc'[t] = IF t = cur THEN n ELSE loc[t]
      /\ LocalsKept
  BY <1>1, <1>2, GotoMoves, GotoPriority DEF Place
<1>4. cur # idle_thread /\ \A t : ~Outranked(t)
  BY NotIdle DEF Outranked
<1>5. CASE waiters[s] = <<>>
  <2>1. ReadySet' = ReadySet
    BY <1>1, <1>5 DEF WakeOne, ReadySet
  <2>2. QED
    BY <1>1, <1>3, <1>4, <2>1, StayPriority
<1>6. CASE waiters[s] # <<>>
  <2>1. PICK i \in DOMAIN waiters[s] :
          IsFirstMax(waiters[s], i) /\ status' = [status EXCEPT ![waiters[s][i]] = "READY"]
    BY <1>1, <1>6 DEF WakeOne
  <2>2. PICK j \in DOMAIN waiters[s] : IsFirstMax(waiters[s], j) /\ n = priority[waiters[s][j]]
    BY <1>2, <1>6 DEF PriMax
  <2> DEFINE w == waiters[s][i]
  <2>3. w \in AnyThread /\ waiters[s][j] \in AnyThread
    BY <1>1
  <2>4. priority[w] <= n
    BY <2>1, <2>2, <2>3 DEF IsFirstMax
  <2>5. ReadySet' \subseteq ReadySet \cup {w}
    BY <1>1, <2>1, <2>3 DEF ReadySet, AnyThread
  <2> HIDE DEF w
  <2>6. ASSUME NEW t \in ReadySet' PROVE priority'[t] <= priority'[cur] \/ Outranked(t)'
    <3>1. CASE t = w
      BY <1>1, <1>3, <2>4, <3>1 DEF Outranked
    <3>2. CASE t # w
      BY <1>1, <1>4, <2>5, <3>2 DEF PriorityInv
    <3>3. QED
      BY <3>1, <3>2
  <2>7. \A t \in AnyThread : /\ pc'[t] = "setp" => loc'[t] = priority'[t]
                             /\ pc'[t] = "unbl" => loc'[t] <= priority'[t]
    BY <1>3 DEF PriorityInv, LocalsKept
  <2>8. QED
    BY <1>1, <1>4, <2>6, <2>7 DEF PriorityInv
<1>7. QED
  BY <1>5, <1>6

\* thread_top_priority () bounds the priorities of the ready threads, and one of them
\* has it unless none is ready.
LEMMA TopPriority ==
    ASSUME QueueInv, NEW top \in Pri, IsTop(ready, top)
    PROVE  /\ \A t \in ReadySet : priority[t] <= top
           /\ top = 0 \/ \E t \in ReadySet : priority[t] = top
<1>1. ready \in [Pri -> Seq(AnyThread)] /\ priority \in [AnyThread -> Pri]
  BY DEF QueueInv, TypeInv, TypeOK
<1>2. ASSUME NEW t \in ReadySet PROVE priority[t] <= top
  <2>1. priority[t] \in Pri /\ ready[priority[t]] # <<>>
    BY <1>1 DEF QueueInv, Listed, ReadySet, Once, AnyThread
  <2>2. QED
    BY <2>1 DEF IsTop, Pri
<1>3. ASSUME top # 0 PROVE \E t \in ReadySet : priority[t] = top
  <2>1. ready[top] # <<>> /\ ready[top] \in Seq(AnyThread)
    BY <1>1, <1>3 DEF IsTop
  <2>2. ready[top][1] \in AnyThread /\ In(ready[top], ready[top][1])
    BY <2>1 DEF In
  <2>3. QED
    BY <2>2 DEF QueueInv, Listed
<1>4. QED
  BY <1>2, <1>3

\* The tests that may give the processor away: the thread that keeps it has no ready
\* thread above it.
LEMMA TestPriority ==
    ASSUME QueueInv, PriorityInv, Return, UNCHANGED priority, cur # idle_thread,
           \/ Yield(ready, ticks)
           \/ /\ UNCHANGED sched
              /\ \A t \in ReadySet : Outranked(t) => priority[t] <= priority[cur]
    PROVE  PriorityInv'
<1>1. LocalsKept
  BY GotoPriority DEF Return, Place
<1>2. CASE Yield(ready, ticks)
  BY <1>1, <1>2, YieldSwitch, SwitchPriority
<1>3. CASE /\ UNCHANGED sched
           /\ \A t \in ReadySet : Outranked(t) => priority[t] <= priority[cur]
  <2>1. ReadySet' = ReadySet /\ UNCHANGED cur
    BY <1>3 DEF sched, ReadySet
  <2>2. QED
    BY <1>1, <1>3, <2>1, StayPriority
<1>4. QED
  BY <1>2, <1>3

\* Every step keeps the invariant of the priorities.
LEMMA PriorityStep ==
    ASSUME IntrSema = {}, QueueInv, PriorityInv, [Next]_vars PROVE PriorityInv'
<1>a. /\ cur \in AnyThread /\ priority \in [AnyThread -> Pri] /\ status \in [AnyThread -> Status]
      /\ loc \in [AnyThread -> 0 .. PRI_MAX + 1] /\ PRI_MAX \in Nat
      /\ pc \in [AnyThread -> Place] /\ ReadySet \subseteq AnyThread
  BY ThreadsAssumption DEF QueueInv, TypeInv, TypeOK, Status, Place, ReadySet, AnyThread
<1>b. \A t \in AnyThread : priority[t] \in Nat /\ loc[t] \in Nat
  BY <1>a DEF Pri
<1>1. ASSUME NEW s \in AnySema, sema_down(s) PROVE PriorityInv'
  BY <1>1, DownPriority DEF sema_down, Running
<1>2. ASSUME sema_down_resume PROVE PriorityInv'
  <2>1. arg[cur] \in AnySema
    BY <1>2, <1>a DEF sema_down_resume, QueueInv, TypeInv, ArgOK
  <2>2. QED
    BY <1>2, <2>1, DownPriority DEF sema_down_resume
<1>3. ASSUME NEW s \in AnySema, sema_try_down(s) PROVE PriorityInv'
  BY <1>3, GotoPriority DEF sema_try_down, Return, Running, Place, sched
<1>4. ASSUME NEW s \in AnySema, sema_up(s) PROVE PriorityInv'
  BY <1>4, UpPriority DEF sema_up, Running
<1>5. ASSUME sema_up_yield PROVE PriorityInv'
  <2>1. cur # idle_thread
    BY <1>5, NotIdle DEF sema_up_yield
  <2>2. ASSUME ~(loc[cur] > priority[cur])
        PROVE  \A t \in ReadySet : Outranked(t) => priority[t] <= priority[cur]
    BY <1>5, <1>a, <1>b, <2>2 DEF sema_up_yield, Outranked
  <2>3. QED
    BY <1>5, <2>1, <2>2, TestPriority DEF sema_up_yield
<1>6. ASSUME lock_set_holder PROVE PriorityInv'
  BY <1>6, GotoPriority DEF lock_set_holder, Return, Place, sched
<1>7. ASSUME NEW l \in Lock, lock_release(l) PROVE PriorityInv'
  BY <1>7, GotoPriority DEF lock_release, Running, Place, sched
<1>8. ASSUME lock_release_up PROVE PriorityInv'
  <2>1. arg[cur] \in AnySema
    BY <1>8, <1>a DEF lock_release_up, QueueInv, TypeInv, ArgOK, AnySema
  <2>2. QED
    BY <1>8, <2>1, UpPriority DEF lock_release_up
<1>9. ASSUME thread_yield PROVE PriorityInv'
  <2>1. LocalsKept
    BY <1>9 DEF thread_yield, LocalsKept, local
  <2>2. QED
    BY <1>9, <2>1, YieldSwitch, SwitchPriority DEF thread_yield
<1>10. ASSUME NEW p \in Pri, thread_set_priority(p) PROVE PriorityInv'
  <2>1. /\ \A t \in AnyThread : pc'[t] = IF t = cur THEN "setp" ELSE pc[t]
        /\ \A t \in AnyThread : loc'[t] = IF t = cur THEN p ELSE loc[t]
    BY <1>10, GotoMoves DEF thread_set_priority, Place
  <2>2. \A t \in AnyThread : priority'[t] = IF t = cur THEN p ELSE priority[t]
    BY <1>10, <1>a DEF thread_set_priority
  <2>3. UNCHANGED <<cur, status>> /\ cur # idle_thread
    BY <1>10 DEF thread_set_priority, sched, Running
  <2>4. QED
    BY <1>a, <2>1, <2>2, <2>3 DEF PriorityInv, Outranked
<1>11. ASSUME NEW t \in Thread, NEW p \in Pri, thread_create(t, p) PROVE PriorityInv'
  <2>1. /\ t \in AnyThread /\ status[t] = "NONE" /\ t # cur /\ pc[cur] = "run"
        /\ UNCHANGED <<cur, loc>>
    BY <1>11 DEF thread_create, AnyThread, QueueInv, Running
  <2>2. \A u \in AnyThread : /\ status'[u] = IF u = t THEN "BLOCKED" ELSE status[u]
                             /\ priority'[u] = IF u = t THEN p ELSE priority[u]
                             /\ pc'[u] = IF u = t THEN "run" ELSE IF u = cur THEN "made" ELSE pc[u]
    BY <1>11, <1>a, <2>1 DEF thread_create
  <2>3. ReadySet' = ReadySet /\ t \notin ReadySet
    BY <2>1, <2>2 DEF ReadySet, AnyThread
  <2>4. LocalsKept
    BY <2>1, <2>2 DEF LocalsKept
  <2>5. \A u : ~Outranked(u)
    BY <2>1 DEF Outranked
  <2>6. QED
    BY <1>a, <2>1, <2>2, <2>3, <2>4, <2>5, StayPriority
<1>12. ASSUME thread_unblock PROVE PriorityInv'
  <2>1. PICK top \in Pri : IsTop(ready, top) /\ Goto("unbl", arg[cur], top)
    BY <1>12 DEF thread_unblock
  <2>2. /\ \A t \in AnyThread : pc'[t] = IF t = cur THEN "unbl" ELSE pc[t]
        /\ \A t \in AnyThread : loc'[t] = IF t = cur THEN top ELSE loc[t]
        /\ \A t \in AnyThread : arg'[t] = arg[t]
    BY <2>1, GotoMoves DEF Place
  <2>3. /\ pc[cur] = "made" /\ UNCHANGED <<cur, priority>> /\ cur # idle_thread
        /\ arg[cur] \in AnyThread
    BY <1>12, <1>a, NotIdle DEF thread_unblock, QueueInv, TypeInv, ArgOK
  <2>4. ReadySet' \subseteq ReadySet \cup {arg[cur]}
    BY <1>12, <1>a, <2>3 DEF thread_unblock, ReadySet, AnyThread
  <2>5. \A t \in ReadySet : priority[t] <= priority[cur]
    BY <2>3 DEF PriorityInv, Outranked
  <2>6. top <= priority[cur]
    BY <1>a, <1>b, <2>1, <2>5, TopPriority
  <2>7. \A t \in ReadySet' : priority'[t] <= priority'[cur] \/ Outranked(t)'
    BY <1>a, <2>2, <2>3, <2>4, <2>5 DEF Outranked
  <2>8. QED
    BY <1>a, <2>2, <2>3, <2>6, <2>7 DEF PriorityInv
<1>13. ASSUME unblock_yield PROVE PriorityInv'
  <2>1. cur # idle_thread /\ pc[cur] = "unbl" /\ loc[cur] <= priority[cur]
    BY <1>13, <1>a, NotIdle DEF unblock_yield, PriorityInv
  <2>2. ASSUME loc[cur] >= priority[arg[cur]] \/ status[arg[cur]] = "NONE"
        PROVE  \A t \in ReadySet : Outranked(t) => priority[t] <= priority[cur]
    BY <1>a, <1>b, <2>1, <2>2 DEF Outranked, ReadySet
  <2>3. QED
    BY <1>13, <2>1, <2>2, TestPriority DEF unblock_yield
<1>14. ASSUME set_priority_yield PROVE PriorityInv'
  <2>1. cur # idle_thread /\ pc[cur] = "setp" /\ loc[cur] = priority[cur]
    BY <1>14, <1>a, NotIdle DEF set_priority_yield, PriorityInv
  <2>2. PICK top \in Pri : /\ IsTop(ready, top)
                           /\ IF loc[cur] < top THEN Yield(ready, ticks) ELSE UNCHANGED sched
    BY <1>14 DEF set_priority_yield
  <2>3. ASSUME ~(loc[cur] < top) PROVE \A t \in ReadySet : priority[t] <= priority[cur]
    <3>1. \A t \in ReadySet : priority[t] <= top
      BY <2>2, TopPriority
    <3>2. top \in Nat
      BY <1>a DEF Pri
    <3>3. QED
      BY <1>a, <1>b, <2>1, <2>3, <3>1, <3>2
  <2>4. QED
    BY <1>14, <2>1, <2>2, <2>3, TestPriority DEF set_priority_yield
<1>15. ASSUME thread_exit PROVE PriorityInv'
  BY <1>15, BlockSwitch, SwitchPriority, GotoPriority DEF thread_exit, Place
<1>16. ASSUME idle PROVE PriorityInv'
  BY <1>16, BlockSwitch, SwitchPriority, GotoPriority DEF idle, thread_block, Place
<1>17. ASSUME Tick PROVE PriorityInv'
  <2>1. \A t \in AnyThread : pc'[t] = IF t = cur /\ pc[t] = "hlt" THEN "loop" ELSE pc[t]
    BY <1>17, <1>a DEF Tick, LeaveHlt
  <2>2. LocalsKept /\ UNCHANGED <<priority, arg, loc>>
    BY <1>17, <2>1 DEF Tick, LocalsKept
  <2>3. CASE thread_ticks + 1 >= TIME_SLICE
    <3>1. Yield(ready, ticks')
      BY <1>17, <2>3 DEF Tick
    <3>2. QED
      BY <2>2, <3>1, YieldSwitch, SwitchPriority
  <2>4. CASE ~(thread_ticks + 1 >= TIME_SLICE)
    <3>1. UNCHANGED <<status, cur>>
      BY <1>17, <2>4 DEF Tick
    <3>2. ReadySet' = ReadySet
      BY <3>1 DEF ReadySet
    <3>3. \A t : Outranked(t) => Outranked(t)'
      BY <1>a, <2>1, <2>2, <3>1 DEF Outranked
    <3>4. QED
      BY <2>2, <3>1, <3>2, <3>3, StayPriority
  <2>5. QED
    BY <2>3, <2>4
<1>18. ASSUME UNCHANGED vars PROVE PriorityInv'
  BY <1>18 DEF vars, sched, local, PriorityInv, Outranked, ReadySet
<1>19. QED
  BY <1>1, <1>2, <1>3, <1>4, <1>5, <1>6, <1>7, <1>8, <1>9, <1>10, <1>11, <1>12, <1>13,
     <1>14, <1>15, <1>16, <1>17, <1>18
     DEF Next, ThreadStep, lock_acquire, lock_try_acquire, AnySema

\* Ordinary code never runs while a thread of higher priority is ready and the idle
\* thread never while any thread is, as long as no interrupt handler ups a semaphore:
\* sema_up, thread_unblock and thread_set_priority compare and yield in time.
THEOREM PriorityKept ==
    ASSUME IntrSema = {}
    PROVE  Spec => []StrictPriority
<1>1. Init => PriorityInv
  BY ThreadsAssumption DEF Init, PriorityInv, ReadySet, AnyThread
<1>2. QueueInv /\ PriorityInv /\ [Next]_vars => PriorityInv'
  BY PriorityStep
<1>3. QueueInv /\ PriorityInv => StrictPriority
  BY DEF PriorityInv, StrictPriority, ReadySet, Outranked, Running
<1>4. QED
  BY <1>1, <1>2, <1>3, QueueInvariant, PTL DEF Spec

-----------------------------------------------------------------------------
(* Wake-ups.  NoLostWakeup is inductive together with QueueInv: a thread    *)
(* leaves Woken(s) only by retrying, and then it takes a unit or waits      *)
(* again because there is none.                                             *)

\* Sets of threads are finite.
LEMMA ThreadsFinite == \A S \in SUBSET AnyThread : IsFiniteSet(S) /\ Cardinality(S) \in Nat
<1>1. IsFiniteSet(AnyThread)
  BY ThreadsAssumption, FS_AddElement DEF AnyThread
<1>2. QED
  BY <1>1, FS_Subset, FS_CardinalityType

\* A thread other than the running one that is on its way back into sema_down stays so.
OthersStay ==
    \A t \in AnyThread \ {cur} : pc[t] = "down" =>
        /\ pc'[t] = "down" /\ arg'[t] = arg[t]
        /\ status[t] # "BLOCKED" => status'[t] # "BLOCKED"

\* The running thread did not retry on s.
LEMMA WokenStays ==
    ASSUME OthersStay, NEW s \in AnySema, pc[cur] = "down" => arg[cur] # s
    PROVE  /\ Woken(s) \subseteq Woken(s)'
           /\ Cardinality(Woken(s)) <= Cardinality(Woken(s)')
<1>1. Woken(s) \subseteq Woken(s)'
  BY DEF Woken, OthersStay
<1>2. Woken(s)' \subseteq AnyThread
  BY DEF Woken
<1>3. IsFiniteSet(Woken(s)')
  BY <1>2, ThreadsFinite
<1>4. QED
  BY <1>1, <1>3, FS_Subset

\* Nothing is upped or downed.
LEMMA StayWakes ==
    ASSUME QueueInv, NoLostWakeup, OthersStay, pc[cur] # "down", UNCHANGED <<value, waiters>>
    PROVE  NoLostWakeup'
<1> SUFFICES ASSUME NEW s \in AnySema, waiters'[s] # <<>>
             PROVE  value'[s] <= Cardinality(Woken(s)')
  BY DEF NoLostWakeup
<1>1. value[s] <= Cardinality(Woken(s)) /\ value[s] \in Nat
  BY DEF NoLostWakeup, QueueInv, TypeInv, TypeOK
<1>2. Cardinality(Woken(s)) <= Cardinality(Woken(s)')
  BY WokenStays
<1>3. Cardinality(Woken(s)) \in Nat /\ Cardinality(Woken(s)') \in Nat
  BY ThreadsFinite DEF Woken
<1>4. QED
  BY <1>1, <1>2, <1>3

\* One round of sema_down: a thread that retries takes its unit with it.
LEMMA DownWakes ==
    ASSUME QueueInv, NoLostWakeup, OthersStay, NEW s \in AnySema, DownRound(s),
           pc[cur] = "down" => arg[cur] = s
    PROVE  NoLostWakeup'
<1> SUFFICES ASSUME NEW k \in AnySema, waiters'[k] # <<>>
             PROVE  value'[k] <= Cardinality(Woken(k)')
  BY DEF NoLostWakeup
<1>1. /\ value \in [AnySema -> Nat] /\ waiters \in [AnySema -> Seq(AnyThread)]
      /\ cur \in AnyThread /\ status[cur] = "RUNNING"
  BY DEF QueueInv, TypeInv, TypeOK
<1>2. Cardinality(Woken(k)) \in Nat /\ Cardinality(Woken(k)') \in Nat /\ IsFiniteSet(Woken(k)')
  BY ThreadsFinite DEF Woken
<1>3. CASE k # s
  <2>1. value'[k] = value[k] /\ waiters'[k] = waiters[k]
    BY <1>1, <1>3 DEF DownRound
  <2>2. value[k] <= Cardinality(Woken(k))
    BY <2>1 DEF NoLostWakeup
  <2>3. Cardinality(Woken(k)) <= Cardinality(Woken(k)')
    BY <1>3, WokenStays
  <2>4. QED
    BY <1>1, <1>2, <2>1, <2>2, <2>3
<1>4. CASE k = s /\ value[s] = 0
  BY <1>1, <1>2, <1>4 DEF DownRound
<1>5. CASE k = s /\ value[s] # 0
  <2>1. value'[s] = value[s] - 1 /\ waiters'[s] = waiters[s]
    BY <1>1, <1>5 DEF DownRound
  <2>2. value[s] <= Cardinality(Woken(s))
    BY <1>5, <2>1 DEF NoLostWakeup
  <2>3. CASE pc[cur] # "down"
    <3>1. Cardinality(Woken(s)) <= Cardinality(Woken(s)')
      BY <2>3, WokenStays
    <3>2. QED
      BY <1>1, <1>2, <1>5, <2>1, <2>2, <3>1
  <2>4. CASE pc[cur] = "down"
    <3>1. cur \in Woken(s)
      BY <1>1, <2>4 DEF Woken
    <3>2. IsFiniteSet(Woken(s)) /\ IsFiniteSet(Woken(s) \ {cur})
          /\ Cardinality(Woken(s) \ {cur}) = Cardinality(Woken(s)) - 1
      BY <3>1, ThreadsFinite, FS_RemoveElement DEF Woken
    <3>3. Woken(s) \ {cur} \subseteq Woken(s)'
      BY DEF Woken, OthersStay
    <3>4. Cardinality(Woken(s) \ {cur}) <= Cardinality(Woken(s)')
      BY <1>2, <1>5, <3>3, FS_Subset
    <3>5. QED
      BY <1>1, <1>2, <1>5, <2>1, <2>2, <3>2, <3>4
  <2>5. QED
    BY <2>3, <2>4
<1>6. QED
  BY <1>3, <1>4, <1>5

\* sema_up: a new unit comes with a newly woken thread, if any thread waits.
LEMMA RaiseWakes ==
    ASSUME QueueInv, NoLostWakeup, OthersStay, NEW s \in AnySema, Raise(s), pc[cur] # "down"
    PROVE  NoLostWakeup'
<1> SUFFICES ASSUME NEW k \in AnySema, waiters'[k] # <<>>
             PROVE  value'[k] <= Cardinality(Woken(k)')
  BY DEF NoLostWakeup
<1>1. /\ value \in [AnySema -> Nat] /\ waiters \in [AnySema -> Seq(AnyThread)]
      /\ status \in [AnyThread -> Status] /\ cur \in AnyThread /\ status[cur] = "RUNNING"
      /\ WakeOne(s)
  BY DEF QueueInv, TypeInv, TypeOK, Raise, Status
<1>2. Cardinality(Woken(k)) \in Nat /\ Cardinality(Woken(k)') \in Nat /\ IsFiniteSet(Woken(k)')
  BY ThreadsFinite DEF Woken
<1>3. Woken(k) \subseteq Woken(k)' /\ Cardinality(Woken(k)) <= Cardinality(Woken(k)')
  BY WokenStays
<1>4. CASE k # s
  <2>1. value'[k] = value[k] /\ waiters'[k] = waiters[k]
    BY <1>1, <1>4 DEF Raise, WakeOne
  <2>2. QED
    BY <1>1, <1>2, <1>3, <2>1 DEF NoLostWakeup
<1>5. CASE k = s
  <2>1. PICK i \in DOMAIN waiters[s] : status' = [status EXCEPT ![waiters[s][i]] = "READY"]
    BY <1>1, <1>5 DEF WakeOne
  <2> DEFINE w == waiters[s][i]
  <2>2. w \in AnyThread /\ In(waiters[s], w) /\ waiters[s] # <<>>
    BY <1>1 DEF In
  <2>3. status[w] = "BLOCKED" /\ pc[w] = "down" /\ arg[w] = s
    BY <2>2 DEF QueueInv, WaitersAgree, Waiting
  <2>4. w \notin Woken(s) /\ w # cur
    BY <1>1, <2>3 DEF Woken
  <2>5. w \in Woken(s)'
    BY <1>1, <2>1, <2>2, <2>3, <2>4 DEF Woken, OthersStay
  <2> HIDE DEF w
  <2>6. Cardinality(Woken(s) \cup {w}) = Cardinality(Woken(s)) + 1
    BY <2>4, ThreadsFinite, FS_AddElement DEF Woken
  <2>7. Cardinality(Woken(s) \cup {w}) <= Cardinality(Woken(s)')
    BY <1>2, <1>3, <1>5, <2>5, FS_Subset
  <2>8. value[s] <= Cardinality(Woken(s)) /\ value'[s] = value[s] + 1
    BY <1>1, <2>2 DEF NoLostWakeup, Raise
  <2>9. QED
    BY <1>1, <1>2, <1>5, <2>6, <2>7, <2>8
<1>6. QED
  BY <1>4, <1>5

\* Only the running thread moves, and it does not block the others.
LEMMA OthersMove ==
    ASSUME QueueInv,
           \A t \in AnyThread \ {cur} : pc'[t] = pc[t] /\ arg'[t] = arg[t],
           UNCHANGED status \/ \E st \in Status : Switched(st)
    PROVE  OthersStay
<1>1. CASE UNCHANGED status
  BY <1>1 DEF OthersStay
<1>2. ASSUME NEW st \in Status, Switched(st) PROVE OthersStay
  <2>1. \A t \in AnyThread \ {cur} : status'[t] = status[t] \/ status'[t] = "RUNNING"
    BY <1>2 DEF Switched
  <2>2. QED
    BY <2>1 DEF OthersStay
<1>3. QED
  BY <1>1, <1>2

\* The running thread moves itself only.
LEMMA GotoOthers ==
    ASSUME QueueInv, NEW p \in Place, NEW a, NEW n, Goto(p, a, n)
    PROVE  \A t \in AnyThread \ {cur} : pc'[t] = pc[t] /\ arg'[t] = arg[t]
BY GotoMoves

\* sema_up leaves threads that are on their way back into sema_down there.
LEMMA RaiseOthers ==
    ASSUME QueueInv, NEW s \in AnySema, Raise(s),
           \A t \in AnyThread \ {cur} : pc'[t] = pc[t] /\ arg'[t] = arg[t]
    PROVE  OthersStay
<1>1. status \in [AnyThread -> Status] /\ waiters[s] \in Seq(AnyThread)
  BY DEF QueueInv, TypeInv, TypeOK, Status
<1>2. \A t \in AnyThread : status'[t] = status[t] \/ status'[t] = "READY"
  BY <1>1 DEF Raise, WakeOne
<1>3. QED
  BY <1>2 DEF OthersStay

\* Every step keeps the promise that waiters are woken.
LEMMA WakeStep == QueueInv /\ NoLostWakeup /\ [Next]_vars => NoLostWakeup'
<1> SUFFICES ASSUME QueueInv, NoLostWakeup, [Next]_vars PROVE NoLostWakeup'
  OBVIOUS
<1>a. cur \in AnyThread /\ {"READY", "BLOCKED", "DYING"} \subseteq Status
  BY DEF QueueInv, TypeInv, TypeOK, Status
<1>1. ASSUME NEW s \in AnySema, DownRound(s), pc[cur] = "down" => arg[cur] = s
      PROVE  NoLostWakeup'
  <2>1. \/ UNCHANGED status /\ (Goto("hold", s, 0) \/ Goto("run", NULL, 0))
        \/ schedule(ready, "BLOCKED") /\ Goto("down", s, 0)
    BY <1>1 DEF DownRound, Return, sched, thread_block
  <2>2. \A t \in AnyThread \ {cur} : pc'[t] = pc[t] /\ arg'[t] = arg[t]
    BY <2>1, GotoOthers DEF Place
  <2>3. OthersStay
    BY <1>a, <2>1, <2>2, BlockSwitch, OthersMove
  <2>4. QED
    BY <1>1, <2>3, DownWakes
<1>2. ASSUME sema_down_resume PROVE NoLostWakeup'
  <2>1. arg[cur] \in AnySema
    BY <1>2, <1>a DEF sema_down_resume, QueueInv, TypeInv, ArgOK
  <2>2. QED
    BY <1>1, <1>2, <2>1 DEF sema_down_resume
<1>3. ASSUME NEW s \in AnySema, sema_try_down(s) PROVE NoLostWakeup'
  BY <1>1, <1>3 DEF sema_try_down, DownRound, Running
<1>4. ASSUME NEW s \in AnySema, SemaUp(s), pc[cur] # "down" PROVE NoLostWakeup'
  <2>1. PICK n \in PriMax(s) : Goto("upd", s, n)
    BY <1>4 DEF SemaUp
  <2>2. OthersStay
    BY <1>4, <2>1, GotoOthers, RaiseOthers DEF SemaUp, Place
  <2>3. QED
    BY <1>4, <2>2, RaiseWakes DEF SemaUp
<1>5. ASSUME NEW p \in Place, NEW a, NEW n, Goto(p, a, n), pc[cur] # "down",
             UNCHANGED <<value, waiters>>,
             UNCHANGED status \/ Yield(ready, ticks) \/ \E st \in {"BLOCKED", "DYING"} : schedule(ready, st)
      PROVE  NoLostWakeup'
  <2>1. OthersStay
    BY <1>5, <1>a, GotoOthers, YieldSwitch, BlockSwitch, OthersMove
  <2>2. QED
    BY <1>5, <2>1, StayWakes
<1>6. ASSUME sema_up_yield \/ set_priority_yield \/ unblock_yield \/ lock_set_holder PROVE NoLostWakeup'
  <2>1. Goto("run", NULL, 0) /\ pc[cur] # "down" /\ UNCHANGED <<value, waiters>>
    BY <1>6 DEF sema_up_yield, set_priority_yield, unblock_yield, lock_set_holder, Return, synch
  <2>2. UNCHANGED status \/ Yield(ready, ticks)
    BY <1>6 DEF sema_up_yield, set_priority_yield, unblock_yield, lock_set_holder, sched
  <2>3. QED
    BY <1>5, <2>1, <2>2 DEF Place
<1>7. ASSUME NEW l \in Lock, lock_release(l) PROVE NoLostWakeup'
  BY <1>5, <1>7 DEF lock_release, Running, Place, sched
<1>8. ASSUME lock_release_up PROVE NoLostWakeup'
  <2>1. arg[cur] \in AnySema
    BY <1>8, <1>a DEF lock_release_up, QueueInv, TypeInv, ArgOK, AnySema
  <2>2. QED
    BY <1>4, <1>8, <2>1 DEF lock_release_up
<1>9. ASSUME thread_yield PROVE NoLostWakeup'
  <2>1. OthersStay
    BY <1>9, <1>a, YieldSwitch, OthersMove DEF thread_yield, local
  <2>2. QED
    BY <1>9, <2>1, StayWakes DEF thread_yield, Running, synch
<1>10. ASSUME NEW p \in Pri, thread_set_priority(p) PROVE NoLostWakeup'
  BY <1>5, <1>10 DEF thread_set_priority, Running, Place, sched, synch
<1>11. ASSUME NEW t \in Thread, NEW p \in Pri, thread_create(t, p) PROVE NoLostWakeup'
  <2>1. t \in AnyThread /\ pc[t] = "none" /\ pc[cur] = "run" /\ UNCHANGED <<value, waiters>>
    BY <1>11 DEF thread_create, AnyThread, QueueInv, Dead, Running, synch
  <2>2. \A u \in AnyThread \ {cur, t} : status'[u] = status[u] /\ pc'[u] = pc[u] /\ arg'[u] = arg[u]
    BY <1>11 DEF thread_create, QueueInv, TypeInv, TypeOK
  <2>3. OthersStay
    BY <2>1, <2>2 DEF OthersStay
  <2>4. QED
    BY <2>1, <2>3, StayWakes
<1>12. ASSUME thread_unblock PROVE NoLostWakeup'
  <2>1. PICK top \in Pri : Goto("unbl", arg[cur], top)
    BY <1>12 DEF thread_unblock
  <2>2. \A t \in AnyThread : status'[t] = status[t] \/ status'[t] = "READY"
    BY <1>12 DEF thread_unblock, QueueInv, TypeInv, TypeOK
  <2>3. OthersStay
    BY <2>1, <2>2, GotoOthers DEF OthersStay, Place
  <2>4. QED
    BY <1>12, <2>3, StayWakes DEF thread_unblock, synch
<1>13. ASSUME thread_exit PROVE NoLostWakeup'
  BY <1>5, <1>13 DEF thread_exit, Running, Place, synch
<1>14. ASSUME idle PROVE NoLostWakeup'
  BY <1>5, <1>14 DEF idle, thread_block, Place, synch
<1>15. ASSUME LeaveHlt, UNCHANGED arg
       PROVE  \A t \in AnyThread \ {cur} : pc'[t] = pc[t] /\ arg'[t] = arg[t]
  BY <1>15 DEF LeaveHlt, QueueInv, TypeInv, TypeOK
<1>16. ASSUME Tick PROVE NoLostWakeup'
  <2>1. UNCHANGED status \/ Yield(ready, ticks')
    BY <1>16 DEF Tick
  <2>2. OthersStay
    BY <1>15, <1>16, <1>a, <2>1, YieldSwitch, OthersMove DEF Tick
  <2>3. QED
    BY <1>16, <2>2, StayWakes DEF Tick, IntrOn, synch
<1>17. ASSUME NEW s \in IntrSema, InterruptUp(s) PROVE NoLostWakeup'
  <2>1. s \in AnySema
    BY ThreadsAssumption DEF AnySema
  <2>2. QED
    BY <1>15, <1>17, <2>1, RaiseOthers, RaiseWakes DEF InterruptUp, IntrOn
<1>18. ASSUME UNCHANGED vars PROVE NoLostWakeup'
  BY <1>18 DEF vars, sched, synch, local, NoLostWakeup, Woken
<1>19. QED
  BY <1>1, <1>2, <1>3, <1>4, <1>6, <1>7, <1>8, <1>9, <1>10, <1>11, <1>12, <1>13, <1>14,
     <1>16, <1>17, <1>18
     DEF Next, ThreadStep, sema_down, sema_up, lock_acquire, lock_try_acquire, AnySema, Running

\* No wake-up is lost, for any number of threads: while threads wait on a semaphore,
\* there are at least as many woken threads about to retry as it has units, however
\* sema_down, sema_up, sema_try_down and the interrupt handlers interleave.
THEOREM WakeupsKept == Spec => []NoLostWakeup
<1>1. Init => NoLostWakeup
  BY DEF Init, NoLostWakeup
<1>2. QED
  BY <1>1, WakeStep, QueueInvariant, PTL DEF Spec

=============================================================================
