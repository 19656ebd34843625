----------------------------- MODULE SynchProofs ----------------------------
(***************************************************************************)
(* Proofs about the two ways threads share the kernel's services through a *)
(* lock: condition variables (Monitor), for any number of threads, and the *)
(* console (Console), for any number of threads, calls and nesting.        *)
(***************************************************************************)
EXTENDS Monitor, Console, FiniteSetTheorems, SequenceTheorems, TLAPS

-----------------------------------------------------------------------------
(* Sequences.                                                              *)

\* The elements of a sequence.
LEMMA ToSetOf ==
    ASSUME NEW S, NEW q \in Seq(S)
    PROVE  /\ ToSet(q) = {q[i] : i \in 1 .. Len(q)}
           /\ ToSet(q) \subseteq S
           /\ q = <<>> <=> ToSet(q) = {}
<1>1. DOMAIN q = 1 .. Len(q) /\ \A i \in 1 .. Len(q) : q[i] \in S
  OBVIOUS
<1>2. ToSet(q) = {q[i] : i \in 1 .. Len(q)} /\ ToSet(q) \subseteq S
  BY <1>1 DEF ToSet
<1>3. q = <<>> => ToSet(q) = {}
  BY <1>2
<1>4. q # <<>> => q[1] \in ToSet(q)
  <2>1. q # <<>> => 1 \in 1 .. Len(q)
    OBVIOUS
  <2>2. QED
    BY <1>2, <2>1
<1>5. QED
  BY <1>2, <1>3, <1>4

\* A thread that joins a list.
LEMMA AppendSet ==
    ASSUME NEW S, NEW q \in Seq(S), NEW x \in S
    PROVE  ToSet(Append(q, x)) = ToSet(q) \cup {x}
<1>1. Append(q, x) \in Seq(S) /\ Len(Append(q, x)) = Len(q) + 1
      /\ \A i \in 1 .. Len(q) : Append(q, x)[i] = q[i]
      /\ Append(q, x)[Len(q) + 1] = x
  OBVIOUS
<1>2. QED
  BY <1>1 DEF ToSet

\* A sequence without repetitions loses its head, once.
LEMMA TailSet ==
    ASSUME NEW S, NEW q \in Seq(S), q # <<>>,
           \A i, j \in 1 .. Len(q) : q[i] = q[j] => i = j
    PROVE  /\ Tail(q) \in Seq(S) /\ Head(q) \in ToSet(q)
           /\ ToSet(Tail(q)) = ToSet(q) \ {Head(q)}
           /\ \A i, j \in 1 .. Len(Tail(q)) : Tail(q)[i] = Tail(q)[j] => i = j
<1>1. /\ Tail(q) \in Seq(S) /\ Len(Tail(q)) = Len(q) - 1 /\ Len(q) >= 1
      /\ \A i \in 1 .. Len(q) - 1 : Tail(q)[i] = q[i + 1]
      /\ Head(q) = q[1]
  OBVIOUS
<1>2. ToSet(Tail(q)) = ToSet(q) \ {Head(q)}
  <2>1. ASSUME NEW x \in ToSet(Tail(q)) PROVE x \in ToSet(q) \ {Head(q)}
    <3>1. PICK i \in 1 .. Len(q) - 1 : x = q[i + 1]
      BY <1>1, <2>1 DEF ToSet
    <3>2. i + 1 \in 1 .. Len(q) /\ i + 1 # 1 /\ 1 \in 1 .. Len(q)
      BY <1>1
    <3>3. QED
      BY <1>1, <3>1, <3>2 DEF ToSet
  <2>2. ASSUME NEW x \in ToSet(q) \ {Head(q)} PROVE x \in ToSet(Tail(q))
    <3>1. PICK i \in 1 .. Len(q) : x = q[i] /\ i # 1
      BY <1>1, <2>2 DEF ToSet
    <3>2. i - 1 \in 1 .. Len(Tail(q)) /\ Tail(q)[i - 1] = x
      BY <1>1, <3>1
    <3>3. ToSet(Tail(q)) = {Tail(q)[k] : k \in 1 .. Len(Tail(q))}
      BY <1>1, ToSetOf
    <3>4. QED
      BY <3>2, <3>3
  <2>3. QED
    BY <2>1, <2>2
<1>3. \A i, j \in 1 .. Len(Tail(q)) : Tail(q)[i] = Tail(q)[j] => i = j
  BY <1>1
<1>4. Head(q) \in ToSet(q)
  <2>1. 1 \in 1 .. Len(q)
    BY <1>1
  <2>2. QED
    BY <1>1, <2>1, ToSetOf
<1>5. QED
  BY <1>1, <1>2, <1>3, <1>4

-----------------------------------------------------------------------------
(* Condition variables.                                                    *)

Where == {"outside", "inside", "release", "down", "acquire", "broadcast"}

Distinct == \A i, j \in 1 .. Len(waiters) : waiters[i] = waiters[j] => i = j

\* A broadcast has yet to wake only threads that still wait.
MonitorInv ==
    /\ owner \in Client \cup {NULL}
    /\ waiters \in Seq(Client) /\ Distinct /\ IsFiniteSet(ToSet(waiters))
    /\ semaphore \in [Client -> Nat] /\ at \in [Client -> Where]
    /\ due \subseteq ToSet(waiters)
    /\ SignalsExact

\* A thread that holds the lock and ups the front waiter's semaphore.
LEMMA WakeStep ==
    ASSUME MonitorInv, NEW t \in Client, at[t] \in {"inside", "broadcast"},
           waiters # <<>>, WakeFront, UNCHANGED <<owner, at>>
    PROVE  MonitorInv'
<1> DEFINE h == Head(waiters)
<1>1. /\ waiters' \in Seq(Client) /\ h \in ToSet(waiters) /\ h \in Client
      /\ ToSet(waiters') = ToSet(waiters) \ {h} /\ Distinct'
  BY TailSet, ToSetOf DEF MonitorInv, Distinct, WakeFront
<1>2. Len(waiters') = Len(waiters) - 1
  BY DEF MonitorInv, WakeFront
<1>3. IsFiniteSet(ToSet(waiters')) /\ Cardinality(ToSet(waiters')) = Len(waiters')
  <2>1. /\ IsFiniteSet(ToSet(waiters) \ {h})
        /\ Cardinality(ToSet(waiters) \ {h}) = Cardinality(ToSet(waiters)) - 1
    BY <1>1, FS_RemoveElement DEF MonitorInv
  <2>2. QED
    BY <1>1, <1>2, <2>1 DEF MonitorInv, SignalsExact
<1>4. at[h] = "down" /\ semaphore[h] = 0
  BY <1>1 DEF MonitorInv, SignalsExact
<1>5. semaphore' = [semaphore EXCEPT ![h] = 1] /\ due' = due \ {h}
  BY <1>1, <1>4 DEF MonitorInv, WakeFront
<1> HIDE DEF h
<1>6. semaphore' \in [Client -> Nat]
  BY <1>5 DEF MonitorInv
<1>7. \A c \in Client :
         /\ owner' = c <=> at'[c] \in {"inside", "release", "broadcast"}
         /\ c \in ToSet(waiters')
               <=> at'[c] = "release" \/ (at'[c] = "down" /\ semaphore'[c] = 0)
         /\ semaphore'[c] = 0 \/ (semaphore'[c] = 1 /\ at'[c] = "down")
  BY <1>1, <1>4, <1>5 DEF MonitorInv, SignalsExact
<1>8. (\A c \in Client : at'[c] # "broadcast") => due' = {}
  BY <1>5 DEF MonitorInv, SignalsExact
<1>9. due' \subseteq ToSet(waiters')
  BY <1>1, <1>5 DEF MonitorInv
<1>10. SignalsExact'
  BY <1>3, <1>7, <1>8 DEF SignalsExact
<1>11. QED
  BY <1>1, <1>3, <1>6, <1>9, <1>10 DEF MonitorInv

\* Every step of the threads in the monitor keeps the invariant.
LEMMA MonitorStep == MonitorInv /\ [MonitorNext]_monitorVars => MonitorInv'
<1> SUFFICES ASSUME MonitorInv, [MonitorNext]_monitorVars PROVE MonitorInv'
  OBVIOUS
<1> USE MonitorAssumption
<1>1. ASSUME NEW t \in Client, Enter(t) PROVE MonitorInv'
  BY <1>1 DEF Enter, Goto, MonitorInv, SignalsExact, Distinct, Where
<1>2. ASSUME NEW t \in Client, Leave(t) PROVE MonitorInv'
  BY <1>2 DEF Leave, Goto, MonitorInv, SignalsExact, Distinct, Where
<1>3. ASSUME NEW t \in Client, cond_wait(t) PROVE MonitorInv'
  <2> USE <1>3 DEF cond_wait, Goto
  <2>1. t \notin ToSet(waiters) /\ due = {} /\ semaphore[t] = 0
    BY DEF MonitorInv, SignalsExact
  <2>2. /\ waiters' \in Seq(Client) /\ Len(waiters') = Len(waiters) + 1
        /\ ToSet(waiters') = ToSet(waiters) \cup {t}
    BY AppendSet DEF MonitorInv
  <2>3. Distinct'
    BY <2>1, ToSetOf DEF MonitorInv, Distinct
  <2>4. IsFiniteSet(ToSet(waiters')) /\ Cardinality(ToSet(waiters')) = Len(waiters')
    <3>1. IsFiniteSet(ToSet(waiters)) /\ Cardinality(ToSet(waiters)) = Len(waiters)
      BY DEF MonitorInv, SignalsExact
    <3>2. /\ IsFiniteSet(ToSet(waiters) \cup {t})
          /\ Cardinality(ToSet(waiters) \cup {t}) = Cardinality(ToSet(waiters)) + 1
      BY <2>1, <3>1, FS_AddElement
    <3>3. QED
      BY <2>2, <3>1, <3>2
  <2>5. semaphore' = semaphore /\ at' \in [Client -> Where]
    BY <2>1 DEF MonitorInv, Where
  <2>6. \A c \in Client :
           /\ owner' = c <=> at'[c] \in {"inside", "release", "broadcast"}
           /\ c \in ToSet(waiters')
                 <=> at'[c] = "release" \/ (at'[c] = "down" /\ semaphore'[c] = 0)
           /\ semaphore'[c] = 0 \/ (semaphore'[c] = 1 /\ at'[c] = "down")
    BY <2>1, <2>2, <2>5 DEF MonitorInv, SignalsExact
  <2>7. QED
    BY <2>1, <2>2, <2>3, <2>4, <2>5, <2>6 DEF MonitorInv, SignalsExact
<1>4. ASSUME NEW t \in Client, wait_release(t) PROVE MonitorInv'
  BY <1>4 DEF wait_release, Goto, MonitorInv, SignalsExact, Distinct, Where
<1>5. ASSUME NEW t \in Client, wait_down(t) PROVE MonitorInv'
  <2>1. semaphore' = [semaphore EXCEPT ![t] = 0]
    <3>1. semaphore[t] > 0 /\ semaphore' = [semaphore EXCEPT ![t] = semaphore[t] - 1]
      BY <1>5 DEF wait_down
    <3>2. semaphore[t] = 0 \/ semaphore[t] = 1
      BY DEF MonitorInv, SignalsExact
    <3>3. semaphore[t] - 1 = 0
      BY <3>1, <3>2
    <3>4. QED
      BY <3>1, <3>3
  <2>2. QED
    BY <1>5, <2>1 DEF wait_down, Goto, MonitorInv, SignalsExact, Distinct, Where
<1>6. ASSUME NEW t \in Client, wait_acquire(t) PROVE MonitorInv'
  BY <1>6 DEF wait_acquire, Goto, MonitorInv, SignalsExact, Distinct, Where
<1>7. ASSUME NEW t \in Client, cond_signal(t) PROVE MonitorInv'
  <2>1. CASE waiters = <<>>
    BY <1>7, <2>1 DEF cond_signal, MonitorInv, SignalsExact, Distinct
  <2>2. CASE waiters # <<>>
    BY <1>7, <2>2, WakeStep DEF cond_signal
  <2>3. QED
    BY <2>1, <2>2
<1>8. ASSUME NEW t \in Client, cond_broadcast(t) PROVE MonitorInv'
  BY <1>8 DEF cond_broadcast, Goto, MonitorInv, SignalsExact, Distinct, Where
<1>9. ASSUME NEW t \in Client, broadcast_loop(t) PROVE MonitorInv'
  <2>1. CASE waiters = <<>>
    <3>1. due = {}
      BY <2>1, ToSetOf DEF MonitorInv
    <3>2. QED
      BY <1>9, <2>1, <3>1 DEF broadcast_loop, Goto, MonitorInv, SignalsExact, Distinct, Where
  <2>2. CASE waiters # <<>>
    BY <1>9, <2>2, WakeStep DEF broadcast_loop
  <2>3. QED
    BY <2>1, <2>2
<1>10. CASE UNCHANGED monitorVars
  BY <1>10 DEF monitorVars, MonitorInv, SignalsExact, Distinct
<1>11. QED
  BY <1>1, <1>2, <1>3, <1>4, <1>5, <1>6, <1>7, <1>8, <1>9, <1>10 DEF MonitorNext, AllWait

\* Nobody waits at first.
LEMMA MonitorStart == MonitorInit => MonitorInv
<1> SUFFICES ASSUME MonitorInit PROVE MonitorInv
  OBVIOUS
<1>1. waiters \in Seq(Client) /\ Len(waiters) = 0 /\ ToSet(waiters) = {}
  <2>1. waiters = <<>> /\ waiters \in Seq(Client) /\ Len(waiters) = 0
    BY DEF MonitorInit
  <2>2. QED
    BY <2>1, ToSetOf
<1>2. IsFiniteSet({}) /\ Cardinality({}) = 0
  BY FS_EmptySet
<1>3. Distinct /\ semaphore \in [Client -> Nat] /\ at \in [Client -> Where]
  BY <1>1 DEF MonitorInit, Distinct, Where
<1>4. SignalsExact
  BY <1>1, <1>2, MonitorAssumption DEF MonitorInit, SignalsExact
<1>5. QED
  BY <1>1, <1>2, <1>3, <1>4 DEF MonitorInit, MonitorInv

MonitorSpec == MonitorInit /\ [][MonitorNext]_monitorVars

\* However many threads wait, signal and broadcast, and wherever they are switched, no
\* signal is lost, doubled or left for a later wait.
THEOREM SignalsAreExact == MonitorSpec => []SignalsExact
<1>1. MonitorInv => SignalsExact
  BY DEF MonitorInv
<1>2. QED
  BY <1>1, MonitorStart, MonitorStep, PTL DEF MonitorSpec

-----------------------------------------------------------------------------
(* Console.                                                                *)

Call == [at : {"acquire", "write"}, left : Nat]

\* All calls of a thread but the innermost are writing.
Nested == {s \in Seq(Call) : \A i \in 1 .. Len(s) - 1 : s[i].at = "write"}

\* How many of them are.
Writes(s) == IF s = <<>> THEN 0 ELSE IF Last(s).at = "write" THEN Len(s) ELSE Len(s) - 1

\* In a nesting of calls, the ones that write are the outer ones.
LEMMA WritesOf ==
    ASSUME NEW s \in Nested
    PROVE  /\ {i \in DOMAIN s : s[i].at = "write"} = 1 .. Writes(s)
           /\ Writes(s) \in Nat
<1>1. s \in Seq(Call) /\ \A i \in 1 .. Len(s) - 1 : s[i].at = "write"
  BY DEF Nested
<1>2. CASE s = <<>>
  BY <1>2 DEF Writes
<1>3. CASE s # <<>>
  <2>1. Len(s) \in Nat /\ Len(s) >= 1 /\ DOMAIN s = 1 .. Len(s) /\ Last(s) = s[Len(s)]
    BY <1>1, <1>3 DEF Last
  <2>2. CASE Last(s).at = "write"
    BY <1>1, <1>3, <2>1, <2>2 DEF Writes
  <2>3. CASE Last(s).at # "write"
    BY <1>1, <1>3, <2>1, <2>3 DEF Writes
  <2>4. QED
    BY <2>2, <2>3
<1>4. QED
  BY <1>2, <1>3

\* A call begins inside one that writes.
LEMMA BeginWrites ==
    ASSUME NEW s \in Nested, NEW n \in Nat, s = <<>> \/ Last(s).at = "write"
    PROVE  LET r == Append(s, [at |-> "acquire", left |-> n])
           IN  r \in Nested /\ Writes(r) = Writes(s)
<1> DEFINE c == [at |-> "acquire", left |-> n]
           r == Append(s, c)
<1>1. c \in Call /\ c.at = "acquire"
  BY DEF Call
<1> HIDE DEF c
<1>2. s \in Seq(Call) /\ \A i \in 1 .. Len(s) - 1 : s[i].at = "write"
  BY DEF Nested
<1>3. /\ r \in Seq(Call) /\ Len(r) = Len(s) + 1 /\ r # <<>> /\ Last(r) = c
      /\ \A i \in 1 .. Len(s) : r[i] = s[i]
  BY <1>1, <1>2, AppendProperties DEF Last
<1> HIDE DEF r
<1>4. \A i \in 1 .. Len(s) : s[i].at = "write"
  BY <1>2 DEF Last
<1>5. Writes(s) = Len(s) /\ Writes(r) = Len(s)
  BY <1>1, <1>2, <1>3 DEF Writes
<1>6. r \in Nested
  BY <1>2, <1>3, <1>4 DEF Nested
<1>7. QED
  BY <1>5, <1>6 DEF r, c

\* The innermost call goes on.
LEMMA GoesWrites ==
    ASSUME NEW s \in Nested, s # <<>>, NEW c \in Call
    PROVE  LET r == [s EXCEPT ![Len(s)] = c]
           IN  /\ r \in Nested
               /\ c.at = Last(s).at => Writes(r) = Writes(s)
               /\ c.at = "write" /\ Last(s).at = "acquire" => Writes(r) = Writes(s) + 1
<1> DEFINE r == [s EXCEPT ![Len(s)] = c]
<1>1. s \in Seq(Call) /\ (\A i \in 1 .. Len(s) - 1 : s[i].at = "write") /\ Len(s) \in Nat /\ Len(s) >= 1
  BY DEF Nested
<1>2. /\ r \in Seq(Call) /\ Len(r) = Len(s) /\ r # <<>> /\ Last(r) = c
      /\ \A i \in 1 .. Len(s) - 1 : r[i] = s[i]
  BY <1>1 DEF Last
<1> HIDE DEF r
<1>3. r \in Nested
  BY <1>1, <1>2 DEF Nested
<1>4. c.at = Last(s).at => Writes(r) = Writes(s)
  BY <1>1, <1>2 DEF Writes
<1>5. c.at = "write" /\ Last(s).at = "acquire" => Writes(r) = Writes(s) + 1
  BY <1>1, <1>2 DEF Writes
<1>6. QED
  BY <1>3, <1>4, <1>5 DEF r

\* The innermost call returns.
LEMMA FrontWrites ==
    ASSUME NEW s \in Nested, s # <<>>, Last(s).at = "write"
    PROVE  /\ Front(s) \in Nested /\ Writes(Front(s)) = Writes(s) - 1
           /\ Writes(s) = Len(s)
<1>1. s \in Seq(Call) /\ (\A i \in 1 .. Len(s) - 1 : s[i].at = "write") /\ Len(s) \in Nat /\ Len(s) >= 1
  BY DEF Nested
<1>2. /\ Front(s) \in Seq(Call) /\ Len(Front(s)) = Len(s) - 1
      /\ \A i \in 1 .. Len(s) - 1 : Front(s)[i] = s[i]
  <2> DEFINE n == Len(s) - 1
  <2>1. n \in Nat /\ n \in Int /\ 1 \in Int /\ \A i \in 1 .. n : s[i] \in Call
    BY <1>1
  <2>2. n = Len(s) - 1
    OBVIOUS
  <2> HIDE DEF n
  <2>3. /\ SubSeq(s, 1, n) \in Seq(Call)
        /\ Len(SubSeq(s, 1, n)) = IF 1 <= n THEN n - 1 + 1 ELSE 0
        /\ \A i \in 1 .. n - 1 + 1 : SubSeq(s, 1, n)[i] = s[1 + i - 1]
    BY <2>1, SubSeqProperties
  <2>4. QED
    BY <2>1, <2>2, <2>3 DEF Front
<1>3. Front(s) \in Nested
  BY <1>1, <1>2 DEF Nested
<1>4. Writes(Front(s)) = Len(s) - 1
  <2>1. CASE Front(s) = <<>>
    BY <1>1, <1>2, <2>1 DEF Writes
  <2>2. CASE Front(s) # <<>>
    <3>1. Len(s) - 1 \in 1 .. Len(s) - 1
      BY <1>1, <1>2, <2>2
    <3>2. Last(Front(s)).at = "write"
      BY <1>1, <1>2, <3>1 DEF Last
    <3>3. QED
      BY <1>2, <2>2, <3>2 DEF Writes
  <2>3. QED
    BY <2>1, <2>2
<1>5. QED
  BY <1>3, <1>4 DEF Writes

Char == (Printer \X Nat) \cup {Handler}

ConsoleType ==
    /\ use_console_lock \in BOOLEAN
    /\ holder \in Printer \cup {NULL} /\ console_lock_depth \in Nat
    /\ calls \in [Printer -> Nested]
    /\ out \in Seq(Char) /\ made \in [Printer -> Nat]

\* The thread with calls that are writing has the lock, as deep as they are nested.
HolderInv ==
    /\ \A t \in Printer : Writes(calls[t]) > 0 <=> holder = t
    /\ console_lock_depth = IF holder = NULL THEN 0 ELSE Writes(calls[holder]) - 1

\* No output of a call a thread has yet to make; none of one that has yet to write; and
\* while a call writes, nothing but handlers' output since it began to.
OutInv ==
    /\ \A i \in DOMAIN out : out[i] # Handler => out[i][2] <= made[out[i][1]]
    /\ \A t \in Printer : \A i \in DOMAIN out :
          out[i] # Handler /\ out[i] = <<t, made[t]>> =>
              /\ Writes(calls[t]) > 0
              /\ \A j \in DOMAIN out : i < j => out[j] \in {out[i], Handler}
    /\ \A i, j, k \in DOMAIN out :
          i < j /\ j < k /\ out[i] = out[k] /\ out[i] # Handler => out[j] \in {out[i], Handler}

ConsoleInv == ConsoleType /\ (use_console_lock => HolderInv /\ OutInv)

\* The invariant says what the property promises.
LEMMA ConsoleSafe == ConsoleInv => OutputUnmixed
<1> SUFFICES ASSUME ConsoleInv PROVE OutputUnmixed
  OBVIOUS
<1> DEFINE in == {t \in Printer : \E i \in DOMAIN calls[t] : calls[t][i].at = "write"}
           writing(t) == {i \in DOMAIN calls[t] : calls[t][i].at = "write"}
<1>1. \A t \in Printer : writing(t) = 1 .. Writes(calls[t]) /\ Writes(calls[t]) \in Nat
  BY WritesOf DEF ConsoleInv, ConsoleType
<1>2. \A t \in Printer : t \in in <=> Writes(calls[t]) > 0
  <2> TAKE t \in Printer
  <2>1. t \in in <=> writing(t) # {}
    OBVIOUS
  <2>2. writing(t) # {} <=> Writes(calls[t]) > 0
    BY <1>1
  <2>3. QED
    BY <2>1, <2>2
<1>3. \A t \in in : console_locked_by_current_thread(t)
  BY <1>2 DEF ConsoleInv, HolderInv, console_locked_by_current_thread
<1>4. ASSUME use_console_lock PROVE in = {holder} \ {NULL}
  BY <1>2, <1>4, ConsoleAssumption DEF ConsoleInv, ConsoleType, HolderInv
<1>5. ASSUME use_console_lock
      PROVE  console_lock_depth = IF in = {} THEN 0 ELSE Cardinality(writing(holder)) - 1
  <2>1. CASE holder = NULL
    BY <1>4, <1>5, <2>1 DEF ConsoleInv, HolderInv
  <2>2. CASE holder # NULL
    <3>1. holder \in Printer /\ in # {}
      BY <1>4, <1>5, <2>2 DEF ConsoleInv, ConsoleType
    <3>2. writing(holder) = 1 .. Writes(calls[holder]) /\ Writes(calls[holder]) \in Nat
      BY <1>1, <3>1
    <3>3. Cardinality(writing(holder)) = Writes(calls[holder])
      <4> DEFINE w == Writes(calls[holder])
      <4>1. w \in Nat
        BY <3>2
      <4> HIDE DEF w
      <4>2. Cardinality(1 .. w) = w
        BY <4>1, FS_Interval
      <4>3. QED
        BY <3>2, <4>2 DEF w
    <3>4. QED
      BY <1>5, <2>2, <3>1, <3>3 DEF ConsoleInv, HolderInv
  <2>3. QED
    BY <2>1, <2>2
<1>6. use_console_lock =>
          \A i, j, k \in DOMAIN out :
             i < j /\ j < k /\ out[i] = out[k] /\ out[i] # Handler =>
                 out[j] \in {out[i], Handler}
  BY DEF ConsoleInv, OutInv
<1>7. QED
  BY <1>3, <1>4, <1>5, <1>6 DEF OutputUnmixed

\* A character more.
LEMMA OutMore ==
    ASSUME ConsoleType, NEW c \in Char, out' = Append(out, c)
    PROVE  /\ out' \in Seq(Char) /\ DOMAIN out' = DOMAIN out \cup {Len(out) + 1}
           /\ \A i \in DOMAIN out : out'[i] = out[i] /\ i < Len(out) + 1 /\ i \in Nat
           /\ out'[Len(out) + 1] = c /\ Len(out) + 1 \in Nat
           /\ \A i \in DOMAIN out : ~(Len(out) + 1 < i)
<1>1. out \in Seq(Char) /\ DOMAIN out = 1 .. Len(out) /\ Len(out) \in Nat
  BY DEF ConsoleType
<1>2. /\ out' \in Seq(Char) /\ Len(out') = Len(out) + 1
      /\ \A i \in 1 .. Len(out) : out'[i] = out[i]
      /\ out'[Len(out) + 1] = c
  BY <1>1, AppendProperties
<1>3. DOMAIN out' = 1 .. Len(out) + 1
  BY <1>2
<1>4. QED
  BY <1>1, <1>2, <1>3

\* What thread t's calls become, and how many of them write.
LEMMA CallsOf ==
    ASSUME ConsoleType, NEW t \in Printer, NEW s \in Nested, calls' = [calls EXCEPT ![t] = s]
    PROVE  /\ calls' \in [Printer -> Nested] /\ calls'[t] = s
           /\ \A u \in Printer \ {t} : calls'[u] = calls[u]
           /\ \A u \in Printer : Writes(calls[u]) \in Nat /\ Writes(calls'[u]) \in Nat
<1>1. /\ calls' \in [Printer -> Nested] /\ calls'[t] = s
      /\ \A u \in Printer \ {t} : calls'[u] = calls[u]
      /\ \A u \in Printer : calls[u] \in Nested /\ calls'[u] \in Nested
  BY DEF ConsoleType
<1>2. QED
  BY <1>1, WritesOf

\* Steps that leave the lock, the output and the number of writing calls alone.
LEMMA QuietStep ==
    ASSUME ConsoleInv, NEW t \in Printer, NEW s \in Nested, calls' = [calls EXCEPT ![t] = s],
           Writes(s) = Writes(calls[t]),
           UNCHANGED <<use_console_lock, holder, console_lock_depth, out, made>>
    PROVE  ConsoleInv'
<1>1. /\ calls' \in [Printer -> Nested]
      /\ \A u \in Printer : Writes(calls'[u]) = Writes(calls[u])
  BY CallsOf DEF ConsoleInv
<1>2. ConsoleType'
  BY <1>1 DEF ConsoleInv, ConsoleType
<1>3. HolderInv => HolderInv'
  BY <1>1 DEF ConsoleInv, ConsoleType, HolderInv
<1>4. OutInv => OutInv'
  BY <1>1 DEF OutInv
<1>5. QED
  BY <1>2, <1>3, <1>4 DEF ConsoleInv

\* Every step keeps the invariant.
LEMMA ConsoleStep == ConsoleInv /\ [ConsoleNext]_consoleVars => ConsoleInv'
<1> SUFFICES ASSUME ConsoleInv, [ConsoleNext]_consoleVars PROVE ConsoleInv'
  OBVIOUS
<1>1. /\ ConsoleType /\ NULL \notin Printer
      /\ \A t \in Printer : calls[t] \in Nested /\ calls[t] \in Seq(Call)
      /\ \A t \in Printer : Writes(calls[t]) \in Nat
  BY ConsoleAssumption, WritesOf DEF ConsoleInv, ConsoleType, Nested
<1>2. ASSUME NEW t \in Printer, NEW n \in 0 .. MaxChars, Begin(t, n) PROVE ConsoleInv'
  <2> DEFINE s == Append(calls[t], [at |-> "acquire", left |-> n])
  <2>1. n \in Nat
    BY ConsoleAssumption
  <2>2. s \in Nested /\ Writes(s) = Writes(calls[t])
    BY <1>1, <1>2, <2>1, BeginWrites DEF Begin, Is, Inner
  <2>3. calls' = [calls EXCEPT ![t] = s]
    BY <1>2 DEF Begin
  <2> HIDE DEF s
  <2>4. QED
    BY <1>2, <2>2, <2>3, QuietStep DEF Begin
<1>3. ASSUME NEW t \in Printer, acquire_console(t) PROVE ConsoleInv'
  <2> DEFINE c == [Inner(t) EXCEPT !.at = "write"]
             s == [calls[t] EXCEPT ![Len(calls[t])] = c]
  <2>1. calls[t] # <<>> /\ Last(calls[t]).at = "acquire" /\ Last(calls[t]) \in Call
    BY <1>1, <1>3 DEF acquire_console, Is, Inner, Last
  <2>2. c \in Call /\ c.at = "write"
    BY <2>1 DEF Inner, Call
  <2>3. calls' = [calls EXCEPT ![t] = s]
    BY <1>3 DEF acquire_console, Goes
  <2> HIDE DEF c
  <2>4. s \in Nested /\ Writes(s) = Writes(calls[t]) + 1
    BY <1>1, <2>1, <2>2, GoesWrites
  <2> HIDE DEF s
  <2>5. /\ calls' \in [Printer -> Nested] /\ Writes(calls'[t]) = Writes(calls[t]) + 1
        /\ \A u \in Printer \ {t} : Writes(calls'[u]) = Writes(calls[u])
    BY <1>1, <2>3, <2>4, CallsOf
  <2>6. UNCHANGED <<use_console_lock, out, made>>
    BY <1>3 DEF acquire_console
  <2>7. CASE ~use_console_lock
    BY <1>1, <1>3, <2>5, <2>6, <2>7 DEF acquire_console, ConsoleInv, ConsoleType
  <2>8. CASE use_console_lock
    <3>1. HolderInv /\ OutInv
      BY <2>8 DEF ConsoleInv
    <3>2. OutInv'
      BY <1>1, <2>5, <2>6, <3>1 DEF OutInv
    <3>3. CASE holder = t
      <4>1. console_lock_depth' = console_lock_depth + 1 /\ holder' = t
        BY <1>3, <2>8, <3>3 DEF acquire_console
      <4>2. ConsoleType'
        BY <1>1, <2>5, <2>6, <4>1 DEF ConsoleType
      <4>3. console_lock_depth' = Writes(calls'[t]) - 1
        BY <1>1, <2>5, <3>1, <3>3, <4>1 DEF ConsoleType, HolderInv
      <4>4. \A u \in Printer : Writes(calls'[u]) > 0 <=> holder' = u
        BY <1>1, <2>5, <3>1, <3>3, <4>1 DEF HolderInv
      <4>5. HolderInv'
        BY <1>1, <4>1, <4>3, <4>4 DEF HolderInv
      <4>6. QED
        BY <3>2, <4>2, <4>5 DEF ConsoleInv
    <3>4. CASE holder # t
      <4>1. holder = NULL /\ holder' = t /\ console_lock_depth' = console_lock_depth
        BY <1>3, <2>8, <3>4 DEF acquire_console
      <4>2. ConsoleType'
        BY <1>1, <2>5, <2>6, <4>1 DEF ConsoleType
      <4>3. Writes(calls[t]) = 0 /\ console_lock_depth = 0
        BY <1>1, <3>1, <4>1 DEF HolderInv
      <4>4. Writes(calls'[t]) = 1
        BY <2>5, <4>3
      <4>5. \A u \in Printer : Writes(calls'[u]) > 0 <=> holder' = u
        BY <1>1, <2>5, <3>1, <4>1, <4>4 DEF HolderInv
      <4>6. HolderInv'
        BY <1>1, <4>1, <4>3, <4>4, <4>5 DEF HolderInv
      <4>7. QED
        BY <3>2, <4>2, <4>6 DEF ConsoleInv
    <3>5. QED
      BY <3>3, <3>4
  <2>9. QED
    BY <2>7, <2>8
<1>4. ASSUME NEW t \in Printer, putchar_have_lock(t) PROVE ConsoleInv'
  <2> DEFINE c == [Inner(t) EXCEPT !.left = @ - 1]
             s == [calls[t] EXCEPT ![Len(calls[t])] = c]
             x == <<t, made[t]>>
  <2>1. /\ calls[t] # <<>> /\ Last(calls[t]).at = "write" /\ Last(calls[t]) \in Call
        /\ Last(calls[t]).left > 0
    BY <1>1, <1>4 DEF putchar_have_lock, Is, Inner, Last
  <2>2. c \in Call /\ c.at = Last(calls[t]).at
    BY <2>1 DEF Inner, Call
  <2>3. calls' = [calls EXCEPT ![t] = s]
    BY <1>4 DEF putchar_have_lock, Goes
  <2> HIDE DEF c
  <2>4. s \in Nested /\ Writes(s) = Writes(calls[t]) /\ Writes(calls[t]) > 0
    BY <1>1, <2>1, <2>2, GoesWrites, FrontWrites
  <2> HIDE DEF s
  <2>5. /\ calls' \in [Printer -> Nested]
        /\ \A u \in Printer : Writes(calls'[u]) = Writes(calls[u])
    BY <1>1, <2>3, <2>4, CallsOf
  <2>6. /\ UNCHANGED <<use_console_lock, holder, console_lock_depth, made>>
        /\ x \in Char /\ out' = Append(out, x)
    BY <1>1, <1>4 DEF putchar_have_lock, ConsoleType, Char
  <2>7. ConsoleType'
    BY <1>1, <2>5, <2>6, OutMore DEF ConsoleType
  <2>8. ASSUME use_console_lock PROVE HolderInv'
    BY <1>1, <2>5, <2>6, <2>8 DEF ConsoleInv, ConsoleType, HolderInv
  <2>9. ASSUME use_console_lock PROVE OutInv'
    <3>1. HolderInv /\ OutInv /\ holder = t
      BY <2>4, <2>9 DEF ConsoleInv, HolderInv
    <3>2. \A u \in Printer : Writes(calls[u]) > 0 => u = t
      BY <3>1 DEF HolderInv
    <3>3. x[1] = t /\ x[2] = made[t] /\ made[t] \in Nat
      BY <1>1 DEF ConsoleType
    <3> HIDE DEF x
    <3>4. \A i \in DOMAIN out' : out'[i] # Handler => out'[i][2] <= made'[out'[i][1]]
      BY <1>1, <2>6, <3>1, <3>3, OutMore DEF OutInv
    <3>5. ASSUME NEW u \in Printer, NEW i \in DOMAIN out', out'[i] # Handler,
                 out'[i] = <<u, made[u]>>
          PROVE  /\ Writes(calls[u]) > 0
                 /\ \A j \in DOMAIN out' : i < j => out'[j] \in {out'[i], Handler}
      <4>1. Writes(calls[u]) > 0
        BY <1>1, <2>4, <2>6, <3>1, <3>5, OutMore DEF OutInv, x
      <4>2. u = t
        BY <3>2, <4>1
      <4>3. ASSUME NEW j \in DOMAIN out', i < j PROVE out'[j] \in {out'[i], Handler}
        <5>1. CASE j = Len(out) + 1
          BY <1>1, <2>6, <3>5, <4>2, <5>1, OutMore DEF x
        <5>2. CASE j \in DOMAIN out
          <6>1. i \in DOMAIN out
            BY <1>1, <2>6, <4>3, <5>2, OutMore
          <6>2. out'[i] = out[i] /\ out'[j] = out[j]
            BY <1>1, <2>6, <5>2, <6>1, OutMore
          <6>3. QED
            BY <3>1, <3>5, <4>3, <5>2, <6>1, <6>2 DEF OutInv
        <5>3. QED
          BY <1>1, <2>6, <5>1, <5>2, OutMore
      <4>4. QED
        BY <4>1, <4>3
    <3>6. ASSUME NEW i \in DOMAIN out', NEW j \in DOMAIN out', NEW k \in DOMAIN out',
                 i < j, j < k, out'[i] = out'[k], out'[i] # Handler
          PROVE  out'[j] \in {out'[i], Handler}
      <4>1. CASE k \in DOMAIN out
        <5>1. i \in DOMAIN out /\ j \in DOMAIN out
          BY <1>1, <2>6, <3>6, <4>1, OutMore
        <5>2. QED
          BY <1>1, <2>6, <3>1, <3>6, <4>1, <5>1, OutMore DEF OutInv
      <4>2. CASE k = Len(out) + 1
        <5>1. out'[i] = x
          BY <1>1, <2>6, <3>6, <4>2, OutMore
        <5>2. QED
          BY <2>6, <3>5, <3>6, <5>1 DEF x
      <4>3. QED
        BY <1>1, <2>6, <4>1, <4>2, OutMore
    <3>7. QED
      BY <2>5, <2>6, <3>4, <3>5, <3>6 DEF OutInv
  <2>10. QED
    BY <2>6, <2>7, <2>8, <2>9 DEF ConsoleInv
<1>5. ASSUME NEW t \in Printer, release_console(t) PROVE ConsoleInv'
  <2>1. calls[t] # <<>> /\ Last(calls[t]).at = "write"
    BY <1>5 DEF release_console, Is, Inner
  <2>2. /\ Front(calls[t]) \in Nested /\ Writes(Front(calls[t])) = Writes(calls[t]) - 1
        /\ Writes(calls[t]) = Len(calls[t]) /\ Writes(calls[t]) > 0
    BY <1>1, <2>1, FrontWrites
  <2>3. /\ calls' = [calls EXCEPT ![t] = Front(calls[t])]
        /\ made' = [made EXCEPT ![t] = IF Writes(calls[t]) = 1 THEN @ + 1 ELSE @]
        /\ UNCHANGED <<use_console_lock, out>>
    BY <1>5, <2>2 DEF release_console
  <2>4. /\ calls' \in [Printer -> Nested] /\ Writes(calls'[t]) = Writes(calls[t]) - 1
        /\ \A u \in Printer \ {t} : Writes(calls'[u]) = Writes(calls[u])
    BY <1>1, <2>2, <2>3, CallsOf
  <2>5. /\ made \in [Printer -> Nat] /\ made' \in [Printer -> Nat]
        /\ \A u \in Printer \ {t} : made'[u] = made[u]
        /\ Writes(calls[t]) = 1 => made'[t] = made[t] + 1
        /\ Writes(calls[t]) # 1 => made'[t] = made[t]
    BY <1>1, <2>3 DEF ConsoleType
  <2>6. CASE ~use_console_lock
    BY <1>1, <1>5, <2>3, <2>4, <2>5, <2>6 DEF release_console, ConsoleInv, ConsoleType
  <2>7. CASE use_console_lock
    <3>1. HolderInv /\ OutInv /\ holder = t
      BY <2>2, <2>7 DEF ConsoleInv, HolderInv
    <3>2. console_lock_depth = Writes(calls[t]) - 1 /\ console_lock_depth \in Nat
      BY <1>1, <3>1 DEF HolderInv, ConsoleType
    <3>3. OutInv'
      <4>1. \A i \in DOMAIN out : out[i] # Handler => out[i][1] \in Printer /\ out[i][2] \in Nat
        BY <1>1 DEF ConsoleType, Char
      <4>2. \A u \in Printer : made[u] <= made'[u] /\ made[u] \in Nat /\ made'[u] \in Nat
        BY <2>5
      <4>3. \A i \in DOMAIN out' : out'[i] # Handler => out'[i][2] <= made'[out'[i][1]]
        BY <2>3, <3>1, <4>1, <4>2 DEF OutInv
      <4>4. ASSUME NEW u \in Printer, NEW i \in DOMAIN out, out[i] # Handler,
                   out[i] = <<u, made'[u]>>
            PROVE  /\ Writes(calls'[u]) > 0
                   /\ \A j \in DOMAIN out : i < j => out[j] \in {out[i], Handler}
        <5>1. out[i][1] = u /\ out[i][2] = made'[u]
          BY <4>4
        <5>2. made'[u] <= made[u]
          BY <3>1, <4>4, <5>1 DEF OutInv
        <5>3. made'[u] = made[u]
          BY <4>2, <5>2
        <5>4. Writes(calls[u]) > 0 /\ \A j \in DOMAIN out : i < j => out[j] \in {out[i], Handler}
          BY <3>1, <4>4, <5>3 DEF OutInv
        <5>5. u = t
          BY <3>1, <5>4 DEF HolderInv
        <5>6. Writes(calls[t]) # 1
          BY <2>5, <5>3, <5>5
        <5>7. Writes(calls'[u]) > 0
          BY <1>1, <2>4, <5>4, <5>5, <5>6
        <5>8. QED
          BY <5>4, <5>7
      <4>5. QED
        BY <2>3, <3>1, <4>3, <4>4 DEF OutInv
    <3>4. CASE console_lock_depth > 0
      <4>1. console_lock_depth' = console_lock_depth - 1 /\ holder' = t
        BY <1>5, <2>7, <3>1, <3>4 DEF release_console
      <4>2. ConsoleType'
        BY <1>1, <2>3, <2>4, <2>5, <3>2, <3>4, <4>1 DEF ConsoleType
      <4>3. Writes(calls'[t]) > 0 /\ console_lock_depth' = Writes(calls'[t]) - 1
        BY <1>1, <2>4, <3>2, <3>4, <4>1
      <4>4. \A u \in Printer : Writes(calls'[u]) > 0 <=> holder' = u
        BY <1>1, <2>4, <3>1, <4>1, <4>3 DEF HolderInv
      <4>5. HolderInv'
        BY <1>1, <4>1, <4>3, <4>4 DEF HolderInv
      <4>6. QED
        BY <3>3, <4>2, <4>5 DEF ConsoleInv
    <3>5. CASE ~(console_lock_depth > 0)
      <4>1. console_lock_depth' = console_lock_depth /\ holder' = NULL
        BY <1>5, <2>7, <3>5 DEF release_console
      <4>2. ConsoleType'
        BY <1>1, <2>3, <2>4, <2>5, <3>2, <4>1 DEF ConsoleType
      <4>3. console_lock_depth = 0 /\ Writes(calls'[t]) = 0
        BY <1>1, <2>4, <3>2, <3>5
      <4>4. \A u \in Printer : Writes(calls'[u]) > 0 <=> holder' = u
        BY <1>1, <2>4, <3>1, <4>1, <4>3 DEF HolderInv
      <4>5. HolderInv'
        BY <4>1, <4>3, <4>4 DEF HolderInv
      <4>6. QED
        BY <3>3, <4>2, <4>5 DEF ConsoleInv
    <3>6. QED
      BY <3>4, <3>5
  <2>8. QED
    BY <2>6, <2>7
<1>6. CASE HandlerPrints
  <2>1. Handler \in Char /\ out' = Append(out, Handler)
    BY <1>6 DEF HandlerPrints, Char
  <2>2. UNCHANGED <<use_console_lock, holder, console_lock_depth, calls, made>>
    BY <1>6 DEF HandlerPrints
  <2>3. ConsoleType'
    BY <1>1, <2>1, <2>2, OutMore DEF ConsoleType
  <2>4. HolderInv => HolderInv'
    BY <2>2 DEF HolderInv
  <2>5. ASSUME OutInv PROVE OutInv'
    <3>1. \A i \in DOMAIN out' : out'[i] # Handler => i \in DOMAIN out
      BY <1>1, <2>1, OutMore
    <3>2. \A i \in DOMAIN out' : i \in DOMAIN out => out'[i] = out[i]
      BY <1>1, <2>1, OutMore
    <3>3. \A i \in DOMAIN out' : i \notin DOMAIN out => out'[i] = Handler
      BY <1>1, <2>1, OutMore
    <3>4. QED
      BY <2>2, <2>5, <3>1, <3>2, <3>3 DEF OutInv
  <2>6. QED
    BY <2>2, <2>3, <2>4, <2>5 DEF ConsoleInv
<1>7. CASE console_panic
  BY <1>1, <1>7 DEF console_panic, ConsoleInv, ConsoleType
<1>8. CASE UNCHANGED consoleVars
  BY <1>8 DEF consoleVars, ConsoleInv, ConsoleType, HolderInv, OutInv
<1>9. QED
  BY <1>2, <1>3, <1>4, <1>5, <1>6, <1>7, <1>8 DEF ConsoleNext, Quiet

\* The console at boot.
LEMMA ConsoleStart == ConsoleInit => ConsoleInv
<1> SUFFICES ASSUME ConsoleInit PROVE ConsoleInv
  OBVIOUS
<1>1. <<>> \in Nested /\ Writes(<<>>) = 0
  BY DEF Nested, Writes
<1>2. ConsoleType
  BY <1>1 DEF ConsoleInit, ConsoleType
<1>3. HolderInv
  BY <1>1, ConsoleAssumption DEF ConsoleInit, HolderInv
<1>4. OutInv
  BY DEF ConsoleInit, OutInv
<1>5. QED
  BY <1>2, <1>3, <1>4 DEF ConsoleInv

ConsoleSpec == ConsoleInit /\ [][ConsoleNext]_consoleVars

\* Until the kernel panics, the output of a call is not mixed with another thread's,
\* however many threads print and however deep their calls are nested.
THEOREM OutputIsUnmixed == ConsoleSpec => []OutputUnmixed
BY ConsoleStart, ConsoleStep, ConsoleSafe, PTL DEF ConsoleSpec

=============================================================================
