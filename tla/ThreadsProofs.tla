--------------------------- MODULE ThreadsProofs ---------------------------
(***************************************************************************)
(* Proofs about Threads, for any number of threads, semaphores and locks,  *)
(* any number of priorities and any time slice.                            *)
(***************************************************************************)
EXTENDS Threads, TLAPS

Status == {"NONE", "RUNNING", "READY", "BLOCKED", "DYING"}
Place == {"none", "run", "down", "hold", "rel", "upd", "setp", "made", "unbl",
          "hlt", "loop"}

\* What each place of the code says of the local it works on.
ArgOK ==
    \A t \in AnyThread :
        /\ pc[t] = "down" => arg[t] \in AnySema
        /\ pc[t] \in {"hold", "rel"} => arg[t] \in Lock
        /\ pc[t] \in {"made", "unbl"} => arg[t] \in AnyThread

TypeInv == TypeOK /\ ArgOK

ReadyLists == [Pri -> Seq(AnyThread)]

-----------------------------------------------------------------------------
\* What a thread switch leaves behind, in the terms the type proof needs.
LEMMA ScheduleType ==
    ASSUME TypeOK, NEW r \in ReadyLists, NEW st \in Status, schedule(r, st)
    PROVE  /\ cur' \in AnyThread
           /\ ready' \in ReadyLists
           /\ status' \in [AnyThread -> Status]
           /\ thread_ticks' = 0
           /\ status'[cur'] = "RUNNING"
           /\ \A t \in AnyThread \ {cur, cur'} : status'[t] = status[t]
           /\ cur' # cur => status'[cur] \in {st, "NONE"}
           /\ cur' # cur /\ st # "DYING" => status'[cur] = st
<1>1. PICK p \in Pri :
        /\ cur' = IF r[p] = <<>> THEN idle_thread ELSE Head(r[p])
        /\ ready' = IF r[p] = <<>> THEN r ELSE [r EXCEPT ![p] = Tail(@)]
        /\ status' = [status EXCEPT
                        ![cur] = IF st = "DYING" /\ cur # initial_thread
                                 THEN "NONE" ELSE st,
                        ![cur'] = "RUNNING"]
        /\ thread_ticks' = 0
  BY DEF schedule
<1>2. r[p] \in Seq(AnyThread)
  BY DEF ReadyLists
<1>3. r[p] # <<>> => Head(r[p]) \in AnyThread /\ Tail(r[p]) \in Seq(AnyThread)
  BY <1>2
<1>4. cur' \in AnyThread
  BY <1>1, <1>3 DEF AnyThread
<1>5. ready' \in ReadyLists
  BY <1>1, <1>3 DEF ReadyLists
<1>6. QED
  BY <1>1, <1>4, <1>5 DEF TypeOK, Status

\* A ready list with one thread more.
LEMMA PushType ==
    ASSUME TypeOK, NEW r \in ReadyLists, NEW t \in AnyThread
    PROVE  Push(r, t) \in ReadyLists
BY DEF Push, ReadyLists, TypeOK

\* The running thread moves to a place that suits its locals.
LEMMA GotoType ==
    ASSUME TypeInv, NEW p \in Place, NEW a \in AnyThread \cup AnySema \cup {NULL},
           NEW n \in 0 .. PRI_MAX + 1, Goto(p, a, n),
           p = "down" => a \in AnySema,
           p \in {"hold", "rel"} => a \in Lock,
           p \in {"made", "unbl"} => a \in AnyThread
    PROVE  /\ pc' \in [AnyThread -> Place]
           /\ arg' \in [AnyThread -> AnyThread \cup AnySema \cup {NULL}]
           /\ loc' \in [AnyThread -> 0 .. PRI_MAX + 1]
           /\ ArgOK'
BY DEF TypeInv, TypeOK, ArgOK, Goto, Place

\* The running thread returns to its caller.
LEMMA ReturnType ==
    ASSUME TypeInv, Return
    PROVE  /\ pc' \in [AnyThread -> Place]
           /\ arg' \in [AnyThread -> AnyThread \cup AnySema \cup {NULL}]
           /\ loc' \in [AnyThread -> 0 .. PRI_MAX + 1]
           /\ ArgOK'
BY GotoType, ThreadsAssumption DEF Return, Place

\* The scheduler's own variables have their types.
SchedType ==
    /\ status \in [AnyThread -> Status]
    /\ ready \in ReadyLists
    /\ cur \in AnyThread
    /\ thread_ticks \in 0 .. TIME_SLICE - 1
    /\ recent_unused \in [AnyThread -> Nat]

\* thread_yield keeps the types.
LEMMA YieldType ==
    ASSUME TypeOK, NEW r \in ReadyLists, NEW now \in Nat, Yield(r, now)
    PROVE  SchedType'
<1>1. CASE cur = idle_thread
  BY <1>1, ScheduleType, ThreadsAssumption DEF Yield, SchedType, TypeOK, Status
<1>2. CASE cur # idle_thread
  <2>1. cur \in AnyThread
    BY DEF TypeOK
  <2>2. Push(r, cur) \in ReadyLists
    BY PushType, <2>1
  <2>3. schedule(Push(r, cur), "READY")
    BY <1>2 DEF Yield
  <2>4. /\ cur' \in AnyThread
        /\ ready' \in ReadyLists
        /\ status' \in [AnyThread -> Status]
        /\ thread_ticks' = 0
    BY <2>2, <2>3, ScheduleType DEF Status
  <2>5. recent_unused' = [recent_unused EXCEPT ![cur] = now]
    BY <1>2 DEF Yield
  <2>6. recent_unused' \in [AnyThread -> Nat]
    BY <2>5 DEF TypeOK
  <2>7. 0 \in 0 .. TIME_SLICE - 1
    BY ThreadsAssumption
  <2>8. QED
    BY <2>4, <2>6, <2>7 DEF SchedType
<1>3. QED
  BY <1>1, <1>2

\* thread_block keeps the types.
LEMMA BlockType ==
    ASSUME TypeOK, thread_block
    PROVE  SchedType'
<1>1. ready \in ReadyLists
  BY DEF TypeOK, ReadyLists
<1>2. QED
  BY <1>1, ScheduleType, ThreadsAssumption
     DEF thread_block, SchedType, TypeOK, Status

\* A step that leaves the scheduler alone.
LEMMA StaySched ==
    ASSUME TypeOK, UNCHANGED sched
    PROVE  SchedType'
BY DEF TypeOK, sched, SchedType, Status, ReadyLists

\* A round of sema_down keeps the types.
LEMMA DownRoundType ==
    ASSUME TypeInv, NEW s \in AnySema, DownRound(s)
    PROVE  /\ SchedType'
           /\ value' \in [AnySema -> Nat]
           /\ waiters' \in [AnySema -> Seq(AnyThread)]
           /\ pc' \in [AnyThread -> Place]
           /\ arg' \in [AnyThread -> AnyThread \cup AnySema \cup {NULL}]
           /\ loc' \in [AnyThread -> 0 .. PRI_MAX + 1]
           /\ ArgOK'
<1>1. CASE value[s] > 0 /\ UNCHANGED <<sched, waiters>>
           /\ value' = [value EXCEPT ![s] = @ - 1]
           /\ IF s \in Lock THEN Goto("hold", s, 0) ELSE Return
  <2>1. SchedType'
    BY <1>1, StaySched DEF TypeInv
  <2>2. /\ pc' \in [AnyThread -> Place]
        /\ arg' \in [AnyThread -> AnyThread \cup AnySema \cup {NULL}]
        /\ loc' \in [AnyThread -> 0 .. PRI_MAX + 1]
        /\ ArgOK'
    BY <1>1, GotoType, ReturnType, ThreadsAssumption DEF Place
  <2>3. QED
    BY <1>1, <2>1, <2>2 DEF TypeInv, TypeOK
<1>2. CASE value[s] = 0 /\ UNCHANGED value /\ thread_block /\ Goto("down", s, 0)
           /\ waiters' = [waiters EXCEPT ![s] = Append(@, cur)]
  <2>1. SchedType'
    BY <1>2, BlockType DEF TypeInv
  <2>2. /\ pc' \in [AnyThread -> Place]
        /\ arg' \in [AnyThread -> AnyThread \cup AnySema \cup {NULL}]
        /\ loc' \in [AnyThread -> 0 .. PRI_MAX + 1]
        /\ ArgOK'
    BY <1>2, GotoType, ThreadsAssumption DEF Place
  <2>3. QED
    BY <1>2, <2>1, <2>2 DEF TypeInv, TypeOK
<1>3. QED
  BY <1>1, <1>2 DEF DownRound

LocalType ==
    /\ pc \in [AnyThread -> Place]
    /\ arg \in [AnyThread -> AnyThread \cup AnySema \cup {NULL}]
    /\ loc \in [AnyThread -> 0 .. PRI_MAX + 1]
    /\ ArgOK

SynchType ==
    /\ value \in [AnySema -> Nat]
    /\ waiters \in [AnySema -> Seq(AnyThread)]
    /\ holder \in [Lock -> AnyThread \cup {NULL}]

ClockType == priority \in [AnyThread -> Pri] /\ ticks \in 0 .. AGE - 1

\* The types, part by part.
LEMMA TypeParts == SchedType' /\ LocalType' /\ SynchType' /\ ClockType' => TypeInv'
BY DEF TypeInv, TypeOK, SchedType, LocalType, SynchType, ClockType, Status,
       Place, ReadyLists

\* What sema_up does to the scheduler and the semaphore keeps the types.
LEMMA RaiseType ==
    ASSUME TypeInv, NEW s \in AnySema, Raise(s)
    PROVE  SchedType' /\ SynchType' /\ ClockType'
<1>1. waiters' \in [AnySema -> Seq(AnyThread)] /\ ready' \in ReadyLists
      /\ status' \in [AnyThread -> Status]
  <2>1. CASE UNCHANGED <<waiters, ready, status>>
    BY <2>1 DEF TypeInv, TypeOK, Status, ReadyLists
  <2>2. ASSUME NEW i \in DOMAIN waiters[s],
               waiters' = [waiters EXCEPT ![s] = Without(@, i)],
               ready' = Push(ready, waiters[s][i]),
               status' = [status EXCEPT ![waiters[s][i]] = "READY"]
        PROVE  waiters' \in [AnySema -> Seq(AnyThread)] /\ ready' \in ReadyLists
               /\ status' \in [AnyThread -> Status]
    <3>1. waiters[s] \in Seq(AnyThread)
      BY DEF TypeInv, TypeOK
    <3>2. waiters[s][i] \in AnyThread /\ i \in 1 .. Len(waiters[s])
      BY <3>1
    <3>3. Without(waiters[s], i) \in Seq(AnyThread)
      BY <3>1, <3>2 DEF Without
    <3>4. ready' \in ReadyLists
      BY <2>2, <3>2, PushType DEF TypeInv, TypeOK, ReadyLists
    <3>5. QED
      BY <2>2, <3>2, <3>3, <3>4 DEF TypeInv, TypeOK, Status
  <2>3. QED
    BY <2>1, <2>2 DEF Raise, WakeOne
<1>2. /\ value' = [value EXCEPT ![s] = @ + 1]
      /\ UNCHANGED <<cur, thread_ticks, recent_unused, priority, ticks, holder>>
  BY DEF Raise
<1>3. SchedType'
  BY <1>1, <1>2 DEF TypeInv, TypeOK, SchedType
<1>4. SynchType'
  BY <1>1, <1>2 DEF TypeInv, TypeOK, SynchType
<1>5. ClockType'
  BY <1>2 DEF TypeInv, TypeOK, ClockType
<1>6. QED
  BY <1>3, <1>4, <1>5

\* sema_up keeps the types.
LEMMA SemaUpType ==
    ASSUME TypeInv, NEW s \in AnySema, SemaUp(s)
    PROVE  TypeInv'
<1>1. SchedType' /\ SynchType' /\ ClockType'
  BY RaiseType DEF SemaUp
<1>2. PriMax(s) \subseteq 0 .. PRI_MAX + 1
  <2>1. waiters[s] \in Seq(AnyThread) /\ priority \in [AnyThread -> Pri]
    BY DEF TypeInv, TypeOK
  <2>2. QED
    BY <2>1, ThreadsAssumption DEF PriMax, Pri
<1>3. PICK n \in PriMax(s) : Goto("upd", s, n)
  BY DEF SemaUp
<1>4. LocalType'
  BY <1>2, <1>3, GotoType DEF LocalType, Place
<1>5. QED
  BY <1>1, <1>4, TypeParts

\* Interrupts leave the locals alone but for the idle thread's place.
LEMMA LeaveHltType ==
    ASSUME TypeInv, LeaveHlt, UNCHANGED <<arg, loc>>
    PROVE  LocalType'
BY DEF TypeInv, TypeOK, ArgOK, LeaveHlt, LocalType, Place

-----------------------------------------------------------------------------
\* Every step of the kernel keeps the types.
LEMMA TypeStep == TypeInv /\ [Next]_vars => TypeInv'
<1> SUFFICES ASSUME TypeInv, [Next]_vars PROVE TypeInv'
  OBVIOUS
<1>a. /\ cur \in AnyThread /\ ready \in ReadyLists /\ priority \in [AnyThread -> Pri]
      /\ ticks \in Nat /\ arg[cur] \in AnyThread \cup AnySema \cup {NULL}
  BY ThreadsAssumption DEF TypeInv, TypeOK, ReadyLists
<1>b. ASSUME UNCHANGED <<priority, ticks>> PROVE ClockType'
  BY <1>b DEF TypeInv, TypeOK, ClockType
<1>c. ASSUME UNCHANGED synch PROVE SynchType'
  BY <1>c DEF TypeInv, TypeOK, SynchType, synch
<1>d. ASSUME Return PROVE LocalType'
  BY <1>d, ReturnType DEF LocalType
<1>e. ASSUME UNCHANGED sched PROVE SchedType'
  BY <1>e, StaySched DEF TypeInv
<1>f. ASSUME Yield(ready, ticks) PROVE SchedType'
  BY <1>a, <1>f, YieldType DEF TypeInv
<1>1. ASSUME NEW s \in AnySema, DownRound(s), UNCHANGED <<priority, ticks, holder>>
      PROVE  TypeInv'
  <2>1. SchedType' /\ LocalType'
    BY <1>1, DownRoundType DEF LocalType
  <2>2. SynchType'
    BY <1>1, DownRoundType DEF SynchType, TypeInv, TypeOK
  <2>3. QED
    BY <1>1, <1>b, <2>1, <2>2, TypeParts
<1>2. ASSUME NEW s \in AnySema, sema_try_down(s) PROVE TypeInv'
  <2>1. LocalType'
    <3>1. CASE s \in Lock
      BY <1>2, <3>1, GotoType, ThreadsAssumption DEF sema_try_down, LocalType, Place
    <3>2. CASE s \notin Lock
      BY <1>2, <3>2, <1>d DEF sema_try_down
    <3>3. QED
      BY <3>1, <3>2
  <2>2. SynchType'
    BY <1>2 DEF sema_try_down, SynchType, TypeInv, TypeOK
  <2>3. SchedType' /\ ClockType'
    BY <1>2, <1>b, <1>e DEF sema_try_down
  <2>4. QED
    BY <2>1, <2>2, <2>3, TypeParts
<1>3. ASSUME sema_up_yield PROVE TypeInv'
  BY <1>3, <1>b, <1>c, <1>d, <1>e, <1>f, TypeParts DEF sema_up_yield
<1>4. ASSUME lock_set_holder PROVE TypeInv'
  <2>1. SynchType'
    BY <1>4 DEF lock_set_holder, SynchType, TypeInv, TypeOK, ArgOK
  <2>2. QED
    BY <1>4, <2>1, <1>b, <1>d, <1>e, TypeParts DEF lock_set_holder
<1>5. ASSUME NEW l \in Lock, lock_release(l) PROVE TypeInv'
  <2>1. SynchType'
    BY <1>5 DEF lock_release, SynchType, TypeInv, TypeOK
  <2>2. LocalType'
    BY <1>5, GotoType, ThreadsAssumption DEF lock_release, LocalType, Place, AnySema
  <2>3. QED
    BY <1>5, <2>1, <2>2, <1>b, <1>e, TypeParts DEF lock_release
<1>6. ASSUME thread_yield PROVE TypeInv'
  <2>1. LocalType'
    BY <1>6 DEF thread_yield, local, LocalType, TypeInv, TypeOK, ArgOK, Place
  <2>2. QED
    BY <1>6, <2>1, <1>b, <1>c, <1>f, TypeParts DEF thread_yield
<1>7. ASSUME NEW p \in Pri, thread_set_priority(p) PROVE TypeInv'
  <2>1. LocalType'
    <3>1. p \in 0 .. PRI_MAX + 1
      BY ThreadsAssumption DEF Pri
    <3>2. QED
      BY <1>7, <3>1, GotoType DEF thread_set_priority, LocalType, Place
  <2>2. ClockType'
    BY <1>7 DEF thread_set_priority, ClockType, TypeInv, TypeOK
  <2>3. QED
    BY <1>7, <2>1, <2>2, <1>c, <1>e, TypeParts DEF thread_set_priority
<1>8. ASSUME set_priority_yield PROVE TypeInv'
  BY <1>8, <1>b, <1>c, <1>d, <1>e, <1>f, TypeParts DEF set_priority_yield
<1>9. ASSUME NEW t \in Thread, NEW p \in Pri, thread_create(t, p) PROVE TypeInv'
  <2>1. LocalType'
    BY <1>9, <1>a, ThreadsAssumption
       DEF thread_create, LocalType, TypeInv, TypeOK, ArgOK, Place, AnyThread, Running
  <2>2. ClockType'
    BY <1>9 DEF thread_create, ClockType, TypeInv, TypeOK, AnyThread
  <2>3. SchedType'
    BY <1>9, <1>a DEF thread_create, SchedType, TypeInv, TypeOK, AnyThread, Status
  <2>4. QED
    BY <1>9, <2>1, <2>2, <2>3, <1>c, TypeParts DEF thread_create
<1>10. ASSUME thread_unblock PROVE TypeInv'
  <2>1. arg[cur] \in AnyThread
    BY <1>10, <1>a DEF thread_unblock, TypeInv, ArgOK
  <2>2. LocalType'
    <3>1. PICK top \in Pri : Goto("unbl", arg[cur], top)
      BY <1>10 DEF thread_unblock
    <3>2. top \in 0 .. PRI_MAX + 1
      BY ThreadsAssumption DEF Pri
    <3>3. QED
      BY <2>1, <3>1, <3>2, GotoType DEF LocalType, Place
  <2>3. SchedType'
    BY <1>10, <2>1, PushType, <1>a
       DEF thread_unblock, SchedType, TypeInv, TypeOK, Status
  <2>4. QED
    BY <1>10, <2>2, <2>3, <1>b, <1>c, TypeParts DEF thread_unblock
<1>11. ASSUME unblock_yield PROVE TypeInv'
  BY <1>11, <1>b, <1>c, <1>d, <1>e, <1>f, TypeParts DEF unblock_yield
<1>12. ASSUME thread_exit PROVE TypeInv'
  <2>1. LocalType'
    BY <1>12, GotoType, ThreadsAssumption DEF thread_exit, LocalType, Place
  <2>2. SchedType'
    BY <1>12, <1>a, ScheduleType, ThreadsAssumption
       DEF thread_exit, SchedType, TypeInv, TypeOK, Status
  <2>3. QED
    BY <1>12, <2>1, <2>2, <1>b, <1>c, TypeParts DEF thread_exit
<1>13. ASSUME idle PROVE TypeInv'
  <2>1. LocalType'
    BY <1>13, GotoType, ThreadsAssumption DEF idle, LocalType, Place
  <2>2. SchedType'
    BY <1>13, BlockType DEF idle, TypeInv
  <2>3. QED
    BY <1>13, <2>1, <2>2, <1>b, <1>c, TypeParts DEF idle
<1>14. ASSUME Tick PROVE TypeInv'
  <2>1. ticks' \in 0 .. AGE - 1 /\ ticks' \in Nat
    BY <1>14, <1>a, ThreadsAssumption DEF Tick
  <2>2. SchedType'
    <3>1. CASE thread_ticks + 1 >= TIME_SLICE
      BY <1>14, <3>1, <2>1, <1>a, YieldType DEF Tick, TypeInv
    <3>2. CASE ~(thread_ticks + 1 >= TIME_SLICE)
      BY <1>14, <3>2, <1>a, ThreadsAssumption
         DEF Tick, SchedType, TypeInv, TypeOK, Status
    <3>3. QED
      BY <3>1, <3>2
  <2>3. ClockType'
    BY <1>14, <2>1 DEF Tick, ClockType, TypeInv, TypeOK
  <2>4. QED
    BY <1>14, <2>2, <2>3, <1>c, LeaveHltType, TypeParts DEF Tick
<1>15. ASSUME NEW s \in IntrSema, InterruptUp(s) PROVE TypeInv'
  <2>1. s \in AnySema
    BY ThreadsAssumption DEF AnySema
  <2>2. QED
    BY <1>15, <2>1, RaiseType, LeaveHltType, TypeParts DEF InterruptUp
<1>16. ASSUME UNCHANGED vars PROVE TypeInv'
  <2>1. LocalType'
    BY <1>16 DEF vars, local, LocalType, TypeInv, TypeOK, ArgOK, Place
  <2>2. QED
    BY <1>16, <2>1, <1>b, <1>c, <1>e, TypeParts DEF vars
<1>17. QED
  <2>1. ASSUME NEW s \in Sema, sema_down(s) \/ sema_try_down(s) \/ sema_up(s)
        PROVE  TypeInv'
    BY <2>1, <1>1, <1>2, SemaUpType DEF sema_down, sema_up, AnySema
  <2>2. ASSUME NEW l \in Lock, lock_acquire(l) \/ lock_try_acquire(l) \/ lock_release(l)
        PROVE  TypeInv'
    BY <2>2, <1>1, <1>2, <1>5
       DEF lock_acquire, lock_try_acquire, sema_down, AnySema
  <2>3. ASSUME sema_down_resume PROVE TypeInv'
    BY <2>3, <1>1, <1>a DEF sema_down_resume, TypeInv, ArgOK
  <2>4. ASSUME lock_release_up PROVE TypeInv'
    BY <2>4, <1>a, SemaUpType DEF lock_release_up, TypeInv, ArgOK, AnySema
  <2>5. QED
    BY <2>1, <2>2, <2>3, <2>4, <1>3, <1>4, <1>6, <1>7, <1>8, <1>9, <1>10, <1>11,
       <1>12, <1>13, <1>14, <1>15, <1>16 DEF Next, ThreadStep

\* The kernel's variables when it starts.
LEMMA TypeInit == Init => TypeInv
<1> SUFFICES ASSUME Init PROVE TypeInv
  OBVIOUS
<1>1. PRI_MAX \div 2 \in Pri /\ 0 \in Pri
  BY ThreadsAssumption DEF Pri
<1>2. QED
  BY <1>1, ThreadsAssumption DEF Init, TypeInv, TypeOK, ArgOK, AnyThread, AnySema

\* The variables of the kernel keep their types, whatever the number of threads,
\* semaphores, locks and priorities.
THEOREM TypeCorrect == Spec => []TypeOK
<1>1. TypeInv => TypeOK
  BY DEF TypeInv
<1>2. QED
  BY <1>1, TypeInit, TypeStep, PTL DEF Spec

-----------------------------------------------------------------------------
(* Mutual exclusion.  The invariant needs three more facts: the running     *)
(* thread exists, a thread that does not exist is nowhere in the code, and  *)
(* a thread between taking or giving back a semaphore and its `holder' is   *)
(* not written in `holder'.                                                 *)

Dead == {"NONE", "DYING"}

LockInv ==
    /\ TypeInv
    /\ status[cur] \notin Dead
    /\ \A t \in AnyThread : status[t] \in Dead => pc[t] = "none"
    /\ \A t \in AnyThread : pc[t] \in {"hold", "rel"} => holder[arg[t]] = NULL
    /\ MutualExclusion

\* How a step may change who owns the locks: not at all, or the running thread takes
\* a lock that nobody owns, or gives one back.
OwnersKept == \A t \in AnyThread, k \in Lock : Owns(t, k)' <=> Owns(t, k)

LockTaken ==
    \E l \in Lock :
        /\ \A t \in AnyThread : ~Owns(t, l)
        /\ \A t \in AnyThread, k \in Lock : Owns(t, k)' <=> Owns(t, k) \/ (t = cur /\ k = l)

LockGiven ==
    \E l \in Lock :
        /\ Owns(cur, l)
        /\ \A t \in AnyThread, k \in Lock : Owns(t, k)' <=> Owns(t, k) /\ k # l

OwnersStep == OwnersKept \/ LockTaken \/ LockGiven

LocksStep == LockInv' /\ OwnersStep

\* The running thread still exists, and so do all others that were in the code.
AliveInv ==
    /\ status[cur] \notin Dead
    /\ \A t \in AnyThread : status[t] \in Dead => pc[t] = "none"

\* A step away from the locks keeps the facts about locks.
LEMMA LocksUntouched ==
    ASSUME LockInv, TypeInv', UNCHANGED holder,
           \A l \in Lock : value'[l] = value[l],
           \A t \in AnyThread : {pc[t], pc'[t]} \cap {"hold", "rel"} # {}
                                 => pc'[t] = pc[t] /\ arg'[t] = arg[t]
    PROVE  /\ OwnersKept
           /\ MutualExclusion'
           /\ \A t \in AnyThread : pc'[t] \in {"hold", "rel"} => holder'[arg'[t]] = NULL
<1>1. \A t \in AnyThread, l \in Lock : Owns(t, l)' <=> Owns(t, l)
  BY DEF Owns
<1>2. MutualExclusion'
  BY <1>1 DEF LockInv, MutualExclusion
<1>3. QED
  BY <1>1, <1>2 DEF LockInv, OwnersKept

\* A thread switch to a state st other than dying keeps every thread alive.
LEMMA SwitchAlive ==
    ASSUME LockInv, TypeInv', NEW r \in ReadyLists, NEW st \in Status \ Dead,
           schedule(r, st), \A t \in AnyThread \ {cur} : pc'[t] = pc[t]
    PROVE  AliveInv'
<1>1. TypeOK
  BY DEF LockInv, TypeInv
<1>2. /\ cur' \in AnyThread
      /\ status'[cur'] = "RUNNING"
      /\ \A t \in AnyThread \ {cur, cur'} : status'[t] = status[t]
      /\ cur' # cur => status'[cur] = st
  BY <1>1, ScheduleType DEF Dead
<1>3. QED
  BY <1>2 DEF AliveInv, LockInv, Dead

\* thread_yield leaves the dead alone.
LEMMA YieldAlive ==
    ASSUME LockInv, TypeInv', NEW now \in Nat, Yield(ready, now),
           \A t \in AnyThread \ {cur} : pc'[t] = pc[t]
    PROVE  AliveInv'
<1>1. ready \in ReadyLists /\ cur \in AnyThread /\ TypeOK
  BY DEF LockInv, TypeInv, TypeOK, ReadyLists
<1>2. Push(ready, cur) \in ReadyLists
  BY <1>1, PushType
<1>3. "READY" \in Status \ Dead
  BY DEF Status, Dead
<1>4. QED
  BY <1>1, <1>2, <1>3, SwitchAlive DEF Yield

\* A step that moves only the running thread, and switches to nobody.
LEMMA StayAlive ==
    ASSUME LockInv, TypeInv', UNCHANGED <<status, cur>>,
           \A t \in AnyThread \ {cur} : pc'[t] = pc[t]
    PROVE  AliveInv'
BY DEF LockInv, AliveInv

\* Waking a thread brings nobody to life and kills nobody.
LEMMA RaiseAlive ==
    ASSUME LockInv, TypeInv', NEW s \in AnySema, Raise(s),
           \A t \in AnyThread \ {cur} : pc'[t] = pc[t]
    PROVE  AliveInv'
<1>1. CASE UNCHANGED <<waiters, ready, status>>
  BY <1>1, StayAlive DEF Raise
<1>2. ASSUME NEW i \in DOMAIN waiters[s],
             status' = [status EXCEPT ![waiters[s][i]] = "READY"]
      PROVE  AliveInv'
  BY <1>2 DEF Raise, LockInv, TypeInv, TypeOK, AliveInv, Dead
<1>3. QED
  BY <1>1, <1>2 DEF Raise, WakeOne

\* sema_down on a lock, or lock_try_acquire, takes a free lock for the caller.
LEMMA TakeLock ==
    ASSUME LockInv, TypeInv', NEW l \in Lock, value[l] > 0, UNCHANGED <<status, cur, holder>>,
           pc[cur] \notin {"hold", "rel"},
           value' = [value EXCEPT ![l] = @ - 1], Goto("hold", l, 0)
    PROVE  LocksStep
<1>0. value[l] = IF \E t \in AnyThread : Owns(t, l) THEN 0 ELSE 1
  BY DEF LockInv, MutualExclusion
<1>1. /\ value[l] = 1 /\ \A t \in AnyThread : ~Owns(t, l)
      /\ cur \in AnyThread /\ l \in AnySema
  <2>1. ~ \E t \in AnyThread : Owns(t, l)
    BY <1>0
  <2>2. QED
    BY <1>0, <2>1 DEF LockInv, TypeInv, TypeOK, AnySema
<1>2. value'[l] = 0 /\ \A k \in Lock \ {l} : value'[k] = value[k]
  BY <1>1 DEF LockInv, TypeInv, TypeOK, AnySema
<1>3. \A t \in AnyThread : pc'[t] = IF t = cur THEN "hold" ELSE pc[t]
  BY DEF Goto, LockInv, TypeInv, TypeOK
<1>4. \A t \in AnyThread : arg'[t] = IF t = cur THEN l ELSE arg[t]
  BY DEF Goto, LockInv, TypeInv, TypeOK
<1>5. \A t \in AnyThread, k \in Lock :
        Owns(t, k)' <=> Owns(t, k) \/ (t = cur /\ k = l)
  BY <1>3, <1>4 DEF Owns
<1>6. MutualExclusion'
  BY <1>1, <1>2, <1>5 DEF LockInv, MutualExclusion
<1>7. holder[l] = NULL
  BY <1>1 DEF Owns, LockInv, TypeInv, TypeOK
<1>8. \A t \in AnyThread : pc'[t] \in {"hold", "rel"} => holder'[arg'[t]] = NULL
  BY <1>3, <1>4, <1>7 DEF LockInv
<1>9. LockTaken
  BY <1>1, <1>5 DEF LockTaken
<1>10. QED
  BY <1>1, <1>3, <1>6, <1>8, <1>9 DEF LockInv, LocksStep, OwnersStep

\* One round of sema_down.
LEMMA DownRoundLock ==
    ASSUME LockInv, TypeInv', NEW s \in AnySema, DownRound(s), UNCHANGED holder,
           pc[cur] \notin {"hold", "rel"}
    PROVE  LocksStep
<1>1. CASE value[s] > 0 /\ s \in Lock
  <2>1. /\ value' = [value EXCEPT ![s] = @ - 1]
        /\ Goto("hold", s, 0)
        /\ UNCHANGED sched
    BY <1>1 DEF DownRound
  <2>2. QED
    BY <1>1, <2>1, TakeLock DEF sched
<1>2. CASE value[s] > 0 /\ s \notin Lock
  <2>1. /\ value' = [value EXCEPT ![s] = @ - 1]
        /\ Return
        /\ UNCHANGED sched
    BY <1>2 DEF DownRound
  <2>2. \A t \in AnyThread \ {cur} : pc'[t] = pc[t] /\ arg'[t] = arg[t]
    BY <2>1 DEF Return, Goto, LockInv, TypeInv, TypeOK
  <2>3. pc'[cur] = "run"
    BY <2>1 DEF Return, Goto, LockInv, TypeInv, TypeOK
  <2>4. \A l \in Lock : value'[l] = value[l]
    BY <1>2, <2>1 DEF LockInv, TypeInv, TypeOK, AnySema
  <2>5. AliveInv'
    BY <2>1, <2>2, StayAlive DEF sched
  <2>6. QED
    BY <2>2, <2>3, <2>4, <2>5, LocksUntouched DEF LockInv, AliveInv, LocksStep, OwnersStep
<1>3. CASE ~(value[s] > 0)
  <2>1. UNCHANGED value /\ thread_block /\ Goto("down", s, 0)
    BY <1>3 DEF DownRound
  <2>2. /\ \A t \in AnyThread \ {cur} : pc'[t] = pc[t] /\ arg'[t] = arg[t]
        /\ pc'[cur] = "down"
    BY <2>1 DEF Goto, LockInv, TypeInv, TypeOK
  <2>3. AliveInv'
    <3>1. ready \in ReadyLists /\ "BLOCKED" \in Status \ Dead
      BY DEF LockInv, TypeInv, TypeOK, ReadyLists, Status, Dead
    <3>2. QED
      BY <2>1, <2>2, <3>1, SwitchAlive DEF thread_block
  <2>4. QED
    BY <2>1, <2>2, <2>3, LocksUntouched DEF LockInv, AliveInv, LocksStep, OwnersStep
<1>4. QED
  BY <1>1, <1>2, <1>3

\* sema_up on a plain semaphore.
LEMMA SemaUpLock ==
    ASSUME LockInv, TypeInv', NEW s \in Sema, SemaUp(s), pc[cur] \notin {"hold", "rel"}
    PROVE  LocksStep
<1>1. Raise(s) /\ s \in AnySema /\ s \notin Lock
  BY ThreadsAssumption DEF SemaUp, AnySema
<1>2. PICK n \in PriMax(s) : Goto("upd", s, n)
  BY DEF SemaUp
<1>3. /\ \A t \in AnyThread \ {cur} : pc'[t] = pc[t] /\ arg'[t] = arg[t]
      /\ pc'[cur] = "upd"
  BY <1>2 DEF Goto, LockInv, TypeInv, TypeOK
<1>4. (\A l \in Lock : value'[l] = value[l]) /\ UNCHANGED holder
  BY <1>1 DEF Raise, LockInv, TypeInv, TypeOK, AnySema
<1>5. AliveInv'
  BY <1>1, <1>3, RaiseAlive
<1>6. QED
  BY <1>3, <1>4, <1>5, LocksUntouched DEF LockInv, AliveInv, LocksStep, OwnersStep

\* The sema_up of lock_release gives the lock back.
LEMMA ReleaseUpLock ==
    ASSUME LockInv, TypeInv', lock_release_up
    PROVE  LocksStep
<1> DEFINE l == arg[cur]
<1>1. pc[cur] = "rel" /\ SemaUp(l) /\ cur \in AnyThread
  BY DEF lock_release_up, LockInv, TypeInv, TypeOK
<1>2. l \in Lock /\ l \in AnySema
  BY <1>1 DEF LockInv, TypeInv, ArgOK, AnySema
<1>3. Raise(l)
  BY <1>1 DEF SemaUp
<1>4. PICK n \in PriMax(l) : Goto("upd", l, n)
  BY <1>1 DEF SemaUp
<1>5. /\ \A t \in AnyThread \ {cur} : pc'[t] = pc[t] /\ arg'[t] = arg[t]
      /\ pc'[cur] = "upd"
  BY <1>4 DEF Goto, LockInv, TypeInv, TypeOK
<1>6. Owns(cur, l) /\ holder[l] = NULL
  BY <1>1, <1>2 DEF Owns, LockInv
<1>7. value[l] = 0 /\ \A t \in AnyThread : Owns(t, l) => t = cur
  BY <1>1, <1>2, <1>6 DEF LockInv, MutualExclusion
<1>8. /\ value'[l] = 1 /\ holder' = holder
      /\ \A k \in Lock \ {l} : value'[k] = value[k]
  BY <1>2, <1>3, <1>7 DEF Raise, LockInv, TypeInv, TypeOK, AnySema
<1>9. \A t \in AnyThread, k \in Lock : Owns(t, k)' <=> Owns(t, k) /\ k # l
  <2>1. \A t \in AnyThread \ {cur}, k \in Lock : Owns(t, k)' <=> Owns(t, k)
    BY <1>5, <1>8 DEF Owns
  <2>2. \A k \in Lock : Owns(cur, k) <=> holder[k] = cur \/ k = l
    BY <1>1 DEF Owns
  <2>3. \A k \in Lock : Owns(cur, k)' <=> holder'[k] = cur
    <3>1. \A k \in Lock : ~((pc[cur] \in {"hold", "rel"} /\ arg[cur] = k)' /\ UNCHANGED cur)
      BY <1>5
    <3>2. UNCHANGED cur
      BY <1>3 DEF Raise
    <3>3. QED
      BY <3>1, <3>2 DEF Owns
  <2>4. holder[l] # cur
    BY <1>1, <1>6, ThreadsAssumption
  <2>5. QED
    BY <1>7, <1>8, <2>1, <2>2, <2>3, <2>4, <1>1, <1>3 DEF Raise
<1>10. MutualExclusion'
  BY <1>7, <1>8, <1>9 DEF LockInv, MutualExclusion
<1>11. \A t \in AnyThread : pc'[t] \in {"hold", "rel"} => holder'[arg'[t]] = NULL
  BY <1>5, <1>8 DEF LockInv
<1>12. AliveInv'
  BY <1>2, <1>3, <1>5, RaiseAlive
<1>13. LockGiven
  BY <1>2, <1>6, <1>9 DEF LockGiven
<1>14. QED
  BY <1>10, <1>11, <1>12, <1>13 DEF LockInv, AliveInv, LocksStep, OwnersStep

\* A step in which the running thread moves from one place outside the lock
\* operations to another, and may yield.
LEMMA MoveOrYield ==
    ASSUME LockInv, TypeInv', UNCHANGED synch,
           NEW p \in Place \ {"hold", "rel"}, NEW a, NEW n, Goto(p, a, n),
           pc[cur] \notin {"hold", "rel"},
           Yield(ready, ticks) \/ UNCHANGED sched
    PROVE  LocksStep
<1>1. \A t \in AnyThread \ {cur} : pc'[t] = pc[t] /\ arg'[t] = arg[t]
  BY DEF Goto, LockInv, TypeInv, TypeOK
<1>2. pc'[cur] = p /\ ticks \in Nat
  BY ThreadsAssumption DEF Goto, LockInv, TypeInv, TypeOK
<1>3. AliveInv'
  <2>1. CASE Yield(ready, ticks)
    BY <1>1, <1>2, <2>1, YieldAlive
  <2>2. CASE UNCHANGED sched
    BY <1>1, <2>2, StayAlive DEF sched
  <2>3. QED
    BY <2>1, <2>2
<1>4. QED
  BY <1>1, <1>2, <1>3, LocksUntouched DEF LockInv, AliveInv, LocksStep, OwnersStep, synch

\* A return that may yield first.
LEMMA ReturnOrYield ==
    ASSUME LockInv, TypeInv', UNCHANGED synch, Return,
           pc[cur] \notin {"hold", "rel"},
           Yield(ready, ticks) \/ UNCHANGED sched
    PROVE  LocksStep
BY MoveOrYield DEF Return, Place

\* Every step of the kernel keeps the invariant of the locks.
LEMMA LockStep == LockInv /\ [Next]_vars => LocksStep
<1> SUFFICES ASSUME LockInv, [Next]_vars PROVE LocksStep
  OBVIOUS
<1>0. TypeInv'
  BY TypeStep DEF LockInv
<1>a. cur \in AnyThread /\ ready \in ReadyLists /\ ticks \in Nat
  BY ThreadsAssumption DEF LockInv, TypeInv, TypeOK, ReadyLists
<1>b. ASSUME Running PROVE pc[cur] \notin {"hold", "rel"}
  BY <1>b DEF Running
<1>1. ASSUME NEW s \in AnySema, sema_down(s) PROVE LocksStep
  BY <1>0, <1>1, <1>b, DownRoundLock DEF sema_down
<1>2. ASSUME sema_down_resume PROVE LocksStep
  <2>1. arg[cur] \in AnySema
    BY <1>2, <1>a DEF sema_down_resume, LockInv, TypeInv, ArgOK
  <2>2. QED
    BY <1>0, <1>2, <2>1, DownRoundLock DEF sema_down_resume
<1>3. ASSUME NEW s \in AnySema, sema_try_down(s) PROVE LocksStep
  <2>1. CASE s \in Lock
    BY <1>0, <1>3, <1>b, <2>1, TakeLock DEF sema_try_down, sched
  <2>2. CASE s \notin Lock
    <3>1. \A t \in AnyThread \ {cur} : pc'[t] = pc[t] /\ arg'[t] = arg[t]
      BY <1>3, <2>2 DEF sema_try_down, Return, Goto, LockInv, TypeInv, TypeOK
    <3>2. pc'[cur] = "run"
      BY <1>3, <2>2 DEF sema_try_down, Return, Goto, LockInv, TypeInv, TypeOK
    <3>3. \A l \in Lock : value'[l] = value[l]
      BY <1>3, <2>2 DEF sema_try_down, LockInv, TypeInv, TypeOK, AnySema
    <3>4. AliveInv'
      BY <1>0, <1>3, <3>1, StayAlive DEF sema_try_down, sched
    <3>5. QED
      BY <1>0, <1>3, <1>b, <3>1, <3>2, <3>3, <3>4, LocksUntouched
         DEF LockInv, AliveInv, LocksStep, OwnersStep, sema_try_down
  <2>3. QED
    BY <2>1, <2>2
<1>4. ASSUME NEW s \in Sema, sema_up(s) PROVE LocksStep
  BY <1>0, <1>4, <1>b, SemaUpLock DEF sema_up
<1>5. ASSUME sema_up_yield \/ set_priority_yield \/ unblock_yield PROVE LocksStep
  BY <1>0, <1>5, ReturnOrYield DEF sema_up_yield, set_priority_yield, unblock_yield
<1>6. ASSUME lock_set_holder PROVE LocksStep
  <2> DEFINE l == arg[cur]
  <2>1. l \in Lock /\ Owns(cur, l) /\ holder[l] = NULL
    BY <1>6, <1>a DEF lock_set_holder, LockInv, TypeInv, ArgOK, Owns
  <2>2. \A t \in AnyThread : pc'[t] = IF t = cur THEN "run" ELSE pc[t]
    BY <1>6 DEF lock_set_holder, Return, Goto, LockInv, TypeInv, TypeOK
  <2>3. \A t \in AnyThread \ {cur} : arg'[t] = arg[t]
    BY <1>6 DEF lock_set_holder, Return, Goto, LockInv, TypeInv, TypeOK
  <2>4. \A k \in Lock : holder'[k] = IF k = l THEN cur ELSE holder[k]
    BY <1>6 DEF lock_set_holder, LockInv, TypeInv, TypeOK
  <2>5. \A t \in AnyThread : Owns(t, l) => t = cur
    BY <1>a, <2>1 DEF LockInv, MutualExclusion
  <2>6. \A t \in AnyThread, k \in Lock : Owns(t, k)' <=> Owns(t, k)
    BY <1>6, <2>1, <2>2, <2>3, <2>4, <2>5, ThreadsAssumption DEF Owns, lock_set_holder
  <2>7. MutualExclusion'
    BY <1>6, <2>6 DEF LockInv, MutualExclusion, lock_set_holder
  <2>8. \A t \in AnyThread : pc'[t] \in {"hold", "rel"} => arg[t] # l
    BY <2>2, <2>5 DEF Owns
  <2>9. \A t \in AnyThread : pc'[t] \in {"hold", "rel"} => holder'[arg'[t]] = NULL
    BY <2>2, <2>3, <2>4, <2>8 DEF LockInv, TypeInv, ArgOK
  <2>10. AliveInv'
    BY <1>0, <1>6, <2>2, StayAlive DEF lock_set_holder, sched
  <2>11. QED
    BY <1>0, <2>6, <2>7, <2>9, <2>10 DEF LockInv, AliveInv, LocksStep, OwnersStep, OwnersKept
<1>7. ASSUME NEW l \in Lock, lock_release(l) PROVE LocksStep
  <2>1. Owns(cur, l) /\ pc[cur] = "run"
    BY <1>7 DEF lock_release, Running, Owns
  <2>2. \A t \in AnyThread : pc'[t] = IF t = cur THEN "rel" ELSE pc[t]
    BY <1>7 DEF lock_release, Goto, LockInv, TypeInv, TypeOK
  <2>3. \A t \in AnyThread : arg'[t] = IF t = cur THEN l ELSE arg[t]
    BY <1>7 DEF lock_release, Goto, LockInv, TypeInv, TypeOK
  <2>4. \A k \in Lock : holder'[k] = IF k = l THEN NULL ELSE holder[k]
    BY <1>7 DEF lock_release, LockInv, TypeInv, TypeOK
  <2>5. \A t \in AnyThread : Owns(t, l) => t = cur
    BY <1>a, <2>1 DEF LockInv, MutualExclusion
  <2>6. \A t \in AnyThread, k \in Lock : Owns(t, k)' <=> Owns(t, k)
    BY <1>7, <2>1, <2>2, <2>3, <2>4, <2>5, ThreadsAssumption DEF Owns, lock_release
  <2>7. MutualExclusion'
    BY <1>7, <2>6 DEF LockInv, MutualExclusion, lock_release
  <2>8. \A t \in AnyThread : pc'[t] \in {"hold", "rel"} => holder'[arg'[t]] = NULL
    BY <2>2, <2>3, <2>4 DEF LockInv, TypeInv, ArgOK
  <2>9. AliveInv'
    BY <1>0, <1>7, <2>2, StayAlive DEF lock_release, sched
  <2>10. QED
    BY <1>0, <2>6, <2>7, <2>8, <2>9 DEF LockInv, AliveInv, LocksStep, OwnersStep, OwnersKept
<1>8. ASSUME lock_release_up PROVE LocksStep
  BY <1>0, <1>8, ReleaseUpLock
<1>9. ASSUME thread_yield PROVE LocksStep
  <2>1. AliveInv'
    BY <1>0, <1>9, <1>a, YieldAlive DEF thread_yield, local
  <2>2. QED
    BY <1>0, <1>9, <2>1, LocksUntouched DEF LockInv, AliveInv, LocksStep, OwnersStep, thread_yield, local, synch
<1>10. ASSUME NEW p \in Pri, thread_set_priority(p) PROVE LocksStep
  BY <1>0, <1>10, <1>b, MoveOrYield DEF thread_set_priority, Place
<1>11. ASSUME NEW t \in Thread, NEW p \in Pri, thread_create(t, p) PROVE LocksStep
  <2>1. status[t] \in Dead /\ pc[t] = "none" /\ t # cur /\ t \in AnyThread
    BY <1>11 DEF thread_create, LockInv, Dead, AnyThread
  <2>2. \A u \in AnyThread : pc'[u] = IF u = t THEN "run" ELSE IF u = cur THEN "made" ELSE pc[u]
    BY <1>11, <2>1 DEF thread_create, LockInv, TypeInv, TypeOK
  <2>3. \A u \in AnyThread \ {cur} : arg'[u] = arg[u]
    BY <1>11 DEF thread_create, LockInv, TypeInv, TypeOK
  <2>4. AliveInv'
    BY <1>11, <1>a, <2>1, <2>2 DEF thread_create, LockInv, AliveInv, Dead, TypeInv, TypeOK
  <2>5. pc[cur] \notin {"hold", "rel"} /\ UNCHANGED synch
    BY <1>11, <1>b DEF thread_create
  <2>6. QED
    BY <1>0, <2>1, <2>2, <2>3, <2>4, <2>5, LocksUntouched DEF LockInv, AliveInv, LocksStep, OwnersStep, synch
<1>12. ASSUME thread_unblock PROVE LocksStep
  <2>1. PICK top \in Pri : Goto("unbl", arg[cur], top)
    BY <1>12 DEF thread_unblock
  <2>2. /\ \A t \in AnyThread \ {cur} : pc'[t] = pc[t] /\ arg'[t] = arg[t]
        /\ pc'[cur] = "unbl" /\ pc[cur] = "made"
    BY <1>12, <2>1 DEF thread_unblock, Goto, LockInv, TypeInv, TypeOK
  <2>3. arg[cur] \in AnyThread
    BY <1>a, <2>2 DEF LockInv, TypeInv, ArgOK
  <2>4. AliveInv'
    BY <1>12, <1>a, <2>2, <2>3 DEF thread_unblock, LockInv, AliveInv, Dead, TypeInv, TypeOK
  <2>5. QED
    BY <1>0, <1>12, <2>2, <2>4, LocksUntouched
       DEF LockInv, AliveInv, LocksStep, OwnersStep, thread_unblock, synch
<1>13. ASSUME thread_exit PROVE LocksStep
  <2>1. /\ \A t \in AnyThread \ {cur} : pc'[t] = pc[t] /\ arg'[t] = arg[t]
        /\ pc'[cur] = "none" /\ pc[cur] = "run"
    BY <1>13 DEF thread_exit, Running, Goto, LockInv, TypeInv, TypeOK
  <2>2. AliveInv'
    <3>1. /\ cur' \in AnyThread
          /\ status'[cur'] = "RUNNING"
          /\ \A t \in AnyThread \ {cur, cur'} : status'[t] = status[t]
      BY <1>13, <1>a, ScheduleType DEF thread_exit, LockInv, TypeInv, Status
    <3>2. QED
      BY <2>1, <3>1 DEF AliveInv, LockInv, Dead
  <2>3. QED
    BY <1>0, <1>13, <2>1, <2>2, LocksUntouched DEF LockInv, AliveInv, LocksStep, OwnersStep, thread_exit, synch
<1>14. ASSUME idle PROVE LocksStep
  <2>1. /\ \A t \in AnyThread \ {cur} : pc'[t] = pc[t] /\ arg'[t] = arg[t]
        /\ pc'[cur] = "hlt" /\ pc[cur] = "loop"
    BY <1>14 DEF idle, Goto, LockInv, TypeInv, TypeOK
  <2>2. AliveInv'
    <3>1. "BLOCKED" \in Status \ Dead
      BY DEF Status, Dead
    <3>2. QED
      BY <1>0, <1>14, <1>a, <2>1, <3>1, SwitchAlive DEF idle, thread_block
  <2>3. QED
    BY <1>0, <1>14, <2>1, <2>2, LocksUntouched DEF LockInv, AliveInv, LocksStep, OwnersStep, idle, synch
<1>c. ASSUME LeaveHlt
      PROVE  /\ \A t \in AnyThread \ {cur} : pc'[t] = pc[t]
             /\ \A t \in AnyThread : {pc[t], pc'[t]} \cap {"hold", "rel"} # {}
                                      => pc'[t] = pc[t]
  BY <1>c DEF LeaveHlt, LockInv, TypeInv, TypeOK
<1>15. ASSUME Tick PROVE LocksStep
  <2>1. AliveInv'
    <3>1. CASE thread_ticks + 1 >= TIME_SLICE
      <4>1. ticks' \in Nat
        BY <1>15, <1>a, ThreadsAssumption DEF Tick
      <4>2. QED
        BY <1>0, <1>15, <1>c, <3>1, <4>1, YieldAlive DEF Tick
    <3>2. CASE ~(thread_ticks + 1 >= TIME_SLICE)
      BY <1>0, <1>15, <1>c, <3>2, StayAlive DEF Tick
    <3>3. QED
      BY <3>1, <3>2
  <2>2. QED
    BY <1>0, <1>15, <1>c, <2>1, LocksUntouched DEF LockInv, AliveInv, LocksStep, OwnersStep, Tick, synch
<1>16. ASSUME NEW s \in IntrSema, InterruptUp(s) PROVE LocksStep
  <2>1. s \in AnySema /\ s \notin Lock /\ Raise(s) /\ LeaveHlt /\ UNCHANGED arg
    BY <1>16, ThreadsAssumption DEF InterruptUp, AnySema
  <2>2. (\A l \in Lock : value'[l] = value[l]) /\ UNCHANGED holder
    BY <2>1 DEF Raise, LockInv, TypeInv, TypeOK, AnySema
  <2>3. AliveInv'
    BY <1>0, <1>c, <2>1, RaiseAlive
  <2>4. QED
    BY <1>0, <1>c, <2>1, <2>2, <2>3, LocksUntouched DEF LockInv, AliveInv, LocksStep, OwnersStep
<1>17. ASSUME UNCHANGED vars PROVE LocksStep
  <2>1. AliveInv'
    BY <1>0, <1>17, StayAlive DEF vars, sched, local
  <2>2. QED
    BY <1>0, <1>17, <2>1, LocksUntouched DEF LockInv, AliveInv, LocksStep, OwnersStep, vars, synch, local
<1>18. QED
  BY <1>1, <1>2, <1>3, <1>4, <1>5, <1>6, <1>7, <1>8, <1>9, <1>10, <1>11, <1>12,
     <1>13, <1>14, <1>15, <1>16, <1>17
     DEF Next, ThreadStep, lock_acquire, lock_try_acquire, AnySema

\* No lock has an owner at first.
LEMMA LockInit == Init => LockInv
<1> SUFFICES ASSUME Init PROVE LockInv
  OBVIOUS
<1>1. TypeInv
  BY TypeInit
<1>2. \A t \in AnyThread, l \in Lock : ~Owns(t, l)
  BY ThreadsAssumption DEF Init, Owns
<1>3. QED
  BY <1>1, <1>2, ThreadsAssumption
     DEF Init, LockInv, MutualExclusion, Dead, AnyThread, AnySema

\* The invariant of the locks holds in every state.
LEMMA LockInvariant == Spec => []LockInv
<1>1. LockInv /\ [Next]_vars => LockInv'
  BY LockStep DEF LocksStep
<1>2. QED
  BY <1>1, LockInit, PTL DEF Spec

\* A lock has at most one owner, and its semaphore is free exactly when it has
\* none, in every state of the kernel: preemption between a semaphore operation
\* and the write of `holder' does no harm.
THEOREM LocksAreExclusive == Spec => []MutualExclusion
<1>1. LockInv => MutualExclusion
  BY DEF LockInv
<1>2. QED
  BY <1>1, LockInvariant, PTL

-----------------------------------------------------------------------------
(* The locks implement LockService.                                         *)

\* OwnerOf names the one owner of a lock, and NULL when there is none.
OwnersNamed ==
    \A l \in Lock :
        /\ \A t \in AnyThread : Owns(t, l) => OwnerOf(l) = t
        /\ (\A t \in AnyThread : ~Owns(t, l)) => OwnerOf(l) = NULL

\* OwnerOf names the owner of a lock.
LEMMA OwnersAreNamed == LockInv => OwnersNamed
<1> SUFFICES ASSUME LockInv, NEW l \in Lock
             PROVE  /\ \A t \in AnyThread : Owns(t, l) => OwnerOf(l) = t
                    /\ (\A t \in AnyThread : ~Owns(t, l)) => OwnerOf(l) = NULL
  BY DEF OwnersNamed
<1>1. \A t, u \in AnyThread : Owns(t, l) /\ Owns(u, l) => t = u
  BY DEF LockInv, MutualExclusion
<1>2. ASSUME NEW t \in AnyThread, Owns(t, l) PROVE OwnerOf(l) = t
  <2>1. OwnerOf(l) = CHOOSE u \in AnyThread : Owns(u, l)
    BY <1>2 DEF OwnerOf
  <2>2. OwnerOf(l) \in AnyThread /\ Owns(OwnerOf(l), l)
    BY <1>2, <2>1
  <2>3. QED
    BY <1>1, <1>2, <2>2
<1>3. QED
  BY <1>2 DEF OwnerOf

\* What a step does to the owners is a step of LockService or none.
LEMMA OwnersRefine ==
    ASSUME LockInv, OwnersNamed, OwnersNamed', OwnersStep
    PROVE  [LS!Next]_[l \in Lock |-> OwnerOf(l)]
<1> DEFINE owner == [l \in Lock |-> OwnerOf(l)]
           after == [l \in Lock |-> OwnerOf(l)']
<1>0. cur \in AnyThread /\ NULL \notin AnyThread
  BY ThreadsAssumption DEF LockInv, TypeInv, TypeOK
<1>1. CASE OwnersKept
  <2>1. \A l \in Lock : OwnerOf(l)' = OwnerOf(l)
    BY <1>1 DEF OwnersNamed, OwnersKept
  <2>2. QED
    BY <2>1
<1>2. CASE LockTaken
  <2>1. PICK l \in Lock :
          /\ \A t \in AnyThread : ~Owns(t, l)
          /\ \A t \in AnyThread, k \in Lock : Owns(t, k)' <=> Owns(t, k) \/ (t = cur /\ k = l)
    BY <1>2 DEF LockTaken
  <2>2. OwnerOf(l) = NULL /\ OwnerOf(l)' = cur
    BY <1>0, <2>1 DEF OwnersNamed
  <2>3. \A k \in Lock \ {l} : OwnerOf(k)' = OwnerOf(k)
    BY <2>1 DEF OwnersNamed
  <2>4. owner[l] = NULL /\ after = [owner EXCEPT ![l] = cur]
    BY <2>2, <2>3
  <2>5. QED
    BY <1>0, <2>4 DEF LS!Next, LS!Acquire
<1>3. CASE LockGiven
  <2>1. PICK l \in Lock :
          /\ Owns(cur, l)
          /\ \A t \in AnyThread, k \in Lock : Owns(t, k)' <=> Owns(t, k) /\ k # l
    BY <1>3 DEF LockGiven
  <2>2. OwnerOf(l) = cur /\ OwnerOf(l)' = NULL
    BY <1>0, <2>1 DEF OwnersNamed
  <2>3. \A k \in Lock \ {l} : OwnerOf(k)' = OwnerOf(k)
    BY <2>1 DEF OwnersNamed
  <2>4. owner[l] # NULL /\ after = [owner EXCEPT ![l] = NULL]
    BY <1>0, <2>2, <2>3
  <2>5. QED
    BY <2>4 DEF LS!Next, LS!Release
<1>4. QED
  BY <1>1, <1>2, <1>3 DEF OwnersStep

\* Locks do for their users what LockService says, for any number of threads and
\* locks: whatever is preempted in lock_acquire or lock_release, a lock goes from
\* nobody to one thread and from that thread to nobody.
THEOREM LocksRefine == Spec => LocksImplementLockService
<1>1. Init => LS!Init
  <2> SUFFICES ASSUME Init PROVE LS!Init
    OBVIOUS
  <2>1. OwnersNamed
    BY LockInit, OwnersAreNamed
  <2>2. \A t \in AnyThread, l \in Lock : ~Owns(t, l)
    BY ThreadsAssumption DEF Init, Owns
  <2>3. QED
    BY <2>1, <2>2 DEF LS!Init, OwnersNamed
<1>2. LockInv /\ OwnersNamed /\ OwnersNamed' /\ [Next]_vars
        => [LS!Next]_[l \in Lock |-> OwnerOf(l)]
  BY LockStep, OwnersRefine DEF LocksStep
<1>3. QED
  BY <1>1, <1>2, LockInvariant, OwnersAreNamed, PTL
     DEF Spec, LocksImplementLockService, LS!Spec

=============================================================================
