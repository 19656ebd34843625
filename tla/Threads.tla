------------------------------ MODULE Threads ------------------------------
(***************************************************************************)
(* The kernel's threads, ready queues, semaphores and locks                *)
(* (threads/thread.c, threads/synch.c, the yield of threads/interrupt.c).  *)
(*                                                                         *)
(* There is one processor.  Code that runs with interrupts off is atomic   *)
(* up to a call of schedule(), so an action is one stretch of code between *)
(* two points where an interrupt may be taken or the processor is given    *)
(* away.  Only the running thread `cur' takes steps; a thread that lost    *)
(* the processor keeps its place in pc.  The places are                    *)
(*   none  the slot holds no thread (its page is free)                     *)
(*   run   ordinary code, interrupts on                                    *)
(*   down  in the loop of sema_down on arg, interrupts off                 *)
(*   hold  lock_acquire: semaphore taken, `holder' not yet written         *)
(*   rel   lock_release: `holder' cleared, semaphore not yet upped         *)
(*   upd   sema_up: interrupts restored, about to compare pri_max          *)
(*   setp  thread_set_priority: priority written, about to compare         *)
(*   made  thread_create: arg initialised, thread_unblock not yet called   *)
(*   unbl  thread_unblock: arg is ready, about to compare top_pri          *)
(*   hlt, loop  the idle thread, halted and back from hlt                  *)
(***************************************************************************)
EXTENDS Naturals, Sequences, FiniteSets

CONSTANTS Thread,          \* pages that may hold a struct thread
          idle_thread,     \* the idle thread
          initial_thread,  \* the thread running main()
          NULL,
          Sema,            \* plain semaphores
          Lock,            \* locks; a lock is also the name of its semaphore
          IntrSema,        \* the semaphores interrupt handlers up
          PRI_MAX,         \* 63 in the code
          TIME_SLICE,      \* 4 in the code
          AGE,             \* 100 in the code; ticks count modulo AGE
          MaxValue         \* bound: no semaphore is upped beyond this value

Pri == 0 .. PRI_MAX
AnyThread == Thread \cup {idle_thread}
AnySema == Sema \cup Lock

ASSUME ThreadsAssumption ==
    /\ IsFiniteSet(Thread)
    /\ initial_thread \in Thread
    /\ idle_thread \notin Thread
    /\ NULL \notin AnyThread \cup AnySema
    /\ AnyThread \cap AnySema = {}
    /\ Sema \cap Lock = {}
    /\ IntrSema \subseteq Sema
    /\ PRI_MAX \in Nat
    /\ TIME_SLICE \in Nat \ {0}
    /\ AGE \in Nat \ {0}
    /\ MaxValue \in Nat \ {0}

VARIABLES status,         \* struct thread: status ("NONE": the page is free)
          priority,       \* struct thread: priority
          recent_unused,  \* struct thread: tick of the last thread_yield
          ready,          \* ready_list[PRI_MAX + 1]
          cur,            \* running_thread ()
          thread_ticks,   \* ticks since the last thread switch
          ticks,          \* timer ticks, modulo AGE
          value,          \* struct semaphore: value
          waiters,        \* struct semaphore: waiters
          holder,         \* struct lock: holder
          pc, arg, loc    \* where each thread is, with its locals

sched == <<status, ready, cur, thread_ticks, recent_unused>>
synch == <<value, waiters, holder>>
local == <<pc, arg, loc>>
vars == <<sched, priority, ticks, synch, local>>

-----------------------------------------------------------------------------
(* The scheduler.                                                          *)

\* p is what thread_top_priority () returns on the ready lists r.
IsTop(r, p) ==
    \/ r[p] # <<>> /\ \A q \in Pri : q > p => r[q] = <<>>
    \/ p = 0 /\ \A q \in Pri : r[q] = <<>>

\* list_push_back (&ready_list[t->priority], &t->elem)
Push(r, t) == [r EXCEPT ![priority[t]] = Append(@, t)]

\* schedule (), next_thread_to_run () and thread_schedule_tail (): `cur' has
\* status st, r are the ready lists; the next thread runs and frees the page
\* of a dying predecessor.
schedule(r, st) ==
    LET left == IF st = "DYING" /\ cur # initial_thread THEN "NONE" ELSE st IN
    \E p \in Pri :
        /\ IsTop(r, p)
        /\ cur' = IF r[p] = <<>> THEN idle_thread ELSE Head(r[p])
        /\ ready' = IF r[p] = <<>> THEN r ELSE [r EXCEPT ![p] = Tail(@)]
        /\ status' = [status EXCEPT ![cur] = left, ![cur'] = "RUNNING"]
        /\ thread_ticks' = 0

\* thread_block (): interrupts are off.
thread_block ==
    /\ schedule(ready, "BLOCKED")
    /\ UNCHANGED recent_unused

\* thread_yield () at time `now' from the ready lists r: the idle thread is not
\* put on a list.
Yield(r, now) ==
    \/ /\ cur = idle_thread
       /\ schedule(r, "READY")
       /\ UNCHANGED recent_unused
    \/ /\ cur # idle_thread
       /\ schedule(Push(r, cur), "READY")
       /\ recent_unused' = [recent_unused EXCEPT ![cur] = now]

\* The running thread goes on at place p, with the locals a and n.
Goto(p, a, n) ==
    /\ pc' = [pc EXCEPT ![cur] = p]
    /\ arg' = [arg EXCEPT ![cur] = a]
    /\ loc' = [loc EXCEPT ![cur] = n]

Return == Goto("run", NULL, 0)

\* Kernel code of a thread other than idle, with interrupts on.
Running == cur # idle_thread /\ pc[cur] = "run"

\* A thread that was switched to inside sema_down still has interrupts off.
IntrOn == pc[cur] # "down"

-----------------------------------------------------------------------------
(* Semaphores and locks.                                                   *)

\* One round of the loop of sema_down, interrupts off.
DownRound(s) ==
    \/ /\ value[s] > 0
       /\ value' = [value EXCEPT ![s] = @ - 1]
       /\ IF s \in Lock THEN Goto("hold", s, 0) ELSE Return
       /\ UNCHANGED <<sched, waiters>>
    \/ /\ value[s] = 0
       /\ waiters' = [waiters EXCEPT ![s] = Append(@, cur)]
       /\ Goto("down", s, 0)
       /\ thread_block
       /\ UNCHANGED value

\* w[i] is the waiter sema_up wakes: the first of the highest priority.
IsFirstMax(w, i) ==
    /\ \A j \in DOMAIN w : priority[w[j]] <= priority[w[i]]
    /\ \A j \in DOMAIN w : j < i => priority[w[j]] < priority[w[i]]

Without(w, i) == SubSeq(w, 1, i - 1) \o SubSeq(w, i + 1, Len(w))

\* Mutant: the woken thread stays among the waiters (no list_remove).
WakeAndKeep(s) ==
    \/ /\ waiters[s] = <<>>
       /\ UNCHANGED <<waiters, ready, status>>
    \/ \E i \in DOMAIN waiters[s] :
       /\ IsFirstMax(waiters[s], i)
       /\ ready' = Push(ready, waiters[s][i])
       /\ status' = [status EXCEPT ![waiters[s][i]] = "READY"]
       /\ UNCHANGED waiters

\* Mutant: a waiter is woken only when the value was 0.
WakeAtZero(s) ==
    \/ /\ waiters[s] = <<>> \/ value[s] > 0
       /\ UNCHANGED <<waiters, ready, status>>
    \/ /\ value[s] = 0
       /\ \E i \in DOMAIN waiters[s] :
            /\ IsFirstMax(waiters[s], i)
            /\ waiters' = [waiters EXCEPT ![s] = Without(@, i)]
            /\ ready' = Push(ready, waiters[s][i])
            /\ status' = [status EXCEPT ![waiters[s][i]] = "READY"]

\* The part of sema_up with interrupts off.
WakeOne(s) ==
    \/ /\ waiters[s] = <<>>
       /\ UNCHANGED <<waiters, ready, status>>
    \/ \E i \in DOMAIN waiters[s] :
       /\ IsFirstMax(waiters[s], i)
       /\ waiters' = [waiters EXCEPT ![s] = Without(@, i)]
       /\ ready' = Push(ready, waiters[s][i])
       /\ status' = [status EXCEPT ![waiters[s][i]] = "READY"]

Raise(s) ==
    /\ WakeOne(s)
    /\ value' = [value EXCEPT ![s] = @ + 1]
    /\ UNCHANGED <<cur, thread_ticks, recent_unused, priority, ticks, holder>>

\* What pri_max holds after the wake-up: the priority of the woken thread, or,
\* when nobody waited, whatever was on the stack.
PriMax(s) ==
    IF waiters[s] = <<>> THEN {0, PRI_MAX + 1}
    ELSE {priority[waiters[s][i]] : i \in {j \in DOMAIN waiters[s] : IsFirstMax(waiters[s], j)}}

SemaUp(s) ==
    /\ Raise(s)
    /\ \E n \in PriMax(s) : Goto("upd", s, n)

sema_down(s) == Running /\ DownRound(s) /\ UNCHANGED <<priority, ticks, holder>>

\* Mutant: `if' instead of `while' in sema_down.
sema_down_once ==
    /\ pc[cur] = "down"
    /\ value' = [value EXCEPT ![arg[cur]] = @ - 1]
    /\ IF arg[cur] \in Lock THEN Goto("hold", arg[cur], 0) ELSE Return
    /\ UNCHANGED <<sched, waiters, priority, ticks, holder>>

sema_down_resume ==
    /\ pc[cur] = "down"
    /\ DownRound(arg[cur])
    /\ UNCHANGED <<priority, ticks, holder>>

\* Mutant: no test of the value.
sema_try_down_always(s) ==
    /\ Running
    /\ value' = [value EXCEPT ![s] = @ - 1]
    /\ IF s \in Lock THEN Goto("hold", s, 0) ELSE Return
    /\ UNCHANGED <<sched, priority, ticks, waiters, holder>>

sema_try_down(s) ==
    /\ Running
    /\ value[s] > 0
    /\ value' = [value EXCEPT ![s] = @ - 1]
    /\ IF s \in Lock THEN Goto("hold", s, 0) ELSE Return
    /\ UNCHANGED <<sched, priority, ticks, waiters, holder>>

sema_up(s) == Running /\ value[s] < MaxValue /\ SemaUp(s)

\* Mutant: sema_up does not yield to the thread it woke.
sema_up_stay ==
    /\ pc[cur] = "upd"
    /\ Return
    /\ UNCHANGED <<sched, priority, ticks, synch>>

\* The test after sema_up has restored the interrupt level.
sema_up_yield ==
    /\ pc[cur] = "upd"
    /\ Return
    /\ IF loc[cur] > priority[cur] THEN Yield(ready, ticks) ELSE UNCHANGED sched
    /\ UNCHANGED <<priority, ticks, synch>>

lock_acquire(l) ==
    /\ holder[l] # cur
    /\ sema_down(l)

lock_try_acquire(l) ==
    /\ holder[l] # cur
    /\ sema_try_down(l)

lock_set_holder ==
    /\ pc[cur] = "hold"
    /\ holder' = [holder EXCEPT ![arg[cur]] = cur]
    /\ Return
    /\ UNCHANGED <<sched, priority, ticks, value, waiters>>

\* Mutant: no ASSERT (lock_held_by_current_thread (lock)).
lock_release_any(l) ==
    /\ Running
    /\ holder[l] # NULL
    /\ holder' = [holder EXCEPT ![l] = NULL]
    /\ Goto("rel", l, 0)
    /\ UNCHANGED <<sched, priority, ticks, value, waiters>>

lock_release(l) ==
    /\ Running
    /\ holder[l] = cur
    /\ holder' = [holder EXCEPT ![l] = NULL]
    /\ Goto("rel", l, 0)
    /\ UNCHANGED <<sched, priority, ticks, value, waiters>>

lock_release_up == pc[cur] = "rel" /\ SemaUp(arg[cur])

-----------------------------------------------------------------------------
(* Threads.                                                                *)

thread_yield == Running /\ Yield(ready, ticks) /\ UNCHANGED <<priority, ticks, synch, local>>

thread_set_priority(p) ==
    /\ Running
    /\ priority' = [priority EXCEPT ![cur] = p]
    /\ Goto("setp", NULL, p)
    /\ UNCHANGED <<sched, ticks, synch>>

set_priority_yield ==
    /\ pc[cur] = "setp"
    /\ Return
    /\ \E top \in Pri :
        /\ IsTop(ready, top)
        /\ IF loc[cur] < top THEN Yield(ready, ticks) ELSE UNCHANGED sched
    /\ UNCHANGED <<priority, ticks, synch>>

\* thread_create up to the call of thread_unblock: t is a blocked thread.
thread_create(t, p) ==
    /\ Running
    /\ status[t] = "NONE"
    /\ status' = [status EXCEPT ![t] = "BLOCKED"]
    /\ priority' = [priority EXCEPT ![t] = p]
    /\ recent_unused' = [recent_unused EXCEPT ![t] = ticks]
    /\ pc' = [pc EXCEPT ![cur] = "made", ![t] = "run"]
    /\ arg' = [arg EXCEPT ![cur] = t]
    /\ UNCHANGED <<ready, cur, thread_ticks, ticks, synch, loc>>

\* thread_unblock: top_pri is read before the thread is pushed.
thread_unblock ==
    /\ pc[cur] = "made"
    /\ ready' = Push(ready, arg[cur])
    /\ status' = [status EXCEPT ![arg[cur]] = "READY"]
    /\ \E top \in Pri : IsTop(ready, top) /\ Goto("unbl", arg[cur], top)
    /\ UNCHANGED <<cur, thread_ticks, recent_unused, priority, ticks, synch>>

\* The test at the end of thread_unblock reads t->priority: garbage if the new
\* thread has come and gone meanwhile.
unblock_yield ==
    /\ pc[cur] = "unbl"
    /\ Return
    /\ \/ /\ loc[cur] < priority[arg[cur]] \/ status[arg[cur]] = "NONE"
          /\ Yield(ready, ticks)
       \/ /\ loc[cur] >= priority[arg[cur]] \/ status[arg[cur]] = "NONE"
          /\ UNCHANGED sched
    /\ UNCHANGED <<priority, ticks, synch>>

thread_exit ==
    /\ Running
    /\ schedule(ready, "DYING")
    /\ Goto("none", NULL, 0)
    /\ UNCHANGED <<recent_unused, priority, ticks, synch>>

idle ==
    /\ pc[cur] = "loop"
    /\ thread_block
    /\ Goto("hlt", NULL, 0)
    /\ UNCHANGED <<priority, ticks, synch>>

-----------------------------------------------------------------------------
(* Interrupts, taken by the running thread while interrupts are on.        *)

\* An interrupt gets a halted processor going.
LeaveHlt == pc' = [pc EXCEPT ![cur] = IF @ = "hlt" THEN "loop" ELSE @]

\* timer_interrupt and thread_tick, with the yield on return of intr_handler.
Tick ==
    /\ IntrOn
    /\ ticks' = (ticks + 1) % AGE
    /\ IF thread_ticks + 1 >= TIME_SLICE
       THEN Yield(ready, ticks')
       ELSE /\ thread_ticks' = thread_ticks + 1
            /\ UNCHANGED <<status, ready, cur, recent_unused>>
    /\ LeaveHlt
    /\ UNCHANGED <<priority, synch, arg, loc>>

\* A device's interrupt handler ups a semaphore (ide.c: interrupt_handler); with
\* interrupts off sema_up does not yield.
InterruptUp(s) ==
    /\ IntrOn
    /\ value[s] < MaxValue
    /\ Raise(s)
    /\ LeaveHlt
    /\ UNCHANGED <<arg, loc>>

-----------------------------------------------------------------------------
\* The state after thread_init () and thread_start (): the idle thread has set
\* idle_thread, upped start_idle and yielded to main, off the ready lists.
Init ==
    /\ status = [t \in AnyThread |-> IF t = initial_thread THEN "RUNNING"
                                     ELSE IF t = idle_thread THEN "READY" ELSE "NONE"]
    /\ priority = [t \in AnyThread |-> IF t = idle_thread THEN 0 ELSE PRI_MAX \div 2]
    /\ recent_unused = [t \in AnyThread |-> 0]
    /\ ready = [p \in Pri |-> <<>>]
    /\ cur = initial_thread
    /\ thread_ticks = 0
    /\ ticks = 0
    /\ value = [s \in AnySema |-> IF s \in Lock THEN 1 ELSE 0]
    /\ waiters = [s \in AnySema |-> <<>>]
    /\ holder = [l \in Lock |-> NULL]
    /\ pc = [t \in AnyThread |-> IF t = initial_thread THEN "run"
                                 ELSE IF t = idle_thread THEN "loop" ELSE "none"]
    /\ arg = [t \in AnyThread |-> NULL]
    /\ loc = [t \in AnyThread |-> 0]

\* What the running thread does next.
ThreadStep ==
    \/ \E s \in Sema : sema_down(s) \/ sema_try_down(s) \/ sema_up(s)
    \/ \E l \in Lock : lock_acquire(l) \/ lock_try_acquire(l) \/ lock_release(l)
    \/ sema_down_resume \/ sema_up_yield \/ lock_set_holder \/ lock_release_up
    \/ \E p \in Pri : thread_set_priority(p)
    \/ \E t \in Thread, p \in Pri : thread_create(t, p)
    \/ thread_yield \/ set_priority_yield \/ thread_unblock \/ unblock_yield
    \/ thread_exit \/ idle

Next == ThreadStep \/ Tick \/ \E s \in IntrSema : InterruptUp(s)

Spec == Init /\ [][Next]_vars

-----------------------------------------------------------------------------
(* Properties.                                                             *)

\* The variables have their types.
TypeOK ==
    /\ status \in [AnyThread -> {"NONE", "RUNNING", "READY", "BLOCKED", "DYING"}]
    /\ priority \in [AnyThread -> Pri]
    /\ recent_unused \in [AnyThread -> Nat]
    /\ ready \in [Pri -> Seq(AnyThread)]
    /\ cur \in AnyThread
    /\ thread_ticks \in 0 .. TIME_SLICE - 1
    /\ ticks \in 0 .. AGE - 1
    /\ value \in [AnySema -> Nat]
    /\ waiters \in [AnySema -> Seq(AnyThread)]
    /\ holder \in [Lock -> AnyThread \cup {NULL}]
    /\ pc \in [AnyThread -> {"none", "run", "down", "hold", "rel", "upd", "setp",
                             "made", "unbl", "hlt", "loop"}]
    /\ arg \in [AnyThread -> AnyThread \cup AnySema \cup {NULL}]
    /\ loc \in [AnyThread -> 0 .. PRI_MAX + 1]

\* A lock has at most one owner, from the moment sema_down takes its semaphore
\* until sema_up gives it back, whether or not `holder' is written yet; the
\* semaphore is free exactly when nobody owns the lock (lock_acquire and
\* lock_release write `holder' with interrupts on, apart from the semaphore).
Owns(t, l) == holder[l] = t \/ (pc[t] \in {"hold", "rel"} /\ arg[t] = l)

MutualExclusion ==
    \A l \in Lock :
        /\ \A t, u \in AnyThread : Owns(t, l) /\ Owns(u, l) => t = u
        /\ value[l] = IF \E t \in AnyThread : Owns(t, l) THEN 0 ELSE 1

\* A thread's one list element `elem' is on one list at a time, the one its
\* status asks for: a ready thread once on the ready list of its priority, a
\* thread waiting in sema_down once among the waiters of that semaphore, any
\* other thread on no list (thread.h: the two uses of `elem' exclude each other).
Once(q, t) == \E i \in DOMAIN q : q[i] = t /\ \A j \in DOMAIN q : q[j] = t => j = i

Waiting(t, s) == status[t] = "BLOCKED" /\ pc[t] = "down" /\ arg[t] = s

QueuesAgree ==
    /\ \A t \in AnyThread : status[t] = "RUNNING" <=> t = cur
    /\ \A p \in Pri : \A i \in DOMAIN ready[p] :
         /\ ready[p][i] \in Thread
         /\ status[ready[p][i]] = "READY"
         /\ priority[ready[p][i]] = p
    /\ \A t \in Thread : status[t] = "READY" => Once(ready[priority[t]], t)
    /\ \A s \in AnySema : \A i \in DOMAIN waiters[s] : Waiting(waiters[s][i], s)
    /\ \A s \in AnySema, t \in AnyThread : Waiting(t, s) => Once(waiters[s], t)

\* Both: the kernel's variables are what they should be, one by one and together.
Consistent == TypeOK /\ QueuesAgree

\* No wake-up is lost: while threads wait on a semaphore, each unit of its value
\* is matched by a woken thread that has yet to retry (sema_up adds the unit
\* after thread_unblock, and a third thread may take it first).
Woken(s) == {t \in AnyThread : pc[t] = "down" /\ arg[t] = s /\ status[t] # "BLOCKED"}

NoLostWakeup ==
    \A s \in AnySema : waiters[s] # <<>> => value[s] <= Cardinality(Woken(s))

\* Priority scheduling: ordinary code never runs while a thread of higher
\* priority is ready, and the idle thread never runs while any thread is, unless
\* an interrupt handler woke that thread (with IntrSema empty none does).
StrictPriority ==
    /\ Running => \A t \in Thread : status[t] = "READY" => priority[t] <= priority[cur]
    /\ cur = idle_thread => \A t \in Thread : status[t] # "READY"

\* Locks, however the scheduler interleaves their users, behave as LockService
\* does: the thread that owns a lock is the one between sema_down and sema_up.
OwnerOf(l) == IF \E t \in AnyThread : Owns(t, l)
              THEN CHOOSE t \in AnyThread : Owns(t, l) ELSE NULL

LS == INSTANCE LockService WITH Client <- AnyThread,
                                owner <- [l \in Lock |-> OwnerOf(l)]
LocksImplementLockService == LS!Spec

=============================================================================
