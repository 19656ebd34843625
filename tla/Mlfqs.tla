-------------------------------- MODULE Mlfqs --------------------------------
(***************************************************************************)
(* The 4.4BSD scheduler (threads/thread.c with thread_mlfqs): recent_cpu,  *)
(* load_avg and the priorities computed from them at timer ticks, and the  *)
(* ready lists they move threads between.  The timer interrupt, with the   *)
(* yield on its return, is one step: interrupts are off in it.             *)
(***************************************************************************)
EXTENDS FixedPoint, Sequences, SequencesExt, FiniteSets

CONSTANTS all_list,    \* the threads other than idle, in the order of all_list
          idle,
          PRI_MAX,     \* 63
          PRI_DEFAULT, \* 31
          TIMER_FREQ,  \* ticks per second, 100
          TIME_SLICE,  \* 4
          Nice,        \* the values given to thread_set_nice
          Setter,      \* the threads that call it
          Sleeper,     \* the threads that block
          MaxTick      \* bound on the ticks

Thread == ToSet(all_list)

ASSUME MlfqsAssumption ==
    /\ idle \notin Thread
    /\ PRI_MAX \in Nat /\ PRI_DEFAULT \in 0 .. PRI_MAX /\ TIMER_FREQ \in Nat \ {0} /\ TIME_SLICE \in Nat /\ MaxTick \in Nat
    /\ Nice \subseteq Int /\ Setter \subseteq Thread /\ Sleeper \subseteq Thread

VARIABLES tick, cur, thread_ticks,
          status,       \* of each thread
          ready_list,
          priority, nice, recent_cpu,
          load_avg,
          result        \* what BSD_calc_priority_this gave a thread in thread_set_nice

vars == <<tick, cur, thread_ticks, status, ready_list, priority, nice, recent_cpu, load_avg, result>>

NONE == -1

Pri == 0 .. PRI_MAX

Clamp(p) == IF p > PRI_MAX THEN PRI_MAX ELSE IF p < 0 THEN 0 ELSE p

\* Mutant: nice raises the priority.
BSD_calc_priority_nicer(rc, n) ==
    Clamp(convert_to_int_down(fp_sub(convert_to_fp(PRI_MAX + n * 2), fp_devide_int(rc, 4))))

BSD_calc_priority_this(rc, n) ==
    Clamp(convert_to_int_down(fp_sub(convert_to_fp(PRI_MAX - n * 2), fp_devide_int(rc, 4))))

TopOf(lists) ==
    IF \A p \in Pri : lists[p] = <<>> THEN 0
    ELSE CHOOSE p \in Pri : lists[p] # <<>> /\ \A q \in p + 1 .. PRI_MAX : lists[q] = <<>>

thread_top_priority == TopOf(ready_list)

\* schedule with the given lists: the first thread of the highest list, or idle.
Schedule(lists, stat) ==
    LET p == TopOf(lists)
        next == IF lists[p] = <<>> THEN idle ELSE Head(lists[p])
    IN  /\ cur' = next
        /\ ready_list' = IF next = idle THEN lists ELSE [lists EXCEPT ![p] = Tail(@)]
        /\ status' = IF next = idle THEN stat ELSE [stat EXCEPT ![next] = "RUNNING"]
        /\ thread_ticks' = 0

\* thread_yield with the given lists, states and priorities.
Yield(lists, stat, pri) ==
    IF cur = idle THEN Schedule(lists, stat)
    ELSE Schedule([lists EXCEPT ![pri[cur]] = Append(@, cur)], [stat EXCEPT ![cur] = "READY"])

-----------------------------------------------------------------------------
(* The timer tick.                                                         *)

\* BSD_calc_load_average
ready_threads ==
    Cardinality({t \in Thread : status[t] = "READY"}) + (IF cur = idle THEN 0 ELSE 1)

BSD_calc_load_average ==
    fp_add(fp_mult(load_avg, fp_devide_int(convert_to_fp(59), 60)),
           fp_mult_int(fp_devide_int(convert_to_fp(1), 60), ready_threads))

\* BSD_calc_recent_cpu of a thread, given the new load average.
BSD_calc_recent_cpu(rc, n, load) ==
    LET twice == fp_mult_int(load, 2)
        coef == fp_devide(twice, fp_add_int(twice, 1))
    IN  fp_add_int(fp_mult(coef, rc), n)

\* recent_cpu of every thread after BSD_schedule of this tick: one more for the running
\* thread, and once per second the decay.
Recent(now, load) ==
    [t \in Thread |->
        LET rc == IF t = cur THEN fp_add_int(recent_cpu[t], 1) ELSE recent_cpu[t]
        IN  IF now % TIMER_FREQ = 0 THEN BSD_calc_recent_cpu(rc, nice[t], load) ELSE rc]

PriorityOfCur(pri) == IF cur = idle THEN 0 ELSE pri[cur]

\* Mutant: a ready thread stays in its list.
calc_priority_stays(s, t, rc) ==
    LET new == BSD_calc_priority_this(rc[t], nice[t])
        pri == [s.pri EXCEPT ![t] = new]
    IN  [s EXCEPT !.pri = pri,
                  !.yield = @ \/ (status[t] = "RUNNING" /\ new < TopOf(s.lists))]

\* Mutant: the running thread is not compared with the others.
calc_priority_runs_on(s, t, rc) ==
    LET new == BSD_calc_priority_this(rc[t], nice[t])
        pri == [s.pri EXCEPT ![t] = new]
        moves == status[t] = "READY" /\ new # s.pri[t]
    IN  [s EXCEPT !.pri = pri,
                  !.lists = IF moves THEN [p \in Pri |-> LET l == SelectSeq(@[p], LAMBDA u : u # t)
                                                         IN  IF p = new THEN Append(l, t) ELSE l]
                            ELSE @]

\* BSD_calc_priority, for one thread of all_list: a ready thread whose priority changes
\* moves to the end of its new list; yield if it is above the running thread, or if the
\* running thread is below the top of the lists.
calc_priority(s, t, rc) ==
    LET new == BSD_calc_priority_this(rc[t], nice[t])
        pri == [s.pri EXCEPT ![t] = new]
        moves == status[t] = "READY" /\ new # s.pri[t]
        lists == IF moves THEN [p \in Pri |-> LET l == SelectSeq(s.lists[p], LAMBDA u : u # t)
                                              IN  IF p = new THEN Append(l, t) ELSE l]
                 ELSE s.lists
    IN  [lists |-> lists, pri |-> pri,
         yield |-> \/ s.yield
                   \/ moves /\ new > PriorityOfCur(pri)
                   \/ status[t] = "RUNNING" /\ new < TopOf(lists)]

BSD_calc_priority(rc) ==
    FoldLeft(LAMBDA s, t : calc_priority(s, t, rc),
             [lists |-> ready_list, pri |-> priority, yield |-> FALSE], all_list)

\* timer_interrupt: thread_tick with BSD_schedule, and the yield on return.
thread_tick ==
    LET now == tick + 1
        load == IF now % TIMER_FREQ = 0 THEN BSD_calc_load_average ELSE load_avg
    IN  /\ tick < MaxTick
        /\ tick' = now
        /\ load_avg' = load
        /\ recent_cpu' = Recent(now, load)
        /\ \E s \in {IF now % 4 = 0 THEN BSD_calc_priority(recent_cpu')
                     ELSE [lists |-> ready_list, pri |-> priority, yield |-> FALSE]} :
               /\ priority' = s.pri
               /\ IF s.yield \/ thread_ticks + 1 >= TIME_SLICE
                  THEN Yield(s.lists, status, s.pri)
                  ELSE /\ ready_list' = s.lists
                       /\ thread_ticks' = thread_ticks + 1
                       /\ UNCHANGED <<cur, status>>
        /\ UNCHANGED <<nice, result>>

-----------------------------------------------------------------------------
(* What threads do.                                                        *)

\* thread_set_nice runs with interrupts on: the priority is computed, and stored and
\* compared with the top of the lists, on the two sides of a possible tick.
thread_set_nice(n) ==
    /\ cur \in Setter /\ result[cur] = NONE
    /\ nice' = [nice EXCEPT ![cur] = n]
    /\ result' = [result EXCEPT ![cur] = BSD_calc_priority_this(recent_cpu[cur], n)]
    /\ UNCHANGED <<tick, cur, thread_ticks, status, ready_list, priority, recent_cpu, load_avg>>

thread_set_nice_store ==
    /\ cur # idle /\ result[cur] # NONE
    /\ priority' = [priority EXCEPT ![cur] = result[cur]]
    /\ result' = [result EXCEPT ![cur] = NONE]
    /\ IF priority'[cur] < thread_top_priority
       THEN Yield(ready_list, status, priority')
       ELSE UNCHANGED <<cur, thread_ticks, status, ready_list>>
    /\ UNCHANGED <<tick, nice, recent_cpu, load_avg>>

\* thread_block: the running thread waits for something.
thread_block ==
    /\ cur \in Sleeper /\ result[cur] = NONE
    /\ Schedule(ready_list, [status EXCEPT ![cur] = "BLOCKED"])
    /\ UNCHANGED <<tick, priority, nice, recent_cpu, load_avg, result>>

\* thread_unblock, with interrupts on (by a thread) or off (by an interrupt).
thread_unblock(t, intr_on) ==
    /\ status[t] = "BLOCKED"
    /\ intr_on => cur # idle /\ result[cur] = NONE
    /\ LET lists == [ready_list EXCEPT ![priority[t]] = Append(@, t)]
           stat == [status EXCEPT ![t] = "READY"]
       IN  IF intr_on /\ thread_top_priority < priority[t]
           THEN Yield(lists, stat, priority)
           ELSE /\ ready_list' = lists
                /\ status' = stat
                /\ UNCHANGED <<cur, thread_ticks>>
    /\ UNCHANGED <<tick, priority, nice, recent_cpu, load_avg, result>>

\* The idle thread blocks after an interrupt has made a thread ready.
idle_block ==
    /\ cur = idle /\ \E p \in Pri : ready_list[p] # <<>>
    /\ Schedule(ready_list, status)
    /\ UNCHANGED <<tick, priority, nice, recent_cpu, load_avg, result>>

\* The first thread runs; the others inherit nice and recent_cpu from it and are ready,
\* at the priority thread_create was given until the first tick that computes them.
Init ==
    /\ tick = 0 /\ thread_ticks = 0 /\ load_avg = 0
    /\ cur = Head(all_list)
    /\ status = [t \in Thread |-> IF t = cur THEN "RUNNING" ELSE "READY"]
    /\ nice = [t \in Thread |-> 0]
    /\ recent_cpu = [t \in Thread |-> 0]
    /\ result = [t \in Thread |-> NONE]
    /\ priority = [t \in Thread |-> PRI_DEFAULT]
    /\ ready_list = [p \in Pri |-> IF p = PRI_DEFAULT THEN Tail(all_list) ELSE <<>>]

Next ==
    \/ thread_tick \/ thread_block \/ idle_block \/ thread_set_nice_store
    \/ \E n \in Nice : thread_set_nice(n)
    \/ \E t \in Thread, on \in BOOLEAN : thread_unblock(t, on)

Spec == Init /\ [][Next]_vars

-----------------------------------------------------------------------------
(* Properties.                                                             *)

\* The variables have their types; the load average is never negative nor above the
\* number of threads.
TypeOK ==
    /\ tick \in 0 .. MaxTick
    /\ cur \in Thread \cup {idle}
    /\ status \in [Thread -> {"RUNNING", "READY", "BLOCKED"}]
    /\ priority \in [Thread -> Pri] /\ nice \in [Thread -> Nice \cup {0}]
    /\ result \in [Thread -> Pri \cup {NONE}]
    /\ load_avg \in 0 .. Cardinality(Thread) * fp_format

\* A ready thread is in the list of its priority, once, and nobody else is in a list:
\* BSD_calc_priority moves what it changes, and only that.
ListsMatch ==
    /\ TypeOK
    /\ \A p \in Pri : \A i \in DOMAIN ready_list[p] :
           LET t == ready_list[p][i] IN status[t] = "READY" /\ priority[t] = p
    /\ \A t \in Thread :
           status[t] = "READY" =>
               Cardinality({i \in DOMAIN ready_list[priority[t]] : ready_list[priority[t]][i] = t}) = 1

\* After the tick that computes the priorities no ready thread is above the one that
\* runs, in whatever order all_list has them (idle gives way by itself).
TopRuns ==
    [][tick' # tick /\ tick' % 4 = 0 /\ cur' # idle =>
        \A t \in Thread : status'[t] = "READY" => priority'[t] <= priority'[cur']]_vars

\* Both: the lists follow the priorities, and so does the processor.
RunsByPriority == []ListsMatch /\ TopRuns

\* In the tick that computes the priorities, the thread with more recent_cpu and no less
\* nice never gets the higher priority, whatever thread_set_nice is in the middle of.
FairPriorities ==
    [][tick' # tick /\ tick' % 4 = 0 =>
        \A t, u \in Thread :
            recent_cpu'[t] >= recent_cpu'[u] /\ nice[t] >= nice[u] => priority'[t] <= priority'[u]]_vars

=============================================================================
