------------------------------- MODULE Alarm -------------------------------
(***************************************************************************)
(* The timer interrupt with the blocking alarm clock of devices/timer.c:   *)
(* timer_sleep puts the caller on list_alarm, and timer_interrupt wakes    *)
(* the threads whose time has come.  Times are relative to `ticks': a      *)
(* wake-up time is the number of ticks to go, 0 once it is due.            *)
(*                                                                         *)
(* Three more places of a thread:                                          *)
(*   slp    timer_sleep: `start' is read                                   *)
(*   alrm   timer_sleep: there is time to sleep, interrupts still on       *)
(*   slept  timer_sleep: in thread_block, interrupts off                   *)
(***************************************************************************)
EXTENDS Aging, SequencesExt

CONSTANT MaxSleep  \* bound: the longest sleep, in ticks

ASSUME AlarmAssumption == MaxSleep \in Nat /\ thread_prior_aging \in BOOLEAN

VARIABLES list_alarm,       \* records: the thread, the ticks until time_wake
          togo,             \* in timer_sleep: start + ticks - timer_ticks ()
          yield_on_return,  \* interrupt.c: the handler wants a yield
          asked             \* history: ticks still owed to a caller of timer_sleep

alarm == <<list_alarm, togo, yield_on_return, asked>>
avars == <<vars, alarm>>

Less(n) == IF n = 0 THEN 0 ELSE n - 1

-----------------------------------------------------------------------------
\* timer_sleep: start = timer_ticks ()
timer_sleep(n) ==
    /\ Running
    /\ Goto("slp", NULL, 0)
    /\ togo' = [togo EXCEPT ![cur] = n]
    /\ asked' = [asked EXCEPT ![cur] = n]
    /\ UNCHANGED <<sched, priority, ticks, synch, list_alarm, yield_on_return>>

\* if (timer_elapsed (start) < ticks)
sleep_test ==
    /\ pc[cur] = "slp"
    /\ IF togo[cur] > 0 THEN Goto("alrm", NULL, 0) ELSE Return
    /\ UNCHANGED <<sched, priority, ticks, synch, alarm>>

\* Interrupts off: the alarm goes on the list and the thread blocks.  Ticks may
\* have passed since the test, the more so when malloc waits for its lock here.
sleep_block ==
    /\ pc[cur] = "alrm"
    /\ list_alarm' = Append(list_alarm, [thread |-> cur, time_wake |-> togo[cur]])
    /\ Goto("slept", NULL, 0)
    /\ thread_block
    /\ UNCHANGED <<priority, ticks, synch, togo, yield_on_return, asked>>

sleep_return ==
    /\ pc[cur] = "slept"
    /\ Return
    /\ UNCHANGED <<sched, priority, ticks, synch, alarm>>

-----------------------------------------------------------------------------
\* Mutants: < and a tick too early.
IsOverdue(a) == a.time_wake = 0
IsNearlyDue(a) == a.time_wake <= 2

\* At the tick being counted: th->time_wake <= ticks
IsDue(a) == a.time_wake <= 1
IsEarly(a) == ~IsDue(a)
Due == SelectSeq(list_alarm, IsDue)

\* thread_unblock of the threads in the alarms, in list order, from the ready lists
\* r; interrupts are off, so it does not yield.
Wake(r, alarms) ==
    /\ ready' = FoldLeft(LAMBDA q, a : Push(q, a.thread), r, alarms)
    /\ status' = [t \in AnyThread |->
                    IF \E i \in DOMAIN alarms : alarms[i].thread = t THEN "READY" ELSE status[t]]

Later(alarms) == [i \in DOMAIN alarms |-> [alarms[i] EXCEPT !.time_wake = Less(@)]]

\* Mutant: the alarms stay on the list.
AlarmsKept == Later(list_alarm)

AlarmsLeft == Later(SelectSeq(list_alarm, IsEarly))

\* Mutant: no call of intr_yield_on_return for an alarm.
YieldsForSlice == thread_ticks + 1 >= TIME_SLICE

\* thread_tick, thread_aging and timer_interrupt call intr_yield_on_return.
WantsYield == thread_ticks + 1 >= TIME_SLICE \/ AgingYields \/ Due # <<>>

InterruptsOn == IntrOn /\ pc[cur] # "slept" /\ ~yield_on_return

\* timer_interrupt with thread_tick: count the tick, age the ready threads, wake the
\* due threads and remove their alarms.
timer_interrupt ==
    /\ InterruptsOn
    /\ ticks' = Tick1
    /\ thread_ticks' = thread_ticks + 1
    /\ priority' = AgedPriority
    /\ Wake(AgedLists, Due)
    /\ list_alarm' = AlarmsLeft
    /\ togo' = [t \in AnyThread |-> Less(togo[t])]
    /\ asked' = [t \in AnyThread |-> Less(asked[t])]
    /\ yield_on_return' = WantsYield
    /\ LeaveHlt
    /\ UNCHANGED <<cur, recent_unused, synch, arg, loc>>

\* A device's interrupt handler, which asks for no yield.
device_interrupt(s) == InterruptsOn /\ InterruptUp(s) /\ UNCHANGED alarm

\* The end of intr_handler, before anything else can happen.
intr_return ==
    /\ yield_on_return
    /\ Yield(ready, ticks)
    /\ yield_on_return' = FALSE
    /\ UNCHANGED <<priority, ticks, synch, local, list_alarm, togo, asked>>

-----------------------------------------------------------------------------
AlarmInit ==
    /\ Init
    /\ list_alarm = <<>>
    /\ togo = [t \in AnyThread |-> 0]
    /\ asked = [t \in AnyThread |-> 0]
    /\ yield_on_return = FALSE

AlarmNext ==
    \/ timer_interrupt \/ intr_return \/ \E s \in IntrSema : device_interrupt(s)
    \/ /\ ~yield_on_return
       /\ \/ ThreadStep /\ UNCHANGED alarm
          \/ \E n \in 0 .. MaxSleep : timer_sleep(n)
          \/ sleep_test \/ sleep_block \/ sleep_return

\* The timer keeps interrupting: a tick that is due while interrupts are off stays
\* pending in the interrupt controller.  Code with interrupts off runs to its end.  A
\* thread need not make any other call, ever.
AlarmSpec ==
    /\ AlarmInit /\ [][AlarmNext]_avars
    /\ SF_avars(timer_interrupt) /\ WF_avars(intr_return) /\ WF_avars(sleep_return)
    /\ WF_avars(sema_down_resume /\ UNCHANGED alarm)

-----------------------------------------------------------------------------
\* The alarm clock's variables have their types.
AlarmTypeOK ==
    /\ \A i \in DOMAIN list_alarm :
         list_alarm[i].thread \in Thread /\ list_alarm[i].time_wake \in 0 .. MaxSleep
    /\ togo \in [AnyThread -> 0 .. MaxSleep]
    /\ asked \in [AnyThread -> 0 .. MaxSleep]
    /\ yield_on_return \in BOOLEAN
    /\ thread_ticks \in 0 .. TIME_SLICE

\* list_alarm holds exactly the sleeping threads, once each, and the queues of
\* Threads agree with the statuses at the same time: no thread is on two lists, or
\* blocked and on none.
Sleeping(t) == status[t] = "BLOCKED" /\ pc[t] = "slept"

AlarmQueuesAgree ==
    /\ AlarmTypeOK
    /\ \A i \in DOMAIN list_alarm : Sleeping(list_alarm[i].thread)
    /\ \A t \in Thread : Sleeping(t) => Once([i \in DOMAIN list_alarm |-> list_alarm[i].thread], t)
    /\ QueuesAgree

\* timer_sleep keeps its caller for as long as it asked, also when it is preempted
\* between reading `start' and blocking.
NeverEarly ==
    \A t \in Thread : pc[t] = "slept" /\ status[t] # "BLOCKED" => asked[t] = 0

\* A sleeper is woken by the tick its time comes with, or by the next one if the
\* time came while it was on its way to sleep.
WokenInTime ==
    [][timer_interrupt => \A t \in Thread : Sleeping(t) /\ asked'[t] = 0
                                            => status'[t] = "READY"]_avars

\* Both: timer_sleep keeps its caller as long as it asked and no longer.
SleepsExactly == []NeverEarly /\ WokenInTime

\* A woken sleeper of higher priority than the running thread runs at once: the
\* handler yields on return (a thread woken by a device's handler waits for the end
\* of the time slice).
WakingPreempts ==
    ~yield_on_return /\ Running
    => \A t \in Thread :
           status[t] = "READY" /\ pc[t] = "slept" => priority[t] <= priority[cur]

=============================================================================
