------------------------------- MODULE Aging -------------------------------
(***************************************************************************)
(* thread_aging (threads/thread.c), run at every timer tick when           *)
(* thread_prior_aging is set: it moves the threads that have been off the  *)
(* processor for a multiple of AGE ticks one priority up.                  *)
(***************************************************************************)
EXTENDS Threads

CONSTANT thread_prior_aging

Tick1 == (ticks + 1) % AGE

\* Mutant: the scan leaves out PRI_MIN.
AgedAboveMin == {t \in Thread : /\ status[t] = "READY"
                                /\ priority[t] \in 1 .. PRI_MAX - 1
                                /\ recent_unused[t] = Tick1}

\* The ready threads below PRI_MAX for which, at the tick just counted,
\* timer_elapsed (t->recent_unused) % AGE == 0.
Aged == {t \in Thread : /\ thread_prior_aging
                        /\ status[t] = "READY"
                        /\ priority[t] < PRI_MAX
                        /\ recent_unused[t] = Tick1}

\* The lists are scanned from PRI_MAX - 1 down, so that a thread moves up once:
\* each list keeps the others and gets the moved ones of the list below.
Stays(t) == t \notin Aged
Moves(t) == t \in Aged

AgedLists ==
    [p \in Pri |-> SelectSeq(ready[p], Stays)
                   \o (IF p = 0 THEN <<>> ELSE SelectSeq(ready[p - 1], Moves))]

AgedPriority == [t \in AnyThread |-> IF t \in Aged THEN priority[t] + 1 ELSE priority[t]]

\* thread_aging calls intr_yield_on_return.
AgingYields == \E t \in Aged : priority[t] + 1 > priority[cur]

-----------------------------------------------------------------------------
\* No thread starves: a ready thread eventually runs, whatever the priorities
\* the others start with or give themselves.
NoStarvation == \A t \in Thread : status[t] = "READY" ~> status[t] # "READY"

=============================================================================
