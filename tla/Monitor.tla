------------------------------- MODULE Monitor ------------------------------
(***************************************************************************)
(* The condition variables of threads/synch.c.  Threads enter a monitor    *)
(* through its lock and, inside, wait for its condition, signal it or      *)
(* broadcast it.  Each waiter has a semaphore of its own, on its stack, in *)
(* the list cond->waiters.  The lock and the semaphores are taken to do    *)
(* what Threads shows of them, each operation in one step; a thread may be *)
(* switched between any two.                                               *)
(***************************************************************************)
EXTENDS Integers, Sequences, SequencesExt, FiniteSets, Pointers

CONSTANTS Client

ASSUME MonitorAssumption == NULL \notin Client

VARIABLES owner,      \* of the monitor's lock
          waiters,    \* cond->waiters, by the thread that waits
          semaphore,  \* the value of each thread's own semaphore
          at,         \* where each thread is
          due         \* history: whom the broadcast under way has yet to wake

monitorVars == <<owner, waiters, semaphore, at, due>>

Goto(t, where) == at' = [at EXCEPT ![t] = where]

MonitorInit ==
    /\ owner = NULL /\ waiters = <<>> /\ due = {}
    /\ semaphore = [t \in Client |-> 0]
    /\ at = [t \in Client |-> "outside"]

Enter(t) ==
    /\ at[t] = "outside" /\ owner = NULL
    /\ owner' = t /\ Goto(t, "inside")
    /\ UNCHANGED <<waiters, semaphore, due>>

Leave(t) ==
    /\ at[t] = "inside"
    /\ owner' = NULL /\ Goto(t, "outside")
    /\ UNCHANGED <<waiters, semaphore, due>>

\* cond_wait: the waiter is in the list before the lock is free.
cond_wait(t) ==
    /\ at[t] = "inside"
    /\ semaphore' = [semaphore EXCEPT ![t] = 0]
    /\ waiters' = Append(waiters, t)
    /\ Goto(t, "release") /\ UNCHANGED <<owner, due>>

wait_release(t) ==
    /\ at[t] = "release"
    /\ owner' = NULL /\ Goto(t, "down")
    /\ UNCHANGED <<waiters, semaphore, due>>

\* Mutant: a waiter that finds no unit goes on.
wait_down_try(t) ==
    /\ at[t] = "down"
    /\ semaphore' = [semaphore EXCEPT ![t] = IF @ > 0 THEN @ - 1 ELSE @]
    /\ Goto(t, "acquire") /\ UNCHANGED <<owner, waiters, due>>

wait_down(t) ==
    /\ at[t] = "down" /\ semaphore[t] > 0
    /\ semaphore' = [semaphore EXCEPT ![t] = @ - 1]
    /\ Goto(t, "acquire") /\ UNCHANGED <<owner, waiters, due>>

wait_acquire(t) ==
    /\ at[t] = "acquire" /\ owner = NULL
    /\ owner' = t /\ Goto(t, "inside")
    /\ UNCHANGED <<waiters, semaphore, due>>

\* The front waiter is taken off the list and its semaphore upped.
WakeFront ==
    /\ semaphore' = [semaphore EXCEPT ![Head(waiters)] = @ + 1]
    /\ waiters' = Tail(waiters)
    /\ due' = due \ {Head(waiters)}

cond_signal(t) ==
    /\ at[t] = "inside"
    /\ IF waiters = <<>> THEN UNCHANGED <<waiters, semaphore, due>> ELSE WakeFront
    /\ UNCHANGED <<owner, at>>

cond_broadcast(t) ==
    /\ at[t] = "inside"
    /\ due' = ToSet(waiters)
    /\ Goto(t, "broadcast") /\ UNCHANGED <<owner, waiters, semaphore>>

broadcast_loop(t) ==
    /\ at[t] = "broadcast"
    /\ IF waiters = <<>>
       THEN Goto(t, "inside") /\ UNCHANGED <<owner, waiters, semaphore, due>>
       ELSE WakeFront /\ UNCHANGED <<owner, at>>

\* Where everyone waits, nothing happens.
AllWait == (\A t \in Client : at[t] = "down" /\ semaphore[t] = 0) /\ UNCHANGED monitorVars

MonitorNext ==
    \/ AllWait
    \/ \E t \in Client :
          \/ Enter(t) \/ Leave(t)
          \/ cond_wait(t) \/ wait_release(t) \/ wait_down(t) \/ wait_acquire(t)
          \/ cond_signal(t) \/ cond_broadcast(t) \/ broadcast_loop(t)

-----------------------------------------------------------------------------
\* No signal is lost, doubled or kept: a thread that waits is in the list exactly once
\* until it is signalled, a signal given to a thread that has not gone to sleep yet
\* wakes it all the same, none is left for its next wait, cond_wait returns only after
\* a signal and with the lock, and a broadcast wakes all who waited when it began.
SignalsExact ==
    /\ \A t \in Client :
          /\ owner = t <=> at[t] \in {"inside", "release", "broadcast"}
          /\ t \in ToSet(waiters) <=> at[t] = "release" \/ (at[t] = "down" /\ semaphore[t] = 0)
          /\ semaphore[t] = 0 \/ (semaphore[t] = 1 /\ at[t] = "down")
    /\ Cardinality(ToSet(waiters)) = Len(waiters)
    /\ (\A t \in Client : at[t] # "broadcast") => due = {}

=============================================================================
