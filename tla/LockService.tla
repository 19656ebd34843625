---------------------------- MODULE LockService ----------------------------
(***************************************************************************)
(* What a lock promises its users (the comments of threads/synch.c): it is *)
(* held by at most one thread, only a free lock is acquired, and a held    *)
(* lock becomes free before another thread has it.                         *)
(***************************************************************************)
CONSTANTS Client, Lock, NULL

VARIABLE owner  \* the client that holds each lock, or NULL

Init == owner = [l \in Lock |-> NULL]

Acquire(c, l) == owner[l] = NULL /\ owner' = [owner EXCEPT ![l] = c]

Release(l) == owner[l] # NULL /\ owner' = [owner EXCEPT ![l] = NULL]

Next == \E l \in Lock : Release(l) \/ \E c \in Client : Acquire(c, l)

Spec == Init /\ [][Next]_owner

=============================================================================
