----------------------------- MODULE MCThreads -----------------------------
(* Threads on a small instance.                                            *)
EXTENDS Threads, TLC

CONSTANTS t1, t2, t3

MCSymmetry == Permutations({t2, t3})

=============================================================================
