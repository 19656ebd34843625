------------------------------ MODULE MCPalloc ------------------------------
(* Palloc on a small instance.                                             *)
EXTENDS Palloc, TLC

CONSTANTS t1, t2, t3

MCSymmetry == Permutations({t1, t2, t3})

=============================================================================
