----------------------------- MODULE MCFilesys ------------------------------
(* Filesys on a small instance.                                            *)
EXTENDS Filesys, TLC

CONSTANTS t1, n1, n2, n3

MCSymmetry == Permutations(Name)

=============================================================================
