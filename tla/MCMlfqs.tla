------------------------------ MODULE MCMlfqs ------------------------------
(* Mlfqs on a small instance.                                              *)
EXTENDS Mlfqs

CONSTANTS t1, t2, t3

MCAllList == <<t2, t1, t3>>
\* A cfg has no negative numbers.
MCNice == {-1, 4}

=============================================================================
