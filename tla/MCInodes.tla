------------------------------ MODULE MCInodes ------------------------------
(* Inodes on a small instance: t1 does everything to the file of s1, and   *)
(* t2 and t3 share the files of s2 and s3, which nobody closes or removes. *)
EXTENDS Inodes, TLC

CONSTANTS t1, t2, t3, i1, i2, s1, s2, s3, b1, b2, v1, v2

MCCalls == ({t1} \X {s1} \X {"open", "close", "remove", "write", "deny", "oom"})
               \cup ({t2, t3} \X {s2, s3} \X {"open", "write", "deny"})

MCSymmetry == Permutations({t2, t3}) \cup Permutations({s2, s3}) \cup Permutations(Inode)
                  \cup Permutations(Byte) \cup Permutations(Value)

=============================================================================
