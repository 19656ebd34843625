----------------------------- MODULE FixedPoint -----------------------------
(***************************************************************************)
(* The fixed-point numbers of the 4.4BSD scheduler (threads/thread.c): an  *)
(* int n stands for n / fp_format.  Sums and products of int are taken in  *)
(* Width bits (32 in the code); the products the code computes in int64_t  *)
(* are exact.                                                              *)
(***************************************************************************)
EXTENDS Integers

CONSTANTS fp_format,  \* FP_FORMAT_32BIT
          Width

ASSUME FixedPointAssumption == fp_format \in Nat \ {0} /\ Width \in Nat \ {0}

\* The int that Width bits make of an integer.
Wrap(n) == ((n + 2^(Width - 1)) % 2^Width) - 2^(Width - 1)

\* Division in C, toward zero (b > 0).
quot(a, b) == IF a >= 0 THEN a \div b ELSE -((-a) \div b)

convert_to_fp(n) == Wrap(n * fp_format)

convert_to_int_down(x) == quot(x, fp_format)

fp_add(a, b) == Wrap(a + b)
fp_add_int(a, n) == Wrap(a + Wrap(n * fp_format))
fp_sub(a, b) == Wrap(a - b)

fp_mult(a, b) == Wrap(quot(a * b, fp_format))
fp_mult_int(a, n) == Wrap(a * n)

fp_devide(a, b) == Wrap(quot(a * fp_format, b))
fp_devide_int(a, n) == quot(a, n)

=============================================================================
