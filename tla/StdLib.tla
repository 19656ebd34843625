------------------------------- MODULE StdLib -------------------------------
(***************************************************************************)
(* Algorithms of the C library: sorting, searching and atoi of             *)
(* lib/stdlib.c, and the 64-bit division of lib/arithmetic.c.  An array is *)
(* a sequence, its elements compared as integers.  A machine word has W    *)
(* bits, 32 in the code; divisions are of two words by two words.          *)
(***************************************************************************)
EXTENDS Integers, Sequences, SequencesExt, Pointers

CONSTANTS W,
          INT_MAX,
          Trap      \* a division whose quotient needs more than a word, an int too big

ASSUME StdLibAssumption == W \in {2^k : k \in 1 .. 5} /\ INT_MAX \in Nat

-----------------------------------------------------------------------------
do_swap(a, i, j) == [a EXCEPT ![i] = a[j], ![j] = a[i]]

\* Mutant: the right child is not looked at where it is the last element.
RECURSIVE heapify_short(_, _, _)
heapify_short(a, i, cnt) ==
    LET m1 == IF 2 * i <= cnt /\ a[2 * i] > a[i] THEN 2 * i ELSE i
        max == IF 2 * i + 1 < cnt /\ a[2 * i + 1] > a[m1] THEN 2 * i + 1 ELSE m1
    IN  IF max = i THEN a ELSE heapify_short(do_swap(a, i, max), max, cnt)

RECURSIVE heapify(_, _, _)
heapify(a, i, cnt) ==
    LET left == 2 * i
        right == 2 * i + 1
        m1 == IF left <= cnt /\ a[left] > a[i] THEN left ELSE i
        max == IF right <= cnt /\ a[right] > a[m1] THEN right ELSE m1
    IN  IF max = i THEN a ELSE heapify(do_swap(a, i, max), max, cnt)

CountDown(from, to) == [k \in 1 .. from - to + 1 |-> from + 1 - k]

sort(a) ==
    LET cnt == Len(a)
        build(x, i) == heapify(x, i, cnt)
        shrink(x, i) == heapify(do_swap(x, 1, i), 1, i - 1)
    IN  FoldLeft(shrink, FoldLeft(build, a, CountDown(cnt \div 2, 1)), CountDown(cnt, 2))

\* The index at which KEY is found from FIRST up to LAST, or NULL.
RECURSIVE search_in(_, _, _, _)
search_in(key, a, first, last) ==
    LET middle == first + ((last - first) \div 2)
    IN  IF first >= last THEN NULL
        ELSE IF key < a[middle] THEN search_in(key, a, first, middle)
        ELSE IF key > a[middle] THEN search_in(key, a, middle + 1, last)
        ELSE middle

binary_search(key, a) == search_in(key, a, 1, Len(a) + 1)

-----------------------------------------------------------------------------
(* Characters are their codes.                                             *)

isspace(c) == c \in {32} \cup (9 .. 13)
isdigit(c) == c \in 48 .. 57

InInt(n) == -INT_MAX - 1 <= n /\ n <= INT_MAX

\* The number of leading characters of S with property P.
Leading(s, P(_)) ==
    CHOOSE n \in 0 .. Len(s) : /\ \A i \in 1 .. n : P(s[i])
                               /\ n < Len(s) => ~P(s[n + 1])

\* The value is built up as a negative number.
atoi(s) ==
    LET s1 == SubSeq(s, Leading(s, isspace) + 1, Len(s))
        signed == s1 # <<>> /\ s1[1] \in {43, 45}
        negative == s1 # <<>> /\ s1[1] = 45
        s2 == IF signed THEN Tail(s1) ELSE s1
        step(v, c) == IF v = Trap \/ ~InInt(v * 10 - (c - 48)) THEN Trap ELSE v * 10 - (c - 48)
        read == FoldLeft(step, 0, SubSeq(s2, 1, Leading(s2, isdigit)))
    IN  IF read = Trap THEN Trap
        ELSE IF negative THEN read
        ELSE IF InInt(-read) THEN -read ELSE Trap

-----------------------------------------------------------------------------
B == 2^W
Double == B * B

TwosComplement(x, n) == IF x >= n \div 2 THEN x - n ELSE x

divl(n, d) == IF d = 0 \/ n \div d >= B THEN Trap ELSE n \div d

\* Halving steps of 16, 8, 4, 2 and 1 bits for a 32-bit word.
nlz(x) ==
    LET halves == [k \in 1 .. (CHOOSE j \in 1 .. 5 : 2^j = W) |-> W \div 2^k]
        step(s, h) == IF s.x <= 2^(W - h) - 1 THEN [n |-> s.n + h, x |-> (s.x * 2^h) % B] ELSE s
    IN  FoldLeft(step, [n |-> 0, x |-> x], halves).n

udiv64(n, d) ==
    LET n1 == n \div B
        n0 == n % B
        s == nlz(d \div B)
        est == divl(n \div 2, ((d * 2^s) % Double) \div B)
        q == est \div 2^(W - 1 - s)
    IN  IF d \div B = 0
        THEN LET low == divl(B * (n1 % d) + n0, d)
             IN  IF low = Trap THEN Trap ELSE low + B * (n1 \div d)
        ELSE IF n < d THEN 0
        ELSE IF est = Trap THEN Trap
        ELSE IF (n - (q - 1) * d) % Double < d THEN q - 1 ELSE q

\* A remainder is returned in a single word.
umod64(n, d) == (n - d * udiv64(n, d)) % B

Magnitude(n) == (IF n >= 0 THEN n ELSE -n) % Double

sdiv64(n, d) ==
    LET q == udiv64(Magnitude(n), Magnitude(d))
    IN  TwosComplement((IF (n < 0) = (d < 0) THEN q ELSE -q) % Double, Double)

smod64(n, d) == TwosComplement((n - d * sdiv64(n, d)) % B, B)

-----------------------------------------------------------------------------
(* What the algorithms are for.                                            *)

Count(s, x) == Cardinality({i \in DOMAIN s : s[i] = x})

\* sort returns the elements it was given, in order; and what is looked for in a
\* sorted array is found exactly where it is.
SortedAndFound(a) ==
    LET s == sort(a)
    IN  /\ \A x \in ToSet(a) \cup ToSet(s) : Count(a, x) = Count(s, x)
        /\ \A i, j \in DOMAIN s : i < j => s[i] <= s[j]
        /\ \A key \in -1 .. 4 :
               LET at == binary_search(key, s)
               IN  IF key \in ToSet(a) THEN at # NULL /\ s[at] = key ELSE at = NULL

\* Blanks, a sign and digits, then anything: atoi returns the number wherever it is
\* an int, the smallest one too.
ReadsInt(blanks, sign, digits, rest) ==
    LET n == FoldLeft(LAMBDA v, c : v * 10 + (c - 48), 0, digits)
        v == IF sign = <<45>> THEN -n ELSE n
    IN  InInt(v) => atoi(blanks \o sign \o digits \o rest) = v

\* No division traps; quotients are exact, rounded towards zero, and so are the
\* remainders that fit in a word.
Divides(n) ==
    /\ \A d \in 1 .. Double - 1 :
           /\ udiv64(n, d) = n \div d
           /\ n % d < B => umod64(n, d) = n % d
    /\ LET m == TwosComplement(n, Double)
           mag(x) == IF x < 0 THEN -x ELSE x
       IN  \A d \in (-(Double \div 2) .. (Double \div 2) - 1) \ {0} :
               LET q == mag(m) \div mag(d)
                   r == mag(m) % mag(d)
               IN  /\ m # -(Double \div 2) \/ d # -1 =>
                          sdiv64(m, d) = IF (m < 0) = (d < 0) THEN q ELSE -q
                   /\ r < B \div 2 => smod64(m, d) = IF m < 0 THEN -r ELSE r

=============================================================================
