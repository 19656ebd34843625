------------------------------ MODULE Strings -------------------------------
(***************************************************************************)
(* The blocks and strings of lib/string.c.  A memory m maps addresses to   *)
(* bytes; a string is its address, and ends with a null byte.  A function  *)
(* that writes returns the memory it leaves.                               *)
(***************************************************************************)
EXTENDS Integers, Sequences, SequencesExt, FiniteSetsExt, Pointers

CONSTANTS Chars,      \* the bytes other than the null byte
          TextSize    \* bytes of the memory where strings are

ASSUME StringsAssumption == Chars \subseteq 1 .. 255 /\ TextSize \in Nat \ {0}

\* The bytes copied or set in this order.
Copies(m, dst, src, order) ==
    FoldLeft(LAMBDA x, i : [x EXCEPT ![dst + i] = x[src + i]], m, order)

Up(n) == [i \in 1 .. n |-> i - 1]
Down(n) == [i \in 1 .. n |-> n - i]

memcpy(m, dst, src, size) == Copies(m, dst, src, Up(size))

\* Mutant: always from the front.
memmove_up(m, dst, src, size) == Copies(m, dst, src, Up(size))

memmove(m, dst, src, size) == Copies(m, dst, src, IF dst < src THEN Up(size) ELSE Down(size))

memset(m, dst, v, size) == [p \in DOMAIN m |-> IF p \in dst .. dst + size - 1 THEN v ELSE m[p]]

\* The first place from p on, before end, where the byte has a property.
First(m, p, end, P(_)) ==
    LET places == {q \in p .. end - 1 : P(m[q])}
    IN  IF places = {} THEN NULL ELSE Min(places)

memchr(m, block, ch, size) == First(m, block, block + size, LAMBDA x : x = ch)

End(m) == Max(DOMAIN m) + 1

strlen(m, s) == First(m, s, End(m), LAMBDA x : x = 0) - s

strnlen(m, s, maxlen) == IF strlen(m, s) < maxlen THEN strlen(m, s) ELSE maxlen

memcmp(m, a, b, size) ==
    LET differ == {i \in 0 .. size - 1 : m[a + i] # m[b + i]}
    IN  IF differ = {} THEN 0
        ELSE IF m[a + Min(differ)] > m[b + Min(differ)] THEN 1 ELSE -1

\* Up to the first difference, or the end of the first string.
strcmp(m, a, b) ==
    LET n == Min({strlen(m, a), strlen(m, b)})
        i == Min({j \in 0 .. n : j = strlen(m, a) \/ m[a + j] # m[b + j]})
    IN  IF m[a + i] < m[b + i] THEN -1 ELSE IF m[a + i] > m[b + i] THEN 1 ELSE 0

strchr(m, s, c) == First(m, s, s + strlen(m, s) + 1, LAMBDA x : x = c)

strrchr(m, s, c) ==
    LET places == {p \in s .. s + strlen(m, s) - 1 : m[p] = c}
    IN  IF places = {} THEN NULL ELSE Max(places)

strpbrk(m, s, stop) ==
    First(m, s, s + strlen(m, s), LAMBDA x : strchr(m, stop, x) # NULL)

strcspn(m, s, stop) ==
    LET p == strpbrk(m, s, stop) IN IF p = NULL THEN strlen(m, s) ELSE p - s

strspn(m, s, skip) ==
    LET p == First(m, s, s + strlen(m, s), LAMBDA x : strchr(m, skip, x) = NULL)
    IN  IF p = NULL THEN strlen(m, s) ELSE p - s

strstr(m, haystack, needle) ==
    LET n == strlen(m, needle)
        places == {p \in haystack .. haystack + strlen(m, haystack) - n : memcmp(m, p, needle, n) = 0}
    IN  IF places = {} THEN NULL ELSE Min(places)

\* One call: the memory, *save_ptr and the token.
strtok_r(m, s, delimiters) ==
    LET p == s + strspn(m, s, delimiters)
        q == p + strcspn(m, p, delimiters)
    IN  IF m[p] = 0 THEN [m |-> m, save |-> p, token |-> NULL]
        ELSE IF m[q] = 0 THEN [m |-> m, save |-> q, token |-> p]
        ELSE [m |-> [m EXCEPT ![q] = 0], save |-> q + 1, token |-> p]

strlcpy(m, dst, src, size) ==
    LET n == IF strlen(m, src) < size - 1 THEN strlen(m, src) ELSE size - 1
    IN  [m |-> IF size = 0 THEN m ELSE [memcpy(m, dst, src, n) EXCEPT ![dst + n] = 0],
         ret |-> strlen(m, src)]

\* Mutant: no room kept for the terminator.
strlcat_full(m, dst, src, size) ==
    LET d == strlen(m, dst)
        n == IF strlen(m, src) < size - d THEN strlen(m, src) ELSE size - d
    IN  [m |-> IF size = 0 \/ d >= size THEN m ELSE [memcpy(m, dst + d, src, n) EXCEPT ![dst + d + n] = 0],
         ret |-> strlen(m, src) + d]

strlcat(m, dst, src, size) ==
    LET d == strlen(m, dst)
        room == size - d - 1
        n == IF strlen(m, src) < room THEN strlen(m, src) ELSE room
    IN  [m |-> IF size = 0 \/ d >= size THEN m
               ELSE [memcpy(m, dst + d, src, n) EXCEPT ![dst + d + n] = 0],
         ret |-> strlen(m, src) + d]

-----------------------------------------------------------------------------
(* What the functions are for, over sequences of characters.               *)

Text(m, s) == [i \in 1 .. strlen(m, s) |-> m[s + i - 1]]

\* The runs of characters other than delimiters.
Words(t, stop) ==
    LET starts == {i \in DOMAIN t : t[i] \notin stop /\ (i = 1 \/ t[i - 1] \in stop)}
        end(i) == Max({j \in i .. Len(t) : \A k \in i .. j : t[k] \notin stop})
        order == SetToSortSeq(starts, <)
    IN  [k \in DOMAIN order |-> SubSeq(t, order[k], end(order[k]))]

RECURSIVE Tokens(_, _, _)
Tokens(m, s, delimiters) ==
    LET r == strtok_r(m, s, delimiters)
    IN  IF r.token = NULL THEN <<>>
        ELSE <<Text(r.m, r.token)>> \o Tokens(r.m, r.save, delimiters)

Same(m, x, places) == \A p \in DOMAIN m \ places : x[p] = m[p]

\* memmove moves a block whatever the overlap, and touches nothing else.
Moves(m) ==
    \A dst, src \in 0 .. TextSize - 1 : \A size \in 0 .. TextSize - Max({dst, src}) :
        LET x == memmove(m, dst, src, size)
        IN  /\ \A i \in 0 .. size - 1 : x[dst + i] = m[src + i]
            /\ Same(m, x, dst .. dst + size - 1)

\* Copying and appending truncate to the buffer, terminate it, leave the memory after
\* it alone, and return the length there would have been.
Bounded(m, dst, src) ==
    \A size \in 0 .. src - dst :
        LET c == strlcpy(m, dst, src, size)
            a == strlcat(m, dst, src, size)
            whole == Text(m, dst) \o Text(m, src)
            cut(t) == SubSeq(t, 1, Min({Len(t), size - 1}))
        IN  /\ c.ret = strlen(m, src) /\ a.ret = Len(whole)
            /\ Same(m, c.m, dst .. dst + size - 1) /\ Same(m, a.m, dst .. dst + size - 1)
            /\ size > 0 => Text(c.m, dst) = cut(Text(m, src))
            /\ strlen(m, dst) < size => Text(a.m, dst) = cut(whole)

\* The tokens of a string are its words; comparing and searching agree with the
\* order and the substrings of the sequences.
Tokenizes(m, s, delimiters) ==
    Tokens(m, s, delimiters) = Words(Text(m, s), ToSet(Text(m, delimiters)))

Searches(m, s, t) ==
    LET a == Text(m, s)
        b == Text(m, t)
        at == strstr(m, s, t)
        inside(i) == i + Len(b) <= Len(a) /\ SubSeq(a, i + 1, i + Len(b)) = b
        before(x, y) == \E i \in 1 .. Len(y) : /\ \A j \in 1 .. i - 1 : j <= Len(x) /\ x[j] = y[j]
                                               /\ i > Len(x) \/ x[i] < y[i]
    IN  /\ strcmp(m, s, t) = IF a = b THEN 0 ELSE IF before(a, b) THEN -1 ELSE 1
        /\ IF \E i \in 0 .. Len(a) : inside(i)
           THEN at - s = Min({i \in 0 .. Len(a) : inside(i)}) ELSE at = NULL
        /\ \A c \in Chars : (strchr(m, s, c) = NULL) <=> (strrchr(m, s, c) = NULL)
        /\ strspn(m, s, t) = Min({i \in 0 .. Len(a) : i = Len(a) \/ a[i + 1] \notin ToSet(b)})

=============================================================================
