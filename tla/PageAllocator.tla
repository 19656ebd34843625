--------------------------- MODULE PageAllocator ---------------------------
(***************************************************************************)
(* What the page allocator promises (the comments of threads/palloc.c): a  *)
(* call gets a run of contiguous pages nobody else has; a page that is     *)
(* freed is nobody's.                                                      *)
(***************************************************************************)
EXTENDS Naturals

CONSTANTS Thread, NULL, PageCnt

VARIABLE owner  \* of each page, NULL for a free one

Init == owner = [i \in 0 .. PageCnt - 1 |-> NULL]

Get(t, b, n) ==
    /\ \A i \in b .. b + n - 1 : owner[i] = NULL
    /\ owner' = [i \in 0 .. PageCnt - 1 |-> IF i \in b .. b + n - 1 THEN t ELSE owner[i]]

Free(t, i) == owner[i] = t /\ owner' = [owner EXCEPT ![i] = NULL]

Next ==
    \E t \in Thread :
        \/ \E b \in 0 .. PageCnt - 1 : \E n \in 1 .. PageCnt - b : Get(t, b, n)
        \/ \E i \in 0 .. PageCnt - 1 : Free(t, i)

Spec == Init /\ [][Next]_owner

=============================================================================
