-------------------------------- MODULE List --------------------------------
(***************************************************************************)
(* The doubly linked lists of lib/kernel/list.c.  A list_elem is a node of *)
(* a heap; a heap h maps each node to its two links, h.next and h.prev.    *)
(* A list is a number and has two header nodes.  An operation that writes  *)
(* returns the heap it leaves; h.ok becomes FALSE where an assertion of    *)
(* the code fails.  Memory that was never written, or that its owner took  *)
(* back after a removal, holds GARBAGE.                                    *)
(***************************************************************************)
EXTENDS Integers, Sequences, SequencesExt, FiniteSets, Pointers

CONSTANTS Elem, GARBAGE,
          value   \* what the caller's comparison function looks at

ASSUME ListAssumption ==
    /\ IsFiniteSet(Elem) /\ NULL \notin Elem /\ GARBAGE \notin Elem /\ NULL # GARBAGE
    /\ value \in [Elem -> Int]

head(l) == <<"head", l>>
tail(l) == <<"tail", l>>

Headers(ls) == {head(l) : l \in ls} \cup {tail(l) : l \in ls}

Fresh(nodes) == [n \in nodes |-> GARBAGE]

-----------------------------------------------------------------------------
is_head(h, e) == e # NULL /\ h.prev[e] = NULL /\ h.next[e] # NULL

is_interior(h, e) == e # NULL /\ h.prev[e] # NULL /\ h.next[e] # NULL

is_tail(h, e) == e # NULL /\ h.prev[e] # NULL /\ h.next[e] = NULL

Asserted(h, cond) == [h EXCEPT !.ok = @ /\ cond]

list_init(h, l) ==
    [h EXCEPT !.prev[head(l)] = NULL, !.next[head(l)] = tail(l),
              !.prev[tail(l)] = head(l), !.next[tail(l)] = NULL]

list_begin(h, l) == h.next[head(l)]
list_end(l) == tail(l)
list_rbegin(h, l) == h.prev[tail(l)]
list_rend(l) == head(l)

list_empty(h, l) == list_begin(h, l) = list_end(l)

list_next(h, e) == IF is_head(h, e) \/ is_interior(h, e) THEN h.next[e] ELSE GARBAGE

list_prev(h, e) == IF is_interior(h, e) \/ is_tail(h, e) THEN h.prev[e] ELSE GARBAGE

list_front(h, l) == h.next[head(l)]
list_back(h, l) == h.prev[tail(l)]

\* The nodes from A up to B: what "for (e = a; e != b; e = list_next (e))" visits.  A
\* chain that does not reach B is cut off.
RECURSIVE Chain(_, _, _)
Chain(h, a, b) ==
    IF a \in {b, NULL, GARBAGE} THEN <<>> ELSE <<a>> \o Chain(h, list_next(h, a), b)

Elements(h, l) == Chain(h, list_begin(h, l), list_end(l))

list_size(h, l) == Len(Elements(h, l))

-----------------------------------------------------------------------------
\* Mutant: the old neighbour keeps its link.
list_insert_half(h, before, elem) ==
    [h EXCEPT !.prev[elem] = h.prev[before], !.next[elem] = before,
              !.prev[before] = elem]

list_insert(h, before, elem) ==
    [Asserted(h, (is_interior(h, before) \/ is_tail(h, before)) /\ elem # NULL) EXCEPT
        !.prev[elem] = h.prev[before], !.next[elem] = before,
        !.next[h.prev[before]] = elem, !.prev[before] = elem]

list_push_front(h, l, elem) == list_insert(h, list_begin(h, l), elem)

list_push_back(h, l, elem) == list_insert(h, list_end(l), elem)

list_remove(h, elem) ==
    [Asserted(h, is_interior(h, elem)) EXCEPT
        !.next[h.prev[elem]] = h.next[elem], !.prev[h.next[elem]] = h.prev[elem]]

\* Elements first to last, last excluded, move to a place before another node.
list_splice(h, before, first, last_) ==
    LET last == list_prev(h, last_)
        ok == is_interior(h, before) \/ is_tail(h, before)
        h1 == [Asserted(h, ok /\ is_interior(h, first) /\ is_interior(h, last)) EXCEPT
                  !.next[h.prev[first]] = h.next[last], !.prev[h.next[last]] = h.prev[first]]
    IN  IF first = last_ THEN Asserted(h, ok)
        ELSE [h1 EXCEPT !.prev[first] = h1.prev[before], !.next[last] = before,
                        !.next[h1.prev[before]] = first, !.prev[before] = last]

\* The links of every element are swapped, then those of the headers, then those that
\* lead back to the headers.
list_reverse(h, l) ==
    LET es == ToSet(Elements(h, l))
        h1 == [h EXCEPT !.next = [n \in DOMAIN @ |-> IF n \in es THEN h.prev[n] ELSE @[n]],
                        !.prev = [n \in DOMAIN @ |-> IF n \in es THEN h.next[n] ELSE @[n]]]
        front == h1.prev[tail(l)]
        back == h1.next[head(l)]
    IN  IF list_empty(h, l) THEN h
        ELSE [h1 EXCEPT !.next[head(l)] = front, !.prev[tail(l)] = back,
                        !.prev[front] = h1.next[back], !.next[back] = h1.prev[front]]

-----------------------------------------------------------------------------
(* Operations with an order.                                               *)

less(a, b) == value[a] < value[b]

is_sorted(h, a, b) ==
    LET es == Chain(h, a, b)
    IN  \A i \in 2 .. Len(es) : ~less(es[i], es[i - 1])

RECURSIVE find_end_of_run(_, _, _)
find_end_of_run(h, a, b) ==
    LET nx == list_next(h, a)
    IN  IF nx # b /\ ~less(nx, list_prev(h, nx)) THEN find_end_of_run(h, nx, b) ELSE nx

RECURSIVE merge_loop(_, _, _, _)
merge_loop(h, a0, a1b0, b1) ==
    IF a0 = a1b0 \/ a1b0 = b1 THEN h
    ELSE IF ~less(a1b0, a0) THEN merge_loop(h, list_next(h, a0), a1b0, b1)
    ELSE LET nx == list_next(h, a1b0)
         IN  merge_loop(list_splice(h, a0, list_prev(h, nx), nx), a0, nx, b1)

inplace_merge(h, a0, a1b0, b1) ==
    LET sorted == is_sorted(h, a0, a1b0) /\ is_sorted(h, a1b0, b1)
    IN  merge_loop(Asserted(h, sorted), a0, a1b0, b1)

\* The passes over the list: RUNS are output so far in this pass, which has come to A0.
RECURSIVE sort_pass(_, _, _, _)
sort_pass(h, l, a0, runs) ==
    LET end == list_end(l)
        a1b0 == find_end_of_run(h, a0, end)
        b1 == find_end_of_run(h, a1b0, end)
        done(n) == IF n > 1 THEN sort_pass(h, l, list_begin(h, l), 0) ELSE h
    IN  IF a0 = end THEN done(runs)
        ELSE IF a1b0 = end THEN done(runs + 1)
        ELSE sort_pass(inplace_merge(h, a0, a1b0, b1), l, b1, runs + 1)

list_sort(h, l) ==
    LET h1 == sort_pass(h, l, list_begin(h, l), 0)
    IN  Asserted(h1, is_sorted(h1, list_begin(h1, l), list_end(l)))

list_insert_ordered(h, l, elem) ==
    LET es == Elements(h, l)
        i == SelectInSeq(es, LAMBDA e : less(elem, e))
    IN  list_insert(h, IF i = 0 THEN list_end(l) ELSE es[i], elem)

\* list_unique from elem on; the removed elements go to list dups, if it is not NULL.
RECURSIVE list_unique_from(_, _, _, _)
list_unique_from(h, l, dups, elem) ==
    LET nx == list_next(h, elem)
        h1 == list_remove(h, nx)
        h2 == IF dups = NULL THEN h1 ELSE list_push_back(h1, dups, nx)
    IN  IF nx = list_end(l) THEN h
        ELSE IF ~less(elem, nx) /\ ~less(nx, elem)
        THEN list_unique_from(h2, l, dups, elem)
        ELSE list_unique_from(h, l, dups, nx)

list_unique(h, l, dups) ==
    IF list_empty(h, l) THEN h ELSE list_unique_from(h, l, dups, list_begin(h, l))

\* The loop of list_max and list_min: the last element better than all before it.
list_best(h, l, better(_, _)) ==
    FoldLeft(LAMBDA best, e : IF better(e, best) THEN e ELSE best,
             list_begin(h, l), Elements(h, l))

list_max(h, l) == list_best(h, l, LAMBDA e, max : less(max, e))

list_min(h, l) == list_best(h, l, less)

=============================================================================
