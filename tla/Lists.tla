------------------------------- MODULE Lists --------------------------------
(***************************************************************************)
(* Kernel code at work on a few lists through lib/kernel/list.c.  The      *)
(* caller's part of the bargain is in the guards: it inserts an element    *)
(* that is in no list, removes one that is in a list, and splices a range  *)
(* of one list to a place outside that range.  An element that was removed *)
(* is its owner's memory again and may hold anything.                      *)
(***************************************************************************)
EXTENDS List

CONSTANTS ListIds,
          ListElem   \* the elements the calls move

ASSUME ListsAssumption == ListElem \subseteq Elem

VARIABLES heap,
          lcall,   \* the call last made and its arguments
          lret     \* the pointer it returned

listVars == <<heap, lcall, lret>>

Nodes(l) == ToSet(Elements(heap, l))

Free == ListElem \ UNION {Nodes(l) : l \in ListIds}

Given(h, e) == [h EXCEPT !.next[e] = GARBAGE, !.prev[e] = GARBAGE]

Does(c, h, r) == lcall' = c /\ heap' = h /\ lret' = r

-----------------------------------------------------------------------------
EmptyLists ==
    LET nodes == Elem \cup Headers(ListIds)
        raw == [next |-> Fresh(nodes), prev |-> Fresh(nodes), ok |-> TRUE]
    IN  FoldLeft(list_init, raw, SetToSeq(ListIds))

ListsInit == heap = EmptyLists /\ lcall = <<"none", <<>>>> /\ lret = NULL

Insert(l, e) ==
    /\ e \in Free
    /\ \/ Does(<<"push_front", <<l, e>>>>, list_push_front(heap, l, e), NULL)
       \/ Does(<<"push_back", <<l, e>>>>, list_push_back(heap, l, e), NULL)
       \/ \E b \in Nodes(l) : Does(<<"insert", <<b, e>>>>, list_insert(heap, b, e), NULL)

InsertOrdered(l, e) ==
    /\ e \in Free
    /\ is_sorted(heap, list_begin(heap, l), list_end(l))
    /\ Does(<<"insert_ordered", <<l, e>>>>, list_insert_ordered(heap, l, e), NULL)

RemoveElem(l) ==
    \E e \in Nodes(l) : Does(<<"remove", <<e>>>>, Given(list_remove(heap, e), e), heap.next[e])

list_pop_front(l) ==
    LET front == list_front(heap, l)
    IN  /\ ~list_empty(heap, l)
        /\ Does(<<"pop_front", <<l>>>>, Given(list_remove(heap, front), front), front)

list_pop_back(l) ==
    LET back == list_back(heap, l)
    IN  /\ ~list_empty(heap, l)
        /\ Does(<<"pop_back", <<l>>>>, Given(list_remove(heap, back), back), back)

SpliceRange(m, l) ==
    LET all == Append(Elements(heap, l), list_end(l))
    IN  \E i, j \in 1 .. Len(all) : \E before \in Nodes(m) \cup {list_end(m)} :
            /\ i <= j
            /\ before \notin {all[k] : k \in i .. (j - 1)}
            /\ Does(<<"splice", <<m, before, l, all[i], all[j]>>>>,
                    list_splice(heap, before, all[i], all[j]), NULL)

Rearrange(l) ==
    \/ Does(<<"reverse", <<l>>>>, list_reverse(heap, l), NULL)
    \/ Does(<<"sort", <<l>>>>, list_sort(heap, l), NULL)

Unique(l, dups) == Does(<<"unique", <<l, dups>>>>, list_unique(heap, l, dups), NULL)

ListsNext ==
    \E l \in ListIds :
        \/ \E e \in ListElem : Insert(l, e) \/ InsertOrdered(l, e)
        \/ RemoveElem(l) \/ list_pop_front(l) \/ list_pop_back(l)
        \/ \E m \in ListIds : SpliceRange(m, l)
        \/ Rearrange(l)
        \/ \E m \in (ListIds \ {l}) \cup {NULL} : Unique(l, m)

-----------------------------------------------------------------------------
(* The sequences behind the pointers.  A pointer to a list's tail is its   *)
(* end.                                                                    *)

Pointer(n) == IF n \in Headers(ListIds) THEN NULL ELSE n

Seqs == INSTANCE SeqLists WITH
            Elem <- ListElem, Lists <- ListIds, End <- NULL,
            seqs <- [l \in ListIds |-> Elements(heap, l)],
            call <- <<lcall[1], [i \in DOMAIN lcall[2] |-> Pointer(lcall[2][i])]>>,
            ret <- Pointer(lret)

\* The two directions of a list agree, and so do the calls that only look at it.
Linked(l) ==
    LET s == Elements(heap, l)
        all == <<head(l)>> \o s \o <<tail(l)>>
        first(Better(_, _)) ==
            CHOOSE e \in Nodes(l) :
                /\ \A f \in Nodes(l) : ~Better(f, e)
                /\ \A f \in Nodes(l) : Better(e, f) \/ f = e \/ \E i, j \in DOMAIN s : i < j /\ s[i] = e /\ s[j] = f
    IN  /\ \A i \in 2 .. Len(all) : list_prev(heap, all[i]) = all[i - 1]
        /\ list_rbegin(heap, l) = all[Len(all) - 1] /\ list_rend(l) = all[1]
        /\ list_size(heap, l) = Len(s)
        /\ list_empty(heap, l) <=> s = <<>>
        /\ s # <<>> => /\ list_front(heap, l) = s[1] /\ list_back(heap, l) = s[Len(s)]
                       /\ list_min(heap, l) = first(less)
                       /\ list_max(heap, l) = first(LAMBDA a, b : less(b, a))

\* The pointer work of list.c does what list.h says of sequences: every call has the
\* effect and the result of its abstract counterpart, no assertion of list.c fails, no
\* pointer is followed that was not set, and whatever calls came before, the lists can
\* be walked both ways and are measured and searched right.
ListsImplementSequences == Seqs!Spec /\ [](heap.ok /\ \A l \in ListIds : Linked(l))

\* list_sort puts a list of any order right and keeps equal elements in their order.
SortsStably(l, s) ==
    LET h == list_sort(FoldLeft(LAMBDA g, e : list_push_back(g, l, e), EmptyLists, s), l)
    IN  h.ok /\ Elements(h, l) = Seqs!Sorted(s)

=============================================================================
