------------------------------ MODULE SeqLists ------------------------------
(***************************************************************************)
(* What lib/kernel/list.h promises: lists are sequences, an element is in  *)
(* at most one of them, and each call changes the sequences it names.      *)
(***************************************************************************)
EXTENDS Integers, Sequences, SequencesExt

CONSTANTS Elem, Lists,
          value,   \* of an element, for the operations with an order
          End      \* the end of a list, and no list

VARIABLES seqs,
          call,    \* the call last made, with its arguments
          ret      \* and what it returned

seqVars == <<seqs, call, ret>>

Used == UNION {ToSet(seqs[l]) : l \in Lists}

Ordered(s) == \A i \in 2 .. Len(s) : value[s[i - 1]] <= value[s[i]]

Put(l, i, e) ==
    /\ e \notin Used
    /\ seqs' = [seqs EXCEPT ![l] = InsertAt(@, i, e)]
    /\ ret' = End

Insert(l, e) ==
    \/ call' = <<"push_front", <<l, e>>>> /\ Put(l, 1, e)
    \/ call' = <<"push_back", <<l, e>>>> /\ Put(l, Len(seqs[l]) + 1, e)
    \/ \E i \in DOMAIN seqs[l] : call' = <<"insert", <<seqs[l][i], e>>>> /\ Put(l, i, e)

\* An ordered list stays so, and the new element comes after its equals.
InsertOrdered(l, e) ==
    /\ call' = <<"insert_ordered", <<l, e>>>>
    /\ Ordered(seqs[l])
    /\ \E i \in 1 .. Len(seqs[l]) + 1 :
          /\ \A j \in DOMAIN seqs[l] : j < i <=> value[seqs[l][j]] <= value[e]
          /\ Put(l, i, e)

\* Removing returns the element that followed, popping the one removed.
Withdraw(l) ==
    \E i \in DOMAIN seqs[l] :
        /\ \/ /\ call' = <<"remove", <<seqs[l][i]>>>>
              /\ ret' = IF i = Len(seqs[l]) THEN End ELSE seqs[l][i + 1]
           \/ call' = <<"pop_front", <<l>>>> /\ i = 1 /\ ret' = seqs[l][i]
           \/ call' = <<"pop_back", <<l>>>> /\ i = Len(seqs[l]) /\ ret' = seqs[l][i]
        /\ seqs' = [seqs EXCEPT ![l] = RemoveAt(@, i)]

\* Elements i up to but not including j of list l move into list m, in front
\* of its k-th, which is not one of them.
Splice(l, i, j, m, k) ==
    LET node(n, x) == IF x > Len(seqs[n]) THEN End ELSE seqs[n][x]
        part == SubSeq(seqs[l], i, j - 1)
        rest == [seqs EXCEPT ![l] = SubSeq(@, 1, i - 1) \o SubSeq(@, j, Len(@))]
        at == IF l = m /\ k >= j THEN k - Len(part) ELSE k
    IN  /\ call' = <<"splice", <<m, node(m, k), l, node(l, i), node(l, j)>>>>
        /\ seqs' = [rest EXCEPT ![m] = SubSeq(@, 1, at - 1) \o part \o SubSeq(@, at, Len(@))]
        /\ ret' = End

\* Sorting keeps the order of equal elements.
Sorted(s) ==
    LET before(i, j) == value[s[i]] < value[s[j]] \/ (value[s[i]] = value[s[j]] /\ i < j)
        order == SetToSortSeq(DOMAIN s, before)
    IN  [i \in DOMAIN s |-> s[order[i]]]

Rearrange(l) ==
    /\ \/ call' = <<"reverse", <<l>>>> /\ seqs' = [seqs EXCEPT ![l] = Reverse(@)]
       \/ call' = <<"sort", <<l>>>> /\ seqs' = [seqs EXCEPT ![l] = Sorted(@)]
    /\ ret' = End

\* Of equal neighbours the first stays; the others are appended to dups.
Unique(l, dups) ==
    LET s == seqs[l]
        again == {i \in DOMAIN s : i > 1 /\ value[s[i]] = value[s[i - 1]]}
        part(I) == LET order == SetToSortSeq(I, <) IN [i \in DOMAIN order |-> s[order[i]]]
    IN  /\ call' = <<"unique", <<l, dups>>>>
        /\ seqs' = [m \in Lists |-> CASE m = l -> part(DOMAIN s \ again)
                                      [] m = dups -> seqs[m] \o part(again)
                                      [] OTHER -> seqs[m]]
        /\ ret' = End

-----------------------------------------------------------------------------
Init == seqs = [l \in Lists |-> <<>>] /\ call = <<"none", <<>>>> /\ ret = End

Next ==
    \E l \in Lists :
        \/ \E e \in Elem : Insert(l, e) \/ InsertOrdered(l, e)
        \/ Withdraw(l)
        \/ \E m \in Lists : \E k \in 1 .. Len(seqs[m]) + 1 : \E i, j \in 1 .. Len(seqs[l]) + 1 :
               i <= j /\ (l = m => (k <= i \/ k >= j)) /\ Splice(l, i, j, m, k)
        \/ Rearrange(l)
        \/ \E m \in (Lists \ {l}) \cup {End} : Unique(l, m)

Spec == Init /\ [][Next]_seqVars

=============================================================================
