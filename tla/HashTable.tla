----------------------------- MODULE HashTable ------------------------------
(***************************************************************************)
(* The hash table of lib/kernel/hash.c over the lists of list.c.  A table  *)
(* is a record t: its heap, the first of its consecutive buckets, how many *)
(* there are and how many elements.  Bucket i of t is the list             *)
(* t.buckets + i.  An allocation returns memory other than the one in use, *)
(* or fails.                                                               *)
(***************************************************************************)
EXTENDS List, Bitwise

CONSTANTS hash,                    \* the caller's hash function
          MIN_BUCKETS,             \* 4 in the code
          BEST_ELEMS_PER_BUCKET,   \* 2 in the code
          MaxBuckets               \* that the elements of the instance call for

ASSUME HashAssumption ==
    /\ hash \in [Elem -> Nat]
    /\ \A a, b \in Elem : value[a] = value[b] => hash[a] = hash[b]
    /\ MIN_BUCKETS \in 1 .. MaxBuckets /\ BEST_ELEMS_PER_BUCKET \in Nat \ {0}

VARIABLES tab, hcall, hret

hashVars == <<tab, hcall, hret>>

BucketsOf(t) == {t.buckets + i : i \in 0 .. t.bucket_cnt - 1}

Contents(t) == UNION {ToSet(Elements(t.heap, b)) : b \in BucketsOf(t)}

Inits(h, lists) == FoldLeft(list_init, h, SetToSeq(lists))

\* Memory that is given up holds anything.
Lost(h, nodes) == [h EXCEPT !.next = [n \in DOMAIN @ |-> IF n \in nodes THEN GARBAGE ELSE @[n]],
                            !.prev = [n \in DOMAIN @ |-> IF n \in nodes THEN GARBAGE ELSE @[n]]]

-----------------------------------------------------------------------------
find_bucket(t, e) == t.buckets + (hash[e] & (t.bucket_cnt - 1))

\* Mutant: the elements are compared one way only.
find_elem_one_way(t, bucket, e) ==
    LET es == Elements(t.heap, bucket)
        i == SelectInSeq(es, LAMBDA hi : ~less(hi, e))
    IN  IF i = 0 THEN NULL ELSE es[i]

find_elem(t, bucket, e) ==
    LET es == Elements(t.heap, bucket)
        i == SelectInSeq(es, LAMBDA hi : ~less(hi, e) /\ ~less(e, hi))
    IN  IF i = 0 THEN NULL ELSE es[i]

insert_elem(t, bucket, e) ==
    [t EXCEPT !.elem_cnt = @ + 1, !.heap = list_push_front(@, bucket, e)]

remove_elem(t, e) == [t EXCEPT !.elem_cnt = @ - 1, !.heap = Lost(list_remove(@, e), {e})]

turn_off_least_1bit(x) == x & (x - 1)

is_power_of_2(x) == x # 0 /\ turn_off_least_1bit(x) = 0

RECURSIVE power_of_2_in(_)
power_of_2_in(x) == IF is_power_of_2(x) THEN x ELSE power_of_2_in(turn_off_least_1bit(x))

\* With or without memory for the new buckets.
rehash(t, memory) ==
    LET want == t.elem_cnt \div BEST_ELEMS_PER_BUCKET
        new_cnt == power_of_2_in(IF want < MIN_BUCKETS THEN MIN_BUCKETS ELSE want)
        base == MaxBuckets - t.buckets
        new == base .. (base + new_cnt - 1)
        installed == [t EXCEPT !.heap = Inits(@, new), !.buckets = base, !.bucket_cnt = new_cnt]
        old == FlattenSeq([i \in 1 .. t.bucket_cnt |-> Elements(t.heap, t.buckets + i - 1)])
        move(u, e) ==
            [u EXCEPT !.heap = list_push_front(list_remove(@, e), find_bucket(u, e), e)]
        moved == FoldLeft(move, installed, old)
    IN  IF new_cnt = t.bucket_cnt \/ ~memory THEN t
        ELSE [moved EXCEPT !.heap = Lost(@, Headers(BucketsOf(t)))]

hash_clear(t) ==
    [t EXCEPT !.heap = Inits(Lost(@, Contents(t)), BucketsOf(t)), !.elem_cnt = 0]

\* Iterators: where hash_next goes from element e of a bucket, and all it visits from
\* hash_first on.
RECURSIVE next_in(_, _, _)
next_in(t, bucket, e) ==
    IF e # list_end(bucket) THEN <<bucket, e>>
    ELSE IF bucket + 1 >= t.buckets + t.bucket_cnt THEN <<bucket + 1, NULL>>
    ELSE next_in(t, bucket + 1, list_begin(t.heap, bucket + 1))

hash_next(t, i) == next_in(t, i[1], list_next(t.heap, i[2]))

hash_first(t) == <<t.buckets, head(t.buckets)>>

RECURSIVE VisitsFrom(_, _)
VisitsFrom(t, i) ==
    LET nx == hash_next(t, i) IN IF nx[2] = NULL THEN <<>> ELSE <<nx[2]>> \o VisitsFrom(t, nx)

\* hash_apply notes the next element before it acts on this one.
hash_apply(t) ==
    FlattenSeq([i \in 1 .. t.bucket_cnt |-> Elements(t.heap, t.buckets + i - 1)])

-----------------------------------------------------------------------------
Returns(c, t, r) == hcall' = c /\ tab' = t /\ hret' = r

Exists == tab.buckets # NULL

HashInit ==
    LET nodes == Elem \cup Headers(0 .. 2 * MaxBuckets - 1)
    IN  /\ tab = [heap |-> [next |-> Fresh(nodes), prev |-> Fresh(nodes), ok |-> TRUE],
                  buckets |-> NULL, bucket_cnt |-> 0, elem_cnt |-> 0]
        /\ hcall = "none" /\ hret = NULL

hash_init ==
    /\ ~Exists
    /\ \/ Returns("init", hash_clear([tab EXCEPT !.buckets = 0, !.bucket_cnt = MIN_BUCKETS]), TRUE)
       \/ Returns("init", tab, FALSE)

hash_insert(e, memory) ==
    LET bucket == find_bucket(tab, e)
        old == find_elem(tab, bucket, e)
    IN  /\ Exists /\ e \notin Contents(tab)
        /\ Returns(<<"insert", e>>,
                rehash(IF old = NULL THEN insert_elem(tab, bucket, e) ELSE tab, memory), old)

hash_replace(e, memory) ==
    LET bucket == find_bucket(tab, e)
        old == find_elem(tab, bucket, e)
        t == IF old # NULL THEN remove_elem(tab, old) ELSE tab
    IN  /\ Exists /\ e \notin Contents(tab)
        /\ Returns(<<"replace", e>>, rehash(insert_elem(t, bucket, e), memory), old)

hash_find(e) ==
    Exists /\ Returns(<<"find", e>>, tab, find_elem(tab, find_bucket(tab, e), e))

hash_delete(e, memory) ==
    LET found == find_elem(tab, find_bucket(tab, e), e)
    IN  /\ Exists
        /\ Returns(<<"delete", e>>,
                IF found # NULL THEN rehash(remove_elem(tab, found), memory) ELSE tab, found)

ClearTable == Exists /\ Returns("clear", hash_clear(tab), NULL)

\* The elements left in the buckets go with them.
hash_destroy ==
    LET t == hash_clear(tab)
    IN  /\ Exists
        /\ Returns("destroy", [t EXCEPT !.heap = Lost(@, Headers(BucketsOf(t))),
                                     !.buckets = NULL, !.bucket_cnt = 0], NULL)

HashNext ==
    \/ hash_init \/ ClearTable \/ hash_destroy
    \/ \E e \in Elem : \/ hash_find(e)
                       \/ \E memory \in BOOLEAN :
                              hash_insert(e, memory) \/ hash_replace(e, memory) \/ hash_delete(e, memory)

-----------------------------------------------------------------------------
Keys == INSTANCE KeyTable WITH
            Nothing <- NULL, call <- hcall, ret <- hret,
            table <- IF Exists THEN Contents(tab) ELSE NULL

\* The counts and both ways of walking the table agree with its contents.
Walkable ==
    Exists =>
        LET visits == VisitsFrom(tab, hash_first(tab))
        IN  /\ tab.heap.ok /\ is_power_of_2(tab.bucket_cnt)
            /\ tab.elem_cnt = Cardinality(Contents(tab))
            /\ Len(visits) = tab.elem_cnt /\ ToSet(visits) = Contents(tab)
            /\ visits = hash_apply(tab)

\* A hash table is a set of keys whatever its buckets are: every call finds, adds,
\* replaces or removes exactly the element it should, before and after the table has
\* been rehashed up or down and when the memory for that was not there; its count and
\* its iterators agree with its contents.
HashImplementsTable == Keys!Spec /\ []Walkable

=============================================================================
