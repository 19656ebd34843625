------------------------------ MODULE KeyTable ------------------------------
(***************************************************************************)
(* What lib/kernel/hash.h promises: a set of elements no two of which are  *)
(* equal, whatever the number of buckets and whether memory can be had.    *)
(***************************************************************************)
CONSTANTS Elem,
          value,   \* two elements are equal when their values are
          Nothing

VARIABLES table,   \* Nothing, where there is no table
          call, ret

Equals(e) == {x \in table : value[x] = value[e]}

Found(e) == IF Equals(e) = {} THEN Nothing ELSE CHOOSE x \in Equals(e) : TRUE

Does(c, t, r) == call' = c /\ table' = t /\ ret' = r

Init == table = Nothing /\ call = "none" /\ ret = Nothing

Create == table = Nothing /\ (Does("init", {}, TRUE) \/ Does("init", Nothing, FALSE))

Use(e) ==
    /\ table # Nothing
    /\ \/ /\ e \notin table
          /\ \/ Does(<<"insert", e>>, IF Equals(e) = {} THEN table \cup {e} ELSE table, Found(e))
             \/ Does(<<"replace", e>>, (table \ Equals(e)) \cup {e}, Found(e))
       \/ Does(<<"delete", e>>, table \ Equals(e), Found(e))
       \/ Does(<<"find", e>>, table, Found(e))

Empty == table # Nothing /\ (Does("clear", {}, Nothing) \/ Does("destroy", Nothing, Nothing))

Next == Create \/ Empty \/ \E e \in Elem : Use(e)

Spec == Init /\ [][Next]_<<table, call, ret>>

=============================================================================
