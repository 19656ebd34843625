------------------------------- MODULE Palloc -------------------------------
(***************************************************************************)
(* One pool of the page allocator (threads/palloc.c) with its bitmap       *)
(* (lib/kernel/bitmap.c).  palloc_get_multiple scans and marks the bitmap  *)
(* under the pool's lock, one bit at a time; palloc_free_multiple clears   *)
(* bits without the lock, because thread_schedule_tail frees the page of a *)
(* dead thread where it cannot wait.  Each bit operation is one atomic     *)
(* instruction; threads interleave between them.                           *)
(***************************************************************************)
EXTENDS Naturals

CONSTANTS Thread, NULL,
          PageCnt  \* bit_cnt of used_map

ASSUME PallocAssumption ==
    /\ PageCnt \in Nat
    /\ NULL \notin Thread

VARIABLES used_map,  \* the set of pages whose bit is set
          lock,      \* holder of pool->lock
          pc,        \* idle, scan, flip, unlock, free
          start,     \* first bit of the group being scanned, set or cleared
          cnt,       \* page_cnt
          k,         \* index of the bit in the group
          held,      \* history: the pages each thread has been given
          was_free   \* history: the free pages when the lock was taken

vars == <<used_map, lock, pc, start, cnt, k, held, was_free>>

Page == 0 .. PageCnt - 1

\* The n pages from b on.
Group(b, n) == b .. b + n - 1

Set(f, t, v) == [f EXCEPT ![t] = v]

\* The call returns; its locals are gone.
Return(t) ==
    /\ pc' = Set(pc, t, "idle")
    /\ start' = Set(start, t, 0)
    /\ cnt' = Set(cnt, t, 1)
    /\ k' = Set(k, t, 0)
    /\ was_free' = Set(was_free, t, {})

-----------------------------------------------------------------------------
\* Mutant: the lock is not taken.
palloc_get_unlocked(t, n) ==
    /\ pc[t] = "idle"
    /\ lock' = t
    /\ pc' = Set(pc, t, "scan")
    /\ start' = Set(start, t, 0)
    /\ cnt' = Set(cnt, t, n)
    /\ k' = Set(k, t, 0)
    /\ was_free' = Set(was_free, t, Page \ used_map)
    /\ UNCHANGED <<used_map, held>>

\* palloc_get_multiple up to lock_acquire and the start of bitmap_scan.
palloc_get_multiple(t, n) ==
    /\ pc[t] = "idle"
    /\ lock = NULL
    /\ lock' = t
    /\ pc' = Set(pc, t, "scan")
    /\ start' = Set(start, t, 0)
    /\ cnt' = Set(cnt, t, n)
    /\ k' = Set(k, t, 0)
    /\ was_free' = Set(was_free, t, Page \ used_map)
    /\ UNCHANGED <<used_map, held>>

\* bitmap_scan has run out of groups: BITMAP_ERROR.
scan_fails(t) ==
    /\ pc[t] = "scan"
    /\ start[t] + cnt[t] > PageCnt
    /\ pc' = Set(pc, t, "unlock")
    /\ UNCHANGED <<used_map, lock, start, cnt, k, held, was_free>>

\* Mutant: the scan goes on after the whole group instead of its first page.
scan_used_skip(t) ==
    /\ pc[t] = "scan"
    /\ start[t] + cnt[t] <= PageCnt
    /\ start[t] + k[t] \in used_map
    /\ start' = Set(start, t, start[t] + cnt[t])
    /\ k' = Set(k, t, 0)
    /\ UNCHANGED <<used_map, lock, pc, cnt, held, was_free>>

\* bitmap_contains meets a used page: on to the next group.
scan_used(t) ==
    /\ pc[t] = "scan"
    /\ start[t] + cnt[t] <= PageCnt
    /\ start[t] + k[t] \in used_map
    /\ start' = Set(start, t, start[t] + 1)
    /\ k' = Set(k, t, 0)
    /\ UNCHANGED <<used_map, lock, pc, cnt, held, was_free>>

\* Mutant: the first free page is taken for a free group.
scan_free_first(t) ==
    /\ pc[t] = "scan"
    /\ start[t] + cnt[t] <= PageCnt
    /\ start[t] + k[t] \notin used_map
    /\ k' = Set(k, t, 0)
    /\ pc' = Set(pc, t, "flip")
    /\ UNCHANGED <<used_map, lock, start, cnt, held, was_free>>

\* bitmap_contains meets a free page: on to the next page, or done.
scan_free(t) ==
    /\ pc[t] = "scan"
    /\ start[t] + cnt[t] <= PageCnt
    /\ start[t] + k[t] \notin used_map
    /\ \/ /\ k[t] + 1 < cnt[t]
          /\ k' = Set(k, t, k[t] + 1)
          /\ UNCHANGED pc
       \/ /\ k[t] + 1 = cnt[t]
          /\ k' = Set(k, t, 0)
          /\ pc' = Set(pc, t, "flip")
    /\ UNCHANGED <<used_map, lock, start, cnt, held, was_free>>

bitmap_mark_short(t) ==
    /\ pc[t] = "flip"
    /\ used_map' = used_map \cup {start[t] + k[t]}
    /\ k' = Set(k, t, k[t] + 1)
    /\ pc' = Set(pc, t, IF k[t] + 2 >= cnt[t] THEN "unlock" ELSE "flip")
    /\ UNCHANGED <<lock, start, cnt, held, was_free>>

\* bitmap_set_multiple (..., true), one bitmap_mark at a time.
bitmap_mark(t) ==
    /\ pc[t] = "flip"
    /\ used_map' = used_map \cup {start[t] + k[t]}
    /\ k' = Set(k, t, k[t] + 1)
    /\ pc' = Set(pc, t, IF k[t] + 1 = cnt[t] THEN "unlock" ELSE "flip")
    /\ UNCHANGED <<lock, start, cnt, held, was_free>>

\* lock_release; the caller has the pages, or NULL.
palloc_return(t) ==
    /\ pc[t] = "unlock"
    /\ lock' = NULL
    /\ held' = IF start[t] + cnt[t] <= PageCnt
               THEN Set(held, t, held[t] \cup Group(start[t], cnt[t])) ELSE held
    /\ Return(t)
    /\ UNCHANGED used_map

\* palloc_free_multiple up to bitmap_set_multiple (..., false), on behalf of
\* the thread that was given the pages; they are filled with 0xcc first.
palloc_free_multiple(t, b, n) ==
    /\ pc[t] = "idle"
    /\ Group(b, n) \subseteq held[t]
    /\ pc' = Set(pc, t, "free")
    /\ start' = Set(start, t, b)
    /\ cnt' = Set(cnt, t, n)
    /\ k' = Set(k, t, 0)
    /\ UNCHANGED <<used_map, lock, held, was_free>>

bitmap_reset(t) ==
    /\ pc[t] = "free"
    /\ used_map' = used_map \ {start[t] + k[t]}
    /\ held' = Set(held, t, held[t] \ {start[t] + k[t]})
    /\ \/ /\ k[t] + 1 < cnt[t]
          /\ k' = Set(k, t, k[t] + 1)
          /\ UNCHANGED <<pc, start, cnt, was_free>>
       \/ k[t] + 1 = cnt[t] /\ Return(t)
    /\ UNCHANGED lock

-----------------------------------------------------------------------------
\* init_pool
Init ==
    /\ used_map = {}
    /\ lock = NULL
    /\ pc = [t \in Thread |-> "idle"]
    /\ start = [t \in Thread |-> 0]
    /\ cnt = [t \in Thread |-> 1]
    /\ k = [t \in Thread |-> 0]
    /\ held = [t \in Thread |-> {}]
    /\ was_free = [t \in Thread |-> {}]

\* A request may ask for more pages than the pool has.
Step(t) ==
    \/ \E n \in 1 .. PageCnt + 1 : palloc_get_multiple(t, n)
    \/ scan_fails(t) \/ scan_used(t) \/ scan_free(t) \/ bitmap_mark(t) \/ palloc_return(t)
    \/ \E b \in Page : \E n \in 1 .. PageCnt - b : palloc_free_multiple(t, b, n)
    \/ bitmap_reset(t)

Next == \E t \in Thread : Step(t)

Spec == Init /\ [][Next]_vars

-----------------------------------------------------------------------------
(* Properties.                                                             *)

\* The variables have their types.
TypeOK ==
    /\ used_map \subseteq Page
    /\ lock \in Thread \cup {NULL}
    /\ pc \in [Thread -> {"idle", "scan", "flip", "unlock", "free"}]
    /\ start \in [Thread -> Nat]
    /\ cnt \in [Thread -> Nat \ {0}]
    /\ k \in [Thread -> Nat]
    /\ held \in [Thread -> SUBSET Page]
    /\ was_free \in [Thread -> SUBSET Page]

\* The pages that are a thread's: those it was given and those it has settled on
\* and is marking.
Taking(t) == pc[t] \in {"flip", "unlock"} /\ start[t] + cnt[t] <= PageCnt
Has(t) == held[t] \cup (IF Taking(t) THEN Group(start[t], cnt[t]) ELSE {})

\* No page is given to two threads, although palloc_free_multiple clears bits in
\* the middle of another thread's scan and the scan is not atomic with the marking.
Exclusive ==
    \A t, u \in Thread : t # u => Has(t) \cap Has(u) = {}

\* Every set bit belongs to a thread that has the page, and every page a thread was
\* given has its bit set: no page is lost, and the assertion of
\* palloc_free_multiple (bitmap_all) holds.
Accounted ==
    /\ \A t \in Thread : held[t] \subseteq used_map
    /\ \A i \in used_map : \E t \in Thread : i \in Has(t)

\* Both: a page is some thread's, and only its, exactly while its bit is set.
PagesSound == Exclusive /\ Accounted

\* palloc_get_multiple fails only if no group of the wanted size was free when it
\* got the lock.
NoSpuriousFailure ==
    \A t \in Thread :
        pc[t] = "unlock" /\ start[t] + cnt[t] > PageCnt
        => \A b \in Page : ~(Group(b, cnt[t]) \subseteq was_free[t])

\* The pool implements the abstract allocator: a call takes effect when its scan
\* is through.
OwnerOf(i) == IF \E t \in Thread : i \in Has(t)
              THEN CHOOSE t \in Thread : i \in Has(t) ELSE NULL

PA == INSTANCE PageAllocator WITH owner <- [i \in Page |-> OwnerOf(i)]
PoolImplementsAllocator == PA!Spec

=============================================================================
