------------------------------- MODULE Malloc -------------------------------
(***************************************************************************)
(* malloc, calloc, realloc and free (threads/malloc.c) over an allocator   *)
(* of pages.  A descriptor serves the blocks of one size and has a lock;   *)
(* an arena is a page cut into blocks of a descriptor, or the first page   *)
(* of a big block.  What a thread does while it holds a descriptor's lock  *)
(* is one step where no other thread can see the difference; palloc calls  *)
(* are single steps, as PageAllocator says they appear.                    *)
(***************************************************************************)
EXTENDS Naturals, Sequences, FiniteSets, SequencesExt, Pointers

CONSTANTS Thread,
          PageCnt,   \* pages in the kernel pool
          PGSIZE,
          Header,    \* sizeof (struct arena)
          MinBlock,  \* 16 in malloc_init
          Word,      \* 2^w for a size_t of w bits
          Requests,  \* the sizes asked of malloc and realloc
          Products   \* the pairs asked of calloc

ASSUME MallocAssumption ==
    /\ PageCnt \in Nat /\ PGSIZE \in Nat /\ Header \in Nat /\ Word \in Nat
    /\ MinBlock \in Nat \ {0}
    /\ Header + MinBlock <= PGSIZE
    /\ Requests \subseteq 1 .. Word - 1
    /\ Products \subseteq (1 .. Word - 1) \X (1 .. Word - 1)
    /\ NULL \notin Thread

VARIABLES used,       \* the pages the page allocator has given away
          arena,      \* struct arena at the start of each page, or NULL
          free_list,  \* of each descriptor
          lock,       \* holder of each descriptor's lock
          pc,         \* idle, lock, take, free, push
          d,          \* the descriptor a call works on
          b,          \* the block being freed
          want,       \* the bytes the caller means to get
          old,        \* the block being resized, or NULL
          live        \* history: the blocks callers own

vars == <<used, arena, free_list, lock, pc, d, b, want, old, live>>

Page == 0 .. PageCnt - 1

\* malloc_init: descriptor i serves blocks of MinBlock * 2^i bytes.
Desc == {i \in 0 .. 9 : MinBlock * 2^i < PGSIZE \div 2}
block_size(i) == MinBlock * 2^i
blocks_per_arena(i) == (PGSIZE - Header) \div block_size(i)

\* The smallest descriptor for SIZE bytes, if there is one.
Fits(size) == {i \in Desc : block_size(i) >= size}
DescFor(size) == CHOOSE i \in Fits(size) : \A j \in Fits(size) : i <= j

\* Mutant: the blocks of an arena start where its header is.
BlockAtHeader(p, i, n) == [page |-> p, ofs |-> n * block_size(i)]

\* A block is its page and its offset in the page.
Block(p, i, n) == [page |-> p, ofs |-> Header + n * block_size(i)]
Blocks(p, i) == [n \in 1 .. blocks_per_arena(i) |-> Block(p, i, n - 1)]

\* DIV_ROUND_UP (size + sizeof *a, PGSIZE), in a size_t.
PagesFor(size) == ((size + Header + PGSIZE - 1) % Word) \div PGSIZE

\* block_size (block)
Bytes(x) ==
    LET a == arena[x.page]
    IN  IF a.desc # NULL THEN block_size(a.desc) ELSE PGSIZE * a.free_cnt - x.ofs

\* palloc_get_multiple: any run of free pages.
Runs(n) == {p \in Page : p + n <= PageCnt /\ \A i \in p .. p + n - 1 : i \notin used}

Set(f, x, v) == [f EXCEPT ![x] = v]

-----------------------------------------------------------------------------
\* malloc hands block X to its caller, who meant to get BYTES bytes.  realloc, with
\* an old block O, goes on to free it.
Give(t, x, bytes, o) ==
    /\ live' = live \cup {[block |-> x, want |-> bytes]}
    /\ pc' = Set(pc, t, IF o = NULL THEN "idle" ELSE "copied")
    /\ old' = Set(old, t, o)
    /\ want' = Set(want, t, 0)
    /\ d' = Set(d, t, 0)

\* malloc returns NULL; realloc leaves the old block alone.
GiveNull(t) ==
    /\ pc' = Set(pc, t, "idle")
    /\ old' = Set(old, t, NULL)
    /\ want' = Set(want, t, 0)
    /\ d' = Set(d, t, 0)
    /\ UNCHANGED live

\* A request too big for any descriptor: contiguous pages, an arena in the first.
BigBlock(t, size, bytes, o) ==
    LET n == PagesFor(size)
    IN  \/ /\ n # 0
           /\ \E p \in Runs(n) :
                /\ used' = used \cup (p .. p + n - 1)
                /\ arena' = Set(arena, p, [desc |-> NULL, free_cnt |-> n])
                /\ Give(t, [page |-> p, ofs |-> Header], bytes, o)
        \/ /\ n = 0 \/ Runs(n) = {}
           /\ GiveNull(t)
           /\ UNCHANGED <<used, arena>>

\* malloc (SIZE) up to lock_acquire, for a caller who means to get BYTES bytes and,
\* if O is not NULL, is in realloc (O, SIZE).
Request(t, size, bytes, o) ==
    /\ pc[t] = "idle"
    /\ \/ /\ Fits(size) # {}
          /\ d' = Set(d, t, DescFor(size))
          /\ want' = Set(want, t, bytes)
          /\ old' = Set(old, t, o)
          /\ pc' = Set(pc, t, "lock")
          /\ UNCHANGED <<used, arena, live>>
       \/ Fits(size) = {} /\ BigBlock(t, size, bytes, o)
    /\ UNCHANGED <<free_list, lock, b>>

malloc(t, size) == Request(t, size, size, NULL)

\* calloc zeroes what malloc gives; a product that is seen to wrap gets NULL.
calloc(t, x, y) ==
    LET size == (x * y) % Word
    IN  /\ ~(size < x \/ size < y)
        /\ Request(t, size, x * y, NULL)

\* realloc of a block the caller owns, to a size other than 0; the caller lends it.
realloc(t, l, size) ==
    /\ l \in live
    /\ \A u \in Thread : old[u] # l.block
    /\ Request(t, size, size, l.block)

\* lock_acquire (&d->lock)
malloc_lock(t) ==
    /\ pc[t] = "lock"
    /\ lock[d[t]] = NULL
    /\ lock' = Set(lock, d[t], t)
    /\ pc' = Set(pc, t, "take")
    /\ UNCHANGED <<used, arena, free_list, d, b, want, old, live>>

\* The free list is empty: a new arena, or NULL if there is no page.
malloc_arena(t) ==
    /\ pc[t] = "take"
    /\ free_list[d[t]] = <<>>
    /\ \/ \E p \in Runs(1) :
            /\ used' = used \cup {p}
            /\ arena' = Set(arena, p, [desc |-> d[t], free_cnt |-> blocks_per_arena(d[t])])
            /\ free_list' = Set(free_list, d[t], Blocks(p, d[t]))
            /\ UNCHANGED <<lock, pc, d, want, old, live>>
       \/ /\ Runs(1) = {}
          /\ lock' = Set(lock, d[t], NULL)
          /\ GiveNull(t)
          /\ UNCHANGED <<used, arena, free_list>>
    /\ UNCHANGED b

\* A block from the front of the free list.
malloc_pop(t) ==
    LET x == Head(free_list[d[t]])
    IN  /\ pc[t] = "take"
        /\ free_list[d[t]] # <<>>
        /\ free_list' = [free_list EXCEPT ![d[t]] = Tail(@)]
        /\ arena' = [arena EXCEPT ![x.page].free_cnt = @ - 1]
        /\ lock' = Set(lock, d[t], NULL)
        /\ Give(t, x, want[t], old[t])
        /\ UNCHANGED <<used, b>>

\* Mutant: a big block gives back its first page only.
FreeOnePage(t, x) ==
    LET a == arena[x.page]
    IN  \/ /\ a.desc # NULL
           /\ d' = Set(d, t, a.desc)
           /\ b' = Set(b, t, x)
           /\ pc' = Set(pc, t, "free")
           /\ UNCHANGED <<used, arena>>
        \/ /\ a.desc = NULL
           /\ used' = used \ {x.page}
           /\ arena' = Set(arena, x.page, NULL)
           /\ pc' = Set(pc, t, "idle")
           /\ UNCHANGED <<d, b>>

\* free (X) up to lock_acquire; a big block's pages are freed at once.
FreeBlock(t, x) ==
    LET a == arena[x.page]
    IN  \/ /\ a.desc # NULL
           /\ d' = Set(d, t, a.desc)
           /\ b' = Set(b, t, x)
           /\ pc' = Set(pc, t, "free")
           /\ UNCHANGED <<used, arena>>
        \/ /\ a.desc = NULL
           /\ used' = used \ (x.page .. x.page + a.free_cnt - 1)
           /\ arena' = Set(arena, x.page, NULL)
           /\ pc' = Set(pc, t, "idle")
           /\ UNCHANGED <<d, b>>

free(t, l) ==
    /\ pc[t] = "idle"
    /\ l \in live
    /\ \A u \in Thread : old[u] # l.block
    /\ live' = live \ {l}
    /\ FreeBlock(t, l.block)
    /\ UNCHANGED <<free_list, lock, want, old>>

\* realloc has a new block: it copies as many bytes as both hold and frees the old.
realloc_free(t) ==
    /\ pc[t] = "copied"
    /\ live' = {l \in live : l.block # old[t]}
    /\ old' = Set(old, t, NULL)
    /\ FreeBlock(t, old[t])
    /\ UNCHANGED <<free_list, lock, want>>

free_lock(t) ==
    /\ pc[t] = "free"
    /\ lock[d[t]] = NULL
    /\ lock' = Set(lock, d[t], t)
    /\ pc' = Set(pc, t, "push")
    /\ UNCHANGED <<used, arena, free_list, d, b, want, old, live>>

\* The block goes to the front of the free list; an arena whose blocks are all free
\* goes back to the page allocator.
free_push(t) ==
    LET x == b[t]
        pushed == <<x>> \o free_list[d[t]]
        n == arena[x.page].free_cnt + 1
        Elsewhere(y) == y.page # x.page
    IN  /\ pc[t] = "push"
        /\ \/ /\ n < blocks_per_arena(d[t])
              /\ free_list' = Set(free_list, d[t], pushed)
              /\ arena' = [arena EXCEPT ![x.page].free_cnt = n]
              /\ UNCHANGED used
           \/ /\ n >= blocks_per_arena(d[t])
              /\ free_list' = Set(free_list, d[t], SelectSeq(pushed, Elsewhere))
              /\ arena' = Set(arena, x.page, NULL)
              /\ used' = used \ {x.page}
        /\ lock' = Set(lock, d[t], NULL)
        /\ pc' = Set(pc, t, "idle")
        /\ b' = Set(b, t, NULL)
        /\ d' = Set(d, t, 0)
        /\ UNCHANGED <<want, old, live>>

-----------------------------------------------------------------------------
Init ==
    /\ used = {}
    /\ arena = [p \in Page |-> NULL]
    /\ free_list = [i \in Desc |-> <<>>]
    /\ lock = [i \in Desc |-> NULL]
    /\ pc = [t \in Thread |-> "idle"]
    /\ d = [t \in Thread |-> 0]
    /\ b = [t \in Thread |-> NULL]
    /\ want = [t \in Thread |-> 0]
    /\ old = [t \in Thread |-> NULL]
    /\ live = {}

Step(t) ==
    \/ \E size \in Requests : malloc(t, size)
    \/ \E p \in Products : calloc(t, p[1], p[2])
    \/ \E l \in live, size \in Requests : realloc(t, l, size)
    \/ malloc_lock(t) \/ malloc_arena(t) \/ malloc_pop(t)
    \/ \E l \in live : free(t, l)
    \/ realloc_free(t) \/ free_lock(t) \/ free_push(t)

Next == \E t \in Thread : Step(t)

Spec == Init /\ [][Next]_vars

-----------------------------------------------------------------------------
(* Properties.                                                             *)

InList(x, i) == \E n \in 1 .. Len(free_list[i]) : free_list[i][n] = x

\* The blocks a call is putting back.
Returning == {b[t] : t \in {u \in Thread : pc[u] \in {"free", "push"}}}

\* The variables have their types.
TypeOK ==
    /\ used \subseteq Page
    /\ \A p \in Page : arena[p] = NULL \/ arena[p].desc \in Desc \cup {NULL}
    /\ \A i \in Desc : lock[i] \in Thread \cup {NULL}
    /\ pc \in [Thread -> {"idle", "lock", "take", "copied", "free", "push"}]
    /\ d \in [Thread -> Desc \cup {0}]
    /\ \A l \in live : l.block.page \in Page

\* The bytes of a block: its page and offset as an address.
Address(x) == x.page * PGSIZE + x.ofs
Apart(x, y, n, m) == Address(x) + n <= Address(y) \/ Address(y) + m <= Address(x)

\* Blocks that callers own never overlap, lie in pages the allocator got from palloc
\* and do not touch an arena header, whatever the order of mallocs and frees; they
\* have at least the bytes their callers asked for ("a new block of at least SIZE
\* bytes").
BlocksApart ==
    /\ TypeOK
    /\ \A l \in live :
           LET x == l.block
               n == Bytes(x)
           IN  /\ arena[x.page] # NULL
               /\ x.ofs >= Header /\ n >= l.want
               /\ \A i \in x.page .. (Address(x) + n - 1) \div PGSIZE :
                      i \in used /\ (i # x.page => arena[i] = NULL)
               /\ \A m \in live : m.block # x => Apart(x, m.block, n, Bytes(m.block))

\* No page is leaked: when no call is in progress, every page in use holds a block
\* that some caller owns.
NoLeak ==
    (\A t \in Thread : pc[t] = "idle") =>
        \A p \in used : \E l \in live :
            p \in l.block.page .. (Address(l.block) + Bytes(l.block) - 1) \div PGSIZE

\* free_cnt counts the arena's blocks on the free list; every other block of the
\* arena is owned by a caller or on its way back.  The assertions of free and of
\* block_to_arena follow.  And no page is leaked (NoLeak).
ArenasAccounted ==
    /\ \A i \in Desc : \A x \in ToSet(free_list[i]) :
           x.page \in used /\ arena[x.page] # NULL /\ arena[x.page].desc = i
    /\ \A p \in Page :
           arena[p] # NULL /\ arena[p].desc # NULL =>
               LET i == arena[p].desc
                   onlist == {n \in 1 .. blocks_per_arena(i) :
                                 InList(Block(p, i, n - 1), i)}
                   out == {x \in {l.block : l \in live} \cup Returning : x.page = p}
               IN  /\ arena[p].free_cnt = Cardinality(onlist)
                   /\ Cardinality(onlist) + Cardinality(out) = blocks_per_arena(i)
    /\ NoLeak

\* Both: what callers have and what the allocator believes they have agree.
HeapSound == BlocksApart /\ ArenasAccounted

=============================================================================
