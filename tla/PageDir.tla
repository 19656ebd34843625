------------------------------ MODULE PageDir -------------------------------
(***************************************************************************)
(* The page directories of userprog/pagedir.c.  A memory m has kernel      *)
(* pages (m.kpg) and user frames (m.frm); one that is free holds NULL.  A  *)
(* kernel page holds a directory or a page table, which is a function from *)
(* indexes to page tables or page table entries, NULL being the zero       *)
(* entry.  A user frame holds bytes.  Virtual addresses below PHYS_BASE    *)
(* are the user's; the directories' kernel part is the same everywhere and *)
(* is left out.                                                            *)
(***************************************************************************)
EXTENDS Integers, Sequences, SequencesExt, FiniteSetsExt, Pointers

CONSTANTS KPages, Frames,   \* the two pools, as sets of numbers
          PageBytes,        \* PGSIZE
          PtSize,           \* entries of a page table, 1024 in the code
          PdSize            \* entries of a directory below pd_no (PHYS_BASE)

ASSUME PageDirAssumption ==
    /\ KPages \subseteq Nat /\ Frames \subseteq Nat
    /\ {PageBytes, PtSize, PdSize} \subseteq Nat \ {0}

PHYS_BASE == PageBytes * PtSize * PdSize

is_user_vaddr(va) == va < PHYS_BASE

pg_ofs(va) == va % PageBytes
pg_round_down(va) == va - pg_ofs(va)
pg_round_up(va) == pg_round_down(va + PageBytes - 1)
pt_no(va) == (va \div PageBytes) % PtSize
pd_no(va) == va \div (PageBytes * PtSize)

UserPages == {PageBytes * i : i \in 0 .. PtSize * PdSize - 1}

\* The pools give the lowest free page.
LowestFree(pool) ==
    LET free == {p \in DOMAIN pool : pool[p] = NULL} IN IF free = {} THEN NULL ELSE Min(free)

Zeros == [i \in 0 .. PageBytes - 1 |-> 0]

pte_create_user(frame, w) == [frame |-> frame, p |-> TRUE, w |-> w, a |-> FALSE, d |-> FALSE]

-----------------------------------------------------------------------------
pagedir_create(m) ==
    LET pd == LowestFree(m.kpg)
    IN  [pd |-> pd,
         m |-> IF pd = NULL THEN m
               ELSE [m EXCEPT !.kpg[pd] = [i \in 0 .. PdSize - 1 |-> NULL]]]

\* The page table for va, created if asked for; NULL if there is none.
lookup_page(m, pd, va, create) ==
    LET pt == m.kpg[pd][pd_no(va)]
        new == LowestFree(m.kpg)
    IN  IF pt # NULL \/ ~create \/ new = NULL THEN [pt |-> pt, m |-> m]
        ELSE [pt |-> new, m |-> [m EXCEPT !.kpg[new] = [i \in 0 .. PtSize - 1 |-> NULL],
                                          !.kpg[pd][pd_no(va)] = new]]

\* *pte, or NULL where there is no page table.
Entry(m, pd, va) ==
    LET pt == lookup_page(m, pd, va, FALSE).pt IN IF pt = NULL THEN NULL ELSE m.kpg[pt][pt_no(va)]

Present(m, pd, va) == Entry(m, pd, va) # NULL /\ Entry(m, pd, va).p

\* *pte with one field set.
SetEntry(m, pd, va, pte) == [m EXCEPT !.kpg[m.kpg[pd][pd_no(va)]][pt_no(va)] = pte]

pagedir_set_page(m, pd, upage, frame, w) ==
    LET l == lookup_page(m, pd, upage, TRUE)
    IN  IF l.pt = NULL THEN [ok |-> FALSE, m |-> l.m]
        ELSE [ok |-> TRUE, m |-> SetEntry(l.m, pd, upage, pte_create_user(frame, w))]

pagedir_get_page(m, pd, va) == IF Present(m, pd, va) THEN Entry(m, pd, va).frame ELSE NULL

\* Only whether there is a page table.
pagedir_is_mapped(m, pd, va) == lookup_page(m, pd, va, FALSE).pt # NULL

\* Mutant: the page tables are not given back.
pagedir_destroy_leaky(m, pd) ==
    LET pts == {m.kpg[pd][i] : i \in 0 .. PdSize - 1} \ {NULL}
        ptes == {m.kpg[pt][i] : pt \in pts, i \in 0 .. PtSize - 1} \ {NULL}
        frames == {e.frame : e \in {x \in ptes : x.p}}
    IN  [m EXCEPT !.kpg[pd] = NULL, !.frm = [f \in Frames |-> IF f \in frames THEN NULL ELSE @[f]]]

\* The frames that are present, the page tables and the directory.
pagedir_destroy(m, pd) ==
    LET pts == {m.kpg[pd][i] : i \in 0 .. PdSize - 1} \ {NULL}
        ptes == {m.kpg[pt][i] : pt \in pts, i \in 0 .. PtSize - 1} \ {NULL}
        frames == {e.frame : e \in {x \in ptes : x.p}}
    IN  [m EXCEPT !.kpg = [k \in KPages |-> IF k \in pts \cup {pd} THEN NULL ELSE @[k]],
                  !.frm = [f \in Frames |-> IF f \in frames THEN NULL ELSE @[f]]]

\* install_page (process.c) in the directory of the running process.
install_page(m, pd, upage, frame, w) ==
    IF pagedir_get_page(m, pd, upage) # NULL THEN [ok |-> FALSE, m |-> m]
    ELSE pagedir_set_page(m, pd, upage, frame, w)

\* A user frame filled with DATA and installed, or given back; NULL if there is none.
PageIn(m, pd, upage, data, w) ==
    LET frame == LowestFree(m.frm)
        r == install_page([m EXCEPT !.frm[frame] = data], pd, upage, frame, w)
    IN  IF frame = NULL THEN [ok |-> FALSE, m |-> m]
        ELSE IF r.ok THEN r
        ELSE [ok |-> FALSE, m |-> [r.m EXCEPT !.frm[frame] = NULL]]

=============================================================================
