---------------------------- MODULE AddressSpace ----------------------------
(***************************************************************************)
(* Processes, their page directories and the processor.  The processor     *)
(* keeps translations it has used (tlb) until the directory register is    *)
(* loaded; a write through a translation that is marked dirty leaves the   *)
(* page table alone.  Processes are switched at any moment, also between   *)
(* the steps of process_exit.  Page faults run stack_allocate and          *)
(* handle_mm_fault of userprog/exception.c, whose stack_page is one        *)
(* counter for all processes.                                              *)
(***************************************************************************)
EXTENDS PageDir

CONSTANTS Proc,
          StackLimit   \* bytes of stack that may be grown, 8 MB in the code

ASSUME AddressSpaceAssumption == StackLimit \in 0 .. PHYS_BASE /\ NULL \notin Proc

VARIABLES mm,          \* the memory
          pagedir,     \* of each process
          pd_local,    \* the directory process_exit is about to destroy
          state,       \* of each process: none, live, exit1, exit2
          running,     \* the process that has the processor, or NULL
          cr3,         \* the directory register, NULL for init_page_dir
          tlb,         \* the translations in use: page to frame, w and d
          stack_page,  \* pages of stack, counted over all processes
          unmapped     \* history: frames handle_mm_fault took and dropped

spaceVars == <<mm, pagedir, pd_local, state, running, cr3, tlb, stack_page, unmapped>>

Absent == [frame |-> NULL, p |-> FALSE, w |-> FALSE, a |-> FALSE, d |-> FALSE]

NoTlb == [v \in UserPages |-> NULL]

pagedir_activate(pd) == cr3' = pd /\ tlb' = NoTlb

\* The translations are dropped if they are of this directory.
invalidate_pagedir(pd) ==
    IF cr3 = pd THEN pagedir_activate(pd) ELSE UNCHANGED <<cr3, tlb>>

Running(s) == running # NULL /\ state[running] = s

Unused == <<pagedir, pd_local, state, running, stack_page, unmapped>>

-----------------------------------------------------------------------------
SpaceInit ==
    /\ mm = [kpg |-> [k \in KPages |-> NULL], frm |-> [f \in Frames |-> NULL]]
    /\ pagedir = [p \in Proc |-> NULL] /\ pd_local = [p \in Proc |-> NULL]
    /\ state = [p \in Proc |-> "none"]
    /\ running = NULL /\ cr3 = NULL /\ tlb = NoTlb
    /\ stack_page = 1 /\ unmapped = {}

\* schedule: the processor goes to another process.
process_activate(p) ==
    /\ p # running
    /\ running' = p
    /\ pagedir_activate(pagedir[p])
    /\ UNCHANGED <<mm, pagedir, pd_local, state, stack_page, unmapped>>

\* The beginning of load, in a new process.  Without a directory load ends in a failed
\* assertion, and the kernel with it.
Create ==
    LET r == pagedir_create(mm)
    IN  /\ Running("none") /\ r.pd # NULL
        /\ mm' = r.m
        /\ pagedir' = [pagedir EXCEPT ![running] = r.pd]
        /\ state' = [state EXCEPT ![running] = "live"]
        /\ pagedir_activate(r.pd)
        /\ UNCHANGED <<pd_local, running, stack_page, unmapped>>

\* load_segment and setup_stack, a page at a time.
MapPage(upage, w) ==
    /\ Running("live")
    /\ mm' = PageIn(mm, pagedir[running], upage, Zeros, w).m
    /\ UNCHANGED <<cr3, tlb>> /\ UNCHANGED Unused

\* The processor translates an access of the running program; the page table entry
\* gets its accessed bit when the translation is loaded and its dirty bit when a
\* translation that is not marked dirty is written through.
Access(v, write) ==
    LET pte == Entry(mm, cr3, v)
        hit == tlb[v] # NULL /\ (write => tlb[v].w /\ tlb[v].d)
    IN  /\ Running("live") /\ cr3 # NULL
        /\ tlb[v] # NULL \/ (pte # NULL /\ pte.p)
        /\ write => (IF tlb[v] # NULL THEN tlb[v].w ELSE pte.w)
        /\ IF hit THEN UNCHANGED <<mm, tlb>>
           ELSE /\ mm' = IF pte = NULL THEN mm
                         ELSE SetEntry(mm, cr3, v, [pte EXCEPT !.a = TRUE, !.d = @ \/ write])
                /\ tlb' = [tlb EXCEPT ![v] = IF @ # NULL THEN [@ EXCEPT !.d = @ \/ write]
                                             ELSE [frame |-> pte.frame, w |-> pte.w, d |-> pte.d \/ write]]
        /\ UNCHANGED cr3 /\ UNCHANGED Unused

\* A page is taken from a process and its frame given back.  The other bits of the
\* entry are kept in the code; nothing looks at them while it is not present.
pagedir_clear_page(p, v) ==
    LET pd == pagedir[p]
    IN  /\ state[p] = "live" /\ Present(mm, pd, v)
        /\ mm' = [SetEntry(mm, pd, v, Absent)
                      EXCEPT !.frm[Entry(mm, pd, v).frame] = NULL]
        /\ invalidate_pagedir(pd)
        /\ UNCHANGED Unused

\* Mutant: the translations are kept.
pagedir_set_dirty_stale(p, v, dirty) ==
    LET pd == pagedir[p]
    IN  /\ state[p] = "live" /\ Present(mm, pd, v)
        /\ mm' = SetEntry(mm, pd, v, [Entry(mm, pd, v) EXCEPT !.d = dirty])
        /\ UNCHANGED <<cr3, tlb>> /\ UNCHANGED Unused

pagedir_set_dirty(p, v, dirty) ==
    LET pd == pagedir[p]
    IN  /\ state[p] = "live" /\ Present(mm, pd, v)
        /\ mm' = SetEntry(mm, pd, v, [Entry(mm, pd, v) EXCEPT !.d = dirty])
        /\ IF dirty THEN UNCHANGED <<cr3, tlb>> ELSE invalidate_pagedir(pd)
        /\ UNCHANGED Unused

pagedir_set_accessed(p, v, accessed) ==
    LET pd == pagedir[p]
    IN  /\ state[p] = "live" /\ Present(mm, pd, v)
        /\ mm' = SetEntry(mm, pd, v, [Entry(mm, pd, v) EXCEPT !.a = accessed])
        /\ IF accessed THEN UNCHANGED <<cr3, tlb>> ELSE invalidate_pagedir(pd)
        /\ UNCHANGED Unused

-----------------------------------------------------------------------------
(* process_exit: the pointer first, then the register, then the directory. *)

ExitBegin ==
    /\ Running("live")
    /\ pd_local' = [pd_local EXCEPT ![running] = pagedir[running]]
    /\ pagedir' = [pagedir EXCEPT ![running] = NULL]
    /\ state' = [state EXCEPT ![running] = "exit1"]
    /\ UNCHANGED <<mm, running, cr3, tlb, stack_page, unmapped>>

ExitActivate ==
    /\ Running("exit1")
    /\ pagedir_activate(NULL)
    /\ state' = [state EXCEPT ![running] = "exit2"]
    /\ UNCHANGED <<mm, pagedir, pd_local, running, stack_page, unmapped>>

ExitDestroy ==
    /\ Running("exit2")
    /\ mm' = pagedir_destroy(mm, pd_local[running])
    /\ pd_local' = [pd_local EXCEPT ![running] = NULL]
    /\ state' = [state EXCEPT ![running] = "none"]
    /\ UNCHANGED <<pagedir, running, cr3, tlb, stack_page, unmapped>>

-----------------------------------------------------------------------------
(* Page faults: an access that has no translation, or a write to a page    *)
(* that is read-only.                                                      *)

stack_growable(esp) == esp <= PHYS_BASE - stack_page * PageBytes /\ esp >= PHYS_BASE - StackLimit

\* The number of pages stack_allocate tries to add.
page_allocs(esp) == (PHYS_BASE - stack_page * PageBytes - esp + PageBytes - 1) % PageBytes

\* The memory and stack_page after N more pages of stack.
RECURSIVE stack_allocate(_, _, _)
stack_allocate(m, sp, n) ==
    LET r == PageIn(m, pagedir[running], PHYS_BASE - sp * PageBytes - PageBytes, Zeros, TRUE)
    IN  IF n = 0 THEN [m |-> m, sp |-> sp]
        ELSE stack_allocate(r.m, IF r.ok THEN sp + 1 ELSE sp, n - 1)

\* A frame is taken and not used.
handle_mm_fault ==
    LET frame == LowestFree(mm.frm)
    IN  /\ mm' = IF frame = NULL THEN mm ELSE [mm EXCEPT !.frm[frame] = Zeros]
        /\ unmapped' = unmapped \cup ({frame} \ {NULL})
        /\ UNCHANGED stack_page

\* The pages a fault may add lie in the address space.
Room(esp) == PHYS_BASE >= (stack_page + page_allocs(esp)) * PageBytes

page_fault(v, write, esp) ==
    LET not_present == tlb[v] = NULL /\ ~Present(mm, pagedir[running], v)
        grown == stack_allocate(mm, stack_page, page_allocs(esp))
    IN  /\ Running("live")
        /\ not_present \/ (write /\ ~not_present /\ ~Entry(mm, pagedir[running], v).w)
        /\ \/ /\ not_present /\ write /\ stack_growable(esp) /\ Room(esp)
              /\ mm' = grown.m /\ stack_page' = grown.sp
              /\ UNCHANGED <<pagedir, pd_local, state, running, cr3, tlb, unmapped>>
           \/ /\ not_present /\ write /\ ~stack_growable(esp)
              /\ handle_mm_fault
              /\ UNCHANGED <<pagedir, pd_local, state, running, cr3, tlb>>
           \/ ~(not_present /\ write) /\ ExitBegin

-----------------------------------------------------------------------------
SpaceNext ==
    \/ Create \/ ExitBegin \/ ExitActivate \/ ExitDestroy
    \/ \E p \in Proc : process_activate(p)
    \/ \E v \in UserPages :
          \/ \E b \in BOOLEAN : MapPage(v, b) \/ Access(v, b)
          \/ \E b \in BOOLEAN, esp \in 0 .. PHYS_BASE : page_fault(v, b, esp)
          \/ \E p \in Proc :
                \/ pagedir_clear_page(p, v)
                \/ \E b \in BOOLEAN : pagedir_set_dirty(p, v, b) \/ pagedir_set_accessed(p, v, b)

-----------------------------------------------------------------------------
(* Properties.                                                             *)

Directories == ({pagedir[p] : p \in Proc} \cup {pd_local[p] : p \in Proc}) \ {NULL}

\* The slots of directories that hold a page table, and those of page tables that
\* hold a page that is present.
Tables == {s \in Directories \X (0 .. PdSize - 1) : mm.kpg[s[1]][s[2]] # NULL}
Mapped == {s \in Directories \X UserPages : Present(mm, s[1], s[2])}

\* Pages are neither shared nor lost: every kernel page in use is one process's
\* directory or one page table of one directory; every frame in use is present in one
\* place, or is one that handle_mm_fault dropped.  So process_exit gives back all of
\* its process and nothing of another, whenever it is interrupted.
SpacesAccounted ==
    LET tables == {mm.kpg[s[1]][s[2]] : s \in Tables}
        frames == {Entry(mm, s[1], s[2]).frame : s \in Mapped}
    IN  /\ {k \in KPages : mm.kpg[k] # NULL} = Directories \cup tables
        /\ Cardinality(tables) = Cardinality(Tables) /\ Directories \cap tables = {}
        /\ {f \in Frames : mm.frm[f] # NULL} = frames \cup unmapped
        /\ Cardinality(frames) = Cardinality(Mapped) /\ frames \cap unmapped = {}

\* The processor never works with what is no longer so: the directory register holds a
\* directory that has not been freed, the running process's own, and a translation it
\* keeps agrees with the page table, so that no write goes to a page taken away and no
\* write is missing from a dirty bit that was cleared.
TranslationsFresh ==
    /\ cr3 # NULL => running # NULL /\ cr3 \in {pagedir[running], pd_local[running]}
    /\ \A v \in UserPages :
          tlb[v] # NULL =>
              /\ cr3 # NULL /\ Present(mm, cr3, v)
              /\ LET pte == Entry(mm, cr3, v)
                 IN  tlb[v].frame = pte.frame /\ tlb[v].w = pte.w /\ pte.a /\ (tlb[v].d => pte.d)

=============================================================================
