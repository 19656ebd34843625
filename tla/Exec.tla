-------------------------------- MODULE Exec --------------------------------
(***************************************************************************)
(* Loading a program: load of userprog/process.c with its helpers, from    *)
(* the page directory to the arguments on the stack.  An executable is a   *)
(* record: whether its header is accepted, its program headers (NULL for   *)
(* one that cannot be read) and its bytes; NULL stands for one that is not *)
(* there.  A command line is the sequence of its words, as strtok_r gives  *)
(* them, at least one.  The small blocks load takes are taken to be there. *)
(***************************************************************************)
EXTENDS Integers, Sequences, SequencesExt, FiniteSetsExt, Pointers

CONSTANTS LoadPages,    \* kernel pages and
          LoadFrames,   \* user frames there are
          PG,           \* PGSIZE
          PTS, PDS,     \* entries of page tables and of directories
          AddrSpan,     \* 2^32
          WordSize      \* bytes of a word, 4

Mem == INSTANCE PageDir WITH
           KPages <- LoadPages, Frames <- LoadFrames, PageBytes <- PG, PtSize <- PTS, PdSize <- PDS

TOP == Mem!PHYS_BASE

NoMemoryInUse == [kpg |-> [k \in LoadPages |-> NULL], frm |-> [f \in LoadFrames |-> NULL]]

-----------------------------------------------------------------------------

validate_segment(ph, len) ==
    LET end == (ph.vaddr + ph.memsz) % AddrSpan
    IN  /\ ph.offset % PG = ph.vaddr % PG
        /\ ph.offset <= len
        /\ ph.memsz >= ph.filesz
        /\ ph.memsz # 0
        /\ Mem!is_user_vaddr(ph.vaddr) /\ Mem!is_user_vaddr(end)
        /\ end >= ph.vaddr
        /\ ph.vaddr >= PG

\* READ bytes from offset OFS of the file, then ZERO zero bytes, from UPAGE on.
RECURSIVE load_segment(_, _, _, _, _, _, _, _)
load_segment(m, pd, bytes, ofs, upage, read, zero, w) ==
    LET n == Min({read, PG})
        data == [i \in 0 .. PG - 1 |-> IF i < n THEN bytes[ofs + i + 1] ELSE 0]
        r == Mem!PageIn(m, pd, upage, data, w)
    IN  IF read = 0 /\ zero = 0 THEN [ok |-> TRUE, m |-> m]
        ELSE IF Mem!LowestFree(m.frm) = NULL \/ ofs + n > Len(bytes) THEN [ok |-> FALSE, m |-> m]
        ELSE IF ~r.ok THEN r
        ELSE load_segment(r.m, pd, bytes, ofs + n, upage + PG, read - n, zero - (PG - n), w)

\* A PT_LOAD header: what to read and what to zero.
LoadHeader(m, pd, ph, bytes) ==
    LET page_offset == Mem!pg_ofs(ph.vaddr)
        read == IF ph.filesz > 0 THEN page_offset + ph.filesz ELSE 0
        zero == Mem!pg_round_up(page_offset + ph.memsz) - read
    IN  IF ~validate_segment(ph, Len(bytes)) THEN [ok |-> FALSE, m |-> m]
        ELSE load_segment(m, pd, bytes, Mem!pg_round_down(ph.offset),
                          Mem!pg_round_down(ph.vaddr), read, zero, ph.w)

\* The loop over the program headers.
LoadHeaders(m, pd, exe) ==
    LET step(r, ph) ==
            IF ~r.ok THEN r
            ELSE IF ph = NULL THEN [r EXCEPT !.ok = FALSE]
            ELSE CASE ph.type \in {"DYNAMIC", "INTERP", "SHLIB"} -> [r EXCEPT !.ok = FALSE]
                   [] ph.type = "LOAD" -> LoadHeader(r.m, pd, ph, exe.bytes)
                   [] OTHER -> r
    IN  FoldLeft(step, [ok |-> TRUE, m |-> m], exe.phdrs)

setup_stack(m, pd) == Mem!PageIn(m, pd, TOP - PG, Mem!Zeros, TRUE)

-----------------------------------------------------------------------------
\* The kernel writes through the process's directory; a page that is not there is a
\* fault in the kernel, which panics.
Push(s, pd, data) ==
    LET at == s.esp - Len(data)
        put(m, i) == LET f == Mem!pagedir_get_page(m, pd, at + i)
                     IN  [m EXCEPT !.frm[f][Mem!pg_ofs(at + i)] = data[i + 1]]
        there == \A i \in 0 .. Len(data) - 1 : at + i >= 0 /\ Mem!Present(s.m, pd, at + i)
    IN  IF s.panic \/ ~there THEN [s EXCEPT !.panic = TRUE]
        ELSE [s EXCEPT !.esp = at, !.m = FoldLeft(put, @, [i \in 1 .. Len(data) |-> i - 1])]

WordOf(v) == [i \in 1 .. WordSize |-> (v \div 256^(i - 1)) % 256]

\* The strings, last one first; a byte; a null pointer; the addresses of the strings,
\* last one first; argv; argc; a return address.
construct_ESP(m, pd, argv) ==
    LET down == Reverse(argv)
        strings == FoldLeft(LAMBDA s, a : Append(s, s[Len(s)] - Len(a) - 1), <<TOP>>, down)
        addr == Tail(strings)
        data == [i \in DOMAIN down |-> Append(down[i], 0)]
                    \o <<<<0>>, WordOf(0)>>
                    \o [i \in DOMAIN addr |-> WordOf(addr[i])]
                    \o <<WordOf(Last(strings) - 1 - WordSize * (1 + Len(argv))),
                         WordOf(Len(argv)), WordOf(0)>>
    IN  FoldLeft(LAMBDA s, d : Push(s, pd, d), [m |-> m, esp |-> TOP, panic |-> FALSE], data)

\* The end of load.
Done(status, m, pd, esp) == [status |-> status, m |-> m, pd |-> pd, esp |-> esp]

\* The rest of load: after construct_ESP gave E, after setup_stack gave S, after the
\* loop over the headers gave H, and after pagedir_create gave C.
LoadEnds(e, pd) == Done(IF e.panic THEN "panic" ELSE "loaded", e.m, pd, e.esp)

LoadArguments(s, pd, argv) ==
    IF s.ok THEN LoadEnds(construct_ESP(s.m, pd, argv), pd) ELSE Done("failed", s.m, pd, 0)

LoadStack(h, pd, argv) ==
    IF h.ok THEN LoadArguments(setup_stack(h.m, pd), pd, argv) ELSE Done("failed", h.m, pd, 0)

\* At the label done, file_deny_write asserts that there is a file.
LoadFile(c, exe, argv) ==
    IF c.pd = NULL \/ exe = NULL THEN Done("panic", c.m, c.pd, 0)
    ELSE IF ~exe.header THEN Done("failed", c.m, c.pd, 0)
    ELSE LoadStack(LoadHeaders(c.m, c.pd, exe), c.pd, argv)

load(m, exe, argv) == LoadFile(Mem!pagedir_create(m), exe, argv)

-----------------------------------------------------------------------------
(* What a loaded program finds.                                            *)

Byte(r, va) == r.m.frm[Mem!pagedir_get_page(r.m, r.pd, va)][Mem!pg_ofs(va)]

WordAt(r, va) ==
    FoldLeft(LAMBDA v, i : v * 256 + Byte(r, va + WordSize - i), 0, [i \in 1 .. WordSize |-> i])

RECURSIVE StringAt(_, _)
StringAt(r, va) == IF Byte(r, va) = 0 THEN <<>> ELSE <<Byte(r, va)>> \o StringAt(r, va + 1)

\* A word of the running program's stack that a system call looks at.
check_address(r, a) == a < TOP /\ Mem!pagedir_is_mapped(r.m, r.pd, a) /\ a # 0

\* The words FIRST to LAST above ESP: how reading them ends, and what was read.
StackWords(r, esp, first, last) ==
    LET step(s, i) ==
            LET a == esp + WordSize * (first + i - 1)
            IN  IF s.end # "read" THEN s
                ELSE IF ~check_address(r, a) THEN [s EXCEPT !.end = "terminated"]
                ELSE IF ~Mem!Present(r.m, r.pd, a) THEN [s EXCEPT !.end = "panic"]
                ELSE [s EXCEPT !.argv = Append(@, WordAt(r, a))]
    IN  FoldLeft(step, [end |-> "read", argv |-> <<>>], [i \in 1 .. last - first + 1 |-> i])

get_argv(r, esp, n) == StackWords(r, esp, 1, n)

\* The number, then the N arguments it takes.
syscall_handler(r, esp, n) ==
    LET number == StackWords(r, esp, 0, 0)
    IN  IF number.end # "read" THEN number ELSE get_argv(r, esp, n)

RECURSIVE fibonacci_from(_, _, _, _)
fibonacci_from(i, n, a1, a2) ==
    IF i > n THEN a1
    ELSE IF i = n THEN a1 + a2
    ELSE fibonacci_from(i + 1, n, a2, a1 + a2)

sys_fibonacci(n) == IF n = 0 THEN 0 ELSE IF n = 1 THEN 1 ELSE fibonacci_from(2, n, 0, 1)

-----------------------------------------------------------------------------
Segments(exe) == SelectSeq(exe.phdrs, LAMBDA ph : ph # NULL /\ ph.type = "LOAD")

PagesOf(ph) == {v \in Mem!UserPages : v + PG > ph.vaddr /\ v < ph.vaddr + ph.memsz}

\* main's arguments are where the calling convention has them: argc, argv and the
\* strings it points to, then a null pointer; nothing of it overlaps.
ArgumentsFound(r, argv) ==
    LET table == WordAt(r, r.esp + 2 * WordSize)
    IN  /\ WordAt(r, r.esp + WordSize) = Len(argv)
        /\ \A i \in DOMAIN argv : StringAt(r, WordAt(r, table + WordSize * (i - 1))) = argv[i]
        /\ WordAt(r, table + WordSize * Len(argv)) = 0

\* Wherever its stack pointer is, a program that calls the kernel is terminated if it
\* points to the null pointer, to the kernel or to where there is no page table; and
\* what is read from pages that are there is what the program put there.
CallsRead(r, n) ==
    \A esp \in {WordSize * i : i \in 0 .. TOP \div WordSize} :
        LET c == syscall_handler(r, esp, n)
            words == {esp + WordSize * i : i \in 0 .. n}
            bad == {a \in words : a = 0 \/ a >= TOP \/ r.m.kpg[r.pd][Mem!pd_no(a)] = NULL}
        IN  /\ (\A a \in words \ bad : Mem!Present(r.m, r.pd, a)) =>
                   c.end = IF bad = {} THEN "read" ELSE "terminated"
            /\ c.end = "read" => c.argv = [i \in 1 .. n |-> WordAt(r, esp + WordSize * i)]

\* Each segment is in memory: its bytes of the file, then zeros, writable if the
\* program header says so.
SegmentFound(r, ph, bytes) ==
    /\ \A i \in 0 .. ph.memsz - 1 :
           Byte(r, ph.vaddr + i) = IF i < ph.filesz THEN bytes[ph.offset + i + 1] ELSE 0
    /\ \A v \in PagesOf(ph) : Mem!Entry(r.m, r.pd, v).w = ph.w

\* The executables that can be loaded: segments between the first page and the end of
\* user memory, with their bytes in the file, no two in one page, none in the stack's
\* page, in as many pages as there are.
Loadable(exe) ==
    LET segs == Segments(exe)
        pages == UNION {PagesOf(segs[i]) : i \in DOMAIN segs} \cup {TOP - PG}
    IN  /\ exe.header
        /\ \A i \in DOMAIN exe.phdrs :
               exe.phdrs[i] # NULL /\ exe.phdrs[i].type \notin {"DYNAMIC", "INTERP", "SHLIB"}
        /\ \A i \in DOMAIN segs :
               LET ph == segs[i]
               IN  /\ ph.vaddr >= PG /\ ph.vaddr + ph.memsz < TOP
                   /\ ph.offset % PG = ph.vaddr % PG
                   /\ ph.memsz >= ph.filesz /\ ph.memsz > 0
                   /\ ph.offset + ph.filesz <= Len(exe.bytes)
                   /\ \A j \in 1 .. i - 1 : PagesOf(ph) \cap PagesOf(segs[j]) = {}
                   /\ TOP - PG \notin PagesOf(ph)
        /\ Cardinality(pages) <= Cardinality(LoadFrames)
        /\ 1 + Cardinality({Mem!pd_no(v) : v \in pages}) <= Cardinality(LoadPages)

StackNeeded(argv) ==
    FoldLeft(LAMBDA n, a : n + Len(a) + 1 + WordSize, 1 + 4 * WordSize, argv)

\* What load returned, R, is right for EXE and ARGV.
LoadedRight(r, exe, argv) ==
    /\ r.status = IF exe = NULL THEN "panic" ELSE IF ~Loadable(exe) THEN "failed"
                  ELSE IF StackNeeded(argv) > PG THEN "panic" ELSE "loaded"
    /\ r.status = "loaded" =>
           /\ \A i \in DOMAIN Segments(exe) : SegmentFound(r, Segments(exe)[i], exe.bytes)
           /\ ArgumentsFound(r, argv)
           /\ \A n \in 0 .. 3 : CallsRead(r, n)
    /\ r.status # "panic" => Mem!pagedir_destroy(r.m, r.pd) = NoMemoryInUse

\* load succeeds for the loadable executables, and then the program finds its segments
\* and its arguments and can pass arguments to the kernel; otherwise it fails, and
\* process_exit leaves no page in use.
LoadsExactly(exe, argv) == LoadedRight(load(NoMemoryInUse, exe, argv), exe, argv)

\* Every Fibonacci number is the sum of the two before it.
Fibonacci(n) ==
    sys_fibonacci(n) = IF n < 2 THEN n ELSE sys_fibonacci(n - 1) + sys_fibonacci(n - 2)

=============================================================================
