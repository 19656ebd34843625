-------------------------------- MODULE Files --------------------------------
(***************************************************************************)
(* The file calls of one process, from load to thread_exit, down to the    *)
(* sectors of the disk: descriptors (userprog/syscall.c), open files with  *)
(* their positions (filesys/file.c), reading and writing an inode sector   *)
(* by sector through a bounce buffer (filesys/inode.c), and the partition  *)
(* the sectors are in (Partitions).  files_table grows by Chunk entries    *)
(* (20 in the code) when the next descriptor needs them, and descriptors   *)
(* are never used again.  Files are numbered in the order they are opened; *)
(* file 0 is file_cur, the executable.                                     *)
(***************************************************************************)
EXTENDS Partitions, FiniteSets, FiniteSetsExt

CONSTANTS File, Exec,     \* the files on the disk, by inode; the executable
          Start, Length,  \* of each: first sector in the partition, length in bytes
          SectorSize, NULL, GARBAGE, Chunk,
          Buffers,        \* what the process writes
          Sizes,          \* sizes it reads, as off_t
          Positions,      \* positions it seeks to, as off_t
          MaxFd,          \* bound on the descriptors
          LowMemory       \* whether memory may run out

ASSUME FilesAssumption ==
    /\ Exec \in File /\ NULL \notin Int /\ GARBAGE \notin Int /\ NULL # GARBAGE
    /\ SectorSize \in Nat \ {0} /\ Chunk \in Nat \ {0} /\ MaxFd \in Nat
    /\ LowMemory \in BOOLEAN

VARIABLES fd,           \* the last descriptor, 1 if there is none
          size,         \* entries that files_table has memory for
          files_table,  \* its entries; GARBAGE where nothing was stored
          files,        \* the open files: inode, position, deny_write; NULL if freed
          open_cnt, deny_write_cnt,  \* of each inode
          medium,       \* the bytes of each sector of the disk
          ret           \* eax and the bytes in the buffer after the last call

tableVars == <<fd, size, files_table>>
fileVars == <<files, open_cnt, deny_write_cnt>>
vars == <<bootVars, state, tableVars, fileVars, medium, ret>>

fdtable_idx(f) == f - 2
fdtable_size(f) == f - 1

\* A descriptor the process may have, and the file it stands for.
Valid(f) == f <= fd /\ f > 1
file_of(f) == files_table[fdtable_idx(f)]

Return(n, bytes) == ret' = [eax |-> n, got |-> bytes]

-----------------------------------------------------------------------------
(* inode.c and file.c                                                      *)

sector_ofs(ofs) == ofs % SectorSize

byte_to_sector(i, pos) == Start[i] + pos \div SectorSize

\* Mutant: what is left of the file does not count.
chunk_past_end(i, left, ofs) == Min({left, SectorSize - sector_ofs(ofs)})

\* Bytes that one turn of the loops moves.
chunk_size(i, left, ofs) == Min({left, Length[i] - ofs, SectorSize - sector_ofs(ofs)})

\* A turn that moves a whole sector needs no bounce buffer.
direct(ofs, n) == sector_ofs(ofs) = 0 /\ n = SectorSize

\* inode_read_at: the bytes it reads; mem says whether malloc has a bounce buffer.
RECURSIVE inode_read_at(_, _, _, _)
inode_read_at(i, left, ofs, mem) ==
    LET n == chunk_size(i, left, ofs)
    IN  IF n <= 0 \/ ~(direct(ofs, n) \/ mem) THEN <<>>
        ELSE LET sector == medium[partition_sector(byte_to_sector(i, ofs))]
             IN  [k \in 1 .. n |-> sector[sector_ofs(ofs) + k - 1]]
                 \o inode_read_at(i, left - n, ofs + n, mem)

\* Mutant: the rest of a sector is lost when a part of it is written.
bounce_zeros(old, ofs, n) == [b \in DOMAIN old |-> 0]

\* What the bounce buffer has before the new bytes are copied into it.
bounce(old, ofs, n) ==
    IF sector_ofs(ofs) > 0 \/ n < SectorSize - sector_ofs(ofs)
    THEN old ELSE [b \in DOMAIN old |-> 0]

\* A sector after one turn of inode_write_at.
written(old, data, ofs, n) ==
    LET under == IF direct(ofs, n) THEN old ELSE bounce(old, ofs, n)
    IN  [b \in DOMAIN old |-> LET k == b - sector_ofs(ofs)
                              IN  IF k \in 0 .. n - 1 THEN data[k + 1] ELSE under[b]]

\* The loop of inode_write_at: the disk afterwards, and the bytes that were written.
RECURSIVE write_loop(_, _, _, _, _, _)
write_loop(i, data, ofs, mem, disk, done) ==
    LET n == chunk_size(i, Len(data), ofs)
        s == partition_sector(byte_to_sector(i, ofs))
    IN  IF n <= 0 \/ ~(direct(ofs, n) \/ mem) THEN [disk |-> disk, bytes |-> done]
        ELSE write_loop(i, SubSeq(data, n + 1, Len(data)), ofs + n, mem,
                        [disk EXCEPT ![s] = written(@, data, ofs, n)], done + n)

\* inode_write_at
inode_write_at(i, data, ofs, mem) ==
    IF deny_write_cnt[i] > 0 THEN [disk |-> medium, bytes |-> 0]
    ELSE write_loop(i, data, ofs, mem, medium, 0)

\* file_close of several files: file_allow_write and inode_close for each.
file_close(closed) ==
    /\ files' = [n \in DOMAIN files |-> IF n \in closed THEN NULL ELSE files[n]]
    /\ open_cnt' = [i \in File |->
           open_cnt[i] - Cardinality({n \in closed : files[n].inode = i})]
    /\ deny_write_cnt' = [i \in File |->
           deny_write_cnt[i] - Cardinality({n \in closed : files[n].inode = i /\ files[n].deny})]

\* file_open, for an inode that inode_open has found or read.
file_open(n, i) ==
    /\ files' = [files EXCEPT ![n] = [inode |-> i, pos |-> 0, deny |-> FALSE]]
    /\ open_cnt' = [open_cnt EXCEPT ![i] = @ + 1]
    /\ UNCHANGED deny_write_cnt

-----------------------------------------------------------------------------
(* syscall.c                                                               *)

\* The entries of the table when descriptor f needs memory.
realloc(f) == fdtable_size(f) + Chunk

\* sys_open, when filesys_open returns a file.
sys_open(i) ==
    /\ state = "run" /\ fd < MaxFd
    /\ fd' = fd + 1
    /\ size' = IF (fd' - 2) % Chunk = 0 THEN realloc(fd') ELSE size
    /\ files_table' = [files_table EXCEPT ![fdtable_idx(fd')] = fdtable_size(fd')]
    /\ file_open(fdtable_size(fd'), i)
    /\ Return(fd', <<>>)
    /\ UNCHANGED <<bootVars, state, medium>>

\* realloc returns a null pointer, which sys_open stores the file through.
sys_open_null_table(i) ==
    /\ LowMemory
    /\ state = "run" /\ fd < MaxFd /\ (fd - 1) % Chunk = 0
    /\ fd' = fd + 1
    /\ file_open(fdtable_size(fd'), i)
    /\ state' = "panic"
    /\ UNCHANGED <<bootVars, size, files_table, medium, ret>>

\* sys_open of a file that does not exist or that there is no memory for, and the calls
\* with a descriptor that the process never had.
sys_refused ==
    /\ state = "run"
    /\ Return(-1, <<>>)
    /\ UNCHANGED <<bootVars, state, tableVars, fileVars, medium>>

\* sys_close; a descriptor that is closed or was never open is ignored.
sys_close(f) ==
    /\ state = "run" /\ Valid(f)
    /\ file_of(f) # NULL
    /\ file_close({file_of(f)})
    /\ files_table' = [files_table EXCEPT ![fdtable_idx(f)] = NULL]
    /\ UNCHANGED <<bootVars, state, fd, size, medium, ret>>

\* sys_read, sys_write, sys_seek, sys_tell and sys_filesize go through the entry
\* without a test: a null pointer is an assertion or a page fault in the kernel.
sys_null_file(f) ==
    /\ state = "run" /\ Valid(f)
    /\ file_of(f) = NULL
    /\ state' = "panic"
    /\ UNCHANGED <<bootVars, tableVars, fileVars, medium, ret>>

\* The sectors with n bytes from position pos of inode i pass check_sector, or the kernel
\* panics.
Checked(i, pos, n) ==
    state' = IF \A p \in pos .. pos + n - 1 : check_sector(byte_to_sector(i, p))
             THEN state ELSE "panic"

\* sys_read of a file, with file_read.
sys_read(f, n, mem) ==
    /\ state = "run" /\ Valid(f) /\ file_of(f) # NULL
    /\ LET file == files[file_of(f)]
           got == inode_read_at(file.inode, n, file.pos, mem)
       IN  /\ Checked(file.inode, file.pos, Len(got))
           /\ files' = [files EXCEPT ![file_of(f)].pos = @ + Len(got)]
           /\ Return(Len(got), got)
    /\ UNCHANGED <<bootVars, tableVars, open_cnt, deny_write_cnt, medium>>

\* sys_write of a file, with file_write.
sys_write(f, buffer, mem) ==
    /\ state = "run" /\ Valid(f) /\ file_of(f) # NULL
    /\ LET file == files[file_of(f)]
           result == inode_write_at(file.inode, buffer, file.pos, mem)
       IN  /\ Checked(file.inode, file.pos, result.bytes)
           /\ medium' = result.disk
           /\ files' = [files EXCEPT ![file_of(f)].pos = @ + result.bytes]
           /\ Return(result.bytes, <<>>)
    /\ UNCHANGED <<bootVars, tableVars, open_cnt, deny_write_cnt>>

\* sys_seek; a position past 2^31 is negative, which fails the assertion of file_seek.
sys_seek(f, pos) ==
    /\ state = "run" /\ Valid(f) /\ file_of(f) # NULL
    /\ IF pos >= 0
       THEN files' = [files EXCEPT ![file_of(f)].pos = pos] /\ UNCHANGED state
       ELSE state' = "panic" /\ UNCHANGED files
    /\ UNCHANGED <<bootVars, tableVars, open_cnt, deny_write_cnt, medium, ret>>

\* sys_tell
sys_tell(f) ==
    /\ state = "run" /\ Valid(f) /\ file_of(f) # NULL
    /\ Return(files[file_of(f)].pos, <<>>)
    /\ UNCHANGED <<bootVars, state, tableVars, fileVars, medium>>

\* sys_filesize
sys_filesize(f) ==
    /\ state = "run" /\ Valid(f) /\ file_of(f) # NULL
    /\ Return(Length[files[file_of(f)].inode], <<>>)
    /\ UNCHANGED <<bootVars, state, tableVars, fileVars, medium>>

\* Mutant: the last descriptor is forgotten.
exit_range_short == 0 .. fd - 3

\* The entries thread_exit closes.
exit_range == 0 .. fd - 2

\* thread_exit closes file_cur and every file in the table, and frees the table.
thread_exit ==
    /\ state = "run"
    /\ file_close({0} \cup ({files_table[i] : i \in exit_range} \ {NULL}))
    /\ size' = 0
    /\ state' = "exited"
    /\ UNCHANGED <<bootVars, fd, files_table, medium, ret>>

-----------------------------------------------------------------------------
\* The disk before boot: the new files are zeros.  init_thread, and load has opened the
\* executable and denied writes to it.
Init ==
    /\ BootInit
    /\ fd = 1 /\ size = 0
    /\ files_table = [i \in 0 .. MaxFd + Chunk |-> GARBAGE]
    /\ files = [n \in 0 .. MaxFd - 1 |->
                    IF n = 0 THEN [inode |-> Exec, pos |-> 0, deny |-> TRUE] ELSE NULL]
    /\ open_cnt = [i \in File |-> IF i = Exec THEN 1 ELSE 0]
    /\ deny_write_cnt = open_cnt
    /\ medium = [s \in 0 .. DevSize - 1 |-> [b \in 0 .. SectorSize - 1 |-> 0]]
    /\ ret = [eax |-> -1, got |-> <<>>]

Boot == BootNext /\ UNCHANGED <<tableVars, fileVars, medium, ret>>

\* Whether malloc returns a bounce buffer.
Memory == IF LowMemory THEN BOOLEAN ELSE {TRUE}

Next ==
    \/ Boot \/ sys_refused \/ thread_exit
    \/ \E i \in File : sys_open(i) \/ sys_open_null_table(i)
    \/ \E f \in 2 .. MaxFd :
           \/ sys_close(f) \/ sys_null_file(f) \/ sys_tell(f) \/ sys_filesize(f)
           \/ \E n \in Sizes, mem \in Memory : sys_read(f, n, mem)
           \/ \E b \in Buffers, mem \in Memory : sys_write(f, b, mem)
           \/ \E p \in Positions : sys_seek(f, p)

Spec == Init /\ [][Next]_vars

-----------------------------------------------------------------------------
(* Properties.                                                             *)

\* The variables have their types; every entry up to the last descriptor is in the
\* memory of the table, and was stored before a call or thread_exit read it.
TypeOK ==
    /\ fd \in 1 .. MaxFd /\ size \in Nat
    /\ state \in {"boot", "run", "exited", "panic"}
    /\ medium \in [0 .. DevSize - 1 -> [0 .. SectorSize - 1 -> Nat]]
    /\ state = "run" =>
           \A f \in 2 .. fd : fdtable_idx(f) < size /\ file_of(f) \in Nat \cup {NULL}

\* The descriptors of a running process refer to exactly its open files, each file to
\* one descriptor: none is lost, closed twice, or used after it was freed; and none is
\* left open ("before exit thread, close all files in thread structure and free").  The
\* counts of the inodes are those of the files that are open and of those that deny
\* writes.
TableExact ==
    LET open == {n \in DOMAIN files : files[n] # NULL}
        used == {f \in 2 .. fd : file_of(f) # NULL}
    IN  /\ TypeOK
        /\ state = "run" => /\ open = {0} \cup {file_of(f) : f \in used}
                            /\ Cardinality(open) = Cardinality(used) + 1
        /\ state = "exited" => open = {}
        /\ \A i \in File :
               /\ open_cnt[i] = Cardinality({n \in open : files[n].inode = i})
               /\ deny_write_cnt[i] =
                      Cardinality({n \in open : files[n].inode = i /\ files[n].deny})

\* The file that a byte of the disk belongs to, if there is one: nothing else is written.
Owned(s, b) ==
    \E i \in File : LET p == (s - FsStart - Start[i]) * SectorSize + b
                    IN  p \in 0 .. Length[i] - 1

\* Nothing outside the bytes of the files ever changes on the disk: not the padding of a
\* last sector, not another partition, each of which lies on the disk whatever
\* the partition table says (PartitionsSound).
DiskKept ==
    /\ PartitionsSound
    /\ \A s \in DOMAIN medium : \A b \in DOMAIN medium[s] : Owned(s, b) \/ medium[s][b] = 0

\* The bytes of a file, and the descriptors, as a process sees them.
contents == [i \in File |-> [p \in 1 .. Length[i] |->
    medium[FsStart + byte_to_sector(i, p - 1)][(p - 1) % SectorSize]]]

descriptors == [f \in 2 .. MaxFd |->
    IF state # "exited" /\ f <= fd /\ file_of(f) \notin {NULL, GARBAGE}
    THEN [file |-> files[file_of(f)].inode, pos |-> files[file_of(f)].pos] ELSE NULL]

Bytes == INSTANCE ByteFiles WITH
    Fd <- 2 .. MaxFd, Short <- LowMemory, content <- contents, desc <- descriptors

\* The calls do what they promise on arrays of bytes, whatever the positions and sizes
\* are: reads return what was written through any descriptor, at most to the end of the
\* file ("may be less than SIZE if end of file is reached"), each descriptor moves
\* its own position by the bytes moved, and the executable keeps its bytes.
FilesImplementByteFiles == Bytes!Spec

=============================================================================
