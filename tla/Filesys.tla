------------------------------- MODULE Filesys -------------------------------
(***************************************************************************)
(* The file system: names (filesys/filesys.c, filesys/directory.c), the    *)
(* free map (filesys/free-map.c) and inode_create, down to the order of    *)
(* the writes to the disk, which a power failure may cut off anywhere.     *)
(* Opening and closing an inode is one step here: their own steps are in   *)
(* Inodes.  A thread has at most one file open.                            *)
(***************************************************************************)
EXTENDS Naturals, FiniteSets, FiniteSetsExt

CONSTANTS Thread, Name, NULL,
          Slots,      \* entries of the root directory
          DiskSize,   \* sectors of the disk
          Lengths,    \* the sizes of new files, in sectors
          Failures,   \* bound on the calls of malloc that fail
          Reboots     \* bound on the power failures

ASSUME FilesysAssumption ==
    /\ Slots \in Nat /\ DiskSize \in Nat /\ Lengths \subseteq Nat
    /\ Failures \in Nat /\ Reboots \in Nat

VARIABLES entry,      \* disk: the root directory, NULL where not in use
          disk_map,   \* disk: the sectors marked in the free map file
          disk_inode, \* disk: the sectors that hold an inode
          free_map,   \* memory: the sectors marked in the bitmap
          open,       \* memory: the open inodes, by sector: openers, removed, content
          lock_filesys,
          file,       \* of each thread: the sector of its open file, or NULL
          call, ok,   \* of each thread: its call and what it returns
          len,        \* of each thread: the size of its new file
          pc,         \* of each thread: where it is
          slot,       \* of each thread: the entry it looks at
          sec, start, \* of each thread: inode_sector, inode_disk->start
          lost,       \* history: marked sectors that no file has
          reboots, failures

disk == <<entry, disk_map, disk_inode>>
memory == <<free_map, open, lock_filesys, file>>
local == <<call, ok, len, pc, slot, sec, start>>
bounds == <<reboots, failures>>
vars == <<disk, memory, local, lost, bounds>>

\* The inodes and the data of the free map file and of the root directory.
Reserved == 0 .. 3
Sector == 0 .. DiskSize - 1
Span(s, n) == s .. s + n - 1

\* A call of malloc returns NULL.
malloc_fails == failures < Failures /\ failures' = failures + 1 /\ UNCHANGED reboots

At(t, l) == pc' = [pc EXCEPT ![t] = l]

\* A call has come to its result and goes on at l.
Result(t, r, l) == ok' = [ok EXCEPT ![t] = r] /\ At(t, l)

-----------------------------------------------------------------------------
(* The free map.                                                           *)

\* bitmap_scan for n unmarked sectors; DiskSize is BITMAP_ERROR.
bitmap_scan(n) ==
    Min({DiskSize} \cup {s \in Sector : s + n <= DiskSize /\ Span(s, n) \cap free_map = {}})

\* Mutant: the bits that were found are not set.
bitmap_flip_not(s, n) == UNCHANGED free_map

bitmap_flip(s, n) == free_map' = free_map \cup Span(s, n)

\* free_map_allocate, the scan: for the inode, then for the data.
free_map_scan(t) ==
    /\ \/ /\ pc[t] = "scan_inode" /\ bitmap_scan(1) < DiskSize
          /\ sec' = [sec EXCEPT ![t] = bitmap_scan(1)]
          /\ At(t, "flip_inode")
          /\ UNCHANGED <<ok, start>>
       \/ /\ pc[t] = "scan_data" /\ bitmap_scan(len[t]) < DiskSize
          /\ start' = [start EXCEPT ![t] = bitmap_scan(len[t])]
          /\ At(t, "flip_data")
          /\ UNCHANGED <<ok, sec>>
       \/ /\ pc[t] = "scan_inode" /\ bitmap_scan(1) = DiskSize
          /\ Result(t, FALSE, "dir_close")
          /\ UNCHANGED <<sec, start>>
       \/ /\ pc[t] = "scan_data" /\ bitmap_scan(len[t]) = DiskSize
          /\ Result(t, FALSE, "undo")
          /\ UNCHANGED <<sec, start>>
    /\ UNCHANGED <<disk, memory, call, len, slot, lost, bounds>>

\* bitmap_set_multiple: no lock is held since the scan.
free_map_flip(t) ==
    /\ \/ pc[t] = "flip_inode" /\ bitmap_flip(sec[t], 1) /\ At(t, "write_map_inode")
       \/ pc[t] = "flip_data" /\ bitmap_flip(start[t], len[t]) /\ At(t, "write_map_data")
    /\ UNCHANGED <<disk, open, lock_filesys, file, call, ok, len, slot, sec, start, lost, bounds>>

\* bitmap_write to the free map file.
free_map_write(t) ==
    /\ \/ pc[t] = "write_map_inode" /\ At(t, "scan_data")
       \/ pc[t] = "write_map_data" /\ At(t, "write_inode")
    /\ disk_map' = free_map
    /\ UNCHANGED <<entry, disk_inode, memory, call, ok, len, slot, sec, start, lost, bounds>>

\* bitmap_write has no memory: the bits are cleared again.
free_map_write_fails(t) ==
    /\ malloc_fails
    /\ \/ /\ pc[t] = "write_map_inode"
          /\ free_map' = free_map \ {sec[t]}
          /\ Result(t, FALSE, "dir_close")
          /\ UNCHANGED start
       \/ /\ pc[t] = "write_map_data"
          /\ free_map' = free_map \ Span(start[t], len[t])
          /\ start' = [start EXCEPT ![t] = NULL]
          /\ Result(t, FALSE, "undo")
    /\ UNCHANGED <<disk, open, lock_filesys, file, call, len, slot, sec, lost>>

\* inode_create has no memory.
inode_create_fails(t) ==
    /\ malloc_fails /\ pc[t] = "scan_data"
    /\ Result(t, FALSE, "undo")
    /\ UNCHANGED <<disk, memory, call, len, slot, sec, start, lost>>

\* free_map_release; the result of bitmap_write is ignored.
free_map_release(S) ==
    /\ free_map' = free_map \ S
    /\ \/ disk_map' = free_map' /\ UNCHANGED bounds
       \/ malloc_fails /\ UNCHANGED disk_map

-----------------------------------------------------------------------------
(* The directory.                                                          *)

\* filesys_create, filesys_open (under its lock) and filesys_remove: the root
\* directory is opened.
filesys_call(t, c, n) ==
    /\ pc[t] = "idle"
    /\ c.op = "open" => file[t] = NULL /\ lock_filesys = NULL
    /\ lock_filesys' = IF c.op = "open" THEN t ELSE lock_filesys
    /\ call' = [call EXCEPT ![t] = c]
    /\ len' = [len EXCEPT ![t] = IF c.op = "create" THEN n ELSE 0]
    /\ slot' = [slot EXCEPT ![t] = 1]
    /\ At(t, IF c.op = "create" THEN "scan_inode" ELSE "lookup")
    /\ UNCHANGED <<disk, free_map, open, file, ok, sec, start, lost, bounds>>

\* dir_open_root has no memory.
dir_open_root_fails(t, c) ==
    /\ malloc_fails
    /\ pc[t] = "idle"
    /\ c.op = "open" => file[t] = NULL /\ lock_filesys = NULL
    /\ lock_filesys' = IF c.op = "open" THEN t ELSE lock_filesys
    /\ call' = [call EXCEPT ![t] = c]
    /\ Result(t, FALSE, "dir_close")
    /\ UNCHANGED <<disk, free_map, open, file, len, slot, sec, start, lost>>

\* inode_create writes the inode, then zeros to the data.
inode_write(t) ==
    /\ pc[t] = "write_inode"
    /\ disk_inode' = [disk_inode EXCEPT ![sec[t]] = [start |-> start[t], cnt |-> len[t]]]
    /\ At(t, "write_zeros")
    /\ UNCHANGED <<entry, disk_map, memory, call, ok, len, slot, sec, start, lost, bounds>>

inode_zeros(t) ==
    /\ pc[t] = "write_zeros"
    /\ disk_inode' = [s \in Sector |-> IF s \in Span(start[t], len[t]) THEN NULL ELSE disk_inode[s]]
    /\ At(t, "lookup")
    /\ UNCHANGED <<entry, disk_map, memory, call, ok, len, slot, sec, start, lost, bounds>>

\* Mutant: the last entry is taken for the end of the directory.
ShortRead_early(k) == k >= Slots /\ UNCHANGED bounds

\* inode_read_at returns an entry; with no memory for the bounce buffer it returns
\* nothing, as at the end of the directory.
Readable(k) == k <= Slots
ShortRead(k) == (k > Slots /\ UNCHANGED bounds) \/ (k <= Slots /\ malloc_fails)

\* lookup: the next entry.
lookup(t) ==
    LET e == entry[slot[t]] IN
    /\ pc[t] = "lookup" /\ Readable(slot[t])
    /\ IF e = NULL \/ e.name # call[t].name
       THEN /\ slot' = [slot EXCEPT ![t] = @ + 1]
            /\ UNCHANGED <<ok, pc, sec>>
       ELSE /\ IF call[t].op = "create"
               THEN Result(t, FALSE, "undo") /\ UNCHANGED sec
               ELSE At(t, "inode_open") /\ sec' = [sec EXCEPT ![t] = e.sector] /\ UNCHANGED ok
            /\ UNCHANGED slot
    /\ UNCHANGED <<disk, memory, call, len, start, lost, bounds>>

\* lookup: the name is not there.
lookup_fails(t) ==
    /\ pc[t] = "lookup" /\ ShortRead(slot[t])
    /\ IF call[t].op = "create"
       THEN At(t, "find_slot") /\ slot' = [slot EXCEPT ![t] = 1] /\ UNCHANGED ok
       ELSE Result(t, FALSE, "dir_close") /\ UNCHANGED slot
    /\ UNCHANGED <<disk, memory, call, len, sec, start, lost>>

\* dir_add: the first entry that is not in use, or the end of the directory.
find_slot(t) ==
    /\ pc[t] = "find_slot"
    /\ \/ /\ Readable(slot[t]) /\ entry[slot[t]] # NULL
          /\ slot' = [slot EXCEPT ![t] = @ + 1]
          /\ UNCHANGED <<pc, bounds>>
       \/ /\ ShortRead(slot[t]) \/ (Readable(slot[t]) /\ entry[slot[t]] = NULL /\ UNCHANGED bounds)
          /\ At(t, "write_slot")
          /\ UNCHANGED slot
    /\ UNCHANGED <<disk, memory, call, ok, len, sec, start, lost>>

\* dir_add writes the entry.
write_slot(t) ==
    /\ pc[t] = "write_slot" /\ Readable(slot[t])
    /\ entry' = [entry EXCEPT ![slot[t]] = [name |-> call[t].name, sector |-> sec[t]]]
    /\ Result(t, TRUE, "dir_close")
    /\ UNCHANGED <<disk_map, disk_inode, memory, call, len, slot, sec, start, lost, bounds>>

\* The directory is full (inodes do not grow), or there is no bounce buffer.
write_slot_fails(t) ==
    /\ pc[t] = "write_slot" /\ ShortRead(slot[t])
    /\ Result(t, FALSE, "undo")
    /\ UNCHANGED <<disk, memory, call, len, slot, sec, start, lost>>

\* A failed filesys_create releases the sector of the inode; if inode_create had
\* succeeded the data stay marked.
filesys_undo(t) ==
    /\ pc[t] = "undo"
    /\ free_map_release({sec[t]})
    /\ lost' = lost \cup (IF start[t] = NULL THEN {} ELSE Span(start[t], len[t]))
    /\ At(t, "dir_close")
    /\ UNCHANGED <<entry, disk_inode, open, lock_filesys, file, call, ok, len, slot, sec, start>>

-----------------------------------------------------------------------------
(* Open files.                                                             *)

\* inode_open for a file that was found: filesys_open makes a file of it, dir_remove
\* goes on to erase the entry.
inode_open(t) ==
    /\ pc[t] = "inode_open"
    /\ open' = [open EXCEPT ![sec[t]] =
                   IF @ = NULL THEN [cnt |-> 1, removed |-> FALSE, data |-> disk_inode[sec[t]]]
                               ELSE [@ EXCEPT !.cnt = @ + 1]]
    /\ IF call[t].op = "open"
       THEN file' = [file EXCEPT ![t] = sec[t]] /\ Result(t, TRUE, "dir_close")
       ELSE At(t, "erase") /\ UNCHANGED <<file, ok>>
    /\ UNCHANGED <<disk, free_map, lock_filesys, call, len, slot, sec, start, lost, bounds>>

\* inode_open or file_open has no memory.
inode_open_fails(t) ==
    /\ malloc_fails /\ pc[t] = "inode_open"
    /\ Result(t, FALSE, "dir_close")
    /\ UNCHANGED <<disk, memory, call, len, slot, sec, start, lost>>

\* Mutant: the inode is not marked as removed.
dir_erase_unmarked(t) ==
    /\ pc[t] = "erase"
    /\ entry' = [entry EXCEPT ![slot[t]] = NULL]
    /\ Result(t, TRUE, "inode_close")
    /\ UNCHANGED <<disk_map, disk_inode, free_map, open, lock_filesys, file, call, len, slot, sec, start, lost, bounds>>

\* dir_remove writes the entry as not in use, then marks the inode as removed.
dir_erase(t) ==
    /\ pc[t] = "erase"
    /\ entry' = [entry EXCEPT ![slot[t]] = NULL]
    /\ open' = [open EXCEPT ![sec[t]].removed = TRUE]
    /\ Result(t, TRUE, "inode_close")
    /\ UNCHANGED <<disk_map, disk_inode, free_map, lock_filesys, file, call, len, slot, sec, start, lost, bounds>>

dir_erase_fails(t) ==
    /\ malloc_fails /\ pc[t] = "erase"
    /\ Result(t, FALSE, "inode_close")
    /\ UNCHANGED <<disk, memory, call, len, slot, sec, start, lost>>

\* file_close; sys_close returns nothing.
file_close(t) ==
    /\ pc[t] = "idle" /\ file[t] # NULL
    /\ sec' = [sec EXCEPT ![t] = file[t]]
    /\ file' = [file EXCEPT ![t] = NULL]
    /\ At(t, "inode_close")
    /\ UNCHANGED <<disk, free_map, open, lock_filesys, call, ok, len, slot, start, lost, bounds>>

\* Mutant: the sectors of a removed file are released by every opener.
inode_close_releases(t) ==
    /\ pc[t] = "inode_close"
    /\ open' = [open EXCEPT ![sec[t]] = IF @.cnt = 1 THEN NULL ELSE [@ EXCEPT !.cnt = @ - 1]]
    /\ IF open[sec[t]].removed
       THEN /\ start' = [start EXCEPT ![t] = open[sec[t]].data.start]
            /\ len' = [len EXCEPT ![t] = open[sec[t]].data.cnt]
            /\ At(t, "release_inode")
       ELSE At(t, "dir_close") /\ UNCHANGED <<start, len>>
    /\ UNCHANGED <<disk, free_map, lock_filesys, file, call, ok, slot, sec, lost, bounds>>

\* inode_close; the last opener of a removed file goes on to release its sectors.
inode_close(t) ==
    /\ pc[t] = "inode_close"
    /\ open' = [open EXCEPT ![sec[t]] = IF @.cnt = 1 THEN NULL ELSE [@ EXCEPT !.cnt = @ - 1]]
    /\ IF open[sec[t]].cnt = 1 /\ open[sec[t]].removed
       THEN /\ start' = [start EXCEPT ![t] = open[sec[t]].data.start]
            /\ len' = [len EXCEPT ![t] = open[sec[t]].data.cnt]
            /\ At(t, "release_inode")
       ELSE At(t, "dir_close") /\ UNCHANGED <<start, len>>
    /\ UNCHANGED <<disk, free_map, lock_filesys, file, call, ok, slot, sec, lost, bounds>>

\* free_map_release of the inode, then of the data.
inode_release(t) ==
    /\ \/ pc[t] = "release_inode" /\ free_map_release({sec[t]}) /\ At(t, "release_data")
       \/ pc[t] = "release_data" /\ free_map_release(Span(start[t], len[t])) /\ At(t, "dir_close")
    /\ UNCHANGED <<entry, disk_inode, open, lock_filesys, file, call, ok, len, slot, sec, start, lost>>

\* dir_close, filesys_open's lock_release, and the call returns.
dir_close(t) ==
    /\ pc[t] = "dir_close"
    /\ lock_filesys' = IF lock_filesys = t THEN NULL ELSE lock_filesys
    /\ call' = [call EXCEPT ![t] = NULL] /\ ok' = [ok EXCEPT ![t] = NULL]
    /\ len' = [len EXCEPT ![t] = 0] /\ slot' = [slot EXCEPT ![t] = 1]
    /\ sec' = [sec EXCEPT ![t] = NULL] /\ start' = [start EXCEPT ![t] = NULL]
    /\ At(t, "idle")
    /\ UNCHANGED <<disk, free_map, open, file, lost, bounds>>

-----------------------------------------------------------------------------
\* The sectors of the file whose inode is in sector s.
SectorsOf(s, d) == {s} \cup Span(d.start, d.cnt)

\* The sectors of the files in the directory, as it is on the disk.
NamedSectors ==
    UNION {SectorsOf(entry[k].sector, disk_inode[entry[k].sector]) :
               k \in {j \in 1 .. Slots : entry[j] # NULL}}

\* The machine loses its memory; filesys_init reads the free map from the disk.
power_off ==
    /\ reboots < Reboots
    /\ reboots' = reboots + 1
    /\ free_map' = disk_map
    /\ open' = [s \in Sector |-> NULL]
    /\ lock_filesys' = NULL
    /\ file' = [t \in Thread |-> NULL]
    /\ call' = [t \in Thread |-> NULL] /\ ok' = [t \in Thread |-> NULL]
    /\ len' = [t \in Thread |-> 0] /\ slot' = [t \in Thread |-> 1]
    /\ sec' = [t \in Thread |-> NULL] /\ start' = [t \in Thread |-> NULL]
    /\ pc' = [t \in Thread |-> "idle"]
    /\ lost' = disk_map \ (Reserved \cup NamedSectors)
    /\ UNCHANGED <<disk, failures>>

\* filesys_init of a formatted disk.
Init ==
    /\ entry = [k \in 1 .. Slots |-> NULL]
    /\ disk_map = Reserved /\ free_map = Reserved
    /\ disk_inode = [s \in Sector |-> NULL]
    /\ open = [s \in Sector |-> NULL]
    /\ lock_filesys = NULL
    /\ file = [t \in Thread |-> NULL]
    /\ call = [t \in Thread |-> NULL] /\ ok = [t \in Thread |-> NULL]
    /\ len = [t \in Thread |-> 0] /\ slot = [t \in Thread |-> 1]
    /\ sec = [t \in Thread |-> NULL] /\ start = [t \in Thread |-> NULL]
    /\ pc = [t \in Thread |-> "idle"]
    /\ lost = {} /\ reboots = 0 /\ failures = 0

Calls == [op : {"create", "open", "remove"}, name : Name]

Step(t) ==
    \/ \E c \in Calls : (\E n \in Lengths : filesys_call(t, c, n)) \/ dir_open_root_fails(t, c)
    \/ free_map_scan(t) \/ free_map_flip(t) \/ free_map_write(t) \/ free_map_write_fails(t)
    \/ inode_create_fails(t) \/ inode_write(t) \/ inode_zeros(t)
    \/ lookup(t) \/ lookup_fails(t) \/ find_slot(t) \/ write_slot(t) \/ write_slot_fails(t)
    \/ filesys_undo(t)
    \/ inode_open(t) \/ inode_open_fails(t) \/ dir_erase(t) \/ dir_erase_fails(t)
    \/ file_close(t) \/ inode_close(t) \/ inode_release(t) \/ dir_close(t)

Next == (\E t \in Thread : Step(t)) \/ power_off

Spec == Init /\ [][Next]_vars

-----------------------------------------------------------------------------
(* Properties.                                                             *)

InUse == {k \in 1 .. Slots : entry[k] # NULL}

TypeOK ==
    /\ \A k \in InUse : entry[k].name \in Name /\ entry[k].sector \in Sector
    /\ disk_map \subseteq Sector /\ free_map \subseteq Sector /\ lost \subseteq Sector
    /\ file \in [Thread -> Sector \cup {NULL}]
    /\ slot \in [Thread -> 1 .. Slots + 1]

\* At every moment, also between two writes of an operation, an entry on the disk
\* leads to an inode that was written, its sectors are marked in the free map on the
\* disk, and no two files share a sector: no power failure and no failing malloc
\* breaks a file.
EntriesSound ==
    TypeOK /\ \A k \in InUse :
        LET d == disk_inode[entry[k].sector] IN
        /\ d # NULL
        /\ SectorsOf(entry[k].sector, d) \subseteq disk_map \ Reserved
        /\ entry[k].sector \notin Span(d.start, d.cnt)
        /\ \A j \in InUse \ {k} :
               SectorsOf(entry[j].sector, disk_inode[entry[j].sector])
                   \cap SectorsOf(entry[k].sector, d) = {}

\* The sectors of an open file, removed or not, are marked, and are not those of
\* another file: nothing is allocated where somebody still writes.
OpenSectorsKept ==
    \A s \in Sector :
        open[s] # NULL =>
            /\ SectorsOf(s, open[s].data) \subseteq free_map
            /\ \A k \in InUse :
                   entry[k].sector = s \/
                   SectorsOf(s, open[s].data)
                       \cap SectorsOf(entry[k].sector, disk_inode[entry[k].sector]) = {}

\* Both: files that have a name and files that are only open keep their sectors to
\* themselves.
FilesApart == EntriesSound /\ OpenSectorsKept

\* The sectors a call has allocated and not given a name yet, or not released yet.
InProgress(t) ==
    LET data == IF start[t] = NULL THEN {} ELSE Span(start[t], len[t]) IN
    IF pc[t] \in {"idle", "flip_inode", "inode_open", "erase", "inode_close", "dir_close"} THEN {}
    ELSE IF pc[t] = "release_data" THEN data
    ELSE {sec[t]} \cup data

\* Every marked sector is that of a file with a name or an opener, or of a call in
\* progress; no others are lost but the data of a file whose dir_add failed and what
\* a power failure cut off, as long as no malloc has failed.
SectorsAccounted ==
    failures = 0 => free_map \ lost \subseteq
        Reserved \cup NamedSectors
        \cup UNION {SectorsOf(s, open[s].data) : s \in {u \in Sector : open[u] # NULL}}
        \cup UNION {InProgress(t) : t \in Thread}

Names == INSTANCE FileNames WITH names <- {entry[k].name : k \in InUse}

\* Calls do what FileNames says, and power failures leave the names as they are, as
\* long as no malloc has failed (dir_add takes a read that fails for the end of the
\* directory): no name is created twice, and no entry is written over another.
NamesSpec == Names!Init /\ [][failures' = 0 => Names!Next]_(Names!vars)

=============================================================================
