------------------------------- MODULE Inodes -------------------------------
(***************************************************************************)
(* The open inodes of the file system (filesys/inode.c) and the files that *)
(* refer to them (filesys/file.c), used by several threads.  filesys_open  *)
(* holds lock_filesys; filesys_remove, writing and closing hold nothing.   *)
(* A thread has at most one file open.  Every inode is that of a file with *)
(* one sector of data, written in part or as a whole; the loop over the    *)
(* sectors of a longer file is in Files.                                   *)
(***************************************************************************)
EXTENDS Naturals, Sequences, SequencesExt, FiniteSets

CONSTANTS Thread, NULL,
          Inode,     \* the memory malloc has for struct inode
          Sector,    \* the sectors of the on-disk inodes
          Byte,      \* the offsets of the data
          Value,
          Calls      \* who does what to the file of which sector; "oom": calloc may fail

ASSUME InodesAssumption ==
    /\ NULL \notin Thread /\ NULL \notin Inode
    /\ Calls \subseteq Thread \X Sector \X {"open", "close", "remove", "write", "deny", "oom"}

VARIABLES lock_filesys,  \* its holder
          open_inodes,   \* the list of open inodes
          inode,         \* struct inode: NULL where there is none
          file,          \* of each thread: its struct file, or NULL
          pc, ino,       \* of each thread: where it is, the inode it works on
          want,          \* of each thread: the sector to open, the bytes to write
          bounce,        \* of each thread: its bounce buffer
          named,         \* the sectors that have a directory entry
          used,          \* the sectors marked in the free map
          disk,          \* the data of the file of each sector
          latest         \* history: every byte as last written

memory == <<lock_filesys, open_inodes, inode, file>>
local == <<pc, ino, want, bounce>>
storage == <<named, used, disk, latest>>
vars == <<memory, local, storage>>

\* Thread t may do op to the file it has open.
May(t, op) == file[t] # NULL /\ <<t, inode[file[t].inode].sector, op>> \in Calls

At(t, l) == pc' = [pc EXCEPT ![t] = l]

\* A thread is through with a call.
Return(t) ==
    /\ At(t, "idle")
    /\ ino' = [ino EXCEPT ![t] = NULL]
    /\ want' = [want EXCEPT ![t] = NULL]
    /\ bounce' = [bounce EXCEPT ![t] = NULL]

-----------------------------------------------------------------------------
(* Opening.                                                                *)

\* filesys_open takes lock_filesys and finds the name in the root directory.
filesys_open(t, s) ==
    /\ pc[t] = "idle" /\ <<t, s, "open">> \in Calls
    /\ file[t] = NULL /\ lock_filesys = NULL /\ s \in named
    /\ lock_filesys' = t
    /\ want' = [want EXCEPT ![t] = [op |-> "open", sector |-> s]]
    /\ At(t, "open")
    /\ UNCHANGED <<open_inodes, inode, file, ino, bounce, storage>>

\* dir_remove finds the name; no lock is held.
dir_remove(t, s) ==
    /\ pc[t] = "idle" /\ <<t, s, "remove">> \in Calls
    /\ s \in named
    /\ want' = [want EXCEPT ![t] = [op |-> "remove", sector |-> s]]
    /\ At(t, "open")
    /\ UNCHANGED <<memory, ino, bounce, storage>>

\* Where the two go on with the inode they have opened.
Opened(t) == IF want[t].op = "open" THEN "file_open" ELSE "erase"

\* The inodes in the list that are those of sector s.
OpenFor(s) == {i \in ToSet(open_inodes) : inode[i].sector = s}

\* Mutant: the inode is handed out without counting its opener.
inode_open_uncounted(t) ==
    /\ pc[t] = "open"
    /\ IF OpenFor(want[t].sector) # {}
       THEN /\ \E i \in OpenFor(want[t].sector) : ino' = [ino EXCEPT ![t] = i]
            /\ At(t, Opened(t))
       ELSE At(t, "malloc") /\ UNCHANGED ino
    /\ UNCHANGED <<inode, lock_filesys, open_inodes, file, want, bounce, storage>>


\* inode_open, the search: an inode that is already open is reopened.
inode_open(t) ==
    /\ pc[t] = "open"
    /\ IF OpenFor(want[t].sector) # {}
       THEN \E k \in DOMAIN open_inodes :
                /\ inode[open_inodes[k]].sector = want[t].sector
                /\ \A j \in 1 .. k - 1 : inode[open_inodes[j]].sector # want[t].sector
                /\ inode' = [inode EXCEPT ![open_inodes[k]].open_cnt = @ + 1]
                /\ ino' = [ino EXCEPT ![t] = open_inodes[k]]
                /\ At(t, Opened(t))
       ELSE At(t, "malloc") /\ UNCHANGED <<inode, ino>>
    /\ UNCHANGED <<lock_filesys, open_inodes, file, want, bounce, storage>>

\* malloc, the front of the list and the fields; the content is not read yet.
inode_open_new(t) ==
    /\ pc[t] = "malloc"
    /\ \E i \in Inode :
           /\ inode[i] = NULL
           /\ open_inodes' = <<i>> \o open_inodes
           /\ inode' = [inode EXCEPT ![i] = [sector |-> want[t].sector, open_cnt |-> 1, removed |-> FALSE,
                                             deny_write_cnt |-> 0, sema |-> 1, read |-> FALSE]]
           /\ ino' = [ino EXCEPT ![t] = i]
    /\ At(t, "read")
    /\ UNCHANGED <<lock_filesys, file, want, bounce, storage>>

\* malloc has nothing: the call fails.
inode_open_fails(t) ==
    /\ pc[t] = "malloc"
    /\ \A i \in Inode : inode[i] # NULL
    /\ lock_filesys' = IF lock_filesys = t THEN NULL ELSE lock_filesys
    /\ Return(t)
    /\ UNCHANGED <<open_inodes, inode, file, storage>>

\* block_read (fs_device, inode->sector, &inode->data)
inode_open_read(t) ==
    /\ pc[t] = "read"
    /\ inode' = [inode EXCEPT ![ino[t]].read = TRUE]
    /\ At(t, Opened(t))
    /\ UNCHANGED <<lock_filesys, open_inodes, file, ino, want, bounce, storage>>

\* filesys_open releases its lock; file_open makes the file.
file_open(t) ==
    /\ pc[t] = "file_open"
    /\ lock_filesys' = NULL
    /\ file' = [file EXCEPT ![t] = [inode |-> ino[t], deny_write |-> FALSE]]
    /\ Return(t)
    /\ UNCHANGED <<open_inodes, inode, storage>>

\* filesys_open releases its lock; file_open has no memory and closes the inode.
file_open_fails(t) ==
    /\ pc[t] = "file_open" /\ <<t, want[t].sector, "oom">> \in Calls
    /\ lock_filesys' = NULL
    /\ At(t, "close")
    /\ UNCHANGED <<open_inodes, inode, file, ino, want, bounce, storage>>

-----------------------------------------------------------------------------
(* Removing and closing.                                                   *)

\* dir_remove erases the entry; another remover may have done so.
dir_erase(t) ==
    /\ pc[t] = "erase"
    /\ named' = named \ {want[t].sector}
    /\ At(t, "inode_remove")
    /\ UNCHANGED <<memory, ino, want, bounce, used, disk, latest>>

\* inode_remove, and dir_remove goes on to close its inode.
inode_remove(t) ==
    /\ pc[t] = "inode_remove"
    /\ inode' = [inode EXCEPT ![ino[t]].removed = TRUE]
    /\ At(t, "close")
    /\ UNCHANGED <<lock_filesys, open_inodes, file, ino, want, bounce, storage>>

\* file_close allows writes again and closes the inode; the file is freed after that.
file_close(t) ==
    /\ pc[t] = "idle" /\ May(t, "close")
    /\ inode' = IF file[t].deny_write
                THEN [inode EXCEPT ![file[t].inode].deny_write_cnt = @ - 1] ELSE inode
    /\ file' = [file EXCEPT ![t] = NULL]
    /\ ino' = [ino EXCEPT ![t] = file[t].inode]
    /\ At(t, "close")
    /\ UNCHANGED <<lock_filesys, open_inodes, want, bounce, storage>>

\* inode_close, the count: the last opener goes on to free the inode.
inode_close(t) ==
    /\ pc[t] = "close"
    /\ inode' = [inode EXCEPT ![ino[t]].open_cnt = @ - 1]
    /\ IF inode[ino[t]].open_cnt = 1
       THEN At(t, "free") /\ UNCHANGED <<ino, want, bounce>> ELSE Return(t)
    /\ UNCHANGED <<lock_filesys, open_inodes, file, storage>>

\* Mutant: the sectors of a removed file stay marked.
inode_free_keeps(t) ==
    /\ pc[t] = "free"
    /\ open_inodes' = SelectSeq(open_inodes, LAMBDA i : i # ino[t])
    /\ inode' = [inode EXCEPT ![ino[t]] = NULL]
    /\ Return(t)
    /\ UNCHANGED <<lock_filesys, file, named, used, disk, latest>>

\* inode_close, the rest: out of the list, the sectors of a removed file are released,
\* and the memory is freed.
inode_free(t) ==
    /\ pc[t] = "free"
    /\ open_inodes' = SelectSeq(open_inodes, LAMBDA i : i # ino[t])
    /\ used' = IF inode[ino[t]].removed THEN used \ {inode[ino[t]].sector} ELSE used
    /\ inode' = [inode EXCEPT ![ino[t]] = NULL]
    /\ Return(t)
    /\ UNCHANGED <<lock_filesys, file, named, disk, latest>>

-----------------------------------------------------------------------------
(* Writing.                                                                *)

file_deny_write(t) ==
    /\ pc[t] = "idle" /\ May(t, "deny")
    /\ ~file[t].deny_write
    /\ file' = [file EXCEPT ![t].deny_write = TRUE]
    /\ inode' = [inode EXCEPT ![file[t].inode].deny_write_cnt = @ + 1]
    /\ UNCHANGED <<lock_filesys, open_inodes, local, storage>>

file_allow_write(t) ==
    /\ pc[t] = "idle" /\ May(t, "deny")
    /\ file[t].deny_write
    /\ file' = [file EXCEPT ![t].deny_write = FALSE]
    /\ inode' = [inode EXCEPT ![file[t].inode].deny_write_cnt = @ - 1]
    /\ UNCHANGED <<lock_filesys, open_inodes, local, storage>>

\* inode_write_at of the bytes B, unless writes are denied (then it returns 0).
inode_write_at(t, B, v) ==
    /\ pc[t] = "idle" /\ May(t, "write")
    /\ inode[file[t].inode].deny_write_cnt = 0
    /\ ino' = [ino EXCEPT ![t] = file[t].inode]
    /\ want' = [want EXCEPT ![t] = [bytes |-> B, value |-> v]]
    /\ At(t, "sema_down")
    /\ UNCHANGED <<memory, bounce, storage>>

\* Mutant: the semaphore does not keep others out.
write_sema_down_free(t) ==
    /\ pc[t] = "sema_down"
    /\ At(t, IF want[t].bytes = Byte THEN "write" ELSE "fill")
    /\ UNCHANGED <<memory, ino, want, bounce, storage>>

\* sema_down (&inode->sema).  A whole sector needs no bounce buffer.
write_sema_down(t) ==
    /\ pc[t] = "sema_down"
    /\ inode[ino[t]].sema > 0
    /\ inode' = [inode EXCEPT ![ino[t]].sema = @ - 1]
    /\ At(t, IF want[t].bytes = Byte THEN "write" ELSE "fill")
    /\ UNCHANGED <<lock_filesys, open_inodes, file, ino, want, bounce, storage>>

\* block_read into the bounce buffer.
write_fill(t) ==
    /\ pc[t] = "fill"
    /\ bounce' = [bounce EXCEPT ![t] = disk[inode[ino[t]].sector]]
    /\ At(t, "write")
    /\ UNCHANGED <<memory, ino, want, storage>>

\* The bytes v for those of B, in what old holds.
Overwrite(old, B, v) == [b \in Byte |-> IF b \in B THEN v ELSE old[b]]

\* block_write of the caller's sector or of the bounce buffer.
write_sector(t) ==
    /\ pc[t] = "write"
    /\ LET s == inode[ino[t]].sector
           old == IF want[t].bytes = Byte THEN disk[s] ELSE bounce[t]
       IN  /\ disk' = [disk EXCEPT ![s] = Overwrite(old, want[t].bytes, want[t].value)]
           /\ latest' = [latest EXCEPT ![s] = Overwrite(@, want[t].bytes, want[t].value)]
    /\ At(t, "sema_up")
    /\ UNCHANGED <<memory, ino, want, bounce, named, used>>

\* sema_up (&inode->sema), and the call returns.
write_sema_up(t) ==
    /\ pc[t] = "sema_up"
    /\ inode' = [inode EXCEPT ![ino[t]].sema = @ + 1]
    /\ Return(t)
    /\ UNCHANGED <<lock_filesys, open_inodes, file, storage>>

-----------------------------------------------------------------------------
\* inode_init; every sector of Sector is that of a file with a name.
Init ==
    /\ lock_filesys = NULL
    /\ open_inodes = <<>>
    /\ inode = [i \in Inode |-> NULL]
    /\ file = [t \in Thread |-> NULL]
    /\ pc = [t \in Thread |-> "idle"]
    /\ ino = [t \in Thread |-> NULL]
    /\ want = [t \in Thread |-> NULL]
    /\ bounce = [t \in Thread |-> NULL]
    /\ named = Sector /\ used = Sector
    /\ \E v \in Value : disk = [s \in Sector |-> [b \in Byte |-> v]]
    /\ latest = disk

Open(t) ==
    \/ \E s \in Sector : filesys_open(t, s) \/ dir_remove(t, s)
    \/ inode_open(t) \/ inode_open_new(t) \/ inode_open_fails(t) \/ inode_open_read(t)
    \/ file_open(t) \/ file_open_fails(t)

Close(t) ==
    dir_erase(t) \/ inode_remove(t) \/ file_close(t) \/ inode_close(t) \/ inode_free(t)

Write(t) ==
    \/ file_deny_write(t) \/ file_allow_write(t)
    \/ \E B \in SUBSET Byte \ {{}}, v \in Value : inode_write_at(t, B, v)
    \/ write_sema_down(t) \/ write_fill(t) \/ write_sector(t) \/ write_sema_up(t)

Next == \E t \in Thread : Open(t) \/ Close(t) \/ Write(t)

Spec == Init /\ [][Next]_vars

-----------------------------------------------------------------------------
(* Properties.                                                             *)

\* The references to inode i: files, and calls that have opened it and not closed it.
Openers(i) ==
    Cardinality({t \in Thread : file[t] # NULL /\ file[t].inode = i})
    + Cardinality({t \in Thread : ino[t] = i /\ pc[t] \in
                       {"read", "file_open", "erase", "inode_remove", "close"}})

TypeOK ==
    /\ lock_filesys \in Thread \cup {NULL}
    /\ open_inodes \in Seq(Inode)
    /\ named \subseteq Sector /\ used \subseteq Sector
    /\ disk \in [Sector -> [Byte -> Value]] /\ latest \in [Sector -> [Byte -> Value]]
    /\ \A i \in Inode : inode[i] # NULL => inode[i].sema \in {0, 1}

\* An inode is in the list, and in memory, as long as somebody refers to it, and
\* open_cnt counts who does ("Number of openers"): inode_close frees the inode only
\* if that was the last reference.  deny_write_cnt counts the files that deny writes:
\* the assertions of inode_deny_write and inode_allow_write hold.
CountsOpeners ==
    /\ TypeOK
    /\ \A i \in Inode :
           IF i \in ToSet(open_inodes)
           THEN /\ inode[i] # NULL
                /\ inode[i].open_cnt = Openers(i)
                /\ inode[i].deny_write_cnt =
                       Cardinality({t \in Thread : /\ file[t] # NULL
                                                   /\ file[t].inode = i /\ file[t].deny_write})
           ELSE Openers(i) = 0

\* "opening a single inode twice returns the same `struct inode'": the list never has
\* two inodes of one sector, and what filesys_open returns was read from the disk.
OneInodePerSector ==
    /\ \A i, j \in ToSet(open_inodes) : inode[i].sector = inode[j].sector => i = j
    /\ \A t \in Thread : pc[t] = "file_open" => inode[ino[t]].read


\* No write is lost: a partial write reads a sector, changes it in memory and writes
\* it back, and no other writer comes between.
NoLostWrite == disk = latest

\* The sectors of a file are marked as used exactly as long as it has a name or an
\* opener, also when it is removed while it is open.
SectorsKept ==
    \A s \in Sector :
        s \in used <=> s \in named \/ \E i \in ToSet(open_inodes) : inode[i].sector = s

=============================================================================
