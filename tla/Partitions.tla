----------------------------- MODULE Partitions -----------------------------
(***************************************************************************)
(* How a disk becomes the block device of the file system at boot:         *)
(* devices/partition.c reads the partition table, devices/block.c keeps    *)
(* the devices that it registers, threads/init.c gives the first one of    *)
(* the right type its role.  A frame of `scan' is one active call of       *)
(* read_partition_table, which calls itself for extended partitions.  Every *)
(* call reads sector 0, whichever sector it was called for.                *)
(***************************************************************************)
EXTENDS Integers, Sequences, SequencesExt

CONSTANTS DevSize,    \* sectors of the disk
          Word,       \* block_sector_t has this many values
          Tables,     \* partition tables a disk may have
          FsStart,    \* where on the disk the file system was made
          MaxDepth    \* calls of read_partition_table that memory is enough for

ASSUME PartitionsAssumption ==
    /\ DevSize \in Nat /\ Word \in Nat /\ DevSize < Word
    /\ FsStart \in 0 .. DevSize /\ MaxDepth \in Nat \ {0}
    /\ \A t \in Tables : t.valid \in BOOLEAN /\ \A k \in DOMAIN t.entries :
           t.entries[k].offset \in 0 .. Word - 1 /\ t.entries[k].size \in 0 .. Word - 1

VARIABLES table,   \* the partition table in sector 0
          scan,    \* the active calls of read_partition_table
          blocks,  \* all_blocks: the partitions that were registered
          state    \* boot, run, exited, or panic of the kernel

bootVars == <<table, scan, blocks>>

\* What a call of read_partition_table adds to the active calls: nothing if it returns
\* at once, for a sector past the end or a table without the signature.
read_partition_table(s, primary) ==
    IF s < DevSize /\ table.valid
    THEN <<[sector |-> s, primary |-> primary, i |-> 1]>> ELSE <<>>

\* The tests of found_partition.
fits(start, size) ==
    /\ start < DevSize
    /\ (start + size) % Word >= start
    /\ (start + size) % Word <= DevSize

found_partition(type, start, size) ==
    IF fits(start, size)
    THEN Append(blocks, [type |-> type, start |-> start, size |-> size]) ELSE blocks

top == Last(scan)
entry == table.entries[top.i]

\* The active calls when the one on top has gone on to its next entry.
advanced == Front(scan) \o <<[top EXCEPT !.i = @ + 1]>>

\* One entry of the table.
scan_entry ==
    /\ state = "boot" /\ scan # <<>> /\ top.i <= Len(table.entries)
    /\ \/ /\ entry.size = 0 \/ entry.type = "empty"
          /\ scan' = advanced
          /\ UNCHANGED <<blocks, state>>
       \/ /\ entry.size # 0 /\ entry.type = "extended"
          /\ scan' = advanced \o
                 (IF top.sector = 0
                  THEN read_partition_table(entry.offset, entry.offset)
                  ELSE read_partition_table((entry.offset + top.primary) % Word, top.primary))
          /\ state' = IF Len(scan') > MaxDepth THEN "panic" ELSE state
          /\ UNCHANGED blocks
       \/ /\ entry.size # 0 /\ entry.type \notin {"empty", "extended"}
          /\ blocks' = found_partition(entry.type, (entry.offset + top.sector) % Word, entry.size)
          /\ scan' = advanced
          /\ UNCHANGED state
    /\ UNCHANGED table

\* The last entry is done: the call returns.
scan_return ==
    /\ state = "boot" /\ scan # <<>> /\ top.i > Len(table.entries)
    /\ scan' = Front(scan)
    /\ UNCHANGED <<table, blocks, state>>

\* The roles: the first block device of a type.
block_get_role(type) == SelectSeq(blocks, LAMBDA b : b.type = type)

fs_device == Head(block_get_role("filesys"))

\* locate_block_devices and filesys_init, which stops the kernel if there is no device
\* for the file system, or none with a free map in the place where one belongs.
filesys_init ==
    /\ state = "boot" /\ scan = <<>>
    /\ state' = IF block_get_role("filesys") # <<>> /\ fs_device.start = FsStart
                THEN "run" ELSE "panic"
    /\ UNCHANGED bootVars

\* partition_read and partition_write: the sector of the disk.
partition_sector(s) == (fs_device.start + s) % Word

\* check_sector, for the partition and for the disk under it.
check_sector(s) == s < fs_device.size /\ partition_sector(s) < DevSize

BootInit ==
    /\ table \in Tables
    /\ scan = read_partition_table(0, 0)
    /\ blocks = <<>>
    /\ state = "boot"

BootNext == scan_entry \/ scan_return \/ filesys_init

-----------------------------------------------------------------------------
(* Properties.                                                             *)

\* The partitions of a table without extended ones that lie on the disk, in order.
Described ==
    SelectSeq([k \in DOMAIN table.entries |->
                  [type |-> table.entries[k].type, start |-> table.entries[k].offset,
                   size |-> table.entries[k].size]],
              LAMBDA b : b.type # "empty" /\ b.size > 0 /\ b.start + b.size <= DevSize)

\* No registered partition is empty or reaches past the end of the disk, however its
\* table entry overflows.  Without extended partitions the scan finds exactly the
\* partitions that the table describes and that lie on the disk.
PartitionsSound ==
    /\ \A k \in DOMAIN blocks :
           blocks[k].size > 0 /\ blocks[k].start + blocks[k].size <= DevSize
    /\ scan = <<>> /\ table.valid
           /\ (\A k \in DOMAIN table.entries : table.entries[k].type # "extended") =>
       blocks = Described

=============================================================================
