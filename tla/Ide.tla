-------------------------------- MODULE Ide --------------------------------
(***************************************************************************)
(* One ATA channel with its disks (devices/ide.c): ide_read and ide_write  *)
(* under the channel's lock, the boot-time identification without it, and  *)
(* the completion interrupt, which ups a semaphore.  The controller is     *)
(* external: it accepts a command, is busy, transfers one sector and       *)
(* raises its interrupt.  It answers within the driver's time limits.      *)
(***************************************************************************)
EXTENDS Naturals, FiniteSets

CONSTANTS Thread, NULL,
          Disk,      \* the disks of the channel
          Sector, Value,
          Spurious   \* bound on the interrupts that no command causes

ASSUME IdeAssumption ==
    /\ Spurious \in Nat
    /\ NULL \notin Thread /\ NULL \notin Disk

VARIABLES lock,        \* holder of c->lock
          expecting,   \* c->expecting_interrupt
          completion,  \* c->completion_wait
          is_ata,      \* the disks found to be ATA disks
          pc, req,     \* of each thread: where it is, the request it works on
          data,        \* of each thread: the sector it has read
          boot,        \* disks not identified yet
          cmd,         \* controller: the command in progress, or NULL
          status,      \* controller: idle, busy, drq, error
          intrq,       \* controller: its interrupt is pending
          medium,      \* what is stored on the disks
          latest,      \* history: what the last write that returned stored
          noise        \* spurious interrupts so far

driver == <<lock, expecting, completion, is_ata, pc, req, data, boot>>
device == <<cmd, status, intrq, medium>>
vars == <<driver, device, latest, noise>>

Request == [op : {"read", "write"}, disk : Disk, sector : Sector, value : Value]

At(t, l) == pc' = [pc EXCEPT ![t] = l]

-----------------------------------------------------------------------------
\* Boot is over.
Booted == boot = {} /\ \A t \in Thread : pc[t] # "idle" => req[t].op # "identify"

\* ide_read and ide_write up to lock_acquire, for a disk that was registered.
ide_request(t, r) ==
    /\ Booted
    /\ pc[t] = "idle"
    /\ r.disk \in is_ata
    /\ lock = NULL
    /\ lock' = t
    /\ req' = [req EXCEPT ![t] = r]
    /\ At(t, "select")
    /\ UNCHANGED <<expecting, completion, is_ata, data, boot, device, latest, noise>>

\* identify_ata_device, for one disk after the other at boot; no lock is taken.
identify_ata_device(t, d) ==
    /\ d \in boot
    /\ \A u \in Thread : pc[u] = "idle"
    /\ boot' = boot \ {d}
    /\ req' = [req EXCEPT ![t] = [op |-> "identify", disk |-> d]]
    /\ At(t, "select")
    /\ UNCHANGED <<lock, expecting, completion, is_ata, data, device, latest, noise>>

\* BSY and DRQ are clear; reading the status register clears a pending interrupt.
wait_until_idle ==
    /\ status \in {"idle", "error"}
    /\ status' = "idle"
    /\ intrq' = FALSE

\* select_device_wait, before and after the device is selected; then the registers
\* are set up for the sector.
select_sector(t) ==
    /\ pc[t] = "select"
    /\ wait_until_idle
    /\ At(t, "issue")
    /\ UNCHANGED <<lock, expecting, completion, is_ata, req, data, boot, cmd, medium, latest, noise>>

\* The controller asks for the data of a write, or refuses it; any other command keeps
\* it busy.
Accepts(r) == IF r.op = "write" THEN {"drq", "error"} ELSE {"busy"}

\* Mutant: the driver does not say that it expects an interrupt.
issue_unexpected(t) ==
    /\ pc[t] = "issue"
    /\ cmd' = req[t]
    /\ status' \in Accepts(req[t])
    /\ At(t, IF req[t].op = "write" THEN "transfer" ELSE "down")
    /\ UNCHANGED <<lock, expecting, completion, is_ata, req, data, boot, intrq, medium, latest, noise>>

\* Mutant: a read does not wait for the completion interrupt.
issue_no_wait(t) ==
    /\ pc[t] = "issue"
    /\ expecting' = TRUE
    /\ cmd' = req[t]
    /\ status' \in Accepts(req[t])
    /\ At(t, "transfer")
    /\ UNCHANGED <<lock, completion, is_ata, req, data, boot, intrq, medium, latest, noise>>

\* issue_pio_command.  A write waits for the controller to ask for the data, a read
\* for its interrupt.
issue_pio_command(t) ==
    /\ pc[t] = "issue"
    /\ expecting' = TRUE
    /\ cmd' = req[t]
    /\ status' \in Accepts(req[t])
    /\ At(t, IF req[t].op = "write" THEN "transfer" ELSE "down")
    /\ UNCHANGED <<lock, completion, is_ata, req, data, boot, intrq, medium, latest, noise>>

\* sema_down (&c->completion_wait)
sema_down(t) ==
    /\ pc[t] = "down"
    /\ completion > 0
    /\ completion' = completion - 1
    /\ At(t, IF req[t].op = "write" THEN "unlock" ELSE "transfer")
    /\ UNCHANGED <<lock, expecting, is_ata, req, data, boot, device, latest, noise>>

\* Mutant: the driver does not wait while the controller is busy.
wait_while_busy_not(t) == pc[t] = "transfer"

\* wait_while_busy has seen BSY clear.
wait_while_busy(t) == pc[t] = "transfer" /\ status # "busy"

\* input_sector, if the controller has data; what is on the bus if it is still busy
\* is arbitrary.
input_sector(t) ==
    /\ wait_while_busy(t)
    /\ status \in {"drq", "busy"}
    /\ req[t].op = "read"
    /\ \E v \in IF status = "drq" THEN {medium[cmd.disk][cmd.sector]} ELSE Value :
           data' = [data EXCEPT ![t] = v]
    /\ status' = IF status = "drq" THEN "idle" ELSE status
    /\ At(t, "unlock")
    /\ UNCHANGED <<lock, expecting, completion, is_ata, req, boot, cmd, intrq, medium, latest, noise>>

\* output_sector, if the controller asks for data.
output_sector(t) ==
    /\ wait_while_busy(t)
    /\ status = "drq"
    /\ req[t].op = "write"
    /\ status' = "busy"
    /\ At(t, "down")
    /\ UNCHANGED <<lock, expecting, completion, is_ata, req, data, boot, cmd, intrq, medium, latest, noise>>

\* identify_ata_device reads the response and registers the disk.
block_register(t) ==
    /\ wait_while_busy(t)
    /\ status = "drq"
    /\ req[t].op = "identify"
    /\ status' = "idle"
    /\ is_ata' = is_ata \cup {req[t].disk}
    /\ At(t, "idle")
    /\ UNCHANGED <<lock, expecting, completion, req, data, boot, cmd, intrq, medium, latest, noise>>

\* The controller has no data: not an ATA disk, or a disk error, which panics.
transfer_fails(t) ==
    /\ wait_while_busy(t)
    /\ status \in {"error", "idle"}
    /\ At(t, IF req[t].op = "identify" THEN "idle" ELSE "panic")
    /\ UNCHANGED <<lock, expecting, completion, is_ata, req, data, boot, device, latest, noise>>

\* lock_release, and the call returns.
ide_return(t) ==
    /\ pc[t] = "unlock"
    /\ lock' = NULL
    /\ latest' = IF req[t].op = "write"
                 THEN [latest EXCEPT ![req[t].disk][req[t].sector] = req[t].value] ELSE latest
    /\ At(t, "idle")
    /\ UNCHANGED <<expecting, completion, is_ata, req, data, boot, device, noise>>

interrupt_handler ==
    /\ intrq
    /\ intrq' = FALSE
    /\ completion' = IF expecting THEN completion + 1 ELSE completion
    /\ UNCHANGED <<lock, expecting, is_ata, pc, req, data, boot, cmd, status, medium, latest, noise>>

-----------------------------------------------------------------------------
(* The controller.                                                         *)

\* It is through with a command, or fails.
device_done ==
    /\ status = "busy"
    /\ \/ /\ status' = IF cmd.op = "write" THEN "idle" ELSE "drq"
          /\ medium' = IF cmd.op = "write"
                       THEN [medium EXCEPT ![cmd.disk][cmd.sector] = cmd.value] ELSE medium
       \/ /\ cmd.op # "write"
          /\ status' = "error"
          /\ UNCHANGED medium
    /\ intrq' = TRUE
    /\ UNCHANGED <<driver, cmd, latest, noise>>

\* An interrupt that no command caused.
device_noise ==
    /\ noise < Spurious
    /\ ~intrq
    /\ intrq' = TRUE
    /\ noise' = noise + 1
    /\ UNCHANGED <<driver, cmd, status, medium, latest>>

-----------------------------------------------------------------------------
\* ide_init: the disks hold something.
Init ==
    /\ lock = NULL /\ expecting = FALSE /\ completion = 0
    /\ is_ata = {} /\ boot = Disk
    /\ pc = [t \in Thread |-> "idle"]
    /\ req = [t \in Thread |-> NULL]
    /\ data = [t \in Thread |-> NULL]
    /\ cmd = NULL /\ status = "idle" /\ intrq = FALSE
    /\ \E v \in Value : medium = [d \in Disk |-> [s \in Sector |-> v]]
    /\ latest = medium
    /\ noise = 0

Panicked == \E t \in Thread : pc[t] = "panic"

Step(t) ==
    \/ \E r \in Request : ide_request(t, r)
    \/ \E d \in boot : identify_ata_device(t, d)
    \/ select_sector(t) \/ issue_pio_command(t) \/ sema_down(t)
    \/ input_sector(t) \/ output_sector(t) \/ block_register(t) \/ transfer_fails(t)
    \/ ide_return(t)

Next ==
    /\ ~Panicked
    /\ (\E t \in Thread : Step(t)) \/ interrupt_handler \/ device_done \/ device_noise

Spec == Init /\ [][Next]_vars

\* The controller answers, its interrupt is taken, and a thread that can go on with
\* its request does.
FairSpec ==
    /\ Spec
    /\ WF_vars(device_done) /\ WF_vars(interrupt_handler)
    /\ \A t \in Thread :
        /\ WF_vars(select_sector(t)) /\ WF_vars(issue_pio_command(t)) /\ WF_vars(sema_down(t))
        /\ WF_vars(input_sector(t)) /\ WF_vars(output_sector(t)) /\ WF_vars(block_register(t))
        /\ WF_vars(transfer_fails(t)) /\ WF_vars(ide_return(t))

-----------------------------------------------------------------------------
(* Properties.                                                             *)

\* The variables have their types; the semaphore holds at most one completion more
\* than there were spurious interrupts.
TypeOK ==
    /\ lock \in Thread \cup {NULL} /\ expecting \in BOOLEAN
    /\ completion \in 0 .. Spurious + 1
    /\ is_ata \subseteq Disk /\ boot \subseteq Disk
    /\ pc \in [Thread -> {"idle", "select", "issue", "down", "transfer", "unlock", "panic"}]
    /\ status \in {"idle", "busy", "drq", "error"} /\ intrq \in BOOLEAN
    /\ medium \in [Disk -> [Sector -> Value]]

\* A read returns what the last write that returned stored in that sector of that
\* disk, also after an early wake-up by a spurious interrupt.
ReadsLatest ==
    /\ TypeOK
    /\ \A t \in Thread :
           pc[t] = "unlock" /\ req[t].op = "read" =>
               data[t] = latest[req[t].disk][req[t].sector]

\* Without spurious interrupts completions match requests.  ide_write returns after the
\* disk has stored the data ("Returns after the disk has acknowledged receiving the
\* data"), and between requests no completion is left in the semaphore or on its way,
\* which the next request could take for its own.
CompletionsMatch ==
    noise = 0 =>
        /\ \A t \in Thread :
               pc[t] = "unlock" /\ req[t].op = "write" =>
                   medium[req[t].disk][req[t].sector] = req[t].value
        /\ (\A t \in Thread : pc[t] \in {"idle", "select"}) => completion = 0 /\ ~intrq

\* Both: a request returns when it is done, and with what it is about.
TransfersRight == ReadsLatest /\ CompletionsMatch

\* Every request comes to an end.
RequestsEnd == \A t \in Thread : (pc[t] # "idle") ~> (pc[t] \in {"idle", "panic"})

=============================================================================
