------------------------------ MODULE IdeProofs -----------------------------
(***************************************************************************)
(* Proofs about Ide, for any number of threads, disks, sectors and values  *)
(* and any number of spurious interrupts.                                  *)
(***************************************************************************)
EXTENDS Ide, TLAPS

Identify == [op : {"identify"}, disk : Disk]
Command == Request \cup Identify

\* A thread works on a request from its start until the call returns.
Busy(t) == pc[t] # "idle"

\* The channel is used by one thread at a time: under the lock, or at boot by the only
\* thread there is.
OneUser ==
    /\ \A t, u \in Thread : Busy(t) /\ Busy(u) => t = u
    /\ \A t \in Thread : Busy(t) /\ req[t].op # "identify" => lock = t

\* The command in the controller is that of the thread that waits for it, and the
\* controller is idle before it is issued.
InStep ==
    /\ \A t \in Thread :
          /\ pc[t] \in {"down", "transfer", "unlock"} => cmd = req[t]
          /\ pc[t] = "issue" => status = "idle"
    /\ status \in {"busy", "drq"} => cmd \in Command

\* What the disks hold once the write in progress is done.
Coming ==
    IF status = "busy" /\ cmd.op = "write"
    THEN [medium EXCEPT ![cmd.disk][cmd.sector] = cmd.value] ELSE medium

\* A write has been handed over and has not returned.
Handed(t) == pc[t] \in {"down", "unlock"} /\ req[t].op = "write"

\* Up to a write that has been handed over, the disks will hold what was last written.
Stored ==
    /\ (\A t \in Thread : ~Handed(t)) => Coming = latest
    /\ \A t \in Thread : Handed(t) =>
          Coming = [latest EXCEPT ![req[t].disk][req[t].sector] = req[t].value]

\* Every completion in the semaphore, on its way or to come is that of the thread that
\* waits for it, or of a spurious interrupt.
One(b) == IF b THEN 1 ELSE 0

Counted ==
    completion + One(intrq) + One(status = "busy")
        <= noise + One(\E t \in Thread : pc[t] = "down")

DriverType ==
    /\ lock \in Thread \cup {NULL} /\ expecting \in BOOLEAN
    /\ completion \in Nat /\ noise \in 0 .. Spurious
    /\ is_ata \subseteq Disk /\ boot \subseteq Disk
    /\ pc \in [Thread -> {"idle", "select", "issue", "down", "transfer", "unlock", "panic"}]
    /\ DOMAIN req = Thread /\ DOMAIN data = Thread
    /\ \A t \in Thread : Busy(t) => req[t] \in Command
    /\ status \in {"idle", "busy", "drq", "error"} /\ intrq \in BOOLEAN
    /\ medium \in [Disk -> [Sector -> Value]] /\ latest \in [Disk -> [Sector -> Value]]

ReadDone ==
    \A t \in Thread : pc[t] = "unlock" /\ req[t].op = "read" =>
        data[t] = latest[req[t].disk][req[t].sector]

IdeInv == DriverType /\ OneUser /\ InStep /\ Stored /\ Counted /\ ReadDone

-----------------------------------------------------------------------------
\* Every step of the driver, the controller and the disks keeps the invariant.
LEMMA IdeStep == IdeInv /\ [Next]_vars => IdeInv'
<1> SUFFICES ASSUME IdeInv, [Next]_vars PROVE IdeInv'
  OBVIOUS
<1> USE IdeAssumption
<1>1. ASSUME NEW t \in Thread, NEW r \in Request, ide_request(t, r) PROVE IdeInv'
  <2>1. DriverType'
    BY <1>1 DEF ide_request, IdeInv, DriverType, Busy, Command, At, device
  <2>2. OneUser'
    BY <1>1 DEF ide_request, Booted, IdeInv, OneUser, Busy, At
  <2>3. InStep'
    BY <1>1 DEF ide_request, IdeInv, InStep, At, device
  <2>4. Stored'
    BY <1>1 DEF ide_request, IdeInv, DriverType, Stored, Coming, Handed, At, device
  <2>5. Counted'
    BY <1>1 DEF ide_request, Booted, IdeInv, DriverType, OneUser, Busy, Counted, One, device
  <2>6. ReadDone'
    BY <1>1 DEF ide_request, IdeInv, ReadDone, At
  <2>7. QED
    BY <2>1, <2>2, <2>3, <2>4, <2>5, <2>6 DEF IdeInv
<1>2. ASSUME NEW t \in Thread, NEW d \in boot, identify_ata_device(t, d) PROVE IdeInv'
  <2>1. DriverType'
    BY <1>2 DEF identify_ata_device, IdeInv, DriverType, Busy, Command, Identify, At, device
  <2>2. OneUser'
    BY <1>2 DEF identify_ata_device, IdeInv, DriverType, OneUser, Busy, At
  <2>3. InStep'
    BY <1>2 DEF identify_ata_device, IdeInv, InStep, At, device
  <2>4. Stored'
    BY <1>2 DEF identify_ata_device, IdeInv, Stored, Coming, Handed, At, device
  <2>5. Counted'
    BY <1>2 DEF identify_ata_device, IdeInv, DriverType, Counted, One, device
  <2>6. ReadDone'
    BY <1>2 DEF identify_ata_device, ReadDone, At
  <2>7. QED
    BY <2>1, <2>2, <2>3, <2>4, <2>5, <2>6 DEF IdeInv
<1>3. ASSUME NEW t \in Thread, select_sector(t) PROVE IdeInv'
  <2>1. DriverType'
    BY <1>3 DEF select_sector, wait_until_idle, IdeInv, DriverType, Busy, At
  <2>2. OneUser'
    BY <1>3 DEF select_sector, IdeInv, OneUser, Busy, At
  <2>3. InStep'
    BY <1>3 DEF select_sector, wait_until_idle, IdeInv, InStep, At
  <2>4. Stored'
    BY <1>3 DEF select_sector, wait_until_idle, IdeInv, DriverType, Stored, Coming, Handed, At
  <2>5. Counted'
    BY <1>3 DEF select_sector, wait_until_idle, IdeInv, DriverType, OneUser, Busy, Counted,
       One
  <2>6. ReadDone'
    BY <1>3 DEF select_sector, IdeInv, ReadDone, At
  <2>7. QED
    BY <2>1, <2>2, <2>3, <2>4, <2>5, <2>6 DEF IdeInv
<1>4. ASSUME NEW t \in Thread, issue_pio_command(t) PROVE IdeInv'
  <2>1. DriverType'
    BY <1>4 DEF issue_pio_command, Accepts, IdeInv, DriverType, Busy, At
  <2>2. OneUser'
    BY <1>4 DEF issue_pio_command, IdeInv, OneUser, Busy, At
  <2>3. InStep'
    BY <1>4 DEF issue_pio_command, IdeInv, DriverType, OneUser, InStep, Busy, At
  <2>4. Stored'
    BY <1>4 DEF issue_pio_command, Accepts, IdeInv, DriverType, InStep, Stored, Coming,
       Handed, At
  <2>5. Counted'
    BY <1>4 DEF issue_pio_command, Accepts, IdeInv, DriverType, OneUser, Busy, Counted, One,
       At
  <2>6. ReadDone'
    BY <1>4 DEF issue_pio_command, IdeInv, ReadDone, At
  <2>7. QED
    BY <2>1, <2>2, <2>3, <2>4, <2>5, <2>6 DEF IdeInv
<1>5. ASSUME NEW t \in Thread, sema_down(t) PROVE IdeInv'
  <2>1. DriverType'
    BY <1>5 DEF sema_down, IdeInv, DriverType, Busy, At, device
  <2>2. OneUser'
    BY <1>5 DEF sema_down, IdeInv, OneUser, Busy, At
  <2>3. InStep'
    BY <1>5 DEF sema_down, IdeInv, InStep, At, device
  <2>4. Stored'
    BY <1>5 DEF sema_down, IdeInv, DriverType, Stored, Coming, Handed, At, device
  <2>5. Counted'
    BY <1>5 DEF sema_down, IdeInv, DriverType, Counted, One, device
  <2>6. ReadDone'
    BY <1>5 DEF sema_down, IdeInv, ReadDone, At
  <2>7. QED
    BY <2>1, <2>2, <2>3, <2>4, <2>5, <2>6 DEF IdeInv
<1>6. ASSUME NEW t \in Thread, input_sector(t) PROVE IdeInv'
  <2>1. DriverType'
    BY <1>6 DEF input_sector, wait_while_busy, IdeInv, DriverType, Busy, At
  <2>2. OneUser'
    BY <1>6 DEF input_sector, wait_while_busy, IdeInv, OneUser, Busy, At
  <2>3. InStep'
    BY <1>6 DEF input_sector, wait_while_busy, IdeInv, InStep, At
  <2>4. Stored'
    BY <1>6 DEF input_sector, wait_while_busy, IdeInv, Stored, Coming, Handed, At
  <2>5. Counted'
    BY <1>6 DEF input_sector, wait_while_busy, IdeInv, DriverType, OneUser, Busy, Counted, One
  <2>6. ReadDone'
    BY <1>6 DEF input_sector, wait_while_busy, IdeInv, DriverType, InStep, ReadDone, Stored,
       Coming, Handed, At
  <2>7. QED
    BY <2>1, <2>2, <2>3, <2>4, <2>5, <2>6 DEF IdeInv
<1>7. ASSUME NEW t \in Thread, output_sector(t) PROVE IdeInv'
  <2>1. DriverType'
    BY <1>7 DEF output_sector, wait_while_busy, IdeInv, DriverType, Busy, At
  <2>2. OneUser'
    BY <1>7 DEF output_sector, wait_while_busy, IdeInv, OneUser, Busy, At
  <2>3. InStep'
    BY <1>7 DEF output_sector, wait_while_busy, IdeInv, InStep, At
  <2>4. Stored'
    BY <1>7 DEF output_sector, wait_while_busy, IdeInv, DriverType, OneUser, InStep, Busy,
       Stored, Coming, Handed, At
  <2>5. Counted'
    BY <1>7 DEF output_sector, wait_while_busy, IdeInv, DriverType, OneUser, Busy, Counted,
       One, At
  <2>6. ReadDone'
    BY <1>7 DEF output_sector, IdeInv, ReadDone, At
  <2>7. QED
    BY <2>1, <2>2, <2>3, <2>4, <2>5, <2>6 DEF IdeInv
<1>8. ASSUME NEW t \in Thread, block_register(t) PROVE IdeInv'
  <2>1. DriverType'
    BY <1>8 DEF block_register, wait_while_busy, IdeInv, DriverType, Busy, Command, Identify,
       Request, At
  <2>2. OneUser'
    BY <1>8 DEF block_register, IdeInv, OneUser, Busy, At
  <2>3. InStep'
    BY <1>8 DEF block_register, IdeInv, InStep, At
  <2>4. Stored'
    BY <1>8 DEF block_register, IdeInv, Stored, Coming, Handed, At
  <2>5. Counted'
    BY <1>8 DEF block_register, wait_while_busy, IdeInv, DriverType, OneUser, Busy, Counted,
       One
  <2>6. ReadDone'
    BY <1>8 DEF block_register, IdeInv, ReadDone, At
  <2>7. QED
    BY <2>1, <2>2, <2>3, <2>4, <2>5, <2>6 DEF IdeInv
<1>9. ASSUME NEW t \in Thread, transfer_fails(t) PROVE IdeInv'
  <2>1. DriverType'
    BY <1>9 DEF transfer_fails, wait_while_busy, IdeInv, DriverType, Busy, At, device
  <2>2. OneUser'
    BY <1>9 DEF transfer_fails, wait_while_busy, IdeInv, OneUser, Busy, At
  <2>3. InStep'
    BY <1>9 DEF transfer_fails, IdeInv, InStep, At, device
  <2>4. Stored'
    BY <1>9 DEF transfer_fails, wait_while_busy, IdeInv, Stored, Coming, Handed, At, device
  <2>5. Counted'
    BY <1>9 DEF transfer_fails, wait_while_busy, IdeInv, DriverType, OneUser, Busy, Counted,
       One, device
  <2>6. ReadDone'
    BY <1>9 DEF transfer_fails, IdeInv, ReadDone, At
  <2>7. QED
    BY <2>1, <2>2, <2>3, <2>4, <2>5, <2>6 DEF IdeInv
<1>10. ASSUME NEW t \in Thread, ide_return(t) PROVE IdeInv'
  <2>1. DriverType'
    BY <1>10 DEF ide_return, IdeInv, DriverType, Busy, Command, Identify, Request, At, device
  <2>2. OneUser'
    BY <1>10 DEF ide_return, IdeInv, DriverType, OneUser, Busy, At
  <2>3. InStep'
    BY <1>10 DEF ide_return, IdeInv, InStep, At, device
  <2>4. Stored'
    BY <1>10 DEF ide_return, IdeInv, DriverType, OneUser, Busy, Stored, Coming, Handed, At,
       device
  <2>5. Counted'
    BY <1>10 DEF ide_return, IdeInv, DriverType, OneUser, InStep, Busy, Counted, One, device
  <2>6. ReadDone'
    BY <1>10 DEF ide_return, IdeInv, InStep, ReadDone, At
  <2>7. QED
    BY <2>1, <2>2, <2>3, <2>4, <2>5, <2>6 DEF IdeInv
<1>11. ASSUME interrupt_handler PROVE IdeInv'
  <2>1. DriverType'
    <3>1. completion' \in Nat
      BY <1>11 DEF interrupt_handler, IdeInv, DriverType
    <3>2. QED
      BY <1>11, <3>1 DEF interrupt_handler, IdeInv, DriverType, Busy
  <2>2. OneUser'
    BY <1>11 DEF interrupt_handler, IdeInv, OneUser, Busy
  <2>3. InStep'
    BY <1>11 DEF interrupt_handler, IdeInv, InStep
  <2>4. Stored'
    BY <1>11 DEF interrupt_handler, IdeInv, Stored, Coming, Handed
  <2>5. Counted'
    BY <1>11 DEF interrupt_handler, IdeInv, DriverType, Counted, One
  <2>6. ReadDone'
    BY <1>11 DEF interrupt_handler, IdeInv, ReadDone
  <2>7. QED
    BY <2>1, <2>2, <2>3, <2>4, <2>5, <2>6 DEF IdeInv
<1>12. ASSUME device_done PROVE IdeInv'
  <2>1. DriverType'
    <3>1. cmd.op = "write" => cmd.disk \in Disk /\ cmd.sector \in Sector /\ cmd.value \in Value
      BY <1>12 DEF device_done, IdeInv, InStep, Command, Identify, Request
    <3>2. CASE cmd.op = "write"
      <4> DEFINE new == [medium[cmd.disk] EXCEPT ![cmd.sector] = cmd.value]
      <4>1. new \in [Sector -> Value] /\ medium' = [medium EXCEPT ![cmd.disk] = new]
        BY <1>12, <3>1, <3>2 DEF device_done, IdeInv, DriverType
      <4> HIDE DEF new
      <4>2. medium' \in [Disk -> [Sector -> Value]]
        BY <4>1 DEF IdeInv, DriverType
      <4>3. status' = "idle" /\ intrq' = TRUE /\ UNCHANGED <<driver, latest, noise>>
        BY <1>12, <3>2 DEF device_done
      <4>4. QED
        BY <4>2, <4>3 DEF driver, IdeInv, DriverType, Busy
    <3>3. CASE cmd.op # "write"
      BY <1>12, <3>3 DEF device_done, driver, IdeInv, DriverType, Busy
    <3>4. QED
      BY <3>2, <3>3
  <2>2. OneUser'
    BY <1>12 DEF device_done, IdeInv, OneUser, Busy, driver
  <2>3. InStep'
    BY <1>12 DEF device_done, IdeInv, InStep, driver
  <2>4. Stored'
    BY <1>12 DEF device_done, IdeInv, Stored, Coming, Handed, driver
  <2>5. Counted'
    BY <1>12 DEF device_done, IdeInv, DriverType, Counted, One, driver
  <2>6. ReadDone'
    BY <1>12 DEF device_done, IdeInv, ReadDone, driver
  <2>7. QED
    BY <2>1, <2>2, <2>3, <2>4, <2>5, <2>6 DEF IdeInv
<1>13. ASSUME device_noise PROVE IdeInv'
  <2>1. DriverType'
    BY <1>13 DEF device_noise, IdeInv, DriverType, Busy, driver
  <2>2. OneUser'
    BY <1>13 DEF device_noise, IdeInv, OneUser, Busy, driver
  <2>3. InStep'
    BY <1>13 DEF device_noise, IdeInv, InStep, driver
  <2>4. Stored'
    BY <1>13 DEF device_noise, IdeInv, Stored, Coming, Handed, driver
  <2>5. Counted'
    BY <1>13 DEF device_noise, IdeInv, DriverType, Counted, One, driver
  <2>6. ReadDone'
    BY <1>13 DEF device_noise, IdeInv, ReadDone, driver
  <2>7. QED
    BY <2>1, <2>2, <2>3, <2>4, <2>5, <2>6 DEF IdeInv
<1>14. ASSUME UNCHANGED vars PROVE IdeInv'
  <2>1. DriverType'
    BY <1>14 DEF vars, IdeInv, DriverType, Busy, device, driver
  <2>2. OneUser'
    BY <1>14 DEF vars, IdeInv, OneUser, Busy, driver
  <2>3. InStep'
    BY <1>14 DEF vars, IdeInv, InStep, device, driver
  <2>4. Stored'
    BY <1>14 DEF vars, IdeInv, Stored, Coming, Handed, device, driver
  <2>5. Counted'
    BY <1>14 DEF vars, IdeInv, Counted, device, driver
  <2>6. ReadDone'
    BY <1>14 DEF vars, IdeInv, ReadDone, driver
  <2>7. QED
    BY <2>1, <2>2, <2>3, <2>4, <2>5, <2>6 DEF IdeInv
<1>15. QED
  BY <1>1, <1>2, <1>3, <1>4, <1>5, <1>6, <1>7, <1>8, <1>9, <1>10, <1>11, <1>12, <1>13, <1>14
     DEF Next, Step

\* The disks at boot.
LEMMA IdeInit == Init => IdeInv
<1> SUFFICES ASSUME Init PROVE IdeInv
  OBVIOUS
<1>1. DriverType
  <2>1. medium \in [Disk -> [Sector -> Value]] /\ latest = medium
    BY DEF Init
  <2>2. 0 \in 0 .. Spurious
    BY IdeAssumption
  <2>3. QED
    BY <2>1, <2>2 DEF Init, DriverType, Busy
<1>2. OneUser /\ InStep /\ ReadDone
  BY DEF Init, OneUser, InStep, ReadDone, Busy
<1>3. Stored
  BY DEF Init, Stored, Coming, Handed
<1>4. Counted
  BY DEF Init, Counted, One
<1>5. QED
  BY <1>1, <1>2, <1>3, <1>4 DEF IdeInv

\* A read returns what the last write that returned had stored, whatever spurious
\* interrupts do; and without them ide_write returns after the disk has the data and no
\* completion is left for the next request to take for its own.
THEOREM TransfersAreRight == Spec => []TransfersRight
<1>1. IdeInv => TransfersRight
  <2> SUFFICES ASSUME IdeInv PROVE TransfersRight
    OBVIOUS
  <2>1. completion \in 0 .. Spurious + 1
    BY IdeAssumption DEF IdeInv, DriverType, Counted, One
  <2>2. ReadsLatest
    BY <2>1 DEF IdeInv, DriverType, ReadDone, ReadsLatest, TypeOK
  <2>3. ASSUME noise = 0, NEW t \in Thread, pc[t] = "unlock", req[t].op = "write"
        PROVE  medium[req[t].disk][req[t].sector] = req[t].value
    <3>1. \A u \in Thread : pc[u] # "down"
      BY <2>3 DEF IdeInv, OneUser, Busy
    <3>2. status # "busy"
      BY <2>3, <3>1 DEF IdeInv, DriverType, Counted, One
    <3>3. medium = [latest EXCEPT ![req[t].disk][req[t].sector] = req[t].value]
      BY <2>3, <3>2 DEF IdeInv, Stored, Coming, Handed
    <3>4. req[t] \in Request
      BY <2>3 DEF IdeInv, DriverType, Busy, Command, Identify
    <3>5. QED
      BY <3>3, <3>4 DEF IdeInv, DriverType
  <2>4. ASSUME noise = 0, \A t \in Thread : pc[t] \in {"idle", "select"}
        PROVE  completion = 0 /\ ~intrq
    BY <2>4 DEF IdeInv, DriverType, Counted, One
  <2>5. QED
    BY <2>2, <2>3, <2>4 DEF TransfersRight, CompletionsMatch
<1>2. QED
  BY <1>1, IdeInit, IdeStep, PTL DEF Spec

=============================================================================
