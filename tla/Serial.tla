------------------------------- MODULE Serial -------------------------------
(***************************************************************************)
(* The serial port (devices/serial.c), the input buffer (devices/input.c)  *)
(* and the interrupt queues they use (devices/intq.c).  Queue operations   *)
(* run with interrupts off and are broken only where a thread sleeps: for  *)
(* the queue's lock or for its condition.  Bytes are numbered in the order *)
(* they enter a queue.  A thread writes under the console lock, so at most *)
(* one thread waits for room in txq; interrupt handlers and code that has  *)
(* interrupts off write without it.                                        *)
(***************************************************************************)
EXTENDS Naturals, Sequences, FiniteSets

CONSTANTS Reader,  \* threads in input_getc
          Writer,  \* threads that print
          NULL,
          INTQ_BUFSIZE,
          MaxTx,   \* bound on the bytes written
          MaxRx    \* bound on the bytes received

ASSUME SerialAssumption ==
    /\ INTQ_BUFSIZE \in Nat /\ INTQ_BUFSIZE > 1
    /\ MaxTx \in Nat /\ MaxRx \in Nat
    /\ Reader \cap Writer = {} /\ NULL \notin Reader \cup Writer

VARIABLES txq, buffer,  \* the interrupt queues
          mode,         \* POLL, QUEUE
          ier,          \* the interrupts enabled in the port
          thr_full,     \* the port is sending a byte
          rbr_full,     \* the port has received a byte
          console,      \* holder of the console lock
          pc,
          line,         \* number of the last byte given to the port
          written,      \* number of the last byte written
          received,     \* number of the last byte put into buffer
          got           \* number of the last byte a reader got

vars == <<txq, buffer, mode, ier, thr_full, rbr_full, console, pc, line, written, received, got>>

Thread == Reader \cup Writer

-----------------------------------------------------------------------------
(* Interrupt queues.                                                       *)

next(pos) == (pos + 1) % INTQ_BUFSIZE

intq_empty(q) == q.head = q.tail

intq_full(q) == next(q.head) = q.tail

\* q after intq_getc and intq_putc have found a byte and room; a thread that waits
\* for the condition is woken.
Got(q) == [q EXCEPT !.tail = next(@), !.not_full = NULL]

Put(q, byte) == [q EXCEPT !.buf[q.head] = byte, !.head = next(@), !.not_empty = NULL]

\* The bytes of q, oldest first.
Bytes(q) ==
    LET n == (q.head + INTQ_BUFSIZE - q.tail) % INTQ_BUFSIZE
    IN  [i \in 1 .. n |-> q.buf[(q.tail + i - 1) % INTQ_BUFSIZE]]

\* signal: the threads in WS are unblocked.
Signal(ws, f) == [t \in Thread |-> IF t \in ws THEN "woken" ELSE f[t]]

\* Mutant: the transmit interrupt is enabled only for a full queue.
IerForFull(tx, rx) ==
    (IF intq_full(tx) THEN {"xmit"} ELSE {}) \cup (IF intq_full(rx) THEN {} ELSE {"recv"})

\* write_ier, once the queues are TX and RX
IerFor(tx, rx) ==
    (IF intq_empty(tx) THEN {} ELSE {"xmit"}) \cup (IF intq_full(rx) THEN {} ELSE {"recv"})

\* serial_notify
Notified(tx, rx) == IF mode = "QUEUE" THEN IerFor(tx, rx) ELSE ier

-----------------------------------------------------------------------------
(* input_getc                                                              *)

\* Once around the loop of intq_getc, the input buffer being q: a byte is there, or
\* the thread waits for one, or for the lock.
GetOrWait(t, q) ==
    \/ /\ ~intq_empty(q)
       /\ buffer' = Got(q)
       /\ got' = q.buf[q.tail]
       /\ ier' = Notified(txq, Got(q))
       /\ pc' = [pc EXCEPT ![t] = "idle"]
    \/ /\ intq_empty(q) /\ q.lock = NULL
       /\ buffer' = [q EXCEPT !.lock = t, !.not_empty = t]
       /\ pc' = [pc EXCEPT ![t] = "wait"]
       /\ UNCHANGED <<ier, got>>
    \/ /\ intq_empty(q) /\ q.lock # NULL
       /\ buffer' = q
       /\ pc' = [pc EXCEPT ![t] = "lock"]
       /\ UNCHANGED <<ier, got>>

input_getc(t) ==
    /\ pc[t] = "idle"
    /\ GetOrWait(t, buffer)
    /\ UNCHANGED <<txq, mode, thr_full, rbr_full, console, line, written, received>>

\* intq_getc gets the queue's lock after it had to wait for it, and calls wait, which
\* asserts that the queue is still empty.
getc_lock(t) ==
    /\ pc[t] = "lock"
    /\ buffer.lock = NULL
    /\ \/ /\ intq_empty(buffer)
          /\ buffer' = [buffer EXCEPT !.lock = t, !.not_empty = t]
          /\ pc' = [pc EXCEPT ![t] = "wait"]
       \/ /\ ~intq_empty(buffer)
          /\ buffer' = [buffer EXCEPT !.lock = t]
          /\ pc' = [pc EXCEPT ![t] = "panic"]
    /\ UNCHANGED <<txq, mode, ier, thr_full, rbr_full, console, line, written, received, got>>

\* The reader runs again: lock_release, and around the loop.
getc_woken(t) ==
    /\ pc[t] = "woken"
    /\ GetOrWait(t, [buffer EXCEPT !.lock = NULL])
    /\ UNCHANGED <<txq, mode, thr_full, rbr_full, console, line, written, received>>

-----------------------------------------------------------------------------
(* Writing.                                                                *)

acquire_console(t) ==
    /\ pc[t] = "idle"
    /\ console = NULL
    /\ console' = t
    /\ pc' = [pc EXCEPT ![t] = "print"]
    /\ UNCHANGED <<txq, buffer, mode, ier, thr_full, rbr_full, line, written, received, got>>

release_console(t) ==
    /\ pc[t] = "print"
    /\ console' = NULL
    /\ pc' = [pc EXCEPT ![t] = "idle"]
    /\ UNCHANGED <<txq, buffer, mode, ier, thr_full, rbr_full, line, written, received, got>>

\* Once around the loop of intq_putc in serial_putc, txq being q.
PutOrWait(t, q) ==
    \/ /\ ~intq_full(q)
       /\ txq' = Put(q, written + 1)
       /\ written' = written + 1
       /\ ier' = IerFor(Put(q, written + 1), buffer)
       /\ pc' = [pc EXCEPT ![t] = "print"]
    \/ /\ intq_full(q)
       /\ txq' = [q EXCEPT !.lock = t, !.not_full = t]
       /\ pc' = [pc EXCEPT ![t] = "wait"]
       /\ UNCHANGED <<ier, written>>

\* putc_poll waits for the port and gives it byte N.
Poll(n) == line' = n /\ thr_full' = TRUE

serial_putc(t) ==
    /\ pc[t] = "print"
    /\ written < MaxTx
    /\ \/ mode = "QUEUE" /\ PutOrWait(t, txq) /\ UNCHANGED <<thr_full, line>>
       \/ /\ mode = "POLL"
          /\ Poll(written + 1)
          /\ written' = written + 1
          /\ UNCHANGED <<txq, ier, pc>>
    /\ UNCHANGED <<buffer, mode, rbr_full, console, received, got>>

\* The writer runs again: lock_release, and around the loop.
putc_woken(t) ==
    /\ pc[t] = "woken"
    /\ written < MaxTx
    /\ PutOrWait(t, [txq EXCEPT !.lock = NULL])
    /\ UNCHANGED <<buffer, mode, thr_full, rbr_full, console, line, received, got>>

\* Mutant: a full queue is bypassed.
serial_putc_bypass ==
    /\ mode = "QUEUE"
    /\ written < MaxTx
    /\ written' = written + 1
    /\ \/ /\ intq_full(txq)
          /\ Poll(written + 1)
          /\ UNCHANGED <<txq, ier, pc>>
       \/ /\ ~intq_full(txq)
          /\ txq' = Put(txq, written + 1)
          /\ ier' = IerFor(txq', buffer)
          /\ UNCHANGED <<pc, line, thr_full>>
    /\ UNCHANGED <<buffer, mode, rbr_full, console, received, got>>

\* serial_putc with interrupts off: a byte is sent by polling if there is no room.
serial_putc_off ==
    /\ mode = "QUEUE"
    /\ written < MaxTx
    /\ written' = written + 1
    /\ \/ /\ intq_full(txq)
          /\ Poll(txq.buf[txq.tail])
          /\ pc' = Signal({txq.not_full}, pc)
          /\ txq' = Put(Got(txq), written + 1)
       \/ /\ ~intq_full(txq)
          /\ txq' = Put(txq, written + 1)
          /\ UNCHANGED <<pc, line, thr_full>>
    /\ ier' = IerFor(txq', buffer)
    /\ UNCHANGED <<buffer, mode, rbr_full, console, received, got>>

\* serial_flush, at power off and in a panic; it does not write the enable register.
serial_flush ==
    /\ ~intq_empty(txq)
    /\ Poll(Bytes(txq)[Len(Bytes(txq))])
    /\ txq' = [txq EXCEPT !.tail = txq.head, !.not_full = NULL]
    /\ pc' = Signal({txq.not_full}, pc)
    /\ UNCHANGED <<buffer, mode, ier, rbr_full, console, written, received, got>>

serial_init_queue ==
    /\ mode = "POLL"
    /\ mode' = "QUEUE"
    /\ ier' = IerFor(txq, buffer)
    /\ UNCHANGED <<txq, buffer, thr_full, rbr_full, console, pc, line, written, received, got>>

-----------------------------------------------------------------------------
(* Interrupts and the port.                                                *)

\* Mutant: the enable register is left alone by the handler.
IerKept(tx, rx) == ier

\* What the handler leaves in the enable register.
IerAfter(tx, rx) == IerFor(tx, rx)

\* serial_interrupt: receive a byte if there is room for it, send one if there is
\* one to send, update the enable register.
serial_interrupt ==
    LET rx == rbr_full /\ ~intq_full(buffer)
        tx == ~thr_full /\ ~intq_empty(txq)
    IN  /\ mode = "QUEUE"
        /\ (~thr_full /\ "xmit" \in ier) \/ (rbr_full /\ "recv" \in ier)
        /\ buffer' = IF rx THEN Put(buffer, received + 1) ELSE buffer
        /\ received' = IF rx THEN received + 1 ELSE received
        /\ rbr_full' = (rbr_full /\ ~rx)
        /\ txq' = IF tx THEN Got(txq) ELSE txq
        /\ line' = IF tx THEN txq.buf[txq.tail] ELSE line
        /\ thr_full' = (thr_full \/ tx)
        /\ pc' = Signal((IF rx THEN {buffer.not_empty} ELSE {}) \cup
                        (IF tx THEN {txq.not_full} ELSE {}), pc)
        /\ ier' = IerAfter(txq', buffer')
        /\ UNCHANGED <<mode, console, written, got>>

\* The bytes received or in the port, for the bound.
Pending == received + (IF rbr_full THEN 1 ELSE 0)

\* keyboard_interrupt with a key that makes a character: dropped if there is no room.
keyboard_interrupt ==
    /\ ~intq_full(buffer)
    /\ Pending < MaxRx
    /\ received' = received + 1
    /\ buffer' = Put(buffer, received + 1)
    /\ pc' = Signal({buffer.not_empty}, pc)
    /\ ier' = Notified(txq, buffer')
    /\ UNCHANGED <<txq, mode, thr_full, rbr_full, console, line, written, got>>

\* The port has sent its byte.
port_sent == thr_full /\ thr_full' = FALSE /\ UNCHANGED
    <<txq, buffer, mode, ier, rbr_full, console, pc, line, written, received, got>>

\* The port receives a byte, over one that was not read in time.
port_receives == received < MaxRx /\ rbr_full' = TRUE /\ UNCHANGED
    <<txq, buffer, mode, ier, thr_full, console, pc, line, written, received, got>>

-----------------------------------------------------------------------------
\* intq_init, and init_poll: the first output is polled.
NewQueue == [buf |-> [i \in 0 .. INTQ_BUFSIZE - 1 |-> 0], head |-> 0, tail |-> 0,
             lock |-> NULL, not_full |-> NULL, not_empty |-> NULL]

Init ==
    /\ txq = NewQueue /\ buffer = NewQueue
    /\ mode = "POLL" /\ ier = {}
    /\ thr_full = FALSE /\ rbr_full = FALSE
    /\ console = NULL
    /\ pc = [t \in Thread |-> "idle"]
    /\ line = 0 /\ written = 0 /\ received = 0 /\ got = 0

Panicked == \E t \in Thread : pc[t] = "panic"

Next ==
    /\ ~Panicked
    /\ \/ \E t \in Reader : input_getc(t) \/ getc_lock(t) \/ getc_woken(t)
       \/ \E t \in Writer :
            acquire_console(t) \/ release_console(t) \/ serial_putc(t) \/ putc_woken(t)
       \/ serial_putc_off \/ serial_flush \/ serial_init_queue
       \/ serial_interrupt \/ keyboard_interrupt \/ port_sent \/ port_receives

Spec == Init /\ [][Next]_vars

\* The port keeps sending, its interrupts are taken, and threads that can run do.
FairSpec ==
    /\ Spec
    /\ WF_vars(port_sent) /\ WF_vars(serial_interrupt)
    /\ \A t \in Reader : WF_vars(getc_woken(t))
    /\ \A t \in Writer : WF_vars(putc_woken(t))

-----------------------------------------------------------------------------
(* Properties.                                                             *)

QueueType(q) ==
    /\ q.head \in 0 .. INTQ_BUFSIZE - 1 /\ q.tail \in 0 .. INTQ_BUFSIZE - 1
    /\ {q.lock, q.not_full, q.not_empty} \subseteq Thread \cup {NULL}

\* The variables have their types; positions stay inside the buffer.
TypeOK ==
    /\ QueueType(txq) /\ QueueType(buffer)
    /\ mode \in {"POLL", "QUEUE"} /\ ier \subseteq {"xmit", "recv"}
    /\ thr_full \in BOOLEAN /\ rbr_full \in BOOLEAN
    /\ console \in Writer \cup {NULL}
    /\ pc \in [Thread -> {"idle", "lock", "wait", "woken", "print", "panic"}]
    /\ line \in 0 .. MaxTx /\ written \in 0 .. MaxTx
    /\ received \in 0 .. MaxRx /\ got \in 0 .. MaxRx

\* Bytes leave for the port in the order they were written and reach readers in the
\* order they came, none lost or twice: each queue holds exactly the bytes between.
InOrder ==
    /\ TypeOK
    /\ Bytes(txq) = [i \in 1 .. written - line |-> line + i]
    /\ Bytes(buffer) = [i \in 1 .. received - got |-> got + i]

\* A byte or room is never missed: a thread sleeps in wait only while its condition is
\* false and the queue knows the thread, and in queued mode the port's interrupts are
\* enabled whenever there is something to send, and for receiving exactly when there is
\* room.
NoMissedSignal ==
    /\ \A t \in Thread :
           pc[t] = "wait" =>
               \/ t \in Reader /\ buffer.not_empty = t /\ buffer.lock = t /\ intq_empty(buffer)
               \/ t \in Writer /\ txq.not_full = t /\ txq.lock = t /\ intq_full(txq)
    /\ mode = "QUEUE" =>
           /\ ~intq_empty(txq) => "xmit" \in ier
           /\ "recv" \in ier <=> ~intq_full(buffer)

\* Every byte written is sent in the end, and a writer that waits for room gets it.
Drains ==
    /\ \A n \in 1 .. MaxTx : (mode = "QUEUE" /\ written >= n) ~> (line >= n)
    /\ \A t \in Writer : (pc[t] = "wait") ~> (pc[t] # "wait")

=============================================================================
