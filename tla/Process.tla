------------------------------ MODULE Process ------------------------------
(***************************************************************************)
(* Exec, wait and exit of user processes (userprog/process.c, thread_exit  *)
(* of threads/thread.c, the exits of userprog/syscall.c and exception.c).  *)
(*                                                                         *)
(* A process lives in one page, its struct thread, with four locks:        *)
(*   exec   held by the child until its program is loaded                  *)
(*   wait   held by the child until it exits                               *)
(*   exit   taken by the parent in process_execute, so that the child      *)
(*          stays until process_wait has read its status                   *)
(*   exit2  held by the child until it is off all_list                     *)
(* A dead process's page is filled with 0xcc and may be given to another   *)
(* process while a thread still waits on a lock inside it.  All processes  *)
(* have priority PRI_DEFAULT, so the running ones interleave freely; an    *)
(* action is one lock operation or one stretch of code around them.        *)
(***************************************************************************)
EXTENDS Naturals, Sequences, FiniteSets

CONSTANTS Page,     \* pages that may hold a struct thread
          main,     \* the page of the initial thread
          first,    \* the page of the process main runs
          NULL,
          MaxTid    \* bound: tids are 1 .. MaxTid

LockName == {"exec", "wait", "exit", "exit2"}
Tid == 1 .. MaxTid
TID_ERROR == 0
Status == {"zero", "error", "code"}  \* exit_status: 0, -1, any other

ASSUME ProcessAssumption ==
    /\ main \in Page /\ first \in Page /\ main # first
    /\ NULL \notin Page
    /\ MaxTid \in Nat /\ MaxTid >= 2

VARIABLES tid,          \* tid of the process in each page, 0 for a free page
          next_tid,     \* allocate_tid
          exit_soon, exit_status,
          value,        \* per page and lock: 0, 1, or 2 for a freed page's 0xcccccccc
          holder, waiters,
          pc,           \* what the process is about to do
          mode,         \* inside lock_acquire: run, blocked, retry (woken), took
          ptr,          \* the page whose lock it is acquiring
          tgt,          \* tid it is executing or waiting for
          res,          \* process_wait's exit_status
          panic,        \* where the kernel panicked
          kids,         \* history: tids process_execute returned, not yet waited for
          ended         \* history: how each tid's process ended

locks == <<value, holder, waiters>>
history == <<kids, ended>>
vars == <<tid, next_tid, exit_soon, exit_status, locks, pc, mode, ptr, tgt, res,
          panic, history>>

-----------------------------------------------------------------------------
\* thread_from_tid: the page on all_list with tid n, or NULL.
thread_from_tid(n) ==
    IF \E p \in Page : tid[p] = n /\ n # TID_ERROR
    THEN CHOOSE p \in Page : tid[p] = n ELSE NULL

\* Where a lock is acquired, the lock, and where the thread is afterwards.
LockAt == [e_exit |-> "exit", e_exec |-> "exec", w_wait |-> "wait",
           w_exit2 |-> "exit2", x_exit |-> "exit"]
After == [e_exit |-> "e_exec", e_exec |-> "e_ret", w_wait |-> "w_read",
          w_exit2 |-> "w_ret", x_exit |-> "x_die"]
Acquiring == DOMAIN LockAt

At(t, place) == panic = "no" /\ tid[t] # 0 /\ pc[t] = place /\ mode[t] = "run"

Goto(t, place) == pc' = [pc EXCEPT ![t] = place]

Panic(place) == panic' = place

\* lock_release (&p->lock k): clear the holder, up the semaphore.
Release(p, k) ==
    /\ holder' = [holder EXCEPT ![p][k] = NULL]
    /\ value' = [value EXCEPT ![p][k] = @ + 1]
    /\ IF waiters[p][k] = <<>> THEN UNCHANGED <<waiters, mode>>
       ELSE /\ waiters' = [waiters EXCEPT ![p][k] = Tail(@)]
            /\ mode' = [mode EXCEPT ![Head(waiters[p][k])] = "retry"]

\* One round of sema_down in lock_acquire (&p->lock k).
Round(t, p, k) ==
    \/ /\ value[p][k] > 0
       /\ value' = [value EXCEPT ![p][k] = IF @ = 1 THEN 0 ELSE @]
       /\ mode' = [mode EXCEPT ![t] = "took"]
       /\ UNCHANGED waiters
    \/ /\ value[p][k] = 0
       /\ waiters' = [waiters EXCEPT ![p][k] = Append(@, t)]
       /\ mode' = [mode EXCEPT ![t] = "blocked"]
       /\ UNCHANGED value

\* The page a lock is acquired in: the process's own, or that of the tid it is
\* busy with, looked up anew at every use.
Target(t) == IF pc[t] = "x_exit" THEN t ELSE thread_from_tid(tgt[t])

\* lock_acquire, up to the first round of sema_down.
lock_acquire(t) ==
    /\ \E place \in Acquiring : At(t, place)
    /\ LET p == Target(t)  k == LockAt[pc[t]] IN
         \/ /\ p = NULL \/ (p # NULL /\ holder[p][k] = t)
            /\ Panic(pc[t])
            /\ UNCHANGED <<value, waiters, mode, ptr>>
         \/ /\ p # NULL /\ holder[p][k] # t
            /\ ptr' = [ptr EXCEPT ![t] = p]
            /\ Round(t, p, k)
            /\ UNCHANGED panic
    /\ UNCHANGED <<tid, next_tid, exit_soon, exit_status, holder, pc, tgt, res, history>>

\* A woken thread tries again, in a page that may have been freed since.
lock_retry(t) ==
    /\ panic = "no" /\ tid[t] # 0 /\ mode[t] = "retry"
    /\ Round(t, ptr[t], LockAt[pc[t]])
    /\ UNCHANGED <<tid, next_tid, exit_soon, exit_status, holder, pc, ptr, tgt, res,
                   panic, history>>

\* The write of `holder' at the end of lock_acquire.
lock_hold(t) ==
    /\ panic = "no" /\ tid[t] # 0 /\ mode[t] = "took"
    /\ holder' = [holder EXCEPT ![ptr[t]][LockAt[pc[t]]] = t]
    /\ mode' = [mode EXCEPT ![t] = "run"]
    /\ ptr' = [ptr EXCEPT ![t] = NULL]
    /\ Goto(t, After[pc[t]])
    /\ UNCHANGED <<tid, next_tid, exit_soon, exit_status, value, waiters, tgt, res,
                   panic, history>>

-----------------------------------------------------------------------------
(* process_execute                                                         *)

\* Up to thread_create: the child's page is zeroed and initialised, the child
\* holds exec, wait and exit2.
process_execute(t, p) ==
    /\ At(t, "user") /\ t # main
    /\ tid[p] = 0 /\ next_tid <= MaxTid
    /\ tid' = [tid EXCEPT ![p] = next_tid]
    /\ next_tid' = next_tid + 1
    /\ exit_soon' = [exit_soon EXCEPT ![p] = FALSE]
    /\ exit_status' = [exit_status EXCEPT ![p] = "zero"]
    /\ value' = [value EXCEPT ![p] = [k \in LockName |-> IF k = "exit" THEN 1 ELSE 0]]
    /\ holder' = [holder EXCEPT ![p] = [k \in LockName |-> IF k = "exit" THEN NULL ELSE p]]
    /\ waiters' = [waiters EXCEPT ![p] = [k \in LockName |-> <<>>]]
    /\ pc' = [pc EXCEPT ![t] = "e_soon", ![p] = "load"]
    /\ tgt' = [tgt EXCEPT ![t] = next_tid]
    /\ UNCHANGED <<mode, ptr, res, panic, history>>

\* thread_create finds no page and returns TID_ERROR.
process_execute_full(t) ==
    /\ At(t, "user") /\ t # main
    /\ \A p \in Page : tid[p] # 0
    /\ tgt' = [tgt EXCEPT ![t] = TID_ERROR]
    /\ Goto(t, "e_soon")
    /\ UNCHANGED <<tid, next_tid, exit_soon, exit_status, locks, mode, ptr, res, panic,
                   history>>

\* Mutant: process_execute does not take the child's lock_exit.
clear_exit_soon_only(t) ==
    /\ At(t, "e_soon")
    /\ thread_from_tid(tgt[t]) # NULL
    /\ exit_soon' = [exit_soon EXCEPT ![thread_from_tid(tgt[t])] = FALSE]
    /\ Goto(t, "e_exec")
    /\ UNCHANGED <<tid, next_tid, exit_status, locks, mode, ptr, tgt, res, panic, history>>

\* thread_from_tid (tid)->exit_soon = false
clear_exit_soon(t) ==
    /\ At(t, "e_soon")
    /\ LET p == thread_from_tid(tgt[t]) IN
         \/ /\ p = NULL
            /\ Panic("e_soon")
            /\ UNCHANGED <<exit_soon, pc>>
         \/ /\ p # NULL
            /\ exit_soon' = [exit_soon EXCEPT ![p] = FALSE]
            /\ Goto(t, "e_exit")
            /\ UNCHANGED panic
    /\ UNCHANGED <<tid, next_tid, exit_status, locks, mode, ptr, tgt, res, history>>

\* The end of process_execute: TID_ERROR if the child is gone or will be soon.
execute_return(t) ==
    /\ At(t, "e_ret")
    /\ LET p == thread_from_tid(tgt[t]) IN
         IF p = NULL \/ (p # NULL /\ exit_soon[p]) THEN UNCHANGED kids
         ELSE kids' = [kids EXCEPT ![t] = @ \cup {tgt[t]}]
    /\ Goto(t, "user")
    /\ tgt' = [tgt EXCEPT ![t] = TID_ERROR]
    /\ UNCHANGED <<tid, next_tid, exit_soon, exit_status, locks, mode, ptr, res, panic,
                   ended>>

-----------------------------------------------------------------------------
(* start_process                                                           *)

\* load succeeds: the child lets go of exec and enters user mode.
start_process(t) ==
    /\ At(t, "load")
    /\ holder[t]["exec"] = t
    /\ Release(t, "exec")
    /\ Goto(t, "user")
    /\ UNCHANGED <<tid, next_tid, exit_soon, exit_status, ptr, tgt, res, panic, history>>

\* load fails after the executable was opened.
load_failed(t) ==
    /\ At(t, "load")
    /\ exit_status' = [exit_status EXCEPT ![t] = "error"]
    /\ exit_soon' = [exit_soon EXCEPT ![t] = TRUE]
    /\ ended' = [ended EXCEPT ![tid[t]] = "unloaded"]
    /\ Goto(t, "l_rel")
    /\ UNCHANGED <<tid, next_tid, locks, mode, ptr, tgt, res, panic, kids>>

load_failed_release(t) ==
    /\ At(t, "l_rel")
    /\ holder[t]["exec"] = t
    /\ Release(t, "exec")
    /\ Goto(t, "x_wait")
    /\ UNCHANGED <<tid, next_tid, exit_soon, exit_status, ptr, tgt, res, panic, history>>

\* load fails before it has opened the executable: file_deny_write (NULL).
load_unopened(t) ==
    /\ At(t, "load")
    /\ Panic("load")
    /\ UNCHANGED <<tid, next_tid, exit_soon, exit_status, locks, pc, mode, ptr, tgt, res,
                   history>>

\* lock_release asserts that the caller holds the lock: a child whose lock was
\* written to by a thread still busy with the page's last owner fails there.
release_assert(t) ==
    /\ \/ (At(t, "load") \/ At(t, "l_rel")) /\ holder[t]["exec"] # t
       \/ At(t, "x_wait") /\ holder[t]["wait"] # t
       \/ At(t, "x_die") /\ holder[t]["exit2"] # t
    /\ Panic("release")
    /\ UNCHANGED <<tid, next_tid, exit_soon, exit_status, locks, pc, mode, ptr, tgt, res,
                   history>>

-----------------------------------------------------------------------------
(* process_wait                                                            *)

\* Mutant: process_wait reads the status without acquiring lock_wait.
process_wait_unlocked(t, n) ==
    /\ At(t, "user") /\ t # main
    /\ n < next_tid
    /\ thread_from_tid(n) # NULL
    /\ kids' = [kids EXCEPT ![t] = @ \ {n}]
    /\ Goto(t, "w_read")
    /\ tgt' = [tgt EXCEPT ![t] = n]
    /\ UNCHANGED <<tid, next_tid, exit_soon, exit_status, locks, mode, ptr, res, panic,
                   ended>>

\* The tests at the start: an invalid or finished tid returns -1.
process_wait(t, n) ==
    /\ At(t, "user") /\ t # main
    /\ n < next_tid
    /\ kids' = [kids EXCEPT ![t] = @ \ {n}]
    /\ IF thread_from_tid(n) = NULL THEN UNCHANGED <<pc, tgt>>
       ELSE Goto(t, "w_wait") /\ tgt' = [tgt EXCEPT ![t] = n]
    /\ UNCHANGED <<tid, next_tid, exit_soon, exit_status, locks, mode, ptr, res, panic,
                   ended>>

\* exit_status = thread_from_tid (child_tid)->exit_status
read_status(t) ==
    /\ At(t, "w_read")
    /\ LET p == thread_from_tid(tgt[t]) IN
         \/ /\ p = NULL
            /\ Panic("w_read")
            /\ UNCHANGED <<res, pc>>
         \/ /\ p # NULL
            /\ res' = [res EXCEPT ![t] = exit_status[p]]
            /\ Goto(t, "w_rel")
            /\ UNCHANGED panic
    /\ UNCHANGED <<tid, next_tid, exit_soon, exit_status, locks, mode, ptr, tgt, history>>

\* lock_release (&thread_from_tid (child_tid)->lock_exit)
release_exit(t) ==
    /\ At(t, "w_rel")
    /\ LET p == thread_from_tid(tgt[t]) IN
         \/ /\ p = NULL \/ (p # NULL /\ holder[p]["exit"] # t)
            /\ Panic("w_rel")
            /\ UNCHANGED <<locks, mode, pc>>
         \/ /\ p # NULL /\ holder[p]["exit"] = t
            /\ Release(p, "exit")
            /\ Goto(t, "w_exit2")
            /\ UNCHANGED panic
    /\ UNCHANGED <<tid, next_tid, exit_soon, exit_status, ptr, tgt, res, history>>

wait_return(t) ==
    /\ At(t, "w_ret")
    /\ Goto(t, IF t = main THEN "done" ELSE "user")
    /\ tgt' = [tgt EXCEPT ![t] = TID_ERROR]
    /\ UNCHANGED <<tid, next_tid, exit_soon, exit_status, locks, mode, ptr, res, panic,
                   history>>

-----------------------------------------------------------------------------
(* The ends of a process, and thread_exit                                  *)

Ends(t, how, s) ==
    /\ At(t, "user") /\ t # main
    /\ exit_status' = [exit_status EXCEPT ![t] = s]
    /\ ended' = [ended EXCEPT ![tid[t]] = how]
    /\ Goto(t, "x_wait")
    /\ UNCHANGED <<tid, next_tid, exit_soon, locks, mode, ptr, tgt, res, panic, kids>>

\* sys_exit
sys_exit(t, s) == Ends(t, s, s)

\* page_fault and terminate_process set the status to -1; the other exceptions
\* reach kill, which leaves it alone.
page_fault(t) == Ends(t, "killed", "error")
kill(t) == Ends(t, "killed", exit_status[t])

\* thread_exit: lock_release (&lock_wait); then the test of exit_soon.
exit_release_wait(t) ==
    /\ At(t, "x_wait")
    /\ holder[t]["wait"] = t
    /\ Release(t, "wait")
    /\ Goto(t, "x_soon")
    /\ UNCHANGED <<tid, next_tid, exit_soon, exit_status, ptr, tgt, res, panic, history>>

exit_test_soon(t) ==
    /\ At(t, "x_soon")
    /\ Goto(t, IF exit_soon[t] THEN "x_die" ELSE "x_exit")
    /\ UNCHANGED <<tid, next_tid, exit_soon, exit_status, locks, mode, ptr, tgt, res,
                   panic, history>>

\* Mutant: lock_exit2 is not released.
exit_die_holding(t) ==
    /\ At(t, "x_die")
    /\ tid' = [tid EXCEPT ![t] = 0]
    /\ value' = [value EXCEPT ![t] = [k \in LockName |-> 2]]
    /\ holder' = [holder EXCEPT ![t] = [k \in LockName |-> NULL]]
    /\ waiters' = [waiters EXCEPT ![t] = [k \in LockName |-> <<>>]]
    /\ kids' = [kids EXCEPT ![t] = {}]
    /\ pc' = [pc EXCEPT ![t] = "none"]
    /\ UNCHANGED <<next_tid, exit_soon, exit_status, mode, ptr, tgt, res, panic, ended>>

\* The rest runs with interrupts off: exit2 is released, the process leaves
\* all_list, and the next thread frees its page, which palloc fills with 0xcc.
\* A thread still on a waiters list in the page is never woken.
exit_die(t) ==
    /\ At(t, "x_die")
    /\ holder[t]["exit2"] = t
    /\ IF waiters[t]["exit2"] = <<>> THEN UNCHANGED mode
       ELSE mode' = [mode EXCEPT ![Head(waiters[t]["exit2"])] = "retry"]
    /\ tid' = [tid EXCEPT ![t] = 0]
    /\ value' = [value EXCEPT ![t] = [k \in LockName |-> 2]]
    /\ holder' = [holder EXCEPT ![t] = [k \in LockName |-> NULL]]
    /\ waiters' = [waiters EXCEPT ![t] = [k \in LockName |-> <<>>]]
    /\ exit_soon' = [exit_soon EXCEPT ![t] = FALSE]
    /\ exit_status' = [exit_status EXCEPT ![t] = "zero"]
    /\ kids' = [kids EXCEPT ![t] = {}]
    /\ pc' = [pc EXCEPT ![t] = "none"]
    /\ res' = [res EXCEPT ![t] = "zero"]
    /\ UNCHANGED <<next_tid, ptr, tgt, panic, ended>>

-----------------------------------------------------------------------------
\* main has executed the first process and waits for it.
Init ==
    /\ tid = [p \in Page |-> IF p = main THEN 1 ELSE IF p = first THEN 2 ELSE 0]
    /\ next_tid = 3
    /\ exit_soon = [p \in Page |-> FALSE]
    /\ exit_status = [p \in Page |-> "zero"]
    /\ value = [p \in Page |-> [k \in LockName |->
                  IF p = main /\ k = "exit" THEN 1 ELSE IF tid[p] = 0 THEN 2 ELSE 0]]
    /\ holder = [p \in Page |-> [k \in LockName |->
                  IF p = main /\ k # "exit" THEN main
                  ELSE IF p = first THEN (IF k \in {"exec", "exit"} THEN main ELSE first)
                  ELSE NULL]]
    /\ waiters = [p \in Page |-> [k \in LockName |->
                  IF p = first /\ k = "wait" THEN <<main>> ELSE <<>>]]
    /\ pc = [p \in Page |-> IF p = main THEN "w_wait" ELSE IF p = first THEN "user" ELSE "none"]
    /\ mode = [p \in Page |-> IF p = main THEN "blocked" ELSE "run"]
    /\ ptr = [p \in Page |-> IF p = main THEN first ELSE NULL]
    /\ tgt = [p \in Page |-> IF p = main THEN 2 ELSE TID_ERROR]
    /\ res = [p \in Page |-> "zero"]
    /\ panic = "no"
    /\ kids = [p \in Page |-> {}]
    /\ ended = [n \in Tid |-> "no"]

\* What a process does because its program asks for it.
Program(t) ==
    \/ \E p \in Page : process_execute(t, p)
    \/ process_execute_full(t)
    \/ \E n \in Tid : process_wait(t, n)
    \/ \E s \in {"zero", "code"} : sys_exit(t, s)
    \/ page_fault(t) \/ kill(t)

\* What the kernel goes on to do by itself.
Kernel(t) ==
    \/ lock_acquire(t) \/ lock_retry(t) \/ lock_hold(t)
    \/ clear_exit_soon(t) \/ execute_return(t)
    \/ start_process(t) \/ load_failed(t) \/ load_failed_release(t) \/ load_unopened(t)
    \/ release_assert(t)
    \/ read_status(t) \/ release_exit(t) \/ wait_return(t)
    \/ exit_release_wait(t) \/ exit_test_soon(t) \/ exit_die(t)

Next == \E t \in Page : Program(t) \/ Kernel(t)

Spec == Init /\ [][Next]_vars

\* Processes run at one priority and thread_tick ends every time slice, so a process
\* inside the kernel that is not blocked goes on.
FairSpec == Spec /\ \A t \in Page : WF_vars(Kernel(t))

-----------------------------------------------------------------------------
(* Properties.                                                             *)

\* The variables have their types.
TypeOK ==
    /\ tid \in [Page -> 0 .. MaxTid]
    /\ next_tid \in 3 .. MaxTid + 1
    /\ exit_soon \in [Page -> BOOLEAN]
    /\ exit_status \in [Page -> Status]
    /\ value \in [Page -> [LockName -> 0 .. 2]]
    /\ holder \in [Page -> [LockName -> Page \cup {NULL}]]
    /\ \A p \in Page, k \in LockName : waiters[p][k] \in Seq(Page)
    /\ mode \in [Page -> {"run", "blocked", "retry", "took"}]
    /\ ptr \in [Page -> Page \cup {NULL}]
    /\ tgt \in [Page -> 0 .. MaxTid]
    /\ res \in [Page -> Status]
    /\ kids \in [Page -> SUBSET Tid]
    /\ ended \in [Tid -> Status \cup {"no", "killed", "unloaded"}]

\* process_wait never reports a status its child did not exit with: the status it
\* has read is the one the child gave to exit, whatever was preempted, exited or
\* reallocated meanwhile.
StatusDelivered ==
    /\ TypeOK
    /\ \A t \in Page : tid[t] # 0 /\ pc[t] \in {"w_rel", "w_exit2", "w_ret"} =>
           /\ ended[tgt[t]] # "no"
           /\ ended[tgt[t]] \in Status => res[t] = ended[tgt[t]]
           /\ ended[tgt[t]] = "unloaded" => res[t] = "error"

\* A child that was loaded and whose tid process_execute has returned stays on
\* all_list until its parent calls process_wait, so that its status is not lost
\* (the parent holds the child's lock_exit).
StatusKept ==
    \A t \in Page : \A n \in kids[t] :
        panic = "no" /\ ended[n] # "unloaded" => thread_from_tid(n) # NULL

\* Both: the status a child exits with is there for its parent, and is what it gets.
StatusExact == StatusDelivered /\ StatusKept

\* A parent that waits for its child to leave all_list (lock_exit2) gets on: the
\* child releases the lock on its way out, and in a page that is free the parent
\* finds a semaphore of 0xcccccccc.  Only once a page has gone to a new process
\* while a thread was acquiring a lock in it may parents wait in vain.
Moved(t) == ptr[t] # NULL /\ tid[ptr[t]] \notin {0, tgt[t]}

WaitReturns ==
    \A t \in Page :
        At(t, "w_exit2") ~> pc[t] # "w_exit2" \/ panic # "no" \/ \E u \in Page : Moved(u)

\* process_wait's comment: it "[w]aits for thread TID to die and returns its exit
\* status"; only a parent gets as far as lock_exit2.
WaitOutlivesChild == panic # "w_exit2"

=============================================================================
