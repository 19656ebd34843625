---------------------------- MODULE ProcessProofs ---------------------------
(***************************************************************************)
(* Proofs about Process, for any number of pages and tids: what a parent   *)
(* learns about its child from process_wait.                               *)
(***************************************************************************)
EXTENDS Process, SequenceTheorems, TLAPS

Place == {"none", "user", "load", "l_rel", "e_soon", "e_exit", "e_exec", "e_ret", "w_wait",
          "w_read", "w_rel", "w_exit2", "w_ret", "x_wait", "x_soon", "x_exit", "x_die", "done"}

\* A process that has ended, and one that has let go of its lock_wait.
Ending == {"l_rel", "x_wait", "x_soon", "x_exit", "x_die"}
Gone == {"x_soon", "x_exit", "x_die"}

\* Where a process is busy with another.
Busy == {"e_exit", "e_exec", "e_ret", "w_wait", "w_read", "w_rel", "w_exit2", "w_ret"}

ProcessType ==
    /\ TypeOK
    /\ waiters \in [Page -> [LockName -> Seq(Page)]]
    /\ pc \in [Page -> Place]

\* Tids are given out once.
TidInv ==
    /\ \A p, q \in Page : tid[p] = tid[q] /\ tid[p] # 0 => p = q
    /\ \A p \in Page : tid[p] < next_tid /\ tgt[p] < next_tid
    /\ \A p \in Page : \A n \in kids[p] : n < next_tid
    /\ \A n \in Tid : n >= next_tid => ended[n] = "no"

\* A page without a process is in nobody's way.
DeadInv == \A t \in Page : tid[t] = 0 => mode[t] = "run" /\ pc[t] = "none" /\ kids[t] = {}

\* A thread inside lock_acquire points to its own page or to the one its target lives in,
\* if that is still there.
AcquireInv ==
    /\ \A t \in Page : mode[t] # "run" =>
          /\ pc[t] \in Acquiring /\ ptr[t] \in Page
          /\ pc[t] = "x_exit" => ptr[t] = t
          /\ pc[t] # "x_exit" => \A p \in Page : tid[p] = tgt[t] => ptr[t] = p
    /\ \A t \in Page : pc[t] \in Busy => tgt[t] # 0

\* The lists of waiters hold blocked threads, once each.
ListInv ==
    \A p \in Page, k \in LockName :
       /\ \A i \in DOMAIN waiters[p][k] :
             LET t == waiters[p][k][i]
             IN  mode[t] = "blocked" /\ ptr[t] = p /\ LockAt[pc[t]] = k
       /\ \A i, j \in DOMAIN waiters[p][k] : waiters[p][k][i] = waiters[p][k][j] => i = j

\* The status of a process that has ended is its last.
EndInv ==
    \A p \in Page : tid[p] # 0 =>
          /\ ended[tid[p]] = "no" <=> pc[p] \notin Ending
          /\ ended[tid[p]] \in Status => exit_status[p] = ended[tid[p]]
          /\ ended[tid[p]] = "unloaded" => exit_status[p] = "error"
          /\ exit_soon[p] => ended[tid[p]] = "unloaded"

\* A process keeps its lock_exec until it is loaded and its lock_wait until it ends, so
\* whoever gets lock_wait waited for that.
WaitInv ==
    /\ \A p \in Page : tid[p] # 0 =>
          /\ \A k \in LockName : value[p][k] \in {0, 1}
          /\ pc[p] \in {"load", "l_rel"} => value[p]["exec"] = 0
          /\ pc[p] \notin Gone => value[p]["wait"] = 0
    /\ \A t \in Page : mode[t] = "took" /\ pc[t] = "w_wait" /\ tid[ptr[t]] = tgt[t]
                       => pc[ptr[t]] \in Gone
    /\ \A t, p \in Page : pc[t] = "w_read" /\ tid[p] = tgt[t] => pc[p] \in Gone

\* A thread whose child died while it was about to become the holder of the child's
\* lock_exit: the next thing it does is to panic.  Until then it may be written down as
\* the holder of the lock_exit of another process in the child's page.
Stale ==
    {t \in Page : tid[t] # 0 /\ pc[t] = "e_exec" /\ mode[t] = "run" /\ \A p \in Page : tid[p] # tgt[t]}

Unheld(p) == holder[p]["exit"] \in Stale \cup {NULL}

\* t has taken the lock_exit of p and is not yet its holder.
Takes(t, p) ==
    /\ mode[t] = "took" /\ ptr[t] = p
    /\ pc[t] = "x_exit" \/ (pc[t] = "e_exit" /\ tgt[t] = tid[p])

\* t is in process_execute with p's lock_exit, or has returned p's tid from it.
Keeps(t, p) ==
    \/ pc[t] \in {"e_exec", "e_ret"} /\ tgt[t] = tid[p]
    \/ tid[p] \in kids[t]

\* lock_exit has one owner at most, a parent that may yet wait keeps it, and a process that
\* was loaded goes only when it has it itself.
ExitInv ==
    \A p \in Page : tid[p] # 0 =>
       /\ value[p]["exit"] = 1 => Unheld(p) /\ \A t \in Page : ~Takes(t, p) /\ ~Keeps(t, p)
       /\ \A t \in Page : Takes(t, p) =>
             Unheld(p) /\ \A u \in Page : (Takes(u, p) => u = t) /\ ~Keeps(u, p)
       /\ \A t \in Page : Keeps(t, p) =>
             /\ holder[p]["exit"] \in Stale \cup {t}
             /\ \A u \in Page : Keeps(u, p) => u = t
       /\ pc[p] = "x_die" /\ ended[tid[p]] # "unloaded" =>
             /\ value[p]["exit"] = 0
             /\ holder[p]["exit"] \in Stale \cup {p}
             /\ \A t \in Page : ~Takes(t, p) /\ ~Keeps(t, p)

KidsInv ==
    /\ \A t \in Page : \A n \in kids[t] : ended[n] # "unloaded" => \E p \in Page : tid[p] = n
    /\ \A t \in Page : pc[t] \in {"w_wait", "w_read", "w_rel"} => tgt[t] \notin kids[t]

ProcessInv ==
    /\ ProcessType /\ TidInv /\ DeadInv /\ AcquireInv /\ ListInv
    /\ EndInv /\ WaitInv /\ ExitInv /\ KidsInv /\ StatusDelivered

-----------------------------------------------------------------------------
(* Lemmas.                                                                 *)

\* An update of one lock of one page.
LEMMA Update ==
    ASSUME NEW S, NEW f \in [Page -> [LockName -> S]], NEW p \in Page, NEW k \in LockName,
           NEW v \in S, NEW g, g = [f EXCEPT ![p][k] = v]
    PROVE  /\ g \in [Page -> [LockName -> S]]
           /\ \A q \in Page, j \in LockName : g[q][j] = IF q = p /\ j = k THEN v ELSE f[q][j]
<1> DEFINE h == [f[p] EXCEPT ![k] = v]
<1>1. h \in [LockName -> S] /\ \A j \in LockName : h[j] = IF j = k THEN v ELSE f[p][j]
  OBVIOUS
<1>2. g = [f EXCEPT ![p] = h]
  OBVIOUS
<1> HIDE DEF h
<1>3. g \in [Page -> [LockName -> S]] /\ \A q \in Page : g[q] = IF q = p THEN h ELSE f[q]
  BY <1>1, <1>2
<1>4. QED
  BY <1>1, <1>3

\* The variables' types, one by one.
LEMMA Types ==
    ASSUME ProcessType
    PROVE  /\ tid \in [Page -> 0 .. MaxTid] /\ tgt \in [Page -> 0 .. MaxTid]
           /\ next_tid \in 3 .. MaxTid + 1 /\ MaxTid \in Nat
           /\ value \in [Page -> [LockName -> 0 .. 2]]
           /\ holder \in [Page -> [LockName -> Page \cup {NULL}]]
           /\ waiters \in [Page -> [LockName -> Seq(Page)]]
           /\ pc \in [Page -> Place] /\ mode \in [Page -> {"run", "blocked", "retry", "took"}]
           /\ ptr \in [Page -> Page \cup {NULL}]
           /\ kids \in [Page -> SUBSET Tid]
           /\ main \in Page /\ first \in Page /\ main # first /\ NULL \notin Page
BY ProcessAssumption DEF ProcessType, TypeOK

\* thread_from_tid finds the process, if there is one.
LEMMA FromTid ==
    ASSUME ProcessType, TidInv, NEW n \in Nat
    PROVE  /\ \A p \in Page : n # 0 /\ tid[p] = n => thread_from_tid(n) = p
           /\ thread_from_tid(n) # NULL =>
                 thread_from_tid(n) \in Page /\ tid[thread_from_tid(n)] = n /\ n # 0
           /\ thread_from_tid(n) = NULL => n = 0 \/ \A p \in Page : tid[p] # n
<1>1. NULL \notin Page
  BY Types
<1>2. CASE \E p \in Page : tid[p] = n /\ n # TID_ERROR
  <2> DEFINE c == CHOOSE p \in Page : tid[p] = n
  <2>1. thread_from_tid(n) = c
    BY <1>2 DEF thread_from_tid
  <2>2. c \in Page /\ tid[c] = n
    BY <1>2
  <2> HIDE DEF c
  <2>3. QED
    BY <1>1, <1>2, <2>1, <2>2 DEF TidInv, TID_ERROR
<1>3. CASE ~\E p \in Page : tid[p] = n /\ n # TID_ERROR
  <2>1. thread_from_tid(n) = NULL
    BY <1>3 DEF thread_from_tid
  <2>2. QED
    BY <1>3, <2>1 DEF TID_ERROR
<1>4. QED
  BY <1>2, <1>3

\* The locks that are acquired somewhere.
LEMMA Places ==
    /\ Acquiring = {"e_exit", "e_exec", "w_wait", "w_exit2", "x_exit"}
    /\ \A a \in Acquiring : LockAt[a] \in LockName /\ After[a] \in Place
    /\ LockAt["e_exit"] = "exit" /\ After["e_exit"] = "e_exec"
    /\ LockAt["e_exec"] = "exec" /\ After["e_exec"] = "e_ret"
    /\ LockAt["w_wait"] = "wait" /\ After["w_wait"] = "w_read"
    /\ LockAt["w_exit2"] = "exit2" /\ After["w_exit2"] = "w_ret"
    /\ LockAt["x_exit"] = "exit" /\ After["x_exit"] = "x_die"
BY DEF Acquiring, LockAt, After, LockName, Place

\* What a step that neither takes nor holds a lock_exit has to keep for ExitInv.
LEMMA ExitFrame ==
    ASSUME ProcessType, ExitInv, tid' = tid,
           \A p \in Page : value'[p]["exit"] \in {0, value[p]["exit"]}
                           /\ holder'[p]["exit"] = holder[p]["exit"],
           Stale \subseteq Stale',
           \A t, p \in Page : tid[p] # 0 =>
              (Takes(t, p)' => Takes(t, p)) /\ (Keeps(t, p)' => Keeps(t, p)),
           \A p \in Page : tid[p] # 0 /\ pc'[p] = "x_die" /\ ended'[tid[p]] # "unloaded"
                           => pc[p] = "x_die" /\ ended[tid[p]] # "unloaded"
    PROVE  ExitInv'
<1> SUFFICES ASSUME NEW p \in Page, tid[p] # 0
             PROVE  /\ value'[p]["exit"] = 1 =>
                          Unheld(p)' /\ \A t \in Page : ~Takes(t, p)' /\ ~Keeps(t, p)'
                    /\ \A t \in Page : Takes(t, p)' =>
                          Unheld(p)' /\ \A u \in Page : (Takes(u, p)' => u = t) /\ ~Keeps(u, p)'
                    /\ \A t \in Page : Keeps(t, p)' =>
                          /\ holder'[p]["exit"] \in Stale' \cup {t}
                          /\ \A u \in Page : Keeps(u, p)' => u = t
                    /\ pc'[p] = "x_die" /\ ended'[tid[p]] # "unloaded" =>
                          /\ value'[p]["exit"] = 0
                          /\ holder'[p]["exit"] \in Stale' \cup {p}
                          /\ \A t \in Page : ~Takes(t, p)' /\ ~Keeps(t, p)'
  BY DEF ExitInv
<1>1. Unheld(p) => Unheld(p)'
  BY DEF Unheld
<1>2. value'[p]["exit"] = 1 => value[p]["exit"] = 1
  OBVIOUS
<1>3. QED
  BY <1>1, <1>2 DEF ExitInv

\* A step that does not touch the lists keeps them when no blocked thread moves.
LEMMA ListFrame ==
    ASSUME ProcessType, ListInv, waiters' = waiters,
           \A u \in Page : mode[u] = "blocked" =>
              mode'[u] = "blocked" /\ ptr'[u] = ptr[u] /\ pc'[u] = pc[u]
    PROVE  ListInv'
<1> SUFFICES ASSUME NEW p \in Page, NEW k \in LockName
             PROVE  /\ \A i \in DOMAIN waiters[p][k] :
                          LET t == waiters[p][k][i]
                          IN  mode'[t] = "blocked" /\ ptr'[t] = p /\ LockAt[pc'[t]] = k
                    /\ \A i, j \in DOMAIN waiters[p][k] :
                          waiters[p][k][i] = waiters[p][k][j] => i = j
  BY DEF ListInv
<1>1. waiters[p][k] \in Seq(Page)
  BY DEF ProcessType
<1>2. \A i \in DOMAIN waiters[p][k] : waiters[p][k][i] \in Page
  BY <1>1
<1>3. QED
  BY <1>2 DEF ListInv

\* What lock_release does to the lists and to the threads on them.
LEMMA ReleaseFacts ==
    ASSUME ProcessType, ListInv, NEW p \in Page, NEW k \in LockName, value[p][k] = 0,
           Release(p, k), ptr' = ptr, \A u \in Page : mode[u] # "run" => pc'[u] = pc[u]
    PROVE  /\ value' \in [Page -> [LockName -> 0 .. 2]]
           /\ \A q \in Page, j \in LockName :
                 value'[q][j] = IF q = p /\ j = k THEN 1 ELSE value[q][j]
           /\ holder' \in [Page -> [LockName -> Page \cup {NULL}]]
           /\ \A q \in Page, j \in LockName :
                 holder'[q][j] = IF q = p /\ j = k THEN NULL ELSE holder[q][j]
           /\ waiters' \in [Page -> [LockName -> Seq(Page)]]
           /\ mode' \in [Page -> {"run", "blocked", "retry", "took"}]
           /\ \A u \in Page :
                 mode'[u] = mode[u] \/ (mode[u] = "blocked" /\ mode'[u] = "retry")
           /\ ListInv'
<1> USE DEF Release
<1>1. /\ value' \in [Page -> [LockName -> 0 .. 2]]
      /\ \A q \in Page, j \in LockName :
            value'[q][j] = IF q = p /\ j = k THEN 1 ELSE value[q][j]
  <2>1. value' = [value EXCEPT ![p][k] = 1]
    OBVIOUS
  <2>2. value \in [Page -> [LockName -> 0 .. 2]] /\ 1 \in 0 .. 2
    BY Types
  <2>3. QED
    BY <2>1, <2>2, Update
<1>2. /\ holder' \in [Page -> [LockName -> Page \cup {NULL}]]
      /\ \A q \in Page, j \in LockName :
            holder'[q][j] = IF q = p /\ j = k THEN NULL ELSE holder[q][j]
  <2>1. holder \in [Page -> [LockName -> Page \cup {NULL}]] /\ NULL \in Page \cup {NULL}
    BY Types
  <2>2. holder' = [holder EXCEPT ![p][k] = NULL]
    OBVIOUS
  <2>3. QED
    BY <2>1, <2>2, Update
<1>3. CASE waiters[p][k] = <<>>
  <2>1. waiters' = waiters /\ mode' = mode
    BY <1>3
  <2>2. ListInv'
    BY <2>1, ListFrame
  <2>3. QED
    BY <1>1, <1>2, <2>1, <2>2, Types
<1>4. CASE waiters[p][k] # <<>>
  <2> DEFINE w == waiters[p][k]
             h == Head(w)
  <2>1. w \in Seq(Page) /\ w # <<>>
    BY <1>4, Types
  <2>2. /\ h = w[1] /\ h \in Page /\ 1 \in DOMAIN w
        /\ Tail(w) \in Seq(Page)
        /\ DOMAIN Tail(w) = 1 .. Len(w) - 1
        /\ \A i \in DOMAIN Tail(w) : i + 1 \in DOMAIN w /\ i + 1 # 1 /\ Tail(w)[i] = w[i + 1]
    BY <2>1, HeadTailProperties
  <2>3. /\ mode[h] = "blocked" /\ ptr[h] = p /\ LockAt[pc[h]] = k
        /\ \A i, j \in DOMAIN w : w[i] = w[j] => i = j
    BY <2>2 DEF ListInv
  <2>4. waiters' = [waiters EXCEPT ![p][k] = Tail(w)] /\ mode' = [mode EXCEPT ![h] = "retry"]
    BY <1>4
  <2> DEFINE v == Tail(w)
  <2>5. /\ waiters' \in [Page -> [LockName -> Seq(Page)]]
        /\ \A q \in Page, j \in LockName :
              waiters'[q][j] = IF q = p /\ j = k THEN v ELSE waiters[q][j]
    <3>1. waiters \in [Page -> [LockName -> Seq(Page)]] /\ v \in Seq(Page)
      BY <2>2, Types
    <3>2. waiters' = [waiters EXCEPT ![p][k] = v]
      BY <2>4
    <3> HIDE DEF v
    <3>3. QED
      BY <3>1, <3>2, Update
  <2>6. /\ mode' \in [Page -> {"run", "blocked", "retry", "took"}]
        /\ \A u \in Page : mode'[u] = IF u = h THEN "retry" ELSE mode[u]
    BY <2>2, <2>4, Types
  <2>7. ListInv'
    <3> SUFFICES ASSUME NEW q \in Page, NEW j \in LockName
                 PROVE  /\ \A i \in DOMAIN waiters'[q][j] :
                              LET t == waiters'[q][j][i]
                              IN  mode'[t] = "blocked" /\ ptr'[t] = q /\ LockAt[pc'[t]] = j
                        /\ \A i, l \in DOMAIN waiters'[q][j] :
                              waiters'[q][j][i] = waiters'[q][j][l] => i = l
      BY DEF ListInv
    <3>1. CASE q = p /\ j = k
      <4>1. waiters'[q][j] = v
        BY <2>5, <3>1
      <4>2. \A i \in DOMAIN v : v[i] \in Page /\ v[i] # h
        BY <2>1, <2>2, <2>3
      <4>3. \A i \in DOMAIN v : mode[v[i]] = "blocked" /\ ptr[v[i]] = p /\ LockAt[pc[v[i]]] = k
        BY <2>2 DEF ListInv
      <4>4. \A i, l \in DOMAIN v : v[i] = v[l] => i = l
        BY <2>2, <2>3
      <4> HIDE DEF v, h, w
      <4>5. QED
        BY <2>6, <3>1, <4>1, <4>2, <4>3, <4>4
    <3>2. CASE ~(q = p /\ j = k)
      <4> DEFINE z == waiters[q][j]
      <4>1. waiters'[q][j] = z
        BY <2>5, <3>2
      <4>2. z \in Seq(Page)
        BY Types
      <4>3. /\ \A i \in DOMAIN z : mode[z[i]] = "blocked" /\ ptr[z[i]] = q /\ LockAt[pc[z[i]]] = j
            /\ \A i, l \in DOMAIN z : z[i] = z[l] => i = l
        BY DEF ListInv
      <4>4. \A i \in DOMAIN z : z[i] \in Page
        BY <4>2
      <4> HIDE DEF z, h, w
      <4>5. \A i \in DOMAIN z : z[i] # h
        BY <2>3, <3>2, <4>3
      <4>6. QED
        BY <2>6, <4>1, <4>3, <4>4, <4>5
    <3>3. QED
      BY <3>1, <3>2
  <2>8. QED
    BY <1>1, <1>2, <2>3, <2>5, <2>6, <2>7
<1>5. QED
  BY <1>3, <1>4

\* A step that changes nothing but panic.
LEMMA OnlyPanic ==
    ASSUME ProcessInv,
           UNCHANGED <<tid, next_tid, exit_soon, exit_status, locks, pc, mode, ptr, tgt, res,
                       history>>
    PROVE  ProcessInv'
<1> USE DEF locks, history
<1>1. ProcessType' /\ TidInv' /\ DeadInv' /\ AcquireInv'
  BY DEF ProcessInv, ProcessType, TypeOK, TidInv, DeadInv, AcquireInv
<1>2. ListInv' /\ EndInv' /\ WaitInv' /\ KidsInv' /\ StatusDelivered'
  BY DEF ProcessInv, ListInv, EndInv, WaitInv, KidsInv, StatusDelivered, TypeOK
<1>3. ExitInv'
  BY DEF ProcessInv, ExitInv, Unheld, Stale, Takes, Keeps
<1>4. QED
  BY <1>1, <1>2, <1>3 DEF ProcessInv

\* thread_create found no page.
LEMMA ExecuteFullStep ==
    ASSUME ProcessInv, NEW t \in Page, process_execute_full(t)
    PROVE  ProcessInv'
<1> USE DEF At, Goto, locks, history, TID_ERROR, process_execute_full
<1>1. ProcessType /\ TidInv /\ DeadInv /\ AcquireInv /\ ListInv
  BY DEF ProcessInv
<1>2. EndInv /\ WaitInv /\ ExitInv /\ KidsInv /\ StatusDelivered
  BY DEF ProcessInv
<1>11. ProcessType'
  BY <1>1, Types DEF ProcessType, TypeOK, Place, Status, Tid
<1>12. TidInv'
  BY <1>1, Types DEF TidInv, Tid
<1>13. DeadInv'
  BY <1>1, Types DEF DeadInv
<1>14. AcquireInv'
  BY <1>1, Types DEF AcquireInv, Busy
<1>15. ListInv'
  BY <1>1, ListFrame, Types
<1>16. EndInv'
  BY <1>1, <1>2, Types DEF EndInv, Ending, Tid, TidInv, Status, ProcessType, TypeOK
<1>17. WaitInv'
  BY <1>1, <1>2, Types DEF WaitInv, Gone, AcquireInv
<1>18. ExitInv'
  <2>1. Stale \subseteq Stale'
    BY <1>1, Types DEF Stale
  <2>2. \A u, q \in Page : tid[q] # 0 =>
           (Takes(u, q)' => Takes(u, q)) /\ (Keeps(u, q)' => Keeps(u, q))
    BY <1>1, Types DEF Takes, Keeps
  <2>3. \A q \in Page : tid[q] # 0 /\ pc'[q] = "x_die" /\ ended'[tid[q]] # "unloaded"
                        => pc[q] = "x_die" /\ ended[tid[q]] # "unloaded"
    BY <1>1, <1>2, Types DEF TidInv, Tid
  <2>4. \A q \in Page : value'[q]["exit"] \in {0, value[q]["exit"]}
                        /\ holder'[q]["exit"] = holder[q]["exit"]
    OBVIOUS
  <2>5. QED
    BY <1>1, <1>2, <2>1, <2>2, <2>3, <2>4, ExitFrame
<1>19. KidsInv'
  BY <1>1, <1>2, Types DEF KidsInv, Tid
<1>20. StatusDelivered'
  BY <1>1, <1>2, <1>11, Types DEF StatusDelivered, ProcessType, Tid
<1>21. QED
  BY <1>11, <1>12, <1>13, <1>14, <1>15, <1>16, <1>17, <1>18, <1>19, <1>20 DEF ProcessInv

\* The child will not exit soon.
LEMMA ClearStep ==
    ASSUME ProcessInv, NEW t \in Page, thread_from_tid(tgt[t]) # NULL,
           clear_exit_soon(t)
    PROVE  ProcessInv'
<1> USE DEF At, Goto, locks, history, TID_ERROR, clear_exit_soon
<1>1. ProcessType /\ TidInv /\ DeadInv /\ AcquireInv /\ ListInv
  BY DEF ProcessInv
<1>2. EndInv /\ WaitInv /\ ExitInv /\ KidsInv /\ StatusDelivered
  BY DEF ProcessInv
<1>3. PICK p \in Page : p = thread_from_tid(tgt[t]) /\ tid[p] = tgt[t] /\ tgt[t] # 0
  BY <1>1, FromTid, Types
<1>4. /\ exit_soon' = [exit_soon EXCEPT ![p] = FALSE]
      /\ pc' = [pc EXCEPT ![t] = "e_exit"]
  BY <1>3
<1>11. ProcessType'
  BY <1>1, Types, <1>3, <1>4 DEF ProcessType, TypeOK, Place, Status, Tid
<1>12. TidInv'
  BY <1>1, Types, <1>3, <1>4 DEF TidInv, Tid
<1>13. DeadInv'
  BY <1>1, Types, <1>3, <1>4 DEF DeadInv
<1>14. AcquireInv'
  BY <1>1, Types, <1>3, <1>4 DEF AcquireInv, Busy
<1>15. ListInv'
  BY <1>1, ListFrame, Types
<1>16. EndInv'
  BY <1>1, <1>2, Types, <1>3, <1>4 DEF EndInv, Ending, Tid, TidInv, Status, ProcessType, TypeOK
<1>17. WaitInv'
  BY <1>1, <1>2, Types, <1>3, <1>4 DEF WaitInv, Gone, AcquireInv
<1>18. ExitInv'
  <2>1. Stale \subseteq Stale'
    BY <1>1, Types, <1>3, <1>4 DEF Stale
  <2>2. \A u, q \in Page : tid[q] # 0 =>
           (Takes(u, q)' => Takes(u, q)) /\ (Keeps(u, q)' => Keeps(u, q))
    BY <1>1, Types, <1>3, <1>4 DEF Takes, Keeps
  <2>3. \A q \in Page : tid[q] # 0 /\ pc'[q] = "x_die" /\ ended'[tid[q]] # "unloaded"
                        => pc[q] = "x_die" /\ ended[tid[q]] # "unloaded"
    BY <1>1, <1>2, Types, <1>3, <1>4 DEF TidInv, Tid
  <2>4. \A q \in Page : value'[q]["exit"] \in {0, value[q]["exit"]}
                        /\ holder'[q]["exit"] = holder[q]["exit"]
    OBVIOUS
  <2>5. QED
    BY <1>1, <1>2, <2>1, <2>2, <2>3, <2>4, ExitFrame
<1>19. KidsInv'
  BY <1>1, <1>2, Types, <1>3, <1>4 DEF KidsInv, Tid
<1>20. StatusDelivered'
  BY <1>1, <1>2, <1>11, Types, <1>3, <1>4 DEF StatusDelivered, ProcessType, Tid
<1>21. QED
  BY <1>11, <1>12, <1>13, <1>14, <1>15, <1>16, <1>17, <1>18, <1>19, <1>20 DEF ProcessInv

\* process_execute returns.
LEMMA ReturnStep ==
    ASSUME ProcessInv, NEW t \in Page, execute_return(t)
    PROVE  ProcessInv'
<1> USE DEF At, Goto, locks, history, TID_ERROR, execute_return
<1>1. ProcessType /\ TidInv /\ DeadInv /\ AcquireInv /\ ListInv
  BY DEF ProcessInv
<1>2. EndInv /\ WaitInv /\ ExitInv /\ KidsInv /\ StatusDelivered
  BY DEF ProcessInv
<1>3. \A q \in Page : tgt[t] # 0 /\ tid[q] = tgt[t] => thread_from_tid(tgt[t]) = q
  BY <1>1, FromTid, Types
<1>4. thread_from_tid(tgt[t]) # NULL =>
         /\ thread_from_tid(tgt[t]) \in Page /\ tid[thread_from_tid(tgt[t])] = tgt[t]
         /\ tgt[t] # 0
  BY <1>1, FromTid, Types
<1>5. /\ kids' \in [Page -> SUBSET Tid]
      /\ \A u \in Page : u # t => kids'[u] = kids[u]
      /\ \/ kids'[t] = kids[t]
         \/ /\ kids'[t] = kids[t] \cup {tgt[t]} /\ tgt[t] # 0
            /\ \E q \in Page : tid[q] = tgt[t]
  <2>1. CASE kids' = kids
    BY <1>1, <2>1, Types
  <2>2. CASE kids' # kids
    <3>1. /\ kids' = [kids EXCEPT ![t] = @ \cup {tgt[t]}]
          /\ tgt[t] # 0 /\ \E q \in Page : tid[q] = tgt[t]
      BY <1>4, <2>2
    <3>2. tgt[t] \in Tid
      BY <1>1, <3>1, Types DEF Tid
    <3>3. QED
      BY <1>1, <3>1, <3>2, Types
  <2>3. QED
    BY <2>1, <2>2
<1>11. ProcessType'
  BY <1>1, Types, <1>5 DEF ProcessType, TypeOK, Place, Status, Tid
<1>12. TidInv'
  <2>1. \A u \in Page : tgt'[u] < next_tid
    BY <1>1, Types DEF TidInv
  <2>2. \A u \in Page : \A n \in kids'[u] : n < next_tid
    BY <1>1, <1>5 DEF TidInv
  <2>3. QED
    BY <1>1, <2>1, <2>2 DEF TidInv
<1>13. DeadInv'
  BY <1>1, Types, <1>5 DEF DeadInv
<1>14. AcquireInv'
  BY <1>1, Types DEF AcquireInv, Busy
<1>15. ListInv'
  BY <1>1, ListFrame, Types
<1>16. EndInv'
  BY <1>1, <1>2, Types DEF EndInv, Ending, Tid, TidInv, Status, ProcessType, TypeOK
<1>17. WaitInv'
  BY <1>1, <1>2, Types DEF WaitInv, Gone, AcquireInv
<1>18. ExitInv'
  <2>1. Stale \subseteq Stale'
    BY <1>1, Types DEF Stale
  <2>2. \A u, q \in Page : tid[q] # 0 =>
           (Takes(u, q)' => Takes(u, q)) /\ (Keeps(u, q)' => Keeps(u, q))
    BY <1>1, Types, <1>5 DEF Takes, Keeps
  <2>3. \A q \in Page : tid[q] # 0 /\ pc'[q] = "x_die" /\ ended'[tid[q]] # "unloaded"
                        => pc[q] = "x_die" /\ ended[tid[q]] # "unloaded"
    BY <1>1, <1>2, Types DEF TidInv, Tid
  <2>4. \A q \in Page : value'[q]["exit"] \in {0, value[q]["exit"]}
                        /\ holder'[q]["exit"] = holder[q]["exit"]
    OBVIOUS
  <2>5. QED
    BY <1>1, <1>2, <2>1, <2>2, <2>3, <2>4, ExitFrame
<1>19. KidsInv'
  BY <1>1, <1>2, Types, <1>5 DEF KidsInv, Tid
<1>20. StatusDelivered'
  BY <1>1, <1>2, <1>11, Types DEF StatusDelivered, ProcessType, Tid
<1>21. QED
  BY <1>11, <1>12, <1>13, <1>14, <1>15, <1>16, <1>17, <1>18, <1>19, <1>20 DEF ProcessInv

\* load fails.
LEMMA LoadFailedStep ==
    ASSUME ProcessInv, NEW t \in Page, load_failed(t)
    PROVE  ProcessInv'
<1> USE DEF At, Goto, locks, history, TID_ERROR, load_failed
<1>1. ProcessType /\ TidInv /\ DeadInv /\ AcquireInv /\ ListInv
  BY DEF ProcessInv
<1>2. EndInv /\ WaitInv /\ ExitInv /\ KidsInv /\ StatusDelivered
  BY DEF ProcessInv
<1>3. ended[tid[t]] = "no" /\ tid[t] \in Tid
  <2>1. tid[t] \in Tid
    BY <1>1, Types DEF Tid
  <2>2. pc[t] \notin Ending
    BY DEF Ending
  <2>3. QED
    BY <1>2, <2>1, <2>2 DEF EndInv
<1>4. \A n \in Tid : n # tid[t] => ended'[n] = ended[n]
  BY <1>1 DEF ProcessType, TypeOK
<1>11. ProcessType'
  BY <1>1, Types DEF ProcessType, TypeOK, Place, Status, Tid
<1>12. TidInv'
  BY <1>1, Types DEF TidInv, Tid
<1>13. DeadInv'
  BY <1>1, Types DEF DeadInv
<1>14. AcquireInv'
  BY <1>1, Types DEF AcquireInv, Busy
<1>15. ListInv'
  BY <1>1, ListFrame, Types
<1>16. EndInv'
  BY <1>1, <1>2, Types DEF EndInv, Ending, Tid, TidInv, Status, ProcessType, TypeOK
<1>17. WaitInv'
  BY <1>1, <1>2, Types DEF WaitInv, Gone, AcquireInv
<1>18. ExitInv'
  <2>1. Stale \subseteq Stale'
    BY <1>1, Types DEF Stale
  <2>2. \A u, q \in Page : tid[q] # 0 =>
           (Takes(u, q)' => Takes(u, q)) /\ (Keeps(u, q)' => Keeps(u, q))
    BY <1>1, Types DEF Takes, Keeps
  <2>3. \A q \in Page : tid[q] # 0 /\ pc'[q] = "x_die" /\ ended'[tid[q]] # "unloaded"
                        => pc[q] = "x_die" /\ ended[tid[q]] # "unloaded"
    BY <1>1, <1>2, Types DEF TidInv, Tid
  <2>4. \A q \in Page : value'[q]["exit"] \in {0, value[q]["exit"]}
                        /\ holder'[q]["exit"] = holder[q]["exit"]
    OBVIOUS
  <2>5. QED
    BY <1>1, <1>2, <2>1, <2>2, <2>3, <2>4, ExitFrame
<1>19. KidsInv'
  BY <1>1, <1>2, Types DEF KidsInv, Tid
<1>20. StatusDelivered'
  BY <1>1, <1>2, <1>11, Types, <1>3, <1>4 DEF StatusDelivered, ProcessType, Tid, AcquireInv, Busy
<1>21. QED
  BY <1>11, <1>12, <1>13, <1>14, <1>15, <1>16, <1>17, <1>18, <1>19, <1>20 DEF ProcessInv

\* process_wait begins.
LEMMA WaitStep ==
    ASSUME ProcessInv, NEW t \in Page, NEW n \in Tid, process_wait(t, n)
    PROVE  ProcessInv'
<1> USE DEF At, Goto, locks, history, TID_ERROR, process_wait
<1>1. ProcessType /\ TidInv /\ DeadInv /\ AcquireInv /\ ListInv
  BY DEF ProcessInv
<1>2. EndInv /\ WaitInv /\ ExitInv /\ KidsInv /\ StatusDelivered
  BY DEF ProcessInv
<1>3. /\ kids' \in [Page -> SUBSET Tid] /\ kids'[t] = kids[t] \ {n}
      /\ \A u \in Page : u # t => kids'[u] = kids[u]
  BY <1>1, Types
<1>4. \/ pc' = pc /\ tgt' = tgt
      \/ /\ pc' = [pc EXCEPT ![t] = "w_wait"] /\ tgt' = [tgt EXCEPT ![t] = n]
         /\ n \in 0 .. MaxTid /\ n # 0
  BY DEF Tid
<1>11. ProcessType'
  <2>1. CASE pc' = pc /\ tgt' = tgt
    BY <1>1, <1>3, <2>1, Types DEF ProcessType, TypeOK, Place, Tid
  <2>2. CASE ~(pc' = pc /\ tgt' = tgt)
    <3>1. pc' = [pc EXCEPT ![t] = "w_wait"] /\ tgt' = [tgt EXCEPT ![t] = n]
      BY <1>4, <2>2
    <3>2. pc' \in [Page -> Place] /\ tgt' \in [Page -> 0 .. MaxTid]
      BY <1>1, <1>4, <2>2, <3>1, Types DEF Place
    <3>3. QED
      BY <1>1, <1>3, <3>2 DEF ProcessType, TypeOK
  <2>3. QED
    BY <2>1, <2>2
<1>12. TidInv'
  BY <1>1, Types, <1>3, <1>4 DEF TidInv, Tid
<1>13. DeadInv'
  BY <1>1, Types, <1>3, <1>4 DEF DeadInv
<1>14. AcquireInv'
  <2>1. CASE pc' = pc /\ tgt' = tgt
    BY <1>1, <1>3, <2>1, Types DEF AcquireInv, Busy
  <2>2. CASE ~(pc' = pc /\ tgt' = tgt)
    BY <1>1, <1>3, <1>4, <2>2, Types DEF AcquireInv, Busy
  <2>3. QED
    BY <2>1, <2>2
<1>15. ListInv'
  BY <1>1, ListFrame, Types
<1>16. EndInv'
  BY <1>1, <1>2, Types DEF EndInv, Ending, Tid, TidInv, Status, ProcessType, TypeOK
<1>17. WaitInv'
  <2>1. CASE pc' = pc /\ tgt' = tgt
    BY <1>1, <1>2, <1>3, <2>1, Types DEF WaitInv, Gone, AcquireInv
  <2>2. CASE ~(pc' = pc /\ tgt' = tgt)
    <3>1. pc' = [pc EXCEPT ![t] = "w_wait"] /\ tgt' = [tgt EXCEPT ![t] = n]
      BY <1>4, <2>2
    <3>2. /\ pc'[t] = "w_wait" /\ pc[t] = "user" /\ mode[t] = "run"
          /\ \A u \in Page : u # t => pc'[u] = pc[u] /\ tgt'[u] = tgt[u]
      BY <1>1, <3>1, Types
    <3>3. \A u \in Page : mode[u] = "took" => u # t /\ ptr[u] \in Page
      BY <1>1, <3>2 DEF AcquireInv
    <3>4. \A q \in Page : /\ pc[q] \in Gone => pc'[q] \in Gone
                          /\ pc'[q] \notin Gone => pc[q] \notin Gone
                          /\ pc'[q] \in {"load", "l_rel"} => pc[q] \in {"load", "l_rel"}
      BY <3>2 DEF Gone
    <3>5. \A u \in Page : pc'[u] = "w_read" => u # t /\ pc[u] = "w_read"
      BY <3>2
    <3>6. tid' = tid /\ value' = value /\ mode' = mode /\ ptr' = ptr
      BY <1>4, <2>2
    <3>7. QED
      BY <1>2, <3>2, <3>3, <3>4, <3>5, <3>6 DEF WaitInv
  <2>3. QED
    BY <2>1, <2>2
<1>18. ExitInv'
  <2>1. Stale \subseteq Stale'
    BY <1>1, Types DEF Stale
  <2>2. \A u, q \in Page : tid[q] # 0 =>
           (Takes(u, q)' => Takes(u, q)) /\ (Keeps(u, q)' => Keeps(u, q))
    BY <1>1, Types, <1>3, <1>4 DEF Takes, Keeps
  <2>3. \A q \in Page : tid[q] # 0 /\ pc'[q] = "x_die" /\ ended'[tid[q]] # "unloaded"
                        => pc[q] = "x_die" /\ ended[tid[q]] # "unloaded"
    BY <1>1, <1>2, Types DEF TidInv, Tid
  <2>4. \A q \in Page : value'[q]["exit"] \in {0, value[q]["exit"]}
                        /\ holder'[q]["exit"] = holder[q]["exit"]
    OBVIOUS
  <2>5. QED
    BY <1>1, <1>2, <2>1, <2>2, <2>3, <2>4, ExitFrame
<1>19. KidsInv'
  BY <1>1, <1>2, Types, <1>3, <1>4 DEF KidsInv, Tid
<1>20. StatusDelivered'
  BY <1>1, <1>2, <1>11, Types DEF StatusDelivered, ProcessType, Tid
<1>21. QED
  BY <1>11, <1>12, <1>13, <1>14, <1>15, <1>16, <1>17, <1>18, <1>19, <1>20 DEF ProcessInv

\* process_wait reads the status.
LEMMA ReadStep ==
    ASSUME ProcessInv, NEW t \in Page, thread_from_tid(tgt[t]) # NULL,
           read_status(t)
    PROVE  ProcessInv'
<1> USE DEF At, Goto, locks, history, TID_ERROR, read_status
<1>1. ProcessType /\ TidInv /\ DeadInv /\ AcquireInv /\ ListInv
  BY DEF ProcessInv
<1>2. EndInv /\ WaitInv /\ ExitInv /\ KidsInv /\ StatusDelivered
  BY DEF ProcessInv
<1>3. PICK p \in Page : p = thread_from_tid(tgt[t]) /\ tid[p] = tgt[t] /\ tgt[t] # 0
  BY <1>1, FromTid, Types
<1>4. /\ res' = [res EXCEPT ![t] = exit_status[p]]
      /\ pc' = [pc EXCEPT ![t] = "w_rel"]
  BY <1>3
<1>5. /\ ended[tgt[t]] # "no"
      /\ ended[tgt[t]] \in Status => exit_status[p] = ended[tgt[t]]
      /\ ended[tgt[t]] = "unloaded" => exit_status[p] = "error"
  BY <1>2, <1>3 DEF EndInv, WaitInv, Gone, Ending
<1>11. ProcessType'
  BY <1>1, Types, <1>3, <1>4 DEF ProcessType, TypeOK, Place, Status, Tid
<1>12. TidInv'
  BY <1>1, Types, <1>3, <1>4 DEF TidInv, Tid
<1>13. DeadInv'
  BY <1>1, Types, <1>3, <1>4 DEF DeadInv
<1>14. AcquireInv'
  BY <1>1, Types, <1>3, <1>4 DEF AcquireInv, Busy
<1>15. ListInv'
  BY <1>1, ListFrame, Types
<1>16. EndInv'
  BY <1>1, <1>2, Types, <1>3, <1>4 DEF EndInv, Ending, Tid, TidInv, Status, ProcessType, TypeOK
<1>17. WaitInv'
  BY <1>1, <1>2, Types, <1>3, <1>4 DEF WaitInv, Gone, AcquireInv
<1>18. ExitInv'
  <2>1. Stale \subseteq Stale'
    BY <1>1, Types, <1>3, <1>4 DEF Stale
  <2>2. \A u, q \in Page : tid[q] # 0 =>
           (Takes(u, q)' => Takes(u, q)) /\ (Keeps(u, q)' => Keeps(u, q))
    BY <1>1, Types, <1>3, <1>4 DEF Takes, Keeps
  <2>3. \A q \in Page : tid[q] # 0 /\ pc'[q] = "x_die" /\ ended'[tid[q]] # "unloaded"
                        => pc[q] = "x_die" /\ ended[tid[q]] # "unloaded"
    BY <1>1, <1>2, Types, <1>3, <1>4 DEF TidInv, Tid
  <2>4. \A q \in Page : value'[q]["exit"] \in {0, value[q]["exit"]}
                        /\ holder'[q]["exit"] = holder[q]["exit"]
    OBVIOUS
  <2>5. QED
    BY <1>1, <1>2, <2>1, <2>2, <2>3, <2>4, ExitFrame
<1>19. KidsInv'
  BY <1>1, <1>2, Types, <1>3, <1>4 DEF KidsInv, Tid
<1>20. StatusDelivered'
  <2>1. /\ res'[t] = exit_status[p] /\ \A u \in Page : u # t => res'[u] = res[u]
        /\ \A u \in Page : u # t => pc'[u] = pc[u]
    BY <1>1, <1>4, Types DEF ProcessType, TypeOK
  <2>2. QED
    BY <1>2, <1>5, <1>11, <2>1 DEF StatusDelivered, ProcessType
<1>21. QED
  BY <1>11, <1>12, <1>13, <1>14, <1>15, <1>16, <1>17, <1>18, <1>19, <1>20 DEF ProcessInv

\* process_wait returns.
LEMMA WaitReturnStep ==
    ASSUME ProcessInv, NEW t \in Page, wait_return(t)
    PROVE  ProcessInv'
<1> USE DEF At, Goto, locks, history, TID_ERROR, wait_return
<1>1. ProcessType /\ TidInv /\ DeadInv /\ AcquireInv /\ ListInv
  BY DEF ProcessInv
<1>2. EndInv /\ WaitInv /\ ExitInv /\ KidsInv /\ StatusDelivered
  BY DEF ProcessInv
<1>11. ProcessType'
  BY <1>1, Types DEF ProcessType, TypeOK, Place, Status, Tid
<1>12. TidInv'
  BY <1>1, Types DEF TidInv, Tid
<1>13. DeadInv'
  BY <1>1, Types DEF DeadInv
<1>14. AcquireInv'
  BY <1>1, Types DEF AcquireInv, Busy
<1>15. ListInv'
  BY <1>1, ListFrame, Types
<1>16. EndInv'
  BY <1>1, <1>2, Types DEF EndInv, Ending, Tid, TidInv, Status, ProcessType, TypeOK
<1>17. WaitInv'
  BY <1>1, <1>2, Types DEF WaitInv, Gone, AcquireInv
<1>18. ExitInv'
  <2>1. Stale \subseteq Stale'
    BY <1>1, Types DEF Stale
  <2>2. \A u, q \in Page : tid[q] # 0 =>
           (Takes(u, q)' => Takes(u, q)) /\ (Keeps(u, q)' => Keeps(u, q))
    BY <1>1, Types DEF Takes, Keeps
  <2>3. \A q \in Page : tid[q] # 0 /\ pc'[q] = "x_die" /\ ended'[tid[q]] # "unloaded"
                        => pc[q] = "x_die" /\ ended[tid[q]] # "unloaded"
    BY <1>1, <1>2, Types DEF TidInv, Tid
  <2>4. \A q \in Page : value'[q]["exit"] \in {0, value[q]["exit"]}
                        /\ holder'[q]["exit"] = holder[q]["exit"]
    OBVIOUS
  <2>5. QED
    BY <1>1, <1>2, <2>1, <2>2, <2>3, <2>4, ExitFrame
<1>19. KidsInv'
  BY <1>1, <1>2, Types DEF KidsInv, Tid
<1>20. StatusDelivered'
  BY <1>1, <1>2, <1>11, Types DEF StatusDelivered, ProcessType, Tid
<1>21. QED
  BY <1>11, <1>12, <1>13, <1>14, <1>15, <1>16, <1>17, <1>18, <1>19, <1>20 DEF ProcessInv

\* A process ends.
LEMMA EndStep ==
    ASSUME ProcessInv, NEW t \in Page, NEW s \in Status, NEW how \in Status \cup {"killed"},
           how \in Status => how = s, Ends(t, how, s)
    PROVE  ProcessInv'
<1> USE DEF At, Goto, locks, history, TID_ERROR, Ends
<1>1. ProcessType /\ TidInv /\ DeadInv /\ AcquireInv /\ ListInv
  BY DEF ProcessInv
<1>2. EndInv /\ WaitInv /\ ExitInv /\ KidsInv /\ StatusDelivered
  BY DEF ProcessInv
<1>3. ended[tid[t]] = "no" /\ tid[t] \in Tid
  <2>1. tid[t] \in Tid
    BY <1>1, Types DEF Tid
  <2>2. pc[t] \notin Ending
    BY DEF Ending
  <2>3. QED
    BY <1>2, <2>1, <2>2 DEF EndInv
<1>4. \A n \in Tid : n # tid[t] => ended'[n] = ended[n]
  BY <1>1 DEF ProcessType, TypeOK
<1>11. ProcessType'
  BY <1>1, Types DEF ProcessType, TypeOK, Place, Status, Tid
<1>12. TidInv'
  BY <1>1, Types DEF TidInv, Tid
<1>13. DeadInv'
  BY <1>1, Types DEF DeadInv
<1>14. AcquireInv'
  BY <1>1, Types DEF AcquireInv, Busy
<1>15. ListInv'
  BY <1>1, ListFrame, Types
<1>16. EndInv'
  BY <1>1, <1>2, Types DEF EndInv, Ending, Tid, TidInv, Status, ProcessType, TypeOK
<1>17. WaitInv'
  BY <1>1, <1>2, Types DEF WaitInv, Gone, AcquireInv
<1>18. ExitInv'
  <2>1. Stale \subseteq Stale'
    BY <1>1, Types DEF Stale
  <2>2. \A u, q \in Page : tid[q] # 0 =>
           (Takes(u, q)' => Takes(u, q)) /\ (Keeps(u, q)' => Keeps(u, q))
    BY <1>1, Types DEF Takes, Keeps
  <2>3. \A q \in Page : tid[q] # 0 /\ pc'[q] = "x_die" /\ ended'[tid[q]] # "unloaded"
                        => pc[q] = "x_die" /\ ended[tid[q]] # "unloaded"
    BY <1>1, <1>2, Types DEF TidInv, Tid
  <2>4. \A q \in Page : value'[q]["exit"] \in {0, value[q]["exit"]}
                        /\ holder'[q]["exit"] = holder[q]["exit"]
    OBVIOUS
  <2>5. QED
    BY <1>1, <1>2, <2>1, <2>2, <2>3, <2>4, ExitFrame
<1>19. KidsInv'
  BY <1>1, <1>2, Types DEF KidsInv, Tid
<1>20. StatusDelivered'
  <2>1. \A u \in Page : pc'[u] \in {"w_rel", "w_exit2", "w_ret"} => pc[u] = pc'[u]
    BY <1>1, Types
  <2>2. \A u \in Page : pc[u] \in {"w_rel", "w_exit2", "w_ret"} => tgt[u] \in Tid
    BY <1>1, Types DEF AcquireInv, Busy, Tid
  <2>3. \A u \in Page : tid[u] # 0 /\ pc[u] \in {"w_rel", "w_exit2", "w_ret"} =>
           ended'[tgt[u]] = ended[tgt[u]]
    BY <1>2, <1>3, <1>4, <2>2 DEF StatusDelivered
  <2>4. QED
    BY <1>2, <1>11, <2>1, <2>3 DEF StatusDelivered, ProcessType
<1>21. QED
  BY <1>11, <1>12, <1>13, <1>14, <1>15, <1>16, <1>17, <1>18, <1>19, <1>20 DEF ProcessInv

\* thread_exit tests exit_soon.
LEMMA SoonStep ==
    ASSUME ProcessInv, NEW t \in Page, exit_test_soon(t)
    PROVE  ProcessInv'
<1> USE DEF At, Goto, locks, history, TID_ERROR, exit_test_soon
<1>1. ProcessType /\ TidInv /\ DeadInv /\ AcquireInv /\ ListInv
  BY DEF ProcessInv
<1>2. EndInv /\ WaitInv /\ ExitInv /\ KidsInv /\ StatusDelivered
  BY DEF ProcessInv
<1>3. exit_soon[t] => ended[tid[t]] = "unloaded"
  BY <1>2 DEF EndInv
<1>4. /\ pc' \in [Page -> Place] /\ pc'[t] \in {"x_die", "x_exit"}
      /\ pc'[t] = "x_die" <=> exit_soon[t]
      /\ \A u \in Page : u # t => pc'[u] = pc[u]
  BY <1>1, Types DEF Place
<1>11. ProcessType'
  BY <1>1, Types DEF ProcessType, TypeOK, Place, Status, Tid
<1>12. TidInv'
  BY <1>1, Types DEF TidInv, Tid
<1>13. DeadInv'
  BY <1>1, Types DEF DeadInv
<1>14. AcquireInv'
  BY <1>1, Types DEF AcquireInv, Busy
<1>15. ListInv'
  BY <1>1, ListFrame, Types
<1>16. EndInv'
  BY <1>1, <1>2, Types DEF EndInv, Ending, Tid, TidInv, Status, ProcessType, TypeOK
<1>17. WaitInv'
  BY <1>1, <1>2, Types DEF WaitInv, Gone, AcquireInv
<1>18. ExitInv'
  <2>1. Stale \subseteq Stale'
    BY <1>1, Types DEF Stale
  <2>2. \A u, q \in Page : tid[q] # 0 =>
           (Takes(u, q)' => Takes(u, q)) /\ (Keeps(u, q)' => Keeps(u, q))
    BY <1>1, Types DEF Takes, Keeps
  <2>3. \A q \in Page : tid[q] # 0 /\ pc'[q] = "x_die" /\ ended'[tid[q]] # "unloaded"
                        => pc[q] = "x_die" /\ ended[tid[q]] # "unloaded"
    BY <1>1, <1>2, Types, <1>3, <1>4 DEF TidInv, Tid
  <2>4. \A q \in Page : value'[q]["exit"] \in {0, value[q]["exit"]}
                        /\ holder'[q]["exit"] = holder[q]["exit"]
    OBVIOUS
  <2>5. QED
    BY <1>1, <1>2, <2>1, <2>2, <2>3, <2>4, ExitFrame
<1>19. KidsInv'
  BY <1>1, <1>2, Types DEF KidsInv, Tid
<1>20. StatusDelivered'
  BY <1>1, <1>2, <1>11, Types DEF StatusDelivered, ProcessType, Tid
<1>21. QED
  BY <1>11, <1>12, <1>13, <1>14, <1>15, <1>16, <1>17, <1>18, <1>19, <1>20 DEF ProcessInv

\* A process lets go of its lock_exec or of its lock_wait.
LEMMA OwnReleaseStep ==
    ASSUME ProcessInv, NEW t \in Page, NEW k \in LockName, NEW place \in Place,
           tid[t] # 0, mode[t] = "run", Release(t, k), Goto(t, place),
           \/ pc[t] = "load" /\ k = "exec" /\ place = "user"
           \/ pc[t] = "l_rel" /\ k = "exec" /\ place = "x_wait"
           \/ pc[t] = "x_wait" /\ k = "wait" /\ place = "x_soon",
           UNCHANGED <<tid, next_tid, exit_soon, exit_status, ptr, tgt, res, history>>
    PROVE  ProcessInv'
<1> USE DEF history
<1>1. ProcessType /\ TidInv /\ DeadInv /\ AcquireInv /\ ListInv
  BY DEF ProcessInv
<1>2. EndInv /\ WaitInv /\ ExitInv /\ KidsInv /\ StatusDelivered
  BY DEF ProcessInv
<1>3. /\ pc' \in [Page -> Place] /\ pc'[t] = place
      /\ \A u \in Page : u # t => pc'[u] = pc[u]
  BY <1>1, Types DEF Goto
<1>4. value[t][k] = 0
  BY <1>2 DEF WaitInv, Gone
<1>5. /\ value' \in [Page -> [LockName -> 0 .. 2]]
      /\ \A q \in Page, j \in LockName :
            value'[q][j] = IF q = t /\ j = k THEN 1 ELSE value[q][j]
      /\ holder' \in [Page -> [LockName -> Page \cup {NULL}]]
      /\ \A q \in Page, j \in LockName :
            holder'[q][j] = IF q = t /\ j = k THEN NULL ELSE holder[q][j]
      /\ waiters' \in [Page -> [LockName -> Seq(Page)]]
      /\ mode' \in [Page -> {"run", "blocked", "retry", "took"}]
      /\ \A u \in Page : mode'[u] = mode[u] \/ (mode[u] = "blocked" /\ mode'[u] = "retry")
      /\ ListInv'
  BY <1>1, <1>3, <1>4, ReleaseFacts
<1>6. ProcessType'
  BY <1>1, <1>3, <1>5 DEF ProcessType, TypeOK
<1>7. TidInv'
  BY <1>1 DEF TidInv
<1>8. DeadInv'
  <2>1. \A u \in Page : mode[u] = "run" => mode'[u] = "run"
    BY <1>5
  <2>2. QED
    BY <1>1, <1>3, <2>1 DEF DeadInv
<1>9. AcquireInv'
  <2>1. \A u \in Page : mode'[u] # "run" => mode[u] # "run" /\ u # t /\ pc'[u] = pc[u]
    BY <1>3, <1>5
  <2>2. \A u \in Page : pc'[u] \in Busy => pc[u] \in Busy
    BY <1>3 DEF Busy
  <2>3. QED
    BY <1>1, <2>1, <2>2 DEF AcquireInv
<1>10. EndInv'
  BY <1>2, <1>3 DEF EndInv, Ending
<1>11. WaitInv'
  <2>1. \A q \in Page : tid[q] # 0 =>
           /\ \A j \in LockName : value'[q][j] \in {0, 1}
           /\ pc'[q] \in {"load", "l_rel"} => value'[q]["exec"] = 0
           /\ pc'[q] \notin Gone => value'[q]["wait"] = 0
    <3> SUFFICES ASSUME NEW q \in Page, tid[q] # 0
                 PROVE  /\ \A j \in LockName : value'[q][j] \in {0, 1}
                        /\ pc'[q] \in {"load", "l_rel"} => value'[q]["exec"] = 0
                        /\ pc'[q] \notin Gone => value'[q]["wait"] = 0
      OBVIOUS
    <3>1. /\ \A j \in LockName : value[q][j] \in {0, 1}
          /\ pc[q] \in {"load", "l_rel"} => value[q]["exec"] = 0
          /\ pc[q] \notin Gone => value[q]["wait"] = 0
      BY <1>2 DEF WaitInv
    <3>2. \A j \in LockName : value'[q][j] \in {0, 1}
      BY <1>5, <3>1
    <3>3. CASE q = t
      BY <1>3, <1>5, <3>1, <3>3 DEF Gone, LockName
    <3>4. CASE q # t
      BY <1>3, <1>5, <3>1, <3>4 DEF LockName
    <3>5. QED
      BY <3>2, <3>3, <3>4
  <2>2. \A q \in Page : pc[q] \in Gone => pc'[q] \in Gone
    BY <1>3 DEF Gone
  <2>3. \A u \in Page : mode'[u] = "took" => mode[u] = "took" /\ u # t /\ ptr[u] \in Page
    BY <1>1, <1>5 DEF AcquireInv
  <2>4. \A u \in Page : pc'[u] = "w_read" => pc[u] = "w_read"
    BY <1>3
  <2>5. QED
    BY <1>2, <1>3, <2>1, <2>2, <2>3, <2>4 DEF WaitInv
<1>12. ExitInv'
  <2>1. Stale \subseteq Stale'
    BY <1>3, <1>5 DEF Stale
  <2>2. \A u, q \in Page : tid[q] # 0 =>
           (Takes(u, q)' => Takes(u, q)) /\ (Keeps(u, q)' => Keeps(u, q))
    BY <1>3, <1>5 DEF Takes, Keeps
  <2>3. QED
    BY <1>1, <1>2, <1>3, <1>5, <2>1, <2>2, ExitFrame DEF LockName
<1>13. KidsInv'
  BY <1>2, <1>3 DEF KidsInv
<1>14. StatusDelivered'
  BY <1>2, <1>3, <1>6 DEF StatusDelivered, ProcessType
<1>15. QED
  BY <1>5, <1>6, <1>7, <1>8, <1>9, <1>10, <1>11, <1>12, <1>13, <1>14 DEF ProcessInv

\* What has to be shown for ExitInv of one process after a step.
ExitGoal(q) ==
    /\ value'[q]["exit"] = 1 => Unheld(q)' /\ \A u \in Page : ~Takes(u, q)' /\ ~Keeps(u, q)'
    /\ \A u \in Page : Takes(u, q)' =>
          Unheld(q)' /\ \A v \in Page : (Takes(v, q)' => v = u) /\ ~Keeps(v, q)'
    /\ \A u \in Page : Keeps(u, q)' =>
          /\ holder'[q]["exit"] \in Stale' \cup {u}
          /\ \A v \in Page : Keeps(v, q)' => v = u
    /\ pc'[q] = "x_die" /\ ended'[tid'[q]] # "unloaded" =>
          /\ value'[q]["exit"] = 0
          /\ holder'[q]["exit"] \in Stale' \cup {q}
          /\ \A u \in Page : ~Takes(u, q)' /\ ~Keeps(u, q)'

\* process_wait lets go of the child's lock_exit.
Releasing(t, p) ==
    /\ tid[p] = tgt[t] /\ tgt[t] # 0 /\ tid[t] # 0
    /\ pc[t] = "w_rel" /\ mode[t] = "run" /\ holder[p]["exit"] = t
    /\ Release(p, "exit") /\ Goto(t, "w_exit2")
    /\ UNCHANGED <<tid, next_tid, exit_soon, exit_status, ptr, tgt, res, history>>

\* That keeps the invariant.
LEMMA ReleaseExitStep ==
    ASSUME ProcessInv, NEW t \in Page, NEW p \in Page, Releasing(t, p)
    PROVE  ProcessInv'
<1>at. /\ tid[p] = tgt[t] /\ tgt[t] # 0 /\ tid[t] # 0
       /\ pc[t] = "w_rel" /\ mode[t] = "run" /\ holder[p]["exit"] = t
  BY DEF Releasing
<1>same. /\ tid' = tid /\ next_tid' = next_tid /\ exit_soon' = exit_soon
         /\ exit_status' = exit_status /\ ptr' = ptr /\ tgt' = tgt /\ res' = res
         /\ kids' = kids /\ ended' = ended
  BY DEF Releasing, history
<1>1. ProcessType /\ TidInv /\ DeadInv /\ AcquireInv /\ ListInv
  BY DEF ProcessInv
<1>2. EndInv /\ WaitInv /\ ExitInv /\ KidsInv /\ StatusDelivered
  BY DEF ProcessInv
<1>3. /\ pc' \in [Page -> Place] /\ pc'[t] = "w_exit2"
      /\ \A u \in Page : u # t => pc'[u] = pc[u]
  BY <1>1, <1>at, Types DEF Releasing, Goto, Place
\* Nobody else has it: the holder is neither taking it, nor a parent in
\* process_execute, nor one whose child is gone.
<1>4. t # NULL /\ t \notin Stale
  BY <1>1, <1>at, Types DEF Stale
<1>5. /\ value[p]["exit"] # 1
      /\ \A u \in Page : ~Takes(u, p)
      /\ \A u \in Page : Keeps(u, p) => u = t
      /\ pc[p] = "x_die" => ended[tid[p]] = "unloaded"
  BY <1>2, <1>4, <1>at DEF ExitInv, Unheld
<1>6. ~Keeps(t, p)
  BY <1>2, <1>at DEF KidsInv, Keeps
<1>7. value[p]["exit"] = 0
  BY <1>2, <1>5, <1>at DEF WaitInv, LockName
<1>8. /\ value' \in [Page -> [LockName -> 0 .. 2]]
      /\ \A q \in Page, j \in LockName :
            value'[q][j] = IF q = p /\ j = "exit" THEN 1 ELSE value[q][j]
      /\ holder' \in [Page -> [LockName -> Page \cup {NULL}]]
      /\ \A q \in Page, j \in LockName :
            holder'[q][j] = IF q = p /\ j = "exit" THEN NULL ELSE holder[q][j]
      /\ waiters' \in [Page -> [LockName -> Seq(Page)]]
      /\ mode' \in [Page -> {"run", "blocked", "retry", "took"}]
      /\ \A u \in Page : mode'[u] = mode[u] \/ (mode[u] = "blocked" /\ mode'[u] = "retry")
      /\ ListInv'
  <2>1. Release(p, "exit") /\ "exit" \in LockName
    BY DEF Releasing, LockName
  <2>2. QED
    BY <1>1, <1>3, <1>7, <1>at, <1>same, <2>1, ReleaseFacts
<1>9. ProcessType'
  BY <1>1, <1>3, <1>8, <1>same DEF ProcessType, TypeOK
<1>10. TidInv'
  BY <1>1, <1>same DEF TidInv
<1>11. DeadInv'
  <2>1. \A u \in Page : mode[u] = "run" => mode'[u] = "run"
    BY <1>8
  <2>2. QED
    BY <1>1, <1>3, <1>at, <1>same, <2>1 DEF DeadInv
<1>12. AcquireInv'
  <2>1. \A u \in Page : mode'[u] # "run" => mode[u] # "run" /\ u # t /\ pc'[u] = pc[u]
    BY <1>3, <1>8, <1>at
  <2>2. \A u \in Page : pc'[u] \in Busy => pc[u] \in Busy
    BY <1>3, <1>at DEF Busy
  <2>3. QED
    BY <1>1, <1>same, <2>1, <2>2 DEF AcquireInv
<1>13. EndInv'
  BY <1>2, <1>3, <1>at, <1>same DEF EndInv, Ending
<1>14. WaitInv'
  <2>1. \A q \in Page : tid[q] # 0 =>
           /\ \A j \in LockName : value'[q][j] \in {0, 1}
           /\ pc'[q] \in {"load", "l_rel"} => value'[q]["exec"] = 0
           /\ pc'[q] \notin Gone => value'[q]["wait"] = 0
    <3>1. /\ \A q \in Page : value'[q]["exec"] = value[q]["exec"]
          /\ \A q \in Page : value'[q]["wait"] = value[q]["wait"]
      BY <1>8 DEF LockName
    <3>2. \A q \in Page, j \in LockName : value[q][j] \in {0, 1} => value'[q][j] \in {0, 1}
      BY <1>8
    <3>3. \A q \in Page : /\ pc'[q] \in {"load", "l_rel"} => pc[q] \in {"load", "l_rel"}
                          /\ pc'[q] \notin Gone => pc[q] \notin Gone
      BY <1>3, <1>at DEF Gone
    <3>4. QED
      BY <1>2, <3>1, <3>2, <3>3 DEF WaitInv
  <2>2. \A q \in Page : pc[q] \in Gone => pc'[q] \in Gone
    BY <1>3, <1>at DEF Gone
  <2>3. \A u \in Page : mode'[u] = "took" => mode[u] = "took" /\ u # t /\ ptr[u] \in Page
    BY <1>1, <1>8, <1>at DEF AcquireInv
  <2>4. \A u \in Page : pc'[u] = "w_read" => pc[u] = "w_read"
    BY <1>3, <1>at
  <2>5. QED
    BY <1>2, <1>3, <1>same, <2>1, <2>2, <2>3, <2>4 DEF WaitInv
<1>15. ExitInv'
  <2>1. Stale \subseteq Stale'
    BY <1>3, <1>8, <1>at, <1>same DEF Stale
  <2>2. \A u, q \in Page : (Takes(u, q)' => Takes(u, q)) /\ (Keeps(u, q)' => Keeps(u, q))
    BY <1>3, <1>8, <1>at, <1>same DEF Takes, Keeps
  <2> SUFFICES ASSUME NEW q \in Page, tid[q] # 0 PROVE ExitGoal(q)
    BY <1>same DEF ExitInv, ExitGoal
  <2>3. CASE q = p
    <3>1. holder'[q]["exit"] = NULL
      BY <1>8, <2>3 DEF LockName
    <3>2. Unheld(q)'
      BY <3>1 DEF Unheld
    <3>3. \A u \in Page : ~Takes(u, q)' /\ ~Keeps(u, q)'
      BY <1>5, <1>6, <2>2, <2>3
    <3>4. ~(pc'[q] = "x_die" /\ ended[tid[q]] # "unloaded")
      BY <1>3, <1>5, <1>at, <2>3
    <3>5. QED
      BY <1>same, <3>2, <3>3, <3>4 DEF ExitGoal
  <2>4. CASE q # p
    <3>1. value'[q]["exit"] = value[q]["exit"] /\ holder'[q]["exit"] = holder[q]["exit"]
      BY <1>8, <2>4 DEF LockName
    <3>2. Unheld(q) => Unheld(q)'
      BY <2>1, <3>1 DEF Unheld
    <3>3. pc'[q] = "x_die" => pc[q] = "x_die"
      BY <1>3, <1>at
    <3>4. QED
      BY <1>2, <1>same, <2>1, <2>2, <3>1, <3>2, <3>3 DEF ExitInv, ExitGoal
  <2>5. QED
    BY <2>3, <2>4
<1>16. KidsInv'
  BY <1>2, <1>3, <1>at, <1>same DEF KidsInv
<1>17. StatusDelivered'
  BY <1>2, <1>3, <1>9, <1>at, <1>same DEF StatusDelivered, ProcessType
<1>18. QED
  BY <1>8, <1>9, <1>10, <1>11, <1>12, <1>13, <1>14, <1>15, <1>16, <1>17 DEF ProcessInv

\* A round of sema_down, in the page p: its own, or the one its target lives in if that
\* is still there.
Rounding(t, p, k) ==
    /\ tid[t] # 0 /\ mode[t] \in {"run", "retry"} /\ pc[t] \in Acquiring
    /\ k = LockAt[pc[t]] /\ t \notin Stale
    /\ pc[t] = "x_exit" => p = t
    /\ pc[t] # "x_exit" => \A q \in Page : tid[q] = tgt[t] => p = q
    /\ Round(t, p, k) /\ ptr' = [ptr EXCEPT ![t] = p]
    /\ UNCHANGED <<tid, next_tid, exit_soon, exit_status, holder, pc, tgt, res, history>>

\* Such a round keeps the invariant, whether it takes the semaphore or joins its waiters.
LEMMA RoundStep ==
    ASSUME ProcessInv, NEW t \in Page, NEW p \in Page, NEW k \in LockName, Rounding(t, p, k)
    PROVE  ProcessInv'
<1>at. /\ tid[t] # 0 /\ mode[t] \in {"run", "retry"} /\ pc[t] \in Acquiring
       /\ k = LockAt[pc[t]] /\ t \notin Stale
  BY DEF Rounding
<1>of. /\ pc[t] = "x_exit" => p = t
       /\ pc[t] # "x_exit" => \A q \in Page : tid[q] = tgt[t] => p = q
  BY DEF Rounding
<1>same. /\ tid' = tid /\ next_tid' = next_tid /\ exit_soon' = exit_soon
         /\ exit_status' = exit_status /\ holder' = holder /\ pc' = pc
         /\ tgt' = tgt /\ res' = res /\ kids' = kids /\ ended' = ended
  BY DEF Rounding, history
<1>1. ProcessType /\ TidInv /\ DeadInv /\ AcquireInv /\ ListInv
  BY DEF ProcessInv
<1>2. EndInv /\ WaitInv /\ ExitInv /\ KidsInv /\ StatusDelivered
  BY DEF ProcessInv
<1>3. /\ ptr' \in [Page -> Page \cup {NULL}] /\ ptr'[t] = p
      /\ \A u \in Page : u # t => ptr'[u] = ptr[u]
  BY <1>1, Types DEF Rounding
<1>4. \A q \in Page, j \in LockName : value[q][j] \in 0 .. 2
  BY <1>1, Types
<1>5. TidInv' /\ EndInv' /\ KidsInv'
  BY <1>1, <1>2, <1>same DEF TidInv, EndInv, KidsInv
<1>6. ASSUME NEW m \in {"took", "blocked"}, mode' = [mode EXCEPT ![t] = m],
             value' \in [Page -> [LockName -> 0 .. 2]],
             waiters' \in [Page -> [LockName -> Seq(Page)]]
      PROVE  /\ mode'[t] = m /\ \A u \in Page : u # t => mode'[u] = mode[u]
             /\ ProcessType' /\ DeadInv' /\ AcquireInv' /\ StatusDelivered'
  <2>1. /\ mode' \in [Page -> {"run", "blocked", "retry", "took"}]
        /\ mode'[t] = m /\ \A u \in Page : u # t => mode'[u] = mode[u]
    BY <1>1, <1>6, Types
  <2>2. ProcessType'
    BY <1>1, <1>3, <1>6, <1>same, <2>1 DEF ProcessType, TypeOK
  <2>3. DeadInv'
    BY <1>1, <1>at, <1>same, <2>1 DEF DeadInv
  <2>4. AcquireInv'
    BY <1>1, <1>3, <1>at, <1>of, <1>same, <2>1 DEF AcquireInv
  <2>5. StatusDelivered'
    BY <1>2, <1>same, <2>2 DEF StatusDelivered, ProcessType
  <2>6. QED
    BY <2>1, <2>2, <2>3, <2>4, <2>5
<1>7. CASE value[p][k] > 0
  <2>1. /\ value' = [value EXCEPT ![p][k] = IF @ = 1 THEN 0 ELSE @]
        /\ mode' = [mode EXCEPT ![t] = "took"] /\ waiters' = waiters
    BY <1>7 DEF Rounding, Round
  <2> DEFINE v == IF value[p][k] = 1 THEN 0 ELSE value[p][k]
  <2>2. /\ value' \in [Page -> [LockName -> 0 .. 2]]
        /\ \A q \in Page, j \in LockName :
              value'[q][j] = IF q = p /\ j = k THEN v ELSE value[q][j]
    <3>1. v \in 0 .. 2 /\ value \in [Page -> [LockName -> 0 .. 2]]
      BY <1>1, <1>4, Types
    <3>2. value' = [value EXCEPT ![p][k] = v]
      BY <2>1
    <3> HIDE DEF v
    <3>3. QED
      BY <3>1, <3>2, Update
  <2>3. /\ mode'[t] = "took" /\ \A u \in Page : u # t => mode'[u] = mode[u]
        /\ ProcessType' /\ DeadInv' /\ AcquireInv' /\ StatusDelivered'
    BY <1>1, <1>6, <2>1, <2>2, Types
  <2>4. ListInv'
    BY <1>1, <1>3, <1>at, <1>same, <2>1, <2>3, ListFrame
  <2>5. WaitInv'
    <3>1. \A q \in Page, j \in LockName : value'[q][j] \in {0, value[q][j]}
      BY <2>2
    <3>2. ASSUME pc[t] = "w_wait", tid[p] = tgt[t] PROVE pc[p] \in Gone
      <4>1. k = "wait" /\ tgt[t] # 0
        BY <1>1, <1>at, <3>2, Places DEF AcquireInv, Busy
      <4>2. QED
        BY <1>2, <1>7, <3>2, <4>1 DEF WaitInv
    <3>3. QED
      BY <1>2, <1>3, <1>same, <2>3, <3>1, <3>2 DEF WaitInv, LockName
  <2>6. ExitInv'
    <3>1. Stale \subseteq Stale'
      BY <1>at, <1>same, <2>3 DEF Stale
    <3>2. \A u, q \in Page : Keeps(u, q)' => Keeps(u, q)
      BY <1>same DEF Keeps
    <3>3. \A u, q \in Page : Takes(u, q)' => Takes(u, q) \/ (u = t /\ q = p)
      BY <1>3, <1>same, <2>3 DEF Takes
    <3>4. \A q \in Page : value'[q]["exit"] \in {0, value[q]["exit"]}
      BY <2>2 DEF LockName
    <3>5. CASE ~Takes(t, p)'
      BY <1>1, <1>2, <1>same, <3>1, <3>2, <3>3, <3>4, <3>5, ExitFrame
    <3>6. CASE Takes(t, p)'
      <4>1. k = "exit" /\ tid[p] # 0
        <5>1. pc[t] = "x_exit" \/ (pc[t] = "e_exit" /\ tgt[t] = tid[p])
          BY <1>same, <3>6 DEF Takes
        <5>2. k = "exit"
          BY <1>at, <5>1, Places
        <5>3. pc[t] = "e_exit" => tgt[t] # 0
          BY <1>1 DEF AcquireInv, Busy
        <5>4. QED
          BY <1>at, <1>of, <5>1, <5>2, <5>3
      <4>2. value[p]["exit"] = 1 /\ value'[p]["exit"] = 0
        <5>1. value[p]["exit"] \in {0, 1} /\ value[p]["exit"] > 0
          BY <1>2, <1>7, <4>1 DEF WaitInv
        <5>2. value[p]["exit"] = 1
          BY <5>1
        <5>3. QED
          BY <2>2, <4>1, <5>2
      <4>3. Unheld(p) /\ \A u \in Page : ~Takes(u, p) /\ ~Keeps(u, p)
        BY <1>2, <4>1, <4>2 DEF ExitInv
      <4>4. ASSUME NEW q \in Page, tid[q] # 0 PROVE ExitGoal(q)
        <5>1. Unheld(q) => Unheld(q)'
          BY <1>same, <3>1 DEF Unheld
        <5>2. CASE q = p
          <6>1. ~(pc[p] = "x_die" /\ ended[tid[p]] # "unloaded")
            BY <1>2, <4>1, <4>2 DEF ExitInv
          <6>2. \A u \in Page : (Takes(u, p)' => u = t) /\ ~Keeps(u, p)'
            BY <3>2, <3>3, <4>3
          <6>3. QED
            BY <1>same, <4>2, <4>3, <5>1, <5>2, <6>1, <6>2 DEF ExitGoal
        <5>3. CASE q # p
          <6>1. value'[q]["exit"] = value[q]["exit"]
            BY <2>2, <5>3 DEF LockName
          <6>2. \A u \in Page : Takes(u, q)' => Takes(u, q)
            BY <3>3, <5>3
          <6>3. QED
            BY <1>2, <1>same, <3>1, <3>2, <4>4, <5>1, <6>1, <6>2 DEF ExitInv, ExitGoal
        <5>4. QED
          BY <5>2, <5>3
      <4>5. QED
        BY <1>same, <4>4 DEF ExitInv, ExitGoal
    <3>7. QED
      BY <3>5, <3>6
  <2>7. QED
    BY <1>5, <2>3, <2>4, <2>5, <2>6 DEF ProcessInv
<1>8. CASE value[p][k] = 0
  <2>1. /\ waiters' = [waiters EXCEPT ![p][k] = Append(@, t)]
        /\ mode' = [mode EXCEPT ![t] = "blocked"] /\ value' = value
    BY <1>8 DEF Rounding, Round
  <2> DEFINE w == waiters[p][k]
             v == Append(w, t)
  <2>2. w \in Seq(Page)
    BY <1>1, Types
  <2>3. /\ v \in Seq(Page) /\ DOMAIN v = 1 .. Len(w) + 1 /\ DOMAIN w = 1 .. Len(w)
        /\ \A i \in DOMAIN w : v[i] = w[i]
        /\ v[Len(w) + 1] = t
    BY <2>2, AppendProperties
  <2>4. /\ waiters' \in [Page -> [LockName -> Seq(Page)]]
        /\ \A q \in Page, j \in LockName :
              waiters'[q][j] = IF q = p /\ j = k THEN v ELSE waiters[q][j]
    <3>1. v \in Seq(Page) /\ waiters \in [Page -> [LockName -> Seq(Page)]]
      BY <1>1, <2>3, Types
    <3>2. waiters' = [waiters EXCEPT ![p][k] = v]
      BY <2>1
    <3> HIDE DEF v
    <3>3. QED
      BY <3>1, <3>2, Update
  <2>5. /\ mode'[t] = "blocked" /\ \A u \in Page : u # t => mode'[u] = mode[u]
        /\ ProcessType' /\ DeadInv' /\ AcquireInv' /\ StatusDelivered'
    BY <1>1, <1>6, <2>1, <2>4, Types
  <2>6. ListInv'
    <3> SUFFICES ASSUME NEW q \in Page, NEW j \in LockName
                 PROVE  /\ \A i \in DOMAIN waiters'[q][j] :
                              LET u == waiters'[q][j][i]
                              IN  mode'[u] = "blocked" /\ ptr'[u] = q /\ LockAt[pc'[u]] = j
                        /\ \A i, l \in DOMAIN waiters'[q][j] :
                              waiters'[q][j][i] = waiters'[q][j][l] => i = l
      BY DEF ListInv
    <3> DEFINE z == waiters[q][j]
    <3>1. z \in Seq(Page)
      BY <1>1, Types
    <3>2. /\ \A i \in DOMAIN z : mode[z[i]] = "blocked" /\ ptr[z[i]] = q /\ LockAt[pc[z[i]]] = j
          /\ \A i, l \in DOMAIN z : z[i] = z[l] => i = l
      BY <1>1 DEF ListInv
    <3>3. \A i \in DOMAIN z : z[i] \in Page
      BY <3>1
    <3>4. \A i \in DOMAIN z : z[i] # t
      BY <1>at, <3>2
    <3>5. CASE q = p /\ j = k
      <4>1. waiters'[q][j] = v /\ z = w
        BY <2>4, <3>5
      <4> HIDE DEF v, w, z
      <4>2. \A i \in DOMAIN v : (i \in DOMAIN w /\ v[i] = w[i]) \/ (i = Len(w) + 1 /\ v[i] = t)
        BY <2>2, <2>3
      <4>3. \A i, l \in DOMAIN v : v[i] = v[l] => i = l
        BY <3>2, <3>4, <4>1, <4>2
      <4>4. \A i \in DOMAIN v : mode'[v[i]] = "blocked" /\ ptr'[v[i]] = q /\ LockAt[pc[v[i]]] = j
        BY <1>3, <1>at, <2>5, <3>2, <3>3, <3>4, <3>5, <4>1, <4>2
      <4>5. QED
        BY <1>same, <4>1, <4>3, <4>4
    <3>6. CASE ~(q = p /\ j = k)
      <4>1. waiters'[q][j] = z
        BY <2>4, <3>6
      <4> HIDE DEF z
      <4>2. QED
        BY <1>3, <1>same, <2>5, <3>2, <3>3, <3>4, <4>1
    <3>7. QED
      BY <3>5, <3>6
  <2>7. \A u \in Page : mode'[u] = "took" => mode[u] = "took" /\ u # t /\ ptr'[u] = ptr[u]
    BY <1>3, <1>at, <2>5
  <2>8. WaitInv'
    BY <1>2, <1>same, <2>1, <2>7 DEF WaitInv
  <2>9. ExitInv'
    <3>1. Stale \subseteq Stale'
      BY <1>at, <1>same, <2>5 DEF Stale
    <3>2. \A u, q \in Page : (Takes(u, q)' => Takes(u, q)) /\ (Keeps(u, q)' => Keeps(u, q))
      BY <1>same, <2>7 DEF Takes, Keeps
    <3>3. QED
      BY <1>1, <1>2, <1>same, <2>1, <3>1, <3>2, ExitFrame
  <2>10. QED
    BY <1>5, <2>5, <2>6, <2>8, <2>9 DEF ProcessInv
<1>9. QED
  BY <1>4, <1>7, <1>8

\* The end of lock_acquire: the thread becomes the holder.
LEMMA HoldStep ==
    ASSUME ProcessInv, NEW t \in Page, lock_hold(t)
    PROVE  ProcessInv'
<1> USE DEF history
<1>1. ProcessType /\ TidInv /\ DeadInv /\ AcquireInv /\ ListInv
  BY DEF ProcessInv
<1>2. EndInv /\ WaitInv /\ ExitInv /\ KidsInv /\ StatusDelivered
  BY DEF ProcessInv
<1>3. tid[t] # 0 /\ mode[t] = "took"
  BY DEF lock_hold
<1>4. UNCHANGED <<tid, next_tid, exit_soon, exit_status, value, waiters, tgt, res, history>>
  BY DEF lock_hold
<1> USE <1>3, <1>4
<1>5. PICK p \in Page : p = ptr[t]
  BY <1>1 DEF AcquireInv
<1>6. PICK k \in LockName : k = LockAt[pc[t]]
  BY <1>1, Places DEF AcquireInv
<1>7. pc[t] \in Acquiring
  BY <1>1 DEF AcquireInv
<1>8. /\ holder' \in [Page -> [LockName -> Page \cup {NULL}]]
      /\ \A q \in Page, j \in LockName :
            holder'[q][j] = IF q = p /\ j = k THEN t ELSE holder[q][j]
  <2>1. holder' = [holder EXCEPT ![p][k] = t]
    BY <1>5, <1>6 DEF lock_hold
  <2>2. holder \in [Page -> [LockName -> Page \cup {NULL}]] /\ t \in Page \cup {NULL}
    BY <1>1, Types
  <2>3. QED
    BY <2>1, <2>2, Update
<1>9. /\ mode' \in [Page -> {"run", "blocked", "retry", "took"}] /\ mode'[t] = "run"
      /\ \A u \in Page : u # t => mode'[u] = mode[u]
  BY <1>1, Types DEF lock_hold
<1>10. /\ ptr' \in [Page -> Page \cup {NULL}]
       /\ \A u \in Page : u # t => ptr'[u] = ptr[u]
  BY <1>1, Types DEF lock_hold
<1>11. /\ pc' \in [Page -> Place] /\ pc'[t] = After[pc[t]]
       /\ \A u \in Page : u # t => pc'[u] = pc[u]
  BY <1>1, <1>7, Places, Types DEF lock_hold, Goto
<1>12. ProcessType'
  BY <1>1, <1>8, <1>9, <1>10, <1>11 DEF ProcessType, TypeOK
<1>13. TidInv'
  BY <1>1 DEF TidInv
<1>14. DeadInv'
  BY <1>1, <1>9, <1>11 DEF DeadInv
<1>15. AcquireInv'
  <2>1. pc'[t] \in Busy => pc[t] \in Busy
    BY <1>7, <1>11, Places DEF Busy
  <2>2. QED
    BY <1>1, <1>9, <1>10, <1>11, <2>1 DEF AcquireInv
<1>16. ListInv'
  BY <1>1, <1>9, <1>10, <1>11, ListFrame
<1>17. EndInv'
  <2>1. pc'[t] \in Ending <=> pc[t] \in Ending
    BY <1>7, <1>11, Places DEF Ending
  <2>2. QED
    BY <1>2, <1>11, <2>1 DEF EndInv
<1>18. WaitInv'
  <2>1. /\ pc[t] \in Gone => pc'[t] \in Gone
        /\ pc'[t] \notin Gone => pc[t] \notin Gone
        /\ pc'[t] \notin {"load", "l_rel"}
        /\ pc'[t] = "w_read" => pc[t] = "w_wait"
    BY <1>7, <1>11, Places DEF Gone
  <2>2. \A q \in Page : tid[q] # 0 =>
           /\ \A j \in LockName : value[q][j] \in {0, 1}
           /\ pc'[q] \in {"load", "l_rel"} => value[q]["exec"] = 0
           /\ pc'[q] \notin Gone => value[q]["wait"] = 0
    BY <1>2, <1>11, <2>1 DEF WaitInv
  <2>3. \A q \in Page : pc[q] \in Gone => pc'[q] \in Gone
    BY <1>11, <2>1
  <2>4. \A u \in Page : mode'[u] = "took" =>
           mode[u] = "took" /\ pc'[u] = pc[u] /\ ptr'[u] = ptr[u] /\ ptr[u] \in Page
    BY <1>1, <1>9, <1>10, <1>11 DEF AcquireInv
  <2>5. ASSUME NEW q \in Page, pc'[t] = "w_read", tid[q] = tgt[t] PROVE pc[q] \in Gone
    <3>1. ptr[t] = q
      BY <1>1, <2>1, <2>5 DEF AcquireInv
    <3>2. QED
      BY <1>2, <2>1, <2>5, <3>1 DEF WaitInv
  <2>6. \A u, q \in Page : pc'[u] = "w_read" /\ tid[q] = tgt[u] => pc[q] \in Gone
    BY <1>2, <1>11, <2>5 DEF WaitInv
  <2>7. QED
    BY <1>2, <2>2, <2>3, <2>4, <2>6 DEF WaitInv
<1>19. KidsInv'
  <2>1. pc'[t] \in {"w_wait", "w_read", "w_rel"} => pc[t] = "w_wait"
    BY <1>7, <1>11, Places
  <2>2. QED
    BY <1>2, <1>11, <2>1 DEF KidsInv
<1>20. StatusDelivered'
  <2>1. pc'[t] \in {"w_rel", "w_exit2", "w_ret"} => pc[t] = "w_exit2"
    BY <1>7, <1>11, Places
  <2>2. QED
    BY <1>2, <1>11, <1>12, <2>1 DEF StatusDelivered, ProcessType
<1>21. ExitInv'
  <2>1. Stale \subseteq Stale'
    BY <1>9, <1>11 DEF Stale
  <2>2. \A u, q \in Page : Takes(u, q)' => Takes(u, q) /\ u # t
    BY <1>9, <1>10, <1>11 DEF Takes
  <2>3. \A u, q \in Page :
           Keeps(u, q)' => Keeps(u, q) \/ (u = t /\ pc[t] = "e_exit" /\ tgt[t] = tid[q])
    BY <1>7, <1>11, Places DEF Keeps
  <2>4. \A q \in Page : pc'[q] = "x_die" => pc[q] = "x_die" \/ (q = t /\ pc[t] = "x_exit")
    BY <1>7, <1>11, Places
  <2>5. pc[t] = "e_exit" => tgt[t] # 0
    BY <1>1 DEF AcquireInv, Busy
  <2> SUFFICES ASSUME NEW q \in Page, tid[q] # 0 PROVE ExitGoal(q)
    BY DEF ExitInv, ExitGoal
  <2>6. Unheld(q) /\ holder'[q]["exit"] = holder[q]["exit"] => Unheld(q)'
    BY <2>1 DEF Unheld
  <2>7. CASE pc[t] = "e_exit" /\ tid[p] # tgt[t]
    \* Its child is gone: p may be the page of another process by now.
    <3>1. \A r \in Page : tid[r] # tgt[t]
      BY <1>1, <1>5, <2>7 DEF AcquireInv
    <3>2. t \in Stale'
      <4>1. pc'[t] = "e_exec"
        BY <1>11, <2>7, Places
      <4>2. QED
        BY <1>9, <3>1, <4>1 DEF Stale
    <3>3. \A u \in Page : Keeps(u, q)' => Keeps(u, q)
      BY <2>3, <3>1
    <3>4. holder'[q]["exit"] \in {holder[q]["exit"], t}
      BY <1>8 DEF LockName
    <3>5. Unheld(q) => Unheld(q)'
      BY <2>1, <3>2, <3>4 DEF Unheld
    <3>6. \A u \in Page : holder[q]["exit"] \in Stale \cup {u} => holder'[q]["exit"] \in Stale' \cup {u}
      BY <2>1, <3>2, <3>4
    <3>7. QED
      BY <1>2, <2>2, <2>4, <2>7, <3>3, <3>5, <3>6 DEF ExitInv, ExitGoal
  <2>8. CASE pc[t] = "x_exit" \/ (pc[t] = "e_exit" /\ tid[p] = tgt[t])
    <3>1. k = "exit" /\ Takes(t, p) /\ tid[p] # 0
      BY <1>1, <1>5, <1>6, <2>5, <2>8, Places DEF Takes, AcquireInv
    <3>2. CASE q # p
      <4>1. holder'[q]["exit"] = holder[q]["exit"]
        BY <1>8, <3>2 DEF LockName
      <4>2. ~(pc[t] = "e_exit" /\ tgt[t] = tid[q])
        BY <1>1, <2>8, <3>2 DEF TidInv
      <4>3. pc'[q] = "x_die" => pc[q] = "x_die"
        BY <1>1, <1>5, <2>4, <3>2 DEF AcquireInv
      <4>4. \A u \in Page : Keeps(u, q)' => Keeps(u, q)
        BY <2>3, <4>2
      <4>5. QED
        BY <1>2, <2>1, <2>2, <2>6, <4>1, <4>3, <4>4 DEF ExitInv, ExitGoal
    <3>3. CASE q = p
      <4>1. /\ value[p]["exit"] # 1 /\ \A u \in Page : (Takes(u, p) => u = t) /\ ~Keeps(u, p)
            /\ ~(pc[p] = "x_die" /\ ended[tid[p]] # "unloaded")
        BY <1>2, <3>1 DEF ExitInv
      <4>2. value[p]["exit"] = 0
        BY <1>2, <3>1, <4>1 DEF WaitInv
      <4>3. holder'[p]["exit"] = t
        BY <1>8, <3>1 DEF LockName
      <4>4. \A u \in Page : ~Takes(u, p)' /\ (Keeps(u, p)' => u = t /\ pc[t] = "e_exit")
        BY <2>2, <2>3, <4>1
      <4>5. pc'[p] = "x_die" /\ ended[tid[p]] # "unloaded" => p = t /\ pc[t] = "x_exit"
        BY <2>4, <4>1
      <4>6. value'[p]["exit"] = 0 /\ \A u \in Page : ~Takes(u, p)'
        BY <4>2, <4>4
      <4>7. \A u \in Page : Keeps(u, p)' =>
               /\ holder'[p]["exit"] \in Stale' \cup {u}
               /\ \A v \in Page : Keeps(v, p)' => v = u
        BY <4>3, <4>4
      <4>8. pc'[p] = "x_die" /\ ended'[tid'[p]] # "unloaded" =>
               holder'[p]["exit"] \in Stale' \cup {p} /\ \A u \in Page : ~Keeps(u, p)'
        BY <4>3, <4>4, <4>5
      <4>9. QED
        BY <3>3, <4>6, <4>7, <4>8 DEF ExitGoal
    <3>4. QED
      BY <3>2, <3>3
  <2>9. CASE pc[t] \notin {"x_exit", "e_exit"}
    <3>1. k # "exit"
      BY <1>6, <1>7, <2>9, Places
    <3>2. holder'[q]["exit"] = holder[q]["exit"]
      BY <1>8, <3>1 DEF LockName
    <3>3. QED
      BY <1>2, <2>1, <2>2, <2>3, <2>4, <2>6, <2>9, <3>2 DEF ExitInv, ExitGoal
  <2>10. QED
    BY <2>7, <2>8, <2>9
<1>22. QED
  BY <1>12, <1>13, <1>14, <1>15, <1>16, <1>17, <1>18, <1>19, <1>20, <1>21 DEF ProcessInv

\* process_execute creates the child, in a free page.
LEMMA ExecuteStep ==
    ASSUME ProcessInv, NEW t \in Page, NEW p \in Page, process_execute(t, p)
    PROVE  ProcessInv'
<1> USE DEF history
<1>1. ProcessType /\ TidInv /\ DeadInv /\ AcquireInv /\ ListInv
  BY DEF ProcessInv
<1>2. EndInv /\ WaitInv /\ ExitInv /\ KidsInv /\ StatusDelivered
  BY DEF ProcessInv
<1>3. /\ tid[t] # 0 /\ pc[t] = "user" /\ mode[t] = "run" /\ tid[p] = 0 /\ p # t
      /\ next_tid \in 3 .. MaxTid /\ next_tid' = next_tid + 1
      /\ UNCHANGED <<mode, ptr, res, history>>
  BY <1>1, Types DEF process_execute, At
<1> DEFINE n == next_tid
<1>4. /\ tid' \in [Page -> 0 .. MaxTid] /\ tid'[p] = n
      /\ \A q \in Page : q # p => tid'[q] = tid[q]
  BY <1>1, <1>3, Types DEF process_execute
<1>5. /\ pc' \in [Page -> Place] /\ pc'[t] = "e_soon" /\ pc'[p] = "load"
      /\ \A q \in Page : q \notin {t, p} => pc'[q] = pc[q]
  BY <1>1, <1>3, Types DEF process_execute, Place
<1>6. /\ tgt' \in [Page -> 0 .. MaxTid] /\ tgt'[t] = n
      /\ \A q \in Page : q # t => tgt'[q] = tgt[q]
  BY <1>1, <1>3, Types DEF process_execute
<1>7. /\ value' \in [Page -> [LockName -> 0 .. 2]]
      /\ value'[p] = [k \in LockName |-> IF k = "exit" THEN 1 ELSE 0]
      /\ \A q \in Page : q # p => value'[q] = value[q]
  <2>1. [k \in LockName |-> IF k = "exit" THEN 1 ELSE 0] \in [LockName -> 0 .. 2]
    OBVIOUS
  <2>2. QED
    BY <1>1, <2>1, Types DEF process_execute
<1>8. /\ holder' \in [Page -> [LockName -> Page \cup {NULL}]]
      /\ holder'[p] = [k \in LockName |-> IF k = "exit" THEN NULL ELSE p]
      /\ \A q \in Page : q # p => holder'[q] = holder[q]
  <2>1. [k \in LockName |-> IF k = "exit" THEN NULL ELSE p] \in [LockName -> Page \cup {NULL}]
    OBVIOUS
  <2>2. QED
    BY <1>1, <2>1, Types DEF process_execute
<1>9. /\ waiters' \in [Page -> [LockName -> Seq(Page)]]
      /\ waiters'[p] = [k \in LockName |-> <<>>]
      /\ \A q \in Page : q # p => waiters'[q] = waiters[q]
  <2>1. [k \in LockName |-> <<>>] \in [LockName -> Seq(Page)]
    OBVIOUS
  <2>2. QED
    BY <1>1, <2>1, Types DEF process_execute
<1>10. /\ exit_soon' \in [Page -> BOOLEAN] /\ exit_soon'[p] = FALSE
       /\ \A q \in Page : q # p => exit_soon'[q] = exit_soon[q]
  BY <1>1 DEF process_execute, ProcessType, TypeOK
<1>11. /\ exit_status' \in [Page -> Status]
       /\ \A q \in Page : q # p => exit_status'[q] = exit_status[q]
  BY <1>1 DEF process_execute, ProcessType, TypeOK, Status
\* The new tid is nobody's yet.
<1>12. /\ n \in Tid /\ n # 0 /\ ended[n] = "no"
       /\ \A u \in Page : tid[u] # n /\ tgt[u] # n /\ n \notin kids[u]
  <2>1. n \in Tid /\ n # 0 /\ n \in Nat
    BY <1>1, <1>3, Types DEF Tid
  <2>2. \A u \in Page : tid[u] # n /\ tgt[u] # n /\ n \notin kids[u]
    BY <1>1, <2>1, Types DEF TidInv
  <2>3. QED
    BY <1>1, <2>1, <2>2 DEF TidInv
<1>13. kids[p] = {} /\ mode[p] = "run" /\ pc[p] = "none"
  BY <1>1, <1>3 DEF DeadInv
<1>14. ProcessType'
  <2>1. next_tid' \in 3 .. MaxTid + 1
    BY <1>1, <1>3, Types
  <2>2. /\ mode' \in [Page -> {"run", "blocked", "retry", "took"}]
        /\ ptr' \in [Page -> Page \cup {NULL}] /\ res' \in [Page -> Status]
        /\ kids' \in [Page -> SUBSET Tid]
        /\ ended' \in [Tid -> Status \cup {"no", "killed", "unloaded"}]
    BY <1>1, <1>3 DEF ProcessType, TypeOK
  <2>3. tid' \in [Page -> 0 .. MaxTid] /\ tgt' \in [Page -> 0 .. MaxTid] /\ pc' \in [Page -> Place]
    BY <1>4, <1>5, <1>6
  <2>4. /\ value' \in [Page -> [LockName -> 0 .. 2]]
        /\ holder' \in [Page -> [LockName -> Page \cup {NULL}]]
        /\ waiters' \in [Page -> [LockName -> Seq(Page)]]
    BY <1>7, <1>8, <1>9
  <2>5. exit_soon' \in [Page -> BOOLEAN] /\ exit_status' \in [Page -> Status]
    BY <1>10, <1>11
  <2>6. QED
    BY <2>1, <2>2, <2>3, <2>4, <2>5 DEF ProcessType, TypeOK
<1>15. TidInv'
  <2>1. \A q, r \in Page : tid'[q] = tid'[r] /\ tid'[q] # 0 => q = r
    BY <1>1, <1>4, <1>12 DEF TidInv
  <2>2. \A q \in Page : tid'[q] < n + 1 /\ tgt'[q] < n + 1
    <3>1. \A q \in Page : tid[q] \in Nat /\ tgt[q] \in Nat /\ tid[q] < n /\ tgt[q] < n
      BY <1>1, Types DEF TidInv
    <3>2. n \in Nat
      BY <1>3
    <3> HIDE DEF n
    <3>3. \A q \in Page : /\ tid'[q] \in {n, tid[q]}
                          /\ tgt'[q] \in {n, tgt[q]}
      BY <1>4, <1>6
    <3>4. QED
      BY <3>1, <3>2, <3>3
  <2>3. \A q \in Page : \A m \in kids[q] : m < n + 1
    BY <1>1, <1>3, Types DEF TidInv, Tid
  <2>4. \A m \in Tid : m >= n + 1 => ended[m] = "no"
    BY <1>1, <1>3, Types DEF TidInv, Tid
  <2>5. QED
    BY <1>3, <2>1, <2>2, <2>3, <2>4 DEF TidInv
<1> HIDE DEF n
<1>16. DeadInv'
  <2>1. \A u \in Page : tid'[u] = 0 => tid[u] = 0 /\ u # p /\ u # t
    BY <1>3, <1>4, <1>12
  <2>2. QED
    BY <1>1, <1>3, <1>5, <2>1 DEF DeadInv
<1>17. AcquireInv'
  <2>1. \A u \in Page : mode[u] # "run" => u # t /\ u # p
    BY <1>3, <1>13
  <2>2. \A u \in Page : pc'[u] \in Busy => pc[u] \in Busy /\ tgt'[u] = tgt[u]
    BY <1>5, <1>6 DEF Busy
  <2>3. \A u, q \in Page : mode[u] # "run" /\ tid'[q] = tgt[u] => tid[q] = tgt[u]
    BY <1>4, <1>12
  <2>4. \A u \in Page : mode[u] # "run" => pc'[u] = pc[u] /\ tgt'[u] = tgt[u]
    BY <1>5, <1>6, <2>1
  <2>5. QED
    BY <1>1, <1>3, <2>2, <2>3, <2>4 DEF AcquireInv
<1>18. ListInv'
  <2> SUFFICES ASSUME NEW q \in Page, NEW j \in LockName
               PROVE  /\ \A i \in DOMAIN waiters'[q][j] :
                            LET u == waiters'[q][j][i]
                            IN  mode'[u] = "blocked" /\ ptr'[u] = q /\ LockAt[pc'[u]] = j
                      /\ \A i, l \in DOMAIN waiters'[q][j] :
                            waiters'[q][j][i] = waiters'[q][j][l] => i = l
    BY DEF ListInv
  <2>1. CASE q = p
    <3>1. waiters'[q][j] = <<>>
      BY <1>9, <2>1
    <3>2. QED
      BY <3>1
  <2>2. CASE q # p
    <3> DEFINE z == waiters[q][j]
    <3>1. waiters'[q][j] = z /\ z \in Seq(Page)
      BY <1>1, <1>9, <2>2, Types
    <3>2. /\ \A i \in DOMAIN z : mode[z[i]] = "blocked" /\ ptr[z[i]] = q /\ LockAt[pc[z[i]]] = j
          /\ \A i, l \in DOMAIN z : z[i] = z[l] => i = l
      BY <1>1 DEF ListInv
    <3>3. \A i \in DOMAIN z : z[i] \in Page
      BY <3>1
    <3> HIDE DEF z
    <3>4. \A i \in DOMAIN z : z[i] \notin {t, p}
      BY <1>3, <1>13, <3>2
    <3>5. QED
      BY <1>3, <1>5, <3>1, <3>2, <3>3, <3>4
  <2>3. QED
    BY <2>1, <2>2
<1>19. EndInv'
  <2> SUFFICES ASSUME NEW q \in Page, tid'[q] # 0
               PROVE  /\ ended[tid'[q]] = "no" <=> pc'[q] \notin Ending
                      /\ ended[tid'[q]] \in Status => exit_status'[q] = ended[tid'[q]]
                      /\ ended[tid'[q]] = "unloaded" => exit_status'[q] = "error"
                      /\ exit_soon'[q] => ended[tid'[q]] = "unloaded"
    BY <1>3 DEF EndInv
  <2>1. CASE q = p
    BY <1>4, <1>5, <1>10, <1>12, <2>1 DEF Ending, Status
  <2>2. CASE q # p
    <3>1. pc'[q] \in Ending <=> pc[q] \in Ending
      BY <1>3, <1>5, <2>2 DEF Ending
    <3>2. QED
      BY <1>2, <1>4, <1>10, <1>11, <2>2, <3>1 DEF EndInv
  <2>3. QED
    BY <2>1, <2>2
<1>20. WaitInv'
  <2>1. \A q \in Page : tid'[q] # 0 =>
           /\ \A j \in LockName : value'[q][j] \in {0, 1}
           /\ pc'[q] \in {"load", "l_rel"} => value'[q]["exec"] = 0
           /\ pc'[q] \notin Gone => value'[q]["wait"] = 0
    <3> SUFFICES ASSUME NEW q \in Page, tid'[q] # 0
                 PROVE  /\ \A j \in LockName : value'[q][j] \in {0, 1}
                        /\ pc'[q] \in {"load", "l_rel"} => value'[q]["exec"] = 0
                        /\ pc'[q] \notin Gone => value'[q]["wait"] = 0
      OBVIOUS
    <3>1. CASE q = p
      BY <1>7, <3>1 DEF LockName
    <3>2. CASE q # p
      <4>1. tid[q] # 0 /\ value'[q] = value[q]
        BY <1>4, <1>7, <3>2
      <4>2. /\ pc'[q] \in {"load", "l_rel"} => pc[q] \in {"load", "l_rel"}
            /\ pc'[q] \notin Gone => pc[q] \notin Gone
        BY <1>3, <1>5, <3>2 DEF Gone
      <4>3. QED
        BY <1>2, <4>1, <4>2 DEF WaitInv
    <3>3. QED
      BY <3>1, <3>2
  <2>2. \A q \in Page : tid[q] # 0 /\ pc[q] \in Gone => pc'[q] \in Gone /\ q # p
    BY <1>3, <1>5 DEF Gone
  <2>3. \A u, q \in Page : u # t /\ tid'[q] = tgt'[u] => tid[q] = tgt[u]
    BY <1>4, <1>6, <1>12
  <2>4. \A u \in Page : mode[u] = "took" /\ pc'[u] = "w_wait" =>
           u # t /\ pc[u] = "w_wait" /\ ptr[u] \in Page /\ tgt[u] # 0
    BY <1>1, <1>3, <1>5 DEF AcquireInv, Busy
  <2>5. \A u \in Page : pc'[u] = "w_read" => u # t /\ pc[u] = "w_read" /\ tgt[u] # 0
    BY <1>1, <1>5 DEF AcquireInv, Busy
  <2>6. \A u \in Page : mode[u] = "took" /\ pc'[u] = "w_wait" /\ tid'[ptr[u]] = tgt'[u]
                        => pc'[ptr[u]] \in Gone
    BY <1>2, <2>2, <2>3, <2>4 DEF WaitInv
  <2>7. \A u, q \in Page : pc'[u] = "w_read" /\ tid'[q] = tgt'[u] => pc'[q] \in Gone
    BY <1>2, <2>2, <2>3, <2>5 DEF WaitInv
  <2>8. QED
    BY <1>3, <2>1, <2>6, <2>7 DEF WaitInv
<1>21. ExitInv'
  <2>1. Stale \subseteq Stale'
    <3> SUFFICES ASSUME NEW u \in Stale PROVE u \in Stale'
      OBVIOUS
    <3>1. u \in Page /\ u # t /\ u # p /\ tid[u] # 0
      BY <1>3 DEF Stale
    <3>2. tid'[u] = tid[u] /\ pc'[u] = pc[u] /\ tgt'[u] = tgt[u]
      BY <1>4, <1>5, <1>6, <3>1
    <3>3. \A q \in Page : tid'[q] # tgt[u]
      BY <1>4, <1>12, <3>1 DEF Stale
    <3>4. QED
      BY <1>3, <3>1, <3>2, <3>3 DEF Stale
  <2>2. \A u, q \in Page : q # p /\ tid[q] # 0 =>
           (Takes(u, q)' => Takes(u, q)) /\ (Keeps(u, q)' => Keeps(u, q))
    BY <1>3, <1>4, <1>5, <1>6 DEF Takes, Keeps
  <2>3. \A u \in Page : ~Takes(u, p)' /\ ~Keeps(u, p)'
    <3>1. \A u \in Page : ~Keeps(u, p)'
      BY <1>3, <1>4, <1>5, <1>6, <1>12 DEF Keeps
    <3>2. ASSUME NEW u \in Page, Takes(u, p)' PROVE FALSE
      <4>1. mode[u] = "took" /\ ptr[u] = p /\ u # t /\ u # p
        BY <1>3, <1>13, <3>2 DEF Takes
      <4>2. pc[u] = "e_exit" /\ tgt[u] = n
        BY <1>1, <1>4, <1>5, <1>6, <3>2, <4>1 DEF Takes, AcquireInv
      <4>3. QED
        BY <1>12, <4>2
    <3>3. QED
      BY <3>1, <3>2
  <2> SUFFICES ASSUME NEW q \in Page, tid'[q] # 0 PROVE ExitGoal(q)
    BY DEF ExitInv, ExitGoal
  <2>4. CASE q = p
    <3>1. holder'[p]["exit"] = NULL
      BY <1>8 DEF LockName
    <3>2. Unheld(p)'
      BY <3>1 DEF Unheld
    <3>3. QED
      BY <1>5, <2>3, <2>4, <3>2 DEF ExitGoal
  <2>5. CASE q # p
    <3>1. /\ value'[q] = value[q] /\ holder'[q] = holder[q] /\ tid'[q] = tid[q]
          /\ pc'[q] = "x_die" => pc[q] = "x_die"
      BY <1>4, <1>5, <1>7, <1>8, <2>5
    <3>2. Unheld(q) => Unheld(q)'
      BY <2>1, <3>1 DEF Unheld
    <3>3. QED
      BY <1>2, <1>3, <2>1, <2>2, <2>5, <3>1, <3>2 DEF ExitInv, ExitGoal
  <2>6. QED
    BY <2>4, <2>5
<1>22. KidsInv'
  <2>1. \A q \in Page : tid[q] # 0 => tid'[q] = tid[q]
    BY <1>3, <1>4
  <2>2. \A u \in Page : \A m \in kids[u] : m # 0
    BY <1>1, Types DEF Tid
  <2>3. \A u \in Page : pc'[u] \in {"w_wait", "w_read", "w_rel"} => pc[u] = pc'[u] /\ tgt'[u] = tgt[u]
    BY <1>5, <1>6
  <2>4. QED
    BY <1>2, <1>3, <2>1, <2>2, <2>3 DEF KidsInv
<1>23. StatusDelivered'
  <2>1. \A u \in Page : pc'[u] \in {"w_rel", "w_exit2", "w_ret"} =>
           pc[u] = pc'[u] /\ tgt'[u] = tgt[u] /\ u # p
    BY <1>5, <1>6
  <2>2. QED
    BY <1>2, <1>3, <1>4, <1>14, <2>1 DEF StatusDelivered, ProcessType
<1>24. QED
  BY <1>14, <1>15, <1>16, <1>17, <1>18, <1>19, <1>20, <1>21, <1>22, <1>23 DEF ProcessInv

\* The end of thread_exit: the process leaves all_list and its page is free.
LEMMA DieStep ==
    ASSUME ProcessInv, NEW t \in Page, exit_die(t)
    PROVE  ProcessInv'
<1>1. ProcessType /\ TidInv /\ DeadInv /\ AcquireInv /\ ListInv
  BY DEF ProcessInv
<1>2. EndInv /\ WaitInv /\ ExitInv /\ KidsInv /\ StatusDelivered
  BY DEF ProcessInv
<1>3. /\ tid[t] # 0 /\ pc[t] = "x_die" /\ mode[t] = "run"
      /\ UNCHANGED <<next_tid, ptr, tgt, ended>>
  BY DEF exit_die, At
<1>4. /\ tid' \in [Page -> 0 .. MaxTid] /\ tid'[t] = 0
      /\ \A q \in Page : q # t => tid'[q] = tid[q]
  <2>1. 0 \in 0 .. MaxTid
    BY <1>1, Types
  <2>2. QED
    BY <1>1, <2>1, Types DEF exit_die
<1>5. /\ pc' \in [Page -> Place] /\ pc'[t] = "none"
      /\ \A q \in Page : q # t => pc'[q] = pc[q]
  BY <1>1, Types DEF exit_die, Place
<1>6. /\ kids' \in [Page -> SUBSET Tid] /\ kids'[t] = {}
      /\ \A q \in Page : q # t => kids'[q] = kids[q]
  BY <1>1, Types DEF exit_die
<1>7. /\ value' \in [Page -> [LockName -> 0 .. 2]]
      /\ \A q \in Page : q # t => value'[q] = value[q]
  <2>1. [k \in LockName |-> 2] \in [LockName -> 0 .. 2]
    OBVIOUS
  <2>2. QED
    BY <1>1, <2>1, Types DEF exit_die
<1>8. /\ holder' \in [Page -> [LockName -> Page \cup {NULL}]]
      /\ \A q \in Page : q # t => holder'[q] = holder[q]
  <2>1. [k \in LockName |-> NULL] \in [LockName -> Page \cup {NULL}]
    OBVIOUS
  <2>2. QED
    BY <1>1, <2>1, Types DEF exit_die
<1>9. /\ waiters' \in [Page -> [LockName -> Seq(Page)]]
      /\ waiters'[t] = [k \in LockName |-> <<>>]
      /\ \A q \in Page : q # t => waiters'[q] = waiters[q]
  <2>1. [k \in LockName |-> <<>>] \in [LockName -> Seq(Page)]
    OBVIOUS
  <2>2. QED
    BY <1>1, <2>1, Types DEF exit_die
<1>10. /\ exit_soon' \in [Page -> BOOLEAN] /\ exit_status' \in [Page -> Status]
       /\ res' \in [Page -> Status]
       /\ \A q \in Page : q # t =>
             exit_soon'[q] = exit_soon[q] /\ exit_status'[q] = exit_status[q] /\ res'[q] = res[q]
  BY <1>1 DEF exit_die, ProcessType, TypeOK, Status
\* The first thread that waits for lock_exit2 is woken.
<1>11. /\ mode' \in [Page -> {"run", "blocked", "retry", "took"}]
       /\ \A u \in Page : \/ mode'[u] = mode[u]
                          \/ mode[u] = "blocked" /\ mode'[u] = "retry" /\ ptr[u] = t
  <2> DEFINE w == waiters[t]["exit2"]
             h == Head(w)
  <2>1. CASE w = <<>>
    BY <1>1, <2>1, Types DEF exit_die
  <2>2. CASE w # <<>>
    <3>1. w \in Seq(Page)
      BY <1>1, Types DEF LockName
    <3>2. h = w[1] /\ h \in Page /\ 1 \in DOMAIN w
      BY <2>2, <3>1
    <3>3. mode[h] = "blocked" /\ ptr[h] = t
      <4>1. "exit2" \in LockName
        BY DEF LockName
      <4>2. mode[w[1]] = "blocked" /\ ptr[w[1]] = t
        BY <1>1, <3>2, <4>1 DEF ListInv
      <4>3. QED
        BY <3>2, <4>2
    <3>4. mode' = [mode EXCEPT ![h] = "retry"]
      BY <2>2 DEF exit_die
    <3> HIDE DEF h
    <3>5. QED
      BY <1>1, <3>2, <3>3, <3>4, Types
  <2>3. QED
    BY <2>1, <2>2
<1>12. ProcessType'
  <2>1. /\ next_tid' \in 3 .. MaxTid + 1 /\ tgt' \in [Page -> 0 .. MaxTid]
        /\ ptr' \in [Page -> Page \cup {NULL}]
        /\ ended' \in [Tid -> Status \cup {"no", "killed", "unloaded"}]
    BY <1>1, <1>3 DEF ProcessType, TypeOK
  <2>2. tid' \in [Page -> 0 .. MaxTid] /\ pc' \in [Page -> Place] /\ kids' \in [Page -> SUBSET Tid]
    BY <1>4, <1>5, <1>6
  <2>3. /\ value' \in [Page -> [LockName -> 0 .. 2]]
        /\ holder' \in [Page -> [LockName -> Page \cup {NULL}]]
        /\ waiters' \in [Page -> [LockName -> Seq(Page)]]
    BY <1>7, <1>8, <1>9
  <2>4. /\ exit_soon' \in [Page -> BOOLEAN] /\ exit_status' \in [Page -> Status]
        /\ res' \in [Page -> Status]
        /\ mode' \in [Page -> {"run", "blocked", "retry", "took"}]
    BY <1>10, <1>11
  <2>5. QED
    BY <2>1, <2>2, <2>3, <2>4 DEF ProcessType, TypeOK
<1>13. TidInv'
  <2>1. \A q \in Page : tid'[q] \in {0, tid[q]} /\ kids'[q] \subseteq kids[q]
    BY <1>4, <1>6
  <2>2. next_tid \in Nat /\ next_tid > 0
    BY <1>1, Types
  <2>3. \A q \in Page : tid'[q] < next_tid
    BY <1>1, <2>1, <2>2 DEF TidInv
  <2>4. QED
    BY <1>1, <1>3, <1>4, <2>1, <2>3 DEF TidInv
<1>14. DeadInv'
  <2>1. \A u \in Page : mode[u] = "run" => mode'[u] = "run"
    BY <1>11
  <2>2. QED
    BY <1>1, <1>3, <1>4, <1>5, <1>6, <2>1 DEF DeadInv
<1>15. \A u \in Page : pc[u] \in Busy => tgt[u] # 0
  BY <1>1 DEF AcquireInv
<1>16. \A u \in Page : mode'[u] # "run" => mode[u] # "run" /\ u # t
  BY <1>3, <1>11
<1>17. AcquireInv'
  <2>1. \A u \in Page : pc'[u] \in Busy => pc[u] \in Busy
    BY <1>5 DEF Busy
  <2>2. \A u, q \in Page : mode[u] # "run" /\ pc[u] # "x_exit" /\ tid'[q] = tgt[u]
                           => tid[q] = tgt[u]
    <3>1. \A a \in Acquiring : a # "x_exit" => a \in Busy
      BY Places DEF Busy
    <3>2. QED
      BY <1>1, <1>4, <1>15, <3>1 DEF AcquireInv
  <2>3. QED
    BY <1>1, <1>3, <1>5, <1>16, <2>1, <2>2 DEF AcquireInv
<1>18. ListInv'
  <2> SUFFICES ASSUME NEW q \in Page, NEW j \in LockName
               PROVE  /\ \A i \in DOMAIN waiters'[q][j] :
                            LET u == waiters'[q][j][i]
                            IN  mode'[u] = "blocked" /\ ptr'[u] = q /\ LockAt[pc'[u]] = j
                      /\ \A i, l \in DOMAIN waiters'[q][j] :
                            waiters'[q][j][i] = waiters'[q][j][l] => i = l
    BY DEF ListInv
  <2>1. CASE q = t
    <3>1. waiters'[q][j] = <<>>
      BY <1>9, <2>1
    <3>2. QED
      BY <3>1
  <2>2. CASE q # t
    <3> DEFINE z == waiters[q][j]
    <3>1. waiters'[q][j] = z /\ z \in Seq(Page)
      BY <1>1, <1>9, <2>2, Types
    <3>2. /\ \A i \in DOMAIN z : mode[z[i]] = "blocked" /\ ptr[z[i]] = q /\ LockAt[pc[z[i]]] = j
          /\ \A i, l \in DOMAIN z : z[i] = z[l] => i = l
      BY <1>1 DEF ListInv
    <3>3. \A i \in DOMAIN z : z[i] \in Page
      BY <3>1
    <3> HIDE DEF z
    <3>4. \A i \in DOMAIN z : z[i] # t /\ mode'[z[i]] = "blocked"
      BY <1>3, <1>11, <2>2, <3>2, <3>3
    <3>5. QED
      BY <1>3, <1>5, <3>1, <3>2, <3>3, <3>4
  <2>3. QED
    BY <2>1, <2>2
<1>19. EndInv'
  <2>1. \A q \in Page : tid'[q] # 0 =>
           /\ tid[q] # 0 /\ tid'[q] = tid[q] /\ pc'[q] = pc[q]
           /\ exit_soon'[q] = exit_soon[q] /\ exit_status'[q] = exit_status[q]
    BY <1>4, <1>5, <1>10
  <2>2. QED
    BY <1>2, <1>3, <2>1 DEF EndInv
<1>20. WaitInv'
  <2>1. \A q \in Page : tid'[q] # 0 => q # t /\ tid[q] # 0 /\ pc'[q] = pc[q] /\ value'[q] = value[q]
    BY <1>4, <1>5, <1>7
  <2>2. \A u \in Page : mode'[u] = "took" => mode[u] = "took" /\ u # t /\ ptr[u] \in Page
    BY <1>1, <1>11, <1>16 DEF AcquireInv
  <2>3. \A u \in Page : pc'[u] \in {"w_wait", "w_read"} => pc[u] = pc'[u] /\ tgt[u] # 0
    BY <1>5, <1>15 DEF Busy
  <2>4. \A u, q \in Page : tgt[u] # 0 /\ tid'[q] = tgt[u] => tid[q] = tgt[u] /\ q # t
    BY <1>4
  <2>5. \A q \in Page : q # t => pc'[q] = pc[q]
    BY <1>5
  <2>6. \A u \in Page : mode'[u] = "took" /\ pc'[u] = "w_wait" /\ tid'[ptr[u]] = tgt[u]
                        => pc'[ptr[u]] \in Gone
    BY <1>2, <2>2, <2>3, <2>4, <2>5 DEF WaitInv
  <2>7. \A u, q \in Page : pc'[u] = "w_read" /\ tid'[q] = tgt[u] => pc'[q] \in Gone
    BY <1>2, <2>3, <2>4, <2>5 DEF WaitInv
  <2>8. \A q \in Page : tid'[q] # 0 =>
           /\ \A j \in LockName : value'[q][j] \in {0, 1}
           /\ pc'[q] \in {"load", "l_rel"} => value'[q]["exec"] = 0
           /\ pc'[q] \notin Gone => value'[q]["wait"] = 0
    BY <1>2, <2>1 DEF WaitInv
  <2>9. QED
    BY <1>3, <2>6, <2>7, <2>8 DEF WaitInv
<1>21. ExitInv'
  <2>1. Stale \subseteq Stale'
    <3> SUFFICES ASSUME NEW u \in Stale PROVE u \in Stale'
      OBVIOUS
    <3>1. u \in Page /\ u # t /\ tgt[u] # 0
      BY <1>3, <1>15 DEF Stale, Busy
    <3>2. mode'[u] = "run"
      BY <1>11, <3>1 DEF Stale
    <3>3. \A q \in Page : tid'[q] # tgt[u]
      BY <1>4, <3>1 DEF Stale
    <3>4. QED
      BY <1>3, <1>4, <1>5, <3>1, <3>2, <3>3 DEF Stale
  <2>2. \A u, q \in Page : tid'[q] # 0 =>
           (Takes(u, q)' => Takes(u, q)) /\ (Keeps(u, q)' => Keeps(u, q))
    BY <1>3, <1>4, <1>5, <1>6, <1>11 DEF Takes, Keeps
  <2> SUFFICES ASSUME NEW q \in Page, tid'[q] # 0 PROVE ExitGoal(q)
    BY DEF ExitInv, ExitGoal
  <2>3. /\ q # t /\ tid'[q] = tid[q] /\ value'[q] = value[q] /\ holder'[q] = holder[q]
        /\ pc'[q] = pc[q]
    BY <1>4, <1>5, <1>7, <1>8
  <2>4. Unheld(q) => Unheld(q)'
    BY <2>1, <2>3 DEF Unheld
  <2>5. QED
    BY <1>2, <1>3, <2>1, <2>2, <2>3, <2>4 DEF ExitInv, ExitGoal
\* A loaded process that dies has its lock_exit itself: it is nobody's child to wait for.
<1>22. KidsInv'
  <2>1. ASSUME NEW u \in Page, NEW n \in kids'[u], ended[n] # "unloaded"
        PROVE  \E q \in Page : tid'[q] = n
    <3>1. u # t /\ n \in kids[u]
      BY <1>6, <2>1
    <3>2. PICK q \in Page : tid[q] = n
      BY <1>2, <2>1, <3>1 DEF KidsInv
    <3>3. CASE q = t
      <4>1. Keeps(u, t)
        BY <3>1, <3>2, <3>3 DEF Keeps
      <4>2. QED
        BY <1>2, <1>3, <2>1, <3>2, <3>3, <4>1 DEF ExitInv
    <3>4. QED
      BY <1>4, <3>2, <3>3
  <2>2. \A u \in Page : pc'[u] \in {"w_wait", "w_read", "w_rel"} => tgt[u] \notin kids'[u]
    BY <1>2, <1>5, <1>6 DEF KidsInv
  <2>3. QED
    BY <1>3, <2>1, <2>2 DEF KidsInv
<1>23. StatusDelivered'
  BY <1>2, <1>3, <1>4, <1>5, <1>10, <1>12 DEF StatusDelivered, ProcessType
<1>24. QED
  BY <1>12, <1>13, <1>14, <1>17, <1>18, <1>19, <1>20, <1>21, <1>22, <1>23 DEF ProcessInv

\* Every step keeps the invariant.
LEMMA ProcessStep == ProcessInv /\ [Next]_vars => ProcessInv'
<1> SUFFICES ASSUME ProcessInv, [Next]_vars PROVE ProcessInv'
  OBVIOUS
<1>1. CASE UNCHANGED vars
  BY <1>1, OnlyPanic DEF vars
<1>2. ASSUME NEW t \in Page, Program(t) PROVE ProcessInv'
  <2>1. ASSUME NEW p \in Page, process_execute(t, p) PROVE ProcessInv'
    BY <2>1, ExecuteStep
  <2>2. CASE process_execute_full(t)
    BY <2>2, ExecuteFullStep
  <2>3. ASSUME NEW n \in Tid, process_wait(t, n) PROVE ProcessInv'
    BY <2>3, WaitStep
  <2>4. ASSUME NEW s \in {"zero", "code"}, sys_exit(t, s) PROVE ProcessInv'
    BY <2>4, EndStep DEF sys_exit, Status
  <2>5. CASE page_fault(t)
    BY <2>5, EndStep DEF page_fault, Status
  <2>6. CASE kill(t)
    <3>1. exit_status[t] \in Status
      BY DEF ProcessInv, ProcessType, TypeOK
    <3>2. QED
      BY <2>6, <3>1, EndStep DEF kill, Status
  <2>7. QED
    BY <1>2, <2>1, <2>2, <2>3, <2>4, <2>5, <2>6 DEF Program
<1>3. ASSUME NEW t \in Page, Kernel(t) PROVE ProcessInv'
  <2> DEFINE p == thread_from_tid(tgt[t])
  <2>1. /\ ProcessType /\ TidInv /\ AcquireInv /\ tgt[t] \in Nat
        /\ p # NULL => p \in Page /\ tid[p] = tgt[t] /\ tgt[t] # 0
        /\ \A q \in Page : p # NULL /\ tid[q] = tgt[t] => p = q
    BY FromTid, Types DEF ProcessInv
  <2>2. CASE lock_acquire(t)
    <3> DEFINE g == Target(t)
               k == LockAt[pc[t]]
    <3>1. tid[t] # 0 /\ pc[t] \in Acquiring /\ mode[t] = "run" /\ k \in LockName
      BY <2>2, Places DEF lock_acquire, At
    <3>2. CASE ptr' = [ptr EXCEPT ![t] = g] /\ Round(t, g, k) /\ g # NULL
      <4>1. g \in Page /\ (pc[t] = "x_exit" => g = t)
        BY <2>1, <3>2 DEF Target
      <4>2. pc[t] # "x_exit" => g = p
        BY DEF Target
      <4>3. t \notin Stale
        BY <2>1, <3>2, <4>2 DEF Stale
      <4>4. pc[t] # "x_exit" => \A q \in Page : tid[q] = tgt[t] => g = q
        BY <2>1, <3>2, <4>2
      <4>5. UNCHANGED <<tid, next_tid, exit_soon, exit_status, holder, pc, tgt, res, history>>
        BY <2>2 DEF lock_acquire
      <4> HIDE DEF g, k, p
      <4>6. Rounding(t, g, k)
        BY <3>1, <3>2, <4>1, <4>3, <4>4, <4>5 DEF Rounding, k
      <4>7. QED
        BY <3>1, <4>1, <4>6, RoundStep
    <3>3. CASE UNCHANGED <<value, waiters, mode, ptr>>
      BY <2>2, <3>3, OnlyPanic DEF lock_acquire, locks
    <3>4. QED
      BY <2>2, <3>2, <3>3 DEF lock_acquire
  <2>3. CASE lock_retry(t)
    <3> DEFINE g == ptr[t]
               k == LockAt[pc[t]]
    <3>1. /\ tid[t] # 0 /\ mode[t] = "retry" /\ Round(t, g, k)
          /\ UNCHANGED <<tid, next_tid, exit_soon, exit_status, holder, pc, ptr, tgt, res, history>>
      BY <2>3 DEF lock_retry
    <3>2. /\ pc[t] \in Acquiring /\ g \in Page /\ (pc[t] = "x_exit" => g = t)
          /\ pc[t] # "x_exit" => \A q \in Page : tid[q] = tgt[t] => g = q
      BY <2>1, <3>1 DEF AcquireInv
    <3>3. k \in LockName /\ t \notin Stale
      BY <3>1, <3>2, Places DEF Stale
    <3>4. ptr' = [ptr EXCEPT ![t] = g]
      BY <2>1, <3>1, Types
    <3> HIDE DEF g, k, p
    <3>5. Rounding(t, g, k)
      BY <3>1, <3>2, <3>3, <3>4 DEF Rounding, k
    <3>6. QED
      BY <3>2, <3>3, <3>5, RoundStep
  <2>4. CASE lock_hold(t)
    BY <2>4, HoldStep
  <2>5. CASE clear_exit_soon(t)
    <3>1. CASE p = NULL
      BY <2>5, <3>1, OnlyPanic DEF clear_exit_soon
    <3>2. QED
      BY <2>5, <3>1, ClearStep
  <2>6. CASE execute_return(t)
    BY <2>6, ReturnStep
  <2>7. CASE start_process(t)
    BY <2>7, OwnReleaseStep DEF start_process, At, LockName, Place
  <2>8. CASE load_failed(t)
    BY <2>8, LoadFailedStep
  <2>9. CASE load_failed_release(t)
    BY <2>9, OwnReleaseStep DEF load_failed_release, At, LockName, Place
  <2>10. CASE load_unopened(t)
    BY <2>10, OnlyPanic DEF load_unopened
  <2>11. CASE release_assert(t)
    BY <2>11, OnlyPanic DEF release_assert
  <2>12. CASE read_status(t)
    <3>1. CASE p = NULL
      BY <2>12, <3>1, OnlyPanic DEF read_status
    <3>2. QED
      BY <2>12, <3>1, ReadStep
  <2>13. CASE release_exit(t)
    <3>1. CASE UNCHANGED <<locks, mode, pc>>
      BY <2>13, <3>1, OnlyPanic DEF release_exit
    <3>2. CASE ~UNCHANGED <<locks, mode, pc>>
      <4>1. /\ p # NULL /\ holder[p]["exit"] = t /\ Release(p, "exit") /\ Goto(t, "w_exit2")
            /\ tid[t] # 0 /\ pc[t] = "w_rel" /\ mode[t] = "run"
            /\ UNCHANGED <<tid, next_tid, exit_soon, exit_status, ptr, tgt, res, history>>
        BY <2>13, <3>2 DEF release_exit, At
      <4> HIDE DEF p
      <4>2. QED
        BY <2>1, <4>1, ReleaseExitStep DEF Releasing
    <3>3. QED
      BY <3>1, <3>2
  <2>14. CASE wait_return(t)
    BY <2>14, WaitReturnStep
  <2>15. CASE exit_release_wait(t)
    BY <2>15, OwnReleaseStep DEF exit_release_wait, At, LockName, Place
  <2>16. CASE exit_test_soon(t)
    BY <2>16, SoonStep
  <2>17. CASE exit_die(t)
    BY <2>17, DieStep
  <2>18. QED
    BY <1>3, <2>2, <2>3, <2>4, <2>5, <2>6, <2>7, <2>8, <2>9, <2>10, <2>11, <2>12, <2>13,
       <2>14, <2>15, <2>16, <2>17 DEF Kernel
<1>4. QED
  BY <1>1, <1>2, <1>3 DEF Next

\* main waits for the first process.
LEMMA ProcessInit == Init => ProcessInv
<1> SUFFICES ASSUME Init PROVE ProcessInv
  OBVIOUS
<1>1. /\ main \in Page /\ first \in Page /\ main # first /\ NULL \notin Page
      /\ MaxTid \in Nat /\ MaxTid >= 2
  BY ProcessAssumption
<1>2. /\ tid \in [Page -> 0 .. MaxTid] /\ tid[main] = 1 /\ tid[first] = 2
      /\ \A p \in Page : p \notin {main, first} => tid[p] = 0
      /\ tgt \in [Page -> 0 .. MaxTid] /\ tgt[main] = 2
      /\ \A p \in Page : p # main => tgt[p] = 0
  BY <1>1 DEF Init, TID_ERROR
<1>3. /\ pc \in [Page -> Place] /\ pc[main] = "w_wait" /\ pc[first] = "user"
      /\ \A p \in Page : p \notin {main, first} => pc[p] = "none"
      /\ mode \in [Page -> {"run", "blocked", "retry", "took"}] /\ mode[main] = "blocked"
      /\ \A p \in Page : p # main => mode[p] = "run"
      /\ ptr \in [Page -> Page \cup {NULL}] /\ ptr[main] = first
  BY <1>1 DEF Init, Place
<1>4. /\ waiters \in [Page -> [LockName -> Seq(Page)]]
      /\ \A p \in Page, k \in LockName :
            waiters[p][k] = IF p = first /\ k = "wait" THEN <<main>> ELSE <<>>
  <2>1. <<main>> \in Seq(Page) /\ <<>> \in Seq(Page)
    BY <1>1
  <2>2. \A p \in Page : [k \in LockName |-> IF p = first /\ k = "wait" THEN <<main>> ELSE <<>>]
                        \in [LockName -> Seq(Page)]
    BY <2>1
  <2>3. QED
    BY <2>2 DEF Init
<1>5. /\ value \in [Page -> [LockName -> 0 .. 2]]
      /\ \A k \in LockName : value[main][k] = (IF k = "exit" THEN 1 ELSE 0) /\ value[first][k] = 0
  <2> DEFINE f(p) == [k \in LockName |->
                        IF p = main /\ k = "exit" THEN 1 ELSE IF tid[p] = 0 THEN 2 ELSE 0]
  <2>1. \A p \in Page : f(p) \in [LockName -> 0 .. 2]
    OBVIOUS
  <2>2. value = [p \in Page |-> f(p)]
    BY DEF Init
  <2>3. /\ \A k \in LockName : f(main)[k] = IF k = "exit" THEN 1 ELSE 0
        /\ \A k \in LockName : f(first)[k] = 0
    BY <1>1, <1>2
  <2> HIDE DEF f
  <2>4. QED
    BY <1>1, <2>1, <2>2, <2>3
<1>6. /\ holder \in [Page -> [LockName -> Page \cup {NULL}]]
      /\ holder[main]["exit"] = NULL
  <2> DEFINE f(p) == [k \in LockName |->
                        IF p = main /\ k # "exit" THEN main
                        ELSE IF p = first THEN (IF k \in {"exec", "exit"} THEN main ELSE first)
                        ELSE NULL]
  <2>1. \A p \in Page : f(p) \in [LockName -> Page \cup {NULL}]
    BY <1>1
  <2>2. holder = [p \in Page |-> f(p)]
    BY DEF Init
  <2>3. f(main)["exit"] = NULL
    BY <1>1 DEF LockName
  <2> HIDE DEF f
  <2>4. QED
    BY <1>1, <2>1, <2>2, <2>3
<1>7. /\ exit_soon \in [Page -> BOOLEAN] /\ \A p \in Page : ~exit_soon[p]
      /\ exit_status \in [Page -> Status] /\ res \in [Page -> Status]
      /\ kids \in [Page -> SUBSET Tid] /\ \A p \in Page : kids[p] = {}
      /\ ended \in [Tid -> Status \cup {"no", "killed", "unloaded"}]
      /\ \A n \in Tid : ended[n] = "no"
      /\ next_tid = 3 /\ next_tid \in 3 .. MaxTid + 1
  BY <1>1 DEF Init, Status
<1>8. ProcessType
  <2>1. /\ tid \in [Page -> 0 .. MaxTid] /\ tgt \in [Page -> 0 .. MaxTid] /\ pc \in [Page -> Place]
        /\ mode \in [Page -> {"run", "blocked", "retry", "took"}]
        /\ ptr \in [Page -> Page \cup {NULL}]
    BY <1>2, <1>3
  <2>2. /\ value \in [Page -> [LockName -> 0 .. 2]]
        /\ holder \in [Page -> [LockName -> Page \cup {NULL}]]
        /\ waiters \in [Page -> [LockName -> Seq(Page)]]
    BY <1>4, <1>5, <1>6
  <2>3. /\ exit_soon \in [Page -> BOOLEAN] /\ exit_status \in [Page -> Status]
        /\ res \in [Page -> Status] /\ kids \in [Page -> SUBSET Tid]
        /\ ended \in [Tid -> Status \cup {"no", "killed", "unloaded"}]
        /\ next_tid \in 3 .. MaxTid + 1
    BY <1>7
  <2>4. QED
    BY <2>1, <2>2, <2>3 DEF ProcessType, TypeOK
<1>9. TidInv
  BY <1>1, <1>2, <1>7 DEF TidInv
<1>10. DeadInv
  BY <1>2, <1>3, <1>7 DEF DeadInv
<1>11. AcquireInv
  BY <1>1, <1>2, <1>3, Places DEF AcquireInv, Busy
<1>12. ListInv
  <2>1. LockAt["w_wait"] = "wait"
    BY Places
  <2>2. QED
    BY <1>1, <1>3, <1>4, <2>1 DEF ListInv
<1>13. EndInv
  <2>1. \A p \in Page : tid[p] # 0 => ended[tid[p]] = "no" /\ pc[p] \notin Ending
    BY <1>1, <1>2, <1>3, <1>7 DEF Tid, Ending
  <2>2. QED
    BY <1>7, <2>1 DEF EndInv, Status
<1>14. WaitInv
  BY <1>1, <1>2, <1>3, <1>5 DEF WaitInv, LockName, Gone
<1>15. ExitInv
  <2>1. \A t, p \in Page : ~Takes(t, p) /\ ~Keeps(t, p)
    BY <1>3, <1>7 DEF Takes, Keeps
  <2>2. \A p \in Page : tid[p] # 0 /\ value[p]["exit"] = 1 => p = main
    BY <1>2, <1>5 DEF LockName
  <2>3. QED
    BY <1>3, <1>6, <2>1, <2>2 DEF ExitInv, Unheld
<1>16. KidsInv
  BY <1>7 DEF KidsInv
<1>17. StatusDelivered
  BY <1>3, <1>8 DEF StatusDelivered, ProcessType
<1>18. QED
  BY <1>8, <1>9, <1>10, <1>11, <1>12, <1>13, <1>14, <1>15, <1>16, <1>17 DEF ProcessInv

\* What the invariant says about statuses.
LEMMA ProcessSafe == ProcessInv => StatusExact
<1> SUFFICES ASSUME ProcessInv PROVE StatusKept
  BY DEF StatusExact, ProcessInv
<1> SUFFICES ASSUME NEW t \in Page, NEW n \in kids[t], ended[n] # "unloaded"
             PROVE  thread_from_tid(n) # NULL
  BY DEF StatusKept
<1>1. n \in Nat /\ n # 0
  BY Types DEF ProcessInv, Tid
<1>2. \E p \in Page : tid[p] = n
  BY DEF ProcessInv, KidsInv
<1>3. QED
  BY <1>1, <1>2, FromTid DEF ProcessInv

\* process_wait returns the status its child exited with and no other, and the status of a
\* child that was loaded is there until its parent asks for it: for any number of processes,
\* however exec, wait and exit interleave, and although a page may be given to another
\* process while a thread is still acquiring a lock in it.
THEOREM StatusIsExact == Spec => []StatusExact
BY ProcessInit, ProcessStep, ProcessSafe, PTL DEF Spec

=============================================================================
