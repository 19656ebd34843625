---------------------------- MODULE PallocProofs ----------------------------
(***************************************************************************)
(* Proofs about Palloc, for any number of threads and pages.               *)
(*                                                                         *)
(* The inductive invariant PallocInv says of each thread in a call what it *)
(* knows about the bitmap: a scanner has seen its pages free and they stay *)
(* free, because only the holder of the lock marks pages; a marker's group *)
(* is marked below k, free above, and given to nobody; a thread that frees *)
(* still has the pages it has not yet cleared.                             *)
(***************************************************************************)
EXTENDS Palloc, TLAPS

Locked(t) == pc[t] \in {"scan", "flip", "unlock"}

Scanned(t) ==
    pc[t] = "scan" =>
        /\ k[t] < cnt[t]
        /\ \A i \in Page : start[t] <= i /\ i < start[t] + k[t] => i \notin used_map
        /\ was_free[t] \cap used_map = {}
        /\ \A b \in Page : b < start[t] => ~(Group(b, cnt[t]) \subseteq was_free[t])

Flipping(t) ==
    pc[t] = "flip" =>
        /\ k[t] < cnt[t]
        /\ start[t] + cnt[t] <= PageCnt
        /\ \A i \in Group(start[t], cnt[t]) : i \in used_map <=> i < start[t] + k[t]

Flipped(t) ==
    pc[t] = "unlock" /\ start[t] + cnt[t] <= PageCnt =>
        Group(start[t], cnt[t]) \subseteq used_map

Untaken(t) ==
    Taking(t) => \A u \in Thread : held[u] \cap Group(start[t], cnt[t]) = {}

Freeing(t) ==
    pc[t] = "free" =>
        /\ k[t] < cnt[t]
        /\ \A i \in Page : start[t] + k[t] <= i /\ i < start[t] + cnt[t] => i \in held[t]
        /\ start[t] + cnt[t] <= PageCnt

Failed(t) ==
    pc[t] = "unlock" /\ start[t] + cnt[t] > PageCnt
    => \A b \in Page : ~(Group(b, cnt[t]) \subseteq was_free[t])

HeldApart == \A t, u \in Thread : t # u => held[t] \cap held[u] = {}

PallocInv ==
    /\ TypeOK
    /\ \A t \in Thread : Locked(t) => lock = t
    /\ \A t \in Thread : Scanned(t) /\ Flipping(t) /\ Flipped(t) /\ Untaken(t)
                         /\ Freeing(t) /\ Failed(t)
    /\ HeldApart
    /\ Accounted

\* All pages are free at first.
LEMMA PallocInit == Init => PallocInv
<1> SUFFICES ASSUME Init PROVE PallocInv
  OBVIOUS
<1>1. TypeOK
  BY DEF Init, TypeOK
<1>2. \A t \in Thread : pc[t] = "idle" /\ held[t] = {}
  BY DEF Init
<1>3. QED
  BY <1>1, <1>2 DEF Init, PallocInv, Locked, Scanned, Flipping, Flipped, Untaken, Taking,
     Freeing, Failed, HeldApart, Accounted

\* The facts about thread u that a step of another thread leaves alone, when the
\* step neither marks nor takes pages of u's group.
LEMMA OthersKeep ==
    ASSUME PallocInv, NEW u \in Thread,
           pc'[u] = pc[u], start'[u] = start[u], cnt'[u] = cnt[u], k'[u] = k[u],
           was_free'[u] = was_free[u], held'[u] = held[u],
           pc[u] = "scan" => used_map' \subseteq used_map,
           Taking(u) => /\ \A i \in Group(start[u], cnt[u]) : i \in used_map' <=> i \in used_map
                        /\ \A v \in Thread : held'[v] \cap Group(start[u], cnt[u]) = {}
    PROVE  Scanned(u)' /\ Flipping(u)' /\ Flipped(u)' /\ Untaken(u)' /\ Freeing(u)' /\ Failed(u)'
<1>1. /\ Scanned(u) /\ Flipping(u) /\ Flipped(u) /\ Untaken(u) /\ Freeing(u) /\ Failed(u)
      /\ pc[u] = "flip" => Taking(u)
  BY DEF PallocInv, Flipping, Taking
<1>2. Scanned(u)' /\ Failed(u)'
  BY <1>1 DEF Scanned, Failed
<1>3. Flipping(u)' /\ Flipped(u)' /\ Untaken(u)'
  BY <1>1 DEF Flipping, Flipped, Untaken, Taking
<1>4. Freeing(u)'
  BY <1>1 DEF Freeing
<1>5. QED
  BY <1>2, <1>3, <1>4

\* Every step of the allocator keeps the invariant.
LEMMA PallocStep == PallocInv /\ [Next]_vars => PallocInv'
<1> SUFFICES ASSUME PallocInv, [Next]_vars PROVE PallocInv'
  OBVIOUS
<1> USE PallocAssumption
<1>t. TypeOK
  BY DEF PallocInv
<1>1. ASSUME NEW t \in Thread, NEW n \in 1 .. PageCnt + 1, palloc_get_multiple(t, n)
      PROVE  PallocInv'
  <2>1. TypeOK'
    BY <1>t, <1>1 DEF TypeOK, palloc_get_multiple, Set
  <2>2. \A u \in Thread : ~Locked(u)
    BY <1>1 DEF PallocInv, palloc_get_multiple
  <2>3. /\ pc'[t] = "scan" /\ start'[t] = 0 /\ cnt'[t] = n /\ k'[t] = 0
        /\ was_free'[t] = Page \ used_map /\ lock' = t
        /\ UNCHANGED <<used_map, held>>
    BY <1>t, <1>1 DEF TypeOK, palloc_get_multiple, Set
  <2>4. \A u \in Thread \ {t} : /\ pc'[u] = pc[u] /\ start'[u] = start[u] /\ cnt'[u] = cnt[u]
                                /\ k'[u] = k[u] /\ was_free'[u] = was_free[u]
    BY <1>t, <1>1 DEF TypeOK, palloc_get_multiple, Set
  <2>5. \A u \in Thread : Locked(u)' => lock' = u
    BY <2>2, <2>3, <2>4 DEF Locked
  <2>6. ASSUME NEW u \in Thread
        PROVE  Scanned(u)' /\ Flipping(u)' /\ Flipped(u)' /\ Untaken(u)' /\ Freeing(u)' /\ Failed(u)'
    <3>1. CASE u = t
      BY <2>3, <3>1 DEF Scanned, Flipping, Flipped, Untaken, Taking, Freeing, Failed, Page
    <3>2. CASE u # t
      BY <2>2, <2>3, <2>4, <3>2, OthersKeep DEF Locked, Taking
    <3>3. QED
      BY <3>1, <3>2
  <2>7. HeldApart' /\ Accounted'
    <3>1. \A u \in Thread : ~Taking(u) /\ ~Taking(u)'
      BY <2>2, <2>3, <2>4 DEF Locked, Taking
    <3>2. QED
      BY <2>3, <3>1 DEF PallocInv, HeldApart, Accounted, Has
  <2>8. QED
    BY <2>1, <2>5, <2>6, <2>7 DEF PallocInv
<1>2. ASSUME NEW t \in Thread, scan_fails(t)
      PROVE  PallocInv'
  <2>1. TypeOK'
    BY <1>t, <1>2 DEF TypeOK, scan_fails, Set
  <2>2. /\ pc[t] = "scan" /\ pc'[t] = "unlock" /\ start[t] + cnt[t] > PageCnt
        /\ UNCHANGED <<used_map, lock, start, cnt, k, held, was_free>>
        /\ \A u \in Thread \ {t} : pc'[u] = pc[u]
    BY <1>t, <1>2 DEF TypeOK, scan_fails, Set
  <2>3. \A u \in Thread : Locked(u)' => lock' = u
    BY <2>2 DEF Locked, PallocInv
  <2>4. \A u \in Thread : Taking(u)' <=> Taking(u)
    BY <1>t, <2>2 DEF Taking, TypeOK
  <2>5. ASSUME NEW u \in Thread
        PROVE  Scanned(u)' /\ Flipping(u)' /\ Flipped(u)' /\ Untaken(u)' /\ Freeing(u)' /\ Failed(u)'
    <3>1. CASE u = t
      <4>1. \A b \in Page : ~(Group(b, cnt[t]) \subseteq was_free[t])
        <5>1. ASSUME NEW b \in Page, b >= start[t] PROVE ~(Group(b, cnt[t]) \subseteq was_free[t])
          <6>1. b + cnt[t] - 1 \in Group(b, cnt[t]) /\ b + cnt[t] - 1 \notin Page
            BY <1>t, <2>2, <5>1 DEF TypeOK, Page, Group
          <6>2. QED
            BY <1>t, <6>1 DEF TypeOK
        <5>2. ASSUME NEW b \in Page, b < start[t] PROVE ~(Group(b, cnt[t]) \subseteq was_free[t])
          BY <2>2, <5>2 DEF PallocInv, Scanned
        <5>3. QED
          BY <1>t, <5>1, <5>2 DEF TypeOK, Page
      <4>2. ~Taking(t)'
        BY <1>t, <2>2 DEF Taking, TypeOK
      <4>3. Failed(t)' /\ Flipped(t)'
        BY <1>t, <2>2, <4>1 DEF Failed, Flipped, TypeOK
      <4>4. QED
        BY <2>2, <3>1, <4>2, <4>3 DEF Scanned, Flipping, Untaken, Freeing
    <3>2. CASE u # t
      BY <2>2, <3>2, OthersKeep DEF PallocInv, Untaken
    <3>3. QED
      BY <3>1, <3>2
  <2>6. HeldApart' /\ Accounted'
    <3>1. \A u \in Thread : Has(u)' = Has(u)
      BY <2>2, <2>4 DEF Has
    <3>2. QED
      BY <2>2, <3>1 DEF PallocInv, HeldApart, Accounted
  <2>7. QED
    BY <2>1, <2>3, <2>5, <2>6 DEF PallocInv
<1>3. ASSUME NEW t \in Thread, scan_used(t)
      PROVE  PallocInv'
  <2>1. TypeOK'
    BY <1>t, <1>3 DEF TypeOK, scan_used, Set
  <2>2. /\ pc[t] = "scan" /\ start[t] + k[t] \in used_map
        /\ start'[t] = start[t] + 1 /\ k'[t] = 0
        /\ UNCHANGED <<used_map, lock, pc, cnt, held, was_free>>
        /\ \A u \in Thread \ {t} : start'[u] = start[u] /\ k'[u] = k[u]
    BY <1>t, <1>3 DEF TypeOK, scan_used, Set
  <2>3. \A u \in Thread : Locked(u)' => lock' = u
    BY <2>2 DEF Locked, PallocInv
  <2>4. \A u \in Thread : Has(u)' = Has(u)
    BY <2>2 DEF Has, Taking
  <2>5. ASSUME NEW u \in Thread
        PROVE  Scanned(u)' /\ Flipping(u)' /\ Flipped(u)' /\ Untaken(u)' /\ Freeing(u)' /\ Failed(u)'
    <3>1. CASE u = t
      <4>1. Scanned(t)
        BY DEF PallocInv
      <4>2. start[t] + k[t] \in Group(start[t], cnt[t]) /\ start[t] + k[t] \notin was_free[t]
        BY <1>t, <2>2, <4>1 DEF TypeOK, Scanned, Group
      <4>3. \A b \in Page : b < start[t] + 1 => ~(Group(b, cnt[t]) \subseteq was_free[t])
        BY <1>t, <2>2, <4>1, <4>2 DEF TypeOK, Scanned, Page
      <4>4. Scanned(t)'
        BY <1>t, <2>2, <4>1, <4>3 DEF TypeOK, Scanned, Page
      <4>5. QED
        BY <2>2, <3>1, <4>4 DEF Flipping, Flipped, Untaken, Taking, Freeing, Failed
    <3>2. CASE u # t
      BY <2>2, <3>2, OthersKeep DEF PallocInv, Untaken
    <3>3. QED
      BY <3>1, <3>2
  <2>6. HeldApart' /\ Accounted'
    BY <2>2, <2>4 DEF PallocInv, HeldApart, Accounted
  <2>7. QED
    BY <2>1, <2>3, <2>5, <2>6 DEF PallocInv
<1>4. ASSUME NEW t \in Thread, scan_free(t)
      PROVE  PallocInv'
  <2>1. TypeOK'
    BY <1>t, <1>4 DEF TypeOK, scan_free, Set
  <2>2. /\ pc[t] = "scan" /\ start[t] + k[t] \notin used_map /\ start[t] + cnt[t] <= PageCnt
        /\ UNCHANGED <<used_map, lock, start, cnt, held, was_free>>
        /\ \A u \in Thread \ {t} : pc'[u] = pc[u] /\ k'[u] = k[u]
        /\ \/ k[t] + 1 < cnt[t] /\ k'[t] = k[t] + 1 /\ pc'[t] = "scan"
           \/ k[t] + 1 = cnt[t] /\ k'[t] = 0 /\ pc'[t] = "flip"
    BY <1>t, <1>4 DEF TypeOK, scan_free, Set
  <2>3. \A u \in Thread : Locked(u)' => lock' = u
    BY <2>2 DEF Locked, PallocInv
  <2>4. /\ Scanned(t)
        /\ \A i \in Page : start[t] <= i /\ i < start[t] + k[t] + 1 => i \notin used_map
    <3>1. Scanned(t)
      BY DEF PallocInv
    <3>2. QED
      BY <1>t, <2>2, <3>1 DEF TypeOK, Scanned, Page
  <2>5. ASSUME NEW u \in Thread
        PROVE  Scanned(u)' /\ Flipping(u)' /\ Flipped(u)' /\ Untaken(u)' /\ Freeing(u)' /\ Failed(u)'
    <3>1. CASE u = t /\ pc'[t] = "scan"
      <4>1. Scanned(t)'
        BY <1>t, <2>2, <2>4, <3>1 DEF TypeOK, Scanned, Page
      <4>2. QED
        BY <2>2, <3>1, <4>1 DEF Flipping, Flipped, Untaken, Taking, Freeing, Failed
    <3>2. CASE u = t /\ pc'[t] = "flip"
      <4>1. \A i \in Group(start[t], cnt[t]) : i \notin used_map
        BY <1>t, <2>2, <2>4, <3>2 DEF TypeOK, Group, Page
      <4>2. Flipping(t)'
        BY <1>t, <2>2, <3>2, <4>1 DEF TypeOK, Flipping, Group
      <4>3. \A v \in Thread : held[v] \subseteq used_map
        BY DEF PallocInv, Accounted
      <4>4. Untaken(t)'
        BY <2>2, <4>1, <4>3 DEF Untaken
      <4>5. QED
        BY <2>2, <3>2, <4>2, <4>4 DEF Scanned, Flipped, Freeing, Failed
    <3>3. CASE u # t
      BY <2>2, <3>3, OthersKeep DEF PallocInv, Untaken
    <3>4. QED
      BY <2>2, <3>1, <3>2, <3>3
  <2>6. HeldApart' /\ Accounted'
    <3>1. \A u \in Thread : Has(u) \subseteq Has(u)'
      BY <2>2 DEF Has, Taking
    <3>2. QED
      BY <2>2, <3>1 DEF PallocInv, HeldApart, Accounted
  <2>7. QED
    BY <2>1, <2>3, <2>5, <2>6 DEF PallocInv
<1>5. ASSUME NEW t \in Thread, bitmap_mark(t)
      PROVE  PallocInv'
  <2>1. /\ pc[t] = "flip" /\ used_map' = used_map \cup {start[t] + k[t]} /\ k'[t] = k[t] + 1
        /\ UNCHANGED <<lock, start, cnt, held, was_free>>
        /\ \A u \in Thread \ {t} : pc'[u] = pc[u] /\ k'[u] = k[u]
        /\ \/ k[t] + 1 = cnt[t] /\ pc'[t] = "unlock"
           \/ k[t] + 1 # cnt[t] /\ pc'[t] = "flip"
    BY <1>t, <1>5 DEF TypeOK, bitmap_mark, Set
  <2>2. Flipping(t) /\ Untaken(t) /\ Taking(t)
    BY <2>1 DEF PallocInv, Flipping, Taking
  <2>3. start[t] + k[t] \in Page /\ start[t] + k[t] \in Group(start[t], cnt[t])
    BY <1>t, <2>1, <2>2 DEF TypeOK, Flipping, Page, Group
  <2>4. TypeOK'
    BY <1>t, <1>5, <2>3 DEF TypeOK, bitmap_mark, Set
  <2>5. \A u \in Thread : Locked(u)' => lock' = u
    BY <2>1 DEF Locked, PallocInv
  <2>6. \A u \in Thread : Has(u)' = Has(u)
    BY <2>1, <2>2 DEF Has, Taking
  <2>7. \A u \in Thread \ {t} : ~Locked(u)
    BY <2>1 DEF PallocInv, Locked
  <2>8. ASSUME NEW u \in Thread
        PROVE  Scanned(u)' /\ Flipping(u)' /\ Flipped(u)' /\ Untaken(u)' /\ Freeing(u)' /\ Failed(u)'
    <3>1. CASE u = t
      <4>1. \A i \in Group(start[t], cnt[t]) : i \in used_map' <=> i < start[t] + k[t] + 1
        BY <1>t, <2>1, <2>2 DEF TypeOK, Flipping, Group
      <4>2. Flipping(t)'
        BY <1>t, <2>1, <2>2, <4>1 DEF TypeOK, Flipping
      <4>3. Flipped(t)'
        BY <1>t, <2>1, <4>1 DEF TypeOK, Flipped, Group
      <4>4. Untaken(t)' /\ Failed(t)'
        BY <1>t, <2>1, <2>2 DEF TypeOK, Untaken, Taking, Failed
      <4>5. QED
        BY <2>1, <3>1, <4>2, <4>3, <4>4 DEF Scanned, Freeing
    <3>2. CASE u # t
      BY <2>1, <2>7, <3>2, OthersKeep DEF Locked, Taking
    <3>3. QED
      BY <3>1, <3>2
  <2>9. HeldApart' /\ Accounted'
    <3>1. start[t] + k[t] \in Has(t)
      BY <2>2, <2>3 DEF Has
    <3>2. QED
      BY <2>1, <2>6, <3>1 DEF PallocInv, HeldApart, Accounted
  <2>10. QED
    BY <2>4, <2>5, <2>8, <2>9 DEF PallocInv
<1>6. ASSUME NEW t \in Thread, palloc_return(t)
      PROVE  PallocInv'
  <2>1. /\ pc[t] = "unlock" /\ pc'[t] = "idle" /\ lock' = NULL
        /\ UNCHANGED used_map
        /\ \A u \in Thread \ {t} : /\ pc'[u] = pc[u] /\ start'[u] = start[u] /\ cnt'[u] = cnt[u]
                                   /\ k'[u] = k[u] /\ was_free'[u] = was_free[u] /\ held'[u] = held[u]
    BY <1>t, <1>6 DEF TypeOK, palloc_return, Return, Set
  <2>2. held'[t] = Has(t)
    BY <1>t, <1>6 DEF TypeOK, palloc_return, Return, Set, Has, Taking
  <2>3. Has(t) \subseteq Page /\ Has(t) \subseteq used_map
    BY <1>t, <2>1 DEF PallocInv, Accounted, Flipped, TypeOK, Has, Taking, Group, Page
  <2>4. TypeOK'
    BY <1>t, <1>6, <2>2, <2>3 DEF TypeOK, palloc_return, Return, Set, Has, Taking
  <2>5. \A u \in Thread \ {t} : ~Locked(u) /\ ~Locked(u)'
    BY <2>1 DEF PallocInv, Locked
  <2>6. \A u \in Thread : ~Taking(u)'
    BY <2>1, <2>5 DEF Taking, Locked
  <2>7. \A u \in Thread : Locked(u)' => lock' = u
    BY <2>1, <2>5 DEF Locked
  <2>8. ASSUME NEW u \in Thread
        PROVE  Scanned(u)' /\ Flipping(u)' /\ Flipped(u)' /\ Untaken(u)' /\ Freeing(u)' /\ Failed(u)'
    <3>1. CASE u = t
      BY <2>1, <3>1 DEF Scanned, Flipping, Flipped, Untaken, Taking, Freeing, Failed
    <3>2. CASE u # t
      BY <2>1, <2>5, <3>2, OthersKeep DEF Locked, Taking
    <3>3. QED
      BY <3>1, <3>2
  <2>9. \A u \in Thread : Has(u)' = Has(u)
    BY <2>1, <2>2, <2>5, <2>6 DEF Has, Locked, Taking
  <2>10. \A u \in Thread \ {t} : held[u] \cap Has(t) = {}
    BY DEF PallocInv, HeldApart, Untaken, Has
  <2>11. HeldApart'
    BY <2>1, <2>2, <2>10 DEF PallocInv, HeldApart
  <2>12. Accounted'
    BY <2>1, <2>2, <2>3, <2>9 DEF PallocInv, Accounted
  <2>13. QED
    BY <2>4, <2>7, <2>8, <2>11, <2>12 DEF PallocInv
<1>7. ASSUME NEW t \in Thread, NEW b \in Page, NEW n \in 1 .. PageCnt - b,
             palloc_free_multiple(t, b, n)
      PROVE  PallocInv'
  <2>1. TypeOK'
    BY <1>t, <1>7 DEF TypeOK, palloc_free_multiple, Set, Page
  <2>2. /\ pc[t] = "idle" /\ pc'[t] = "free" /\ start'[t] = b /\ cnt'[t] = n /\ k'[t] = 0
        /\ Group(b, n) \subseteq held[t]
        /\ UNCHANGED <<used_map, lock, held, was_free>>
        /\ \A u \in Thread \ {t} : /\ pc'[u] = pc[u] /\ start'[u] = start[u] /\ cnt'[u] = cnt[u]
                                   /\ k'[u] = k[u]
    BY <1>t, <1>7 DEF TypeOK, palloc_free_multiple, Set
  <2>3. \A u \in Thread : Locked(u)' => lock' = u
    BY <2>2 DEF Locked, PallocInv
  <2>4. \A u \in Thread : Has(u)' = Has(u)
    BY <2>2 DEF Has, Taking
  <2>5. ASSUME NEW u \in Thread
        PROVE  Scanned(u)' /\ Flipping(u)' /\ Flipped(u)' /\ Untaken(u)' /\ Freeing(u)' /\ Failed(u)'
    <3>1. CASE u = t
      <4>1. Freeing(t)'
        BY <2>2 DEF Freeing, Group, Page
      <4>2. QED
        BY <2>2, <3>1, <4>1 DEF Scanned, Flipping, Flipped, Untaken, Taking, Failed
    <3>2. CASE u # t
      BY <2>2, <3>2, OthersKeep DEF PallocInv, Untaken
    <3>3. QED
      BY <3>1, <3>2
  <2>6. HeldApart' /\ Accounted'
    <3>1. HeldApart'
      BY <2>2 DEF PallocInv, HeldApart
    <3>2. Accounted'
      BY <2>2, <2>4 DEF PallocInv, Accounted
    <3>3. QED
      BY <3>1, <3>2
  <2>7. QED
    BY <2>1, <2>3, <2>5, <2>6 DEF PallocInv
<1>8. ASSUME NEW t \in Thread, bitmap_reset(t)
      PROVE  PallocInv'
  <2> DEFINE p == start[t] + k[t]
  <2>1. /\ pc[t] = "free" /\ used_map' = used_map \ {p} /\ held'[t] = held[t] \ {p}
        /\ UNCHANGED lock
        /\ \A u \in Thread \ {t} : /\ pc'[u] = pc[u] /\ start'[u] = start[u] /\ cnt'[u] = cnt[u]
                                   /\ k'[u] = k[u] /\ was_free'[u] = was_free[u] /\ held'[u] = held[u]
        /\ \/ /\ k[t] + 1 < cnt[t] /\ k'[t] = k[t] + 1 /\ pc'[t] = "free"
              /\ start'[t] = start[t] /\ cnt'[t] = cnt[t]
           \/ pc'[t] = "idle"
    BY <1>t, <1>8 DEF TypeOK, bitmap_reset, Return, Set
  <2>2. p \in Page /\ p \in held[t] /\ Freeing(t)
    BY <1>t, <2>1 DEF PallocInv, Freeing, TypeOK, Page
  <2>3. TypeOK'
    BY <1>t, <1>8 DEF TypeOK, bitmap_reset, Return, Set
  <2>4. \A u \in Thread : Locked(u)' => lock' = u
    BY <2>1 DEF Locked, PallocInv
  <2>5. \A u \in Thread : Taking(u) => p \notin Group(start[u], cnt[u])
    BY <2>2 DEF PallocInv, Untaken
  <2>6. ASSUME NEW u \in Thread
        PROVE  Scanned(u)' /\ Flipping(u)' /\ Flipped(u)' /\ Untaken(u)' /\ Freeing(u)' /\ Failed(u)'
    <3>1. CASE u = t
      <4>1. Freeing(t)'
        BY <1>t, <2>1, <2>2 DEF TypeOK, Freeing, Page
      <4>2. QED
        BY <2>1, <3>1, <4>1 DEF Scanned, Flipping, Flipped, Untaken, Taking, Failed
    <3>2. CASE u # t
      <4>1. Taking(u) => /\ \A i \in Group(start[u], cnt[u]) : i \in used_map' <=> i \in used_map
                         /\ \A v \in Thread : held'[v] \cap Group(start[u], cnt[u]) = {}
        BY <2>1, <2>5 DEF PallocInv, Untaken
      <4>2. QED
        BY <2>1, <3>2, <4>1, OthersKeep
    <3>3. QED
      BY <3>1, <3>2
  <2>7. \A u \in Thread \ {t} : Has(u)' = Has(u) /\ p \notin held[u]
    BY <2>1, <2>2 DEF Has, Taking, PallocInv, HeldApart
  <2>8. Has(t)' = Has(t) \ {p}
    BY <2>1 DEF Has, Taking
  <2>9. HeldApart'
    BY <2>1 DEF PallocInv, HeldApart
  <2>10. Accounted'
    <3>1. \A u \in Thread : held'[u] \subseteq used_map'
      BY <2>1, <2>7 DEF PallocInv, Accounted
    <3>2. \A i \in used_map' : \E u \in Thread : i \in Has(u)'
      BY <2>1, <2>7, <2>8 DEF PallocInv, Accounted
    <3>3. QED
      BY <3>1, <3>2 DEF Accounted
  <2>11. QED
    BY <2>3, <2>4, <2>6, <2>9, <2>10 DEF PallocInv
<1>9. CASE UNCHANGED vars
  BY <1>9 DEF vars, PallocInv, TypeOK, Locked, Scanned, Flipping, Flipped, Untaken, Taking, Has,
     Freeing, Failed, HeldApart, Accounted
<1>10. QED
  BY <1>1, <1>2, <1>3, <1>4, <1>5, <1>6, <1>7, <1>8, <1>9 DEF Next, Step

\* The invariant holds throughout.
LEMMA PallocInvariant == Spec => []PallocInv
<1>1. QED
  BY PallocInit, PallocStep, PTL DEF Spec

\* What is a thread's is nobody else's.
LEMMA InvExclusive == PallocInv => Exclusive
<1> SUFFICES ASSUME PallocInv, NEW t \in Thread, NEW u \in Thread, t # u
             PROVE  Has(t) \cap Has(u) = {}
  BY DEF Exclusive
<1>1. held[t] \cap held[u] = {}
  BY DEF PallocInv, HeldApart
<1>2. Taking(t) => held[u] \cap Group(start[t], cnt[t]) = {}
  BY DEF PallocInv, Untaken
<1>3. Taking(u) => held[t] \cap Group(start[u], cnt[u]) = {}
  BY DEF PallocInv, Untaken
<1>4. ~(Taking(t) /\ Taking(u))
  BY DEF PallocInv, Locked, Taking
<1>5. QED
  BY <1>1, <1>2, <1>3, <1>4 DEF Has

\* No page is ever given to two threads, although palloc_free_multiple does not take
\* the pool's lock.
THEOREM PagesAreExclusive == Spec => []Exclusive
<1>1. QED
  BY PallocInvariant, InvExclusive, PTL

\* The bitmap always agrees with who has which page: none is lost, and the assertion
\* of palloc_free_multiple holds.
THEOREM PagesAreAccounted == Spec => []Accounted
<1>1. PallocInv => Accounted
  BY DEF PallocInv
<1>2. QED
  BY PallocInvariant, <1>1, PTL

\* Pages are some one thread's exactly while their bits are set.
THEOREM PagesAreSound == Spec => []PagesSound
<1>1. PallocInv => PagesSound
  BY InvExclusive DEF PallocInv, PagesSound
<1>2. QED
  BY PallocInvariant, <1>1, PTL

\* palloc_get_multiple fails only if no group of that size was free when it got the
\* lock.
THEOREM FailuresAreReal == Spec => []NoSpuriousFailure
<1>1. PallocInv => NoSpuriousFailure
  BY DEF PallocInv, Failed, NoSpuriousFailure
<1>2. QED
  BY PallocInvariant, <1>1, PTL

-----------------------------------------------------------------------------
(* The pool implements the abstract allocator.                             *)

\* The owner of a page is the thread that has it.
LEMMA OwnerIs ==
    ASSUME Exclusive, NEW t \in Thread, NEW i \in Has(t)
    PROVE  OwnerOf(i) = t
<1>1. \A u \in Thread : i \in Has(u) => u = t
  BY DEF Exclusive
<1>2. QED
  BY <1>1 DEF OwnerOf

\* A step after which every thread has what it had leaves the abstract state alone.
LEMMA SameOwners ==
    ASSUME \A u \in Thread : Has(u)' = Has(u)
    PROVE  [i \in Page |-> OwnerOf(i)]' = [i \in Page |-> OwnerOf(i)]
<1>1. Page' = Page
  BY DEF Page
<1>2. ASSUME NEW i \in Page PROVE OwnerOf(i)' = OwnerOf(i)
  BY DEF OwnerOf
<1>3. QED
  BY <1>1, <1>2

\* Every step of the pool is a step of the abstract allocator or leaves it alone.
LEMMA PoolStep == PallocInv /\ PallocInv' /\ [Next]_vars => [PA!Next]_([i \in Page |-> OwnerOf(i)])
<1> SUFFICES ASSUME PallocInv, PallocInv', [Next]_vars
             PROVE  [PA!Next]_([i \in Page |-> OwnerOf(i)])
  OBVIOUS
<1> USE PallocAssumption
<1>t. TypeOK /\ TypeOK' /\ Exclusive /\ Exclusive'
  BY InvExclusive, PTL DEF PallocInv
<1>1. ASSUME NEW t \in Thread, scan_free(t), pc'[t] = "flip"
      PROVE  PA!Next
  <2> DEFINE G == Group(start[t], cnt[t])
  <2>1. /\ pc[t] = "scan" /\ start[t] + cnt[t] <= PageCnt
        /\ UNCHANGED <<start, cnt, held>>
        /\ \A u \in Thread \ {t} : pc'[u] = pc[u]
    BY <1>t, <1>1 DEF TypeOK, scan_free, Set
  <2>2. Taking(t)' /\ Has(t)' = Has(t) \cup G
    BY <1>1, <2>1 DEF Taking, Has
  <2>3. \A u \in Thread \ {t} : Has(u)' = Has(u)
    BY <2>1 DEF Taking, Has
  <2>4. \A u \in Thread : Has(u) \cap G = {}
    <3>1. \A u \in Thread \ {t} : Has(u)' \cap Has(t)' = {}
      BY <1>t DEF Exclusive
    <3>2. Untaken(t)'
      BY DEF PallocInv
    <3>3. Has(t) \cap G = {}
      BY <2>1, <2>2, <3>2 DEF Untaken, Has, Taking
    <3>4. QED
      BY <2>2, <2>3, <3>1, <3>3
  <2>5. \A i \in G : OwnerOf(i) = NULL
    BY <2>4 DEF OwnerOf
  <2>6. \A i \in G : OwnerOf(i)' = t
    <3>1. \A i \in G : \A u \in Thread : i \in Has(u)' <=> u = t
      BY <2>2, <2>3, <2>4
    <3>2. QED
      BY <3>1 DEF OwnerOf
  <2>7. \A i \in Page \ G : OwnerOf(i)' = OwnerOf(i)
    <3>1. \A i \in Page \ G : \A u \in Thread : i \in Has(u)' <=> i \in Has(u)
      BY <2>2, <2>3
    <3>2. QED
      BY <3>1 DEF OwnerOf
  <2>8. start[t] \in Page /\ cnt[t] \in 1 .. PageCnt - start[t] /\ G \subseteq Page
    BY <1>t, <2>1 DEF TypeOK, Page, Group
  <2>9. PA!Get(t, start[t], cnt[t])
    <3>1. [i \in Page |-> OwnerOf(i)]' = [i \in Page |-> IF i \in G THEN t ELSE OwnerOf(i)]
      BY <2>6, <2>7 DEF Page
    <3>2. QED
      BY <2>5, <2>8, <3>1 DEF PA!Get, Group, Page
  <2>10. QED
    BY <2>8, <2>9 DEF PA!Next, Page
<1>2. ASSUME NEW t \in Thread, bitmap_reset(t)
      PROVE  PA!Next
  <2>0. PICK p \in Page : p = start[t] + k[t] /\ p \in held[t]
    <3>1. pc[t] = "free"
      BY <1>2 DEF bitmap_reset
    <3>2. Freeing(t) /\ start[t] \in Nat /\ k[t] \in Nat /\ cnt[t] \in Nat /\ PageCnt \in Nat
      BY <1>t DEF PallocInv, TypeOK, Page
    <3>3. /\ k[t] < cnt[t] /\ start[t] + cnt[t] <= PageCnt
          /\ \A i \in Page : start[t] + k[t] <= i /\ i < start[t] + cnt[t] => i \in held[t]
      BY <3>1, <3>2 DEF Freeing
    <3>4. start[t] + k[t] \in Page
      BY <3>2, <3>3 DEF Page
    <3>5. QED
      BY <3>2, <3>3, <3>4
  <2>1. /\ pc[t] = "free" /\ held'[t] = held[t] \ {p} /\ pc'[t] \in {"free", "idle"}
        /\ \A u \in Thread \ {t} : /\ pc'[u] = pc[u] /\ start'[u] = start[u] /\ cnt'[u] = cnt[u]
                                   /\ held'[u] = held[u]
    BY <1>t, <1>2, <2>0 DEF TypeOK, bitmap_reset, Return, Set
  <2>3. /\ Has(t)' = Has(t) \ {p} /\ p \in Has(t)
        /\ \A u \in Thread \ {t} : Has(u)' = Has(u)
    BY <2>0, <2>1 DEF Has, Taking
  <2>4. OwnerOf(p) = t
    BY <1>t, <2>3, OwnerIs
  <2>5. OwnerOf(p)' = NULL
    <3>1. \A u \in Thread : p \notin Has(u)'
      BY <1>t, <2>3 DEF Exclusive
    <3>2. QED
      BY <3>1 DEF OwnerOf
  <2>6. \A i \in Page \ {p} : OwnerOf(i)' = OwnerOf(i)
    <3>1. \A i \in Page \ {p} : \A u \in Thread : i \in Has(u)' <=> i \in Has(u)
      BY <2>3
    <3>2. QED
      BY <3>1 DEF OwnerOf
  <2>7. [i \in Page |-> OwnerOf(i)]' = [[i \in Page |-> OwnerOf(i)] EXCEPT ![p] = NULL]
    BY <2>5, <2>6 DEF Page
  <2>8. QED
    BY <2>4, <2>7 DEF PA!Next, PA!Free, Page
<1>3. ASSUME NEW t \in Thread, Step(t), ~bitmap_reset(t), ~(scan_free(t) /\ pc'[t] = "flip")
      PROVE  \A u \in Thread : Has(u)' = Has(u)
  <2>1. ASSUME NEW n \in 1 .. PageCnt + 1, palloc_get_multiple(t, n)
        PROVE  \A u \in Thread : Has(u)' = Has(u)
    BY <1>t, <2>1 DEF TypeOK, palloc_get_multiple, Set, Has, Taking
  <2>2. CASE scan_fails(t)
    BY <1>t, <2>2 DEF TypeOK, scan_fails, Set, Has, Taking
  <2>3. CASE scan_used(t)
    BY <1>t, <2>3 DEF TypeOK, scan_used, Set, Has, Taking
  <2>4. CASE scan_free(t)
    BY <1>t, <1>3, <2>4 DEF TypeOK, scan_free, Set, Has, Taking
  <2>5. CASE bitmap_mark(t)
    BY <1>t, <2>5 DEF TypeOK, bitmap_mark, Set, Has, Taking
  <2>6. CASE palloc_return(t)
    BY <1>t, <2>6 DEF TypeOK, palloc_return, Return, Set, Has, Taking
  <2>7. ASSUME NEW b \in Page, NEW n \in 1 .. PageCnt - b, palloc_free_multiple(t, b, n)
        PROVE  \A u \in Thread : Has(u)' = Has(u)
    BY <1>t, <2>7 DEF TypeOK, palloc_free_multiple, Set, Has, Taking
  <2>8. QED
    BY <1>3, <2>1, <2>2, <2>3, <2>4, <2>5, <2>6, <2>7 DEF Step
<1>4. CASE UNCHANGED vars
  <2>1. \A u \in Thread : Has(u)' = Has(u)
    BY <1>4 DEF vars, Has, Taking
  <2>2. QED
    BY <2>1, SameOwners
<1>5. CASE Next
  <2>1. PICK t \in Thread : Step(t)
    BY <1>5 DEF Next
  <2>2. CASE (scan_free(t) /\ pc'[t] = "flip") \/ bitmap_reset(t)
    BY <1>1, <1>2, <2>2
  <2>3. CASE ~((scan_free(t) /\ pc'[t] = "flip") \/ bitmap_reset(t))
    <3>1. \A u \in Thread : Has(u)' = Has(u)
      BY <1>3, <2>1, <2>3
    <3>2. QED
      BY <3>1, SameOwners
  <2>4. QED
    BY <2>2, <2>3
<1>6. QED
  BY <1>4, <1>5

\* One pool of palloc.c implements the abstract page allocator, for any number of
\* threads and pages.
THEOREM PoolRefines == Spec => PoolImplementsAllocator
<1>1. Init => PA!Init
  <2> SUFFICES ASSUME Init PROVE PA!Init
    OBVIOUS
  <2>1. \A t \in Thread : Has(t) = {}
    BY DEF Init, Has, Taking
  <2>2. \A i \in Page : OwnerOf(i) = NULL
    BY <2>1 DEF OwnerOf
  <2>3. QED
    BY <2>2 DEF PA!Init, Page
<1>2. QED
  BY <1>1, PallocInvariant, PoolStep, PTL DEF Spec, PoolImplementsAllocator, PA!Spec
=============================================================================
