---------------------------- MODULE StoreProofs -----------------------------
(***************************************************************************)
(* The buffer cache over the disk driver, for any number of processes,     *)
(* buffers, blocks and descriptors: BcacheInv is inductive; no reference   *)
(* and no descriptor is lost, bget() panics only when every buffer is in   *)
(* use, no wakeup is lost, and the cache implements BlockStore.            *)
(***************************************************************************)
EXTENDS BcacheProofs

-----------------------------------------------------------------------------
(* brelse *)

\* releasesleep() frees the lock and wakes the processes that sleep for it.
LEMMA ReleaseSleepInv ==
  ASSUME BcacheInv, NEW p \in Proc, ReleaseSleep(p)
  PROVE  BcacheInv'
<1> USE VirtioAssumption, BcacheAssumption
<1>0. CacheInv /\ DriverInv /\ CleanInv /\ CacheTypeOK /\ HoldInv /\ ListInv
  BY DEF BcacheInv, CacheInv
<1>1. /\ cur[p] \in Buf /\ lock[cur[p]] = p
      /\ \A b \in Buf : lock'[b] = IF b = cur[p] THEN Null ELSE lock[b]
      /\ pc'[p] = "put"
      /\ \A q \in Proc \ {p} : pc'[q] = IF pc[q] = "locksleep" /\ cur[q] = cur[p] THEN "lock"
                                        ELSE pc[q]
  BY <1>0 DEF ReleaseSleep, CacheTypeOK, HoldInv, HasLock
<1>2. CacheTypeOK'
  BY <1>0, <1>1 DEF ReleaseSleep, CacheTypeOK, vvars, device, HasLock
<1>3. HoldInv'
  <2>1. \A b \in Buf : lock'[b] # Null => cur[lock'[b]] = b /\ pc'[lock'[b]] \in HasLock
    <3> SUFFICES ASSUME NEW b \in Buf, lock'[b] # Null
                 PROVE  cur[lock'[b]] = b /\ pc'[lock'[b]] \in HasLock
      OBVIOUS
    <3>1. b # cur[p] /\ lock'[b] = lock[b] /\ lock[b] \in Proc
      BY <1>0, <1>1 DEF CacheTypeOK
    <3>2. cur[lock[b]] = b /\ pc[lock[b]] \in HasLock
      BY <3>1, <1>0 DEF HoldInv
    <3> QED
      BY <3>1, <3>2, <1>1 DEF HasLock
  <2>2. \A q \in Proc : pc'[q] \in HasLock => lock'[cur[q]] = q
    <3> SUFFICES ASSUME NEW q \in Proc, pc'[q] \in HasLock PROVE lock'[cur[q]] = q
      OBVIOUS
    <3>1. q # p /\ pc[q] \in HasLock
      BY <1>1 DEF HasLock
    <3>2. lock[cur[q]] = q /\ cur[q] \in Buf
      BY <3>1, <1>0, LockOf
    <3> QED
      BY <3>1, <3>2, <1>1
  <2>3. UNCHANGED <<blockno, want, cur>> /\ \A q \in Proc : pc'[q] = "idle" <=> pc[q] = "idle"
    BY <1>1 DEF ReleaseSleep
  <2> QED
    BY ONLY <2>1, <2>2, <2>3, <1>0 DEF HoldInv
<1>4. ListInv'
  BY <1>0, ListStep DEF ReleaseSleep
<1>5. \A q \in Proc : pc'[q] = "locksleep" => lock'[cur'[q]] # Null
  <2> SUFFICES ASSUME NEW q \in Proc, pc'[q] = "locksleep" PROVE lock'[cur[q]] # Null
    BY DEF ReleaseSleep
  <2>1. q # p /\ pc[q] = "locksleep" /\ cur[q] # cur[p] /\ cur[q] \in Buf
    <3>1. q # p /\ pc[q] = "locksleep" /\ cur[q] # cur[p]
      BY <1>1
    <3> QED
      BY <3>1, <1>0, CurOf
  <2> QED
    BY <2>1, <1>0, <1>1 DEF CacheInv
<1>6. CacheInv'
  BY <1>0, <1>2, <1>3, <1>4, <1>5 DEF CacheInv, ReleaseSleep
<1>7. DriverInv'
  <2>1. \A q \in Proc : dpc[q] # "none" => pc'[q] = pc[q]
    BY <1>0, <1>1 DEF DriverInv, RequestInv, RequestOf, ReleaseSleep
  <2> QED
    BY <2>1, <1>0, DriverFrame DEF ReleaseSleep, vvars, device
<1>8. \A q \in Proc : /\ pc'[q] \in HasBlock => pc[q] \in HasBlock
                      /\ pc'[q] = "reading" <=> pc[q] = "reading"
                      /\ pc'[q] = "writing" <=> pc[q] = "writing"
                      /\ pc'[q] = "dirty" <=> pc[q] = "dirty"
                      /\ Transferred(q)' <=> Transferred(q)
  BY <1>1 DEF HasBlock, ReleaseSleep, vvars, driver, Transferred, Submitted
<1>9. CleanInv'
  BY <1>0, <1>8 DEF CleanInv, ReleaseSleep, vvars, device
<1> QED
  BY <1>6, <1>7, <1>9 DEF BcacheInv

\* brelse() drops the reference and moves a buffer nobody uses to the front of the list.
LEMMA BrelseInv ==
  ASSUME BcacheInv, NEW p \in Proc, Brelse(p)
  PROVE  BcacheInv'
<1> USE VirtioAssumption, BcacheAssumption
<1>0. CacheInv /\ DriverInv /\ CleanInv /\ CacheTypeOK /\ HoldInv /\ ListInv
  BY DEF BcacheInv, CacheInv
<1> DEFINE b == cur[p]
<1>1. b \in Buf /\ dpc[p] = "none" /\ pc[p] = "put"
  BY <1>0 DEF Brelse, HoldInv, CacheTypeOK, DriverInv, RequestInv, RequestOf
<1>2. /\ \A q \in Proc \ {p} : cur'[q] = cur[q] /\ pc'[q] = pc[q] /\ want'[q] = want[q]
      /\ cur'[p] = Null /\ pc'[p] = "idle" /\ want'[p] = Null
      /\ refcnt' = [refcnt EXCEPT ![b] = @ - 1]
      /\ lru' = IF refcnt[b] = 1 THEN MoveToFront(lru, b) ELSE lru
      /\ UNCHANGED <<vvars, blockno, valid, lock, pinned>>
  BY <1>0 DEF Brelse, Goto, CacheTypeOK
<1>3. \A c \in Buf : /\ Cardinality(Users(c)') \in Nat
                     /\ Cardinality(Users(c)) = Cardinality(Users(c)') + (IF c = b THEN 1 ELSE 0)
  <2>1. \A c \in Buf : Users(c)' \in SUBSET Proc
    BY DEF Users
  <2>2. \A c \in Buf : Cardinality(Users(c)') \in Nat
    BY <2>1, FS_Subset, FS_CardinalityType
  <2> QED
    BY <2>2, <1>0, <1>1, UsersDrop DEF CacheTypeOK, Brelse
<1>4. lru' \in [1 .. Cardinality(Buf) -> Buf] /\ Range(lru') = Buf
  <2>1. Cardinality(Buf) \in Nat
    BY FS_CardinalityType
  <2>2. lru \in [1 .. Cardinality(Buf) -> Buf] /\ Range(lru) = Buf
    BY <1>0 DEF CacheTypeOK, ListInv
  <2>3. MoveToFront(lru, b) \in [1 .. Cardinality(Buf) -> Buf] /\ Range(MoveToFront(lru, b)) = Buf
    <3>1. PICK N \in Nat : N = Cardinality(Buf)
      BY <2>1
    <3>2. lru \in [1 .. N -> Buf] /\ Range(lru) = Buf /\ b \in Buf
      BY <2>2, <3>1, <1>1
    <3> HIDE DEF b
    <3>3. MoveToFront(lru, b) \in [1 .. N -> Buf] /\ Range(MoveToFront(lru, b)) = Buf
      BY ONLY N \in Nat, <3>2, MoveFacts
    <3> QED
      BY <3>1, <3>3
  <2> QED
    BY <2>2, <2>3, <1>2
<1> HIDE DEF b
<1>5. ListInv' /\ refcnt' \in [Buf -> Nat]
  <2>1. \A c \in Buf : /\ refcnt[c] \in Nat
                       /\ refcnt[c] = Cardinality(Users(c)) + (IF c \in pinned THEN 1 ELSE 0)
    BY <1>0 DEF CacheTypeOK, ListInv
  <2>2. \A c \in Buf : refcnt'[c] = Cardinality(Users(c)') + (IF c \in pinned THEN 1 ELSE 0)
    <3>1. \A c \in Buf : refcnt'[c] = IF c = b THEN refcnt[c] - 1 ELSE refcnt[c]
      BY <1>0, <1>1, <1>2 DEF CacheTypeOK
    <3> SUFFICES ASSUME NEW c \in Buf
                 PROVE  refcnt'[c] = Cardinality(Users(c)') + (IF c \in pinned THEN 1 ELSE 0)
      OBVIOUS
    <3>2. PICK m \in Nat : m = Cardinality(Users(c)')
      BY <1>3
    <3>3. Cardinality(Users(c)) = m + (IF c = b THEN 1 ELSE 0)
      BY <1>3, <3>2
    <3>4. /\ refcnt[c] = Cardinality(Users(c)) + (IF c \in pinned THEN 1 ELSE 0)
          /\ refcnt'[c] = IF c = b THEN refcnt[c] - 1 ELSE refcnt[c]
      BY <2>1, <3>1
    <3> QED
      BY ONLY m \in Nat, <3>2, <3>3, <3>4
  <2>3. refcnt' \in [Buf -> Nat]
    <3>1. \A c \in Buf : refcnt'[c] \in Nat
      BY ONLY <2>2, <1>3
    <3>2. refcnt' = [c \in Buf |-> refcnt'[c]]
      BY <1>0, <1>2 DEF CacheTypeOK
    <3> QED
      BY ONLY <3>1, <3>2
  <2> QED
    BY <2>2, <2>3, <1>2, <1>4 DEF ListInv
<1>6. CacheTypeOK'
  BY <1>0, <1>2, <1>4, <1>5 DEF CacheTypeOK, Brelse, Goto, vvars, device, HasLock
<1>7. HoldInv'
  <2>1. \A c \in Buf : lock[c] # p
    <3> SUFFICES ASSUME NEW c \in Buf, lock[c] = p PROVE FALSE
      OBVIOUS
    <3>1. pc[p] \in HasLock
      BY <1>0 DEF HoldInv
    <3> QED
      BY <3>1, <1>1 DEF HasLock
  <2>2. \A q \in Proc : /\ pc'[q] = "idle" <=> cur'[q] = Null
                        /\ pc'[q] # "idle" => want'[q] = blockno'[cur'[q]] /\ want'[q] # Null
                        /\ pc'[q] = "idle" => want'[q] = Null
                        /\ pc'[q] \in HasLock => lock'[cur'[q]] = q
    BY <1>0, <1>2 DEF HoldInv, HasLock
  <2>3. \A c \in Buf : lock'[c] # Null => cur'[lock'[c]] = c /\ pc'[lock'[c]] \in HasLock
    <3> SUFFICES ASSUME NEW c \in Buf, lock'[c] # Null
                 PROVE  cur'[lock'[c]] = c /\ pc'[lock'[c]] \in HasLock
      OBVIOUS
    <3>1. lock'[c] = lock[c] /\ lock[c] \in Proc \ {p}
      BY <2>1, <1>0, <1>2 DEF CacheTypeOK
    <3>2. cur[lock[c]] = c /\ pc[lock[c]] \in HasLock
      BY <3>1, <1>0 DEF HoldInv
    <3> QED
      BY <3>1, <3>2, <1>2
  <2>4. blockno' = blockno
    BY <1>2
  <2> QED
    BY ONLY <2>2, <2>3, <2>4, <1>0 DEF HoldInv
<1>8. CacheInv'
  BY <1>0, <1>2, <1>5, <1>6, <1>7 DEF CacheInv
<1>9. DriverInv'
  BY <1>0, <1>1, <1>2, DriverFrame DEF vvars, device
<1>10. \A q \in Proc \ {p} : Transferred(q)' <=> Transferred(q)
  BY <1>2 DEF vvars, driver, Transferred, Submitted
<1>11. CleanInv'
  <2>1. \A q \in Proc : /\ pc'[q] \in HasBlock => cur'[q] \in valid'
                        /\ pc'[q] = "reading" => cur'[q] \notin valid'
                        /\ pc'[q] \in {"reading", "writing"} /\ Transferred(q)' =>
                             data'[cur'[q]] = content'[want'[q]]
    BY <1>0, <1>2, <1>10 DEF CleanInv, vvars, device, HasBlock
  <2>2. ASSUME NEW c \in valid' \ pinned',
               \A q \in Proc : cur'[q] = c => pc'[q] \notin {"dirty", "writing"}
        PROVE  data'[c] = content'[blockno'[c]]
    <3>1. \A q \in Proc : cur[q] = c => pc[q] \notin {"dirty", "writing"}
      BY <2>2, <1>1, <1>2
    <3> QED
      BY <3>1, <1>0, <1>2 DEF CleanInv, vvars, device
  <2> QED
    BY <2>1, <2>2, <1>0, <1>2 DEF CleanInv
<1> QED
  BY <1>8, <1>9, <1>11 DEF BcacheInv

-----------------------------------------------------------------------------
(* The theorems *)

\* binit() and virtio_disk_init() establish the invariant.
LEMMA BcacheInit == Init => BcacheInv
<1> SUFFICES ASSUME Init PROVE BcacheInv
  OBVIOUS
<1> USE VirtioAssumption, BcacheAssumption DEF Init, VInit
<1>1. CacheTypeOK
  BY DEF CacheTypeOK, Injection, HasLock
<1>2. HoldInv
  BY DEF HoldInv, HasLock
<1>3. Range(lru) = Buf
  <2>1. IsFiniteSet(1 .. Cardinality(Buf)) /\ Cardinality(1 .. Cardinality(Buf)) = Cardinality(Buf)
    <3>1. Cardinality(Buf) \in Nat
      BY FS_CardinalityType
    <3> QED
      BY <3>1, FS_Interval
  <2>2. lru \in Injection(1 .. Cardinality(Buf), Buf)
    OBVIOUS
  <2>3. lru \in Surjection(1 .. Cardinality(Buf), Buf)
    BY <2>1, <2>2, FS_Injection
  <2> QED
    BY <2>2, <2>3 DEF Surjection, Injection, Range
<1>4. \A b \in Buf : Users(b) = {}
  BY DEF Users
<1>5. ListInv
  <2>1. \A b \in Buf : Cardinality(Users(b)) = 0
    BY ONLY <1>4, FS_EmptySet
  <2> QED
    BY <2>1, <1>3 DEF ListInv
<1>6. CacheInv
  BY <1>1, <1>2, <1>5, FS_EmptySet DEF CacheInv
<1>7. DriverTypeOK
  BY DEF DriverTypeOK
<1>8. RequestInv
  BY DEF RequestInv, RequestOf, Submitted
<1>9. RingInv
  BY DEF RingInv, Range, IsInjective
<1>10. DescriptorsAccounted /\ DriverSleepsForCause
  BY DEF DescriptorsAccounted, DriverSleepsForCause, Submitted
<1>11. DriverInv
  BY <1>7, <1>8, <1>9, <1>10 DEF DriverInv
<1>12. CleanInv
  BY DEF CleanInv, HasBlock
<1> QED
  BY <1>6, <1>11, <1>12 DEF BcacheInv

\* Every step of a process, of the interrupt handler and of the device keeps the invariant.
LEMMA BcacheStep == BcacheInv /\ [Next]_vars => BcacheInv'
<1> SUFFICES ASSUME BcacheInv, [Next]_vars PROVE BcacheInv'
  OBVIOUS
<1>1. CASE UNCHANGED vars
  <2>1. CacheInv'
    BY <1>1, CacheFrame DEF BcacheInv, CacheInv, CacheTypeOK, vars, vvars, device
  <2>2. CleanInv'
    BY <1>1, CleanFrame
    DEF BcacheInv, vars, vvars, device, driver, cvars, Transferred, Submitted
  <2>3. DriverInv'
    BY <1>1, DriverFrame DEF BcacheInv, vars, vvars, device, cvars
  <2> QED
    BY <2>1, <2>2, <2>3 DEF BcacheInv
<1>2. ASSUME NEW p \in Proc, NEW k \in Block, BgetHit(p, k) \/ BgetMiss(p, k) PROVE BcacheInv'
  BY <1>2, BgetHitInv, BgetMissInv
<1>3. ASSUME NEW p \in Proc, Work(p) PROVE BcacheInv'
  <2>1. CASE AcquireSleep(p) \/ SleepOnLock(p) \/ BreadMiss(p) \/ BreadDone(p) \/ BreadHit(p)
    BY <2>1, AcquireSleepInv, SleepOnLockInv, BreadMissInv, BreadDoneInv, BreadHitInv
  <2>2. CASE BwriteDone(p) \/ ReleaseSleep(p) \/ Brelse(p) \/ Bwrite(p) \/ Bpin(p)
    BY <2>2, BwriteDoneInv, ReleaseSleepInv, BrelseInv, BwriteInv, BpinInv
  <2>3. CASE Drive(p) /\ UNCHANGED cvars
    BY <2>3, SleepersInv, SubmitInv, FinishInv DEF Drive
  <2> QED
    BY <1>3, <2>1, <2>2, <2>3 DEF Work
<1>4. ASSUME NEW p \in Proc, Modify(p) \/ KillOnLock(p) \/ (KillInIO(p) /\ UNCHANGED cvars)
      PROVE  BcacheInv'
  BY <1>4, ModifyInv, SleepOnLockInv, SleepersInv
<1>5. CASE Hardware
  BY <1>5, HandlerInv, IntrEntryInv, DevFetchInv, DevCompleteInv DEF Hardware, Device, Intr
<1> QED
  BY <1>1, <1>2, <1>3, <1>4, <1>5 DEF Next

\* The invariant of bio.c, sleeplock.c and virtio_disk.c together, for any number of
\* processes, buffers, blocks and descriptors.
THEOREM BcacheInvariant == Spec => []BcacheInv
BY BcacheInit, BcacheStep, PTL DEF Spec

\* No path of bread(), bwrite(), bpin(), bunpin() and brelse() loses a reference or a
\* place in the LRU list, and none of virtio_disk_rw() loses a descriptor.
THEOREM NothingLeaks == Spec => []Accounted
<1>1. BcacheInv => Accounted
  <2> SUFFICES ASSUME BcacheInv PROVE Accounted
    OBVIOUS
  <2>1. Cardinality(Buf) \in Nat
    BY BcacheAssumption, FS_CardinalityType
  <2>2. Len(lru) = Cardinality(Buf)
    BY <2>1 DEF BcacheInv, CacheInv, CacheTypeOK
  <2> QED
    BY <2>2 DEF BcacheInv, CacheInv, DriverInv, Accounted
<1> QED
  BY <1>1, BcacheInvariant, PTL

\* When bget() panics, every buffer is pinned or has a user: the cache is full, not
\* leaking.  free_desc() sees no descriptor twice, and virtio_disk_intr() no entry
\* without a status.
THEOREM PanicsOnlyWhenFull == Spec => []NoPanic
<1>1. BcacheInv => NoPanic
  <2> SUFFICES ASSUME BcacheInv PROVE NoPanic
    OBVIOUS
  <2>1. CacheTypeOK /\ ListInv /\ ~panicked
    BY DEF BcacheInv, CacheInv, DriverInv
  <2>2. ASSUME NEW p \in Proc, NEW k \in Block, BgetPanic(p, k), NEW b \in Buf, b \notin pinned
        PROVE  Users(b) # {}
    <3>1. refcnt[b] # 0
      BY <2>2 DEF BgetPanic, Unused
    <3>2. refcnt[b] = Cardinality(Users(b)) /\ Cardinality(Users(b)) \in Nat
      BY <2>1, <2>2, UsersFinite DEF ListInv
    <3> QED
      BY <3>1, <3>2, FS_EmptySet
  <2> QED
    BY <2>1, <2>2 DEF NoPanic
<1> QED
  BY <1>1, BcacheInvariant, PTL

\* releasesleep(), virtio_disk_intr() and free_desc() wake whoever can go on.
THEOREM CacheWakeups == Spec => []NoLostWakeup
<1>1. BcacheInv => NoLostWakeup
  BY DEF BcacheInv, CacheInv, DriverInv, NoLostWakeup
<1> QED
  BY <1>1, BcacheInvariant, PTL

-----------------------------------------------------------------------------
(* The cache implements BlockStore *)

\* What the refinement mapping shows of the cache.
StoreShape ==
  /\ StoreOf = [k \in Block |-> StoreOf[k]]
  /\ \A k \in Block : StoreOf[k] \in Value
  /\ \A b \in valid : blockno[b] \in Block /\ StoreOf[blockno[b]] = data[b]
  /\ \A k \in Block : (\A b \in valid : blockno[b] # k) => StoreOf[k] = content[k]
  /\ UserOf = [k \in Block |-> UserOf[k]]
  /\ \A p \in Proc : pc[p] \in HasBlock => want[p] \in Block /\ UserOf[want[p]] = p
  /\ \A k \in Block : (\A p \in Proc : pc[p] \in HasBlock => want[p] # k) => UserOf[k] = Null

\* The one user of a block.
LEMMA OneUser ==
  ASSUME BcacheInv, NEW p \in Proc, NEW q \in Proc, pc[p] \in HasLock, pc[q] \in HasLock,
         want[p] = want[q]
  PROVE  p = q
<1>1. /\ CacheTypeOK /\ HoldInv
  BY DEF BcacheInv, CacheInv
<1>2. /\ want[p] = blockno[cur[p]] /\ want[q] = blockno[cur[q]] /\ want[p] # Null
      /\ cur[p] \in Buf /\ cur[q] \in Buf
  BY <1>1 DEF HoldInv, CacheTypeOK, HasLock
<1>3. cur[p] = cur[q]
  <2>1. \A b, c \in Buf : blockno[b] = blockno[c] /\ blockno[b] # Null => b = c
    BY <1>1 DEF HoldInv
  <2> QED
    BY ONLY <2>1, <1>2, want[p] = want[q]
<1> QED
  BY <1>1, <1>3, OneHolder

\* The invariant gives the pointwise description of the abstract store.
LEMMA ShapeOfStore == BcacheInv => StoreShape
<1> SUFFICES ASSUME BcacheInv PROVE StoreShape
  OBVIOUS
<1>0. CacheTypeOK /\ HoldInv /\ CleanInv
  BY DEF BcacheInv, CacheInv
<1>1. ASSUME NEW b \in valid PROVE blockno[b] \in Block /\ StoreOf[blockno[b]] = data[b]
  <2>1. b \in Buf /\ blockno[b] \in Block
    BY <1>0 DEF CleanInv, CacheTypeOK
  <2>2. \A c \in valid : blockno[c] = blockno[b] => c = b
    BY <2>1, <1>0, VirtioAssumption DEF HoldInv, CacheTypeOK
  <2>3. (CHOOSE c \in valid : blockno[c] = blockno[b]) = b
    BY <2>2
  <2> QED
    BY <2>1, <2>3 DEF StoreOf
<1>2. \A k \in Block : (\A b \in valid : blockno[b] # k) => StoreOf[k] = content[k]
  BY DEF StoreOf
<1>3. StoreOf = [k \in Block |-> StoreOf[k]]
  BY DEF StoreOf
<1>4. \A k \in Block : StoreOf[k] \in Value
  BY <1>0, <1>1, <1>2 DEF CacheTypeOK
<1>5. UserOf = [k \in Block |-> UserOf[k]]
  BY DEF UserOf
<1>6. ASSUME NEW p \in Proc, pc[p] \in HasBlock PROVE want[p] \in Block /\ UserOf[want[p]] = p
  <2>1. want[p] \in Block
    BY <1>0, <1>6 DEF HoldInv, CacheTypeOK, HasBlock
  <2>2. Holders(want[p]) = {p}
    BY <1>6, OneUser DEF Holders, HasLock, HasBlock
  <2> QED
    BY <2>1, <2>2 DEF UserOf
<1>7. \A k \in Block : (\A p \in Proc : pc[p] \in HasBlock => want[p] # k) => UserOf[k] = Null
  BY DEF UserOf, Holders
<1> QED
  BY <1>1, <1>2, <1>3, <1>4, <1>5, <1>6, <1>7 DEF StoreShape

\* A step that leaves buffers and disk alone leaves the abstract contents alone.
LEMMA StoreSame ==
  ASSUME UNCHANGED <<blockno, valid, data, content>> PROVE StoreOf' = StoreOf
BY DEF StoreOf

\* A step after which the same processes have their blocks changes no abstract user.
LEMMA UserSame ==
  ASSUME StoreShape, StoreShape',
         \A p \in Proc : /\ pc'[p] \in HasBlock <=> pc[p] \in HasBlock
                         /\ pc[p] \in HasBlock => want'[p] = want[p]
  PROVE  UserOf' = UserOf
<1>1. ASSUME NEW k \in Block PROVE UserOf'[k] = UserOf[k]
  <2>1. CASE \E q \in Proc : pc[q] \in HasBlock /\ want[q] = k
    <3>1. PICK q \in Proc : pc[q] \in HasBlock /\ want[q] = k
      BY <2>1
    <3>2. pc'[q] \in HasBlock /\ want'[q] = k
      BY <3>1
    <3>3. UserOf[k] = q
      BY <3>1 DEF StoreShape
    <3>4. UserOf'[k] = q
      BY <3>2 DEF StoreShape
    <3> QED
      BY ONLY <3>3, <3>4
  <2>2. CASE \A q \in Proc : pc[q] \in HasBlock => want[q] # k
    <3>1. \A q \in Proc : pc'[q] \in HasBlock => want'[q] # k
      BY <2>2
    <3> QED
      BY <3>1, <2>2 DEF StoreShape
  <2> QED
    BY <2>1, <2>2
<1> QED
  BY <1>1 DEF StoreShape

\* Steps of the cache that move p outside the section in which it has the block.
LEMMA MoveSame ==
  ASSUME CacheTypeOK, StoreShape, StoreShape', NEW p \in Proc, NEW l, pc' = [pc EXCEPT ![p] = l],
         l \in HasBlock <=> pc[p] \in HasBlock,
         \A q \in Proc : pc[q] \in HasBlock => want'[q] = want[q]
  PROVE  UserOf' = UserOf
<1>1. \A q \in Proc : pc'[q] = IF q = p THEN l ELSE pc[q]
  BY DEF CacheTypeOK
<1> QED
  BY <1>1, UserSame

\* Recycling a buffer shows nothing: an unused one agrees with the disk.
LEMMA MissShowsNothing ==
  ASSUME BcacheInv, StoreShape, StoreShape', NEW p \in Proc, NEW k \in Block, BgetMiss(p, k)
  PROVE  StoreOf' = StoreOf
<1>0. CacheTypeOK /\ HoldInv /\ CleanInv /\ ListInv
  BY DEF BcacheInv, CacheInv
<1>1. PICK b \in Buf : /\ refcnt[b] = 0
                       /\ blockno' = [blockno EXCEPT ![b] = k]
                       /\ valid' = valid \ {b}
  BY <1>0 DEF BgetMiss, Unused, CacheTypeOK
<1>2. /\ \A c \in Buf : blockno[c] # k
      /\ b \notin pinned /\ \A q \in Proc : cur[q] # b
      /\ UNCHANGED <<data, content>>
  BY <1>0, <1>1, UnusedFacts DEF BgetMiss, Cached, vvars, device
<1>3. \A c \in Buf : c # b => blockno'[c] = blockno[c]
  BY <1>0, <1>1 DEF CacheTypeOK
<1>4. ASSUME NEW j \in Block PROVE StoreOf'[j] = StoreOf[j]
  <2>1. CASE \E c \in valid' : blockno'[c] = j
    <3>1. PICK c \in valid' : blockno'[c] = j
      BY <2>1
    <3>2. c \in valid /\ blockno[c] = j
      BY <3>1, <1>0, <1>1, <1>3 DEF CacheTypeOK
    <3> QED
      BY <3>1, <3>2, <1>2 DEF StoreShape
  <2>2. CASE (\A c \in valid' : blockno'[c] # j) /\ b \in valid /\ blockno[b] = j
    <3>1. StoreOf'[j] = content[j]
      BY <2>2, <1>2 DEF StoreShape
    <3>2. StoreOf[j] = data[b]
      BY <2>2 DEF StoreShape
    <3>3. data[b] = content[j]
      BY <2>2, <1>0, <1>2 DEF CleanInv
    <3> QED
      BY <3>1, <3>2, <3>3
  <2>3. CASE (\A c \in valid' : blockno'[c] # j) /\ ~(b \in valid /\ blockno[b] = j)
    <3>1. \A c \in valid : blockno[c] # j
      BY <2>3, <1>0, <1>1, <1>3 DEF CacheTypeOK
    <3> QED
      BY <3>1, <2>3, <1>2 DEF StoreShape
  <2> QED
    BY <2>1, <2>2, <2>3
<1> QED
  BY <1>4 DEF StoreShape

\* Nor does a transfer: a read fills a buffer that is not valid yet, a write brings the
\* disk up to date.
LEMMA TransferShowsNothing ==
  ASSUME BcacheInv, BcacheInv', StoreShape, StoreShape', UNCHANGED cvars,
         NEW i \in Desc, DevComplete(i)
  PROVE  StoreOf' = StoreOf
<1>0. DriverInv /\ CacheTypeOK /\ HoldInv /\ CleanInv
  BY DEF BcacheInv, CacheInv
<1>1. PICK o \in Proc : Submitted(o) /\ req[o].head = i
  BY <1>0 DEF DevComplete, DriverInv, RingInv, Asked
<1>2. /\ info[i].b = cur[o] /\ info[i].blk = want[o] /\ want[o] = blockno[cur[o]]
      /\ info[i].write <=> pc[o] = "writing"
      /\ pc[o] \in {"reading", "writing"} /\ cur[o] \in Buf /\ want[o] # Null
  BY <1>0, <1>1 DEF DriverInv, RequestInv, RequestOf, Submitted, HoldInv, CacheTypeOK
<1>3. UNCHANGED <<blockno, valid>>
  BY DEF cvars, cache
<1>4. CASE pc[o] = "reading"
  <2>1. cur[o] \notin valid
    BY <1>0, <1>4 DEF CleanInv
  <2>2. content' = content /\ \A b \in valid : data'[b] = data[b]
    BY <2>1, <1>0, <1>2, <1>4 DEF DevComplete, CacheTypeOK
  <2> QED
    BY <2>2, <1>3 DEF StoreShape
<1>5. CASE pc[o] = "writing"
  <2>1. cur[o] \in valid
    BY <1>0, <1>5 DEF CleanInv, HasBlock
  <2>2. data' = data /\ \A k \in Block : k # blockno[cur[o]] => content'[k] = content[k]
    BY <1>0, <1>2, <1>5 DEF DevComplete, CacheTypeOK
  <2> QED
    BY <2>1, <2>2, <1>3 DEF StoreShape
<1> QED
  BY <1>2, <1>4, <1>5

\* The end of bread() is the abstract Take.
LEMMA LookStep ==
  ASSUME BcacheInv, StoreShape, StoreShape', NEW p \in Proc, BreadDone(p) \/ BreadHit(p)
  PROVE  Store!Take(p, want[p]) /\ want[p] \in Block
<1>0. CacheTypeOK /\ HoldInv /\ CleanInv
  BY DEF BcacheInv, CacheInv
<1>1. /\ pc[p] \in HasLock \ HasBlock /\ want' = want
      /\ \A q \in Proc : pc'[q] = IF q = p THEN "using" ELSE pc[q]
  BY <1>0 DEF BreadDone, BreadHit, Goto, CacheTypeOK, HasLock, HasBlock
<1>2. \A q \in Proc : pc[q] \in HasBlock => want[q] # want[p]
  BY <1>1, OneUser DEF HasLock, HasBlock
<1>3. want[p] \in Block
  BY <1>0, <1>1 DEF HoldInv, CacheTypeOK, HasLock, HasBlock
<1>4. UserOf[want[p]] = Null
  BY <1>2, <1>3 DEF StoreShape
<1>5. ASSUME NEW k \in Block PROVE UserOf'[k] = IF k = want[p] THEN p ELSE UserOf[k]
  <2>1. CASE k = want[p]
    BY <2>1, <1>1 DEF StoreShape, HasBlock
  <2>2. CASE k # want[p] /\ \E q \in Proc : pc[q] \in HasBlock /\ want[q] = k
    <3>1. PICK q \in Proc : pc[q] \in HasBlock /\ want[q] = k
      BY <2>2
    <3>2. pc'[q] \in HasBlock /\ want'[q] = k
      BY <3>1, <2>2, <1>1
    <3>3. UserOf[k] = q
      BY <3>1 DEF StoreShape
    <3>4. UserOf'[k] = q
      BY <3>2 DEF StoreShape
    <3> QED
      BY ONLY <3>3, <3>4, <2>2
  <2>3. CASE k # want[p] /\ \A q \in Proc : pc[q] \in HasBlock => want[q] # k
    <3>1. \A q \in Proc : pc'[q] \in HasBlock => want'[q] # k
      BY <2>3, <1>1
    <3> QED
      BY <3>1, <2>3 DEF StoreShape
  <2> QED
    BY <2>1, <2>2, <2>3
<1>6. UserOf' = [UserOf EXCEPT ![want[p]] = p]
  BY <1>5 DEF StoreShape
<1>7. StoreOf' = StoreOf
  <2>1. CASE BreadHit(p)
    BY <2>1, StoreSame DEF BreadHit, cache, vvars, device
  <2>2. CASE BreadDone(p)
    <3>1. /\ valid' = valid \cup {cur[p]} /\ UNCHANGED <<blockno, data, content>>
      BY <2>2 DEF BreadDone, vvars, device
    <3>2. data[cur[p]] = content[want[p]] /\ want[p] = blockno[cur[p]]
          /\ cur[p] \notin valid /\ cur[p] \in Buf
      <4>1. pc[p] = "reading" /\ Transferred(p)
        BY <2>2 DEF BreadDone, Transferred
      <4>2. data[cur[p]] = content[want[p]] /\ cur[p] \notin valid
        BY <4>1, <1>0 DEF CleanInv
      <4> QED
        BY <4>1, <4>2, <1>0, CurOf
    <3>3. \A b \in valid : blockno[b] # want[p]
      BY <3>2, <1>0, <1>3, VirtioAssumption DEF HoldInv, CacheTypeOK
    <3>4. ASSUME NEW k \in Block PROVE StoreOf'[k] = StoreOf[k]
      <4>1. CASE k = want[p]
        BY <4>1, <3>1, <3>2, <3>3 DEF StoreShape
      <4>2. CASE \E b \in valid : blockno[b] = k
        BY <4>2, <3>1 DEF StoreShape
      <4>3. CASE k # want[p] /\ \A b \in valid : blockno[b] # k
        BY <4>3, <3>1, <3>2 DEF StoreShape
      <4> QED
        BY <4>1, <4>2, <4>3
    <3> QED
      BY <3>4 DEF StoreShape
  <2> QED
    BY <2>1, <2>2
<1> QED
  BY <1>3, <1>4, <1>6, <1>7 DEF Store!Take

\* Changing the data of a held buffer is the abstract Change.
LEMMA ChangeStep ==
  ASSUME BcacheInv, StoreShape, StoreShape', NEW p \in Proc, Modify(p)
  PROVE  Store!Change(p, want[p]) /\ want[p] \in Block
<1>0. CacheTypeOK /\ HoldInv /\ CleanInv
  BY DEF BcacheInv, CacheInv
<1>1. pc[p] = "using" /\ UNCHANGED <<valid, blockno, content, want>>
  BY DEF Modify, cache, device
<1>2. cur[p] \in valid /\ cur[p] \in Buf /\ want[p] = blockno[cur[p]] /\ want[p] \in Block
  BY <1>0, <1>1 DEF CleanInv, HoldInv, CacheTypeOK, HasBlock
<1>3. UserOf[want[p]] = p
  BY <1>1 DEF StoreShape, HasBlock
<1>4. UserOf' = UserOf
  BY <1>0, <1>1, MoveSame DEF Modify, Goto, HasBlock
<1>5. PICK v \in Value : data' = [data EXCEPT ![cur[p]] = v]
  BY DEF Modify
<1>6. ASSUME NEW k \in Block PROVE StoreOf'[k] = IF k = want[p] THEN v ELSE StoreOf[k]
  <2>1. CASE k = want[p]
    BY <2>1, <1>0, <1>1, <1>2, <1>5 DEF StoreShape, CacheTypeOK
  <2>2. CASE k # want[p] /\ \E b \in valid : blockno[b] = k
    <3>1. PICK b \in valid : blockno[b] = k
      BY <2>2
    <3>2. b \in Buf /\ b # cur[p]
      BY <3>1, <2>2, <1>0, <1>2 DEF CacheTypeOK
    <3> QED
      BY <3>1, <3>2, <2>2, <1>0, <1>1, <1>5 DEF StoreShape, CacheTypeOK
  <2>3. CASE k # want[p] /\ \A b \in valid : blockno[b] # k
    BY <2>3, <1>1 DEF StoreShape
  <2> QED
    BY <2>1, <2>2, <2>3
<1>7. StoreOf' = [StoreOf EXCEPT ![want[p]] = v]
  BY <1>6 DEF StoreShape
<1> QED
  BY <1>2, <1>3, <1>4, <1>7 DEF Store!Change

\* releasesleep() in brelse() is the abstract GiveBack.
LEMMA GiveBackStep ==
  ASSUME BcacheInv, StoreShape, StoreShape', NEW p \in Proc, ReleaseSleep(p)
  PROVE  Store!GiveBack(p, want[p]) /\ want[p] \in Block
<1>0. CacheTypeOK /\ HoldInv
  BY DEF BcacheInv, CacheInv
<1>1. /\ pc[p] \in {"using", "release"} /\ want' = want
      /\ pc'[p] = "put"
      /\ \A q \in Proc \ {p} : pc'[q] \in HasBlock <=> pc[q] \in HasBlock
  BY <1>0 DEF ReleaseSleep, CacheTypeOK, HasBlock
<1>2. UserOf[want[p]] = p /\ want[p] \in Block
  BY <1>1 DEF StoreShape, HasBlock
<1>3. \A q \in Proc : pc'[q] \in HasBlock => q # p /\ pc[q] \in HasBlock /\ want[q] # want[p]
  BY <1>1, OneUser DEF HasBlock, HasLock
<1>4. ASSUME NEW k \in Block PROVE UserOf'[k] = IF k = want[p] THEN Null ELSE UserOf[k]
  <2>1. CASE k = want[p]
    BY <2>1, <1>1, <1>3 DEF StoreShape
  <2>2. CASE k # want[p] /\ \E q \in Proc : pc[q] \in HasBlock /\ want[q] = k
    <3>1. PICK q \in Proc : pc[q] \in HasBlock /\ want[q] = k
      BY <2>2
    <3>2. pc'[q] \in HasBlock /\ want'[q] = k
      BY <3>1, <2>2, <1>1
    <3>3. UserOf[k] = q
      BY <3>1 DEF StoreShape
    <3>4. UserOf'[k] = q
      BY <3>2 DEF StoreShape
    <3> QED
      BY ONLY <3>3, <3>4, <2>2
  <2>3. CASE k # want[p] /\ \A q \in Proc : pc[q] \in HasBlock => want[q] # k
    <3>1. \A q \in Proc : pc'[q] \in HasBlock => want'[q] # k
      BY <2>3, <1>1, <1>3
    <3> QED
      BY <3>1, <2>3 DEF StoreShape
  <2> QED
    BY <2>1, <2>2, <2>3
<1>5. UserOf' = [UserOf EXCEPT ![want[p]] = Null]
  BY <1>4 DEF StoreShape
<1>6. StoreOf' = StoreOf
  BY StoreSame DEF ReleaseSleep, vvars, device
<1> QED
  BY <1>2, <1>5, <1>6 DEF Store!GiveBack

\* Steps that show nothing: they change neither a block nor its user.
LEMMA QuietStep ==
  ASSUME CacheTypeOK, StoreShape, StoreShape', NEW p \in Proc,
         \/ AcquireSleep(p) \/ SleepOnLock(p) \/ KillOnLock(p) \/ BreadMiss(p)
         \/ Bwrite(p) \/ Bpin(p) \/ BwriteDone(p) \/ Brelse(p)
         \/ \E k \in Block : BgetHit(p, k)
  PROVE  StoreOf' = StoreOf /\ UserOf' = UserOf
<1>1. UNCHANGED <<blockno, valid, data, content>>
  BY DEF AcquireSleep, SleepOnLock, KillOnLock, BreadMiss, Bwrite, Bpin, BwriteDone, Brelse,
         BgetHit, cache, vvars, device
<1>2. PICK l : pc' = [pc EXCEPT ![p] = l] /\ (l \in HasBlock <=> pc[p] \in HasBlock)
  BY DEF AcquireSleep, SleepOnLock, KillOnLock, BreadMiss, Bwrite, Bpin, BwriteDone, Brelse,
         BgetHit, Goto, HasBlock
<1>3. \A q \in Proc : pc[q] \in HasBlock => want'[q] = want[q]
  BY DEF AcquireSleep, SleepOnLock, KillOnLock, BreadMiss, Bwrite, Bpin, BwriteDone, Brelse,
         BgetHit, HasBlock, CacheTypeOK
<1> QED
  BY <1>1, <1>2, <1>3, StoreSame, MoveSame

\* Every step is a step of BlockStore or changes nothing in it.
LEMMA StoreStep ==
  ASSUME BcacheInv, BcacheInv', StoreShape, StoreShape', [Next]_vars
  PROVE  [Store!Next]_<<StoreOf, UserOf>>
<1>0. CacheTypeOK
  BY DEF BcacheInv, CacheInv
<1>1. ASSUME UNCHANGED <<cvars, data, content>> PROVE UNCHANGED <<StoreOf, UserOf>>
  BY <1>1, StoreSame, UserSame DEF cvars, cache
<1>2. CASE UNCHANGED vars
  BY <1>1, <1>2 DEF vars, vvars, device
<1>3. ASSUME NEW p \in Proc, NEW k \in Block, BgetMiss(p, k) PROVE UNCHANGED <<StoreOf, UserOf>>
  <2>1. UserOf' = UserOf
    BY <1>0, <1>3, MoveSame DEF BgetMiss, Goto, HasBlock, CacheTypeOK
  <2> QED
    BY <2>1, <1>3, MissShowsNothing
<1>4. ASSUME NEW p \in Proc,
             BreadDone(p) \/ BreadHit(p) \/ Modify(p) \/ ReleaseSleep(p)
      PROVE  Store!Next
  BY <1>4, LookStep, ChangeStep, GiveBackStep DEF Store!Next
<1>5. ASSUME NEW p \in Proc, (Drive(p) \/ KillInIO(p)) /\ UNCHANGED cvars
      PROVE  UNCHANGED <<StoreOf, UserOf>>
  BY <1>1, <1>5 DEF Drive, AllocFail, Submit, SleepAgain, Finish, KillInIO, device
<1>6. CASE Hardware
  <2>1. CASE Intr \/ DevFetch
    BY <1>1, <1>6, <2>1 DEF Hardware, Intr, IntrStart, IntrEntry, IntrEnd, DevFetch, device
  <2>2. CASE \E i \in Desc : DevComplete(i)
    <3>1. UserOf' = UserOf
      BY <1>6, UserSame DEF Hardware, cvars
    <3> QED
      BY <3>1, <2>2, <1>6, TransferShowsNothing DEF Hardware
  <2> QED
    BY <2>1, <2>2, <1>6 DEF Hardware, Device
<1>7. ASSUME NEW p \in Proc, NEW k \in Block, BgetHit(p, k) PROVE UNCHANGED <<StoreOf, UserOf>>
  BY <1>0, <1>7, QuietStep
<1>8. ASSUME NEW p \in Proc, Work(p) PROVE Store!Next \/ UNCHANGED <<StoreOf, UserOf>>
  BY <1>0, <1>4, <1>5, <1>8, QuietStep DEF Work
<1>9. ASSUME NEW p \in Proc, KillOnLock(p) PROVE UNCHANGED <<StoreOf, UserOf>>
  BY <1>0, <1>9, QuietStep
<1> QED
  BY <1>2, <1>3, <1>4, <1>5, <1>6, <1>7, <1>8, <1>9 DEF Next

\* The buffer cache over the disk driver is one copy of every block with one user at a
\* time: bread() returns the latest contents, whatever was recycled, pinned, in flight or
\* completed out of order.
THEOREM CacheIsStore == Spec => StoreRefined
<1>1. Init => Store!Init
  <2> SUFFICES ASSUME Init PROVE Store!Init
    OBVIOUS
  <2>1. StoreShape
    BY BcacheInit, ShapeOfStore
  <2>2. StoreOf \in [Block -> Value]
    BY <2>1 DEF StoreShape
  <2>3. UserOf = [k \in Block |-> Null]
    BY DEF UserOf, Holders, Init, HasBlock
  <2> QED
    BY <2>2, <2>3 DEF Store!Init
<1>2. BcacheInv /\ BcacheInv' /\ StoreShape /\ StoreShape' /\ [Next]_vars
        => [Store!Next]_<<StoreOf, UserOf>>
  BY StoreStep
<1>3. Spec => []BcacheInv
  BY BcacheInvariant
<1>4. BcacheInv => StoreShape
  BY ShapeOfStore
<1> QED
  BY <1>1, <1>2, <1>3, <1>4, PTL DEF Spec, StoreRefined, Store!Spec
=============================================================================
