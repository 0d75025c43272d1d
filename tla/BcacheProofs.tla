---------------------------- MODULE BcacheProofs ----------------------------
(***************************************************************************)
(* Lemmas for StoreProofs, continued: the steps of the buffer cache and of *)
(* the buffers' sleep locks preserve BcacheInv.                            *)
(***************************************************************************)
EXTENDS DriverProofs

-----------------------------------------------------------------------------
(* The list *)

\* brelse() keeps every buffer in the list.
LEMMA MoveFacts ==
  ASSUME NEW B, NEW N \in Nat, NEW s \in [1 .. N -> B], Range(s) = B, NEW b \in B
  PROVE  MoveToFront(s, b) \in [1 .. N -> B] /\ Range(MoveToFront(s, b)) = B
<1> DEFINE n == CHOOSE i \in DOMAIN s : s[i] = b
           t == [i \in DOMAIN s |-> IF i = 1 THEN b ELSE IF i <= n THEN s[i - 1] ELSE s[i]]
<1>1. n \in 1 .. N /\ s[n] = b
  BY DEF Range
<1> HIDE DEF n
<1>2. t \in [1 .. N -> B]
  BY <1>1
<1>3. ASSUME NEW c \in B PROVE c \in Range(t)
  <2>1. PICK i \in 1 .. N : s[i] = c
    BY DEF Range
  <2>2. CASE i = n
    BY <2>1, <2>2, <1>1 DEF Range
  <2>3. CASE i < n
    <3>1. i + 1 \in DOMAIN s /\ i + 1 # 1 /\ i + 1 <= n /\ (i + 1) - 1 = i
      BY <2>1, <2>3, <1>1
    <3> QED
      BY <3>1, <2>1 DEF Range
  <2>4. CASE i > n
    <3>1. i \in DOMAIN s /\ i # 1 /\ ~(i <= n)
      BY <2>1, <2>4, <1>1
    <3> QED
      BY <3>1, <2>1 DEF Range
  <2> QED
    BY <2>2, <2>3, <2>4, <1>1
<1>4. Range(t) \subseteq B
  BY <1>2 DEF Range
<1> QED
  BY <1>2, <1>3, <1>4 DEF MoveToFront, n

-----------------------------------------------------------------------------
(* References *)

\* The users of a buffer can be counted.
LEMMA UsersFinite ==
  ASSUME NEW b PROVE IsFiniteSet(Users(b)) /\ Cardinality(Users(b)) \in Nat
<1>1. Users(b) \in SUBSET Proc
  BY DEF Users
<1> QED
  BY <1>1, BcacheAssumption, FS_Subset, FS_CardinalityType

\* bget() adds a user to its buffer.
LEMMA UsersTake ==
  ASSUME cur \in [Proc -> Buf \cup {Null}], NEW p \in Proc, NEW b \in Buf,
         cur[p] = Null, cur' = [cur EXCEPT ![p] = b]
  PROVE  \A c \in Buf : Cardinality(Users(c)') = Cardinality(Users(c)) + (IF c = b THEN 1 ELSE 0)
<1>1. Users(b)' = Users(b) \cup {p} /\ p \notin Users(b)
  BY VirtioAssumption DEF Users
<1>2. \A c \in Buf \ {b} : Users(c)' = Users(c)
  BY VirtioAssumption DEF Users
<1>3. Cardinality(Users(b)') = Cardinality(Users(b)) + 1
  BY <1>1, UsersFinite, FS_AddElement
<1>4. \A c \in Buf : Cardinality(Users(c)) \in Nat
  BY UsersFinite
<1> QED
  BY <1>2, <1>3, <1>4

\* brelse() takes one away.
LEMMA UsersDrop ==
  ASSUME cur \in [Proc -> Buf \cup {Null}], NEW p \in Proc, NEW b \in Buf,
         cur[p] = b, cur' = [cur EXCEPT ![p] = Null]
  PROVE  \A c \in Buf : Cardinality(Users(c)) = Cardinality(Users(c)') + (IF c = b THEN 1 ELSE 0)
<1>1. Users(b)' = Users(b) \ {p} /\ p \in Users(b)
  BY VirtioAssumption DEF Users
<1>2. \A c \in Buf \ {b} : Users(c)' = Users(c)
  BY VirtioAssumption DEF Users
<1>3. /\ Cardinality(Users(b)') = Cardinality(Users(b)) - 1
      /\ Cardinality(Users(b)) \in Nat
  BY <1>1, UsersFinite, FS_RemoveElement
<1>4. \A c \in Buf : Cardinality(Users(c)) \in Nat
  BY UsersFinite
<1> QED
  BY <1>2, <1>3, <1>4

\* An unused buffer has no user and is not pinned; a user's buffer is not unused.
LEMMA UnusedFacts ==
  ASSUME CacheTypeOK, ListInv, NEW b \in Buf
  PROVE  /\ refcnt[b] = 0 => b \notin pinned /\ \A p \in Proc : cur[p] # b
         /\ refcnt[b] \in Nat
<1>1. refcnt[b] \in Nat /\ Cardinality(Users(b)) \in Nat
      /\ refcnt[b] = Cardinality(Users(b)) + (IF b \in pinned THEN 1 ELSE 0)
  BY UsersFinite DEF CacheTypeOK, ListInv
<1>2. refcnt[b] = 0 => b \notin pinned /\ Cardinality(Users(b)) = 0
  BY <1>1
<1>3. refcnt[b] = 0 => Users(b) = {}
  BY <1>2, UsersFinite, FS_EmptySet
<1> QED
  BY <1>1, <1>2, <1>3 DEF Users

-----------------------------------------------------------------------------
(* bget, bread *)

\* bget() of a cached block adds a reference to its buffer.
LEMMA BgetHitInv ==
  ASSUME BcacheInv, NEW p \in Proc, NEW k \in Block, BgetHit(p, k)
  PROVE  BcacheInv'
<1> USE VirtioAssumption, BcacheAssumption
<1>0. CacheInv /\ DriverInv /\ CleanInv /\ CacheTypeOK /\ HoldInv /\ ListInv
  BY DEF BcacheInv, CacheInv
<1>1. PICK b \in Cached(k) : /\ cur' = [cur EXCEPT ![p] = b]
                             /\ refcnt' = [refcnt EXCEPT ![b] = @ + 1]
  BY DEF BgetHit
<1>2. b \in Buf /\ blockno[b] = k /\ cur[p] = Null
  BY <1>0, <1>1 DEF Cached, HoldInv, BgetHit
<1>3. CacheTypeOK'
  BY <1>0, <1>1, <1>2 DEF CacheTypeOK, BgetHit, Goto, vvars, device, HasLock
<1>4. HoldInv'
  <2>1. /\ \A b1, c \in Buf : blockno'[b1] = blockno'[c] /\ blockno'[b1] # Null => b1 = c
        /\ \A q \in Proc \ {p} : cur'[q] = cur[q] /\ pc'[q] = pc[q] /\ want'[q] = want[q]
        /\ cur'[p] = b /\ pc'[p] = "lock" /\ want'[p] = k
        /\ blockno' = blockno /\ lock' = lock
    BY <1>0, <1>1 DEF CacheTypeOK, HoldInv, BgetHit, Goto
  <2>2. \A b1 \in Buf : lock[b1] # p
    BY <1>0, <1>2 DEF HoldInv, CacheTypeOK
  <2>3. \A q \in Proc : /\ pc'[q] = "idle" <=> cur'[q] = Null
                        /\ pc'[q] # "idle" => want'[q] = blockno'[cur'[q]] /\ want'[q] # Null
                        /\ pc'[q] = "idle" => want'[q] = Null
                        /\ pc'[q] \in HasLock => lock'[cur'[q]] = q
    BY <2>1, <1>0, <1>2 DEF HoldInv, HasLock
  <2>4. \A b1 \in Buf : lock'[b1] # Null => cur'[lock'[b1]] = b1 /\ pc'[lock'[b1]] \in HasLock
    BY <2>1, <2>2, <1>0 DEF HoldInv, CacheTypeOK
  <2> QED
    BY <2>1, <2>3, <2>4 DEF HoldInv
<1>5. ListInv'
  <2>1. \A c \in Buf : Cardinality(Users(c)') = Cardinality(Users(c)) + (IF c = b THEN 1 ELSE 0)
    BY <1>0, <1>1, <1>2, UsersTake DEF CacheTypeOK
  <2>2. \A c \in Buf : Cardinality(Users(c)) \in Nat
    BY UsersFinite
  <2> QED
    BY <2>1, <2>2, <1>0, <1>1, <1>2 DEF ListInv, CacheTypeOK, BgetHit
<1>6. CacheInv'
  BY <1>3, <1>4, <1>5, <1>0, <1>1 DEF CacheInv, CacheTypeOK, BgetHit, Goto
<1>7. DriverInv'
  <2>1. dpc[p] = "none"
    BY <1>0 DEF DriverInv, RequestInv, RequestOf, BgetHit
  <2> QED
    BY <2>1, <1>0, <1>1, DriverFrame DEF CacheTypeOK, BgetHit, Goto, vvars, device
<1>8. CleanInv'
  <2>1. \A q \in Proc \ {p} : /\ cur'[q] = cur[q] /\ pc'[q] = pc[q] /\ want'[q] = want[q]
                              /\ Transferred(q)' <=> Transferred(q)
    BY <1>0, <1>1 DEF CacheTypeOK, BgetHit, Goto, vvars, device, driver, Transferred, Submitted
  <2>2. /\ cur'[p] = b /\ pc'[p] = "lock" /\ cur[p] = Null
        /\ UNCHANGED <<blockno, valid, pinned, data, content>>
    BY <1>0, <1>1, <1>2 DEF CacheTypeOK, BgetHit, Goto, vvars, device
  <2>3. \A q \in Proc : /\ pc'[q] \in HasBlock => cur'[q] \in valid'
                        /\ pc'[q] = "reading" => cur'[q] \notin valid'
                        /\ pc'[q] \in {"reading", "writing"} /\ Transferred(q)' =>
                             data'[cur'[q]] = content'[want'[q]]
    BY <2>1, <2>2, <1>0 DEF CleanInv, HasBlock
  <2>4. ASSUME NEW c \in valid' \ pinned',
               \A q \in Proc : cur'[q] = c => pc'[q] \notin {"dirty", "writing"}
        PROVE  data'[c] = content'[blockno'[c]]
    <3>1. c \in valid \ pinned /\ c # Null
      BY <2>2, <1>0 DEF CacheTypeOK
    <3>2. \A q \in Proc : cur[q] = c => pc[q] \notin {"dirty", "writing"}
      BY <2>1, <2>2, <2>4, <3>1
    <3> QED
      BY <2>2, <3>1, <3>2, <1>0 DEF CleanInv
  <2>5. \A c \in valid' : blockno'[c] # Null
    BY <2>2, <1>0 DEF CleanInv
  <2> QED
    BY <2>3, <2>4, <2>5 DEF CleanInv
<1> QED
  BY <1>6, <1>7, <1>8 DEF BcacheInv

\* bget() recycles an unused buffer: nobody holds it, and it is clean or never used.
LEMMA BgetMissInv ==
  ASSUME BcacheInv, NEW p \in Proc, NEW k \in Block, BgetMiss(p, k)
  PROVE  BcacheInv'
<1> USE VirtioAssumption, BcacheAssumption
<1>0. CacheInv /\ DriverInv /\ CleanInv /\ CacheTypeOK /\ HoldInv /\ ListInv
  BY DEF BcacheInv, CacheInv
<1>1. PICK b \in Buf : /\ refcnt[b] = 0
                       /\ cur' = [cur EXCEPT ![p] = b]
                       /\ blockno' = [blockno EXCEPT ![b] = k]
                       /\ valid' = valid \ {b}
                       /\ refcnt' = [refcnt EXCEPT ![b] = 1]
  BY <1>0 DEF BgetMiss, Unused, CacheTypeOK
<1>2. /\ \A c \in Buf : blockno[c] # k
      /\ cur[p] = Null /\ pc[p] = "idle" /\ b \notin pinned /\ \A q \in Proc : cur[q] # b
  BY <1>0, <1>1, UnusedFacts DEF BgetMiss, Cached, HoldInv
<1>3. CacheTypeOK'
  BY <1>0, <1>1 DEF CacheTypeOK, BgetMiss, Goto, vvars, device, HasLock
<1>a. /\ \A q \in Proc \ {p} : cur'[q] = cur[q] /\ pc'[q] = pc[q] /\ want'[q] = want[q]
      /\ cur'[p] = b /\ pc'[p] = "lock" /\ want'[p] = k
      /\ \A c \in Buf \ {b} : blockno'[c] = blockno[c]
      /\ blockno'[b] = k /\ lock' = lock /\ k # Null
  BY <1>0, <1>1 DEF CacheTypeOK, BgetMiss, Goto
<1>4. HoldInv'
  <2>1. \A b1, c \in Buf : blockno'[b1] = blockno'[c] /\ blockno'[b1] # Null => b1 = c
    BY <1>a, <1>2, <1>0 DEF HoldInv
  <2>2. \A b1 \in Buf : lock[b1] # p
    BY <1>0, <1>2 DEF HoldInv, CacheTypeOK
  <2>3. \A q \in Proc : /\ pc'[q] = "idle" <=> cur'[q] = Null
                        /\ pc'[q] # "idle" => want'[q] = blockno'[cur'[q]] /\ want'[q] # Null
                        /\ pc'[q] = "idle" => want'[q] = Null
                        /\ pc'[q] \in HasLock => lock'[cur'[q]] = q
    BY <1>a, <1>0, <1>2 DEF HoldInv, HasLock, CacheTypeOK
  <2>4. \A b1 \in Buf : lock'[b1] # Null => cur'[lock'[b1]] = b1 /\ pc'[lock'[b1]] \in HasLock
    BY <1>a, <2>2, <1>0 DEF HoldInv, CacheTypeOK
  <2> QED
    BY <2>1, <2>3, <2>4 DEF HoldInv
<1>5. ListInv'
  <2>1. \A c \in Buf : Cardinality(Users(c)') = Cardinality(Users(c)) + (IF c = b THEN 1 ELSE 0)
    BY <1>0, <1>1, <1>2, UsersTake DEF CacheTypeOK
  <2>2. \A c \in Buf : Cardinality(Users(c)) \in Nat
    BY UsersFinite
  <2> QED
    BY <2>1, <2>2, <1>0, <1>1, <1>2 DEF ListInv, CacheTypeOK, BgetMiss
<1>6. CacheInv'
  BY <1>3, <1>4, <1>5, <1>0, <1>a DEF CacheInv, CacheTypeOK, BgetMiss
<1>7. DriverInv'
  <2>1. dpc[p] = "none"
    BY <1>0 DEF DriverInv, RequestInv, RequestOf, BgetMiss
  <2> QED
    BY <2>1, <1>0, <1>a, DriverFrame DEF BgetMiss, vvars, device
<1>8. CleanInv'
  <2>1. \A q \in Proc \ {p} : Transferred(q)' <=> Transferred(q)
    BY <1>a DEF BgetMiss, vvars, device, driver, Transferred, Submitted
  <2>2. UNCHANGED <<pinned, data, content>>
    BY DEF BgetMiss, vvars, device
  <2>3. \A q \in Proc : /\ pc'[q] \in HasBlock => cur'[q] \in valid'
                        /\ pc'[q] = "reading" => cur'[q] \notin valid'
                        /\ pc'[q] \in {"reading", "writing"} /\ Transferred(q)' =>
                             data'[cur'[q]] = content'[want'[q]]
    BY <2>1, <2>2, <1>0, <1>1, <1>2, <1>a DEF CleanInv, HasBlock
  <2>4. ASSUME NEW c \in valid' \ pinned',
               \A q \in Proc : cur'[q] = c => pc'[q] \notin {"dirty", "writing"}
        PROVE  data'[c] = content'[blockno'[c]]
    BY <2>2, <2>4, <1>0, <1>1, <1>2, <1>a DEF CleanInv, CacheTypeOK
  <2>5. \A c \in valid' : blockno'[c] # Null
    BY <1>0, <1>1, <1>a DEF CleanInv, CacheTypeOK
  <2> QED
    BY <2>3, <2>4, <2>5 DEF CleanInv
<1> QED
  BY <1>6, <1>7, <1>8 DEF BcacheInv

-----------------------------------------------------------------------------
(* The steps of a process that has found its buffer *)

\* Steps that neither take nor release the lock.
LEMMA HoldStep ==
  ASSUME CacheTypeOK, HoldInv, NEW p \in Proc,
         NEW l \in {"lock", "locksleep", "put"} \cup HasLock,
         pc[p] # "idle", pc[p] \in HasLock <=> l \in HasLock,
         pc' = [pc EXCEPT ![p] = l], UNCHANGED <<blockno, lock, want, cur>>
  PROVE  HoldInv'
<1>1. /\ \A q \in Proc \ {p} : pc'[q] = pc[q]
      /\ pc'[p] = l /\ l # "idle"
  BY DEF CacheTypeOK, HasLock
<1>2. \A q \in Proc : (pc'[q] = "idle" <=> pc[q] = "idle")
                      /\ (pc'[q] \in HasLock <=> pc[q] \in HasLock)
  BY <1>1
<1> QED
  BY <1>2, BcacheAssumption DEF HoldInv, CacheTypeOK

\* Steps that change no reference.
LEMMA ListStep ==
  ASSUME ListInv, UNCHANGED <<lru, refcnt, pinned, cur>>
  PROVE  ListInv'
BY DEF ListInv, Users

\* Steps before the buffer is read.
LEMMA CleanStep ==
  ASSUME CacheTypeOK, CleanInv, NEW p \in Proc, NEW l \in {"lock", "locksleep", "locked"},
         pc[p] \in {"lock", "locksleep"}, pc' = [pc EXCEPT ![p] = l],
         UNCHANGED <<vvars, blockno, valid, pinned, want, cur>>
  PROVE  CleanInv'
<1>1. /\ \A q \in Proc \ {p} : pc'[q] = pc[q]
      /\ pc'[p] \notin HasBlock \cup {"reading"} /\ pc[p] \notin HasBlock \cup {"reading"}
  BY DEF CacheTypeOK, HasBlock
<1>2. \A q \in Proc : /\ pc'[q] \in HasBlock <=> pc[q] \in HasBlock
                      /\ pc'[q] = "reading" <=> pc[q] = "reading"
                      /\ pc'[q] = "writing" <=> pc[q] = "writing"
                      /\ pc'[q] = "dirty" <=> pc[q] = "dirty"
                      /\ Transferred(q)' <=> Transferred(q)
  BY <1>1 DEF HasBlock, vvars, driver, Transferred, Submitted
<1> QED
  BY <1>2 DEF CleanInv, vvars, device

\* A process outside the driver moves on.
LEMMA DriverStep ==
  ASSUME CacheTypeOK, DriverInv, NEW p \in Proc, NEW l,
         pc[p] \notin {"reading", "writing"} \/ dpc[p] = "none",
         pc' = [pc EXCEPT ![p] = l],
         UNCHANGED <<inflight, irq, driver, used, dpc, req, panicked, want, cur>>
  PROVE  DriverInv'
<1>1. dpc[p] = "none"
  BY DEF DriverInv, RequestInv, RequestOf
<1>2. \A q \in Proc \ {p} : pc'[q] = pc[q]
  BY DEF CacheTypeOK
<1> QED
  BY <1>1, <1>2, DriverFrame

\* acquiresleep() of a lock that is held goes to sleep.
LEMMA SleepOnLockInv ==
  ASSUME BcacheInv, NEW p \in Proc, SleepOnLock(p) \/ KillOnLock(p)
  PROVE  BcacheInv'
<1>0. CacheInv /\ DriverInv /\ CleanInv /\ CacheTypeOK /\ HoldInv /\ ListInv
  BY DEF BcacheInv, CacheInv
<1>1. PICK l \in {"lock", "locksleep"} :
        /\ pc' = [pc EXCEPT ![p] = l] /\ pc[p] \in {"lock", "locksleep"}
        /\ l = "locksleep" => lock[cur[p]] # Null
        /\ UNCHANGED <<vvars, cache, want, cur>>
  BY DEF SleepOnLock, KillOnLock, Goto
<1>2. CacheTypeOK'
  BY <1>0, <1>1 DEF CacheTypeOK, vvars, device, cache, HasLock
<1>3. HoldInv'
  BY <1>0, <1>1, HoldStep DEF cache, HasLock
<1>4. ListInv'
  BY <1>0, <1>1, ListStep DEF cache
<1>5. CacheInv'
  BY <1>0, <1>1, <1>2, <1>3, <1>4 DEF CacheInv, CacheTypeOK, cache
<1>6. DriverInv'
  BY <1>0, <1>1, DriverStep DEF vvars, device
<1>7. CleanInv'
  BY <1>0, <1>1, CleanStep DEF cache
<1> QED
  BY <1>5, <1>6, <1>7 DEF BcacheInv

\* acquiresleep() of a free lock makes the process the only holder.
LEMMA AcquireSleepInv ==
  ASSUME BcacheInv, NEW p \in Proc, AcquireSleep(p)
  PROVE  BcacheInv'
<1> USE VirtioAssumption, BcacheAssumption
<1>0. CacheInv /\ DriverInv /\ CleanInv /\ CacheTypeOK /\ HoldInv /\ ListInv
  BY DEF BcacheInv, CacheInv
<1>1. /\ cur[p] \in Buf /\ lock[cur[p]] = Null
      /\ \A b \in Buf : lock'[b] = IF b = cur[p] THEN p ELSE lock[b]
      /\ \A q \in Proc : pc'[q] = IF q = p THEN "locked" ELSE pc[q]
  BY <1>0 DEF AcquireSleep, Goto, CacheTypeOK, HoldInv
<1>2. CacheTypeOK'
  BY <1>0, <1>1 DEF AcquireSleep, Goto, CacheTypeOK, vvars, device, HasLock
<1>3. HoldInv'
  <2>1. \A b \in Buf : lock'[b] # Null => cur[lock'[b]] = b /\ pc'[lock'[b]] \in HasLock
    BY <1>0, <1>1 DEF HoldInv, HasLock, CacheTypeOK
  <2>2. ASSUME NEW q \in Proc, pc'[q] \in HasLock PROVE lock'[cur[q]] = q
    <3>1. CASE q = p
      BY <3>1, <1>1
    <3>2. CASE q # p
      <4>1. pc[q] \in HasLock
        BY <2>2, <3>2, <1>1
      <4>2. cur[q] \in Buf /\ lock[cur[q]] = q
        BY <4>1, <1>0, LockOf
      <4> QED
        BY <4>2, <1>1
    <3> QED
      BY <3>1, <3>2
  <2>3. UNCHANGED <<blockno, want, cur>> /\ \A q \in Proc : pc'[q] = "idle" <=> pc[q] = "idle"
    BY <1>1 DEF AcquireSleep
  <2> QED
    BY ONLY <2>1, <2>2, <2>3, <1>0 DEF HoldInv
<1>4. ListInv'
  BY <1>0, ListStep DEF AcquireSleep
<1>5. \A q \in Proc : pc'[q] = "locksleep" => lock'[cur'[q]] # Null
  <2> SUFFICES ASSUME NEW q \in Proc, pc'[q] = "locksleep" PROVE lock'[cur[q]] # Null
    BY DEF AcquireSleep
  <2>1. pc[q] = "locksleep"
    BY <1>1
  <2>2. cur[q] \in Buf /\ lock[cur[q]] # Null
    BY <2>1, <1>0, CurOf DEF CacheInv
  <2> QED
    BY <2>2, <1>1
<1>6. CacheInv'
  BY <1>0, <1>2, <1>3, <1>4, <1>5 DEF CacheInv, AcquireSleep
<1>7. DriverInv'
  BY <1>0, DriverStep DEF AcquireSleep, Goto, vvars, device
<1>8. CleanInv'
  BY <1>0, CleanStep DEF AcquireSleep, Goto
<1> QED
  BY <1>6, <1>7, <1>8 DEF BcacheInv

\* The steps under the lock that change no lock.
LEMMA HeldStep ==
  ASSUME CacheInv, NEW p \in Proc, NEW l \in HasLock, pc[p] \in HasLock,
         pc' = [pc EXCEPT ![p] = l],
         UNCHANGED <<content, lru, blockno, lock, want, cur>>,
         data' \in [Buf -> Value], valid' \subseteq Buf, pinned' \subseteq Buf,
         refcnt' \in [Buf -> Nat], ListInv', Cardinality(pinned') <= MaxPins
  PROVE  CacheInv'
<1>0. CacheTypeOK /\ HoldInv
  BY DEF CacheInv
<1>1. CacheTypeOK'
  BY <1>0 DEF CacheTypeOK, HasLock
<1>2. HoldInv'
  BY <1>0, HoldStep DEF HasLock
<1> QED
  BY <1>0, <1>1, <1>2 DEF CacheInv, CacheTypeOK, HasLock

\* bread() and bwrite() call virtio_disk_rw().
LEMMA RwInv ==
  ASSUME CacheInv, DriverInv, NEW p \in Proc, NEW w \in BOOLEAN, pc[p] \in HasLock,
         pc[p] \notin {"reading", "writing"},
         Rw(p, cur[p], blockno[cur[p]], w),
         pc' = [pc EXCEPT ![p] = IF w THEN "writing" ELSE "reading"],
         UNCHANGED <<inflight, driver, used, panicked, want, cur>>
  PROVE  DriverInv'
<1> USE VirtioAssumption
<1>0. CacheTypeOK /\ HoldInv /\ DriverTypeOK /\ RequestInv
  BY DEF CacheInv, DriverInv
<1>1. /\ dpc[p] = "none" /\ cur[p] \in Buf /\ want[p] \in Block /\ blockno[cur[p]] = want[p]
  <2>1. pc[p] # "idle"
    BY DEF HasLock
  <2>2. dpc[p] = "none"
    BY <1>0 DEF RequestInv, RequestOf
  <2> QED
    BY <1>0, <2>1, <2>2, CurOf
<1>2. /\ \A q \in Proc \ {p} : pc'[q] = pc[q] /\ dpc'[q] = dpc[q] /\ req'[q] = req[q]
      /\ dpc'[p] = "alloc" /\ pc'[p] = IF w THEN "writing" ELSE "reading"
      /\ req'[p] = [b |-> cur[p], blk |-> want[p], write |-> w, head |-> Null]
  BY <1>1 DEF CacheInv, CacheTypeOK, DriverInv, DriverTypeOK, Rw
<1>3. DriverTypeOK'
  <2>1. [b |-> cur[p], blk |-> want[p], write |-> w, head |-> Null] \in Request
    BY <1>1 DEF Request
  <2>2. req' \in [Proc -> Request \cup {Null}]
    BY <2>1, <1>0, <1>1 DEF DriverTypeOK, Rw
  <2>3. dpc' \in [Proc -> {"none", "alloc", "freesleep", "iosleep", "iowoken"}]
    BY <1>0 DEF DriverTypeOK, Rw
  <2> QED
    BY <2>2, <2>3, <1>0 DEF DriverTypeOK, driver
<1>4. \A q \in Proc : /\ Submitted(q)' <=> Submitted(q)
                      /\ Submitted(q) => q # p /\ req'[q] = req[q] /\ pc'[q] = pc[q]
  BY <1>1, <1>2 DEF Submitted
<1>5. RequestInv'
  <2> SUFFICES ASSUME NEW q \in Proc PROVE RequestOf(q)'
    BY DEF RequestInv
  <2>1. CASE q = p
    <3>1. ~Submitted(p)'
      BY <1>2 DEF Submitted
    <3>2. req'[p] \in Request /\ cur'[p] = cur[p] /\ want'[p] = want[p]
      <4>1. [b |-> cur[p], blk |-> want[p], write |-> w, head |-> Null] \in Request
        BY ONLY <1>1, w \in BOOLEAN DEF Request
      <4>2. req'[p] \in Request
        BY ONLY <1>2, <4>1
      <4> QED BY <4>2
    <3>3. req'[p].b = cur[p] /\ req'[p].blk = want[p] /\ req'[p].write = w
      BY <1>2
    <3>4. pc'[p] \in {"reading", "writing"} /\ (w <=> pc'[p] = "writing")
      BY <1>2
    <3> QED
      BY ONLY <2>1, <3>1, <3>2, <3>3, <3>4 DEF RequestOf
  <2>2. CASE q # p
    <3>1. /\ pc'[q] = pc[q] /\ dpc'[q] = dpc[q] /\ req'[q] = req[q]
          /\ UNCHANGED <<desc, info, want, cur>>
      BY <2>2, <1>2 DEF driver
    <3>2. RequestOf(q)
      BY <1>0 DEF RequestInv
    <3> QED
      BY ONLY <3>1, <3>2 DEF RequestOf, Submitted
  <2> QED
    BY <2>1, <2>2
<1>6. \A i : Asked(i) => Asked(i)'
  BY <1>4 DEF Asked, driver
<1>7. RingInv'
  BY <1>6 DEF DriverInv, RingInv, driver
<1>8. DescriptorsAccounted'
  BY <1>4, AccountedFrame DEF DriverInv, driver
<1>9. DriverSleepsForCause'
  BY <1>2 DEF DriverInv, DriverSleepsForCause, driver
<1> QED
  BY <1>3, <1>5, <1>7, <1>8, <1>9 DEF DriverInv

\* Processes other than p, which has the lock, are at other buffers when they are past
\* acquiresleep(), and the driver does for them what it did.
LEMMA OthersClean ==
  ASSUME CacheTypeOK, HoldInv, NEW p \in Proc, NEW l, pc[p] \in HasLock,
         pc' = [pc EXCEPT ![p] = l],
         UNCHANGED <<owned, used, want, cur>>,
         \A q \in Proc \ {p} : dpc'[q] = dpc[q] /\ req'[q] = req[q]
  PROVE  /\ \A q \in Proc \ {p} : /\ pc'[q] = pc[q]
                                  /\ Transferred(q)' <=> Transferred(q)
                                  /\ pc[q] \in HasLock => cur[q] # cur[p]
         /\ pc'[p] = l
<1>1. pc'[p] = l /\ \A q \in Proc \ {p} : pc'[q] = pc[q]
  BY DEF CacheTypeOK
<1>2. \A q \in Proc \ {p} : pc[q] \in HasLock => cur[q] # cur[p]
  BY OneHolder
<1> QED
  BY <1>1, <1>2 DEF Transferred, Submitted

\* Such a step keeps CleanInv if it does for its own buffer.
LEMMA HeldClean ==
  ASSUME CacheTypeOK, HoldInv, CleanInv, NEW p \in Proc, pc[p] \in HasLock,
         \A q \in Proc \ {p} : /\ pc'[q] = pc[q]
                               /\ Transferred(q)' <=> Transferred(q)
                               /\ pc[q] \in HasLock => cur[q] # cur[p],
         UNCHANGED <<content, blockno, want, cur>>,
         valid' \subseteq Buf,
         \A b \in Buf \ {cur[p]} : /\ data'[b] = data[b]
                                   /\ b \in valid' <=> b \in valid
                                   /\ b \in pinned' <=> b \in pinned,
         pc'[p] \in HasBlock => cur[p] \in valid',
         pc'[p] = "reading" => cur[p] \notin valid',
         pc'[p] \in {"reading", "writing"} /\ Transferred(p)' => data'[cur[p]] = content[want[p]],
         cur[p] \in valid' \ pinned' =>
           pc'[p] \in {"dirty", "writing"} \/ data'[cur[p]] = content[want[p]]
  PROVE  CleanInv'
<1>1. cur[p] \in Buf /\ blockno[cur[p]] = want[p] /\ want[p] # Null
  BY CurOf, VirtioAssumption DEF HasLock
<1>2. ASSUME NEW q \in Proc \ {p}, pc[q] \in HasLock
      PROVE  cur[q] \in Buf \ {cur[p]}
  BY <1>2, CurOf DEF HasLock
<1>3. ASSUME NEW q \in Proc
      PROVE  /\ pc'[q] \in HasBlock => cur'[q] \in valid'
             /\ pc'[q] = "reading" => cur'[q] \notin valid'
             /\ pc'[q] \in {"reading", "writing"} /\ Transferred(q)' =>
                  data'[cur'[q]] = content'[want'[q]]
  <2>1. CASE q = p
    BY <2>1
  <2>2. CASE q # p /\ pc[q] \in HasLock
    BY <2>2, <1>2 DEF CleanInv
  <2>3. CASE q # p /\ pc[q] \notin HasLock
    BY <2>3 DEF HasLock, HasBlock
  <2> QED
    BY <2>1, <2>2, <2>3
<1>4. ASSUME NEW b \in valid' \ pinned',
             \A q \in Proc : cur'[q] = b => pc'[q] \notin {"dirty", "writing"}
      PROVE  data'[b] = content'[blockno'[b]]
  <2>1. CASE b = cur[p]
    BY <1>1, <1>4, <2>1
  <2>2. CASE b # cur[p]
    <3>1. b \in Buf \ {cur[p]} /\ b \in valid \ pinned
      BY <2>2
    <3>2. \A q \in Proc : cur[q] = b => pc[q] \notin {"dirty", "writing"}
      BY <2>2, <1>4
    <3> QED
      BY <3>1, <3>2 DEF CleanInv
  <2> QED
    BY <2>1, <2>2
<1>5. ASSUME NEW b \in valid' PROVE blockno'[b] # Null
  BY <1>1 DEF CleanInv
<1> QED
  BY <1>3, <1>4, <1>5 DEF CleanInv

\* bread() of an invalid buffer starts a read of its block.
LEMMA BreadMissInv ==
  ASSUME BcacheInv, NEW p \in Proc, BreadMiss(p)
  PROVE  BcacheInv'
<1>0. CacheInv /\ DriverInv /\ CleanInv /\ CacheTypeOK /\ HoldInv /\ ListInv
  BY DEF BcacheInv, CacheInv
<1>1. ListInv'
  BY <1>0, ListStep DEF BreadMiss, cache
<1>2. CacheInv'
  BY <1>0, <1>1, HeldStep DEF BreadMiss, Goto, cache, device, HasLock, CacheInv, CacheTypeOK
<1>3. DriverInv'
  BY <1>0, RwInv DEF BreadMiss, Goto, device, HasLock
<1>4. /\ dpc'[p] = "alloc"
      /\ \A q \in Proc \ {p} : dpc'[q] = dpc[q] /\ req'[q] = req[q]
  BY <1>0 DEF BreadMiss, Rw, DriverInv, DriverTypeOK
<1>5. /\ \A q \in Proc \ {p} : /\ pc'[q] = pc[q]
                               /\ Transferred(q)' <=> Transferred(q)
                               /\ pc[q] \in HasLock => cur[q] # cur[p]
      /\ pc'[p] = "reading"
  BY <1>0, <1>4, OthersClean DEF BreadMiss, Goto, driver, HasLock
<1>6. CleanInv'
  <2>1. /\ pc[p] \in HasLock /\ pc'[p] \notin HasBlock /\ ~Transferred(p)'
        /\ cur[p] \notin valid
    BY <1>4, <1>5 DEF BreadMiss, Transferred, Submitted, HasLock, HasBlock
  <2>2. UNCHANGED <<content, data, blockno, valid, pinned, want, cur>> /\ valid \subseteq Buf
    BY <1>0 DEF BreadMiss, cache, device, CacheTypeOK
  <2> QED
    BY <2>1, <2>2, <1>0, <1>5, HeldClean
<1> QED
  BY <1>2, <1>3, <1>6 DEF BcacheInv

\* bwrite() starts a write of the held buffer.
LEMMA BwriteInv ==
  ASSUME BcacheInv, NEW p \in Proc, Bwrite(p)
  PROVE  BcacheInv'
<1>0. CacheInv /\ DriverInv /\ CleanInv /\ CacheTypeOK /\ HoldInv /\ ListInv
  BY DEF BcacheInv, CacheInv
<1>1. ListInv'
  BY <1>0, ListStep DEF Bwrite, cache
<1>2. CacheInv'
  BY <1>0, <1>1, HeldStep DEF Bwrite, Goto, cache, device, HasLock, CacheInv, CacheTypeOK
<1>3. DriverInv'
  BY <1>0, RwInv DEF Bwrite, Goto, device, HasLock
<1>4. /\ dpc'[p] = "alloc"
      /\ \A q \in Proc \ {p} : dpc'[q] = dpc[q] /\ req'[q] = req[q]
  BY <1>0 DEF Bwrite, Rw, DriverInv, DriverTypeOK
<1>5. /\ \A q \in Proc \ {p} : /\ pc'[q] = pc[q]
                               /\ Transferred(q)' <=> Transferred(q)
                               /\ pc[q] \in HasLock => cur[q] # cur[p]
      /\ pc'[p] = "writing" /\ pc[p] \in {"dirty", "using"}
  BY <1>0, <1>4, OthersClean DEF Bwrite, Goto, driver, HasLock
<1>6. CleanInv'
  <2>1. pc[p] \in HasLock /\ pc[p] \in HasBlock /\ ~Transferred(p)'
    BY <1>4, <1>5 DEF Transferred, Submitted, HasLock, HasBlock
  <2>2. UNCHANGED <<content, data, blockno, valid, pinned, want, cur>> /\ valid \subseteq Buf
    BY <1>0 DEF Bwrite, cache, device, CacheTypeOK
  <2>3. cur[p] \in valid
    BY <2>1, <1>0 DEF CleanInv
  <2> QED
    BY <2>1, <2>2, <2>3, <1>0, <1>5, HeldClean
<1> QED
  BY <1>2, <1>3, <1>6 DEF BcacheInv

\* After the read, bread() marks the buffer valid: it holds what is on the disk.
LEMMA BreadDoneInv ==
  ASSUME BcacheInv, NEW p \in Proc, BreadDone(p)
  PROVE  BcacheInv'
<1>0. CacheInv /\ DriverInv /\ CleanInv /\ CacheTypeOK /\ HoldInv /\ ListInv
  BY DEF BcacheInv, CacheInv
<1>1. ListInv'
  BY <1>0, ListStep DEF BreadDone
<1>2. cur[p] \in Buf /\ want[p] = blockno[cur[p]] /\ want[p] # Null
  BY <1>0 DEF BreadDone, HoldInv, CacheTypeOK
<1>3. CacheInv'
  BY <1>0, <1>1, <1>2, HeldStep
  DEF BreadDone, Goto, vvars, device, HasLock, CacheInv, CacheTypeOK
<1>4. DriverInv'
  BY <1>0, DriverStep DEF BreadDone, Goto, vvars, device
<1>5. /\ \A q \in Proc \ {p} : /\ pc'[q] = pc[q]
                               /\ Transferred(q)' <=> Transferred(q)
                               /\ pc[q] \in HasLock => cur[q] # cur[p]
      /\ pc'[p] = "using"
  BY <1>0, OthersClean DEF BreadDone, Goto, vvars, driver, HasLock
<1>6. data[cur[p]] = content[want[p]]
  BY <1>0 DEF CleanInv, BreadDone, Transferred
<1>7. UNCHANGED <<blockno, pinned, want, cur, data, content>> /\ valid' = valid \cup {cur[p]}
  BY DEF BreadDone, vvars, device
<1>8. CleanInv'
  <2>1. pc[p] \in HasLock /\ valid' \subseteq Buf
    BY <1>0, <1>2, <1>7 DEF BreadDone, HasLock, CacheTypeOK
  <2> QED
    BY <2>1, <1>0, <1>5, <1>6, <1>7, HeldClean
<1> QED
  BY <1>3, <1>4, <1>8 DEF BcacheInv

\* bread() of a valid buffer returns it as it is.
LEMMA BreadHitInv ==
  ASSUME BcacheInv, NEW p \in Proc, BreadHit(p)
  PROVE  BcacheInv'
<1>0. CacheInv /\ DriverInv /\ CleanInv /\ CacheTypeOK /\ HoldInv /\ ListInv
  BY DEF BcacheInv, CacheInv
<1>1. ListInv'
  BY <1>0, ListStep DEF BreadHit, cache
<1>2. CacheInv'
  BY <1>0, <1>1, HeldStep
  DEF BreadHit, Goto, vvars, device, cache, HasLock, CacheInv, CacheTypeOK
<1>3. DriverInv'
  BY <1>0, DriverStep DEF BreadHit, Goto, vvars, device
<1>4. /\ \A q \in Proc \ {p} : /\ pc'[q] = pc[q]
                               /\ Transferred(q)' <=> Transferred(q)
                               /\ pc[q] \in HasLock => cur[q] # cur[p]
      /\ pc'[p] = "using"
  BY <1>0, OthersClean DEF BreadHit, Goto, vvars, driver, HasLock
<1>5. UNCHANGED <<blockno, valid, pinned, want, cur, data, content>>
  BY DEF BreadHit, vvars, device, cache
<1>6. CleanInv'
  <2>1. pc[p] \in HasLock /\ pc[p] \notin {"dirty", "writing"} /\ valid \subseteq Buf
        /\ cur[p] \in valid
    BY <1>0 DEF BreadHit, HasLock, CacheTypeOK
  <2>2. cur[p] \notin pinned => data[cur[p]] = content[want[p]]
    <3>1. \A q \in Proc : cur[q] = cur[p] => pc[q] \notin {"dirty", "writing"}
      BY <2>1, <1>0, OneHolder DEF HasLock
    <3>2. blockno[cur[p]] = want[p]
      BY <1>0, CurOf DEF BreadHit
    <3> QED
      BY <2>1, <3>1, <3>2, <1>0 DEF CleanInv
  <2> QED
    BY <2>1, <2>2, <1>0, <1>4, <1>5, HeldClean
<1> QED
  BY <1>2, <1>3, <1>6 DEF BcacheInv

\* The holder changes the data of its buffer, which may then differ from the disk.
LEMMA ModifyInv ==
  ASSUME BcacheInv, NEW p \in Proc, Modify(p)
  PROVE  BcacheInv'
<1>0. CacheInv /\ DriverInv /\ CleanInv /\ CacheTypeOK /\ HoldInv /\ ListInv
  BY DEF BcacheInv, CacheInv
<1>1. ListInv'
  BY <1>0, ListStep DEF Modify, cache
<1>2. cur[p] \in Buf
  BY <1>0 DEF Modify, HoldInv, CacheTypeOK
<1>3. data' \in [Buf -> Value] /\ \A b \in Buf \ {cur[p]} : data'[b] = data[b]
  BY <1>0, <1>2 DEF Modify, CacheTypeOK
<1>4. CacheInv'
  BY <1>0, <1>1, <1>3, HeldStep
  DEF Modify, Goto, device, cache, HasLock, CacheInv, CacheTypeOK
<1>5. DriverInv'
  BY <1>0, DriverStep DEF Modify, Goto, device
<1>6. /\ \A q \in Proc \ {p} : /\ pc'[q] = pc[q]
                               /\ Transferred(q)' <=> Transferred(q)
                               /\ pc[q] \in HasLock => cur[q] # cur[p]
      /\ pc'[p] = "dirty"
  BY <1>0, OthersClean DEF Modify, Goto, driver, HasLock
<1>7. UNCHANGED <<blockno, valid, pinned, want, cur, content>>
  BY DEF Modify, device, cache
<1>8. CleanInv'
  <2>1. pc[p] \in HasLock /\ cur[p] \in valid /\ valid \subseteq Buf
    BY <1>0 DEF Modify, HasLock, HasBlock, CacheTypeOK, CleanInv
  <2> QED
    BY <2>1, <1>0, <1>3, <1>6, <1>7, HeldClean
<1> QED
  BY <1>4, <1>5, <1>8 DEF BcacheInv

\* bpin() adds the reference that keeps a changed buffer in the cache.
LEMMA BpinInv ==
  ASSUME BcacheInv, NEW p \in Proc, Bpin(p)
  PROVE  BcacheInv'
<1> USE BcacheAssumption
<1>0. CacheInv /\ DriverInv /\ CleanInv /\ CacheTypeOK /\ HoldInv /\ ListInv
  BY DEF BcacheInv, CacheInv
<1>1. cur[p] \in Buf
  BY <1>0 DEF Bpin, HoldInv, CacheTypeOK
<1>2. \A b \in Buf : Users(b)' = Users(b) /\ Cardinality(Users(b)) \in Nat
  BY UsersFinite DEF Bpin, Users
<1>3. refcnt' \in [Buf -> Nat] /\ pinned' \subseteq Buf
  BY <1>0, <1>1 DEF Bpin, CacheTypeOK
<1>4. ListInv'
  BY <1>0, <1>1, <1>2 DEF ListInv, Bpin, CacheTypeOK
<1>5. Cardinality(pinned') <= MaxPins
  <2>1. IsFiniteSet(pinned) /\ Cardinality(pinned) \in Nat
    BY <1>0, FS_Subset, FS_CardinalityType DEF CacheTypeOK
  <2>2. Cardinality(pinned \cup {cur[p]}) = IF cur[p] \in pinned THEN Cardinality(pinned)
                                            ELSE Cardinality(pinned) + 1
    BY <2>1, FS_AddElement
  <2> QED
    BY <2>1, <2>2, <1>0 DEF Bpin, CacheInv
<1>6. CacheInv'
  BY <1>0, <1>3, <1>4, <1>5, HeldStep
  DEF Bpin, Goto, vvars, device, HasLock, CacheTypeOK
<1>7. DriverInv'
  BY <1>0, DriverStep DEF Bpin, Goto, vvars, device
<1>8. /\ \A q \in Proc \ {p} : /\ pc'[q] = pc[q]
                               /\ Transferred(q)' <=> Transferred(q)
                               /\ pc[q] \in HasLock => cur[q] # cur[p]
      /\ pc'[p] = "release"
  BY <1>0, OthersClean DEF Bpin, Goto, vvars, driver, HasLock
<1>9. UNCHANGED <<blockno, valid, want, cur, data, content>> /\ pinned' = pinned \cup {cur[p]}
  BY DEF Bpin, vvars, device
<1>10. CleanInv'
  <2>1. pc[p] \in HasLock /\ cur[p] \in valid /\ valid \subseteq Buf
    BY <1>0 DEF Bpin, HasLock, HasBlock, CacheTypeOK, CleanInv
  <2> QED
    BY <2>1, <1>0, <1>8, <1>9, HeldClean
<1> QED
  BY <1>6, <1>7, <1>10 DEF BcacheInv

\* After the write, buffer and disk agree; bunpin() may drop the pin.
LEMMA BwriteDoneInv ==
  ASSUME BcacheInv, NEW p \in Proc, BwriteDone(p)
  PROVE  BcacheInv'
<1> USE BcacheAssumption
<1>0. CacheInv /\ DriverInv /\ CleanInv /\ CacheTypeOK /\ HoldInv /\ ListInv
  BY DEF BcacheInv, CacheInv
<1>1. cur[p] \in Buf /\ want[p] = blockno[cur[p]]
  BY <1>0 DEF BwriteDone, HoldInv, CacheTypeOK
<1>2. \A b \in Buf : /\ Users(b)' = Users(b) /\ Cardinality(Users(b)) \in Nat
                     /\ refcnt[b] = Cardinality(Users(b)) + (IF b \in pinned THEN 1 ELSE 0)
  BY <1>0, UsersFinite DEF BwriteDone, Users, ListInv
<1>3. refcnt' \in [Buf -> Nat] /\ pinned' \subseteq Buf
  BY <1>0, <1>1, <1>2 DEF BwriteDone, CacheTypeOK
<1>4. ListInv'
  BY <1>0, <1>1, <1>2 DEF ListInv, BwriteDone, CacheTypeOK
<1>5. Cardinality(pinned') <= MaxPins
  <2>1. IsFiniteSet(pinned) /\ Cardinality(pinned) \in Nat
    BY <1>0, FS_Subset, FS_CardinalityType DEF CacheTypeOK
  <2>2. Cardinality(pinned \ {cur[p]}) = IF cur[p] \in pinned THEN Cardinality(pinned) - 1
                                         ELSE Cardinality(pinned)
    BY <2>1, FS_RemoveElement
  <2> QED
    BY <2>1, <2>2, <1>0 DEF BwriteDone, CacheInv
<1>6. CacheInv'
  BY <1>0, <1>3, <1>4, <1>5, HeldStep
  DEF BwriteDone, Goto, vvars, device, HasLock, CacheTypeOK
<1>7. DriverInv'
  BY <1>0, DriverStep DEF BwriteDone, Goto, vvars, device
<1>8. /\ \A q \in Proc \ {p} : /\ pc'[q] = pc[q]
                               /\ Transferred(q)' <=> Transferred(q)
                               /\ pc[q] \in HasLock => cur[q] # cur[p]
      /\ pc'[p] = "release"
  BY <1>0, OthersClean DEF BwriteDone, Goto, vvars, driver, HasLock
<1>9. UNCHANGED <<blockno, valid, want, cur, data, content>> /\ pinned' = pinned \ {cur[p]}
  BY DEF BwriteDone, vvars, device
<1>10. data[cur[p]] = content[blockno[cur[p]]] /\ pc[p] = "writing"
  BY <1>0, <1>1 DEF CleanInv, BwriteDone, Transferred
<1>11. CleanInv'
  <2>1. pc[p] \in HasLock /\ cur[p] \in valid /\ valid \subseteq Buf
    BY <1>0, <1>10 DEF HasLock, HasBlock, CacheTypeOK, CleanInv
  <2> QED
    BY <2>1, <1>0, <1>1, <1>8, <1>9, <1>10, HeldClean
<1> QED
  BY <1>6, <1>7, <1>11 DEF BcacheInv

=============================================================================
