------------------------------- MODULE Bcache -------------------------------
(***************************************************************************)
(* The buffer cache (bio.c) over the disk driver, with the sleep lock of   *)
(* every buffer (sleeplock.c).  A process reads a block, perhaps changes   *)
(* it, and then writes it at once (bwrite) or pins it for a later write    *)
(* (log_write, install_trans), and releases it.  Every section under       *)
(* bcache.lock, and every section under a sleep lock's spinlock, is a step.*)
(***************************************************************************)
EXTENDS Virtio, Functions

CONSTANTS
  MaxPins   \* blocks that may be pinned at once (LOGSIZE)

ASSUME BcacheAssumption ==
  /\ MaxPins \in Nat
  /\ IsFiniteSet(Buf) /\ IsFiniteSet(Proc) /\ Null \notin Proc

VARIABLES
  lru,       \* the bufs, most recently used first (head.next)
  blockno,   \* b->blockno, Null for a buffer that never had one
  valid,     \* buffers with b->valid = 1
  refcnt,    \* b->refcnt
  lock,      \* b->lock: the process that holds it, or Null
  pinned,    \* buffers pinned by log_write()
  pc,        \* per process: what it does next
  want,      \* per process: the block it asked for
  cur        \* per process: the buffer bget() found

cache == <<lru, blockno, valid, refcnt, lock, pinned>>
cvars == <<cache, pc, want, cur>>
vars  == <<vvars, cvars>>

\* binit() puts every buffer at the head of the list.
Init ==
  /\ VInit
  /\ lru \in Injection(1 .. Cardinality(Buf), Buf)
  /\ blockno = [b \in Buf |-> Null]
  /\ valid = {}
  /\ refcnt = [b \in Buf |-> 0]
  /\ lock = [b \in Buf |-> Null]
  /\ pinned = {}
  /\ pc = [p \in Proc |-> "idle"]
  /\ want = [p \in Proc |-> Null]
  /\ cur = [p \in Proc |-> Null]

Goto(p, l) == pc' = [pc EXCEPT ![p] = l]

-----------------------------------------------------------------------------
(* bget, bread *)

\* bget() looks for the block from head.next on.
Cached(k) == {b \in Buf : blockno[b] = k}

\* Mutant: the search from head.prev stops before it gets to head.next.
Unused_early(b) == refcnt[b] = 0 /\ b # Head(lru)

\* bget() may recycle b.
Unused(b) == refcnt[b] = 0

\* bget(), first half: the block is cached.
BgetHit(p, k) ==
  /\ pc[p] = "idle"
  /\ \E b \in Cached(k) :
       /\ cur' = [cur EXCEPT ![p] = b]
       /\ refcnt' = [refcnt EXCEPT ![b] = @ + 1]
  /\ want' = [want EXCEPT ![p] = k]
  /\ Goto(p, "lock")
  /\ UNCHANGED <<vvars, lru, blockno, valid, lock, pinned>>

\* bget(), second half: recycle the least recently used unused buffer.
BgetMiss(p, k) ==
  /\ pc[p] = "idle"
  /\ Cached(k) = {}
  /\ \E n \in DOMAIN lru :
       /\ Unused(lru[n])
       /\ \A m \in DOMAIN lru : m > n => ~Unused(lru[m])
       /\ cur' = [cur EXCEPT ![p] = lru[n]]
       /\ blockno' = [blockno EXCEPT ![lru[n]] = k]
       /\ valid' = valid \ {lru[n]}
       /\ refcnt' = [refcnt EXCEPT ![lru[n]] = 1]
  /\ want' = [want EXCEPT ![p] = k]
  /\ Goto(p, "lock")
  /\ UNCHANGED <<vvars, lru, lock, pinned>>

\* bget() finds every buffer in use, and panics: there are no more than NBUF, and the log
\* may pin almost all of them.
BgetPanic(p, k) ==
  /\ pc[p] = "idle"
  /\ Cached(k) = {}
  /\ \A b \in Buf : ~Unused(b)

\* acquiresleep(): the lock is free.
AcquireSleep(p) ==
  /\ pc[p] = "lock"
  /\ lock[cur[p]] = Null
  /\ lock' = [lock EXCEPT ![cur[p]] = p]
  /\ Goto(p, "locked")
  /\ UNCHANGED <<vvars, lru, blockno, valid, refcnt, pinned, want, cur>>

\* acquiresleep(): it is not.
SleepOnLock(p) ==
  /\ pc[p] = "lock"
  /\ lock[cur[p]] # Null
  /\ Goto(p, "locksleep")
  /\ UNCHANGED <<vvars, cache, want, cur>>

\* bread() of a buffer without data starts a read.
BreadMiss(p) ==
  /\ pc[p] = "locked"
  /\ cur[p] \notin valid
  /\ Rw(p, cur[p], blockno[cur[p]], FALSE)
  /\ Goto(p, "reading")
  /\ UNCHANGED <<device, data, driver, used, panicked, cache, want, cur>>

\* Mutant: the buffer is marked valid when the read has only been submitted.
BreadDone_early(p) ==
  /\ pc[p] = "reading" /\ dpc[p] # "alloc"
  /\ valid' = valid \cup {cur[p]}
  /\ Goto(p, "using")
  /\ UNCHANGED <<vvars, lru, blockno, refcnt, lock, pinned, want, cur>>

\* bread(): virtio_disk_rw() has returned.
BreadDone(p) ==
  /\ pc[p] = "reading" /\ dpc[p] = "none"
  /\ valid' = valid \cup {cur[p]}
  /\ Goto(p, "using")
  /\ UNCHANGED <<vvars, lru, blockno, refcnt, lock, pinned, want, cur>>

\* bread() of a buffer with data.
BreadHit(p) ==
  /\ pc[p] = "locked"
  /\ cur[p] \in valid
  /\ Goto(p, "using")
  /\ UNCHANGED <<vvars, cache, want, cur>>

-----------------------------------------------------------------------------
(* The user of the buffer *)

Modify(p) ==
  /\ pc[p] = "using"
  /\ \E v \in Value \ {data[cur[p]]} : data' = [data EXCEPT ![cur[p]] = v]
  /\ Goto(p, "dirty")
  /\ UNCHANGED <<device, driver, used, dpc, req, panicked, cache, want, cur>>

\* bwrite(): of a changed block, or of a pinned one that the log installs.
Bwrite(p) ==
  /\ pc[p] = "dirty" \/ (pc[p] = "using" /\ cur[p] \in pinned)
  /\ Rw(p, cur[p], blockno[cur[p]], TRUE)
  /\ Goto(p, "writing")
  /\ UNCHANGED <<device, data, driver, used, panicked, cache, want, cur>>

\* bpin() from log_write(), for a block that is not in the log yet.
Bpin(p) ==
  /\ pc[p] = "dirty"
  /\ cur[p] \in pinned \/ Cardinality(pinned) < MaxPins
  /\ refcnt' = [refcnt EXCEPT ![cur[p]] = IF cur[p] \in pinned THEN @ ELSE @ + 1]
  /\ pinned' = pinned \cup {cur[p]}
  /\ Goto(p, "release")
  /\ UNCHANGED <<vvars, lru, blockno, valid, lock, want, cur>>

\* bwrite() has returned; install_trans() then calls bunpin().
BwriteDone(p) ==
  /\ pc[p] = "writing" /\ dpc[p] = "none"
  /\ refcnt' = [refcnt EXCEPT ![cur[p]] = IF cur[p] \in pinned THEN @ - 1 ELSE @]
  /\ pinned' = pinned \ {cur[p]}
  /\ Goto(p, "release")
  /\ UNCHANGED <<vvars, lru, blockno, valid, lock, want, cur>>

\* Mutant: releasesleep() forgets the wakeup.
ReleaseSleep_silent(p) ==
  /\ pc[p] \in {"using", "release"}
  /\ lock' = [lock EXCEPT ![cur[p]] = Null]
  /\ Goto(p, "put")
  /\ UNCHANGED <<vvars, lru, blockno, valid, refcnt, pinned, want, cur>>

\* brelse(): releasesleep(&b->lock) wakes every process that waits for it.
ReleaseSleep(p) ==
  /\ pc[p] \in {"using", "release"}
  /\ lock' = [lock EXCEPT ![cur[p]] = Null]
  /\ pc' = [q \in Proc |-> IF q = p THEN "put"
                           ELSE IF pc[q] = "locksleep" /\ cur[q] = cur[p] THEN "lock"
                           ELSE pc[q]]
  /\ UNCHANGED <<vvars, lru, blockno, valid, refcnt, pinned, want, cur>>

\* Mutant: the reference is not dropped.
Brelse_leak(p) ==
  /\ pc[p] = "put"
  /\ cur' = [cur EXCEPT ![p] = Null]
  /\ want' = [want EXCEPT ![p] = Null]
  /\ Goto(p, "idle")
  /\ UNCHANGED <<vvars, lru, blockno, valid, refcnt, lock, pinned>>

\* b moves from its place in the list to the front.
MoveToFront(s, b) ==
  LET n == CHOOSE i \in DOMAIN s : s[i] = b
  IN [i \in DOMAIN s |-> IF i = 1 THEN b ELSE IF i <= n THEN s[i - 1] ELSE s[i]]

\* brelse(): drop the reference; an unused buffer becomes the most recently used.
Brelse(p) ==
  /\ pc[p] = "put"
  /\ LET b == cur[p]
     IN /\ refcnt' = [refcnt EXCEPT ![b] = @ - 1]
        /\ lru' = IF refcnt[b] = 1 THEN MoveToFront(lru, b) ELSE lru
  /\ cur' = [cur EXCEPT ![p] = Null]
  /\ want' = [want EXCEPT ![p] = Null]
  /\ Goto(p, "idle")
  /\ UNCHANGED <<vvars, blockno, valid, lock, pinned>>

\* kill() wakes a process that sleeps in acquiresleep().
KillOnLock(p) ==
  /\ pc[p] = "locksleep"
  /\ Goto(p, "lock")
  /\ UNCHANGED <<vvars, cache, want, cur>>

-----------------------------------------------------------------------------
Work(p) ==
  \/ AcquireSleep(p) \/ SleepOnLock(p) \/ BreadMiss(p) \/ BreadDone(p) \/ BreadHit(p)
  \/ BwriteDone(p) \/ ReleaseSleep(p) \/ Brelse(p)
  \/ Bwrite(p) \/ Bpin(p)
  \/ Drive(p) /\ UNCHANGED cvars

Hardware == (Device \/ Intr) /\ UNCHANGED cvars

Next ==
  \/ \E p \in Proc, k \in Block : BgetHit(p, k) \/ BgetMiss(p, k)
  \/ \E p \in Proc : Work(p) \/ Modify(p) \/ KillOnLock(p) \/ (KillInIO(p) /\ UNCHANGED cvars)
  \/ Hardware

Spec == Init /\ [][Next]_vars

-----------------------------------------------------------------------------
\* The processes between bget() and the end of brelse() of b.
Users(b) == {p \in Proc : cur[p] = b}

ListInv ==
  /\ Range(lru) = Buf
  /\ \A b \in Buf : refcnt[b] = Cardinality(Users(b)) + (IF b \in pinned THEN 1 ELSE 0)

\* The references of a buffer are those of the processes that use it and one if it is
\* pinned; the LRU list holds every buffer once; and every descriptor is free or in
\* the chain of exactly one request (bget(), brelse(), bpin(), alloc3_desc()).
Accounted ==
  /\ Len(lru) = Cardinality(Buf) /\ ListInv
  /\ DescriptorsAccounted

\* bget() panics only when every buffer really is taken, pinned by the log or in the
\* hands of a process that will release it: no path of bread(), bwrite(), bpin(),
\* bunpin() and brelse() leaks a reference, and the search from head.prev overlooks no
\* buffer.  free_desc() never sees a descriptor twice, and virtio_disk_intr() never an
\* entry whose status the device has not written.
NoPanic ==
  /\ \A p \in Proc, k \in Block :
       BgetPanic(p, k) => \A b \in Buf : b \in pinned \/ Users(b) # {}
  /\ ~panicked

\* The current contents of every block, in the cache or on the disk; and its user, from
\* the end of bread() to releasesleep().
StoreOf ==
  [k \in Block |-> IF \E b \in valid : blockno[b] = k
                   THEN data[CHOOSE b \in valid : blockno[b] = k] ELSE content[k]]
HasBlock == {"using", "dirty", "writing", "release"}
Holders(k) == {p \in Proc : want[p] = k /\ pc[p] \in HasBlock}
UserOf == [k \in Block |-> IF Holders(k) = {} THEN Null ELSE CHOOSE p \in Holders(k) : TRUE]

\* The cache is one copy of every block: no block is in two buffers, a process
\* that bread() returned to sees the latest contents and nobody else sees it.
\* Eviction, a read that is still in flight, a completion out of order and the
\* interleaving of two misses cannot show an old or a foreign block.
Store == INSTANCE BlockStore WITH store <- StoreOf, user <- UserOf

StoreRefined == Store!Spec

\* A process that sleeps for a buffer's lock sleeps only while another process
\* holds it: releasesleep() and kill() lose no wakeup.  Likewise in the driver.
NoLostWakeup ==
  /\ \A p \in Proc : pc[p] = "locksleep" => lock[cur[p]] # Null
  /\ DriverSleepsForCause

-----------------------------------------------------------------------------
(* The inductive invariant *)

\* Between acquiresleep() and releasesleep().
HasLock == {"locked", "reading", "using", "dirty", "writing", "release"}

CacheTypeOK ==
  /\ content \in [Block -> Value] /\ data \in [Buf -> Value]
  /\ lru \in [1 .. Cardinality(Buf) -> Buf]
  /\ blockno \in [Buf -> Block \cup {Null}]
  /\ valid \subseteq Buf /\ pinned \subseteq Buf
  /\ refcnt \in [Buf -> Nat]
  /\ lock \in [Buf -> Proc \cup {Null}]
  /\ pc \in [Proc -> {"idle", "lock", "locksleep", "put"} \cup HasLock]
  /\ want \in [Proc -> Block \cup {Null}]
  /\ cur \in [Proc -> Buf \cup {Null}]

Request == [b : Buf, blk : Block, write : BOOLEAN, head : Desc \cup {Null}]
Info == [b : Buf, done : BOOLEAN, blk : Block, write : BOOLEAN]

DriverTypeOK ==
  /\ inflight \subseteq Desc /\ free \subseteq Desc /\ owned \subseteq Buf
  /\ desc \in [Desc -> Desc \cup {Null}]
  /\ info \in [Desc -> Info \cup {NoInfo}]
  /\ avail \in Seq(Desc) /\ used \in Seq(Desc)
  /\ dpc \in [Proc -> {"none", "alloc", "freesleep", "iosleep", "iowoken"}]
  /\ req \in [Proc -> Request \cup {Null}]

\* A process in the cache has a buffer that keeps its block; no block has two buffers;
\* a buffer's lock is held by the process between acquiresleep() and releasesleep().
HoldInv ==
  /\ \A b, c \in Buf : blockno[b] = blockno[c] /\ blockno[b] # Null => b = c
  /\ \A p \in Proc : /\ pc[p] = "idle" <=> cur[p] = Null
                     /\ pc[p] # "idle" => want[p] = blockno[cur[p]] /\ want[p] # Null
                     /\ pc[p] = "idle" => want[p] = Null
                     /\ pc[p] \in HasLock => lock[cur[p]] = p
  /\ \A b \in Buf : lock[b] # Null => cur[lock[b]] = b /\ pc[lock[b]] \in HasLock

\* The requests of the driver: which process each belongs to and what it asks for.
RequestOf(p) ==
  /\ dpc[p] # "none" =>
       /\ pc[p] \in {"reading", "writing"}
       /\ req[p] \in Request /\ req[p].b = cur[p] /\ req[p].blk = want[p]
       /\ req[p].write <=> pc[p] = "writing"
  /\ Submitted(p) =>
       LET h == req[p].head
       IN /\ h \in Desc /\ desc[h] \in Desc /\ desc[desc[h]] \in Desc
          /\ info[h] \in Info /\ info[h].b = cur[p] /\ info[h].blk = want[p]
          /\ info[h].write <=> pc[p] = "writing"
RequestInv == \A p \in Proc : RequestOf(p)

\* Who asked for chain i, and still waits for it.
Asked(i) == \E p \in Proc : Submitted(p) /\ req[p].head = i /\ cur[p] \in owned

\* A chain is in one place of one ring, or at the device, from virtio_disk_rw() until
\* virtio_disk_intr() has seen it.
RingInv ==
  /\ \A i \in Range(avail) \cup inflight \cup Range(used) : Asked(i)
  /\ IsInjective(avail) /\ IsInjective(used)
  /\ Range(avail) \cap inflight = {} /\ Range(avail) \cap Range(used) = {}
  /\ inflight \cap Range(used) = {}
  /\ \A i \in Range(used) : info[i].done

\* The device has done what p asked for.
Transferred(p) ==
  \/ dpc[p] = "none"
  \/ Submitted(p) /\ (cur[p] \notin owned \/ req[p].head \in Range(used))

\* Buffer and disk agree, except while a process changes the buffer, while it is
\* written, and while it is pinned.
CleanInv ==
  /\ \A b \in valid : blockno[b] # Null
  /\ \A p \in Proc : /\ pc[p] \in HasBlock => cur[p] \in valid
                     /\ pc[p] = "reading" => cur[p] \notin valid
                     /\ pc[p] \in {"reading", "writing"} /\ Transferred(p) =>
                          data[cur[p]] = content[want[p]]
  /\ \A b \in valid \ pinned :
       (\A p \in Proc : cur[p] = b => pc[p] \notin {"dirty", "writing"}) =>
         data[b] = content[blockno[b]]

CacheInv ==
  /\ CacheTypeOK /\ HoldInv /\ ListInv
  /\ \A p \in Proc : pc[p] = "locksleep" => lock[cur[p]] # Null
  /\ Cardinality(pinned) <= MaxPins

DriverInv ==
  /\ DriverTypeOK /\ RequestInv /\ RingInv
  /\ DescriptorsAccounted /\ DriverSleepsForCause
  /\ panicked = FALSE

BcacheInv == CacheInv /\ DriverInv /\ CleanInv
=============================================================================
