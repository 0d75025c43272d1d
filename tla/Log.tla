-------------------------------- MODULE Log --------------------------------
(***************************************************************************)
(* The write-ahead log (log.c) over the buffer cache (bread, bwrite, bpin  *)
(* and recycling in bio.c) and a disk that writes one block atomically.    *)
(* Processes run file system calls between begin_op() and end_op(); the    *)
(* last one out commits, one disk write per step.  The machine may lose    *)
(* power between any two steps, recovery included.                         *)
(***************************************************************************)
EXTENDS Integers, Sequences, FiniteSets

CONSTANTS
  Caller,       \* processes making file system calls
  Blockno,      \* home block numbers
  Content,      \* contents of a block
  NoValue,      \* "not in the buffer cache"
  Nobody,       \* "not locked"
  MAXOPBLOCKS,  \* blocks one system call may write
  LOGSIZE,      \* blocks begin_op() hands out
  nlog          \* log.size, which counts the header block (mkfs.c)

ASSUME LogAssumption ==
  /\ {MAXOPBLOCKS, LOGSIZE, nlog} \subseteq Nat \ {0}
  /\ NoValue \notin Content
  /\ Nobody \notin Caller

VARIABLES
  home,         \* disk: the home location of every block
  logged,       \* disk: the log's data blocks
  head,         \* disk: the block numbers in the log header
  cache,        \* b->data of the buffer of every block, or NoValue
  owner,        \* b->lock
  pins,         \* references bpin() took
  lh,           \* log.lh.block[0 .. log.lh.n - 1]
  outstanding,  \* log.outstanding
  committing,   \* log.committing
  pc,           \* where each process is
  wrote,        \* blocks each running system call has logged
  phase,        \* where commit() or recover_from_log() is, or "panic"
  tail          \* its loop variable

disk   == <<home, logged, head>>
bufs   == <<cache, owner, pins>>
memory == <<lh, outstanding, committing>>
vars   == <<disk, bufs, memory, pc, wrote, phase, tail>>

\* The contents bread(b) returns.
Contents(b) == IF cache[b] = NoValue THEN home[b] ELSE cache[b]

Booted == phase \notin {"read_head", "recover", "recover_clear", "panic"}

\* Mutant: the new system call's own blocks are not counted.
Full_off_by_one == Len(lh) + outstanding * MAXOPBLOCKS > LOGSIZE

\* begin_op(): would one more system call overrun the log?
Full == Len(lh) + (outstanding + 1) * MAXOPBLOCKS > LOGSIZE

\* wakeup(&log), for processes whose pc is described by f.
Wakeup(f) == [p \in Caller |-> IF f[p] = "asleep" THEN "awake" ELSE f[p]]

\* A disk as mkfs leaves it: an empty log, and any file system.
Init ==
  /\ home \in [Blockno -> Content]
  /\ \E v \in Content : logged = [i \in 1 .. LOGSIZE |-> v]
  /\ head = <<>>
  /\ cache = [b \in Blockno |-> NoValue]
  /\ owner = [b \in Blockno |-> Nobody]
  /\ pins = [b \in Blockno |-> 0]
  /\ lh = <<>>
  /\ outstanding = 0
  /\ committing = FALSE
  /\ pc = [p \in Caller |-> "user"]
  /\ wrote = [p \in Caller |-> {}]
  /\ phase = "read_head"
  /\ tail = 0

-----------------------------------------------------------------------------
\* begin_op(): admitted.
BeginOp(p) ==
  /\ Booted
  /\ pc[p] \in {"user", "awake"}
  /\ ~committing /\ ~Full
  /\ outstanding' = outstanding + 1
  /\ pc' = [pc EXCEPT ![p] = "op"]
  /\ UNCHANGED <<disk, bufs, lh, committing, wrote, phase, tail>>

\* begin_op(): a commit is running, or the log might overflow.
BeginSleep(p) ==
  /\ Booted
  /\ pc[p] \in {"user", "awake"}
  /\ committing \/ Full
  /\ pc' = [pc EXCEPT ![p] = "asleep"]
  /\ UNCHANGED <<disk, bufs, memory, wrote, phase, tail>>

\* The system call locks a buffer with bread() and changes its data.  It
\* respects MAXOPBLOCKS, as its callers in fs.c and sysfile.c are to.
Modify(p, b, v) ==
  /\ Booted
  /\ pc[p] = "op"
  /\ owner[b] = Nobody
  /\ Cardinality(wrote[p] \cup {b}) <= MAXOPBLOCKS
  /\ cache' = [cache EXCEPT ![b] = v]
  /\ owner' = [owner EXCEPT ![b] = p]
  /\ pc' = [pc EXCEPT ![p] = "modified"]
  /\ UNCHANGED <<disk, pins, memory, wrote, phase, tail>>

TooBig == Len(lh) >= LOGSIZE \/ Len(lh) >= nlog - 1

\* log_write(b) and brelse(b): record the block unless it is absorbed.
LogWrite(p, b) ==
  /\ Booted
  /\ pc[p] = "modified"
  /\ owner[b] = p
  /\ ~TooBig /\ outstanding >= 1
  /\ IF \E i \in 1 .. Len(lh) : lh[i] = b
     THEN UNCHANGED <<lh, pins>>
     ELSE /\ lh' = Append(lh, b)
          /\ pins' = [pins EXCEPT ![b] = @ + 1]
  /\ wrote' = [wrote EXCEPT ![p] = @ \cup {b}]
  /\ owner' = [owner EXCEPT ![b] = Nobody]
  /\ pc' = [pc EXCEPT ![p] = "op"]
  /\ UNCHANGED <<disk, cache, outstanding, committing, phase, tail>>

\* panic() in log_write() or end_op().
Panic(p) ==
  /\ Booted
  /\ \/ pc[p] = "modified" /\ (TooBig \/ outstanding < 1)
     \/ pc[p] = "op" /\ committing
  /\ phase' = "panic"
  /\ UNCHANGED <<disk, bufs, memory, pc, wrote, tail>>

\* Mutant: only the end of a commit wakes the waiters.
EndOp_silent(p) ==
  /\ Booted
  /\ pc[p] = "op" /\ ~committing
  /\ outstanding # 1
  /\ outstanding' = outstanding - 1
  /\ pc' = [pc EXCEPT ![p] = "user"]
  /\ wrote' = [wrote EXCEPT ![p] = {}]
  /\ UNCHANGED <<disk, bufs, lh, committing, phase, tail>>

\* end_op() of a process that is not the last: let waiters try again.
EndOp(p) ==
  /\ Booted
  /\ pc[p] = "op" /\ ~committing
  /\ outstanding # 1
  /\ outstanding' = outstanding - 1
  /\ pc' = Wakeup([pc EXCEPT ![p] = "user"])
  /\ wrote' = [wrote EXCEPT ![p] = {}]
  /\ UNCHANGED <<disk, bufs, lh, committing, phase, tail>>

\* end_op() of the last process: it commits.
EndOpCommit(p) ==
  /\ Booted
  /\ pc[p] = "op" /\ ~committing
  /\ outstanding = 1
  /\ outstanding' = 0
  /\ committing' = TRUE
  /\ pc' = [pc EXCEPT ![p] = "commit"]
  /\ wrote' = [wrote EXCEPT ![p] = {}]
  /\ phase' = IF Len(lh) > 0 THEN "write_log" ELSE "done"
  /\ tail' = 0
  /\ UNCHANGED <<disk, bufs, lh>>

-----------------------------------------------------------------------------
\* write_log(): copy one modified block from the cache to the log.
WriteLog ==
  /\ phase = "write_log"
  /\ tail < Len(lh)
  /\ owner[lh[tail + 1]] = Nobody
  /\ logged' = [logged EXCEPT ![tail + 1] = Contents(lh[tail + 1])]
  /\ cache' = [cache EXCEPT ![lh[tail + 1]] = Contents(lh[tail + 1])]
  /\ tail' = tail + 1
  /\ UNCHANGED <<home, head, owner, pins, memory, pc, wrote, phase>>

\* Mutant: the header goes to disk before the log blocks.
WriteHead_early ==
  /\ phase = "write_log"
  /\ head' = lh
  /\ phase' = "install"
  /\ tail' = 0
  /\ UNCHANGED <<home, logged, bufs, memory, pc, wrote>>

\* write_head(): the real commit.
WriteHead ==
  /\ phase = "write_log"
  /\ tail = Len(lh)
  /\ head' = lh
  /\ phase' = "install"
  /\ tail' = 0
  /\ UNCHANGED <<home, logged, bufs, memory, pc, wrote>>

\* Mutant: the bunpin() is missing.
Install_pinned ==
  /\ phase \in {"install", "recover"}
  /\ tail < Len(lh)
  /\ home' = [home EXCEPT ![lh[tail + 1]] = logged[tail + 1]]
  /\ cache' = [cache EXCEPT ![lh[tail + 1]] = logged[tail + 1]]
  /\ tail' = tail + 1
  /\ UNCHANGED <<logged, head, owner, pins, memory, pc, wrote, phase>>

\* install_trans(): copy one block from the log to its home location.
Install ==
  /\ phase \in {"install", "recover"}
  /\ tail < Len(lh)
  /\ LET b == lh[tail + 1]
     IN /\ owner[b] = Nobody
        /\ home' = [home EXCEPT ![b] = logged[tail + 1]]
        /\ cache' = [cache EXCEPT ![b] = logged[tail + 1]]
        /\ pins' = IF phase = "install" THEN [pins EXCEPT ![b] = @ - 1] ELSE pins
  /\ tail' = tail + 1
  /\ UNCHANGED <<logged, head, owner, memory, pc, wrote, phase>>

\* Mutant: the log is erased with blocks still to install.
Installed_early ==
  /\ phase \in {"install", "recover"}
  /\ lh' = <<>>
  /\ phase' = IF phase = "install" THEN "clear" ELSE "recover_clear"
  /\ tail' = 0
  /\ UNCHANGED <<disk, bufs, outstanding, committing, pc, wrote>>

\* log.lh.n = 0, before the header is cleared.
Installed ==
  /\ phase \in {"install", "recover"}
  /\ tail = Len(lh)
  /\ lh' = <<>>
  /\ phase' = IF phase = "install" THEN "clear" ELSE "recover_clear"
  /\ tail' = 0
  /\ UNCHANGED <<disk, bufs, outstanding, committing, pc, wrote>>

\* write_head() with an empty header: erase the transaction.
ClearHead ==
  /\ phase \in {"clear", "recover_clear"}
  /\ head' = lh
  /\ phase' = IF phase = "clear" THEN "done" ELSE "idle"
  /\ UNCHANGED <<home, logged, bufs, memory, pc, wrote, tail>>

\* The tail of end_op(): the committer wakes up everybody and returns.
EndCommit(p) ==
  /\ phase = "done"
  /\ pc[p] = "commit"
  /\ committing' = FALSE
  /\ pc' = Wakeup([pc EXCEPT ![p] = "user"])
  /\ phase' = "idle"
  /\ UNCHANGED <<disk, bufs, lh, outstanding, wrote, tail>>

\* read_head(), the first step of recover_from_log().
ReadHead ==
  /\ phase = "read_head"
  /\ lh' = head
  /\ phase' = "recover"
  /\ tail' = 0
  /\ UNCHANGED <<disk, bufs, outstanding, committing, pc, wrote>>

-----------------------------------------------------------------------------
\* bread() and brelse() of a process that only reads.
Read(b) ==
  /\ Booted
  /\ owner[b] = Nobody
  /\ cache[b] = NoValue
  /\ cache' = [cache EXCEPT ![b] = home[b]]
  /\ UNCHANGED <<disk, owner, pins, memory, pc, wrote, phase, tail>>

\* bget() recycles a buffer nobody refers to.
Recycle(b) ==
  /\ phase # "panic"
  /\ owner[b] = Nobody /\ pins[b] = 0
  /\ cache[b] # NoValue
  /\ cache' = [cache EXCEPT ![b] = NoValue]
  /\ UNCHANGED <<disk, owner, pins, memory, pc, wrote, phase, tail>>

\* Power fails; the machine boots again with what is on the disk.
Crash ==
  /\ cache' = [b \in Blockno |-> NoValue]
  /\ owner' = [b \in Blockno |-> Nobody]
  /\ pins' = [b \in Blockno |-> 0]
  /\ lh' = <<>>
  /\ outstanding' = 0
  /\ committing' = FALSE
  /\ pc' = [p \in Caller |-> "user"]
  /\ wrote' = [p \in Caller |-> {}]
  /\ phase' = "read_head"
  /\ tail' = 0
  /\ UNCHANGED disk

CommitStep == WriteLog \/ WriteHead \/ Install \/ Installed \/ ClearHead \/ ReadHead

ProcStep(p) ==
  \/ BeginOp(p) \/ BeginSleep(p) \/ EndOp(p) \/ EndOpCommit(p) \/ EndCommit(p)
  \/ Panic(p)
  \/ \E b \in Blockno : LogWrite(p, b) \/ \E v \in Content : Modify(p, b, v)

Next ==
  \/ CommitStep
  \/ \E p \in Caller : ProcStep(p)
  \/ \E b \in Blockno : Read(b) \/ Recycle(b)
  \/ Crash

Spec == Init /\ [][Next]_vars

-----------------------------------------------------------------------------
\* What the disk holds once recovery has replayed a committed log.
Recovered ==
  [b \in Blockno |->
     IF \E i \in 1 .. Len(head) : head[i] = b
     THEN logged[CHOOSE i \in 1 .. Len(head) : head[i] = b]
     ELSE home[b]]

Recovering == phase \in {"read_head", "recover", "recover_clear"}

AD == INSTANCE AtomicDisk WITH
        Proc <- Caller, Block <- Blockno, Value <- Content,
        durable <- Recovered,
        current <- IF Recovering THEN Recovered
                   ELSE [b \in Blockno |-> Contents(b)],
        active <- {p \in Caller : pc[p] \in {"op", "modified"}}

\* The log implements an atomic disk: writing the header commits every system
\* call of the group at once, whatever the cache recycled and wherever power
\* failed, in recovery too.
Refines == AD!Spec

\* A commit is over before end_op() lets the next group in: with no system call
\* in progress the disk holds everything the finished ones wrote.
EndedIsDurable ==
  (phase = "idle" /\ outstanding = 0) =>
    \A b \in Blockno : Recovered[b] = Contents(b)

\* The log blocks begin_op() reserved and that are not used yet: the system call
\* p has used its first Cardinality(wrote[p]) of MAXOPBLOCKS.
Active == {p \in Caller : pc[p] \in {"op", "modified"}}
Unspent == {t \in Active \X (1 .. MAXOPBLOCKS) : t[2] > Cardinality(wrote[t[1]])}

\* What the admitted system calls may still write fits the log begin_op()
\* reserved for them, absorption and other calls' blocks included.
Reserved == ~Recovering => Len(lh) + Cardinality(Unspent) <= LOGSIZE

\* bpin() and bunpin() balance: the blocks of the open transaction that are not
\* yet installed are pinned, once each, and no other block is.
PinnedIffLogged ==
  (phase # "panic" /\ ~Recovering) =>
    \A b \in Blockno :
      pins[b] = Cardinality({i \in 1 .. Len(lh) :
                  lh[i] = b /\ (phase = "install" => i > tail)})

-----------------------------------------------------------------------------
\* What every step relies on, from which Refines, EndedIsDurable and PinnedIffLogged follow.
Committing == phase \in {"write_log", "install", "clear", "done"}
OneEach(s) == \A i, j \in 1 .. Len(s) : s[i] = s[j] => i = j

LogTypeOK ==
  /\ home \in [Blockno -> Content] /\ logged \in [1 .. LOGSIZE -> Content]
  /\ cache \in [Blockno -> Content \cup {NoValue}]
  /\ owner \in [Blockno -> Caller \cup {Nobody}] /\ pins \in [Blockno -> Nat]
  /\ lh \in Seq(Blockno) /\ Len(lh) <= LOGSIZE /\ OneEach(lh)
  /\ head \in Seq(Blockno) /\ Len(head) <= LOGSIZE /\ OneEach(head)
  /\ outstanding \in Nat /\ committing \in BOOLEAN /\ tail \in Nat
  /\ pc \in [Caller -> {"user", "asleep", "awake", "op", "modified", "commit"}]
  /\ phase \in {"read_head", "recover", "recover_clear", "idle", "panic",
                "write_log", "install", "clear", "done"}

\* outstanding counts the running system calls, and a buffer is locked by one of them.
CountInv ==
  /\ IsFiniteSet(Active) /\ outstanding = Cardinality(Active)
  /\ \A b, c \in Blockno : owner[b] # Nobody =>
       pc[owner[b]] = "modified" /\ (owner[c] = owner[b] => b = c)
  /\ phase # "panic" => committing = Committing
  /\ Committing \/ Recovering => outstanding = 0
  /\ phase = "idle" /\ outstanding = 0 => lh = <<>>

\* Block b of the open transaction has not reached its home location.
Pending(b) == \E i \in 1 .. Len(lh) : lh[i] = b /\ (phase = "install" => i > tail)

\* What is in the log and at home, phase by phase.
PhaseInv ==
  /\ phase \in {"idle", "write_log", "done"} => head = <<>>
  /\ phase \in {"clear", "done", "read_head", "recover_clear"} => lh = <<>>
  /\ phase \in {"install", "recover"} => head = lh
  /\ phase \in {"write_log", "install", "recover"} => tail <= Len(lh)
  /\ phase \in {"write_log", "install"} => \A i \in 1 .. Len(lh) :
       (phase = "install" \/ i <= tail) => logged[i] = Contents(lh[i])
  /\ phase \in {"install", "recover", "clear", "recover_clear"} => \A i \in 1 .. Len(head) :
       (phase \in {"install", "recover"} => i <= tail) => home[head[i]] = logged[i]

\* The cache differs from the disk only where a pin or a lock keeps the buffer.
CacheInv ==
  /\ phase # "panic" => \A b \in Blockno :
       Contents(b) # home[b] => ~Recovering /\ (owner[b] # Nobody \/ Pending(b))
  /\ phase # "panic" => \A b \in Blockno :
       pins[b] = IF ~Recovering /\ Pending(b) THEN 1 ELSE 0

LogInv == LogTypeOK /\ CountInv /\ PhaseInv /\ CacheInv

\* A running system call has logged at most MAXOPBLOCKS blocks, the one it has
\* locked included; they are all in the open transaction.
ReserveInv ==
  /\ wrote \in [Caller -> SUBSET Blockno]
  /\ \A p \in Caller :
       /\ IsFiniteSet(wrote[p]) /\ Cardinality(wrote[p]) <= MAXOPBLOCKS
       /\ p \notin Active => wrote[p] = {}
       /\ \A b \in wrote[p] : \E i \in 1 .. Len(lh) : lh[i] = b
  /\ \A b \in Blockno : owner[b] # Nobody =>
       Cardinality(wrote[owner[b]] \cup {b}) <= MAXOPBLOCKS
  /\ Reserved

\* No wakeup is lost: a process that sleeps in begin_op() is woken by the end of a
\* commit, or by an end_op() that leaves others running (they may never let the log
\* commit: each may begin its next call before the other ends).
SleepersWoken ==
  \A p \in Caller :
    (pc[p] = "asleep") ~> (pc[p] # "asleep" \/ phase = "panic")

\* begin_op() makes a system call that "might exhaust log space" wait, and
\* LOGSIZE is the "max data blocks in on-disk log": as long as every system call
\* writes at most MAXOPBLOCKS blocks, no transaction is too big.
NoPanic == phase # "panic"
=============================================================================
