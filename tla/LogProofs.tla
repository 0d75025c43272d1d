----------------------------- MODULE LogProofs -----------------------------
(***************************************************************************)
(* Proofs about the write-ahead log, for any number of processes, blocks   *)
(* and log sizes, and any number of crashes: LogInv is inductive, a        *)
(* finished group of system calls is durable, and pins balance.            *)
(***************************************************************************)
EXTENDS Log, FiniteSetTheorems, TLAPS

-----------------------------------------------------------------------------
(* Sequences *)

\* The empty sequence, and what is not empty.
LEMMA EmptySequence ==
  ASSUME NEW S
  PROVE  /\ <<>> \in Seq(S) /\ Len(<<>>) = 0
         /\ \A s \in Seq(S) : s # <<>> => Len(s) \in Nat \ {0}
  OBVIOUS

\* What Append() leaves.
LEMMA Appended ==
  ASSUME NEW S, NEW s \in Seq(S), NEW x \in S
  PROVE  /\ Append(s, x) \in Seq(S) /\ Len(Append(s, x)) = Len(s) + 1
         /\ \A k \in 1 .. Len(s) : Append(s, x)[k] = s[k]
         /\ Append(s, x)[Len(s) + 1] = x
  OBVIOUS

-----------------------------------------------------------------------------
(* What the counters say *)

\* The number of running system calls is zero exactly when none runs.
LEMMA Counted ==
  ASSUME LogInv
  PROVE  /\ outstanding = 0 => Active = {}
         /\ \A p \in Caller : pc[p] \in {"op", "modified"} => outstanding >= 1
<1>1. IsFiniteSet(Active) /\ outstanding = Cardinality(Active) /\ outstanding \in Nat
  BY DEF LogInv, CountInv, LogTypeOK
<1>2. Cardinality(Active) = 0 <=> Active = {}
  BY <1>1, FS_EmptySet
<1>3. \A p \in Caller : pc[p] \in {"op", "modified"} => Active # {}
  BY DEF Active
<1> QED BY <1>1, <1>2, <1>3

\* Nothing is locked during a commit or recovery.
LEMMA Quiescent ==
  ASSUME LogInv, Committing \/ Recovering
  PROVE  /\ outstanding = 0 /\ Active = {}
         /\ \A b \in Blockno : owner[b] = Nobody
         /\ \A p \in Caller : pc[p] \notin {"op", "modified"}
<1>1. outstanding = 0 /\ Active = {}
  BY Counted DEF LogInv, CountInv
<1>2. \A p \in Caller : pc[p] \notin {"op", "modified"}
  BY <1>1 DEF Active
<1>3. \A b \in Blockno : owner[b] = Nobody
  BY <1>2 DEF LogInv, CountInv, LogTypeOK
<1> QED BY <1>1, <1>2, <1>3

\* A system call runs only while nothing is being committed or recovered.
LEMMA Running ==
  ASSUME LogInv, Booted, NEW p \in Caller, pc[p] \in {"op", "modified"}
  PROVE  phase = "idle" /\ outstanding >= 1 /\ head = <<>> /\ ~committing
<1>1. outstanding >= 1
  BY Counted
<1>2. ~Committing
  BY Quiescent
<1>3. phase = "idle"
  BY <1>2 DEF Booted, Committing, LogInv, LogTypeOK
<1> QED BY <1>1, <1>2, <1>3 DEF LogInv, CountInv, PhaseInv

\* Who is counted is not affected by a step between other labels.
LEMMA SameActive ==
  ASSUME LogInv, outstanding' = outstanding,
         \A p \in Caller : pc'[p] \in {"op", "modified"} <=> pc[p] \in {"op", "modified"}
  PROVE  Active' = Active /\ IsFiniteSet(Active') /\ outstanding' = Cardinality(Active')
<1>1. Active' = Active
  BY DEF Active
<1> QED BY <1>1 DEF LogInv, CountInv

\* wakeup(&log) changes only the sleepers.
LEMMA WakeupFacts ==
  ASSUME NEW f \in [Caller -> {"user", "asleep", "awake", "op", "modified", "commit"}]
  PROVE  /\ Wakeup(f) \in [Caller -> {"user", "asleep", "awake", "op", "modified", "commit"}]
         /\ \A p \in Caller : Wakeup(f)[p] = IF f[p] = "asleep" THEN "awake" ELSE f[p]
  BY DEF Wakeup

\* The entries of the log's block lists.
LEMMA Entries ==
  ASSUME LogInv
  PROVE  /\ Len(lh) \in Nat /\ Len(lh) <= LOGSIZE /\ LOGSIZE \in Nat
         /\ \A i \in 1 .. Len(lh) : lh[i] \in Blockno /\ i \in 1 .. LOGSIZE
         /\ Len(head) \in Nat /\ Len(head) <= LOGSIZE
         /\ \A i \in 1 .. Len(head) : head[i] \in Blockno /\ i \in 1 .. LOGSIZE
         /\ \A i, j \in 1 .. Len(lh) : lh[i] = lh[j] => i = j
         /\ \A i, j \in 1 .. Len(head) : head[i] = head[j] => i = j
<1>1. LOGSIZE \in Nat
  BY LogAssumption
<1>2. /\ lh \in Seq(Blockno) /\ Len(lh) <= LOGSIZE /\ OneEach(lh)
      /\ head \in Seq(Blockno) /\ Len(head) <= LOGSIZE /\ OneEach(head)
  BY DEF LogInv, LogTypeOK
<1>3. Len(lh) \in Nat /\ Len(head) \in Nat
  BY <1>2
<1>4. /\ \A i \in 1 .. Len(lh) : lh[i] \in Blockno
      /\ \A i \in 1 .. Len(head) : head[i] \in Blockno
  BY <1>2
<1> QED BY <1>1, <1>2, <1>3, <1>4 DEF OneEach

-----------------------------------------------------------------------------
(* The inductive invariant: system calls *)

\* What is on disk and in the cache does not change when only labels do.
LEMMA FrameInv ==
  ASSUME LogInv, UNCHANGED <<disk, bufs, lh, phase, tail>>
  PROVE  PhaseInv' /\ CacheInv'
<1>1. UNCHANGED <<home, logged, head, cache, owner, pins, lh, phase, tail>>
  BY DEF disk, bufs
<1>2. /\ \A b : Contents(b)' = Contents(b) /\ Pending(b)' = Pending(b)
      /\ Recovering' = Recovering
  BY <1>1 DEF Contents, Pending, Recovering
<1>3. PhaseInv'
  BY <1>1, <1>2 DEF LogInv, PhaseInv
<1>4. CacheInv'
  BY <1>1, <1>2 DEF LogInv, CacheInv
<1> QED BY <1>3, <1>4

\* begin_op() counts the new system call in.
LEMMA BeginOpInv ==
  ASSUME LogInv, NEW p \in Caller, BeginOp(p)
  PROVE  LogInv'
<1>0. LogTypeOK /\ CountInv
  BY DEF LogInv
<1>u. /\ UNCHANGED <<disk, bufs, lh, committing, phase, tail>>
      /\ outstanding' = outstanding + 1 /\ ~committing /\ Booted
  BY DEF BeginOp
<1>p. /\ pc[p] \in {"user", "awake"} /\ pc'[p] = "op"
      /\ \A q \in Caller \ {p} : pc'[q] = pc[q]
  BY <1>0 DEF BeginOp, LogTypeOK
<1>t. LogTypeOK'
  BY <1>0, <1>u DEF BeginOp, LogTypeOK, disk, bufs
<1>a. Active' = Active \cup {p} /\ p \notin Active
  BY <1>p DEF Active
<1>n. IsFiniteSet(Active') /\ outstanding' = Cardinality(Active')
  BY <1>0, <1>u, <1>a, FS_AddElement DEF CountInv
<1>i. phase = "idle"
  BY <1>0, <1>u DEF CountInv, LogTypeOK, Committing, Booted
<1>c. CountInv'
  <2>1. \A b, c \in Blockno : owner[b] # Nobody =>
          pc'[owner[b]] = "modified" /\ (owner[c] = owner[b] => b = c)
    BY <1>0, <1>p DEF CountInv, LogTypeOK
  <2>2. outstanding' # 0
    BY <1>0, <1>u DEF LogTypeOK
  <2> QED BY <1>0, <1>u, <1>n, <1>i, <2>1, <2>2 DEF CountInv, Committing, Recovering, bufs
<1> QED BY <1>t, <1>c, <1>u, FrameInv DEF LogInv

\* begin_op() goes to sleep.
LEMMA BeginSleepInv ==
  ASSUME LogInv, NEW p \in Caller, BeginSleep(p)
  PROVE  LogInv'
<1>0. LogTypeOK /\ CountInv
  BY DEF LogInv
<1>u. UNCHANGED <<disk, bufs, lh, outstanding, committing, phase, tail>>
  BY DEF BeginSleep, memory
<1>p. /\ pc[p] \in {"user", "awake"} /\ pc'[p] = "asleep"
      /\ \A q \in Caller \ {p} : pc'[q] = pc[q]
  BY <1>0 DEF BeginSleep, LogTypeOK
<1>t. LogTypeOK'
  BY <1>0, <1>u DEF BeginSleep, LogTypeOK, disk, bufs
<1>n. IsFiniteSet(Active') /\ outstanding' = Cardinality(Active')
  BY <1>u, <1>p, SameActive
<1>c. CountInv'
  <2>1. \A b, c \in Blockno : owner[b] # Nobody =>
          pc'[owner[b]] = "modified" /\ (owner[c] = owner[b] => b = c)
    BY <1>0, <1>p DEF CountInv, LogTypeOK
  <2> QED BY <1>0, <1>u, <1>n, <2>1 DEF CountInv, Committing, Recovering, bufs
<1> QED BY <1>t, <1>c, <1>u, FrameInv DEF LogInv

\* end_op() of a process that is not the last: somebody is still counted.
LEMMA EndOpInv ==
  ASSUME LogInv, NEW p \in Caller, EndOp(p)
  PROVE  LogInv'
<1>0. LogTypeOK /\ CountInv
  BY DEF LogInv
<1>u. /\ UNCHANGED <<disk, bufs, lh, committing, phase, tail>>
      /\ outstanding' = outstanding - 1 /\ outstanding # 1 /\ Booted /\ pc[p] = "op"
  BY DEF EndOp
<1>i. phase = "idle" /\ outstanding >= 1 /\ ~committing
  BY <1>u, Running
<1>w. [pc EXCEPT ![p] = "user"] \in
        [Caller -> {"user", "asleep", "awake", "op", "modified", "commit"}]
  BY <1>0 DEF LogTypeOK
<1>p. /\ pc'[p] = "user"
      /\ \A q \in Caller \ {p} : pc'[q] = IF pc[q] = "asleep" THEN "awake" ELSE pc[q]
  BY <1>0, <1>w, WakeupFacts DEF EndOp, LogTypeOK
<1>t. LogTypeOK'
  <2>1. pc' \in [Caller -> {"user", "asleep", "awake", "op", "modified", "commit"}]
    BY <1>w, WakeupFacts DEF EndOp
  <2>2. outstanding' \in Nat
    BY <1>0, <1>u, <1>i DEF LogTypeOK
  <2> QED BY <1>0, <1>u, <2>1, <2>2 DEF LogTypeOK, disk, bufs
<1>a. Active' = Active \ {p} /\ p \in Active
  BY <1>p, <1>u DEF Active
<1>n. IsFiniteSet(Active') /\ outstanding' = Cardinality(Active')
  BY <1>0, <1>u, <1>a, FS_RemoveElement DEF CountInv
<1>c. CountInv'
  <2>1. \A b, c \in Blockno : owner[b] # Nobody =>
          pc'[owner[b]] = "modified" /\ (owner[c] = owner[b] => b = c)
    BY <1>0, <1>u, <1>p DEF CountInv, LogTypeOK
  <2>2. outstanding' # 0
    BY <1>0, <1>u DEF LogTypeOK
  <2> QED BY <1>0, <1>u, <1>n, <1>i, <2>1, <2>2 DEF CountInv, Committing, Recovering, bufs
<1> QED BY <1>t, <1>c, <1>u, FrameInv DEF LogInv

\* end_op() of the last process starts the commit: nobody is counted any more.
LEMMA EndOpCommitInv ==
  ASSUME LogInv, NEW p \in Caller, EndOpCommit(p)
  PROVE  LogInv'
<1>0. LogTypeOK /\ CountInv /\ PhaseInv /\ CacheInv
  BY DEF LogInv
<1>u. /\ UNCHANGED <<home, logged, head, cache, owner, pins, lh>>
      /\ outstanding' = 0 /\ outstanding = 1 /\ committing' = TRUE /\ Booted /\ pc[p] = "op"
      /\ phase' = IF Len(lh) > 0 THEN "write_log" ELSE "done"
      /\ tail' = 0
  BY DEF EndOpCommit, disk, bufs
<1>i. phase = "idle" /\ head = <<>>
  BY <1>u, Running
<1>p. pc'[p] = "commit" /\ \A q \in Caller \ {p} : pc'[q] = pc[q]
  BY <1>0 DEF EndOpCommit, LogTypeOK
<1>t. LogTypeOK'
  <2>1. pc' \in [Caller -> {"user", "asleep", "awake", "op", "modified", "commit"}]
    BY <1>0 DEF EndOpCommit, LogTypeOK
  <2> QED BY <1>0, <1>u, <2>1 DEF LogTypeOK
<1>a. Active' = Active \ {p} /\ p \in Active
  BY <1>p, <1>u DEF Active
<1>n. IsFiniteSet(Active') /\ outstanding' = Cardinality(Active')
  <2>1. IsFiniteSet(Active) /\ Cardinality(Active) = 1
    BY <1>0, <1>u DEF CountInv
  <2>2. IsFiniteSet(Active \ {p}) /\ Cardinality(Active \ {p}) = 1 - 1
    BY <1>a, <2>1, FS_RemoveElement
  <2> QED BY <1>u, <1>a, <2>2
<1>o. \A b \in Blockno : owner[b] = Nobody
  <2>1. Active' = {}
    BY <1>n, <1>u, FS_EmptySet
  <2>2. \A q \in Caller : pc[q] # "modified"
    BY <1>u, <1>p, <2>1 DEF Active
  <2>3. ASSUME NEW b \in Blockno PROVE owner[b] = Nobody
    <3>1. owner[b] \in Caller \cup {Nobody}
      BY <1>0 DEF LogTypeOK
    <3>2. owner[b] # Nobody => pc[owner[b]] = "modified"
      BY <1>0 DEF CountInv
    <3> QED BY ONLY <2>2, <3>1, <3>2
  <2> QED BY <2>3
<1>c. CountInv'
  BY <1>u, <1>n, <1>o DEF CountInv, Committing
<1>l. phase' = "done" => lh = <<>>
  <2>1. CASE Len(lh) > 0
    BY <1>u, <2>1
  <2>2. CASE ~(Len(lh) > 0)
    BY <2>2, <1>0, Entries, EmptySequence DEF LogTypeOK
  <2> QED BY <2>1, <2>2
<1>h. PhaseInv'
  BY <1>u, <1>i, <1>l, Entries DEF PhaseInv
<1>k. CacheInv'
  <2>1. \A b \in Blockno : Contents(b)' = Contents(b) /\ Pending(b)' = Pending(b)
    BY <1>u, <1>i DEF Contents, Pending
  <2> QED BY <1>0, <1>u, <1>i, <2>1 DEF CacheInv, Recovering
<1> QED BY <1>t, <1>c, <1>h, <1>k DEF LogInv

\* A system call locks a buffer and changes it.
LEMMA ModifyInv ==
  ASSUME LogInv, NEW p \in Caller, NEW b \in Blockno, NEW v \in Content, Modify(p, b, v)
  PROVE  LogInv'
<1>0. LogTypeOK /\ CountInv /\ PhaseInv /\ CacheInv
  BY DEF LogInv
<1>u. /\ UNCHANGED <<home, logged, head, pins, lh, outstanding, committing, phase, tail>>
      /\ owner[b] = Nobody /\ Booted /\ pc[p] = "op"
  BY DEF Modify, disk, memory
<1>i. phase = "idle" /\ outstanding >= 1 /\ head = <<>>
  BY <1>u, Running
<1>p. pc'[p] = "modified" /\ \A q \in Caller \ {p} : pc'[q] = pc[q]
  BY <1>0 DEF Modify, LogTypeOK
<1>b. /\ owner'[b] = p /\ cache'[b] = v
      /\ \A c \in Blockno \ {b} : owner'[c] = owner[c] /\ cache'[c] = cache[c]
  BY <1>0 DEF Modify, LogTypeOK
<1>t. LogTypeOK'
  BY <1>0, <1>u DEF Modify, LogTypeOK
<1>n. IsFiniteSet(Active') /\ outstanding' = Cardinality(Active')
  BY <1>u, <1>p, SameActive
<1>o. \A c \in Blockno : owner[c] # p
  BY <1>0, <1>u, LogAssumption DEF CountInv
<1>c. CountInv'
  <2>1. \A c, d \in Blockno : owner'[c] # Nobody =>
          pc'[owner'[c]] = "modified" /\ (owner'[d] = owner'[c] => c = d)
    BY <1>0, <1>p, <1>b, <1>o DEF CountInv, LogTypeOK
  <2> QED BY <1>0, <1>u, <1>i, <1>n, <2>1 DEF CountInv, Committing, Recovering
<1>h. PhaseInv'
  BY <1>0, <1>u, <1>i DEF PhaseInv
<1>k. CacheInv'
  <2>1. \A c \in Blockno : Pending(c)' = Pending(c)
    BY <1>u DEF Pending
  <2>2. \A c \in Blockno \ {b} : Contents(c)' = Contents(c)
    BY <1>u, <1>b DEF Contents
  <2>3. owner'[b] # Nobody
    BY <1>b, LogAssumption
  <2> QED BY <1>0, <1>u, <1>i, <1>b, <2>1, <2>2, <2>3 DEF CacheInv, Recovering
<1> QED BY <1>t, <1>c, <1>h, <1>k DEF LogInv

\* log_write() records a block once, with its pin, and brelse() unlocks it.
LEMMA LogWriteInv ==
  ASSUME LogInv, NEW p \in Caller, NEW b \in Blockno, LogWrite(p, b)
  PROVE  LogInv'
<1>0. LogTypeOK /\ CountInv /\ PhaseInv /\ CacheInv
  BY DEF LogInv
<1>u. /\ UNCHANGED <<home, logged, head, cache, outstanding, committing, phase, tail>>
      /\ owner[b] = p /\ Booted /\ pc[p] = "modified" /\ ~TooBig
  BY DEF LogWrite, disk
<1>i. phase = "idle" /\ outstanding >= 1 /\ head = <<>>
  BY <1>u, Running
<1>p. pc'[p] = "op" /\ \A q \in Caller \ {p} : pc'[q] = pc[q]
  BY <1>0 DEF LogWrite, LogTypeOK
<1>b. /\ owner' \in [Blockno -> Caller \cup {Nobody}] /\ owner'[b] = Nobody
      /\ \A c \in Blockno \ {b} : owner'[c] = owner[c]
  BY <1>0 DEF LogWrite, LogTypeOK
<1>e. /\ Len(lh) \in Nat /\ LOGSIZE \in Nat /\ Len(lh) < LOGSIZE
      /\ \A i \in 1 .. Len(lh) : lh[i] \in Blockno
      /\ \A i, j \in 1 .. Len(lh) : lh[i] = lh[j] => i = j
      /\ lh \in Seq(Blockno)
  BY <1>0, <1>u, Entries DEF TooBig, LogTypeOK
<1>l. /\ lh' \in Seq(Blockno) /\ Len(lh') <= LOGSIZE /\ OneEach(lh')
      /\ pins' \in [Blockno -> Nat]
      /\ \A c \in Blockno : Pending(c)' <=> Pending(c) \/ c = b
      /\ \A c \in Blockno : pins'[c] = IF Pending(c)' THEN 1 ELSE 0
  <2>k. \A c \in Blockno : pins[c] = IF Pending(c) THEN 1 ELSE 0
    BY <1>0, <1>i DEF CacheInv, Recovering
  <2>1. CASE \E i \in 1 .. Len(lh) : lh[i] = b
    <3>1. lh' = lh /\ pins' = pins
      BY <2>1 DEF LogWrite
    <3>2. Pending(b) /\ \A c \in Blockno : Pending(c)' <=> Pending(c)
      BY <2>1, <3>1, <1>u, <1>i DEF Pending
    <3> QED BY <1>0, <3>1, <3>2, <2>k DEF LogTypeOK, OneEach
  <2>2. CASE ~\E i \in 1 .. Len(lh) : lh[i] = b
    <3>1. lh' = Append(lh, b) /\ pins' = [pins EXCEPT ![b] = pins[b] + 1]
      BY <2>2 DEF LogWrite
    <3>2. /\ lh' \in Seq(Blockno) /\ Len(lh') = Len(lh) + 1 /\ lh'[Len(lh) + 1] = b
          /\ \A i \in 1 .. Len(lh) : lh'[i] = lh[i]
      BY <3>1, <1>e, Appended
    <3>3. OneEach(lh')
      BY <2>2, <3>2, <1>e DEF OneEach
    <3>4. \A c \in Blockno : Pending(c)' <=> Pending(c) \/ c = b
      BY <3>2, <1>e, <1>u, <1>i DEF Pending
    <3>5. ~Pending(b)
      BY <2>2 DEF Pending
    <3>6. pins' \in [Blockno -> Nat] /\ \A c \in Blockno : pins'[c] = IF Pending(c)' THEN 1 ELSE 0
      BY <1>0, <2>k, <3>1, <3>4, <3>5 DEF LogTypeOK
    <3> QED BY <1>e, <3>2, <3>3, <3>4, <3>6
  <2> QED BY <2>1, <2>2
<1>t. LogTypeOK'
  <2>1. pc' \in [Caller -> {"user", "asleep", "awake", "op", "modified", "commit"}]
    BY <1>0 DEF LogWrite, LogTypeOK
  <2> QED BY <1>0, <1>u, <1>b, <1>l, <2>1 DEF LogTypeOK
<1>n. IsFiniteSet(Active') /\ outstanding' = Cardinality(Active')
  BY <1>u, <1>p, SameActive
<1>c. CountInv'
  <2>1. \A c, d \in Blockno : owner'[c] # Nobody =>
          pc'[owner'[c]] = "modified" /\ (owner'[d] = owner'[c] => c = d)
    BY <1>0, <1>u, <1>p, <1>b DEF CountInv, LogTypeOK
  <2> QED BY <1>0, <1>u, <1>i, <1>n, <2>1 DEF CountInv, Committing, Recovering
<1>h. PhaseInv'
  BY <1>u, <1>i DEF PhaseInv
<1>k. CacheInv'
  <2>1. \A c \in Blockno : Contents(c)' = Contents(c)
    BY <1>u DEF Contents
  <2> QED BY <1>0, <1>u, <1>i, <1>b, <1>l, <2>1 DEF CacheInv, Recovering
<1> QED BY <1>t, <1>c, <1>h, <1>k DEF LogInv

\* panic() stops the machine; only a reboot follows.
LEMMA PanicInv ==
  ASSUME LogInv, NEW p \in Caller, Panic(p)
  PROVE  LogInv'
<1>0. LogTypeOK /\ CountInv
  BY DEF LogInv
<1>u. /\ UNCHANGED <<home, logged, head, cache, owner, pins, lh, outstanding, committing, pc, tail>>
      /\ phase' = "panic"
  BY DEF Panic, disk, bufs, memory
<1>t. LogTypeOK'
  BY <1>0, <1>u DEF LogTypeOK
<1>c. CountInv'
  BY <1>0, <1>u DEF CountInv, Active, Committing, Recovering
<1>h. PhaseInv' /\ CacheInv'
  BY <1>u DEF PhaseInv, CacheInv
<1> QED BY <1>t, <1>c, <1>h DEF LogInv

\* The committer wakes everybody up and returns.
LEMMA EndCommitInv ==
  ASSUME LogInv, NEW p \in Caller, EndCommit(p)
  PROVE  LogInv'
<1>0. LogTypeOK /\ CountInv /\ PhaseInv /\ CacheInv
  BY DEF LogInv
<1>u. /\ UNCHANGED <<home, logged, head, cache, owner, pins, lh, outstanding, tail>>
      /\ phase = "done" /\ phase' = "idle" /\ committing' = FALSE /\ pc[p] = "commit"
  BY DEF EndCommit, disk, bufs
<1>w. [pc EXCEPT ![p] = "user"] \in
        [Caller -> {"user", "asleep", "awake", "op", "modified", "commit"}]
  BY <1>0 DEF LogTypeOK
<1>p. /\ pc' \in [Caller -> {"user", "asleep", "awake", "op", "modified", "commit"}]
      /\ pc'[p] = "user"
      /\ \A q \in Caller \ {p} : pc'[q] = IF pc[q] = "asleep" THEN "awake" ELSE pc[q]
  BY <1>0, <1>w, WakeupFacts DEF EndCommit, LogTypeOK
<1>t. LogTypeOK'
  BY <1>0, <1>u, <1>p DEF LogTypeOK
<1>n. IsFiniteSet(Active') /\ outstanding' = Cardinality(Active')
  BY <1>u, <1>p, SameActive
<1>q. \A c \in Blockno : owner[c] = Nobody
  BY <1>u, Quiescent DEF Committing
<1>c. CountInv'
  <2>1. lh' = <<>> /\ \A c \in Blockno : owner'[c] = Nobody
    BY <1>0, <1>u, <1>q DEF PhaseInv
  <2>2. ~Committing' /\ ~Recovering'
    BY <1>u DEF Committing, Recovering
  <2>3. Committing' \in BOOLEAN
    BY DEF Committing
  <2> QED BY <1>u, <1>n, <2>1, <2>2, <2>3 DEF CountInv
<1>h. PhaseInv'
  BY <1>0, <1>u DEF PhaseInv
<1>k. CacheInv'
  <2>1. \A c \in Blockno : Contents(c)' = Contents(c) /\ Pending(c)' = Pending(c)
    BY <1>u DEF Contents, Pending
  <2> QED BY <1>0, <1>u, <2>1 DEF CacheInv, Recovering
<1> QED BY <1>t, <1>c, <1>h, <1>k DEF LogInv

-----------------------------------------------------------------------------
(* The inductive invariant: commit and recovery *)

\* The commit and the recovery steps count nobody and lock nothing.
LEMMA CommitCount ==
  ASSUME LogInv, Committing \/ Recovering, UNCHANGED <<owner, outstanding, committing, pc>>,
         Committing' = Committing,
         phase' # "panic", phase' = "idle" => lh' = <<>>
  PROVE  CountInv'
<1>1. IsFiniteSet(Active') /\ outstanding' = Cardinality(Active')
  BY SameActive
<1>2. outstanding' = 0 /\ \A b \in Blockno : owner'[b] = Nobody
  BY Quiescent
<1>3. phase # "panic"
  BY DEF Committing, Recovering
<1>4. committing' = Committing'
  BY <1>3 DEF LogInv, CountInv
<1> QED BY <1>1, <1>2, <1>4 DEF CountInv

\* write_log() copies a block from the cache, which keeps what it holds.
LEMMA WriteLogInv ==
  ASSUME LogInv, WriteLog
  PROVE  LogInv'
<1>0. LogTypeOK /\ CountInv /\ PhaseInv /\ CacheInv
  BY DEF LogInv
<1>u. /\ UNCHANGED <<home, head, owner, pins, lh, outstanding, committing, pc, phase>>
      /\ phase = "write_log" /\ tail < Len(lh) /\ tail' = tail + 1
  BY DEF WriteLog, memory
<1>e. /\ Len(lh) \in Nat /\ tail \in Nat /\ tail + 1 \in 1 .. Len(lh)
      /\ tail + 1 \in 1 .. LOGSIZE /\ lh[tail + 1] \in Blockno
  <2>1. tail + 1 \in 1 .. Len(lh) /\ tail \in Nat /\ Len(lh) \in Nat
    BY <1>0, <1>u, Entries DEF LogTypeOK
  <2> QED BY <2>1, Entries
<1>v. \A c \in Blockno : Contents(c) \in Content
  BY <1>0 DEF Contents, LogTypeOK
<1>k. \A c \in Blockno : Contents(c)' = Contents(c)
  <2>1. \A c \in Blockno : cache'[c] = IF c = lh[tail + 1] THEN Contents(c) ELSE cache[c]
    BY <1>0, <1>e DEF WriteLog, LogTypeOK
  <2> QED BY <1>u, <1>v, <2>1, LogAssumption DEF Contents
<1>l. \A i \in 1 .. LOGSIZE : logged'[i] = IF i = tail + 1 THEN Contents(lh[i]) ELSE logged[i]
  BY <1>0, <1>e DEF WriteLog, LogTypeOK
<1>t. LogTypeOK'
  <2>1. cache' \in [Blockno -> Content \cup {NoValue}] /\ logged' \in [1 .. LOGSIZE -> Content]
    BY <1>0, <1>e, <1>v DEF WriteLog, LogTypeOK
  <2> QED BY <1>0, <1>u, <1>e, <2>1 DEF LogTypeOK
<1>c. CountInv'
  BY <1>u, CommitCount DEF Committing
<1>h. PhaseInv'
  <2>1. \A i \in 1 .. Len(lh) : i <= tail + 1 => logged'[i] = Contents(lh[i])
    BY <1>0, <1>u, <1>e, <1>l, Entries DEF PhaseInv
  <2>2. \A i \in 1 .. Len(lh) : Contents(lh[i])' = Contents(lh[i])
    <3>1. \A i \in 1 .. Len(lh) : lh'[i] \in Blockno /\ lh'[i] = lh[i]
      BY <1>u, Entries
    <3> QED BY <1>k, <3>1, <1>u
  <2>3. tail' <= Len(lh')
    BY <1>u, <1>e
  <2> QED BY <1>0, <1>u, <2>1, <2>2, <2>3 DEF PhaseInv
<1>i. CacheInv'
  <2>1. \A c \in Blockno : Pending(c)' = Pending(c)
    BY <1>u DEF Pending
  <2> QED BY <1>0, <1>u, <1>k, <2>1 DEF CacheInv, Recovering
<1> QED BY <1>t, <1>c, <1>h, <1>i DEF LogInv

\* write_head() of a full log.
LEMMA WriteHeadInv ==
  ASSUME LogInv, WriteHead
  PROVE  LogInv'
<1>0. LogTypeOK /\ CountInv /\ PhaseInv /\ CacheInv
  BY DEF LogInv
<1>u. /\ UNCHANGED <<home, logged, cache, owner, pins, lh, outstanding, committing, pc>>
      /\ phase = "write_log" /\ phase' = "install" /\ tail = Len(lh) /\ tail' = 0 /\ head' = lh
  BY DEF WriteHead, bufs, memory
<1>t. LogTypeOK'
  BY <1>0, <1>u DEF LogTypeOK
<1>c. CountInv'
  BY <1>u, CommitCount DEF Committing
<1>k. \A c : Contents(c)' = Contents(c)
  BY <1>u DEF Contents
<1>h. PhaseInv'
  <2>1. \A i \in 1 .. Len(lh) : logged[i] = Contents(lh[i])
    BY <1>0, <1>u, Entries DEF PhaseInv
  <2> QED BY <1>u, <1>k, <2>1, Entries DEF PhaseInv
<1>i. CacheInv'
  <2>1. \A c \in Blockno : Pending(c)' = Pending(c)
    BY <1>u, Entries DEF Pending
  <2> QED BY <1>0, <1>u, <1>k, <2>1 DEF CacheInv, Recovering
<1> QED BY <1>t, <1>c, <1>h, <1>i DEF LogInv

\* install_trans() brings one block home and, in a commit, unpins it.
LEMMA InstallInv ==
  ASSUME LogInv, Install
  PROVE  LogInv'
<1>0. LogTypeOK /\ CountInv /\ PhaseInv /\ CacheInv
  BY DEF LogInv
<1>s. phase \in {"install", "recover"} /\ tail < Len(lh)
  BY DEF Install
<1>e. /\ Len(lh) \in Nat /\ tail \in Nat /\ tail + 1 \in 1 .. Len(lh)
      /\ tail + 1 \in 1 .. LOGSIZE /\ lh[tail + 1] \in Blockno /\ head = lh
  <2>1. tail + 1 \in 1 .. Len(lh) /\ tail \in Nat /\ Len(lh) \in Nat
    BY <1>0, <1>s, Entries DEF LogTypeOK
  <2>2. head = lh
    BY <1>0, <1>s DEF PhaseInv
  <2> QED BY <2>1, <2>2, Entries
<1>b. PICK b \in Blockno : b = lh[tail + 1]
  BY <1>e
<1>u. /\ UNCHANGED <<logged, head, owner, lh, outstanding, committing, pc, phase>>
      /\ phase \in {"install", "recover"} /\ tail < Len(lh) /\ tail' = tail + 1
      /\ home' = [home EXCEPT ![b] = logged[tail + 1]]
      /\ cache' = [cache EXCEPT ![b] = logged[tail + 1]]
      /\ pins' = IF phase = "install" THEN [pins EXCEPT ![b] = @ - 1] ELSE pins
  BY <1>b DEF Install, memory
<1>d. /\ home' \in [Blockno -> Content] /\ cache' \in [Blockno -> Content \cup {NoValue}]
      /\ home'[b] = logged[tail + 1] /\ cache'[b] = logged[tail + 1]
      /\ logged[tail + 1] \in Content
      /\ \A c \in Blockno \ {b} : home'[c] = home[c] /\ cache'[c] = cache[c]
  BY <1>0, <1>u, <1>e DEF LogTypeOK
<1>k. /\ Contents(b)' = logged[tail + 1]
      /\ \A c \in Blockno \ {b} : Contents(c)' = Contents(c)
      /\ phase = "install" => \A c \in Blockno : Contents(c)' = Contents(c)
  <2>1. Contents(b)' = logged[tail + 1]
    BY <1>d, <1>e, <1>u, LogAssumption DEF Contents
  <2>2. \A c \in Blockno \ {b} : Contents(c)' = Contents(c)
    BY <1>d DEF Contents
  <2>3. phase = "install" => Contents(b) = logged[tail + 1]
    BY <1>0, <1>b, <1>e DEF PhaseInv
  <2> QED BY <2>1, <2>2, <2>3
<1>o. /\ \A i \in 1 .. Len(lh) : lh[i] = b <=> i = tail + 1
      /\ \A c \in Blockno : owner[c] = Nobody
  <2>1. \A i \in 1 .. Len(lh) : lh[i] = b <=> i = tail + 1
    BY <1>b, <1>e, Entries
  <2> QED BY <2>1, <1>u, Quiescent DEF Committing, Recovering
<1>g. phase = "install" => Pending(b) /\ ~Pending(b)' /\
                           \A c \in Blockno \ {b} : Pending(c)' <=> Pending(c)
  <2> SUFFICES ASSUME phase = "install"
               PROVE  Pending(b) /\ ~Pending(b)' /\
                      \A c \in Blockno \ {b} : Pending(c)' <=> Pending(c)
    OBVIOUS
  <2>1. Pending(b)
    BY <1>b, <1>e DEF Pending
  <2>2. \A c \in Blockno : Pending(c)' <=> \E i \in 1 .. Len(lh) : lh[i] = c /\ i > tail + 1
    BY <1>u DEF Pending
  <2>3. ~Pending(b)'
    BY <1>e, <1>o, <2>2
  <2>4. ASSUME NEW c \in Blockno \ {b}
        PROVE  Pending(c)' <=> Pending(c)
    <3>1. \A i \in 1 .. Len(lh) : lh[i] = c => (i > tail + 1 <=> i > tail)
      BY <1>e, <1>o
    <3> QED BY <2>2, <3>1 DEF Pending
  <2> QED BY <2>1, <2>3, <2>4
<1>n. /\ pins' \in [Blockno -> Nat]
      /\ phase = "install" => \A c \in Blockno : pins'[c] = IF Pending(c)' THEN 1 ELSE 0
  <2>1. CASE phase = "install"
    <3>1. \A c \in Blockno : pins[c] = IF Pending(c) THEN 1 ELSE 0
      BY <1>0, <2>1 DEF CacheInv, Recovering
    <3>2. pins' = [pins EXCEPT ![b] = pins[b] - 1] /\ pins[b] = 1
      BY <1>u, <1>e, <1>g, <2>1, <3>1
    <3>3. pins' \in [Blockno -> Nat]
      BY <1>0, <3>2 DEF LogTypeOK
    <3>4. pins'[b] = 0 /\ \A c \in Blockno \ {b} : pins'[c] = pins[c]
      BY <1>0, <1>e, <3>2 DEF LogTypeOK
    <3> QED BY <3>1, <3>3, <3>4, <1>g, <2>1
  <2>2. CASE phase # "install"
    BY <1>0, <1>u, <2>2 DEF LogTypeOK
  <2> QED BY <2>1, <2>2
<1>t. LogTypeOK'
  BY <1>0, <1>u, <1>e, <1>d, <1>n DEF LogTypeOK
<1>c. CountInv'
  BY <1>u, CommitCount DEF Committing, Recovering
<1>h. PhaseInv'
  <2>1. \A i \in 1 .. Len(lh) : i <= tail + 1 => home'[lh[i]] = logged[i]
    <3>1. \A i \in 1 .. Len(lh) : i <= tail => home[lh[i]] = logged[i]
      BY <1>0, <1>u, <1>e DEF PhaseInv
    <3> QED BY <1>e, <1>d, <1>o, <3>1, Entries
  <2>2. phase = "install" => \A i \in 1 .. Len(lh) : logged[i] = Contents(lh[i])'
    <3>1. \A i \in 1 .. Len(lh) : lh[i] \in Blockno /\ lh'[i] = lh[i]
      BY <1>u, Entries
    <3>2. phase = "install" => \A i \in 1 .. Len(lh) : logged[i] = Contents(lh[i])
      BY <1>0 DEF PhaseInv
    <3> QED BY <1>k, <1>u, <3>1, <3>2
  <2>3. tail' <= Len(lh')
    BY <1>u, <1>e
  <2> QED BY <1>u, <1>e, <2>1, <2>2, <2>3 DEF PhaseInv
<1>i. CacheInv'
  <2>1. \A c \in Blockno : Contents(c)' # home'[c] => c # b /\ Contents(c) # home[c]
    BY <1>d, <1>k
  <2>2. CASE phase = "install"
    BY <1>0, <1>u, <1>g, <1>n, <2>1, <2>2 DEF CacheInv, Recovering
  <2>3. CASE phase = "recover"
    BY <1>0, <1>u, <2>1, <2>3 DEF CacheInv, Recovering
  <2> QED BY <1>u, <2>2, <2>3
<1> QED BY <1>t, <1>c, <1>h, <1>i DEF LogInv

\* The in-memory header is cleared when everything is at home.
LEMMA InstalledInv ==
  ASSUME LogInv, Installed
  PROVE  LogInv'
<1>0. LogTypeOK /\ CountInv /\ PhaseInv /\ CacheInv
  BY DEF LogInv
<1>u. /\ UNCHANGED <<home, logged, head, cache, owner, pins, outstanding, committing, pc>>
      /\ phase \in {"install", "recover"} /\ tail = Len(lh) /\ tail' = 0 /\ lh' = <<>>
      /\ phase' = IF phase = "install" THEN "clear" ELSE "recover_clear"
  BY DEF Installed, disk, bufs
<1>l. Len(<<>>) = 0 /\ <<>> \in Seq(Blockno) /\ OneEach(<<>>)
  BY EmptySequence DEF OneEach
<1>t. LogTypeOK'
  BY <1>0, <1>u, <1>l, Entries DEF LogTypeOK
<1>c. CountInv'
  BY <1>u, CommitCount DEF Committing, Recovering
<1>k. \A c : Contents(c)' = Contents(c)
  BY <1>u DEF Contents
<1>h. PhaseInv'
  <2>1. head = lh
    BY <1>0, <1>u DEF PhaseInv
  <2>2. \A i \in 1 .. Len(head) : home[head[i]] = logged[i]
    BY <1>0, <1>u, <2>1, Entries DEF PhaseInv
  <2> QED BY <1>u, <2>2 DEF PhaseInv
<1>i. CacheInv'
  <2>1. \A c : ~Pending(c)'
    BY <1>u, <1>l DEF Pending
  <2>2. phase = "install" => \A c \in Blockno : ~Pending(c)
    BY <1>u, Entries DEF Pending
  <2>3. \A c \in Blockno : owner[c] = Nobody
    BY <1>u, Quiescent DEF Committing, Recovering
  <2>4. CASE phase = "install"
    BY <1>0, <1>u, <1>k, <2>1, <2>2, <2>3, <2>4 DEF CacheInv, Recovering
  <2>5. CASE phase = "recover"
    BY <1>0, <1>u, <1>k, <2>5 DEF CacheInv, Recovering
  <2> QED BY <1>u, <2>4, <2>5
<1> QED BY <1>t, <1>c, <1>h, <1>i DEF LogInv

\* write_head() with the empty header.
LEMMA ClearHeadInv ==
  ASSUME LogInv, ClearHead
  PROVE  LogInv'
<1>0. LogTypeOK /\ CountInv /\ PhaseInv /\ CacheInv
  BY DEF LogInv
<1>u. /\ UNCHANGED <<home, logged, cache, owner, pins, lh, outstanding, committing, pc, tail>>
      /\ phase \in {"clear", "recover_clear"} /\ head' = lh
      /\ phase' = IF phase = "clear" THEN "done" ELSE "idle"
  BY DEF ClearHead, bufs, memory
<1>l. lh = <<>>
  BY <1>0, <1>u DEF PhaseInv
<1>t. LogTypeOK'
  BY <1>0, <1>u DEF LogTypeOK
<1>c. CountInv'
  BY <1>u, <1>l, CommitCount DEF Committing, Recovering
<1>k. \A c : Contents(c)' = Contents(c) /\ ~Pending(c) /\ ~Pending(c)'
  <2>1. Len(<<>>) = 0
    BY EmptySequence
  <2> QED BY <1>u, <1>l, <2>1 DEF Contents, Pending
<1>h. PhaseInv'
  BY <1>u, <1>l DEF PhaseInv
<1>i. CacheInv'
  <2>1. \A c \in Blockno : owner[c] = Nobody
    BY <1>u, Quiescent DEF Committing, Recovering
  <2>2. \A c \in Blockno : Contents(c)' = home'[c]
    BY <1>0, <1>u, <1>k, <2>1 DEF CacheInv
  <2>3. \A c \in Blockno : pins[c] = 0
    BY <1>0, <1>u, <1>k DEF CacheInv, Recovering, PhaseInv
  <2> QED BY <1>u, <1>k, <2>2, <2>3 DEF CacheInv
<1> QED BY <1>t, <1>c, <1>h, <1>i DEF LogInv

\* read_head() after a reboot.
LEMMA ReadHeadInv ==
  ASSUME LogInv, ReadHead
  PROVE  LogInv'
<1>0. LogTypeOK /\ CountInv /\ PhaseInv /\ CacheInv
  BY DEF LogInv
<1>u. /\ UNCHANGED <<home, logged, head, cache, owner, pins, outstanding, committing, pc>>
      /\ phase = "read_head" /\ phase' = "recover" /\ tail' = 0 /\ lh' = head
  BY DEF ReadHead, disk, bufs
<1>t. LogTypeOK'
  BY <1>0, <1>u DEF LogTypeOK
<1>c. CountInv'
  BY <1>u, CommitCount DEF Committing, Recovering
<1>h. PhaseInv'
  BY <1>u, Entries DEF PhaseInv
<1>i. CacheInv'
  <2>1. \A c : Contents(c)' = Contents(c)
    BY <1>u DEF Contents
  <2> QED BY <1>0, <1>u, <2>1 DEF CacheInv, Recovering
<1> QED BY <1>t, <1>c, <1>h, <1>i DEF LogInv

\* Filling or recycling a buffer that holds what the disk holds changes nothing.
LEMMA SameContents ==
  ASSUME LogInv, UNCHANGED <<disk, owner, pins, memory, pc, phase, tail>>,
         cache' \in [Blockno -> Content \cup {NoValue}],
         \A c \in Blockno : Contents(c)' = Contents(c)
  PROVE  LogInv'
<1>0. LogTypeOK /\ CountInv /\ PhaseInv /\ CacheInv
  BY DEF LogInv
<1>u. UNCHANGED <<home, logged, head, owner, pins, lh, outstanding, committing, pc, phase, tail>>
  BY DEF disk, memory
<1>t. LogTypeOK'
  BY <1>0, <1>u DEF LogTypeOK
<1>c. CountInv'
  BY <1>0, <1>u DEF CountInv, Active, Committing, Recovering
<1>h. PhaseInv'
  <2>1. \A i \in 1 .. Len(lh) : Contents(lh[i])' = Contents(lh[i])
    <3>1. \A i \in 1 .. Len(lh) : lh[i] \in Blockno /\ lh'[i] = lh[i]
      BY <1>u, Entries
    <3> QED BY <3>1, <1>u
  <2> QED BY <1>0, <1>u, <2>1 DEF PhaseInv
<1>i. CacheInv'
  <2>1. \A c \in Blockno : Pending(c)' = Pending(c)
    BY <1>u DEF Pending
  <2> QED BY <1>0, <1>u, <2>1 DEF CacheInv, Recovering
<1> QED BY <1>t, <1>c, <1>h, <1>i DEF LogInv

\* bread() fills a buffer from the disk.
LEMMA ReadKeeps ==
  ASSUME LogInv, NEW b \in Blockno, Read(b)
  PROVE  /\ UNCHANGED <<disk, owner, pins, memory, pc, phase, tail>>
         /\ cache' \in [Blockno -> Content \cup {NoValue}]
         /\ \A c \in Blockno : Contents(c)' = Contents(c)
<1>1. LogTypeOK
  BY DEF LogInv
<1>2. /\ UNCHANGED <<disk, owner, pins, memory, pc, phase, tail>> /\ home' = home
      /\ cache[b] = NoValue /\ cache' = [cache EXCEPT ![b] = home[b]]
  BY DEF Read, disk
<1>3. cache' \in [Blockno -> Content \cup {NoValue}]
  BY <1>1, <1>2 DEF LogTypeOK
<1>4. \A c \in Blockno : Contents(c)' = Contents(c)
  BY <1>1, <1>2, LogAssumption DEF LogTypeOK, Contents
<1> QED BY <1>2, <1>3, <1>4

\* bget() recycles only buffers that hold what the disk holds: the others are
\* pinned or locked.
LEMMA RecycleKeeps ==
  ASSUME LogInv, NEW b \in Blockno, Recycle(b)
  PROVE  /\ UNCHANGED <<disk, owner, pins, memory, pc, phase, tail>>
         /\ cache' \in [Blockno -> Content \cup {NoValue}]
         /\ \A c \in Blockno : Contents(c)' = Contents(c)
<1>1. LogTypeOK /\ CacheInv
  BY DEF LogInv
<1>2. /\ UNCHANGED <<disk, owner, pins, memory, pc, phase, tail>> /\ home' = home
      /\ owner[b] = Nobody /\ pins[b] = 0 /\ phase # "panic"
      /\ cache' = [cache EXCEPT ![b] = NoValue]
  BY DEF Recycle, disk
<1>3. cache' \in [Blockno -> Content \cup {NoValue}]
  BY <1>1, <1>2 DEF LogTypeOK
<1>4. Contents(b) = home[b]
  BY <1>1, <1>2 DEF CacheInv
<1>5. \A c \in Blockno : Contents(c)' = Contents(c)
  BY <1>1, <1>2, <1>4 DEF LogTypeOK, Contents
<1> QED BY <1>2, <1>3, <1>5

\* Memory after a reboot, with a readable log on the disk.
Fresh ==
  /\ home \in [Blockno -> Content] /\ logged \in [1 .. LOGSIZE -> Content]
  /\ head \in Seq(Blockno) /\ Len(head) <= LOGSIZE /\ OneEach(head)
  /\ cache = [b \in Blockno |-> NoValue] /\ owner = [b \in Blockno |-> Nobody]
  /\ pins = [b \in Blockno |-> 0] /\ lh = <<>> /\ outstanding = 0 /\ committing = FALSE
  /\ pc = [p \in Caller |-> "user"] /\ phase = "read_head" /\ tail = 0

\* A reboot starts with an empty memory, whatever is on the disk.
LEMMA BootInv == Fresh => LogInv
<1> SUFFICES ASSUME Fresh PROVE LogInv
  OBVIOUS
<1>l. Len(<<>>) = 0 /\ <<>> \in Seq(Blockno) /\ OneEach(<<>>) /\ LOGSIZE \in Nat
  BY EmptySequence, LogAssumption DEF OneEach
<1>1. LogTypeOK
  <2>1. /\ cache \in [Blockno -> Content \cup {NoValue}]
        /\ owner \in [Blockno -> Caller \cup {Nobody}] /\ pins \in [Blockno -> Nat]
        /\ pc \in [Caller -> {"user", "asleep", "awake", "op", "modified", "commit"}]
    BY DEF Fresh
  <2>2. lh \in Seq(Blockno) /\ Len(lh) <= LOGSIZE /\ OneEach(lh)
    BY <1>l DEF Fresh
  <2>3. outstanding \in Nat /\ committing \in BOOLEAN /\ tail \in Nat
    BY DEF Fresh
  <2> QED BY <2>1, <2>2, <2>3 DEF Fresh, LogTypeOK
<1>2. CountInv
  <2>1. Active = {}
    BY DEF Active, Fresh
  <2>2. ~Committing /\ Committing \in BOOLEAN
    BY DEF Committing, Fresh
  <2>3. committing = Committing
    BY <2>2 DEF Fresh
  <2>4. \A b \in Blockno : owner[b] = Nobody
    BY DEF Fresh
  <2>5. IsFiniteSet(Active) /\ outstanding = Cardinality(Active)
    BY <2>1, FS_EmptySet DEF Fresh
  <2> QED BY <2>2, <2>3, <2>4, <2>5 DEF CountInv, Fresh
<1>3. PhaseInv
  BY DEF PhaseInv, Fresh
<1>4. CacheInv
  BY DEF CacheInv, Contents, Recovering, Fresh
<1> QED BY <1>1, <1>2, <1>3, <1>4 DEF LogInv

\* Power fails.
LEMMA CrashInv ==
  ASSUME LogInv, Crash
  PROVE  LogInv'
<1>1. Fresh'
  BY DEF LogInv, LogTypeOK, Crash, disk, Fresh
<1> QED BY <1>1, BootInv, PTL

\* What mkfs leaves is an empty log.
LEMMA LogInvInit == Init => LogInv
<1> SUFFICES ASSUME Init PROVE LogInv
  OBVIOUS
<1>1. Len(<<>>) = 0 /\ <<>> \in Seq(Blockno) /\ OneEach(<<>>) /\ LOGSIZE \in Nat
  BY EmptySequence, LogAssumption DEF OneEach
<1>2. Fresh
  BY <1>1 DEF Init, Fresh
<1> QED BY <1>2, BootInv

\* Every step of a system call, of a commit, of recovery and of the cache, and
\* every crash, preserves the invariant.
LEMMA LogStep == LogInv /\ [Next]_vars => LogInv'
<1> SUFFICES ASSUME LogInv, [Next]_vars PROVE LogInv'
  OBVIOUS
<1>1. CASE UNCHANGED vars
  <2>1. UNCHANGED <<disk, owner, pins, memory, pc, phase, tail>> /\ cache' = cache /\ home' = home
    BY <1>1 DEF vars, bufs, disk
  <2>2. cache' \in [Blockno -> Content \cup {NoValue}]
    BY <2>1 DEF LogInv, LogTypeOK
  <2>3. \A c \in Blockno : Contents(c)' = Contents(c)
    BY <2>1 DEF Contents
  <2> QED BY <2>1, <2>2, <2>3, SameContents
<1>2. CASE CommitStep
  BY <1>2, WriteLogInv, WriteHeadInv, InstallInv, InstalledInv, ClearHeadInv, ReadHeadInv
  DEF CommitStep
<1>3. ASSUME NEW p \in Caller, ProcStep(p)
      PROVE  LogInv'
  BY <1>3, BeginOpInv, BeginSleepInv, EndOpInv, EndOpCommitInv, EndCommitInv, PanicInv,
     LogWriteInv, ModifyInv DEF ProcStep
<1>4. ASSUME NEW b \in Blockno, Read(b) \/ Recycle(b)
      PROVE  LogInv'
  <2>1. /\ UNCHANGED <<disk, owner, pins, memory, pc, phase, tail>>
        /\ cache' \in [Blockno -> Content \cup {NoValue}]
        /\ \A c \in Blockno : Contents(c)' = Contents(c)
    BY <1>4, ReadKeeps, RecycleKeeps
  <2> QED BY <2>1, SameContents
<1>5. CASE Crash
  BY <1>5, CrashInv
<1> QED BY <1>1, <1>2, <1>3, <1>4, <1>5 DEF Next

\* The inductive invariant of the log holds in every state.
THEOREM LogInvariant == Spec => []LogInv
  BY LogInvInit, LogStep, PTL DEF Spec

-----------------------------------------------------------------------------
(* The reservation: begin_op() hands out MAXOPBLOCKS log blocks per call    *)

\* n system calls have at most n * MAXOPBLOCKS unused blocks between them.
LEMMA Tokens ==
  ASSUME NEW A, IsFiniteSet(A), NEW f
  PROVE  LET U == {t \in A \X (1 .. MAXOPBLOCKS) : t[2] > Cardinality(f[t[1]])}
         IN  /\ IsFiniteSet(U) /\ Cardinality(U) \in Nat
             /\ Cardinality(U) <= Cardinality(A) * MAXOPBLOCKS
<1> DEFINE B == 1 .. MAXOPBLOCKS
           U == {t \in A \X B : t[2] > Cardinality(f[t[1]])}
<1>1. IsFiniteSet(B) /\ Cardinality(B) = MAXOPBLOCKS
  <2>1. MAXOPBLOCKS \in Nat \ {0} /\ MAXOPBLOCKS \in Int /\ 1 \in Int
    BY LogAssumption
  <2>2. IsFiniteSet(B) /\ Cardinality(B) = IF 1 > MAXOPBLOCKS THEN 0 ELSE MAXOPBLOCKS - 1 + 1
    BY <2>1, FS_Interval
  <2> QED BY <2>1, <2>2
<1>2. U \in SUBSET (A \X B)
  OBVIOUS
<1> HIDE DEF B
<1>3. IsFiniteSet(A \X B) /\ Cardinality(A \X B) = Cardinality(A) * Cardinality(B)
  BY <1>1, FS_Product
<1> HIDE DEF U
<1>4. IsFiniteSet(U) /\ Cardinality(U) <= Cardinality(A \X B) /\ Cardinality(U) \in Nat
  BY <1>2, <1>3, FS_Subset, FS_CardinalityType
<1>5. /\ IsFiniteSet(U) /\ Cardinality(U) \in Nat
      /\ Cardinality(U) <= Cardinality(A) * MAXOPBLOCKS
  BY <1>1, <1>3, <1>4
<1> QED BY <1>5 DEF U, B

\* A step that changes neither the open transaction nor who may write to it.
LEMMA ReserveSame ==
  ASSUME LogInv, ReserveInv, UNCHANGED <<wrote, lh, owner>>, Active' = Active,
         Recovering => Recovering'
  PROVE  ReserveInv'
<1>1. Unspent' = Unspent
  BY DEF Unspent
<1>2. Reserved'
  BY <1>1 DEF ReserveInv, Reserved
<1> QED BY <1>2 DEF ReserveInv

\* With no system call running nothing is reserved and nothing has been used.
LEMMA ReserveQuiet ==
  ASSUME LogTypeOK', Active' = {}, \A b \in Blockno : owner'[b] = Nobody,
         wrote' \in [Caller -> SUBSET Blockno], \A p \in Caller : wrote'[p] = {}
  PROVE  ReserveInv'
<1>1. IsFiniteSet({}) /\ Cardinality({}) = 0 /\ MAXOPBLOCKS \in Nat
  BY FS_EmptySet, LogAssumption
<1>2. Unspent' = {}
  BY DEF Unspent
<1>3. Reserved'
  <2>1. Len(lh') <= LOGSIZE /\ Len(lh') \in Nat
    BY DEF LogTypeOK
  <2> QED BY <1>1, <1>2, <2>1 DEF Reserved
<1>4. \A p \in Caller : /\ IsFiniteSet(wrote'[p]) /\ Cardinality(wrote'[p]) <= MAXOPBLOCKS
                        /\ \A b \in wrote'[p] : \E i \in 1 .. Len(lh') : lh'[i] = b
  <2>1. 0 <= MAXOPBLOCKS
    BY <1>1
  <2> QED BY ONLY <1>1, <2>1, \A p \in Caller : wrote'[p] = {}
<1> QED BY <1>3, <1>4 DEF ReserveInv

\* While a commit or recovery runs nobody has written to a new transaction.
LEMMA ReserveCommit ==
  ASSUME LogInv, ReserveInv, LogInv', Committing \/ Recovering,
         UNCHANGED <<wrote, owner, pc>>
  PROVE  ReserveInv'
<1>1. Active = {} /\ \A b \in Blockno : owner[b] = Nobody
  BY Quiescent
<1>2. Active' = {}
  BY <1>1 DEF Active
<1>3. wrote \in [Caller -> SUBSET Blockno] /\ \A p \in Caller : wrote[p] = {}
  BY <1>1 DEF ReserveInv
<1>4. LogTypeOK'
  BY DEF LogInv
<1> QED BY <1>1, <1>2, <1>3, <1>4, ReserveQuiet

\* begin_op() admits a system call only when its MAXOPBLOCKS blocks fit, whatever
\* the calls before it have used.
LEMMA BeginOpReserve ==
  ASSUME LogInv, ReserveInv, LogInv', NEW p \in Caller, BeginOp(p)
  PROVE  ReserveInv'
<1>0. LogTypeOK /\ CountInv
  BY DEF LogInv
<1>u. /\ UNCHANGED <<owner, lh, wrote, phase>> /\ outstanding' = outstanding + 1 /\ ~Full
  BY DEF BeginOp, bufs
<1>p. pc'[p] = "op" /\ \A q \in Caller \ {p} : pc'[q] = pc[q]
  BY <1>0 DEF BeginOp, LogTypeOK
<1>a. \A q \in Caller : q \notin Active' => q \notin Active
  BY <1>p DEF Active
<1>c. IsFiniteSet(Active') /\ outstanding' = Cardinality(Active')
  BY DEF LogInv, CountInv
<1>1. /\ Cardinality(Unspent') \in Nat
      /\ Cardinality(Unspent') <= Cardinality(Active') * MAXOPBLOCKS
  BY <1>c, Tokens DEF Unspent
<1>2. Len(lh) + (outstanding + 1) * MAXOPBLOCKS <= LOGSIZE
  <2>1. /\ Len(lh) \in Nat /\ outstanding \in Nat /\ MAXOPBLOCKS \in Nat /\ LOGSIZE \in Nat
        /\ (outstanding + 1) * MAXOPBLOCKS \in Nat
    BY <1>0, LogAssumption DEF LogTypeOK
  <2>2. ~(Len(lh) + (outstanding + 1) * MAXOPBLOCKS > LOGSIZE)
    BY <1>u DEF Full
  <2> DEFINE m == (outstanding + 1) * MAXOPBLOCKS
  <2> HIDE DEF m
  <2>3. m \in Nat /\ ~(Len(lh) + m > LOGSIZE)
    BY <2>1, <2>2 DEF m
  <2>4. Len(lh) + m <= LOGSIZE
    BY <2>1, <2>3
  <2> QED BY <2>4 DEF m
<1>3. Len(lh') + Cardinality(Unspent') <= LOGSIZE
  <2> DEFINE m == (outstanding + 1) * MAXOPBLOCKS
  <2>1. Cardinality(Unspent') <= m
    BY <1>1, <1>u, <1>c
  <2>2. m \in Nat /\ Len(lh) + m <= LOGSIZE /\ Len(lh) \in Nat /\ LOGSIZE \in Nat
    BY <1>0, <1>2, LogAssumption DEF LogTypeOK
  <2> HIDE DEF m
  <2> QED BY <1>1, <1>u, <2>1, <2>2
<1> QED BY <1>u, <1>a, <1>3 DEF ReserveInv, Reserved

\* end_op() gives up what the call did not use.
LEMMA EndOpReserve ==
  ASSUME LogInv, ReserveInv, LogInv', NEW p \in Caller, EndOp(p)
  PROVE  ReserveInv'
<1>0. LogTypeOK /\ CountInv
  BY DEF LogInv
<1>u. /\ UNCHANGED <<owner, lh, phase>> /\ pc[p] = "op"
  BY DEF EndOp, bufs
<1>w. /\ wrote' \in [Caller -> SUBSET Blockno] /\ wrote'[p] = {}
      /\ \A q \in Caller \ {p} : wrote'[q] = wrote[q]
  BY DEF EndOp, ReserveInv
<1>p. /\ pc'[p] = "user"
      /\ \A q \in Caller \ {p} : pc'[q] = IF pc[q] = "asleep" THEN "awake" ELSE pc[q]
  <2>1. [pc EXCEPT ![p] = "user"] \in
          [Caller -> {"user", "asleep", "awake", "op", "modified", "commit"}]
    BY <1>0 DEF LogTypeOK
  <2> QED BY <1>0, <2>1, WakeupFacts DEF EndOp, LogTypeOK
<1>a. Active' = Active \ {p}
  BY <1>p, <1>u DEF Active
<1>1. IsFiniteSet(Unspent) /\ Cardinality(Unspent) \in Nat
  BY <1>0, Tokens DEF Unspent, CountInv
<1>2. Unspent' \in SUBSET Unspent
  <2>1. \A q \in Active' : q \in Active /\ wrote'[q] = wrote[q]
    BY <1>a, <1>w DEF Active
  <2> QED BY <2>1 DEF Unspent
<1>3. Cardinality(Unspent') <= Cardinality(Unspent) /\ Cardinality(Unspent') \in Nat
  BY <1>1, <1>2, FS_Subset, FS_CardinalityType
<1>4. Reserved'
  BY <1>0, <1>u, <1>1, <1>3, LogAssumption DEF ReserveInv, Reserved, Recovering, LogTypeOK
<1>5. ASSUME NEW q \in Caller
      PROVE  /\ IsFiniteSet(wrote'[q]) /\ Cardinality(wrote'[q]) <= MAXOPBLOCKS
             /\ q \notin Active' => wrote'[q] = {}
             /\ \A b \in wrote'[q] : \E i \in 1 .. Len(lh') : lh'[i] = b
  <2>1. IsFiniteSet({}) /\ Cardinality({}) <= MAXOPBLOCKS
    <3>1. IsFiniteSet({}) /\ Cardinality({}) = 0 /\ MAXOPBLOCKS \in Nat
      BY FS_EmptySet, LogAssumption
    <3> QED BY <3>1
  <2>2. CASE q = p
    BY <1>w, <2>1, <2>2
  <2>3. CASE q # p
    <3>1. wrote'[q] = wrote[q] /\ (q \notin Active' => q \notin Active)
      BY <1>w, <1>a, <2>3
    <3> QED BY <1>u, <3>1 DEF ReserveInv
  <2> QED BY <2>2, <2>3
<1>6. \A b \in Blockno : owner'[b] # Nobody =>
        Cardinality(wrote'[owner'[b]] \cup {b}) <= MAXOPBLOCKS
  <2>1. \A b \in Blockno : owner[b] # Nobody => owner[b] \in Caller \ {p}
    BY <1>0, <1>u DEF CountInv, LogTypeOK
  <2> QED BY <1>u, <1>w, <2>1 DEF ReserveInv
<1> QED BY <1>w, <1>4, <1>5, <1>6 DEF ReserveInv

\* The block a system call locks is one of its MAXOPBLOCKS.
LEMMA ModifyReserve ==
  ASSUME LogInv, ReserveInv, NEW p \in Caller, NEW b \in Blockno, NEW v \in Content,
         Modify(p, b, v)
  PROVE  ReserveInv'
<1>0. LogTypeOK /\ CountInv
  BY DEF LogInv
<1>u. /\ UNCHANGED <<lh, phase, wrote>> /\ pc[p] = "op"
      /\ Cardinality(wrote[p] \cup {b}) <= MAXOPBLOCKS
  BY DEF Modify, memory
<1>p. pc'[p] = "modified" /\ \A q \in Caller \ {p} : pc'[q] = pc[q]
  BY <1>0 DEF Modify, LogTypeOK
<1>b. owner'[b] = p /\ \A c \in Blockno \ {b} : owner'[c] = owner[c]
  BY <1>0 DEF Modify, LogTypeOK
<1>a. Active' = Active
  BY <1>p, <1>u DEF Active
<1>1. Unspent' = Unspent
  BY <1>u, <1>a DEF Unspent
<1>2. Reserved'
  BY <1>1, <1>u DEF ReserveInv, Reserved, Recovering
<1>3. \A c \in Blockno : owner'[c] # Nobody =>
        Cardinality(wrote'[owner'[c]] \cup {c}) <= MAXOPBLOCKS
  BY <1>u, <1>b DEF ReserveInv
<1> QED BY <1>u, <1>a, <1>2, <1>3 DEF ReserveInv

\* log_write() uses one reserved block of the call for a block that is new in the
\* transaction; an absorbed block makes the transaction no longer.
LEMMA LogWriteReserve ==
  ASSUME LogInv, ReserveInv, NEW p \in Caller, NEW b \in Blockno, LogWrite(p, b)
  PROVE  ReserveInv'
<1>0. LogTypeOK /\ CountInv
  BY DEF LogInv
<1>u. /\ UNCHANGED <<phase>> /\ pc[p] = "modified" /\ owner[b] = p /\ Booted
  BY DEF LogWrite
<1>p. pc'[p] = "op" /\ \A q \in Caller \ {p} : pc'[q] = pc[q]
  BY <1>0 DEF LogWrite, LogTypeOK
<1>b. owner'[b] = Nobody /\ \A c \in Blockno \ {b} : owner'[c] = owner[c]
  BY <1>0 DEF LogWrite, LogTypeOK
<1>w. /\ wrote' \in [Caller -> SUBSET Blockno] /\ wrote'[p] = wrote[p] \cup {b}
      /\ \A q \in Caller \ {p} : wrote'[q] = wrote[q]
  BY DEF LogWrite, ReserveInv
<1>a. Active' = Active /\ p \in Active
  BY <1>p, <1>u DEF Active
<1>f. /\ IsFiniteSet(wrote[p]) /\ Cardinality(wrote[p]) \in Nat
      /\ IsFiniteSet(wrote'[p]) /\ Cardinality(wrote'[p]) \in Nat
      /\ Cardinality(wrote'[p]) = IF b \in wrote[p] THEN Cardinality(wrote[p])
                                                   ELSE Cardinality(wrote[p]) + 1
      /\ Cardinality(wrote'[p]) <= MAXOPBLOCKS
  <2>1. IsFiniteSet(wrote[p])
    BY DEF ReserveInv
  <2>2. p # Nobody /\ Cardinality(wrote[p] \cup {b}) <= MAXOPBLOCKS
    BY <1>u, LogAssumption DEF ReserveInv
  <2> DEFINE W == wrote[p]
  <2> HIDE DEF W
  <2>3. /\ IsFiniteSet(W) => IsFiniteSet(W \cup {b}) /\ Cardinality(W) \in Nat
        /\ IsFiniteSet(W) => Cardinality(W \cup {b}) = IF b \in W THEN Cardinality(W)
                                                                ELSE Cardinality(W) + 1
    BY FS_AddElement, FS_CardinalityType
  <2> QED BY <1>w, <2>1, <2>2, <2>3 DEF W
<1>n. /\ IsFiniteSet(Unspent) /\ Cardinality(Unspent) \in Nat
      /\ Len(lh) \in Nat /\ LOGSIZE \in Nat /\ MAXOPBLOCKS \in Nat
  <2>1. IsFiniteSet(Active)
    BY <1>0 DEF CountInv
  <2>2. IsFiniteSet(Unspent) /\ Cardinality(Unspent) \in Nat
    BY <2>1, Tokens DEF Unspent
  <2> QED BY <1>0, <2>2, LogAssumption DEF LogTypeOK
<1>r. ~Recovering /\ Len(lh) + Cardinality(Unspent) <= LOGSIZE
  BY <1>u DEF Booted, Recovering, ReserveInv, Reserved
<1>l. /\ lh \in Seq(Blockno)
      /\ \A i \in 1 .. Len(lh) : i \in 1 .. Len(lh') /\ lh'[i] = lh[i]
      /\ \E i \in 1 .. Len(lh') : lh'[i] = b
  <2>1. CASE \E i \in 1 .. Len(lh) : lh[i] = b
    BY <2>1, <1>0 DEF LogWrite, LogTypeOK
  <2>2. CASE ~\E i \in 1 .. Len(lh) : lh[i] = b
    <3>1. lh' = Append(lh, b) /\ lh \in Seq(Blockno)
      BY <2>2, <1>0 DEF LogWrite, LogTypeOK
    <3>2. /\ Len(Append(lh, b)) = Len(lh) + 1 /\ Append(lh, b)[Len(lh) + 1] = b
          /\ \A i \in 1 .. Len(lh) : Append(lh, b)[i] = lh[i]
      BY <3>1, Appended
    <3>3. Len(lh) + 1 \in 1 .. Len(lh') /\ lh'[Len(lh) + 1] = b
      BY ONLY <1>n, <3>1, <3>2
    <3>4. \A i \in 1 .. Len(lh) : i \in 1 .. Len(lh') /\ lh'[i] = lh[i]
      BY ONLY <1>n, <3>1, <3>2
    <3> QED BY <3>1, <3>3, <3>4
  <2> QED BY <2>1, <2>2
<1>1. Reserved'
  <2>1. CASE \E i \in 1 .. Len(lh) : lh[i] = b
    <3>1. lh' = lh
      BY <2>1 DEF LogWrite
    <3>2. Unspent' \in SUBSET Unspent
      <4>1. \A q \in Active : \A k \in 1 .. MAXOPBLOCKS :
              k > Cardinality(wrote'[q]) => k > Cardinality(wrote[q])
        <5>1. \A k \in 1 .. MAXOPBLOCKS :
                k > Cardinality(wrote'[p]) => k > Cardinality(wrote[p])
          BY <1>f, <1>n
        <5> QED BY <1>w, <5>1 DEF Active
      <4> QED BY <1>a, <4>1 DEF Unspent
    <3>3. Cardinality(Unspent') <= Cardinality(Unspent) /\ Cardinality(Unspent') \in Nat
      BY <1>n, <3>2, FS_Subset, FS_CardinalityType
    <3> QED BY <1>n, <1>r, <3>1, <3>3 DEF Reserved
  <2>2. CASE ~\E i \in 1 .. Len(lh) : lh[i] = b
    <3>1. Len(lh') = Len(lh) + 1
      BY <2>2, <1>l DEF LogWrite
    <3>2. b \notin wrote[p]
      BY <2>2 DEF ReserveInv
    <3> DEFINE x == <<p, Cardinality(wrote[p]) + 1>>
    <3>3. Cardinality(wrote'[p]) = Cardinality(wrote[p]) + 1
      BY <1>f, <3>2
    <3>4. x \in Unspent
      <4>1. /\ Cardinality(wrote[p]) + 1 \in 1 .. MAXOPBLOCKS
            /\ Cardinality(wrote[p]) + 1 > Cardinality(wrote[p])
        BY <1>f, <1>n, <3>3
      <4> QED BY <1>a, <4>1 DEF Unspent
    <3>5. Unspent' = Unspent \ {x}
      <4>1. \A q \in Active : \A k \in 1 .. MAXOPBLOCKS :
              k > Cardinality(wrote'[q]) <=>
                (k > Cardinality(wrote[q]) /\ <<q, k>> # x)
        <5>1. ASSUME NEW k \in 1 .. MAXOPBLOCKS
              PROVE  k > Cardinality(wrote'[p]) <=>
                       (k > Cardinality(wrote[p]) /\ k # Cardinality(wrote[p]) + 1)
          BY <1>f, <1>n, <3>3
        <5> QED BY <1>w, <5>1 DEF Active
      <4> QED BY <1>a, <4>1 DEF Unspent
    <3>6. Cardinality(Unspent \ {x}) = Cardinality(Unspent) - 1
      <4> HIDE DEF x
      <4> QED BY <1>n, <3>4, FS_RemoveElement
    <3> QED BY <1>n, <1>r, <3>1, <3>5, <3>6 DEF Reserved
  <2> QED BY <2>1, <2>2
<1>2. \A q \in Caller : /\ IsFiniteSet(wrote'[q]) /\ Cardinality(wrote'[q]) <= MAXOPBLOCKS
                        /\ q \notin Active' => wrote'[q] = {}
                        /\ \A c \in wrote'[q] : \E i \in 1 .. Len(lh') : lh'[i] = c
  BY <1>w, <1>a, <1>f, <1>l DEF ReserveInv
<1>3. \A c \in Blockno : owner'[c] # Nobody =>
        Cardinality(wrote'[owner'[c]] \cup {c}) <= MAXOPBLOCKS
  <2>1. \A c \in Blockno : owner'[c] # Nobody => owner'[c] = owner[c] /\ owner[c] \in Caller \ {p}
    BY <1>0, <1>u, <1>b, LogAssumption DEF CountInv, LogTypeOK
  <2> QED BY <1>w, <2>1 DEF ReserveInv
<1> QED BY <1>w, <1>1, <1>2, <1>3 DEF ReserveInv

\* The steps that leave the transaction and its writers alone.
LEMMA OtherReserve ==
  ASSUME LogInv, ReserveInv, NEW p \in Caller,
         BeginSleep(p) \/ Panic(p) \/ EndCommit(p)
  PROVE  ReserveInv'
<1>0. LogTypeOK
  BY DEF LogInv
<1>1. CASE BeginSleep(p)
  <2>1. UNCHANGED <<wrote, lh, owner, phase>>
    BY <1>1 DEF BeginSleep, bufs, memory
  <2>2. Active' = Active
    BY <1>0, <1>1 DEF BeginSleep, LogTypeOK, Active
  <2> QED BY <2>1, <2>2, ReserveSame DEF Recovering
<1>2. CASE Panic(p)
  <2>1. UNCHANGED <<wrote, lh, owner, pc>> /\ ~Recovering
    BY <1>2 DEF Panic, bufs, memory, Booted, Recovering
  <2>2. Active' = Active
    BY <2>1 DEF Active
  <2> QED BY <2>1, <2>2, ReserveSame
<1>3. CASE EndCommit(p)
  <2>1. UNCHANGED <<wrote, lh, owner>> /\ ~Recovering /\ pc[p] = "commit"
    BY <1>3 DEF EndCommit, bufs, Recovering
  <2>2. [pc EXCEPT ![p] = "user"] \in
          [Caller -> {"user", "asleep", "awake", "op", "modified", "commit"}]
    BY <1>0 DEF LogTypeOK
  <2>3. /\ pc'[p] = "user"
        /\ \A q \in Caller \ {p} : pc'[q] = IF pc[q] = "asleep" THEN "awake" ELSE pc[q]
    BY <1>0, <1>3, <2>2, WakeupFacts DEF EndCommit, LogTypeOK
  <2>4. Active' = Active
    BY <2>1, <2>3 DEF Active
  <2> QED BY <2>1, <2>4, ReserveSame
<1> QED BY <1>1, <1>2, <1>3

\* The last end_op() leaves nothing reserved.
LEMMA EndOpCommitReserve ==
  ASSUME LogInv, ReserveInv, LogInv', NEW p \in Caller, EndOpCommit(p)
  PROVE  ReserveInv'
<1>0. LogTypeOK /\ LogTypeOK' /\ CountInv'
  BY DEF LogInv
<1>1. IsFiniteSet(Active') /\ Cardinality(Active') = 0
  BY <1>0 DEF EndOpCommit, CountInv
<1>2. Active' = {}
  BY <1>1, FS_EmptySet
<1>3. \A b \in Blockno : owner'[b] = Nobody
  BY <1>0, <1>2 DEF CountInv, LogTypeOK, Active
<1>4. /\ wrote' \in [Caller -> SUBSET Blockno] /\ wrote'[p] = {}
      /\ \A q \in Caller \ {p} : wrote'[q] = wrote[q]
  BY DEF EndOpCommit, ReserveInv
<1>5. \A q \in Caller \ {p} : q \notin Active
  <2>1. \A q \in Caller \ {p} : pc'[q] = pc[q]
    BY <1>0 DEF EndOpCommit, LogTypeOK
  <2> QED BY <1>2, <2>1 DEF Active
<1>6. \A q \in Caller : wrote'[q] = {}
  BY <1>4, <1>5 DEF ReserveInv
<1> QED BY <1>0, <1>2, <1>3, <1>4, <1>6, ReserveQuiet

\* Commit and recovery run while nothing is reserved.
LEMMA CommitReserve ==
  ASSUME LogInv, ReserveInv, LogInv', CommitStep
  PROVE  ReserveInv'
<1>1. Committing \/ Recovering
  BY DEF CommitStep, WriteLog, WriteHead, Install, Installed, ClearHead, ReadHead,
     Committing, Recovering
<1>2. UNCHANGED <<wrote, owner, pc>>
  BY DEF CommitStep, WriteLog, WriteHead, Install, Installed, ClearHead, ReadHead, bufs
<1> QED BY <1>1, <1>2, ReserveCommit

\* A reboot forgets the reservations with the calls that held them.
LEMMA CrashReserve ==
  ASSUME LogInv', Crash
  PROVE  ReserveInv'
<1>1. Active' = {}
  BY DEF Crash, Active
<1>2. LogTypeOK'
  BY DEF LogInv
<1> QED BY <1>1, <1>2, ReserveQuiet DEF Crash

\* The reservation holds when the machine is switched on.
LEMMA ReserveInit == Init => ReserveInv
<1> SUFFICES ASSUME Init PROVE ReserveInv
  OBVIOUS
<1>1. IsFiniteSet({}) /\ Cardinality({}) = 0 /\ MAXOPBLOCKS \in Nat
  BY FS_EmptySet, LogAssumption
<1>2. Reserved
  BY DEF Init, Reserved, Recovering
<1> QED BY <1>1, <1>2 DEF Init, ReserveInv

\* Every step keeps the reservation.
LEMMA ReserveStep == LogInv /\ ReserveInv /\ LogInv' /\ [Next]_vars => ReserveInv'
<1> SUFFICES ASSUME LogInv, ReserveInv, LogInv', [Next]_vars PROVE ReserveInv'
  OBVIOUS
<1>1. CASE UNCHANGED vars \/ \E b \in Blockno : Read(b) \/ Recycle(b)
  <2>1. UNCHANGED <<wrote, lh, owner, pc, phase>>
    BY <1>1 DEF vars, bufs, memory, Read, Recycle
  <2>2. Active' = Active
    BY <2>1 DEF Active
  <2> QED BY <2>1, <2>2, ReserveSame DEF Recovering
<1>2. CASE CommitStep
  BY <1>2, CommitReserve
<1>3. ASSUME NEW p \in Caller, ProcStep(p)
      PROVE  ReserveInv'
  BY <1>3, BeginOpReserve, EndOpReserve, EndOpCommitReserve, OtherReserve,
     LogWriteReserve, ModifyReserve DEF ProcStep
<1>4. CASE Crash
  BY <1>4, CrashReserve
<1> QED BY <1>1, <1>2, <1>3, <1>4 DEF Next

\* What the admitted system calls may still write fits the log, for any number of
\* callers and any sizes: begin_op()'s test is enough, absorption included.
THEOREM LogSpaceReserved == Spec => []Reserved
<1>1. Init => LogInv /\ ReserveInv
  BY LogInvInit, ReserveInit
<1>2. LogInv /\ ReserveInv /\ [Next]_vars => (LogInv /\ ReserveInv)'
  BY LogStep, ReserveStep
<1>3. ReserveInv => Reserved
  BY DEF ReserveInv
<1> QED BY <1>1, <1>2, <1>3, PTL DEF Spec

-----------------------------------------------------------------------------
(* What recovery would find on the disk *)

RecoveredShape ==
  /\ Recovered \in [Blockno -> Content]
  /\ \A i \in 1 .. Len(head) : Recovered[head[i]] = logged[i]
  /\ \A b \in Blockno : (\A i \in 1 .. Len(head) : head[i] # b) => Recovered[b] = home[b]
  /\ head = <<>> => Recovered = home

\* A block of the committed log is recovered from the log, any other from home.
LEMMA RecoveredFacts == LogInv => RecoveredShape
<1> SUFFICES ASSUME LogInv PROVE RecoveredShape
  OBVIOUS
<1>t. home \in [Blockno -> Content] /\ logged \in [1 .. LOGSIZE -> Content]
  BY DEF LogInv, LogTypeOK
<1>1. ASSUME NEW i \in 1 .. Len(head)
      PROVE  Recovered[head[i]] = logged[i]
  <2> DEFINE j == CHOOSE k \in 1 .. Len(head) : head[k] = head[i]
  <2>1. j \in 1 .. Len(head) /\ head[j] = head[i]
    OBVIOUS
  <2>2. j = i
    BY <2>1, Entries
  <2>3. Recovered[head[i]] = logged[j]
    BY Entries DEF Recovered
  <2> QED BY <2>2, <2>3
<1>2. ASSUME NEW b \in Blockno, \A i \in 1 .. Len(head) : head[i] # b
      PROVE  Recovered[b] = home[b]
  BY <1>2 DEF Recovered
<1>3. \A b \in Blockno : Recovered[b] \in Content
  <2> TAKE b \in Blockno
  <2>1. CASE \E i \in 1 .. Len(head) : head[i] = b
    <3>1. PICK i \in 1 .. Len(head) : head[i] = b
      BY <2>1
    <3> QED BY <1>t, <1>1, <3>1, Entries
  <2>2. CASE ~\E i \in 1 .. Len(head) : head[i] = b
    BY <1>t, <1>2, <2>2
  <2> QED BY <2>1, <2>2
<1>4. Recovered \in [Blockno -> Content]
  <2>1. Recovered = [b \in Blockno |-> Recovered[b]]
    BY DEF Recovered
  <2> QED BY <1>3, <2>1
<1>5. head = <<>> => Recovered = home
  <2> SUFFICES ASSUME head = <<>> PROVE Recovered = home
    OBVIOUS
  <2>1. Len(head) = 0
    BY EmptySequence
  <2>2. \A b \in Blockno : Recovered[b] = home[b]
    BY <1>2, <2>1
  <2> QED BY <1>t, <1>4, <2>2
<1> QED BY <1>1, <1>2, <1>4, <1>5 DEF RecoveredShape

\* With no system call in progress and no commit, the disk holds everything the
\* finished system calls wrote.
THEOREM FinishedIsDurable == Spec => []EndedIsDurable
<1>1. LogInv => EndedIsDurable
  <2> SUFFICES ASSUME LogInv, phase = "idle", outstanding = 0, NEW b \in Blockno
               PROVE  Recovered[b] = Contents(b)
    BY DEF EndedIsDurable
  <2>1. lh = <<>> /\ head = <<>>
    BY DEF LogInv, CountInv, PhaseInv
  <2>2. Recovered = home
    BY <2>1, RecoveredFacts DEF RecoveredShape
  <2>3. owner[b] = Nobody
    BY Counted DEF LogInv, CountInv, LogTypeOK, Active
  <2>4. ~Pending(b)
    BY <2>1, EmptySequence DEF Pending
  <2> QED BY <2>2, <2>3, <2>4 DEF LogInv, CacheInv
<1> QED BY <1>1, LogInvariant, PTL

\* Each block of the open transaction that is not yet installed is pinned once,
\* and no other block is.
THEOREM PinsBalance == Spec => []PinnedIffLogged
<1>1. LogInv => PinnedIffLogged
  <2> SUFFICES ASSUME LogInv, phase # "panic", ~Recovering, NEW b \in Blockno
               PROVE  pins[b] = Cardinality({i \in 1 .. Len(lh) :
                        lh[i] = b /\ (phase = "install" => i > tail)})
    BY DEF PinnedIffLogged
  <2> DEFINE S == {i \in 1 .. Len(lh) : lh[i] = b /\ (phase = "install" => i > tail)}
  <2>1. pins[b] = IF Pending(b) THEN 1 ELSE 0
    BY DEF LogInv, CacheInv
  <2>2. CASE Pending(b)
    <3>1. PICK i \in 1 .. Len(lh) : lh[i] = b /\ (phase = "install" => i > tail)
      BY <2>2 DEF Pending
    <3>2. S = {i}
      BY <3>1, Entries
    <3>3. Cardinality(S) = 1
      BY <3>2, FS_Singleton
    <3> QED BY <2>1, <2>2, <3>3
  <2>3. CASE ~Pending(b)
    <3>1. S = {}
      BY <2>3 DEF Pending
    <3>2. Cardinality(S) = 0
      BY <3>1, FS_EmptySet
    <3> QED BY <2>1, <2>3, <3>2
  <2> QED BY <2>2, <2>3
<1> QED BY <1>1, LogInvariant, PTL

-----------------------------------------------------------------------------
(* log.c implements AtomicDisk: each step maps to a step of the atomic disk or *)
(* changes nothing of it. *)


\* What the running system sees.
Current == IF Recovering THEN Recovered ELSE [b \in Blockno |-> Contents(b)]

\* The contents seen are those of the blocks.
LEMMA SameCurrent ==
  ASSUME Recovering' <=> Recovering, Recovered' = Recovered,
         ~Recovering => \A b \in Blockno : Contents(b)' = Contents(b)
  PROVE  Current' = Current
<1>1. CASE Recovering
  BY <1>1 DEF Current
<1>2. CASE ~Recovering
  <2>1. [b \in Blockno |-> Contents(b)]' = [b \in Blockno |-> Contents(b)]
    BY <1>2
  <2> QED BY <1>2, <2>1 DEF Current
<1> QED BY <1>1, <1>2

\* What recovery would find depends on the disk only.
LEMMA SameRecovered ==
  ASSUME UNCHANGED disk
  PROVE  Recovered' = Recovered
  BY DEF disk, Recovered

\* The initial states are states of the atomic disk.
LEMMA ADInit == Init => AD!Init
<1> SUFFICES ASSUME Init PROVE AD!Init
  OBVIOUS
<1>1. RecoveredShape
  BY LogInvInit, RecoveredFacts
<1>2. Recovering /\ Active = {}
  BY DEF Init, Recovering, Active
<1> QED BY <1>1, <1>2 DEF AD!Init, RecoveredShape, Active

\* begin_op() begins a system call and end_op() ends it.
LEMMA ADBeginEnd ==
  ASSUME LogInv, NEW p \in Caller, BeginOp(p) \/ EndOp(p) \/ EndOpCommit(p)
  PROVE  AD!Next
<1>0. LogTypeOK
  BY DEF LogInv
<1>1. UNCHANGED <<disk, bufs>> /\ Recovered' = Recovered
  <2>1. UNCHANGED <<disk, bufs>>
    BY DEF BeginOp, EndOp, EndOpCommit
  <2> QED BY <2>1, SameRecovered
<1>2. ~Recovering /\ ~Recovering'
  BY DEF BeginOp, EndOp, EndOpCommit, Booted, Recovering
<1>3. Current' = Current
  <2>1. \A b \in Blockno : Contents(b)' = Contents(b)
    BY <1>1 DEF disk, bufs, Contents
  <2> QED BY <1>1, <1>2, <2>1, SameCurrent
<1>4. CASE BeginOp(p)
  <2>1. p \notin Active /\ Active' = Active \cup {p}
    BY <1>0, <1>4 DEF BeginOp, LogTypeOK, Active
  <2>2. AD!Begin(p)
    BY <1>1, <1>3, <2>1 DEF AD!Begin, Active, Current
  <2> QED BY <2>2 DEF AD!Next
<1>5. CASE EndOp(p) \/ EndOpCommit(p)
  <2>1. p \in Active /\ Active' = Active \ {p}
    <3>1. CASE EndOp(p)
      <4>1. [pc EXCEPT ![p] = "user"] \in
              [Caller -> {"user", "asleep", "awake", "op", "modified", "commit"}]
        BY <1>0 DEF LogTypeOK
      <4>2. /\ pc'[p] = "user"
            /\ \A q \in Caller \ {p} : pc'[q] = IF pc[q] = "asleep" THEN "awake" ELSE pc[q]
        BY <1>0, <3>1, <4>1, WakeupFacts DEF EndOp, LogTypeOK
      <4> QED BY <3>1, <4>2 DEF EndOp, Active
    <3>2. CASE EndOpCommit(p)
      BY <1>0, <3>2 DEF EndOpCommit, LogTypeOK, Active
    <3> QED BY <1>5, <3>1, <3>2
  <2>2. AD!End(p)
    BY <1>1, <1>3, <2>1 DEF AD!End, Active, Current
  <2> QED BY <2>2 DEF AD!Next
<1> QED BY <1>4, <1>5

\* A changed buffer is a write of the system call.
LEMMA ADModify ==
  ASSUME LogInv, NEW p \in Caller, NEW b \in Blockno, NEW v \in Content, Modify(p, b, v)
  PROVE  AD!Next
<1>0. LogTypeOK
  BY DEF LogInv
<1>1. UNCHANGED disk /\ Recovered' = Recovered
  BY SameRecovered DEF Modify
<1>2. ~Recovering /\ ~Recovering'
  BY DEF Modify, Booted, Recovering
<1>3. p \in Active /\ Active' = Active
  BY <1>0 DEF Modify, LogTypeOK, Active
<1>4. Contents(b)' = v /\ \A c \in Blockno \ {b} : Contents(c)' = Contents(c)
  BY <1>0, <1>1, LogAssumption DEF Modify, LogTypeOK, Contents, disk
<1>5. Current' = [Current EXCEPT ![b] = v]
  <2>1. Current' = [c \in Blockno |-> Contents(c)'] /\ Current = [c \in Blockno |-> Contents(c)]
    BY <1>2 DEF Current
  <2> QED BY <1>4, <2>1
<1>6. AD!Write(p, b, v)
  BY <1>1, <1>3, <1>5 DEF AD!Write, Active, Current
<1> QED BY <1>6 DEF AD!Next

\* The write of the header commits everything written so far.
LEMMA ADWriteHead ==
  ASSUME LogInv, LogInv', WriteHead
  PROVE  AD!Next
<1>0. LogTypeOK /\ PhaseInv /\ CacheInv
  BY DEF LogInv
<1>u. /\ UNCHANGED <<home, logged, cache, owner, lh, pc>>
      /\ phase = "write_log" /\ phase' = "install" /\ tail = Len(lh) /\ head' = lh
  BY DEF WriteHead, bufs, memory
<1>q. Active = {} /\ Active' = {} /\ \A b \in Blockno : owner[b] = Nobody
  <2>1. Active = {} /\ \A b \in Blockno : owner[b] = Nobody
    BY <1>u, Quiescent DEF Committing
  <2> QED BY <1>u, <2>1 DEF Active
<1>r. RecoveredShape'
  BY RecoveredFacts, PTL
<1>1. \A b \in Blockno : Contents(b)' = Contents(b)
  BY <1>u DEF Contents
<1>2. ~Recovering /\ ~Recovering'
  BY <1>u DEF Recovering
<1>3. \A b \in Blockno : Recovered'[b] = Contents(b)
  <2> TAKE b \in Blockno
  <2>1. CASE \E i \in 1 .. Len(lh) : lh[i] = b
    <3>1. PICK i \in 1 .. Len(lh) : lh[i] = b
      BY <2>1
    <3>2. Recovered'[b] = logged[i]
      BY <1>r, <1>u, <3>1 DEF RecoveredShape
    <3>3. i <= tail
      BY <1>u, Entries
    <3>4. logged[i] = Contents(lh[i])
      BY <1>0, <1>u, <3>3 DEF PhaseInv
    <3> QED BY <3>1, <3>2, <3>4
  <2>2. CASE ~\E i \in 1 .. Len(lh) : lh[i] = b
    <3>1. Recovered'[b] = home[b]
      BY <1>r, <1>u, <2>2 DEF RecoveredShape
    <3>2. Contents(b) = home[b]
      BY <1>0, <1>u, <1>q, <2>2 DEF CacheInv, Pending
    <3> QED BY <3>1, <3>2
  <2> QED BY <2>1, <2>2
<1>4. Current = [b \in Blockno |-> Contents(b)] /\ Current' = Current
  <2>1. Current' = [b \in Blockno |-> Contents(b)'] /\ Current = [b \in Blockno |-> Contents(b)]
    BY <1>2 DEF Current
  <2> QED BY <1>1, <2>1
<1>5. Recovered' = Current
  <2>1. Recovered' \in [Blockno -> Content]
    BY <1>r DEF RecoveredShape
  <2> QED BY <1>3, <1>4, <2>1
<1>6. AD!Commit
  BY <1>q, <1>4, <1>5 DEF AD!Commit, Active, Current
<1> QED BY <1>6 DEF AD!Next

\* Installing the log and erasing it do not change what is durable.
LEMMA ADCommitStep ==
  ASSUME LogInv, LogInv', CommitStep, ~WriteHead
  PROVE  UNCHANGED <<Recovered, Current, Active>>
<1>0. LogTypeOK /\ PhaseInv /\ CacheInv
  BY DEF LogInv
<1>a. Active' = Active
  BY DEF CommitStep, WriteLog, WriteHead, Install, Installed, ClearHead, ReadHead, Active
<1>r. RecoveredShape /\ RecoveredShape'
  BY RecoveredFacts, PTL
<1>f. /\ home \in [Blockno -> Content]
      /\ Recovered \in [Blockno -> Content] /\ Recovered' \in [Blockno -> Content]
  BY <1>0, <1>r DEF LogTypeOK, RecoveredShape
<1>1. CASE WriteLog
  <2>1. head = <<>> /\ head' = <<>> /\ home' = home /\ phase' = phase /\ phase = "write_log"
    BY <1>0, <1>1 DEF WriteLog, PhaseInv
  <2>2. Recovered' = Recovered
    BY <1>r, <2>1 DEF RecoveredShape
  <2>3. \A b \in Blockno : Contents(b)' = Contents(b)
    <3>1. lh[tail + 1] \in Blockno
      <4>1. tail + 1 \in 1 .. Len(lh)
        BY <1>0, <1>1, Entries DEF WriteLog, LogTypeOK
      <4> QED BY <4>1, Entries
    <3>2. \A b \in Blockno : cache'[b] = IF b = lh[tail + 1] THEN Contents(b) ELSE cache[b]
      BY <1>0, <1>1, <3>1 DEF WriteLog, LogTypeOK
    <3>3. \A b \in Blockno : Contents(b) # NoValue
      BY <1>0, LogAssumption DEF LogTypeOK, Contents
    <3> QED BY <2>1, <3>2, <3>3 DEF Contents
  <2>4. Current' = Current
    BY <2>1, <2>2, <2>3, SameCurrent DEF Recovering
  <2> QED BY <1>a, <2>2, <2>4
<1>2. CASE Install
  <2>1. /\ head = lh /\ head' = head /\ logged' = logged /\ phase' = phase /\ lh' = lh
        /\ phase \in {"install", "recover"}
    BY <1>0, <1>2 DEF Install, PhaseInv, memory
  <2>2. tail + 1 \in 1 .. Len(lh) /\ lh[tail + 1] \in Blockno /\ tail + 1 \in 1 .. LOGSIZE
    <3>1. tail + 1 \in 1 .. Len(lh)
      BY <1>0, <1>2, Entries DEF Install, LogTypeOK
    <3> QED BY <3>1, Entries
  <2>3. PICK b \in Blockno : b = lh[tail + 1]
    BY <2>2
  <2>4. /\ \A c \in Blockno \ {b} : home'[c] = home[c] /\ cache'[c] = cache[c]
        /\ cache'[b] = logged[tail + 1] /\ logged[tail + 1] \in Content
    BY <1>0, <1>2, <2>2, <2>3 DEF Install, LogTypeOK
  <2>5. \A c \in Blockno : Recovered'[c] = Recovered[c]
    <3> TAKE c \in Blockno
    <3>1. CASE \E i \in 1 .. Len(head) : head[i] = c
      <4>1. PICK i \in 1 .. Len(head) : head[i] = c
        BY <3>1
      <4> QED BY <1>r, <2>1, <4>1 DEF RecoveredShape
    <3>2. CASE ~\E i \in 1 .. Len(head) : head[i] = c
      <4>1. Recovered[c] = home[c] /\ Recovered'[c] = home'[c]
        BY <1>r, <2>1, <3>2 DEF RecoveredShape
      <4>2. c # b
        BY <2>1, <2>2, <2>3, <3>2
      <4> QED BY <2>4, <4>1, <4>2
    <3> QED BY <3>1, <3>2
  <2>6. Recovered' = Recovered
    BY <1>f, <2>5
  <2>7. phase = "install" => \A c \in Blockno : Contents(c)' = Contents(c)
    <3>1. phase = "install" => Contents(b) = logged[tail + 1]
      BY <1>0, <2>2, <2>3 DEF PhaseInv
    <3>2. Contents(b)' = logged[tail + 1]
      BY <2>4, LogAssumption DEF Contents
    <3>3. \A c \in Blockno \ {b} : Contents(c)' = Contents(c)
      BY <2>4 DEF Contents
    <3> QED BY <3>1, <3>2, <3>3
  <2>8. Current' = Current
    BY <2>1, <2>6, <2>7, SameCurrent DEF Recovering
  <2> QED BY <1>a, <2>6, <2>8
<1>3. CASE Installed \/ ReadHead
  <2>1. UNCHANGED <<disk, bufs>> /\ (Recovering' <=> Recovering)
    BY <1>3 DEF Installed, ReadHead, Recovering
  <2>2. Recovered' = Recovered
    BY <2>1, SameRecovered
  <2>3. \A b \in Blockno : Contents(b)' = Contents(b)
    BY <2>1 DEF disk, bufs, Contents
  <2>4. Current' = Current
    BY <2>1, <2>2, <2>3, SameCurrent
  <2> QED BY <1>a, <2>2, <2>4
<1>4. CASE ClearHead
  <2>1. /\ UNCHANGED <<home, logged, cache>> /\ phase \in {"clear", "recover_clear"}
        /\ phase' = IF phase = "clear" THEN "done" ELSE "idle"
        /\ head' = <<>>
    BY <1>0, <1>4 DEF ClearHead, PhaseInv, bufs
  <2>2. Recovered' = home
    BY <1>r, <2>1 DEF RecoveredShape
  <2>3. \A c \in Blockno : Recovered[c] = home[c]
    <3> TAKE c \in Blockno
    <3>1. CASE \E i \in 1 .. Len(head) : head[i] = c
      <4>1. PICK i \in 1 .. Len(head) : head[i] = c
        BY <3>1
      <4>2. home[head[i]] = logged[i]
        BY <1>0, <2>1 DEF PhaseInv
      <4> QED BY <1>r, <4>1, <4>2 DEF RecoveredShape
    <3>2. CASE ~\E i \in 1 .. Len(head) : head[i] = c
      BY <1>r, <3>2 DEF RecoveredShape
    <3> QED BY <3>1, <3>2
  <2>4. Recovered' = Recovered /\ Recovered = home
    BY <1>f, <2>2, <2>3
  <2>5. \A b \in Blockno : Contents(b)' = Contents(b)
    BY <2>1 DEF Contents
  <2>6. CASE phase = "clear"
    <3>1. ~Recovering /\ ~Recovering'
      BY <2>1, <2>6 DEF Recovering
    <3>2. Current' = Current
      BY <2>4, <2>5, <3>1, SameCurrent
    <3> QED BY <1>a, <2>4, <3>2
  <2>7. CASE phase = "recover_clear"
    <3>1. Recovering /\ ~Recovering' /\ phase # "panic"
      BY <2>1, <2>7 DEF Recovering
    <3>2. \A b \in Blockno : Contents(b)' = home[b]
      BY <1>0, <2>5, <3>1 DEF CacheInv
    <3>3. Current' = [b \in Blockno |-> Contents(b)'] /\ Current = home
      BY <2>4, <3>1 DEF Current
    <3>4. Current' = Current
      BY <1>f, <3>2, <3>3
    <3> QED BY <1>a, <2>4, <3>4
  <2> QED BY <2>1, <2>6, <2>7
<1> QED BY <1>1, <1>2, <1>3, <1>4 DEF CommitStep

\* The other steps of a process change neither the disk nor what is seen of it.
LEMMA ADQuietStep ==
  ASSUME LogInv, NEW p \in Caller,
         \/ BeginSleep(p) \/ EndCommit(p) \/ Panic(p)
         \/ \E b \in Blockno : LogWrite(p, b)
  PROVE  UNCHANGED <<Recovered, Current, Active>>
<1>0. LogTypeOK
  BY DEF LogInv
<1>1. UNCHANGED disk /\ cache' = cache
  BY DEF BeginSleep, EndCommit, Panic, LogWrite, bufs
<1>2. Recovered' = Recovered
  BY <1>1, SameRecovered
<1>3. ~Recovering /\ ~Recovering'
  BY DEF BeginSleep, EndCommit, Panic, LogWrite, Booted, Recovering
<1>4. Current' = Current
  <2>1. \A b \in Blockno : Contents(b)' = Contents(b)
    BY <1>1 DEF disk, Contents
  <2> QED BY <1>2, <1>3, <2>1, SameCurrent
<1>5. Active' = Active
  <2>1. CASE BeginSleep(p) \/ Panic(p) \/ \E b \in Blockno : LogWrite(p, b)
    BY <1>0, <2>1 DEF BeginSleep, Panic, LogWrite, LogTypeOK, Active
  <2>2. CASE EndCommit(p)
    <3>1. [pc EXCEPT ![p] = "user"] \in
            [Caller -> {"user", "asleep", "awake", "op", "modified", "commit"}]
      BY <1>0 DEF LogTypeOK
    <3>2. /\ pc'[p] = "user" /\ pc[p] = "commit"
          /\ \A q \in Caller \ {p} : pc'[q] = IF pc[q] = "asleep" THEN "awake" ELSE pc[q]
      BY <1>0, <2>2, <3>1, WakeupFacts DEF EndCommit, LogTypeOK
    <3> QED BY <3>2 DEF Active
  <2> QED BY <2>1, <2>2
<1> QED BY <1>2, <1>4, <1>5

\* Filling and recycling buffers is not seen.
LEMMA ADCacheStep ==
  ASSUME LogInv, NEW b \in Blockno, Read(b) \/ Recycle(b)
  PROVE  UNCHANGED <<Recovered, Current, Active>>
<1>1. /\ UNCHANGED <<disk, pc, phase>>
      /\ \A c \in Blockno : Contents(c)' = Contents(c)
  BY ReadKeeps, RecycleKeeps
<1>2. Recovered' = Recovered
  BY <1>1, SameRecovered
<1>3. Current' = Current
  BY <1>1, <1>2, SameCurrent DEF Recovering
<1>4. Active' = Active
  BY <1>1 DEF Active
<1> QED BY <1>2, <1>3, <1>4

\* A crash loses what was written since the last commit, and nothing else.
LEMMA ADCrash ==
  ASSUME Crash
  PROVE  AD!Next
<1>1. Recovered' = Recovered
  BY SameRecovered DEF Crash
<1>2. Recovering' /\ Active' = {}
  BY DEF Crash, Recovering, Active
<1>3. Current' = Recovered
  BY <1>1, <1>2 DEF Current
<1>4. AD!Crash
  BY <1>1, <1>2, <1>3 DEF AD!Crash, Active, Current
<1> QED BY <1>4 DEF AD!Next

\* Each step of the log is a step of the atomic disk, or leaves it alone.
LEMMA ADStep ==
  ASSUME LogInv, LogInv', [Next]_vars
  PROVE  [AD!Next]_<<Recovered, Current, Active>>
<1>1. CASE UNCHANGED vars
  BY <1>1 DEF vars, disk, bufs, Recovered, Current, Contents, Recovering, Active
<1>2. CASE CommitStep
  BY <1>2, ADWriteHead, ADCommitStep
<1>3. ASSUME NEW p \in Caller, ProcStep(p)
      PROVE  [AD!Next]_<<Recovered, Current, Active>>
  BY <1>3, ADBeginEnd, ADModify, ADQuietStep DEF ProcStep
<1>4. ASSUME NEW b \in Blockno, Read(b) \/ Recycle(b)
      PROVE  [AD!Next]_<<Recovered, Current, Active>>
  BY <1>4, ADCacheStep
<1>5. CASE Crash
  BY <1>5, ADCrash
<1> QED BY <1>1, <1>2, <1>3, <1>4, <1>5 DEF Next

\* log.c implements an atomic disk: a commit makes whole system calls durable at
\* once, and a crash at any step, in recovery too, loses only what was not
\* committed.
THEOREM LogIsAtomic == Spec => Refines
<1>1. LogInv /\ LogInv' /\ [Next]_vars => [AD!Next]_<<Recovered, Current, Active>>
  BY ADStep
<1>2. Spec => AD!Init /\ [][AD!Next]_<<Recovered, Current, Active>>
  BY <1>1, ADInit, LogInvariant, PTL DEF Spec
<1> QED BY <1>2, PTL DEF Refines, AD!Spec, AD!dvars, Current, Active
=============================================================================
