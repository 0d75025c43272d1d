# A TLA+ model of the xv6 kernel with a lottery scheduler

The repository is xv6 for RISC-V with a lottery scheduler added
(`scheduler_mode`, `settickets`, `setsched`, `random`), together with its user
programs and the image builder. This directory models the parts whose
correctness depends on interleavings, crashes, failures and boundary values,
checks them with TLC on small instances, and proves the central ones with TLAPS
for every size.

## The system

| Part | Source | What is hard about it | Modules |
|---|---|---|---|
| Scheduler, context switch | `proc.c`, `swtch.S` | a lock taken by one thread and released by another; the lottery drops all locks between its two passes | `Proc` |
| Process life cycle | `proc.c`, `sysproc.c`, `trap.c` | lost wakeups, orphans, `kill` racing `sleep` | `Proc` |
| Lottery arithmetic | `random.c`, `proc.c` | `int` overflow, an unlocked seed, weak low bits | `Lottery` |
| Spin locks, interrupts | `spinlock.c`, `trap.c` | nesting of `push_off`, threads that change CPUs | `Spinlock` |
| Log | `log.c` | a crash anywhere, group commit, log space | `Log`, `AtomicDisk` |
| Buffer cache, sleep locks | `bio.c`, `sleeplock.c` | recycling, one buffer per block, the limit `NBUF` | `Bcache`, `BlockStore` |
| Disk driver | `virtio_disk.c` | descriptors running out, completions out of order | `Virtio` |
| Inodes, directories, open files | `fs.c`, `file.c`, `sysfile.c` | reference counts against locks, two-inode locking | `Fs` |
| Bytes of files, image | `fs.c`, `file.c`, `mkfs.c` | holes, indirect blocks, partial reads and writes | `FileData` |
| Pipes | `pipe.c`, `file.c` | counters that wrap, sleeping on both sides, closing, killing | `Pipe`, `BoundedFIFO` |
| Console, uart | `console.c`, `uart.c` | full rings, line editing, two interrupts | `Console` |
| Memory | `kalloc.c`, `vm.c`, `exec.c`, `proc.c` | allocation that fails half-way | `Memory` |
| Clock | `trap.c`, `sysproc.c` | a counter that wraps | `Clock` |
| Strings, numbers, names | `string.c`, `ulib.c`, `fs.c`, `printf.c` | overlaps, truncation, the smallest int | `Strings` |
| Shell and init | `sh.c`, `init.c` | a recursive parser; pipes whose ends must all be closed | `Shell`, `Grammar`, `ShellRun` |
| User allocator, grep | `umalloc.c`, `grep.c` | coalescing; lines cut by reads | `Umalloc`, `Grep` |

The parts meet in `sleep`/`wakeup` and the spin locks: every blocking component
sleeps through `proc.c`. The file system writes through the log, the log through
the cache, the cache through the driver. `exit` closes files, which closes pipes.
Each model states at its head what it takes from the layer below: the sleep lock
of a buffer, the atomic write of a disk block, the one `struct inode` per number.
`PROJECT.json` lists every component with its status, and every hazard at the
line where it bites.

## Modules

**Proc.** The fields of `struct proc` are functions of the slot; each CPU has a
scheduler thread (`spc`, `si`, `total`, `winning`, `sum`) and each process a
kernel thread (`pc`, `idx`, ...). A critical section under one `p->lock` is one
step. Locks that outlive a step are state: `plock`, which `sched()` carries
through `swtch()`, and `waitLock`. Every loop over `proc[]` is one step per slot,
so other CPUs run between slots. The draw is any number `random(total)` can
return. Running out of memory in `fork` and a failing `copyout` in `wait` are
choices. The exit status is left out.

**Lottery** has the numbers instead: the exact generator, split into its load and
its store because CPUs share the seed without a lock, and both passes in wrapping
int arithmetic, a pass being one step. The low W bits of the generator depend on
nothing but themselves, so `IntMod` = 2^W keeps its structure.

**Spinlock** splits `acquire`, `release`, `push_off` and `pop_off` into memory
accesses, with interrupts between them, and lets a thread that holds its `p->lock`
move to another CPU.

**Log.** One step is one disk write or one critical section of `log.lock`. A
system call is `BeginOp`, any number of `Modify`/`LogWrite` pairs on at most
`MAXOPBLOCKS` blocks, and `EndOp`. `Recycle` throws unpinned buffers out of the
cache at any time, `Read` brings them back, `Crash` keeps only the disk. A block
write is atomic, which is the disk's contract. **AtomicDisk** is what the log
promises; `Refines` maps `durable` to the disk after a hypothetical recovery,
`current` to what `bread` returns and `active` to the calls in progress. Writing
a non-empty header is the abstract commit.

**Bcache** runs processes through `bread`, `bwrite`, `log_write`'s pin and
`brelse` on top of **Virtio**, the driver with its descriptors and rings and a
device that completes requests in any order. A process uses one buffer at a time;
callers that hold two (`bmap`, `write_log`) are not modelled. `StoreRefined` says that together
they implement **BlockStore**: one current contents per block, one user at a time.

**Fs** has every name-changing system call one lock section at a time: path
walking hand over hand, `create`, `link`, `unlink`, `open`, `chdir`, `dup`,
`close`, `fork` and `exit`, with the inode table, link counts, the two copies of
an inode (disk and memory) and the free blocks. **FileData** has the bytes: `mkfs`
builds an image and the kernel reads and writes it through `bmap`.

**Pipe** models `pipe.c` and `fileclose` for pipe ends; the lock is state,
because `kill()` works without it. **BoundedFIFO** is what a pipe promises, and
`RefinesFIFO` says the ring buffer implements it.

**Console**, **Memory**, **Clock**, **Strings**, **Umalloc** and **Grep** model
the parts their names say. **Shell** is the parser as operators, **Grammar** the
language it should accept, and **ShellRun** executes the trees: `fork`, `pipe`,
`dup`, `close` and `wait` of the shell and of `init`.

The `MC...` modules are instances. Where parts share no state, one run holds
several of them and a variable `part`, fixed in the initial state, says which one
runs (`MCParts`, `MCLive`, `MCFs`); the others stay in one initial state. `MCParts`
uses a `VIEW` that keeps only the variables of the part that runs, and of memory
only the shape of the page tables: while every page has one use, which the view
itself records, two states of one shape differ by a renaming of pages.

Definitions whose name has a suffix and whose comment starts with "Mutant" are
faulty variants of the definition that follows them. No specification uses them;
they document a fault that the property next to them in `PROJECT.json` detects.

## Runs

| Run | Instance | Shows |
|---|---|---|
| `proc_rr` | 3 slots, 2 CPUs, round-robin | `NoLostExit`, `LiveParent`, `ReapedByParent` |
| `proc_lottery` | 2 slots, 2 CPUs, lottery, `settickets`, `setsched` | the inductive invariant `HandoverInv` |
| `proc_live` | 2 slots, 2 CPUs | `RRNoStarvation`, `WaitReturns` |
| `proc_kill_zero` | `kill(0)` | violation: `KillsProcesses` |
| `lottery` | 3 processes alone on one CPU with tickets 1 to 3; 2 processes on two CPUs; 5-bit ints | `ProportionalShare`, `AloneEveryoneWins`, `SomeoneRuns` |
| `lottery_overflow` | tickets that overflow together | violation: `TotalCounted` |
| `live` | log: 2 callers, 2 blocks, log of 4; the same with 3 callers and one content; driver: 3 processes, 7 descriptors; shell: 5 command lines | `Refines`, `EndedIsDurable`, `Reserved`, `PinnedIffLogged`, `SleepersWoken`; `IOReturns`; `LineDone`, `PromptReturns` |
| `log_full` | 3 callers, 3 blocks, log of 3 | violation: `NoPanic` |
| `bcache` | 3 processes, 2 buffers, 3 blocks, 7 descriptors, 1 pin | `Accounted`, `NoPanic`, `NoLostWakeup`, `StoreRefined` |
| `files` | 2 processes, 4 inodes, 3 blocks, 3 calls, an inode table of 3, three initial trees; pipe: 2 writers, 1 reader, 2 bytes, counters modulo 4 | `LinksCounted`, `TreeShape`, `BlocksOwned`, `RefsAccounted`, `NoLockCycle`, `NoPanic`; `RefinesFIFO`, `NoLostWakeup`, `NoUseAfterFree` |
| `fs_leak` | the same file system, 2 calls | violation: `UnlinkedIsFreed` |
| `parts` | eleven small parts | one invariant per part, `InputKept` |

### Bounds

Three slots give a grandparent, a parent and a child, which `reparent` needs;
`MaxPid` ends the supply of pids, so slots are reused until it is reached. Two
CPUs are enough for every race on one lock. In the log the ratio of `LOGSIZE` to
`MAXOPBLOCKS` lets two calls in at once. In `live` the calls modify too few blocks
to fill the log, so `log_write` does not panic there; in `log_full` they have
one block more than the log holds, with `nlog = LOGSIZE` as in `mkfs.c`. A caller
that waits for space while another call stays open exists only with three callers,
so `live` has them too, with one content per block to keep the states few. In
`bcache` two buffers for three processes and a pin make processes wait for a
buffer, recycle and run out of buffers. In `live` three processes compete for 7
descriptors, which serve two requests and leave one over, so that an allocation
fails half-way and frees what it got. The
pipe's counters wrap after four bytes, and writes of three bytes exceed the
buffer of two; one reader suffices there because the proof covers any number.
Three calls of two processes reach every pair of calls that meet and a third that
observes the result; the path names meet in one directory, in a directory and its
parent, and in a file. The three initial trees are a root with the console in it,
one with a file and a directory, and one in which a process works two directories
down, so that the calls can remove both and then follow `..`. The inode table has
one entry less than there are inodes. In `parts` the sizes are the smallest at which every
boundary is passed on both sides: one direct and two indirect addresses, bitmaps
of one block per bitmap block, input lines longer than the ring, a clock that
wraps during a sleep, words and paths longer than the names they are stored in.

`CHECK_DEADLOCK FALSE` stands where the system may stop: when all processes have
closed their ends of the pipe, when the calls or the input are used up, and after
a panic. Symmetry is used in runs that check safety or refinement without
fairness only.

### Fairness

`Proc`: each CPU's kernel code keeps running, timer interrupts keep coming
(`clockintr` re-arms the timer), and a thread that gets the CPU again and again
executes its own code, a time slice being far longer than one step. Fairness is
strong because a spinning `acquire` is enabled only while the lock is free.
`Lottery`: each CPU executes its loop. `Log`: the committer proceeds from write to
write, and a system call makes finitely many writes, hence strong fairness of its
`end_op`. Driver:
whoever spins on `vdisk_lock` gets it in the end, the device serves what is in
the ring, the interrupt is delivered. Shell: every process that can run is
scheduled in the end, which is what `proc_live` shows of round-robin.

## What the violations show

* `kill(0)` matches an `UNUSED` slot, whose pid is 0, and marks it killed.
  `allocproc` does not clear the mark: the next process there is killed at once.
* `settickets` accepts every n >= 1, and the total of the first pass overflows.
* `mkfs` counts the header block in `nlog = LOGSIZE`, so the log holds
  `LOGSIZE - 1` blocks while `begin_op` hands out `LOGSIZE`: `log_write` panics
  although every call kept to `MAXOPBLOCKS`.
* `iput` clears the type of a dead inode on disk before it drops its reference.
  `create` can get the inode in between; if it then fails, neither of the two
  drops frees the inode, and it stays allocated with no link and no reference.

Limits of the code that nothing in the repository contradicts are stated inside
the models and properties, at the definition concerned:

* `wait` looks at `killed` before it sleeps, in separate critical sections of
  `p->lock`; a `kill` in between wakes nobody until a child exits.
* On two CPUs the lottery can keep a process waiting forever, because the total
  of the first pass may be stale in the second: with one ticket each, ticket 1
  drawn for slots 0 and 1 picks nobody once another CPU has taken slot 0, and
  ticket 0 drawn for slot 1 alone goes to slot 0 when that is RUNNABLE again. So
  everyone wins only on one CPU (`AloneEveryoneWins`), and with two somebody does
  (`SomeoneRuns`).
* `iget` panics when all `NINODE` entries of the inode table are in use, and `bget`
  when all `NBUF` buffers are: `param.h` lets the log alone pin that many. Both
  happen in the runs; the two `NoPanic` say that then every entry or buffer really
  has a user, so that a leaked reference is never the reason.
* `init` starts `sh` again when the `exec` of it fails, without end, so
  `PromptReturns` promises a prompt, another start, or the end of `init` itself.
* A writer killed in the middle of `pipewrite` returns without waking readers,
  which `NoLostWakeup` excepts.
* `..` of a directory that was removed while it was somebody's `cwd` may name an
  inode that is free again: after `chdir a/b; unlink /a/b; unlink /a`, opening
  `..` panics in `ilock`. `files` reaches it; `NoPanic` admits this panic for a
  call that went through the `..` of a removed directory, and for no other. And `create` and `link` work in a removed directory, so
  that the new inode keeps a link nobody can reach.
* `mkfs` rounds the size of the root directory up, so its last block may not have
  been allocated; the first `readi` of it then allocates the block.
* Input at line rate can keep the echo busy forever, so there is no liveness
  property of the console's output.

## Proofs

TLC checks the small instances above. TLAPS proves the following for every number
of processes, CPUs, blocks, bytes and so on, from the named assumption on the
constants alone. Each inductive invariant was checked by TLC as an invariant
before it was proved.

| Module | Theorem | States |
|---|---|---|
| `ProcProofs` | `Handover` | `Spec => []HandoverInv` |
| | `TypeCorrect`, `NoProcessOnTwoCPUs`, `RunningIsOnCPU` | `[]TypeOK`, `[]OneCPU`, `[]RunningOnCPU` |
| `FamilyProofs` | `Family` | `Spec => []FamilyInv` |
| | `NoExitIsLost`, `AlwaysLiveParent` | `[]NoLostExit`, `[]LiveParent` |
| | `ZombieReapedByParent` | the action property `ReapedByParent` |
| | `PidsAreUnique` | `[]PidUnique` |
| `PipeProofs` | `PipeInvariant` | `PipeSpec => []PipeInv` |
| | `PipeFreedUnused`, `PipeWakeups` | `[]NoUseAfterFree`, `[]NoLostWakeup` |
| | `PipeIsFIFO` | the pipe implements `BoundedFIFO` |
| `LogProofs` | `LogInvariant` | `Spec => []LogInv` |
| | `FinishedIsDurable`, `PinsBalance` | `[]EndedIsDurable`, `[]PinnedIffLogged` |
| | `LogSpaceReserved` | `[]Reserved` |
| | `LogIsAtomic` | the log implements `AtomicDisk` |
| `DriverProofs`, `BcacheProofs`, `StoreProofs` | `BcacheInvariant` | `Spec => []BcacheInv` |
| | `NothingLeaks`, `PanicsOnlyWhenFull`, `CacheWakeups` | `[]Accounted`, `[]NoPanic`, `[]NoLostWakeup` |
| | `CacheIsStore` | the cache over the driver implements `BlockStore` |
| `DeviceProofs` | `SleepIsExact` | `ClockSpec => []SleepExact` |
| | `ConsoleStaysAwake` | `CSpec => []ConsoleAwake` |
| | `CommittedInputKept` | the action property `InputKept` |

**Hand-over (`ProcAssumption`).** `OneCPU` is not inductive. A scheduler may
dispatch a RUNNABLE process whose lock is free, so one must know that a process
still on a CPU is either RUNNING or has its lock held by that CPU
(`RunningOnCPU`), that `c->proc` is set exactly in the process and switch-back
phases (`CurProcInv`), that a held `p->lock` belongs to the process of the
holder's CPU (`LockInv`), and that the slot `fork` is about to make RUNNABLE is
still USED and no other fork's (`ForkInv`). `HandoverInv` is the conjunction. The
actions fall into a few shapes (dispatch, switch back, switch out, switched in,
local, the two steps of `fork`), and a lemma for each shape says what it keeps.

**Family (on top of the hand-over).** `NoLostExit` says that no parent sleeps in
`wait` with a zombie child while `wait_lock` is free. It depends on loops that
other CPUs interrupt at every slot, so `FamilyInv` says what each has established
so far: that a thread inside a `wait_lock` section runs on the CPU holding it
(`WaitHolder`), that loops start at slot 0 (`LoopInv`), that an exiting process has
no child in the slots `reparent` has passed (`ExitInv`), that `fork` has set the
parent of the child it is about to run (`ParentInv`), that `wait`'s scan has seen no
zombie below its index (`ScanInv`), and that a parent asleep beside a zombie is
`init`, still ahead of the `wakeup` in progress (`WakeInv`). `FamilyProofs`
first has a lemma for each kind of effect a step can have on these facts, then
shows which effect each action has. `PidUnique`
needs only that all pids are below `nextpid` (`PidInv`); `MaxPid` in the guard of
`allocpid` stands for the range in which `nextpid` does not wrap.

**Pipe (`PipeAssumption`).** `PipeInv` says who holds `pi->lock`, that a process
inside a call has its end open, that `nwrite - nread` modulo `UintMod` is at most
`PIPESIZE`, and why each sleeper sleeps. The refinement needs arithmetic that
survives every wrap of the counters, and that rests on `PIPESIZE` dividing
`UintMod`: then equal counters modulo `UintMod` mean the same place of the ring
(`SamePlace`), and the bytes in transit grow at one end and shrink at the other
(`TransitPut`, `TransitTake`). Every step of the pipe is then a step of
`BoundedFIFO` or a stutter.

**Log (`LogAssumption`).** A crash turns the disk into the initial state of
recovery, so the invariant must say in every phase what recovery would find.
`PhaseInv` does: before the header is written the home blocks are the durable
state; after it, every logged block is in the log, and the ones below `tail` are
also at home; while the header is erased, all are. `CountInv` relates
`outstanding` and `committing` to the calls in progress, `CacheInv` says that
every cached or pinned buffer holds the current contents and that a block is
pinned once exactly while it is in the transaction and not installed. The
last part of `LogProofs` shows for each action which step of `AtomicDisk` it is: the header write is
`Commit`, `Crash` is a crash, and copying, installing, erasing and recovering
change neither the durable nor the current contents.
`Reserved` says that the blocks in the transaction and what the open calls may
still write fit into the log. It counts the unspent blocks as a set of pairs of a
call and a number, so that no sum over the calls is needed. `ReserveInv` adds what
keeps it: a call logs no more than `MAXOPBLOCKS` distinct blocks, the one it has
locked included, and all of them are in the transaction; so a `log_write` that
appends a block also spends one.

**Cache and driver (`VirtioAssumption`, `BcacheAssumption`).** The processes, the
cache and the device are one specification, so `BcacheInv` is one invariant in three
parts. `CacheInv`: no block is in two buffers, a locked buffer belongs to the process
between `acquiresleep` and `releasesleep` on it (`HoldInv`), and every reference is a
pin or a process that uses the buffer (`ListInv`). `DriverInv`: a request says what
its process asked for (`RequestInv`), every chain is in exactly one place, a ring or
the device, and has one process waiting for it (`RingInv`), and descriptors are free
or in exactly one chain. `CleanInv`: a valid buffer and the disk agree except while
the buffer is changed, written or pinned. `ListInv` is also why
`bget` panics only when every buffer is pinned or has a user. `DriverProofs` has the steps of `virtio_disk.c` and
of the device, `BcacheProofs` those of `bread`, `bwrite` and `bpin`, and
`StoreProofs` those of `brelse`, the theorems and the refinement. The contents of a block in `BlockStore` are those of its valid
buffer, else of the disk; `CleanInv` is why recycling a buffer loses nothing, and
`RingInv` why a completion, in whatever order, reaches the process that asked.

**Clock (`ClockAssumption`).** `ticks - ticks0` in `sys_sleep` is unsigned. `ClockInv`
says that it is the number of ticks that have really passed, through every wrap,
because a sleeper that is woken runs within `Lag` ticks and so no more than
`n + Lag < TickMod` pass before it looks.

**Console (`ConsoleAssumption`).** `r`, `w` and `e` are unsigned and wrap, the ring
size divides their range. `RingInv` says that they follow each other at most
`INPUT_BUF_SIZE` apart, `ReaderInv` who holds `cons.lock`, and `SendInv` gives the
states of the transmitter; with `ConsoleAwake` they are inductive. `InputKept` then
needs that the committed bytes, read modulo the ring from `r` to `w`, are not where
the next key goes (`e`), and that erasing stops at `w`.

### What stays with TLC, and why

* Liveness under fairness (`RRNoStarvation`, `WaitReturns`, `AloneEveryoneWins`,
  `SomeoneRuns`, `SleepersWoken`, `IOReturns`, `PromptReturns`): TLAPS proves
  neither fairness nor ENABLED.
* `ProportionalShare` counts draws with a recursive sum over the slots: it needs
  induction over data, with a theorem that takes an operator as a parameter, which
  the provers cannot instantiate.
* The algorithms of `parts` (parser, allocator, grep, strings, file bytes) are
  recursive definitions compared with reference definitions; the same holds.
* `Fs`, `Memory` and `Spinlock` have been model-checked only.

## Not modelled

Boot code, the interrupt controller, the system-call table, page-table bits,
register contents and the small user programs: straight-line code, hardware
detail, or callers of what is modelled. Test programs state nothing beyond what
they print. Of `printf` only the conversion of integers is modelled, and of the console's
control keys `^P` changes nothing but the output. `mknod`,
`fstat`, device files and `exec`'s arguments are left out.
