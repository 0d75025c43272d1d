-------------------------------- MODULE Proc --------------------------------
(***************************************************************************)
(* The process table of proc.c: the per-CPU scheduler (round-robin and     *)
(* lottery), fork, exit, wait, kill, settickets, setsched, and the         *)
(* sleep/wakeup and yield paths through sched() and swtch().               *)
(*                                                                         *)
(* Atomicity.  A critical section under one p->lock is one step, because   *)
(* every field it touches is read and written under that lock only; its    *)
(* guard is that the lock is free.  Locks that outlive a step are state:   *)
(* p->lock, which sched() carries across swtch() to the scheduler and back *)
(* again, and wait_lock, which wait() and exit() hold while they take      *)
(* p->locks one at a time.  Every loop over proc[] is one step per slot.   *)
(***************************************************************************)
EXTENDS Integers, FiniteSets

CONSTANTS
  NPROC,           \* slots of proc[]
  CPU,             \* the harts that run scheduler()
  Null,            \* the null pointer: no slot, no channel, no lock holder
  IntMod,          \* 2^32 in the code: the modulus of C's unsigned int
  DefaultTickets,  \* 10 in the code (allocproc)
  TicketArgs,      \* arguments user programs pass to settickets()
  ModeArgs,        \* arguments user programs pass to setsched()
  KillArgs,        \* arguments user programs pass to kill()
  InitMode,        \* scheduler_mode when the run starts
  MaxPid           \* bound on the pids a run hands out

Slot == 0 .. NPROC - 1
Index == 0 .. NPROC        \* a loop variable over proc[]
initproc == 0

ASSUME ProcAssumption ==
  /\ NPROC \in Nat \ {0}
  /\ CPU # {}
  /\ Null \notin Slot \cup CPU
  /\ IntMod \in Nat \ {0}
  /\ DefaultTickets \in Int
  /\ TicketArgs \subseteq Int
  /\ ModeArgs \subseteq Int
  /\ KillArgs \subseteq Int
  /\ InitMode \in {0, 1}
  /\ MaxPid \in Nat

VARIABLES
  \* struct proc
  state, chan, killed, pid, tickets, parent,
  plock,           \* p->lock: the CPU that holds it, or Null
  \* globals of proc.c
  waitLock, nextpid, schedulerMode,
  \* struct cpu, and the scheduler() thread of each CPU
  curproc,         \* c->proc
  spc, si, total, winning, sum,
  \* the kernel thread of each process
  pc,              \* where it is, or will resume
  idx,             \* its loop variable over proc[]
  ridx,            \* the loop variable of reparent()
  arg,             \* fork: np;  kill: the pid
  havekids,        \* wait(): a child was seen in this scan
  resume           \* where to go on once yield() returns

table   == <<state, chan, killed, pid, tickets, parent>>
sched   == <<spc, si, total, winning, sum>>
locals  == <<idx, ridx, arg, havekids, resume>>
vars    == <<table, plock, waitLock, nextpid, schedulerMode, curproc,
             sched, pc, locals>>

States == {"UNUSED", "USED", "SLEEPING", "RUNNABLE", "RUNNING", "ZOMBIE"}

\* Scheduler labels: the top of the loop, the two lottery passes, the
\* round-robin pass, and "run" while a process owns the CPU (with the pass it
\* will come back to).
SchedLabels == {"top", "count", "pick", "rr", "run_lottery", "run_rr",
                "back_lottery", "back_rr"}
InProcess == {"run_lottery", "run_rr"}
SwitchingBack == {"back_lottery", "back_rr"}

\* Labels at which a kernel thread holds its own p->lock: it has just been
\* switched to and has not released the lock the scheduler took.
SwitchedIn == {"forkret", "yielded", "slept"}
\* Labels inside the wait_lock critical sections.
HoldsWaitLock == {"scan", "checkkilled", "sleep",
                  "reparent", "wakeinit", "wakeparent", "zombie"}
\* Kernel labels with no lock held, where a timer interrupt may yield.
Preemptible == {"fork", "forkparent", "forkrun", "exit", "wait", "reacquire",
                "kill", "trapret", "panic"}
Labels == {"none", "user", "yield"} \cup SwitchedIn \cup HoldsWaitLock
          \cup Preemptible

\* C int arithmetic as the build compiles it (addw): two's complement wrap.
IntWrap(x) == ((x + IntMod \div 2) % IntMod) - IntMod \div 2

\* random(max) is seed % (unsigned)max converted back to int; the seed is left
\* open here and modelled in Lottery.
random(max) == {IntWrap(r) : r \in 0 .. (max % IntMod) - 1}

Init ==
  /\ state = [p \in Slot |-> IF p = initproc THEN "RUNNABLE" ELSE "UNUSED"]
  /\ chan = [p \in Slot |-> Null]
  /\ killed = [p \in Slot |-> 0]
  /\ pid = [p \in Slot |-> IF p = initproc THEN 1 ELSE 0]
  /\ tickets = [p \in Slot |-> IF p = initproc THEN DefaultTickets ELSE 0]
  /\ parent = [p \in Slot |-> Null]
  /\ plock = [p \in Slot |-> Null]
  /\ waitLock = Null
  /\ nextpid = 2
  /\ schedulerMode = InitMode
  /\ curproc = [c \in CPU |-> Null]
  /\ spc = [c \in CPU |-> "top"]
  /\ si = [c \in CPU |-> 0]
  /\ total = [c \in CPU |-> 0]
  /\ winning = [c \in CPU |-> 0]
  /\ sum = [c \in CPU |-> 0]
  /\ pc = [p \in Slot |-> IF p = initproc THEN "forkret" ELSE "none"]
  /\ idx = [p \in Slot |-> 0]
  /\ ridx = [p \in Slot |-> 0]
  /\ arg = [p \in Slot |-> 0]
  /\ havekids = [p \in Slot |-> FALSE]
  /\ resume = [p \in Slot |-> "none"]

-----------------------------------------------------------------------------
(* scheduler(): one thread per CPU.                                         *)

SchedTop(c) ==
  /\ spc[c] = "top"
  /\ spc' = [spc EXCEPT ![c] = IF schedulerMode = 1 THEN "count" ELSE "rr"]
  /\ si' = [si EXCEPT ![c] = 0]
  /\ total' = [total EXCEPT ![c] = 0]
  /\ UNCHANGED <<table, plock, waitLock, nextpid, schedulerMode, curproc,
                 winning, sum, pc, locals>>

\* First lottery pass, one slot.
LotteryCount(c) ==
  /\ spc[c] = "count"
  /\ si[c] < NPROC
  /\ plock[si[c]] = Null
  /\ total' = [total EXCEPT ![c] = IF state[si[c]] = "RUNNABLE"
                                     THEN IntWrap(@ + tickets[si[c]])
                                     ELSE @]
  /\ si' = [si EXCEPT ![c] = @ + 1]
  /\ UNCHANGED <<table, plock, waitLock, nextpid, schedulerMode, curproc,
                 spc, winning, sum, pc, locals>>

\* Between the passes: give up when nothing was counted, else draw.
LotteryDraw(c) ==
  /\ spc[c] = "count"
  /\ si[c] = NPROC
  /\ \/ /\ total[c] = 0
        /\ spc' = [spc EXCEPT ![c] = "top"]
        /\ UNCHANGED winning
     \/ /\ total[c] # 0
        /\ spc' = [spc EXCEPT ![c] = "pick"]
        /\ \E r \in random(total[c]) : winning' = [winning EXCEPT ![c] = r]
  /\ si' = [si EXCEPT ![c] = 0]
  /\ sum' = [sum EXCEPT ![c] = 0]
  /\ total' = [total EXCEPT ![c] = 0]
  /\ UNCHANGED <<table, plock, waitLock, nextpid, schedulerMode, curproc,
                 pc, locals>>

\* p->state = RUNNING; c->proc = p; swtch(): p->lock stays held.
Dispatch(c, p, back) ==
  /\ state' = [state EXCEPT ![p] = "RUNNING"]
  /\ curproc' = [curproc EXCEPT ![c] = p]
  /\ plock' = [plock EXCEPT ![p] = c]
  /\ spc' = [spc EXCEPT ![c] = back]
  /\ UNCHANGED <<chan, killed, pid, tickets, parent, waitLock,
                 nextpid, schedulerMode, pc, locals>>

\* Second lottery pass, one slot: run the winner or move on.
LotteryPick(c) ==
  /\ spc[c] = "pick"
  /\ si[c] < NPROC
  /\ plock[si[c]] = Null
  /\ LET p == si[c]
         s == IF state[p] = "RUNNABLE" THEN IntWrap(sum[c] + tickets[p])
                                       ELSE sum[c]
     IN \/ /\ state[p] = "RUNNABLE" /\ s > winning[c]
           /\ Dispatch(c, p, "run_lottery")
           /\ si' = [si EXCEPT ![c] = 0]
           /\ sum' = [sum EXCEPT ![c] = 0]
           /\ winning' = [winning EXCEPT ![c] = 0]
           /\ UNCHANGED total
        \/ /\ ~(state[p] = "RUNNABLE" /\ s > winning[c])
           /\ sum' = [sum EXCEPT ![c] = s]
           /\ si' = [si EXCEPT ![c] = @ + 1]
           /\ UNCHANGED <<table, plock, waitLock, nextpid, schedulerMode,
                          curproc, spc, total, winning, pc, locals>>

\* Mutant: the test for RUNNABLE lets zombies through.
RoundRobin_zombies(c) ==
  /\ spc[c] = "rr"
  /\ si[c] < NPROC
  /\ plock[si[c]] = Null
  /\ \/ /\ state[si[c]] \in {"RUNNABLE", "ZOMBIE"}
        /\ Dispatch(c, si[c], "run_rr")
        /\ UNCHANGED <<si, total, winning, sum>>
     \/ /\ state[si[c]] \notin {"RUNNABLE", "ZOMBIE"}
        /\ si' = [si EXCEPT ![c] = @ + 1]
        /\ UNCHANGED <<table, plock, waitLock, nextpid, schedulerMode,
                       curproc, spc, total, winning, sum, pc, locals>>

\* Round-robin pass, one slot.
RoundRobin(c) ==
  /\ spc[c] = "rr"
  /\ si[c] < NPROC
  /\ plock[si[c]] = Null
  /\ \/ /\ state[si[c]] = "RUNNABLE"
        /\ Dispatch(c, si[c], "run_rr")
        /\ UNCHANGED <<si, total, winning, sum>>
     \/ /\ state[si[c]] # "RUNNABLE"
        /\ si' = [si EXCEPT ![c] = @ + 1]
        /\ UNCHANGED <<table, plock, waitLock, nextpid, schedulerMode,
                       curproc, spc, total, winning, sum, pc, locals>>

\* Either pass ran off the end of proc[].
PassDone(c) ==
  /\ spc[c] \in {"pick", "rr"}
  /\ si[c] = NPROC
  /\ spc' = [spc EXCEPT ![c] = "top"]
  /\ si' = [si EXCEPT ![c] = 0]
  /\ winning' = [winning EXCEPT ![c] = 0]
  /\ sum' = [sum EXCEPT ![c] = 0]
  /\ UNCHANGED <<table, plock, waitLock, nextpid, schedulerMode, curproc,
                 total, pc, locals>>

\* Mutant: round-robin starts over at slot 0 after every dispatch.
SwitchBack_restart(c) ==
  /\ spc[c] \in SwitchingBack
  /\ plock' = [plock EXCEPT ![curproc[c]] = Null]
  /\ curproc' = [curproc EXCEPT ![c] = Null]
  /\ spc' = [spc EXCEPT ![c] = "top"]
  /\ UNCHANGED <<table, waitLock, nextpid, schedulerMode, si, total, winning,
                 sum, pc, locals>>

\* Back from swtch(): c->proc = 0, release p->lock; the lottery starts a new
\* round, round-robin goes on with the next slot.
SwitchBack(c) ==
  /\ spc[c] \in SwitchingBack
  /\ plock' = [plock EXCEPT ![curproc[c]] = Null]
  /\ curproc' = [curproc EXCEPT ![c] = Null]
  /\ \/ /\ spc[c] = "back_lottery"
        /\ spc' = [spc EXCEPT ![c] = "top"]
        /\ UNCHANGED si
     \/ /\ spc[c] = "back_rr"
        /\ spc' = [spc EXCEPT ![c] = "rr"]
        /\ si' = [si EXCEPT ![c] = @ + 1]
  /\ UNCHANGED <<table, waitLock, nextpid, schedulerMode, total, winning, sum,
                 pc, locals>>

-----------------------------------------------------------------------------
(* Steps of the kernel thread of process p, running on CPU c.              *)

Running(c, p, label) ==
  /\ curproc[c] = p
  /\ spc[c] \in InProcess
  /\ pc[p] = label

Goto(p, label) == pc' = [pc EXCEPT ![p] = label]

\* Mutant: p->lock is released before swtch() saves the context.
sched_swtch_unlocked(c, p) ==
  /\ plock' = [plock EXCEPT ![p] = Null]
  /\ spc' = [spc EXCEPT ![c] = IF @ = "run_lottery" THEN "back_lottery"
                                                   ELSE "back_rr"]

\* sched(): switch to this CPU's scheduler with p->lock held.
sched_swtch(c, p) ==
  /\ plock' = [plock EXCEPT ![p] = c]
  /\ spc' = [spc EXCEPT ![c] = IF @ = "run_lottery" THEN "back_lottery"
                                                   ELSE "back_rr"]

\* yield() out of the trap path; `back' is where the thread goes on.
Yield(c, p, back) ==
  /\ plock[p] = Null
  /\ state' = [state EXCEPT ![p] = "RUNNABLE"]
  /\ sched_swtch(c, p)
  /\ Goto(p, "yielded")
  /\ resume' = [resume EXCEPT ![p] = back]
  /\ UNCHANGED <<chan, killed, pid, tickets, parent, waitLock, nextpid,
                 schedulerMode, curproc, si, total, winning, sum, idx, ridx,
                 arg, havekids>>

\* Timer interrupt in kernel mode (kerneltrap) or the yield() of usertrap.
KernelYield(c, p) ==
  \E l \in Preemptible : Running(c, p, l) /\ Yield(c, p, l)
UserYield(c, p) ==
  Running(c, p, "yield") /\ Yield(c, p, "user")

\* Return from sched() in yield(), sleep() or at forkret(): release p->lock.
SwitchedInStep(c, p) ==
  /\ \/ /\ Running(c, p, "yielded")
        /\ Goto(p, resume[p])
        /\ resume' = [resume EXCEPT ![p] = "none"]
        /\ UNCHANGED chan
     \/ /\ Running(c, p, "slept")
        /\ Goto(p, "reacquire")
        /\ chan' = [chan EXCEPT ![p] = Null]
        /\ UNCHANGED resume
     \/ /\ Running(c, p, "forkret")
        /\ Goto(p, "user")
        /\ UNCHANGED <<chan, resume>>
  /\ plock' = [plock EXCEPT ![p] = Null]
  /\ UNCHANGED <<state, killed, pid, tickets, parent, waitLock, nextpid,
                 schedulerMode, curproc, sched, idx, ridx, arg, havekids>>

\* usertrap(): killed(p) decides between exit(-1) and `label'.
UnlessKilled(p, label) ==
  /\ plock[p] = Null
  /\ Goto(p, IF killed[p] = 1 THEN "exit" ELSE label)

\* A system call traps: the killed check, then the call named by `label'.
Syscall(c, p) ==
  /\ Running(c, p, "user")
  /\ \/ \E label \in {"fork", "exit", "wait"} :
          UnlessKilled(p, label) /\ UNCHANGED arg
     \/ \E n \in KillArgs :
          /\ UnlessKilled(p, "kill")
          /\ arg' = [arg EXCEPT ![p] = IF killed[p] = 1 THEN 0 ELSE n]
  /\ UNCHANGED <<table, plock, waitLock, nextpid, schedulerMode, curproc,
                 sched, idx, ridx, havekids, resume>>

\* Timer interrupt in user mode: the killed check, then yield().
TimerUser(c, p) ==
  /\ Running(c, p, "user")
  /\ UnlessKilled(p, "yield")
  /\ UNCHANGED <<table, plock, waitLock, nextpid, schedulerMode, curproc,
                 sched, locals>>

\* An exception in user mode: setkilled(p), and so exit(-1).
Fault(c, p) ==
  /\ Running(c, p, "user")
  /\ plock[p] = Null
  /\ killed' = [killed EXCEPT ![p] = 1]
  /\ Goto(p, "exit")
  /\ UNCHANGED <<state, chan, pid, tickets, parent, plock, waitLock, nextpid,
                 schedulerMode, curproc, sched, locals>>

\* The way out of a system call: the second killed check of usertrap().
TrapRet(c, p) ==
  /\ Running(c, p, "trapret")
  /\ UnlessKilled(p, "user")
  /\ UNCHANGED <<table, plock, waitLock, nextpid, schedulerMode, curproc,
                 sched, locals>>

\* sys_settickets(): reject n < 1, else store under p->lock.
SetTickets(c, p) ==
  /\ Running(c, p, "user")
  /\ plock[p] = Null
  /\ killed[p] = 0
  /\ \E n \in TicketArgs :
       tickets' = [tickets EXCEPT ![p] = IF n < 1 THEN @ ELSE n]
  /\ Goto(p, "trapret")
  /\ UNCHANGED <<state, chan, killed, pid, parent, plock, waitLock, nextpid,
                 schedulerMode, curproc, sched, locals>>

\* sys_setsched(): store a valid mode, with no lock.
SetSched(c, p) ==
  /\ Running(c, p, "user")
  /\ plock[p] = Null
  /\ killed[p] = 0
  /\ \E m \in ModeArgs :
       schedulerMode' = IF m \in {0, 1} THEN m ELSE schedulerMode
  /\ Goto(p, "trapret")
  /\ UNCHANGED <<table, plock, waitLock, nextpid, curproc, sched, locals>>

-----------------------------------------------------------------------------
(* fork()                                                                  *)

\* allocpid() hands out nextpid and advances it.
allocpid == nextpid' = nextpid + 1

\* freeproc(k): the fields the model keeps (tickets is not reset).
freeproc(k) ==
  /\ pid' = [pid EXCEPT ![k] = 0]
  /\ parent' = [parent EXCEPT ![k] = Null]
  /\ chan' = [chan EXCEPT ![k] = Null]
  /\ killed' = [killed EXCEPT ![k] = 0]
  /\ state' = [state EXCEPT ![k] = "UNUSED"]

\* allocproc()'s scan, one slot.  The critical section that claims the slot
\* reaches from allocproc() to fork()'s first release of np->lock.  Memory may
\* run out in it: the slot is freed again and its pid is lost.
ForkAlloc(c, p) ==
  /\ Running(c, p, "fork")
  /\ idx[p] < NPROC
  /\ plock[idx[p]] = Null
  /\ LET k == idx[p] IN
     \/ /\ state[k] # "UNUSED"
        /\ idx' = [idx EXCEPT ![p] = @ + 1]
        /\ UNCHANGED <<table, nextpid, pc, arg>>
     \/ /\ state[k] = "UNUSED"
        /\ nextpid <= MaxPid
        /\ allocpid
        /\ tickets' = [tickets EXCEPT ![k] = DefaultTickets]
        /\ idx' = [idx EXCEPT ![p] = 0]
        /\ \/ /\ pid' = [pid EXCEPT ![k] = nextpid]
              /\ state' = [state EXCEPT ![k] = "USED"]
              /\ pc' = [pc EXCEPT ![k] = "forkret", ![p] = "forkparent"]
              /\ arg' = [arg EXCEPT ![p] = k]
              /\ UNCHANGED <<chan, killed, parent>>
           \/ /\ freeproc(k)
              /\ Goto(p, "trapret")
              /\ UNCHANGED arg
  /\ UNCHANGED <<plock, waitLock, schedulerMode, curproc, sched, ridx,
                 havekids, resume>>

\* The scan found no UNUSED slot.  MaxPid, the model's bound on pids, also
\* ends the call here.
ForkFull(c, p) ==
  /\ Running(c, p, "fork")
  /\ idx[p] = NPROC \/ nextpid > MaxPid
  /\ idx' = [idx EXCEPT ![p] = 0]
  /\ Goto(p, "trapret")
  /\ UNCHANGED <<table, plock, waitLock, nextpid, schedulerMode, curproc,
                 sched, ridx, arg, havekids, resume>>

\* np->parent = p under wait_lock.
ForkParent(c, p) ==
  /\ Running(c, p, "forkparent")
  /\ waitLock = Null
  /\ parent' = [parent EXCEPT ![arg[p]] = p]
  /\ Goto(p, "forkrun")
  /\ UNCHANGED <<state, chan, killed, pid, tickets, plock, waitLock, nextpid,
                 schedulerMode, curproc, sched, locals>>

\* np->state = RUNNABLE under np->lock.
ForkRun(c, p) ==
  /\ Running(c, p, "forkrun")
  /\ plock[arg[p]] = Null
  /\ state' = [state EXCEPT ![arg[p]] = "RUNNABLE"]
  /\ arg' = [arg EXCEPT ![p] = 0]
  /\ Goto(p, "trapret")
  /\ UNCHANGED <<chan, killed, pid, tickets, parent, plock, waitLock, nextpid,
                 schedulerMode, curproc, sched, idx, ridx, havekids, resume>>

-----------------------------------------------------------------------------
(* exit(), reparent() and wakeup()                                         *)

\* init panics; any other process takes wait_lock.
ExitStart(c, p) ==
  /\ Running(c, p, "exit")
  /\ \/ /\ p = initproc
        /\ Goto(p, "panic")
        /\ UNCHANGED waitLock
     \/ /\ p # initproc
        /\ waitLock = Null
        /\ waitLock' = c
        /\ Goto(p, "reparent")
  /\ UNCHANGED <<table, plock, nextpid, schedulerMode, curproc, sched, locals>>

\* Mutant: exit() leaves the children where they are.
Reparent_omitted(c, p) ==
  /\ Running(c, p, "reparent")
  /\ Goto(p, "wakeparent")
  /\ UNCHANGED <<table, plock, waitLock, nextpid, schedulerMode, curproc,
                 sched, locals>>

\* reparent(), one slot: a child goes to init, and init is woken.
Reparent(c, p) ==
  /\ Running(c, p, "reparent")
  /\ \/ /\ ridx[p] < NPROC
        /\ parent[ridx[p]] = p
        /\ parent' = [parent EXCEPT ![ridx[p]] = initproc]
        /\ ridx' = [ridx EXCEPT ![p] = @ + 1]
        /\ Goto(p, "wakeinit")
     \/ /\ ridx[p] < NPROC
        /\ parent[ridx[p]] # p
        /\ ridx' = [ridx EXCEPT ![p] = @ + 1]
        /\ UNCHANGED <<parent, pc>>
     \/ /\ ridx[p] = NPROC
        /\ ridx' = [ridx EXCEPT ![p] = 0]
        /\ Goto(p, "wakeparent")
        /\ UNCHANGED parent
  /\ UNCHANGED <<state, chan, killed, pid, tickets, plock, waitLock, nextpid,
                 schedulerMode, curproc, sched, idx, arg, havekids, resume>>

\* Mutant: nobody is woken.
wakeup_omitted(p, ch, next) == Goto(p, next) /\ UNCHANGED <<state, idx>>

\* wakeup(ch), one slot; the loop skips the caller and then returns to `next'.
wakeup(p, ch, next) ==
  \/ /\ idx[p] < NPROC
     /\ idx[p] = p \/ plock[idx[p]] = Null
     /\ state' = IF idx[p] # p /\ state[idx[p]] = "SLEEPING"
                      /\ chan[idx[p]] = ch
                 THEN [state EXCEPT ![idx[p]] = "RUNNABLE"]
                 ELSE state
     /\ idx' = [idx EXCEPT ![p] = @ + 1]
     /\ UNCHANGED pc
  \/ /\ idx[p] = NPROC
     /\ idx' = [idx EXCEPT ![p] = 0]
     /\ Goto(p, next)
     /\ UNCHANGED state

ExitWakeup(c, p) ==
  /\ \/ Running(c, p, "wakeinit") /\ wakeup(p, initproc, "reparent")
     \/ Running(c, p, "wakeparent") /\ wakeup(p, parent[p], "zombie")
  /\ UNCHANGED <<chan, killed, pid, tickets, parent, plock, waitLock, nextpid,
                 schedulerMode, curproc, sched, ridx, arg, havekids, resume>>

\* The end of exit(): ZOMBIE under p->lock, release wait_lock, sched().
ExitZombie(c, p) ==
  /\ Running(c, p, "zombie")
  /\ plock[p] = Null
  /\ state' = [state EXCEPT ![p] = "ZOMBIE"]
  /\ waitLock' = Null
  /\ sched_swtch(c, p)
  /\ Goto(p, "none")
  /\ UNCHANGED <<chan, killed, pid, tickets, parent, nextpid, schedulerMode,
                 curproc, si, total, winning, sum, locals>>

-----------------------------------------------------------------------------
(* wait() and sleep()                                                      *)

\* acquire(&wait_lock): at the start of wait(), and at the end of sleep().
\* Both go on with a scan of the whole table.
WaitStart(c, p) ==
  /\ Running(c, p, "wait") \/ Running(c, p, "reacquire")
  /\ waitLock = Null
  /\ waitLock' = c
  /\ havekids' = [havekids EXCEPT ![p] = FALSE]
  /\ Goto(p, "scan")
  /\ UNCHANGED <<table, plock, nextpid, schedulerMode, curproc, sched, idx,
                 ridx, arg, resume>>

\* One slot of the scan.  A child's lock is taken to look at it; a zombie ends
\* the call: it is freed, unless copyout() of its status fails.
WaitScan(c, p) ==
  /\ Running(c, p, "scan")
  /\ idx[p] < NPROC
  /\ LET k == idx[p] IN
     \/ /\ parent[k] # p
        /\ idx' = [idx EXCEPT ![p] = @ + 1]
        /\ UNCHANGED <<table, waitLock, pc, havekids>>
     \/ /\ parent[k] = p /\ plock[k] = Null
        /\ state[k] # "ZOMBIE"
        /\ idx' = [idx EXCEPT ![p] = @ + 1]
        /\ havekids' = [havekids EXCEPT ![p] = TRUE]
        /\ UNCHANGED <<table, waitLock, pc>>
     \/ /\ parent[k] = p /\ plock[k] = Null
        /\ state[k] = "ZOMBIE"
        /\ (freeproc(k) /\ UNCHANGED tickets) \/ UNCHANGED table
        /\ waitLock' = Null
        /\ idx' = [idx EXCEPT ![p] = 0]
        /\ havekids' = [havekids EXCEPT ![p] = FALSE]
        /\ Goto(p, "trapret")
  /\ UNCHANGED <<plock, nextpid, schedulerMode, curproc, sched, ridx, arg,
                 resume>>

\* No zombie: return -1 without children, else look at killed.
WaitScanned(c, p) ==
  /\ Running(c, p, "scan")
  /\ idx[p] = NPROC
  /\ idx' = [idx EXCEPT ![p] = 0]
  /\ havekids' = [havekids EXCEPT ![p] = FALSE]
  /\ \/ havekids[p] /\ Goto(p, "checkkilled") /\ UNCHANGED waitLock
     \/ ~havekids[p] /\ Goto(p, "trapret") /\ waitLock' = Null
  /\ UNCHANGED <<table, plock, nextpid, schedulerMode, curproc, sched, ridx,
                 arg, resume>>

\* killed(p) in wait(): a critical section of its own, before sleep()'s.
WaitKilled(c, p) ==
  /\ Running(c, p, "checkkilled")
  /\ plock[p] = Null
  /\ \/ killed[p] = 0 /\ Goto(p, "sleep") /\ UNCHANGED waitLock
     \/ killed[p] = 1 /\ Goto(p, "trapret") /\ waitLock' = Null
  /\ UNCHANGED <<table, plock, nextpid, schedulerMode, curproc, sched, locals>>

\* sleep(p, &wait_lock) up to its swtch.
WaitSleep(c, p) ==
  /\ Running(c, p, "sleep")
  /\ plock[p] = Null
  /\ waitLock' = Null
  /\ chan' = [chan EXCEPT ![p] = p]
  /\ state' = [state EXCEPT ![p] = "SLEEPING"]
  /\ sched_swtch(c, p)
  /\ Goto(p, "slept")
  /\ UNCHANGED <<killed, pid, tickets, parent, nextpid, schedulerMode,
                 curproc, si, total, winning, sum, locals>>

-----------------------------------------------------------------------------
(* kill(), one slot.                                                       *)

Kill(c, p) ==
  /\ Running(c, p, "kill")
  /\ \/ /\ idx[p] < NPROC
        /\ plock[idx[p]] = Null
        /\ LET k == idx[p] IN
           \/ /\ pid[k] = arg[p]
              /\ killed' = [killed EXCEPT ![k] = 1]
              /\ state' = [state EXCEPT ![k] = IF @ = "SLEEPING"
                                                 THEN "RUNNABLE" ELSE @]
              /\ idx' = [idx EXCEPT ![p] = 0]
              /\ arg' = [arg EXCEPT ![p] = 0]
              /\ Goto(p, "trapret")
           \/ /\ pid[k] # arg[p]
              /\ idx' = [idx EXCEPT ![p] = @ + 1]
              /\ UNCHANGED <<killed, state, arg, pc>>
     \/ /\ idx[p] = NPROC
        /\ idx' = [idx EXCEPT ![p] = 0]
        /\ arg' = [arg EXCEPT ![p] = 0]
        /\ Goto(p, "trapret")
        /\ UNCHANGED <<killed, state>>
  /\ UNCHANGED <<chan, pid, tickets, parent, plock, waitLock, nextpid,
                 schedulerMode, curproc, sched, ridx, havekids, resume>>

-----------------------------------------------------------------------------
SchedStep(c) ==
  \/ SchedTop(c) \/ LotteryCount(c) \/ LotteryDraw(c) \/ LotteryPick(c)
  \/ RoundRobin(c) \/ PassDone(c) \/ SwitchBack(c)

\* Steps the kernel takes on its own once the thread is in the kernel.
KernelStep(c, p) ==
  \/ UserYield(c, p) \/ SwitchedInStep(c, p) \/ TrapRet(c, p)
  \/ ForkAlloc(c, p) \/ ForkFull(c, p) \/ ForkParent(c, p) \/ ForkRun(c, p)
  \/ ExitStart(c, p) \/ Reparent(c, p) \/ ExitWakeup(c, p) \/ ExitZombie(c, p)
  \/ WaitStart(c, p) \/ WaitScan(c, p) \/ WaitScanned(c, p)
  \/ WaitKilled(c, p) \/ WaitSleep(c, p) \/ Kill(c, p)

\* What a user program or the hardware may do next.
UserStep(c, p) ==
  \/ Syscall(c, p) \/ SetTickets(c, p) \/ SetSched(c, p)
  \/ Fault(c, p) \/ TimerUser(c, p)

Next ==
  \E c \in CPU :
    \/ SchedStep(c)
    \/ \E p \in Slot : KernelStep(c, p) \/ UserStep(c, p) \/ KernelYield(c, p)

Spec == Init /\ [][Next]_vars

\* The kernel code of a CPU and of the thread on it keeps running.  Fairness is
\* strong because a spinning acquire() is enabled only while the lock is free.
CPUStep(c) == SchedStep(c) \/ \E p \in Slot : KernelStep(c, p)
\* A thread that gets the CPU again and again executes its own code: a time
\* slice is far longer than one step, so the timer cannot win every time.
ThreadStep(p) == pc[p] \notin SwitchedIn /\ \E c \in CPU : KernelStep(c, p)
\* Timer interrupts keep coming (clockintr re-arms stimecmp) and a pending one
\* is taken as soon as interrupts are on.
TimerStep(c) == \E p \in Slot : TimerUser(c, p) \/ KernelYield(c, p)

FairSpec ==
  /\ Spec
  /\ \A c \in CPU : SF_vars(CPUStep(c)) /\ SF_vars(TimerStep(c))
  /\ \A p \in Slot : SF_vars(ThreadStep(p))

-----------------------------------------------------------------------------
(* Properties                                                              *)

\* Every variable stays in its type.
TypeOK ==
  /\ state \in [Slot -> States]
  /\ chan \in [Slot -> Slot \cup {Null}]
  /\ killed \in [Slot -> {0, 1}]
  /\ pid \in [Slot -> Nat]
  /\ tickets \in [Slot -> Int]
  /\ parent \in [Slot -> Slot \cup {Null}]
  /\ plock \in [Slot -> CPU \cup {Null}]
  /\ waitLock \in CPU \cup {Null}
  /\ nextpid \in Nat
  /\ schedulerMode \in {0, 1}
  /\ curproc \in [CPU -> Slot \cup {Null}]
  /\ spc \in [CPU -> SchedLabels]
  /\ si \in [CPU -> Index]
  /\ total \in [CPU -> Int]
  /\ winning \in [CPU -> Int]
  /\ sum \in [CPU -> Int]
  /\ pc \in [Slot -> Labels]
  /\ idx \in [Slot -> Index]
  /\ ridx \in [Slot -> Index]
  /\ arg \in [Slot -> Int]
  /\ havekids \in [Slot -> BOOLEAN]
  /\ resume \in [Slot -> Preemptible \cup {"none", "user"}]

\* No process is on two CPUs: swtch() to a context happens only after the
\* context was saved, because sched() keeps p->lock until the old scheduler
\* releases it (proc.c sched, scheduler).
OneCPU ==
  \A c, d \in CPU : curproc[c] # Null /\ curproc[c] = curproc[d] => c = d

\* RUNNING means on a CPU, and a process on a CPU that is not RUNNING is inside
\* the swtch window, where that CPU holds its p->lock (proc.c sched).
RunningOnCPU ==
  /\ \A p \in Slot : state[p] = "RUNNING" => \E c \in CPU : curproc[c] = p
  /\ \A c \in CPU : curproc[c] # Null /\ state[curproc[c]] # "RUNNING"
                      => plock[curproc[c]] = c

\* The hand-over of p->lock through swtch(), from which OneCPU and
\* RunningOnCPU follow.  Where a thread is, seen through a pending yield():
At(p) == IF pc[p] = "yielded" THEN resume[p] ELSE pc[p]
ForkPending(p) == At(p) \in {"forkparent", "forkrun"}

\* c->proc is set exactly while a process owns the CPU or is switching back.
CurProcInv ==
  \A c \in CPU :
    /\ curproc[c] # Null <=> spc[c] \in InProcess \cup SwitchingBack
    /\ spc[c] \in InProcess => state[curproc[c]] = "RUNNING"
    /\ spc[c] \in SwitchingBack =>
         plock[curproc[c]] = c /\ state[curproc[c]] # "RUNNING"
    /\ spc[c] \in {"run_rr", "back_rr"} => si[c] < NPROC

\* A p->lock that outlives a step is held for the process of the holder's CPU,
\* and a thread that was just switched to holds its own.
LockInv ==
  /\ \A p \in Slot : plock[p] # Null => curproc[plock[p]] = p
  /\ \A c \in CPU : spc[c] \in InProcess /\ pc[curproc[c]] \in SwitchedIn
                      => plock[curproc[c]] = c

\* The slot fork() is filling stays USED and belongs to one fork() only.
ForkInv ==
  /\ \A p \in Slot : ForkPending(p) => arg[p] \in Slot /\ state[arg[p]] = "USED"
  /\ \A p, q \in Slot : ForkPending(p) /\ ForkPending(q) /\ arg[p] = arg[q]
                          => p = q

\* The inductive invariant: swtch() hands every process, with its lock, to one
\* CPU at a time (proc.c scheduler, sched).
HandoverInv ==
  TypeOK /\ OneCPU /\ RunningOnCPU /\ CurProcInv /\ LockInv /\ ForkInv

\* wait() misses no exit: once wait_lock is free, no parent is asleep in wait()
\* while it has a zombie child (exit wakes the parent and reparent wakes init
\* before wait_lock is released).
NoLostExit ==
  waitLock = Null =>
    \A p, q \in Slot : state[q] = "ZOMBIE" /\ parent[q] = p
                         => ~(state[p] = "SLEEPING" /\ chan[p] = p)

\* A process that can run, and a zombie, always has a parent that can still
\* wait() for it: exit() reparents before it becomes a zombie, fork() sets the
\* parent before the child is RUNNABLE.
LiveParent ==
  \A q \in Slot \ {initproc} :
    state[q] \notin {"UNUSED", "USED"}
      => parent[q] # Null /\ state[parent[q]] \notin {"UNUSED", "USED", "ZOMBIE"}

\* What fork(), exit() and wait() rely on, from which NoLostExit and LiveParent follow.
\* A thread inside a wait_lock section runs on the CPU that holds wait_lock.
WaitHolder ==
  \A p \in Slot : pc[p] \in HoldsWaitLock =>
    waitLock \in CPU /\ curproc[waitLock] = p /\ spc[waitLock] \in InProcess

\* A loop over proc[] starts at slot 0, and a slot without a process has no thread.
LoopInv ==
  \A p \in Slot :
    /\ idx[p] # 0 => At(p) \in {"fork", "kill", "scan", "wakeinit", "wakeparent"}
    /\ ridx[p] # 0 => pc[p] \in {"reparent", "wakeinit"}
    /\ state[p] \in {"UNUSED", "ZOMBIE"} => pc[p] = "none"

\* init never exits; exit() leaves no child behind in the slots that reparent() has passed.
ExitInv ==
  \A p \in Slot : pc[p] \in {"reparent", "wakeinit", "wakeparent", "zombie"} =>
    /\ p # initproc
    /\ \A k \in Slot : k < ridx[p] \/ pc[p] \in {"wakeparent", "zombie"} => parent[k] # p

\* fork() has set the parent of the child that it is going to run; init is there for orphans.
ParentInv ==
  /\ \A p \in Slot : At(p) = "forkrun" => parent[arg[p]] = p
  /\ state[initproc] \notin {"UNUSED", "USED", "ZOMBIE"}

\* wait() has found no zombie in the slots that its scan has passed.
ScanInv ==
  \A p, k \in Slot :
    pc[p] \in {"scan", "checkkilled", "sleep"} /\ parent[k] = p
      /\ (pc[p] = "scan" => k < idx[p])
      => state[k] # "ZOMBIE"

\* A parent that sleeps in wait() and has a zombie is init, which reparent() is about to
\* wake; exit() has woken the parent before it becomes a zombie.
AsleepInWait(p) == state[p] = "SLEEPING" /\ chan[p] = p
WakeInv ==
  /\ \A p, q \in Slot : state[q] = "ZOMBIE" /\ parent[q] = p /\ AsleepInWait(p) =>
       p = initproc /\ \E r \in Slot : pc[r] = "wakeinit" /\ idx[r] <= initproc
  /\ \A p, q \in Slot : parent[q] = p
       /\ (pc[q] = "zombie" \/ (pc[q] = "wakeparent" /\ p < idx[q])) => ~AsleepInWait(p)

FamilyInv == WaitHolder /\ LoopInv /\ ExitInv /\ ParentInv /\ LiveParent /\ ScanInv /\ WakeInv

\* Two processes never share a pid, so kill() and wait() name one process.
PidUnique ==
  \A p, q \in Slot : pid[p] = pid[q] /\ pid[p] # 0 => p = q

\* allocpid() has handed out every pid in the table.
PidInv == PidUnique /\ \A p \in Slot : pid[p] < nextpid

\* The slot of a process is reused only after its parent waited for it: a
\* zombie stays one, under its pid, until a thread of its parent, holding
\* wait_lock, frees it (proc.c exit: "remains in the zombie state until its
\* parent calls wait()").
ReapedByParent ==
  [][\A q \in Slot : state[q] = "ZOMBIE" /\ state'[q] # "ZOMBIE" =>
       /\ state'[q] = "UNUSED"
       /\ waitLock # Null
       /\ curproc[waitLock] = parent[q]
       /\ pc[parent[q]] = "scan"]_vars

\* Round-robin starves nobody: each pass of scheduler() visits every slot, and
\* the timer takes the CPU back from whatever runs.
RRNoStarvation ==
  \A p \in Slot : state[p] = "RUNNABLE" ~> state[p] # "RUNNABLE"

\* A parent that is asleep in wait() when a child becomes a zombie, or that was
\* woken for it, gets out of wait().
WaitReturns ==
  \A p \in Slot :
    (pc[p] \in {"slept", "reacquire"}
       /\ \E q \in Slot : state[q] = "ZOMBIE" /\ parent[q] = p)
      ~> pc[p] = "trapret"

\* kill() acts on processes (its comment: "Kill the process with the given
\* pid"): it never marks a slot that holds no process.
KillsProcesses ==
  \A p \in Slot : killed[p] = 1 => state[p] # "UNUSED"
=============================================================================
