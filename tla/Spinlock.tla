------------------------------ MODULE Spinlock ------------------------------
(***************************************************************************)
(* Spin locks, the nesting of push_off() and pop_off(), and what they do   *)
(* to interrupts (spinlock.c) when kernel threads are interrupted, and     *)
(* when they move between CPUs holding p->lock (sched(), scheduler()).     *)
(*                                                                         *)
(* Kernel code is the sequence of lock operations it performs.             *)
(***************************************************************************)
EXTENDS Integers, Sequences, FiniteSets, TLC

CONSTANTS
  Thread,   \* kernel threads of processes; t also names t's p->lock
  Core,     \* the CPUs; c also names c's scheduler()
  Lock      \* the locks that both system calls and interrupt handlers take

Spin == Thread \cup Lock
Context == Thread \cup Core
NoCpu == 0    \* lk->cpu of a free lock

VARIABLES
  locked, owner,        \* lk->locked, lk->cpu
  intr, noff, intena,   \* per CPU: sstatus.SIE, and the fields of struct cpu
  on,                   \* per CPU: the context that it runs
  frames,               \* per context: what is left to do, interrupted code below the handler
  paniced               \* a check has failed: nothing goes on

lockvars == <<locked, owner, intr, noff, intena, on, frames, paniced>>

\* Operations; a frame is at step `at' of the first operation that is left, with the
\* local `old' of push_off() or `intena' of sched().
A(k) == <<"acquire", k>>
R(k) == <<"release", k>>
S(t) == <<"swtch", t>>
Frame(kind, todo) == [kind |-> kind, todo |-> todo, at |-> 0, old |-> FALSE]

\* The threads are new: forkret() is to release p->lock.
LockInit ==
  /\ locked \in [Spin -> {FALSE}] /\ owner \in [Spin -> {NoCpu}]
  /\ intr = [c \in Core |-> FALSE] /\ noff = [c \in Core |-> 0] /\ intena = [c \in Core |-> FALSE]
  /\ on = [c \in Core |-> c]
  /\ frames = [t \in Thread |-> <<Frame("base", <<R(t)>>)>>] @@ [c \in Core |-> <<Frame("base", <<>>)>>]
  /\ paniced = FALSE

F(c) == Head(frames[on[c]])
Op(c) == Head(F(c).todo)
Doing(c, name, at) == ~paniced /\ F(c).todo # <<>> /\ Op(c)[1] = name /\ F(c).at = at
SetFrame(c, f) == frames' = [frames EXCEPT ![on[c]] = <<f>> \o Tail(@)]
Goto(c, n) == SetFrame(c, [F(c) EXCEPT !.at = n])
OpDone(c) == SetFrame(c, [F(c) EXCEPT !.at = 0, !.todo = Tail(@), !.old = FALSE])

holding(c, k) == locked[k] /\ owner[k] = c
-----------------------------------------------------------------------------
\* push_off(): old = intr_get(), on whatever CPU the thread is at this moment.
PushOld(c) ==
  /\ Doing(c, "acquire", 0)
  /\ SetFrame(c, [F(c) EXCEPT !.at = 1, !.old = intr[c]])
  /\ UNCHANGED <<locked, owner, intr, noff, intena, on, paniced>>

\* The rest of push_off(), and acquire()'s look at holding().
PushOff(c) ==
  /\ Doing(c, "acquire", 1)
  /\ intr' = [intr EXCEPT ![c] = FALSE]
  /\ intena' = [intena EXCEPT ![c] = IF noff[c] = 0 THEN F(c).old ELSE @]
  /\ noff' = [noff EXCEPT ![c] = @ + 1]
  /\ paniced' = holding(c, Op(c)[2])
  /\ Goto(c, 2)
  /\ UNCHANGED <<locked, owner, on>>

\* __sync_lock_test_and_set() finds 0.
Swap(c) ==
  /\ Doing(c, "acquire", 2) /\ ~locked[Op(c)[2]]
  /\ locked' = [locked EXCEPT ![Op(c)[2]] = TRUE]
  /\ Goto(c, 3)
  /\ UNCHANGED <<owner, intr, noff, intena, on, paniced>>

\* lk->cpu = mycpu()
Record(c) ==
  /\ Doing(c, "acquire", 3)
  /\ owner' = [owner EXCEPT ![Op(c)[2]] = c]
  /\ OpDone(c)
  /\ UNCHANGED <<locked, intr, noff, intena, on, paniced>>

\* release(): lk->cpu = 0
Forget(c) ==
  /\ Doing(c, "release", 0)
  /\ paniced' = ~holding(c, Op(c)[2])
  /\ owner' = [owner EXCEPT ![Op(c)[2]] = NoCpu]
  /\ Goto(c, 1)
  /\ UNCHANGED <<locked, intr, noff, intena, on>>

\* __sync_lock_release(), then pop_off(), which only this CPU can see.
PopOff(c) ==
  /\ Doing(c, "release", 1)
  /\ locked' = [locked EXCEPT ![Op(c)[2]] = FALSE]
  /\ paniced' = (intr[c] \/ noff[c] < 1)
  /\ noff' = [noff EXCEPT ![c] = @ - 1]
  /\ intr' = [intr EXCEPT ![c] = noff[c] = 1 /\ intena[c]]
  /\ OpDone(c)
  /\ UNCHANGED <<owner, intena, on>>
-----------------------------------------------------------------------------
\* sched(): its checks, intena saved, swtch() to this CPU's scheduler.
SchedLeave(c) ==
  /\ Doing(c, "swtch", 0) /\ on[c] \in Thread
  /\ paniced' = ~(holding(c, on[c]) /\ noff[c] = 1 /\ ~intr[c])
  /\ SetFrame(c, [F(c) EXCEPT !.at = 1, !.old = intena[c]])
  /\ on' = [on EXCEPT ![c] = c]
  /\ UNCHANGED <<locked, owner, intr, noff, intena>>

\* Mutant: intena stays what it was on this CPU.
Restored_cpu(c) == intena[c]

\* mycpu()->intena = intena, after swtch() has returned, maybe on another CPU.
Restored(c) == F(c).old
SchedReturn(c) ==
  /\ Doing(c, "swtch", 1) /\ on[c] \in Thread
  /\ intena' = [intena EXCEPT ![c] = Restored(c)]
  /\ OpDone(c)
  /\ UNCHANGED <<locked, owner, intr, noff, on, paniced>>

\* scheduler(), with p->lock: a process that runs nowhere is RUNNABLE, and is run.
SchedulerSwtch(c) ==
  /\ Doing(c, "swtch", 0) /\ on[c] = c
  /\ LET t == Op(c)[2]
     IN on' = IF \E d \in Core : on[d] = t THEN on ELSE [on EXCEPT ![c] = t]
  /\ OpDone(c)
  /\ UNCHANGED <<locked, owner, intr, noff, intena, paniced>>

\* scheduler(): intr_on() at the top of its loop, then any slots of the table.
SchedulerLoop(c) ==
  /\ ~paniced /\ on[c] = c /\ F(c).kind = "base" /\ F(c).todo = <<>>
  /\ \E i \in {TRUE, intr[c]} : intr' = [intr EXCEPT ![c] = i]
  /\ \E t \in Thread : SetFrame(c, Frame("base", <<A(t), S(t), R(t)>>))
  /\ UNCHANGED <<locked, owner, noff, intena, on, paniced>>
-----------------------------------------------------------------------------
\* What kernel code does: a critical section that wakes somebody up, sleep() in one.
wakeup_(x, k) == {<<A(k), R(k)>>} \cup {<<A(k), A(u), R(u), R(k)>> : u \in Thread \ {x}}
sleep_(t, k) == <<A(k), A(t), R(k), S(t), R(t), A(k), R(k)>>
yield_(t) == <<A(t), S(t), R(t)>>
System(t) == UNION {{sleep_(t, k)} \cup wakeup_(t, k) : k \in Lock}
\* A device interrupt, or the timer's with its yield() when there is a process.
Handler(x) ==
  LET h == UNION {wakeup_(x, k) : k \in Lock}
  IN h \cup IF x \in Thread THEN {s \o yield_(x) : s \in h} ELSE {}

\* usertrap(): a system call turns interrupts on; an interrupt is handled with them off.
UserTrap(c) ==
  /\ ~paniced /\ on[c] \in Thread /\ F(c).todo = <<>> /\ F(c).kind = "base"
  /\ \/ /\ intr' = [intr EXCEPT ![c] = TRUE]
        /\ \E s \in System(on[c]) : SetFrame(c, Frame("base", s))
     \/ /\ intr' = [intr EXCEPT ![c] = FALSE]
        /\ \E s \in Handler(on[c]) : frames' = [frames EXCEPT ![on[c]] = <<Frame("intr", s)>> \o @]
  /\ UNCHANGED <<locked, owner, noff, intena, on, paniced>>

\* kernelvec and kerneltrap(): the hardware turns interrupts off.
KernelTrap(c) ==
  /\ ~paniced /\ intr[c] /\ (on[c] = c \/ F(c).todo # <<>>)
  /\ Len(frames[on[c]]) = 1
  /\ intr' = [intr EXCEPT ![c] = FALSE]
  /\ \E s \in Handler(on[c]) : frames' = [frames EXCEPT ![on[c]] = <<Frame("kernel", s)>> \o @]
  /\ UNCHANGED <<locked, owner, noff, intena, on, paniced>>

\* The handler returns: sret turns interrupts on where they were on.
TrapReturn(c) ==
  /\ ~paniced /\ F(c).todo = <<>> /\ F(c).kind # "base"
  /\ intr' = [intr EXCEPT ![c] = F(c).kind = "kernel"]
  /\ frames' = [frames EXCEPT ![on[c]] = Tail(@)]
  /\ UNCHANGED <<locked, owner, noff, intena, on, paniced>>

LockNext ==
  \E c \in Core :
    \/ PushOld(c) \/ PushOff(c) \/ Swap(c) \/ Record(c)
    \/ Forget(c) \/ PopOff(c)
    \/ SchedLeave(c) \/ SchedReturn(c) \/ SchedulerSwtch(c) \/ SchedulerLoop(c)
    \/ UserTrap(c) \/ KernelTrap(c) \/ TrapReturn(c)
-----------------------------------------------------------------------------
\* x is in a critical section of k: it has taken k and not yet given it back.
Inside(x, k) ==
  \E f \in {frames[x][i] : i \in DOMAIN frames[x]} :
    LET ops == SelectSeq(f.todo, LAMBDA o : o[2] = k)
    IN ops # <<>> /\ Head(ops)[1] = "release"

\* c spins on a lock that d holds.
SpinsFor(c, d) == Doing(c, "acquire", 2) /\ holding(d, Op(c)[2])

\* States that differ only in an intena that the next push_off() overwrites are the same.
LockView == <<locked, owner, intr, noff, [c \in Core |-> noff[c] > 0 /\ intena[c]], on, frames, paniced>>

\* No check of acquire(), release(), pop_off() or sched() fails.  One context at a time
\* is in a critical section, and there are no interrupts on its CPU.  Wherever a thread
\* went in sched(), an interrupt handler goes on with interrupts off and a system call
\* that holds no lock with interrupts on.  CPUs never spin for each other in a circle.
LocksSafe ==
  /\ ~paniced
  /\ \A k \in Lock : Cardinality({x \in Context : Inside(x, k)}) <= 1
  /\ \A c \in Core :
       /\ intr[c] => noff[c] = 0 /\ \A k \in Spin : owner[k] # c
       /\ F(c).kind # "base" => ~intr[c]
       /\ on[c] \in Thread /\ F(c).kind = "base" /\ F(c).todo # <<>> /\ F(c).at = 0
            /\ noff[c] = 0 => intr[c]
  /\ \A W \in SUBSET Core \ {{}} : \E c \in W : \A d \in W : ~SpinsFor(c, d)
=============================================================================
