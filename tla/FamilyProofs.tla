---------------------------- MODULE FamilyProofs ----------------------------
(***************************************************************************)
(* Proofs about fork(), exit() and wait(): wait() misses no exit, every    *)
(* process keeps a parent that can wait for it, a zombie is freed by its   *)
(* parent only, and pids are unique, whatever NPROC and the set of CPUs.   *)
(* FamilyInv is inductive on top of the invariant of ProcProofs: the first *)
(* lemmas treat the effects that steps have on the process table, the      *)
(* program counters and wait_lock, and the later ones show which effect    *)
(* each action has.                                                        *)
(***************************************************************************)
EXTENDS ProcProofs

-----------------------------------------------------------------------------
(* Effects that preserve FamilyInv. *)

\* wait_lock has one holder: two threads inside its sections are the same.
LEMMA OneHolder ==
  ASSUME WaitHolder, NEW p \in Slot, NEW q \in Slot,
         pc[p] \in HoldsWaitLock, pc[q] \in HoldsWaitLock
  PROVE  p = q
  BY DEF WaitHolder

\* The CPU that runs a thread inside a wait_lock section holds wait_lock.
LEMMA HolderCPU ==
  ASSUME Core, WaitHolder, NEW c \in CPU, NEW p \in Slot,
         curproc[c] = p, pc[p] \in HoldsWaitLock
  PROVE  waitLock = c /\ waitLock # Null
  BY ProcAssumption DEF Core, OneCPU, WaitHolder

\* While wait_lock is free no thread is inside a section of it.
LEMMA NoHolder ==
  ASSUME WaitHolder, waitLock = Null, NEW p \in Slot
  PROVE  pc[p] \notin HoldsWaitLock
  BY ProcAssumption DEF WaitHolder

\* Slots are numbers, and init's is the first.
LEMMA SlotFacts ==
  /\ initproc \in Slot /\ initproc = 0 /\ Null \notin Slot
  /\ \A k \in Slot : k \in Int /\ 0 <= k /\ k < NPROC
  BY ProcAssumption DEF Slot, initproc

\* A step of scheduler() that leaves the table alone or makes a process RUNNING.
LEMMA SchedFamily ==
  ASSUME TypeOK, Core, FamilyInv, NEW c \in CPU, spc[c] \notin InProcess,
         \A d \in CPU : d # c => spc'[d] = spc[d] /\ curproc'[d] = curproc[d],
         \A k \in Slot : \/ state'[k] = state[k]
                         \/ state[k] = "RUNNABLE" /\ state'[k] = "RUNNING",
         UNCHANGED <<chan, parent, waitLock, pc, resume, arg, idx, ridx>>
  PROVE  FamilyInv'
<1>t. \A q \in Slot : parent[q] \in Slot \cup {Null}
  BY DEF TypeOK
<1>1. WaitHolder'
  BY DEF FamilyInv, WaitHolder
<1>2. LoopInv' /\ ExitInv'
  BY DEF FamilyInv, LoopInv, ExitInv, At
<1>3. ParentInv'
  BY SlotFacts DEF FamilyInv, ParentInv, At
<1>4. LiveParent'
  BY <1>t DEF FamilyInv, LiveParent
<1>5. ScanInv'
  BY DEF FamilyInv, ScanInv
<1>6. WakeInv'
  BY DEF FamilyInv, WakeInv, AsleepInWait
<1> QED BY <1>1, <1>2, <1>3, <1>4, <1>5, <1>6 DEF FamilyInv

\* A step of a thread outside the wait_lock sections: other slots may be woken,
\* and the fields of an UNUSED slot may be reset.
LEMMA ThreadFamily ==
  ASSUME TypeOK, Core, FamilyInv, NEW c \in CPU, NEW p \in Slot,
         curproc[c] = p, spc[c] \in InProcess,
         pc[p] \notin HoldsWaitLock, pc'[p] \notin HoldsWaitLock,
         \A d \in CPU : d # c => spc'[d] = spc[d],
         \A q \in Slot : q # p => /\ pc'[q] = pc[q] /\ resume'[q] = resume[q]
                                  /\ arg'[q] = arg[q] /\ idx'[q] = idx[q],
         \A k \in Slot : \/ state'[k] = state[k]
                         \/ /\ state[k] \in {"SLEEPING", "RUNNING"}
                            /\ state'[k] = "RUNNABLE",
         \A k \in Slot : chan'[k] = chan[k] \/ chan'[k] = Null,
         \A k \in Slot : \/ parent'[k] = parent[k]
                         \/ state[k] = "UNUSED" /\ parent'[k] = Null,
         idx'[p] # 0 => At(p)' \in {"fork", "kill"},
         At(p)' = "forkrun" => At(p) = "forkrun" /\ arg'[p] = arg[p],
         UNCHANGED <<curproc, waitLock, ridx>>
  PROVE  FamilyInv'
<1>t. /\ \A q \in Slot : parent[q] \in Slot \cup {Null}
      /\ state[p] = "RUNNING"
  BY DEF TypeOK, Core, CurProcInv
<1>1. WaitHolder'
  <2> SUFFICES ASSUME NEW q \in Slot, pc'[q] \in HoldsWaitLock
               PROVE  /\ waitLock \in CPU /\ curproc[waitLock] = q
                      /\ spc'[waitLock] \in InProcess
    BY DEF WaitHolder
  <2>1. q # p /\ pc[q] \in HoldsWaitLock
    OBVIOUS
  <2>2. waitLock \in CPU /\ curproc[waitLock] = q /\ spc[waitLock] \in InProcess
    BY <2>1 DEF FamilyInv, WaitHolder
  <2> QED BY <2>1, <2>2
<1>2. LoopInv'
  <2> SUFFICES ASSUME NEW q \in Slot
               PROVE  /\ idx'[q] # 0 => At(q)' \in {"fork", "kill", "scan", "wakeinit", "wakeparent"}
                      /\ ridx'[q] # 0 => pc'[q] \in {"reparent", "wakeinit"}
                      /\ state'[q] \in {"UNUSED", "ZOMBIE"} => pc'[q] = "none"
    BY DEF LoopInv
  <2>1. CASE q = p
    BY <2>1, <1>t DEF FamilyInv, LoopInv, HoldsWaitLock
  <2>2. CASE q # p
    BY <2>2 DEF FamilyInv, LoopInv, At
  <2> QED BY <2>1, <2>2
<1>3. ExitInv'
  <2> SUFFICES ASSUME NEW q \in Slot, pc'[q] \in {"reparent", "wakeinit", "wakeparent", "zombie"}
               PROVE  /\ q # initproc
                      /\ \A k \in Slot : k < ridx'[q] \/ pc'[q] \in {"wakeparent", "zombie"}
                                           => parent'[k] # q
    BY DEF ExitInv
  <2>1. q # p /\ pc'[q] = pc[q]
    BY DEF HoldsWaitLock
  <2>2. /\ q # initproc
        /\ \A k \in Slot : k < ridx[q] \/ pc[q] \in {"wakeparent", "zombie"} => parent[k] # q
    BY <2>1 DEF FamilyInv, ExitInv
  <2>3. q # Null
    BY SlotFacts
  <2>4. \A k \in Slot : parent'[k] = parent[k] \/ parent'[k] # q
    BY <2>3
  <2> QED BY <2>1, <2>2, <2>4
<1>4. ParentInv'
  <2>1. \A q \in Slot : At(q)' = "forkrun" => At(q) = "forkrun" /\ arg'[q] = arg[q]
    BY DEF At
  <2>2. \A q \in Slot : At(q) = "forkrun" =>
          arg[q] \in Slot /\ state[arg[q]] = "USED" /\ parent[arg[q]] = q
    BY DEF FamilyInv, ParentInv, Core, ForkInv, ForkPending
  <2>3. \A q \in Slot : At(q)' = "forkrun" => parent'[arg'[q]] = q
    BY <2>1, <2>2
  <2>4. state'[initproc] \notin {"UNUSED", "USED", "ZOMBIE"}
    BY SlotFacts DEF FamilyInv, ParentInv
  <2> QED BY <2>3, <2>4 DEF ParentInv
<1>5. LiveParent'
  BY <1>t DEF FamilyInv, LiveParent
<1>6. ScanInv'
  <2> SUFFICES ASSUME NEW q \in Slot, NEW k \in Slot,
                      pc'[q] \in {"scan", "checkkilled", "sleep"}, parent'[k] = q,
                      pc'[q] = "scan" => k < idx'[q]
               PROVE  state'[k] # "ZOMBIE"
    BY DEF ScanInv
  <2>1. q # p /\ pc'[q] = pc[q] /\ idx'[q] = idx[q]
    BY DEF HoldsWaitLock
  <2> QED BY <2>1, SlotFacts DEF FamilyInv, ScanInv
<1>7. WakeInv'
  <2>1. \A q \in Slot : AsleepInWait(q)' => AsleepInWait(q)
    BY SlotFacts DEF AsleepInWait
  <2>2. ASSUME NEW q \in Slot, NEW k \in Slot,
               state'[k] = "ZOMBIE", parent'[k] = q, AsleepInWait(q)'
        PROVE  q = initproc /\ \E r \in Slot : pc'[r] = "wakeinit" /\ idx'[r] <= initproc
    <3>1. state[k] = "ZOMBIE" /\ parent[k] = q /\ AsleepInWait(q)
      BY <2>1, <2>2, SlotFacts
    <3>2. q = initproc /\ \E r \in Slot : pc[r] = "wakeinit" /\ idx[r] <= initproc
      BY <3>1 DEF FamilyInv, WakeInv
    <3>3. PICK r \in Slot : pc[r] = "wakeinit" /\ idx[r] <= initproc
      BY <3>2
    <3>4. r # p
      BY <3>3 DEF HoldsWaitLock
    <3> QED BY <3>2, <3>3, <3>4
  <2>3. ASSUME NEW q \in Slot, NEW k \in Slot, parent'[k] = q,
               pc'[k] = "zombie" \/ (pc'[k] = "wakeparent" /\ q < idx'[k])
        PROVE  ~AsleepInWait(q)'
    <3>1. k # p /\ parent[k] = q
      BY <2>3, SlotFacts DEF HoldsWaitLock
    <3>2. pc[k] = "zombie" \/ (pc[k] = "wakeparent" /\ q < idx[k])
      BY <3>1, <2>3
    <3> QED BY <3>1, <3>2, <2>1 DEF FamilyInv, WakeInv
  <2> QED BY <2>2, <2>3 DEF WakeInv
<1> QED BY <1>1, <1>2, <1>3, <1>4, <1>5, <1>6, <1>7 DEF FamilyInv

\* allocproc() claims an UNUSED slot, whose thread will start at forkret().
LEMMA ForkAllocFamily ==
  ASSUME TypeOK, Core, FamilyInv, NEW c \in CPU, NEW p \in Slot, NEW k \in Slot,
         curproc[c] = p, spc[c] \in InProcess, pc[p] = "fork", state[k] = "UNUSED",
         state' = [state EXCEPT ![k] = "USED"],
         pc' = [pc EXCEPT ![k] = "forkret", ![p] = "forkparent"],
         arg' = [arg EXCEPT ![p] = k],
         idx' = [idx EXCEPT ![p] = 0],
         UNCHANGED <<chan, parent, curproc, spc, waitLock, resume, ridx>>
  PROVE  FamilyInv'
<1>n. state[p] = "RUNNING" /\ k # p /\ k # initproc
  BY DEF Core, CurProcInv, FamilyInv, ParentInv
<1>1. /\ \A q \in Slot : state'[q] = IF q = k THEN "USED" ELSE state[q]
      /\ pc'[p] = "forkparent" /\ pc'[k] = "forkret" /\ idx'[p] = 0
      /\ \A q \in Slot : q # p => arg'[q] = arg[q] /\ idx'[q] = idx[q]
      /\ \A q \in Slot : q # p /\ q # k => pc'[q] = pc[q]
  BY <1>n DEF TypeOK
<1>k. pc[k] = "none" /\ idx[k] = 0 /\ ridx[k] = 0 /\ ridx[p] = 0
  BY DEF FamilyInv, LoopInv, At
<1>h. \A q \in Slot : pc'[q] \in HoldsWaitLock => q # p /\ q # k /\ pc[q] = pc'[q]
  BY <1>1 DEF HoldsWaitLock
<1>t. \A q \in Slot : parent[q] \in Slot \cup {Null}
  BY DEF TypeOK
<1>2. WaitHolder'
  BY <1>h DEF FamilyInv, WaitHolder
<1>3. LoopInv'
  <2> SUFFICES ASSUME NEW q \in Slot
               PROVE  /\ idx'[q] # 0 => At(q)' \in {"fork", "kill", "scan", "wakeinit", "wakeparent"}
                      /\ ridx'[q] # 0 => pc'[q] \in {"reparent", "wakeinit"}
                      /\ state'[q] \in {"UNUSED", "ZOMBIE"} => pc'[q] = "none"
    BY DEF LoopInv
  <2>1. CASE q \in {p, k}
    BY <2>1, <1>1, <1>k, <1>n
  <2>2. CASE q \notin {p, k}
    <3>1. /\ pc'[q] = pc[q] /\ state'[q] = state[q] /\ idx'[q] = idx[q]
          /\ ridx'[q] = ridx[q] /\ At(q)' = At(q)
      BY <2>2, <1>1 DEF At
    <3> QED BY <3>1 DEF FamilyInv, LoopInv
  <2> QED BY <2>1, <2>2
<1>4. ExitInv'
  BY <1>h DEF FamilyInv, ExitInv, HoldsWaitLock
<1>5. ParentInv'
  <2>1. \A q \in Slot : At(q)' = "forkrun" => At(q) = "forkrun" /\ arg'[q] = arg[q]
    BY <1>1 DEF At
  <2>2. state'[initproc] \notin {"UNUSED", "USED", "ZOMBIE"}
    BY <1>1, <1>n, SlotFacts DEF FamilyInv, ParentInv
  <2> QED BY <2>1, <2>2 DEF FamilyInv, ParentInv
<1>6. LiveParent'
  BY <1>1, <1>t DEF FamilyInv, LiveParent
<1>7. ScanInv'
  BY <1>1, <1>h DEF FamilyInv, ScanInv, HoldsWaitLock
<1>8. WakeInv'
  <2>1. \A q \in Slot : AsleepInWait(q)' => AsleepInWait(q)
    BY <1>1 DEF AsleepInWait
  <2>2. \A r \in Slot : pc[r] = "wakeinit" => pc'[r] = pc[r] /\ idx'[r] = idx[r]
    BY <1>1, <1>k
  <2>3. \A q \in Slot : pc'[q] \in {"zombie", "wakeparent"}
                          => pc[q] = pc'[q] /\ idx'[q] = idx[q]
    BY <1>1
  <2>4. \A q \in Slot : state'[q] = "ZOMBIE" => state[q] = "ZOMBIE"
    BY <1>1
  <2> QED BY ONLY FamilyInv, UNCHANGED parent, <2>1, <2>2, <2>3, <2>4 DEF FamilyInv, WakeInv
<1> QED BY <1>2, <1>3, <1>4, <1>5, <1>6, <1>7, <1>8 DEF FamilyInv

\* fork() sets np->parent while wait_lock is free.
LEMMA ForkParentFamily ==
  ASSUME TypeOK, Core, FamilyInv, NEW c \in CPU, NEW p \in Slot, ForkParent(c, p)
  PROVE  FamilyInv'
<1>0. /\ pc[p] = "forkparent" /\ waitLock = Null
      /\ UNCHANGED <<state, chan, waitLock, curproc, spc, arg, idx, ridx, resume>>
  BY DEF ForkParent, Running, sched, locals
<1>a. arg[p] \in Slot /\ state[arg[p]] = "USED"
  BY <1>0 DEF Core, ForkInv, ForkPending, At
<1>1. /\ \A q \in Slot : pc'[q] = IF q = p THEN "forkrun" ELSE pc[q]
      /\ \A q \in Slot : parent'[q] = IF q = arg[p] THEN p ELSE parent[q]
  BY <1>a DEF ForkParent, Goto, TypeOK
<1>h. \A q \in Slot : pc'[q] \notin HoldsWaitLock /\ pc[q] \notin HoldsWaitLock
  BY <1>0, <1>1, NoHolder DEF FamilyInv, HoldsWaitLock
<1>2. WaitHolder'
  BY <1>h DEF WaitHolder
<1>3. LoopInv'
  BY <1>0, <1>1 DEF FamilyInv, LoopInv, At
<1>4. ExitInv' /\ ScanInv'
  BY <1>h DEF ExitInv, ScanInv, HoldsWaitLock
<1>5. ParentInv'
  <2>1. ASSUME NEW q \in Slot, At(q)' = "forkrun" PROVE parent'[arg[q]] = q
    <3>1. CASE q = p
      BY <3>1, <1>1, <1>a
    <3>2. CASE q # p
      <4>1. At(q) = "forkrun"
        BY <2>1, <3>2, <1>0, <1>1 DEF At
      <4>2. arg[q] \in Slot /\ arg[q] # arg[p] /\ parent[arg[q]] = q
        BY <4>1, <3>2, <1>0 DEF Core, ForkInv, ForkPending, At, FamilyInv, ParentInv
      <4> QED BY <4>2, <1>1
    <3> QED BY <3>1, <3>2
  <2> QED BY <2>1, <1>0 DEF FamilyInv, ParentInv
<1>6. LiveParent'
  BY <1>0, <1>1, <1>a DEF FamilyInv, LiveParent
<1>7. WakeInv'
  <2>1. \A q, r \in Slot : state[q] = "ZOMBIE" /\ parent'[q] = r => ~AsleepInWait(r)
    BY <1>1, <1>a, <1>h DEF FamilyInv, WakeInv, HoldsWaitLock
  <2> QED BY <2>1, <1>0, <1>h DEF WakeInv, AsleepInWait, HoldsWaitLock
<1> QED BY <1>2, <1>3, <1>4, <1>5, <1>6, <1>7 DEF FamilyInv

\* fork() makes its child RUNNABLE: the child has its parent by now.
LEMMA ForkRunFamily ==
  ASSUME TypeOK, Core, FamilyInv, NEW c \in CPU, NEW p \in Slot, ForkRun(c, p)
  PROVE  FamilyInv'
<1>0. /\ pc[p] = "forkrun" /\ curproc[c] = p /\ spc[c] \in InProcess
      /\ UNCHANGED <<chan, parent, waitLock, curproc, spc, idx, ridx, resume>>
  BY DEF ForkRun, Running, sched
<1> DEFINE a == arg[p]
<1>a. a \in Slot /\ state[a] = "USED" /\ parent[a] = p /\ state[p] = "RUNNING"
  BY <1>0 DEF Core, ForkInv, ForkPending, At, CurProcInv, FamilyInv, ParentInv
<1>1. /\ \A q \in Slot : state'[q] = IF q = a THEN "RUNNABLE" ELSE state[q]
      /\ pc'[p] = "trapret"
      /\ \A q \in Slot : q # p => pc'[q] = pc[q] /\ arg'[q] = arg[q]
  BY <1>a DEF ForkRun, Goto, TypeOK
<1> HIDE DEF a
<1>h. \A q \in Slot : pc'[q] \in HoldsWaitLock => q # p /\ pc[q] = pc'[q]
  BY <1>1 DEF HoldsWaitLock
<1>t. \A q \in Slot : parent[q] \in Slot \cup {Null}
  BY DEF TypeOK
<1>2. WaitHolder'
  BY <1>0, <1>h DEF FamilyInv, WaitHolder
<1>3. LoopInv'
  <2> SUFFICES ASSUME NEW q \in Slot
               PROVE  /\ idx'[q] # 0 => At(q)' \in {"fork", "kill", "scan", "wakeinit", "wakeparent"}
                      /\ ridx'[q] # 0 => pc'[q] \in {"reparent", "wakeinit"}
                      /\ state'[q] \in {"UNUSED", "ZOMBIE"} => pc'[q] = "none"
    BY DEF LoopInv
  <2>1. CASE q = p
    <3>1. idx[p] = 0 /\ ridx[p] = 0
      BY <1>0 DEF FamilyInv, LoopInv, At
    <3> QED BY <2>1, <3>1, <1>0, <1>1, <1>a
  <2>2. CASE q # p
    <3>1. /\ pc'[q] = pc[q] /\ At(q)' = At(q)
          /\ state'[q] \in {"UNUSED", "ZOMBIE"} => state[q] = state'[q]
      BY <2>2, <1>0, <1>1 DEF At
    <3> QED BY <1>0, <3>1 DEF FamilyInv, LoopInv
  <2> QED BY <2>1, <2>2
<1>4. ExitInv'
  BY <1>0, <1>h DEF FamilyInv, ExitInv, HoldsWaitLock
<1>5. ParentInv'
  <2>1. \A q \in Slot : At(q)' = "forkrun" => At(q) = "forkrun" /\ arg'[q] = arg[q]
    BY <1>0, <1>1 DEF At
  <2>2. state'[initproc] \notin {"UNUSED", "USED", "ZOMBIE"}
    BY <1>1, SlotFacts DEF FamilyInv, ParentInv
  <2> QED BY <2>1, <2>2, <1>0 DEF FamilyInv, ParentInv
<1>6. LiveParent'
  <2> SUFFICES ASSUME NEW q \in Slot \ {initproc}, state'[q] \notin {"UNUSED", "USED"}
               PROVE  parent[q] # Null /\ state'[parent[q]] \notin {"UNUSED", "USED", "ZOMBIE"}
    BY <1>0 DEF LiveParent
  <2>1. CASE q = a
    BY <2>1, <1>1, <1>a, SlotFacts
  <2>2. CASE q # a
    <3>1. parent[q] # Null /\ state[parent[q]] \notin {"UNUSED", "USED", "ZOMBIE"}
      BY <2>2, <1>1 DEF FamilyInv, LiveParent
    <3>2. parent[q] \in Slot /\ parent[q] # a
      BY <3>1, <1>t, <1>a
    <3> QED BY <3>1, <3>2, <1>1
  <2> QED BY <2>1, <2>2
<1>7. ScanInv'
  BY <1>0, <1>1, <1>h DEF FamilyInv, ScanInv, HoldsWaitLock
<1>8. WakeInv'
  <2>1. \A q \in Slot : AsleepInWait(q)' => AsleepInWait(q)
    BY <1>0, <1>1 DEF AsleepInWait
  <2>2. \A r \in Slot : pc[r] = "wakeinit" => pc'[r] = pc[r]
    BY <1>0, <1>1
  <2>3. \A q \in Slot : pc'[q] \in {"zombie", "wakeparent"} => pc[q] = pc'[q]
    BY <1>1
  <2>4. \A q \in Slot : state'[q] = "ZOMBIE" => state[q] = "ZOMBIE"
    BY <1>1
  <2> QED BY ONLY FamilyInv, <1>0, <2>1, <2>2, <2>3, <2>4 DEF FamilyInv, WakeInv
<1> QED BY <1>2, <1>3, <1>4, <1>5, <1>6, <1>7, <1>8 DEF FamilyInv

\* exit() or wait() takes wait_lock and starts on slot 0.
LEMMA TakeWaitLock ==
  ASSUME TypeOK, Core, FamilyInv, NEW c \in CPU, NEW p \in Slot,
         curproc[c] = p, spc[c] \in InProcess,
         \/ pc[p] \in {"wait", "reacquire"} /\ Goto(p, "scan")
         \/ pc[p] = "exit" /\ p # initproc /\ Goto(p, "reparent"),
         waitLock = Null, waitLock' = c,
         UNCHANGED <<state, chan, parent, curproc, spc, arg, idx, ridx, resume>>
  PROVE  FamilyInv'
<1>1. /\ \A q \in Slot : q # p => pc'[q] = pc[q]
      /\ pc'[p] \in {"scan", "reparent"}
      /\ p = initproc => pc'[p] = "scan"
  BY DEF Goto, TypeOK
<1>i. /\ idx[p] = 0 /\ ridx[p] = 0 /\ state[p] = "RUNNING"
      /\ At(p) \notin {"forkrun", "none"}
  BY DEF Core, CurProcInv, FamilyInv, LoopInv, At
<1>h. \A q \in Slot : pc'[q] \in HoldsWaitLock => q = p
  BY <1>1, NoHolder DEF FamilyInv
<1>o. \A q \in Slot : pc[q] \notin HoldsWaitLock
  BY NoHolder DEF FamilyInv
<1>2. WaitHolder'
  BY <1>h DEF WaitHolder
<1>3. LoopInv'
  <2> SUFFICES ASSUME NEW q \in Slot
               PROVE  /\ idx'[q] # 0 => At(q)' \in {"fork", "kill", "scan", "wakeinit", "wakeparent"}
                      /\ ridx'[q] # 0 => pc'[q] \in {"reparent", "wakeinit"}
                      /\ state'[q] \in {"UNUSED", "ZOMBIE"} => pc'[q] = "none"
    BY DEF LoopInv
  <2>1. CASE q = p
    BY <2>1, <1>i
  <2>2. CASE q # p
    <3>1. pc'[q] = pc[q] /\ At(q)' = At(q)
      BY <2>2, <1>1 DEF At
    <3> QED BY <3>1 DEF FamilyInv, LoopInv
  <2> QED BY <2>1, <2>2
<1>4. ExitInv'
  <2> SUFFICES ASSUME NEW q \in Slot, pc'[q] \in {"reparent", "wakeinit", "wakeparent", "zombie"}
               PROVE  /\ q # initproc
                      /\ \A k \in Slot : k < ridx'[q] \/ pc'[q] \in {"wakeparent", "zombie"}
                                           => parent'[k] # q
    BY DEF ExitInv
  <2>1. q = p /\ pc'[p] = "reparent" /\ p # initproc
    BY <1>h, <1>1 DEF HoldsWaitLock
  <2> QED BY <2>1, <1>i, SlotFacts
<1>5. ParentInv'
  <2>1. \A q \in Slot : At(q)' = "forkrun" => At(q) = "forkrun"
    BY <1>1 DEF At
  <2> QED BY <2>1 DEF FamilyInv, ParentInv
<1>6. LiveParent'
  BY DEF FamilyInv, LiveParent
<1>7. ScanInv'
  <2> SUFFICES ASSUME NEW q \in Slot, NEW k \in Slot,
                      pc'[q] \in {"scan", "checkkilled", "sleep"},
                      pc'[q] = "scan" => k < idx'[q]
               PROVE  FALSE
    BY DEF ScanInv
  <2>1. q = p
    BY <1>h DEF HoldsWaitLock
  <2> QED BY <2>1, <1>1, <1>i, SlotFacts
<1>8. WakeInv'
  <2>1. \A q, r \in Slot : state[q] = "ZOMBIE" /\ parent[q] = r => ~AsleepInWait(r)
    BY <1>o DEF FamilyInv, WakeInv, HoldsWaitLock
  <2>2. \A q \in Slot : pc'[q] \notin {"zombie", "wakeparent"}
    BY <1>h, <1>1 DEF HoldsWaitLock
  <2>3. \A r \in Slot : AsleepInWait(r)' => AsleepInWait(r)
    BY DEF AsleepInWait
  <2> QED BY <2>1, <2>2, <2>3 DEF WakeInv
<1> QED BY <1>2, <1>3, <1>4, <1>5, <1>6, <1>7, <1>8 DEF FamilyInv

-----------------------------------------------------------------------------
(* exit, wait *)


\* reparent() looks at one slot, and gives a child of the exiting process to init.
LEMMA ReparentFamily ==
  ASSUME TypeOK, Core, FamilyInv, NEW c \in CPU, NEW p \in Slot, Reparent(c, p)
  PROVE  FamilyInv'
<1>0. /\ pc[p] = "reparent" /\ curproc[c] = p /\ spc[c] \in InProcess
      /\ UNCHANGED <<state, chan, waitLock, curproc, spc, arg, idx, resume>>
  BY Zenon DEF Reparent, Running, sched
<1>i. /\ idx[p] = 0 /\ state[p] = "RUNNING" /\ p # initproc /\ ridx[p] \in Index
      /\ \A k \in Slot : k < ridx[p] => parent[k] # p
  BY <1>0 DEF TypeOK, Core, CurProcInv, FamilyInv, LoopInv, ExitInv, At
<1>h. \A q \in Slot : pc[q] \in HoldsWaitLock => q = p
  BY <1>0, OneHolder DEF FamilyInv, HoldsWaitLock
<1>f. /\ \A q \in Slot : q # p => pc'[q] = pc[q] /\ ridx'[q] = ridx[q]
      /\ pc'[p] \in {"reparent", "wakeinit", "wakeparent"}
      /\ ridx'[p] # 0 => pc'[p] # "wakeparent"
  BY <1>0 DEF Reparent, Goto, TypeOK
<1>g. \A q \in Slot : pc'[q] \in HoldsWaitLock => q = p
  BY <1>f, <1>h
<1>e. /\ \A k \in Slot : k < ridx'[p] \/ pc'[p] = "wakeparent" => parent'[k] # p
      /\ \A k \in Slot : \/ parent'[k] = parent[k]
                         \/ /\ parent[k] = p /\ parent'[k] = initproc
                            /\ pc'[p] = "wakeinit"
  <2> USE <1>0, <1>i, SlotFacts, ProcAssumption DEF Index
  <2>1. CASE ridx[p] < NPROC /\ parent[ridx[p]] = p
    <3>1. /\ parent' = [parent EXCEPT ![ridx[p]] = initproc]
          /\ ridx' = [ridx EXCEPT ![p] = @ + 1]
          /\ pc' = [pc EXCEPT ![p] = "wakeinit"]
      BY <2>1 DEF Reparent, Goto
    <3>2. /\ \A k \in Slot : parent'[k] = IF k = ridx[p] THEN initproc ELSE parent[k]
          /\ ridx'[p] = ridx[p] + 1 /\ pc'[p] = "wakeinit"
      BY <3>1 DEF TypeOK
    <3> QED BY <2>1, <3>2
  <2>2. CASE ridx[p] < NPROC /\ parent[ridx[p]] # p
    <3>1. parent' = parent /\ ridx'[p] = ridx[p] + 1 /\ pc' = pc
      BY <2>2 DEF Reparent, TypeOK
    <3> QED BY <2>2, <3>1
  <2>3. CASE ridx[p] = NPROC
    <3>1. parent' = parent
      BY <2>3 DEF Reparent
    <3> QED BY <2>3, <3>1
  <2> QED BY <2>1, <2>2, <2>3
<1>2. WaitHolder'
  BY <1>0, <1>g, HolderCPU DEF FamilyInv, WaitHolder, HoldsWaitLock
<1>3. LoopInv'
  <2> SUFFICES ASSUME NEW q \in Slot
               PROVE  /\ idx'[q] # 0 => At(q)' \in {"fork", "kill", "scan", "wakeinit", "wakeparent"}
                      /\ ridx'[q] # 0 => pc'[q] \in {"reparent", "wakeinit"}
                      /\ state'[q] \in {"UNUSED", "ZOMBIE"} => pc'[q] = "none"
    BY DEF LoopInv
  <2>1. CASE q = p
    BY <2>1, <1>0, <1>i, <1>f
  <2>2. CASE q # p
    <3>1. pc'[q] = pc[q] /\ At(q)' = At(q) /\ ridx'[q] = ridx[q]
      BY <2>2, <1>0, <1>f DEF At
    <3> QED BY <1>0, <3>1 DEF FamilyInv, LoopInv
  <2> QED BY <2>1, <2>2
<1>4. ExitInv'
  BY <1>e, <1>f, <1>g, <1>i DEF ExitInv, HoldsWaitLock
<1>5. ParentInv'
  <2>1. \A q \in Slot : At(q)' = "forkrun" => q # p /\ At(q) = "forkrun"
    BY <1>0, <1>f DEF At
  <2>2. \A q \in Slot : At(q) = "forkrun" => arg[q] \in Slot /\ parent[arg[q]] = q
    BY DEF Core, ForkInv, ForkPending, FamilyInv, ParentInv
  <2>3. \A q \in Slot : At(q)' = "forkrun" => parent'[arg[q]] = q
    BY <2>1, <2>2, <1>e
  <2> QED BY <2>3, <1>0 DEF FamilyInv, ParentInv
<1>6. LiveParent'
  BY <1>0, <1>e, SlotFacts DEF FamilyInv, LiveParent, ParentInv
<1>7. ScanInv'
  BY <1>f, <1>g DEF ScanInv, HoldsWaitLock
<1>8. WakeInv'
  <2>1. \A q, r \in Slot : state[q] = "ZOMBIE" /\ parent[q] = r => ~AsleepInWait(r)
    BY <1>h, <1>0 DEF FamilyInv, WakeInv, HoldsWaitLock
  <2>2. \A r \in Slot : AsleepInWait(r)' => AsleepInWait(r)
    BY <1>0 DEF AsleepInWait
  <2>3. ASSUME NEW q \in Slot, NEW r \in Slot, state'[q] = "ZOMBIE", parent'[q] = r, AsleepInWait(r)'
        PROVE  r = initproc /\ \E s \in Slot : pc'[s] = "wakeinit" /\ idx'[s] <= initproc
    <3>1. r = initproc /\ pc'[p] = "wakeinit"
      BY <2>1, <2>2, <2>3, <1>0, <1>e
    <3>2. idx'[p] <= initproc
      BY <1>0, <1>i, SlotFacts
    <3> QED BY <3>1, <3>2
  <2>4. ASSUME NEW q \in Slot, NEW r \in Slot, parent'[q] = r,
               pc'[q] = "zombie" \/ (pc'[q] = "wakeparent" /\ r < idx'[q])
        PROVE  ~AsleepInWait(r)'
    <3>1. q = p /\ pc'[p] = "wakeparent"
      BY <2>4, <1>f, <1>g DEF HoldsWaitLock
    <3> QED BY <2>4, <3>1, <1>0, <1>i, SlotFacts
  <2> QED BY <2>3, <2>4 DEF WakeInv
<1> QED BY <1>2, <1>3, <1>4, <1>5, <1>6, <1>7, <1>8 DEF FamilyInv

\* One slot of a wakeup() that runs under wait_lock: a sleeper on the channel is woken.
LEMMA ExitWakeupFamily ==
  ASSUME TypeOK, Core, FamilyInv, NEW c \in CPU, NEW p \in Slot, ExitWakeup(c, p)
  PROVE  FamilyInv'
<1>0. /\ pc[p] \in {"wakeinit", "wakeparent"} /\ curproc[c] = p /\ spc[c] \in InProcess
      /\ UNCHANGED <<chan, parent, waitLock, curproc, spc, arg, ridx, resume>>
  BY Zenon DEF ExitWakeup, Running, sched
<1>i. /\ state[p] = "RUNNING" /\ p # initproc /\ idx[p] \in Index
      /\ \A k \in Slot : k < ridx[p] \/ pc[p] = "wakeparent" => parent[k] # p
  BY <1>0 DEF TypeOK, Core, CurProcInv, FamilyInv, ExitInv
<1>h. \A q \in Slot : pc[q] \in HoldsWaitLock => q = p
  BY <1>0, OneHolder DEF FamilyInv, HoldsWaitLock
<1>f. /\ \A q \in Slot : q # p => pc'[q] = pc[q] /\ idx'[q] = idx[q]
      /\ \A q \in Slot : \/ state'[q] = state[q]
                         \/ state[q] = "SLEEPING" /\ state'[q] = "RUNNABLE"
  BY <1>0 DEF ExitWakeup, wakeup, Goto, TypeOK
<1> DEFINE ch == IF pc[p] = "wakeinit" THEN initproc ELSE parent[p]
<1>e. \/ /\ pc' = pc /\ idx[p] < NPROC /\ idx'[p] = idx[p] + 1
         /\ idx[p] # p /\ chan[idx[p]] = ch => state'[idx[p]] # "SLEEPING"
      \/ /\ idx[p] = NPROC /\ idx'[p] = 0 /\ state' = state
         /\ \/ pc[p] = "wakeinit" /\ pc'[p] = "reparent"
            \/ pc[p] = "wakeparent" /\ pc'[p] = "zombie"
  <2> DEFINE next == IF pc[p] = "wakeinit" THEN "reparent" ELSE "zombie"
  <2>1. wakeup(p, ch, next)
    BY <1>0 DEF ExitWakeup, Running
  <2>2. \/ next = "reparent" /\ pc[p] = "wakeinit"
        \/ next = "zombie" /\ pc[p] = "wakeparent"
    BY <1>0
  <2> HIDE DEF ch, next
  <2>3. CASE idx[p] < NPROC /\ UNCHANGED pc
    <3>1. idx[p] \in Slot
      BY <2>3, <1>i, IndexFacts
    <3>2. NPROC \in Nat \ {0}
      BY ProcAssumption
    <3> QED BY ONLY TypeOK, <2>1, <2>3, <3>1, <3>2, <1>i DEF wakeup, TypeOK, Index
  <2>4. CASE idx[p] = NPROC
    BY <2>1, <2>2, <2>4, ProcAssumption DEF wakeup, Goto, TypeOK
  <2> QED BY <2>1, <2>3, <2>4 DEF wakeup
<1> HIDE DEF ch
<1>d. pc'[p] \in {"wakeinit", "wakeparent", "reparent", "zombie"}
  BY <1>e, <1>0
<1>g. \A q \in Slot : pc'[q] \in HoldsWaitLock => q = p
  BY <1>f, <1>h
<1>s. \A r \in Slot : AsleepInWait(r)' => AsleepInWait(r)
  BY <1>0, <1>f DEF AsleepInWait
<1>2. WaitHolder'
  BY <1>0, <1>g, HolderCPU DEF FamilyInv, WaitHolder, HoldsWaitLock
<1>3. LoopInv'
  <2> SUFFICES ASSUME NEW q \in Slot
               PROVE  /\ idx'[q] # 0 => At(q)' \in {"fork", "kill", "scan", "wakeinit", "wakeparent"}
                      /\ ridx'[q] # 0 => pc'[q] \in {"reparent", "wakeinit"}
                      /\ state'[q] \in {"UNUSED", "ZOMBIE"} => pc'[q] = "none"
    BY DEF LoopInv
  <2>1. CASE q = p
    <3>1. ridx[p] # 0 => pc[p] = "wakeinit"
      BY <1>0 DEF FamilyInv, LoopInv
    <3>2. idx'[p] # 0 => At(p)' \in {"wakeinit", "wakeparent"}
      BY <1>e, <1>0 DEF At
    <3> QED BY <2>1, <3>1, <3>2, <1>0, <1>i, <1>f, <1>e
  <2>2. CASE q # p
    <3>1. /\ pc'[q] = pc[q] /\ At(q)' = At(q) /\ idx'[q] = idx[q]
          /\ state'[q] \in {"UNUSED", "ZOMBIE"} => state[q] = state'[q]
      BY <2>2, <1>0, <1>f DEF At
    <3> QED BY <1>0, <3>1 DEF FamilyInv, LoopInv
  <2> QED BY <2>1, <2>2
<1>4. ExitInv'
  <2>1. \A k \in Slot : k < ridx[p] \/ pc'[p] \in {"wakeparent", "zombie"} => parent[k] # p
    BY <1>i, <1>e, <1>0
  <2> QED BY <2>1, <1>0, <1>g, <1>i DEF ExitInv, HoldsWaitLock
<1>5. ParentInv'
  <2>1. \A q \in Slot : At(q)' = "forkrun" => At(q) = "forkrun"
    BY <1>0, <1>f, <1>d DEF At
  <2>2. state'[initproc] \notin {"UNUSED", "USED", "ZOMBIE"}
    BY <1>f, SlotFacts DEF FamilyInv, ParentInv
  <2> QED BY <2>1, <2>2, <1>0 DEF FamilyInv, ParentInv
<1>6. LiveParent'
  <2>1. \A q \in Slot : parent[q] \in Slot \cup {Null}
    BY DEF TypeOK
  <2> QED BY <2>1, <1>0, <1>f DEF FamilyInv, LiveParent
<1>7. ScanInv'
  BY <1>d, <1>g DEF ScanInv, HoldsWaitLock
<1>8. WakeInv'
  <2>3. ASSUME NEW q \in Slot, NEW r \in Slot, state'[q] = "ZOMBIE", parent'[q] = r, AsleepInWait(r)'
        PROVE  r = initproc /\ \E s \in Slot : pc'[s] = "wakeinit" /\ idx'[s] <= initproc
    <3>1. state[q] = "ZOMBIE" /\ parent[q] = r /\ AsleepInWait(r)
      BY <2>3, <1>s, <1>f, <1>0
    <3>2. r = initproc /\ \E s \in Slot : pc[s] = "wakeinit" /\ idx[s] <= initproc
      BY <3>1 DEF FamilyInv, WakeInv
    <3>3. pc[p] = "wakeinit" /\ idx[p] = initproc
      BY <3>2, <1>h, <1>i, SlotFacts DEF HoldsWaitLock, Index
    <3>4. idx[p] # p /\ chan[idx[p]] = ch
      BY <3>1, <3>2, <3>3, <1>i DEF AsleepInWait, ch
    <3>5. state'[idx[p]] = "SLEEPING" /\ idx[p] # NPROC
      BY <2>3, <3>2, <3>3, SlotFacts DEF AsleepInWait
    <3> QED BY <3>4, <3>5, <1>e
  <2>4. ASSUME NEW q \in Slot, NEW r \in Slot, parent'[q] = r,
               pc'[q] = "zombie" \/ (pc'[q] = "wakeparent" /\ r < idx'[q])
        PROVE  ~AsleepInWait(r)'
    <3>1. q = p /\ parent[p] = r
      BY <2>4, <1>g, <1>0 DEF HoldsWaitLock
    <3>2. pc[p] = "wakeparent" /\ r # p /\ ch = r
      BY <2>4, <3>1, <1>e, <1>i, <1>0 DEF ch
    <3>3. r < idx[p] => ~AsleepInWait(r)
      BY <3>1, <3>2 DEF FamilyInv, WakeInv
    <3>4. r < idx[p] \/ (r = idx[p] /\ pc' = pc)
      BY <2>4, <3>1, <3>2, <1>e, <1>i, SlotFacts, ProcAssumption DEF Index
    <3>5. CASE r = idx[p] /\ pc' = pc
      <4>1. chan[r] = r => state'[r] # "SLEEPING"
        BY <3>2, <3>5, <1>e, SlotFacts
      <4> QED BY <4>1, <1>0 DEF AsleepInWait
    <3> QED BY <3>3, <3>4, <3>5, <1>s
  <2> QED BY <2>3, <2>4 DEF WakeInv
<1> QED BY <1>2, <1>3, <1>4, <1>5, <1>6, <1>7, <1>8 DEF FamilyInv

\* The end of exit(): no child is left, and the parent has been woken.
LEMMA ExitZombieFamily ==
  ASSUME TypeOK, Core, FamilyInv, NEW c \in CPU, NEW p \in Slot, ExitZombie(c, p)
  PROVE  FamilyInv'
<1>0. /\ pc[p] = "zombie" /\ curproc[c] = p /\ spc[c] \in InProcess
      /\ waitLock' = Null
      /\ UNCHANGED <<chan, parent, curproc, arg, idx, ridx, resume>>
  BY Zenon DEF ExitZombie, Running, locals
<1>1. /\ \A q \in Slot : state'[q] = IF q = p THEN "ZOMBIE" ELSE state[q]
      /\ pc'[p] = "none"
      /\ \A q \in Slot : q # p => pc'[q] = pc[q]
  BY DEF ExitZombie, Goto, TypeOK
<1>i. /\ state[p] = "RUNNING" /\ p # initproc /\ idx[p] = 0 /\ ridx[p] = 0
      /\ \A k \in Slot : parent[k] # p
  BY <1>0 DEF Core, CurProcInv, FamilyInv, ExitInv, LoopInv, At
<1>h. \A q \in Slot : pc[q] \in HoldsWaitLock => q = p
  BY <1>0, OneHolder DEF FamilyInv, HoldsWaitLock
<1>g. \A q \in Slot : pc'[q] \notin HoldsWaitLock
  BY <1>1, <1>h DEF HoldsWaitLock
<1>2. WaitHolder' /\ ExitInv' /\ ScanInv'
  BY <1>g DEF WaitHolder, ExitInv, ScanInv, HoldsWaitLock
<1>3. LoopInv'
  <2> SUFFICES ASSUME NEW q \in Slot
               PROVE  /\ idx'[q] # 0 => At(q)' \in {"fork", "kill", "scan", "wakeinit", "wakeparent"}
                      /\ ridx'[q] # 0 => pc'[q] \in {"reparent", "wakeinit"}
                      /\ state'[q] \in {"UNUSED", "ZOMBIE"} => pc'[q] = "none"
    BY DEF LoopInv
  <2>1. CASE q = p
    BY <2>1, <1>0, <1>i, <1>1
  <2>2. CASE q # p
    <3>1. pc'[q] = pc[q] /\ At(q)' = At(q) /\ state'[q] = state[q]
      BY <2>2, <1>0, <1>1 DEF At
    <3> QED BY <1>0, <3>1 DEF FamilyInv, LoopInv
  <2> QED BY <2>1, <2>2
<1>5. ParentInv'
  <2>1. \A q \in Slot : At(q)' = "forkrun" => At(q) = "forkrun"
    BY <1>0, <1>1 DEF At
  <2>2. state'[initproc] \notin {"UNUSED", "USED", "ZOMBIE"}
    BY <1>1, <1>i, SlotFacts DEF FamilyInv, ParentInv
  <2> QED BY <2>1, <2>2, <1>0 DEF FamilyInv, ParentInv
<1>6. LiveParent'
  <2> SUFFICES ASSUME NEW q \in Slot \ {initproc}, state'[q] \notin {"UNUSED", "USED"}
               PROVE  parent[q] # Null /\ state'[parent[q]] \notin {"UNUSED", "USED", "ZOMBIE"}
    BY <1>0 DEF LiveParent
  <2>1. state[q] \notin {"UNUSED", "USED"}
    BY <1>1, <1>i
  <2>2. parent[q] # Null /\ state[parent[q]] \notin {"UNUSED", "USED", "ZOMBIE"}
    BY <2>1 DEF FamilyInv, LiveParent
  <2>3. parent[q] \in Slot /\ parent[q] # p
    BY <2>2, <1>i DEF TypeOK
  <2> QED BY <2>2, <2>3, <1>1
<1>8. WakeInv'
  <2>1. \A q, r \in Slot : state[q] = "ZOMBIE" /\ parent[q] = r => ~AsleepInWait(r)
    BY <1>h, <1>0 DEF FamilyInv, WakeInv, HoldsWaitLock
  <2>2. \A r \in Slot : parent[p] = r => ~AsleepInWait(r)
    BY <1>0 DEF FamilyInv, WakeInv
  <2>3. \A r \in Slot : AsleepInWait(r)' => AsleepInWait(r)
    BY <1>0, <1>1 DEF AsleepInWait
  <2>4. \A q \in Slot : state'[q] = "ZOMBIE" => state[q] = "ZOMBIE" \/ q = p
    BY <1>1
  <2>5. \A q \in Slot : pc'[q] \notin {"zombie", "wakeparent"}
    BY <1>g DEF HoldsWaitLock
  <2> QED BY ONLY <1>0, <2>1, <2>2, <2>3, <2>4, <2>5 DEF WakeInv
<1> QED BY <1>2, <1>3, <1>5, <1>6, <1>8 DEF FamilyInv

\* wait() goes to sleep on its own address after a scan without a zombie.
LEMMA WaitSleepFamily ==
  ASSUME TypeOK, Core, FamilyInv, NEW c \in CPU, NEW p \in Slot, WaitSleep(c, p)
  PROVE  FamilyInv'
<1>0. /\ pc[p] = "sleep" /\ curproc[c] = p /\ spc[c] \in InProcess
      /\ waitLock' = Null
      /\ UNCHANGED <<parent, curproc, arg, idx, ridx, resume>>
  BY Zenon DEF WaitSleep, Running, locals
<1>1. /\ \A q \in Slot : state'[q] = IF q = p THEN "SLEEPING" ELSE state[q]
      /\ \A q \in Slot : q # p => chan'[q] = chan[q]
      /\ pc'[p] = "slept"
      /\ \A q \in Slot : q # p => pc'[q] = pc[q]
  BY DEF WaitSleep, Goto, TypeOK
<1>i. /\ state[p] = "RUNNING" /\ idx[p] = 0 /\ ridx[p] = 0
      /\ \A k \in Slot : parent[k] = p => state[k] # "ZOMBIE"
  BY <1>0 DEF Core, CurProcInv, FamilyInv, LoopInv, At, ScanInv
<1>h. \A q \in Slot : pc[q] \in HoldsWaitLock => q = p
  BY <1>0, OneHolder DEF FamilyInv, HoldsWaitLock
<1>g. \A q \in Slot : pc'[q] \notin HoldsWaitLock
  BY <1>1, <1>h DEF HoldsWaitLock
<1>2. WaitHolder' /\ ExitInv' /\ ScanInv'
  BY <1>g DEF WaitHolder, ExitInv, ScanInv, HoldsWaitLock
<1>3. LoopInv'
  <2> SUFFICES ASSUME NEW q \in Slot
               PROVE  /\ idx'[q] # 0 => At(q)' \in {"fork", "kill", "scan", "wakeinit", "wakeparent"}
                      /\ ridx'[q] # 0 => pc'[q] \in {"reparent", "wakeinit"}
                      /\ state'[q] \in {"UNUSED", "ZOMBIE"} => pc'[q] = "none"
    BY DEF LoopInv
  <2>1. CASE q = p
    BY <2>1, <1>0, <1>i, <1>1
  <2>2. CASE q # p
    <3>1. pc'[q] = pc[q] /\ At(q)' = At(q) /\ state'[q] = state[q]
      BY <2>2, <1>0, <1>1 DEF At
    <3> QED BY <1>0, <3>1 DEF FamilyInv, LoopInv
  <2> QED BY <2>1, <2>2
<1>5. ParentInv'
  <2>1. \A q \in Slot : At(q)' = "forkrun" => At(q) = "forkrun"
    BY <1>0, <1>1 DEF At
  <2>2. state'[initproc] \notin {"UNUSED", "USED", "ZOMBIE"}
    BY <1>1, SlotFacts DEF FamilyInv, ParentInv
  <2> QED BY <2>1, <2>2, <1>0 DEF FamilyInv, ParentInv
<1>6. LiveParent'
  <2>1. \A q \in Slot : parent[q] \in Slot \cup {Null}
    BY DEF TypeOK
  <2>2. \A q \in Slot : \/ state'[q] = state[q]
                        \/ state[q] = "RUNNING" /\ state'[q] = "SLEEPING"
    BY <1>1, <1>i
  <2> QED BY <2>1, <2>2, <1>0 DEF FamilyInv, LiveParent
<1>8. WakeInv'
  <2>1. \A q, r \in Slot : state[q] = "ZOMBIE" /\ parent[q] = r => ~AsleepInWait(r)
    BY <1>h, <1>0 DEF FamilyInv, WakeInv, HoldsWaitLock
  <2>3. \A r \in Slot : AsleepInWait(r)' => AsleepInWait(r) \/ r = p
    BY <1>1 DEF AsleepInWait
  <2>4. \A q \in Slot : state'[q] = "ZOMBIE" => state[q] = "ZOMBIE"
    BY <1>1
  <2>5. \A q \in Slot : pc'[q] \notin {"zombie", "wakeparent"}
    BY <1>g DEF HoldsWaitLock
  <2> QED BY ONLY <1>0, <1>i, <2>1, <2>3, <2>4, <2>5 DEF WakeInv
<1> QED BY <1>2, <1>3, <1>5, <1>6, <1>8 DEF FamilyInv

\* wait() goes on under wait_lock, past slots that hold no zombie child.
LEMMA WaitHoldFamily ==
  ASSUME TypeOK, Core, FamilyInv, NEW c \in CPU, NEW p \in Slot,
         curproc[c] = p, spc[c] \in InProcess, pc[p] \in {"scan", "checkkilled"},
         \A q \in Slot : q # p => pc'[q] = pc[q] /\ idx'[q] = idx[q],
         pc'[p] \in {"scan", "checkkilled", "sleep"},
         pc'[p] # "scan" => idx'[p] = 0,
         \A k \in Slot : parent[k] = p /\ (pc'[p] = "scan" => k < idx'[p]) => state[k] # "ZOMBIE",
         UNCHANGED <<state, chan, parent, waitLock, curproc, spc, arg, ridx, resume>>
  PROVE  FamilyInv'
<1>i. state[p] = "RUNNING" /\ ridx[p] = 0
  BY DEF Core, CurProcInv, FamilyInv, LoopInv
<1>h. \A q \in Slot : pc[q] \in HoldsWaitLock => q = p
  BY OneHolder DEF FamilyInv, HoldsWaitLock
<1>g. \A q \in Slot : pc'[q] \in HoldsWaitLock => q = p
  BY <1>h
<1>2. WaitHolder'
  BY <1>g, HolderCPU DEF FamilyInv, WaitHolder, HoldsWaitLock
<1>3. LoopInv'
  <2> SUFFICES ASSUME NEW q \in Slot
               PROVE  /\ idx'[q] # 0 => At(q)' \in {"fork", "kill", "scan", "wakeinit", "wakeparent"}
                      /\ ridx'[q] # 0 => pc'[q] \in {"reparent", "wakeinit"}
                      /\ state'[q] \in {"UNUSED", "ZOMBIE"} => pc'[q] = "none"
    BY DEF LoopInv
  <2>1. CASE q = p
    BY <2>1, <1>i DEF At
  <2>2. CASE q # p
    <3>1. pc'[q] = pc[q] /\ At(q)' = At(q) /\ idx'[q] = idx[q]
      BY <2>2 DEF At
    <3> QED BY <3>1 DEF FamilyInv, LoopInv
  <2> QED BY <2>1, <2>2
<1>4. ExitInv'
  BY <1>g DEF ExitInv, HoldsWaitLock
<1>5. ParentInv'
  <2>1. \A q \in Slot : At(q)' = "forkrun" => At(q) = "forkrun"
    BY DEF At
  <2> QED BY <2>1 DEF FamilyInv, ParentInv
<1>6. LiveParent'
  BY DEF FamilyInv, LiveParent
<1>7. ScanInv'
  BY <1>g DEF ScanInv, HoldsWaitLock
<1>8. WakeInv'
  <2>1. \A q, r \in Slot : state[q] = "ZOMBIE" /\ parent[q] = r => ~AsleepInWait(r)
    BY <1>h DEF FamilyInv, WakeInv, HoldsWaitLock
  <2>2. \A r \in Slot : AsleepInWait(r)' => AsleepInWait(r)
    BY DEF AsleepInWait
  <2>3. \A q \in Slot : pc'[q] \notin {"zombie", "wakeparent"}
    BY <1>g DEF HoldsWaitLock
  <2> QED BY <2>1, <2>2, <2>3 DEF WakeInv
<1> QED BY <1>2, <1>3, <1>4, <1>5, <1>6, <1>7, <1>8 DEF FamilyInv

\* wait() returns: it releases wait_lock, and may have freed zombies.
LEMMA WaitLeaveFamily ==
  ASSUME TypeOK, Core, FamilyInv, NEW c \in CPU, NEW p \in Slot,
         curproc[c] = p, spc[c] \in InProcess, pc[p] \in {"scan", "checkkilled"},
         \A q \in Slot : q # p => pc'[q] = pc[q] /\ idx'[q] = idx[q],
         pc'[p] = "trapret", idx'[p] = 0, waitLock' = Null,
         \A q \in Slot : \/ /\ state'[q] = state[q] /\ parent'[q] = parent[q]
                            /\ chan'[q] = chan[q]
                         \/ /\ state[q] = "ZOMBIE" /\ state'[q] = "UNUSED",
         UNCHANGED <<curproc, spc, arg, ridx, resume>>
  PROVE  FamilyInv'
<1>i. state[p] = "RUNNING" /\ ridx[p] = 0
  BY DEF Core, CurProcInv, FamilyInv, LoopInv
<1>h. \A q \in Slot : pc[q] \in HoldsWaitLock => q = p
  BY OneHolder DEF FamilyInv, HoldsWaitLock
<1>g. \A q \in Slot : pc'[q] \notin HoldsWaitLock
  BY <1>h DEF HoldsWaitLock
<1>2. WaitHolder' /\ ExitInv' /\ ScanInv'
  BY <1>g DEF WaitHolder, ExitInv, ScanInv, HoldsWaitLock
<1>3. LoopInv'
  <2> SUFFICES ASSUME NEW q \in Slot
               PROVE  /\ idx'[q] # 0 => At(q)' \in {"fork", "kill", "scan", "wakeinit", "wakeparent"}
                      /\ ridx'[q] # 0 => pc'[q] \in {"reparent", "wakeinit"}
                      /\ state'[q] \in {"UNUSED", "ZOMBIE"} => pc'[q] = "none"
    BY DEF LoopInv
  <2>1. CASE q = p
    BY <2>1, <1>i
  <2>2. CASE q # p
    <3>1. /\ pc'[q] = pc[q] /\ At(q)' = At(q) /\ idx'[q] = idx[q]
          /\ state'[q] \in {"UNUSED", "ZOMBIE"} => state[q] \in {"UNUSED", "ZOMBIE"}
      BY <2>2 DEF At
    <3> QED BY <3>1 DEF FamilyInv, LoopInv
  <2> QED BY <2>1, <2>2
<1>5. ParentInv'
  <2>1. \A q \in Slot : At(q)' = "forkrun" => At(q) = "forkrun"
    BY DEF At
  <2>2. \A q \in Slot : At(q) = "forkrun" =>
          arg[q] \in Slot /\ state[arg[q]] = "USED" /\ parent[arg[q]] = q
    BY DEF Core, ForkInv, ForkPending, FamilyInv, ParentInv
  <2>3. \A q \in Slot : At(q)' = "forkrun" => parent'[arg'[q]] = q
    BY <2>1, <2>2
  <2>4. state'[initproc] \notin {"UNUSED", "USED", "ZOMBIE"}
    BY SlotFacts DEF FamilyInv, ParentInv
  <2> QED BY <2>3, <2>4 DEF ParentInv
<1>6. LiveParent'
  <2>1. \A q \in Slot : parent[q] \in Slot \cup {Null}
    BY DEF TypeOK
  <2> QED BY <2>1 DEF FamilyInv, LiveParent
<1>8. WakeInv'
  <2>1. \A q, r \in Slot : state[q] = "ZOMBIE" /\ parent[q] = r => ~AsleepInWait(r)
    BY <1>h DEF FamilyInv, WakeInv, HoldsWaitLock
  <2>2. \A r \in Slot : AsleepInWait(r)' => AsleepInWait(r)
    BY DEF AsleepInWait
  <2>3. \A q \in Slot : pc'[q] \notin {"zombie", "wakeparent"}
    BY <1>g DEF HoldsWaitLock
  <2>4. \A q \in Slot : state'[q] = "ZOMBIE" => state[q] = "ZOMBIE" /\ parent'[q] = parent[q]
    OBVIOUS
  <2> QED BY ONLY <2>1, <2>2, <2>3, <2>4 DEF WakeInv
<1> QED BY <1>2, <1>3, <1>5, <1>6, <1>8 DEF FamilyInv

-----------------------------------------------------------------------------
(* The effect of every action of Next. *)

\* scheduler() changes no process but the one it dispatches.
LEMMA SchedStepFamily ==
  ASSUME TypeOK, Core, FamilyInv, NEW c \in CPU, SchedStep(c)
  PROVE  FamilyInv'
<1>1. /\ spc[c] \notin InProcess
      /\ UNCHANGED <<chan, parent, waitLock, pc, resume, arg, idx, ridx>>
  BY DEF SchedStep, SchedTop, LotteryCount, LotteryDraw, LotteryPick, RoundRobin,
         PassDone, SwitchBack, Dispatch, table, locals, InProcess, SwitchingBack
<1>2. \A d \in CPU : d # c => spc'[d] = spc[d]
  BY DEF SchedStep, SchedTop, LotteryCount, LotteryDraw, LotteryPick, RoundRobin,
         PassDone, SwitchBack, Dispatch, TypeOK
<1>3. \A d \in CPU : d # c => curproc'[d] = curproc[d]
  BY DEF SchedStep, SchedTop, LotteryCount, LotteryDraw, LotteryPick, RoundRobin,
         PassDone, SwitchBack, Dispatch, TypeOK
<1>4. \A k \in Slot : \/ state'[k] = state[k]
                      \/ state[k] = "RUNNABLE" /\ state'[k] = "RUNNING"
  BY DEF SchedStep, SchedTop, LotteryCount, LotteryDraw, LotteryPick, RoundRobin,
         PassDone, SwitchBack, Dispatch, table, TypeOK
<1> QED BY Zenon, <1>1, <1>2, <1>3, <1>4, SchedFamily

\* yield() and the return from it.
LEMMA YieldFamily ==
  ASSUME TypeOK, Core, FamilyInv, NEW c \in CPU, NEW p \in Slot,
         KernelYield(c, p) \/ UserYield(c, p) \/ SwitchedInStep(c, p)
  PROVE  FamilyInv'
<1> USE DEF KernelYield, UserYield, SwitchedInStep, Yield, Running, Goto, sched_swtch, sched
<1>1. /\ curproc[c] = p /\ spc[c] \in InProcess
      /\ UNCHANGED <<curproc, waitLock, ridx, arg, idx, parent>>
  BY Zenon
<1>2. pc[p] \notin HoldsWaitLock /\ pc'[p] \notin HoldsWaitLock
  BY DEF HoldsWaitLock, Preemptible, TypeOK
<1>3. \A d \in CPU : d # c => spc'[d] = spc[d]
  BY DEF TypeOK
<1>4. \A q \in Slot : q # p => pc'[q] = pc[q] /\ resume'[q] = resume[q]
  BY DEF TypeOK
<1>5. state[p] = "RUNNING"
  BY <1>1 DEF Core, CurProcInv
<1>6. \A k \in Slot : \/ state'[k] = state[k]
                      \/ state[k] = "RUNNING" /\ state'[k] = "RUNNABLE"
  BY <1>5 DEF TypeOK
<1>7. \A k \in Slot : chan'[k] = chan[k] \/ chan'[k] = Null
  BY DEF TypeOK
<1>8. /\ At(p) \in {"fork", "kill"} => At(p)' = At(p)
      /\ At(p)' = "forkrun" => At(p) = "forkrun"
  BY DEF At, TypeOK, Preemptible
<1>9. idx[p] # 0 => At(p) \in {"fork", "kill"}
  BY <1>2 DEF FamilyInv, LoopInv, At, TypeOK, Preemptible, HoldsWaitLock
<1>10. /\ idx'[p] # 0 => At(p)' \in {"fork", "kill"}
       /\ At(p)' = "forkrun" => At(p) = "forkrun" /\ arg'[p] = arg[p]
       /\ \A q \in Slot : q # p => /\ pc'[q] = pc[q] /\ resume'[q] = resume[q]
                                    /\ arg'[q] = arg[q] /\ idx'[q] = idx[q]
       /\ \A k \in Slot : parent'[k] = parent[k]
  BY ONLY <1>1, <1>4, <1>8, <1>9
<1> QED BY ONLY TypeOK, Core, FamilyInv, <1>1, <1>2, <1>3, <1>6, <1>7, <1>10, ThreadFamily

\* Traps, settickets() and setsched(): only labels and fields nobody else reads here.
LEMMA TrapFamily ==
  ASSUME TypeOK, Core, FamilyInv, NEW c \in CPU, NEW p \in Slot, UserStep(c, p) \/ TrapRet(c, p)
  PROVE  FamilyInv'
<1> USE DEF UserStep, Syscall, SetTickets, SetSched, Fault, TimerUser, TrapRet, UnlessKilled,
            Running, Goto, table, sched, locals
<1>1. /\ curproc[c] = p /\ spc[c] \in InProcess /\ pc[p] \in {"user", "trapret"}
      /\ UNCHANGED <<curproc, spc, waitLock, ridx, idx, parent, state, chan, resume>>
  BY Zenon
<1>2. pc'[p] \in {"fork", "exit", "wait", "kill", "yield", "trapret", "user"}
  BY DEF TypeOK
<1>3. \A q \in Slot : q # p => pc'[q] = pc[q] /\ arg'[q] = arg[q]
  BY DEF TypeOK
<1>4. idx[p] = 0
  BY <1>1 DEF FamilyInv, LoopInv, At
<1>5. At(p)' # "forkrun" /\ pc[p] \notin HoldsWaitLock /\ pc'[p] \notin HoldsWaitLock
  BY <1>1, <1>2 DEF At, HoldsWaitLock
<1>6. /\ idx'[p] # 0 => At(p)' \in {"fork", "kill"}
      /\ At(p)' = "forkrun" => At(p) = "forkrun" /\ arg'[p] = arg[p]
      /\ \A q \in Slot : q # p => /\ pc'[q] = pc[q] /\ resume'[q] = resume[q]
                                   /\ arg'[q] = arg[q] /\ idx'[q] = idx[q]
      /\ \A k \in Slot : parent'[k] = parent[k]
  BY ONLY <1>1, <1>3, <1>4, <1>5
<1> QED BY ONLY TypeOK, Core, FamilyInv, <1>1, <1>5, <1>6, ThreadFamily

\* kill(): a sleeper is woken.
LEMMA KillFamily ==
  ASSUME TypeOK, Core, FamilyInv, NEW c \in CPU, NEW p \in Slot, Kill(c, p)
  PROVE  FamilyInv'
<1> USE DEF Kill, Running, Goto, sched
<1>1. /\ curproc[c] = p /\ spc[c] \in InProcess /\ pc[p] = "kill"
      /\ UNCHANGED <<curproc, spc, waitLock, ridx, parent, chan, resume>>
  BY Zenon
<1>2. /\ pc'[p] \in {"kill", "trapret"} /\ (idx'[p] # 0 => pc'[p] = "kill")
      /\ \A q \in Slot : q # p => pc'[q] = pc[q] /\ arg'[q] = arg[q] /\ idx'[q] = idx[q]
  BY <1>1 DEF TypeOK
<1>3. \A k \in Slot : \/ state'[k] = state[k]
                      \/ state[k] = "SLEEPING" /\ state'[k] = "RUNNABLE"
  <2>1. \/ state' = state
        \/ state' = [state EXCEPT ![idx[p]] = IF @ = "SLEEPING" THEN "RUNNABLE" ELSE @]
    BY Zenon
  <2>2. DOMAIN state = Slot
    BY ONLY TypeOK DEF TypeOK
  <2> QED BY ONLY <2>1, <2>2
<1>4. /\ At(p)' = pc'[p] /\ At(p)' # "forkrun"
      /\ pc[p] \notin HoldsWaitLock /\ pc'[p] \notin HoldsWaitLock
  BY <1>1, <1>2 DEF At, HoldsWaitLock
<1>5. idx'[p] # 0 => At(p)' \in {"fork", "kill"}
  BY <1>2, <1>4
<1> QED BY Zenon, <1>1, <1>2, <1>3, <1>4, <1>5, ThreadFamily

\* allocproc()'s scan: a slot is passed, claimed, or claimed and freed again.
LEMMA ForkScanFamily ==
  ASSUME TypeOK, Core, FamilyInv, NEW c \in CPU, NEW p \in Slot, ForkAlloc(c, p) \/ ForkFull(c, p)
  PROVE  FamilyInv'
<1>0. /\ curproc[c] = p /\ spc[c] \in InProcess /\ pc[p] = "fork"
      /\ UNCHANGED <<curproc, spc, waitLock, ridx, resume>>
  BY Zenon DEF ForkAlloc, ForkFull, Running, sched
<1>1. CASE /\ pc' = pc \/ (Goto(p, "trapret") /\ idx' = [idx EXCEPT ![p] = 0])
           /\ \A q \in Slot : q # p => idx'[q] = idx[q]
           /\ \A k \in Slot : state'[k] = state[k]
           /\ \A k \in Slot : chan'[k] = chan[k] \/ chan'[k] = Null
           /\ \A k \in Slot : \/ parent'[k] = parent[k]
                              \/ state[k] = "UNUSED" /\ parent'[k] = Null
           /\ UNCHANGED arg
  <2>1. /\ \A q \in Slot : q # p => pc'[q] = pc[q]
        /\ pc'[p] \in {"fork", "trapret"} /\ (idx'[p] # 0 => pc'[p] = "fork")
    BY <1>0, <1>1 DEF Goto, TypeOK
  <2>2. /\ At(p)' # "forkrun" /\ (idx'[p] # 0 => At(p)' \in {"fork", "kill"})
        /\ pc[p] \notin HoldsWaitLock /\ pc'[p] \notin HoldsWaitLock
    BY <1>0, <2>1 DEF At, HoldsWaitLock
  <2> QED BY ONLY TypeOK, Core, FamilyInv, <1>0, <1>1, <2>1, <2>2, ThreadFamily
<1>2. CASE ForkFull(c, p)
  BY <1>1, <1>2 DEF ForkFull, Goto, table, TypeOK
<1>3. CASE ForkAlloc(c, p)
  <2> DEFINE k == idx[p]
  <2>0. k \in Slot
    BY <1>3, IndexFacts DEF ForkAlloc, TypeOK
  <2>1. CASE state[k] # "UNUSED"
    BY <1>1, <1>3, <2>1 DEF ForkAlloc, table, TypeOK
  <2>2. CASE state[k] = "UNUSED"
    <3>0. idx' = [idx EXCEPT ![p] = 0]
      BY <1>3, <2>2 DEF ForkAlloc
    <3>1. CASE /\ state' = [state EXCEPT ![k] = "USED"]
               /\ pc' = [pc EXCEPT ![k] = "forkret", ![p] = "forkparent"]
               /\ arg' = [arg EXCEPT ![p] = k]
               /\ UNCHANGED <<chan, killed, parent>>
      BY Zenon, <1>0, <2>0, <2>2, <3>0, <3>1, ForkAllocFamily
    <3>2. CASE freeproc(k) /\ Goto(p, "trapret") /\ UNCHANGED arg
      <4>1. /\ \A q \in Slot : state'[q] = state[q]
            /\ \A q \in Slot : chan'[q] = chan[q] \/ chan'[q] = Null
            /\ \A q \in Slot : \/ parent'[q] = parent[q]
                               \/ state[q] = "UNUSED" /\ parent'[q] = Null
            /\ \A q \in Slot : q # p => idx'[q] = idx[q]
        BY <2>2, <3>0, <3>2 DEF freeproc, TypeOK
      <4> QED BY Zenon, <1>1, <3>0, <3>2, <4>1
    <3> QED BY <1>3, <2>2, <3>1, <3>2 DEF ForkAlloc
  <2> QED BY <2>1, <2>2
<1> QED BY <1>2, <1>3

\* exit() and wait() start: wait_lock is taken, or init panics.
LEMMA StartFamily ==
  ASSUME TypeOK, Core, FamilyInv, NEW c \in CPU, NEW p \in Slot, ExitStart(c, p) \/ WaitStart(c, p)
  PROVE  FamilyInv'
<1> USE DEF ExitStart, WaitStart, Running, table, sched, locals
<1>0. /\ curproc[c] = p /\ spc[c] \in InProcess /\ pc[p] \in {"exit", "wait", "reacquire"}
      /\ UNCHANGED <<state, chan, parent, curproc, spc, arg, idx, ridx, resume>>
  BY Zenon
<1>1. CASE pc[p] = "exit" /\ p = initproc /\ Goto(p, "panic") /\ UNCHANGED waitLock
  <2>1. pc'[p] = "panic" /\ \A q \in Slot : q # p => pc'[q] = pc[q]
    BY <1>1 DEF Goto, TypeOK
  <2>2. /\ At(p)' = "panic" /\ idx[p] = 0
        /\ pc[p] \notin HoldsWaitLock /\ pc'[p] \notin HoldsWaitLock
    BY <1>0, <1>1, <2>1 DEF At, HoldsWaitLock, FamilyInv, LoopInv
  <2> QED BY ONLY TypeOK, Core, FamilyInv, <1>0, <1>1, <2>1, <2>2, ThreadFamily
<1>2. CASE /\ \/ pc[p] \in {"wait", "reacquire"} /\ Goto(p, "scan")
              \/ pc[p] = "exit" /\ p # initproc /\ Goto(p, "reparent")
           /\ waitLock = Null /\ waitLock' = c
  BY Zenon, <1>0, <1>2, TakeWaitLock
<1> QED BY Zenon, <1>1, <1>2

\* wait()'s scan and its end.
LEMMA WaitFamily ==
  ASSUME TypeOK, Core, FamilyInv, NEW c \in CPU, NEW p \in Slot,
         WaitScan(c, p) \/ WaitScanned(c, p) \/ WaitKilled(c, p)
  PROVE  FamilyInv'
<1> USE DEF Running, sched, locals
<1>0. /\ curproc[c] = p /\ spc[c] \in InProcess /\ pc[p] \in {"scan", "checkkilled"}
      /\ UNCHANGED <<curproc, spc, arg, ridx, resume>>
  BY Zenon DEF WaitScan, WaitScanned, WaitKilled
<1>s. \A k \in Slot : parent[k] = p /\ (pc[p] = "scan" => k < idx[p]) => state[k] # "ZOMBIE"
  BY <1>0 DEF FamilyInv, ScanInv
<1>1. CASE WaitScan(c, p)
  <2> DEFINE k == idx[p]
  <2>0. k \in Slot /\ k \in Int /\ pc[p] = "scan"
    BY <1>1, IndexFacts, SlotFacts DEF WaitScan, TypeOK
  <2>1. CASE /\ idx' = [idx EXCEPT ![p] = @ + 1]
             /\ parent[k] # p \/ state[k] # "ZOMBIE"
             /\ UNCHANGED <<table, waitLock, pc>>
    <3>1. idx'[p] = k + 1 /\ \A q \in Slot : q # p => idx'[q] = idx[q]
      BY <2>1 DEF TypeOK
    <3>2. \A j \in Slot : parent[j] = p /\ j < idx'[p] => state[j] # "ZOMBIE"
      BY <2>0, <2>1, <3>1, <1>s, SlotFacts
    <3>3. UNCHANGED <<state, chan, parent, waitLock, pc>>
      BY <2>1 DEF table
    <3> QED BY ONLY TypeOK, Core, FamilyInv, <1>0, <2>0, <3>1, <3>2, <3>3, WaitHoldFamily
  <2>2. CASE /\ state[k] = "ZOMBIE"
             /\ (freeproc(k) /\ UNCHANGED tickets) \/ UNCHANGED table
             /\ waitLock' = Null
             /\ idx' = [idx EXCEPT ![p] = 0]
             /\ Goto(p, "trapret")
    <3>1. /\ \A q \in Slot : q # p => pc'[q] = pc[q] /\ idx'[q] = idx[q]
          /\ pc'[p] = "trapret" /\ idx'[p] = 0
      BY <2>2 DEF Goto, TypeOK
    <3>2. \A q \in Slot : \/ /\ state'[q] = state[q] /\ parent'[q] = parent[q]
                             /\ chan'[q] = chan[q]
                          \/ state[q] = "ZOMBIE" /\ state'[q] = "UNUSED"
      BY <2>0, <2>2 DEF freeproc, table, TypeOK
    <3> QED BY ONLY TypeOK, Core, FamilyInv, <1>0, <2>2, <3>1, <3>2, WaitLeaveFamily
  <2> QED BY Zenon, <1>1, <2>1, <2>2 DEF WaitScan
<1>2. CASE WaitScanned(c, p) \/ WaitKilled(c, p)
  <2>0. UNCHANGED <<state, chan, parent>>
    BY Zenon, <1>2 DEF WaitScanned, WaitKilled, table
  <2>1. /\ idx'[p] = 0 /\ \A q \in Slot : q # p => pc'[q] = pc[q] /\ idx'[q] = idx[q]
        /\ \/ pc'[p] \in {"checkkilled", "sleep"} /\ UNCHANGED waitLock
           \/ pc'[p] = "trapret" /\ waitLock' = Null
    <3>1. pc[p] = "checkkilled" => idx[p] = 0
      BY DEF FamilyInv, LoopInv, At
    <3>2. CASE WaitScanned(c, p)
      BY <3>2 DEF WaitScanned, Goto, TypeOK
    <3>3. CASE WaitKilled(c, p)
      <4>1. pc[p] = "checkkilled" /\ UNCHANGED idx
        BY <3>3 DEF WaitKilled, Running, At, locals
      <4> QED BY <3>1, <3>3, <4>1 DEF WaitKilled, Goto, TypeOK
    <3> QED BY ONLY <1>2, <3>2, <3>3
  <2>2. \A k \in Slot : parent[k] = p => state[k] # "ZOMBIE"
    BY <1>0, <1>2, <1>s, SlotFacts DEF WaitScanned, WaitKilled
  <2>3. CASE pc'[p] \in {"checkkilled", "sleep"} /\ UNCHANGED waitLock
    BY ONLY TypeOK, Core, FamilyInv, <1>0, <2>0, <2>1, <2>2, <2>3, WaitHoldFamily
  <2>4. CASE pc'[p] = "trapret" /\ waitLock' = Null
    BY ONLY TypeOK, Core, FamilyInv, <1>0, <2>0, <2>1, <2>4, WaitLeaveFamily
  <2> QED BY <2>1, <2>3, <2>4
<1> QED BY <1>1, <1>2

\* Every step of every CPU and every thread keeps the invariant.
LEMMA FamilyStep == TypeOK /\ Core /\ FamilyInv /\ [Next]_vars => FamilyInv'
<1> SUFFICES ASSUME TypeOK, Core, FamilyInv, [Next]_vars PROVE FamilyInv'
  OBVIOUS
<1>1. CASE UNCHANGED vars
  <2> USE <1>1 DEF vars, table, sched, locals
  <2>1. WaitHolder' /\ LoopInv' /\ ExitInv'
    BY DEF FamilyInv, WaitHolder, LoopInv, ExitInv, At
  <2>2. ParentInv' /\ LiveParent'
    BY DEF FamilyInv, ParentInv, LiveParent, At
  <2>3. ScanInv' /\ WakeInv'
    BY DEF FamilyInv, ScanInv, WakeInv, AsleepInWait
  <2> QED BY <2>1, <2>2, <2>3 DEF FamilyInv
<1>2. CASE Next
  <2>1. PICK c \in CPU :
          \/ SchedStep(c)
          \/ \E p \in Slot : KernelStep(c, p) \/ UserStep(c, p) \/ KernelYield(c, p)
    BY <1>2 DEF Next
  <2>2. CASE SchedStep(c)
    BY <2>2, SchedStepFamily
  <2>3. ASSUME NEW p \in Slot, KernelStep(c, p) PROVE FamilyInv'
    BY Zenon, <2>3, YieldFamily, TrapFamily, ForkScanFamily, ForkParentFamily, ForkRunFamily,
       StartFamily, ReparentFamily, ExitWakeupFamily, ExitZombieFamily, WaitFamily,
       WaitSleepFamily, KillFamily DEF KernelStep
  <2>4. ASSUME NEW p \in Slot, UserStep(c, p) \/ KernelYield(c, p) PROVE FamilyInv'
    BY Zenon, <2>4, TrapFamily, YieldFamily
  <2> QED BY <2>1, <2>2, <2>3, <2>4
<1> QED BY <1>1, <1>2

\* The state after userinit(), with init alone, satisfies the invariant.
LEMMA FamilyInit == Init => FamilyInv
<1> SUFFICES ASSUME Init PROVE FamilyInv
  OBVIOUS
<1>1. \A p \in Slot : /\ state[p] = IF p = initproc THEN "RUNNABLE" ELSE "UNUSED"
                      /\ pc[p] = IF p = initproc THEN "forkret" ELSE "none"
                      /\ idx[p] = 0 /\ ridx[p] = 0
  BY DEF Init
<1>2. \A p \in Slot : pc[p] \notin HoldsWaitLock /\ At(p) # "forkrun"
  BY <1>1 DEF HoldsWaitLock, At
<1>3. WaitHolder /\ ExitInv /\ ScanInv
  BY <1>2 DEF WaitHolder, ExitInv, ScanInv, HoldsWaitLock
<1>4. LoopInv /\ ParentInv /\ LiveParent
  BY <1>1, <1>2, SlotFacts DEF LoopInv, ParentInv, LiveParent
<1>5. WakeInv
  BY <1>1 DEF WakeInv, AsleepInWait
<1> QED BY <1>3, <1>4, <1>5 DEF FamilyInv

\* The inductive invariant of fork(), exit() and wait() holds.
THEOREM Family == Spec => []FamilyInv
<1>1. Init => HandoverInv /\ FamilyInv
  BY CoreInit, FamilyInit DEF HandoverInv, Core
<1>2. HandoverInv /\ FamilyInv /\ [Next]_vars => HandoverInv' /\ FamilyInv'
  BY HandoverStep, FamilyStep DEF HandoverInv, Core
<1> QED BY <1>1, <1>2, PTL DEF Spec

\* For any number of CPUs and slots, a process that can run, and a zombie, has a
\* parent that can still wait() for it.
THEOREM AlwaysLiveParent == Spec => []LiveParent
<1>1. FamilyInv => LiveParent
  BY DEF FamilyInv
<1> QED BY <1>1, Family, PTL

\* For any number of CPUs and slots, no parent sleeps in wait() next to a zombie
\* child once exit() has released wait_lock.
THEOREM NoExitIsLost == Spec => []NoLostExit
<1>1. FamilyInv => NoLostExit
  <2> SUFFICES ASSUME FamilyInv, waitLock = Null, NEW p \in Slot, NEW q \in Slot,
                      state[q] = "ZOMBIE", parent[q] = p, AsleepInWait(p)
               PROVE  FALSE
    BY DEF NoLostExit, AsleepInWait
  <2>1. \E r \in Slot : pc[r] = "wakeinit"
    BY DEF FamilyInv, WakeInv
  <2> QED BY <2>1, NoHolder DEF FamilyInv, HoldsWaitLock
<1> QED BY <1>1, Family, PTL

\* Only the zombie branch of wait() takes a slot out of ZOMBIE.
LEMMA ZombieLeaves ==
  ASSUME HandoverInv, FamilyInv, Next, NEW q \in Slot,
         state[q] = "ZOMBIE", state'[q] # "ZOMBIE"
  PROVE  \E c \in CPU, p \in Slot : WaitScan(c, p) /\ parent[q] = p /\ state'[q] = "UNUSED"
<1>1. TypeOK /\ Core
  BY DEF HandoverInv, Core
<1>2. PICK c \in CPU :
        \/ SchedStep(c)
        \/ \E p \in Slot : KernelStep(c, p) \/ UserStep(c, p) \/ KernelYield(c, p)
  BY DEF Next
<1>3. CASE SchedStep(c)
  BY <1>1, <1>3 DEF SchedStep, SchedTop, LotteryCount, LotteryDraw, LotteryPick, RoundRobin,
         PassDone, SwitchBack, Dispatch, table, TypeOK
<1>4. ASSUME NEW p \in Slot, KernelStep(c, p) \/ UserStep(c, p) \/ KernelYield(c, p)
      PROVE  WaitScan(c, p) /\ parent[q] = p /\ state'[q] = "UNUSED"
  <2>0. curproc[c] = p /\ spc[c] \in InProcess
    BY Zenon, <1>4 DEF KernelStep, UserStep, UserYield, KernelYield, SwitchedInStep, TrapRet,
       ForkAlloc, ForkFull, ForkParent, ForkRun, ExitStart, Reparent, ExitWakeup, ExitZombie,
       WaitStart, WaitScan, WaitScanned, WaitKilled, WaitSleep, Kill, Syscall, SetTickets,
       SetSched, Fault, TimerUser, Running
  <2>1. state[p] = "RUNNING" /\ q # p
    BY <2>0, <1>1 DEF Core, CurProcInv
  <2>2. CASE UserStep(c, p) \/ KernelYield(c, p) \/ UserYield(c, p) \/ SwitchedInStep(c, p)
             \/ TrapRet(c, p) \/ ForkFull(c, p) \/ ForkParent(c, p) \/ ExitStart(c, p)
             \/ Reparent(c, p) \/ ExitZombie(c, p) \/ WaitStart(c, p) \/ WaitScanned(c, p)
             \/ WaitKilled(c, p) \/ WaitSleep(c, p)
    <3>1. \/ state' = state \/ \E s : state' = [state EXCEPT ![p] = s]
      BY Zenon, <2>2 DEF UserStep, UserYield, KernelYield, Yield, SwitchedInStep, TrapRet,
       ForkFull, ForkParent, ExitStart, Reparent, ExitZombie,
       WaitStart, WaitScanned, WaitKilled, WaitSleep, Syscall, SetTickets,
       SetSched, Fault, TimerUser, table
    <3> QED BY <3>1, <2>1, <1>1 DEF TypeOK
  <2>3. CASE ForkRun(c, p)
    <3>1. arg[p] \in Slot /\ state[arg[p]] = "USED"
      BY <2>3, <1>1 DEF ForkRun, Running, Core, ForkInv, ForkPending, At
    <3> QED BY <2>3, <3>1, <1>1 DEF ForkRun, TypeOK
  <2>4. CASE ForkAlloc(c, p)
    BY <2>4, <1>1 DEF ForkAlloc, freeproc, table, TypeOK
  <2>5. CASE ExitWakeup(c, p) \/ Kill(c, p)
    BY <2>5, <1>1 DEF ExitWakeup, wakeup, Kill, TypeOK
  <2>6. CASE WaitScan(c, p)
    <3>1. q = idx[p] /\ parent[idx[p]] = p /\ freeproc(idx[p])
      BY <2>6, <1>1 DEF WaitScan, freeproc, table, TypeOK
    <3> QED BY <2>6, <3>1, <1>1 DEF freeproc, TypeOK
  <2> QED BY Zenon, <1>4, <2>2, <2>3, <2>4, <2>5, <2>6 DEF KernelStep
<1> QED BY <1>2, <1>3, <1>4

\* For any number of CPUs and slots, a zombie stays one until its parent, inside
\* wait() and holding wait_lock, frees it.
THEOREM ZombieReapedByParent == Spec => ReapedByParent
<1> DEFINE A == \A q \in Slot : state[q] = "ZOMBIE" /\ state'[q] # "ZOMBIE" =>
                  /\ state'[q] = "UNUSED"
                  /\ waitLock # Null
                  /\ curproc[waitLock] = parent[q]
                  /\ pc[parent[q]] = "scan"
<1>1. HandoverInv /\ FamilyInv /\ [Next]_vars => [A]_vars
  <2> SUFFICES ASSUME HandoverInv, FamilyInv, Next, NEW q \in Slot,
                      state[q] = "ZOMBIE", state'[q] # "ZOMBIE"
               PROVE  /\ state'[q] = "UNUSED"
                      /\ waitLock # Null
                      /\ curproc[waitLock] = parent[q]
                      /\ pc[parent[q]] = "scan"
    OBVIOUS
  <2>1. PICK c \in CPU, p \in Slot :
          WaitScan(c, p) /\ parent[q] = p /\ state'[q] = "UNUSED"
    BY ZombieLeaves
  <2>2. curproc[c] = p /\ pc[p] = "scan"
    BY <2>1 DEF WaitScan, Running
  <2>3. Core /\ WaitHolder
    BY DEF HandoverInv, Core, FamilyInv
  <2> QED BY <2>1, <2>2, <2>3, HolderCPU DEF HoldsWaitLock
<1> QED BY <1>1, Handover, Family, PTL DEF Spec, ReapedByParent

\* Only allocproc() gives a slot a pid, nextpid; freeproc() takes it away.
LEMMA PidStep == TypeOK /\ PidInv /\ [Next]_vars => PidInv'
<1> SUFFICES ASSUME TypeOK, PidInv, [Next]_vars PROVE PidInv'
  OBVIOUS
<1>t. nextpid \in Nat /\ \A q \in Slot : pid[q] \in Nat
  BY DEF TypeOK
<1>1. CASE UNCHANGED <<pid, nextpid>>
  BY <1>1 DEF PidInv, PidUnique
<1>2. ASSUME NEW k \in Slot, nextpid' = nextpid + 1,
             pid' = [pid EXCEPT ![k] = nextpid] \/ pid' = [pid EXCEPT ![k] = 0]
      PROVE  PidInv'
  <2>1. \A q \in Slot : /\ q # k => pid'[q] = pid[q]
                        /\ q = k => pid'[q] \in {0, nextpid}
    BY <1>2 DEF TypeOK
  <2> QED BY <1>2, <1>t, <2>1 DEF PidInv, PidUnique
<1>3. ASSUME NEW k \in Slot, nextpid' = nextpid, pid' = [pid EXCEPT ![k] = 0]
      PROVE  PidInv'
  <2>1. \A q \in Slot : /\ q # k => pid'[q] = pid[q]
                        /\ q = k => pid'[q] = 0
    BY <1>3 DEF TypeOK
  <2> QED BY <1>3, <1>t, <2>1 DEF PidInv, PidUnique
<1>4. CASE UNCHANGED vars
  BY <1>1, <1>4 DEF vars, table
<1>5. CASE Next
  <2>1. PICK c \in CPU :
          \/ SchedStep(c)
          \/ \E p \in Slot : KernelStep(c, p) \/ UserStep(c, p) \/ KernelYield(c, p)
    BY <1>5 DEF Next
  <2>2. CASE SchedStep(c)
    BY Zenon, <1>1, <2>2 DEF SchedStep, SchedTop, LotteryCount, LotteryDraw, LotteryPick,
       RoundRobin, PassDone, SwitchBack, Dispatch, table
  <2>3. ASSUME NEW p \in Slot, KernelStep(c, p) \/ UserStep(c, p) \/ KernelYield(c, p)
        PROVE  PidInv'
    <3>1. CASE ForkAlloc(c, p)
      <4>1. idx[p] \in Slot
        BY <3>1, IndexFacts DEF ForkAlloc, TypeOK
      <4> QED BY Zenon, <1>1, <1>2, <3>1, <4>1 DEF ForkAlloc, allocpid, freeproc, table
    <3>2. CASE WaitScan(c, p)
      <4>1. idx[p] \in Slot
        BY <3>2, IndexFacts DEF WaitScan, TypeOK
      <4> QED BY Zenon, <1>1, <1>3, <3>2, <4>1 DEF WaitScan, freeproc, table
    <3>3. CASE UserYield(c, p) \/ SwitchedInStep(c, p) \/ TrapRet(c, p) \/ ForkFull(c, p)
               \/ ForkParent(c, p) \/ ForkRun(c, p) \/ ExitStart(c, p) \/ Reparent(c, p)
               \/ ExitWakeup(c, p) \/ ExitZombie(c, p) \/ WaitStart(c, p) \/ WaitScanned(c, p)
               \/ WaitKilled(c, p) \/ WaitSleep(c, p) \/ Kill(c, p)
               \/ UserStep(c, p) \/ KernelYield(c, p)
      <4>1. UNCHANGED <<pid, nextpid>>
        BY Zenon, <3>3 DEF UserYield, KernelYield, Yield, SwitchedInStep, TrapRet,
           ForkFull, ForkParent, ForkRun, ExitStart, Reparent, ExitWakeup, ExitZombie,
           WaitStart, WaitScanned, WaitKilled, WaitSleep, Kill, UserStep, Syscall,
           SetTickets, SetSched, Fault, TimerUser, table
      <4> QED BY <1>1, <4>1
    <3> QED BY Zenon, <2>3, <3>1, <3>2, <3>3 DEF KernelStep
  <2> QED BY <2>1, <2>2, <2>3
<1> QED BY <1>4, <1>5

\* For any number of CPUs and slots no two processes share a pid, as long as
\* nextpid, which the model does not let wrap, stays an int.
THEOREM PidsAreUnique == Spec => []PidUnique
<1>1. Init => PidInv
  BY SlotFacts DEF Init, PidInv, PidUnique
<1>2. HandoverInv /\ PidInv /\ [Next]_vars => PidInv'
  BY PidStep DEF HandoverInv
<1>3. PidInv => PidUnique
  BY DEF PidInv
<1> QED BY <1>1, <1>2, <1>3, Handover, PTL DEF Spec
=============================================================================
