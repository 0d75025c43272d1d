----------------------------- MODULE ProcProofs -----------------------------
(***************************************************************************)
(* Proofs about the process table: every process is on at most one CPU,    *)
(* whatever NPROC and the set of CPUs.  Each action has one of a few       *)
(* effects on the state the argument is about (curproc, spc, plock, state, *)
(* pc, resume, arg); the first lemmas treat those effects, the next ones   *)
(* show which effect each action has, and the theorems collect them.       *)
(***************************************************************************)
EXTENDS Proc, TLAPS

\* HandoverInv without the types.
Core == OneCPU /\ RunningOnCPU /\ CurProcInv /\ LockInv /\ ForkInv

\* A scheduler() step that only moves within its passes over proc[].
LEMMA SchedLocal ==
  ASSUME TypeOK, Core, NEW c \in CPU, NEW l,
         spc[c] \notin InProcess \cup SwitchingBack,
         l \notin InProcess \cup SwitchingBack,
         spc' = [spc EXCEPT ![c] = l],
         NEW n, si' = [si EXCEPT ![c] = n],
         UNCHANGED <<state, plock, curproc, pc, resume, arg>>
  PROVE  Core'
<1>1. /\ \A d \in CPU : spc'[d] = IF d = c THEN l ELSE spc[d]
      /\ \A d \in CPU : d # c => si'[d] = si[d]
  BY DEF TypeOK
<1>2. OneCPU'
  BY DEF Core, OneCPU
<1>3. RunningOnCPU'
  BY DEF Core, RunningOnCPU
<1>4. CurProcInv'
  BY <1>1 DEF Core, CurProcInv, InProcess, SwitchingBack
<1>5. LockInv'
  BY <1>1 DEF Core, LockInv
<1>6. ForkInv'
  BY DEF Core, ForkInv, ForkPending, At
<1> QED BY <1>2, <1>3, <1>4, <1>5, <1>6 DEF Core

\* scheduler() marks p RUNNING and switches to it with p->lock held.
LEMMA DispatchCore ==
  ASSUME TypeOK, Core, NEW c \in CPU, NEW p \in Slot, NEW l \in InProcess,
         spc[c] \notin InProcess \cup SwitchingBack,
         plock[p] = Null, state[p] = "RUNNABLE",
         l = "run_rr" => si'[c] < NPROC,
         \A d \in CPU : d # c => si'[d] = si[d],
         state' = [state EXCEPT ![p] = "RUNNING"],
         curproc' = [curproc EXCEPT ![c] = p],
         plock' = [plock EXCEPT ![p] = c],
         spc' = [spc EXCEPT ![c] = l],
         UNCHANGED <<pc, resume, arg>>
  PROVE  Core'
<1>1. /\ \A d \in CPU : spc'[d] = IF d = c THEN l ELSE spc[d]
      /\ \A d \in CPU : curproc'[d] = IF d = c THEN p ELSE curproc[d]
      /\ \A q \in Slot : state'[q] = IF q = p THEN "RUNNING" ELSE state[q]
      /\ \A q \in Slot : plock'[q] = IF q = p THEN c ELSE plock[q]
  BY DEF TypeOK
<1>n. /\ p # Null /\ c # Null /\ l \notin SwitchingBack
  BY ProcAssumption DEF InProcess, SwitchingBack
<1>a. \A d \in CPU : curproc[d] # p
  BY <1>n, ProcAssumption DEF Core, CurProcInv
<1>b. \A d \in CPU : curproc[d] \in Slot \cup {Null}
  BY DEF TypeOK
<1>2. OneCPU'
  BY <1>1, <1>a DEF Core, OneCPU
<1>c. curproc[c] = Null
  BY DEF Core, CurProcInv
<1>3. RunningOnCPU'
  <2>1. \A q \in Slot : state'[q] = "RUNNING" => \E d \in CPU : curproc'[d] = q
    <3> SUFFICES ASSUME NEW q \in Slot, state'[q] = "RUNNING"
                 PROVE  \E d \in CPU : curproc'[d] = q
      OBVIOUS
    <3>1. CASE q = p
      BY <3>1, <1>1
    <3>2. CASE q # p
      <4>1. PICK d \in CPU : curproc[d] = q
        BY <3>2, <1>1 DEF Core, RunningOnCPU
      <4>2. d # c
        BY <4>1, <1>c, ProcAssumption
      <4> QED BY <4>1, <4>2, <1>1
    <3> QED BY <3>1, <3>2
  <2>2. \A d \in CPU : curproc'[d] # Null /\ state'[curproc'[d]] # "RUNNING"
                         => plock'[curproc'[d]] = d
    BY <1>1, <1>a, <1>b DEF Core, RunningOnCPU
  <2> QED BY <2>1, <2>2 DEF RunningOnCPU
<1>4. CurProcInv'
  <2> SUFFICES ASSUME NEW d \in CPU
               PROVE  /\ curproc'[d] # Null <=> spc'[d] \in InProcess \cup SwitchingBack
                      /\ spc'[d] \in InProcess => state'[curproc'[d]] = "RUNNING"
                      /\ spc'[d] \in SwitchingBack =>
                           plock'[curproc'[d]] = d /\ state'[curproc'[d]] # "RUNNING"
                      /\ spc'[d] \in {"run_rr", "back_rr"} => si'[d] < NPROC
    BY DEF CurProcInv
  <2>1. CASE d = c
    BY <2>1, <1>1, <1>n DEF InProcess
  <2>2. CASE d # c
    BY <2>2, <1>1, <1>a, <1>b DEF Core, CurProcInv
  <2> QED BY <2>1, <2>2
<1>5. LockInv'
  <2>1. \A q \in Slot : plock'[q] # Null => curproc'[plock'[q]] = q
    <3> TAKE q \in Slot
    <3>1. plock[q] \in CPU \cup {Null}
      BY DEF TypeOK
    <3>2. plock[q] # Null => curproc[plock[q]] = q
      BY DEF Core, LockInv
    <3> QED BY <1>1, <1>n, <1>c, <3>1, <3>2, ProcAssumption
  <2>2. \A d \in CPU : spc'[d] \in InProcess /\ pc'[curproc'[d]] \in SwitchedIn
                         => plock'[curproc'[d]] = d
    BY <1>1, <1>a, <1>b DEF Core, LockInv, CurProcInv
  <2> QED BY <2>1, <2>2 DEF LockInv
<1>6. ForkInv'
  BY <1>1 DEF Core, ForkInv, ForkPending, At
<1> QED BY <1>2, <1>3, <1>4, <1>5, <1>6 DEF Core

\* scheduler() comes back from swtch(): c->proc = 0, p->lock released.
LEMMA SwitchBackCore ==
  ASSUME TypeOK, Core, NEW c \in CPU, NEW l,
         spc[c] \in SwitchingBack,
         l \notin InProcess \cup SwitchingBack,
         \A d \in CPU : d # c => si'[d] = si[d],
         plock' = [plock EXCEPT ![curproc[c]] = Null],
         curproc' = [curproc EXCEPT ![c] = Null],
         spc' = [spc EXCEPT ![c] = l],
         UNCHANGED <<state, pc, resume, arg>>
  PROVE  Core'
<1> DEFINE p == curproc[c]
<1>p. p \in Slot /\ p # Null /\ plock[p] = c /\ state[p] # "RUNNING"
  BY DEF TypeOK, Core, CurProcInv
<1>1. /\ \A d \in CPU : spc'[d] = IF d = c THEN l ELSE spc[d]
      /\ \A d \in CPU : curproc'[d] = IF d = c THEN Null ELSE curproc[d]
      /\ \A q \in Slot : plock'[q] = IF q = p THEN Null ELSE plock[q]
  BY DEF TypeOK
<1>a. \A d \in CPU : curproc[d] = p => d = c
  BY <1>p DEF Core, OneCPU
<1>b. \A d \in CPU : curproc[d] \in Slot \cup {Null}
  BY DEF TypeOK
<1> HIDE DEF p
<1>2. OneCPU'
  BY <1>1 DEF Core, OneCPU
<1>3. RunningOnCPU'
  BY <1>1, <1>a, <1>b, <1>p DEF Core, RunningOnCPU, p
<1>4. CurProcInv'
  <2> SUFFICES ASSUME NEW d \in CPU
               PROVE  /\ curproc'[d] # Null <=> spc'[d] \in InProcess \cup SwitchingBack
                      /\ spc'[d] \in InProcess => state'[curproc'[d]] = "RUNNING"
                      /\ spc'[d] \in SwitchingBack =>
                           plock'[curproc'[d]] = d /\ state'[curproc'[d]] # "RUNNING"
                      /\ spc'[d] \in {"run_rr", "back_rr"} => si'[d] < NPROC
    BY DEF CurProcInv
  <2>1. CASE d = c
    BY <2>1, <1>1 DEF InProcess, SwitchingBack
  <2>2. CASE d # c
    BY <2>2, <1>1, <1>a, <1>b DEF Core, CurProcInv
  <2> QED BY <2>1, <2>2
<1>5. LockInv'
  <2>1. \A q \in Slot : plock'[q] # Null => curproc'[plock'[q]] = q
    <3> TAKE q \in Slot
    <3>1. plock[q] \in CPU \cup {Null}
      BY DEF TypeOK
    <3>2. plock[q] # Null => curproc[plock[q]] = q
      BY DEF Core, LockInv
    <3> QED BY <1>1, <1>p, <3>1, <3>2 DEF p
  <2>2. \A d \in CPU : spc'[d] \in InProcess /\ pc'[curproc'[d]] \in SwitchedIn
                         => plock'[curproc'[d]] = d
    BY <1>1, <1>a, <1>b DEF Core, LockInv, CurProcInv
  <2> QED BY <2>1, <2>2 DEF LockInv
<1>6. ForkInv'
  BY DEF Core, ForkInv, ForkPending, At
<1> QED BY <1>2, <1>3, <1>4, <1>5, <1>6 DEF Core

\* A thread changes its state and calls sched() with p->lock held
\* (yield, sleep, exit).
LEMMA SwtchOutCore ==
  ASSUME TypeOK, Core, NEW c \in CPU, NEW p \in Slot, NEW s, NEW l,
         curproc[c] = p, spc[c] \in InProcess, plock[p] = Null,
         s # "RUNNING",
         state' = [state EXCEPT ![p] = s],
         plock' = [plock EXCEPT ![p] = c],
         spc' = [spc EXCEPT ![c] = IF @ = "run_lottery" THEN "back_lottery"
                                                        ELSE "back_rr"],
         pc' = [pc EXCEPT ![p] = l],
         \A q \in Slot : ForkPending(q)' => ForkPending(q),
         UNCHANGED <<curproc, si, arg>>
  PROVE  Core'
<1>1. /\ \A d \in CPU : d # c => spc'[d] = spc[d]
      /\ spc'[c] \in SwitchingBack
      /\ spc'[c] = "back_rr" => spc[c] = "run_rr"
      /\ \A q \in Slot : state'[q] = IF q = p THEN s ELSE state[q]
      /\ \A q \in Slot : plock'[q] = IF q = p THEN c ELSE plock[q]
      /\ \A q \in Slot : pc'[q] = IF q = p THEN l ELSE pc[q]
  BY DEF TypeOK, InProcess, SwitchingBack
<1>n. p # Null /\ c # Null /\ spc'[c] \notin InProcess
  BY <1>1, ProcAssumption DEF InProcess, SwitchingBack
<1>a. \A d \in CPU : curproc[d] = p => d = c
  BY <1>n DEF Core, OneCPU
<1>b. \A d \in CPU : curproc[d] \in Slot \cup {Null}
  BY DEF TypeOK
<1>2. OneCPU'
  BY DEF Core, OneCPU
<1>3. RunningOnCPU'
  BY <1>1, <1>a, <1>b DEF Core, RunningOnCPU
<1>4. CurProcInv'
  <2> SUFFICES ASSUME NEW d \in CPU
               PROVE  /\ curproc'[d] # Null <=> spc'[d] \in InProcess \cup SwitchingBack
                      /\ spc'[d] \in InProcess => state'[curproc'[d]] = "RUNNING"
                      /\ spc'[d] \in SwitchingBack =>
                           plock'[curproc'[d]] = d /\ state'[curproc'[d]] # "RUNNING"
                      /\ spc'[d] \in {"run_rr", "back_rr"} => si'[d] < NPROC
    BY DEF CurProcInv
  <2>1. CASE d = c
    BY <2>1, <1>1, <1>n DEF Core, CurProcInv, InProcess
  <2>2. CASE d # c
    BY <2>2, <1>1, <1>a, <1>b DEF Core, CurProcInv
  <2> QED BY <2>1, <2>2
<1>5. LockInv'
  <2>1. \A q \in Slot : plock'[q] # Null => curproc'[plock'[q]] = q
    BY <1>1 DEF Core, LockInv
  <2>2. \A d \in CPU : spc'[d] \in InProcess /\ pc'[curproc'[d]] \in SwitchedIn
                         => plock'[curproc'[d]] = d
    BY <1>1, <1>n, <1>a, <1>b DEF Core, LockInv, CurProcInv
  <2> QED BY <2>1, <2>2 DEF LockInv
<1>6. ForkInv'
  <2>1. state[p] = "RUNNING"
    BY DEF Core, CurProcInv
  <2> QED BY <2>1, <1>1 DEF Core, ForkInv
<1> QED BY <1>2, <1>3, <1>4, <1>5, <1>6 DEF Core

\* A thread comes back from sched(), or starts at forkret(), and
\* releases its p->lock.
LEMMA SwitchedInCore ==
  ASSUME TypeOK, Core, NEW c \in CPU, NEW p \in Slot, NEW l,
         curproc[c] = p, spc[c] \in InProcess, pc[p] \in SwitchedIn,
         plock' = [plock EXCEPT ![p] = Null],
         pc' = [pc EXCEPT ![p] = l],
         l \notin SwitchedIn,
         l \in {"forkparent", "forkrun"} => l = resume[p] /\ pc[p] = "yielded",
         \A q \in Slot : q # p => resume'[q] = resume[q],
         UNCHANGED <<state, curproc, spc, si, arg>>
  PROVE  Core'
<1>1. /\ \A q \in Slot : plock'[q] = IF q = p THEN Null ELSE plock[q]
      /\ \A q \in Slot : pc'[q] = IF q = p THEN l ELSE pc[q]
  BY DEF TypeOK
<1>n. p # Null /\ c # Null /\ state[p] = "RUNNING" /\ plock[p] = c
  BY ProcAssumption DEF Core, CurProcInv, LockInv
<1>a. \A d \in CPU : curproc[d] = p => d = c
  BY <1>n DEF Core, OneCPU
<1>b. \A d \in CPU : curproc[d] \in Slot \cup {Null}
  BY DEF TypeOK
<1>2. OneCPU'
  BY DEF Core, OneCPU
<1>3. RunningOnCPU'
  BY <1>1, <1>n, <1>b DEF Core, RunningOnCPU
<1>4. CurProcInv'
  BY <1>1, <1>n, <1>b DEF Core, CurProcInv
<1>5. LockInv'
  BY <1>1, <1>n, <1>a, <1>b DEF Core, LockInv, CurProcInv
<1>6. ForkInv'
  <2>1. \A q \in Slot : ForkPending(q)' => ForkPending(q)
    BY <1>1 DEF ForkPending, At, SwitchedIn
  <2> QED BY <2>1 DEF Core, ForkInv
<1> QED BY <1>2, <1>3, <1>4, <1>5, <1>6 DEF Core

\* The thread p moves between labels of unlocked or wait_lock code; other
\* slots may be woken or freed, under their locks.
LEMMA LocalCore ==
  ASSUME TypeOK, Core, NEW c \in CPU, NEW p \in Slot,
         curproc[c] = p, spc[c] \in InProcess, pc[p] \notin SwitchedIn,
         \A k \in Slot : \/ state'[k] = state[k]
                         \/ /\ state[k] \in {"SLEEPING", "ZOMBIE"}
                            /\ state'[k] \in {"RUNNABLE", "UNUSED"}
                            /\ plock[k] = Null,
         \A q \in Slot : q # p => pc'[q] = pc[q] /\ arg'[q] = arg[q],
         pc'[p] \notin SwitchedIn \cup {"forkparent"},
         pc'[p] = "forkrun" => ForkPending(p) /\ arg'[p] = arg[p],
         UNCHANGED <<curproc, spc, si, plock, resume>>
  PROVE  Core'
<1>n. p # Null /\ c # Null /\ state[p] = "RUNNING"
  BY ProcAssumption DEF Core, CurProcInv
<1>a. \A d \in CPU : curproc[d] = p => d = c
  BY <1>n DEF Core, OneCPU
<1>b. \A d \in CPU : curproc[d] \in Slot \cup {Null}
  BY DEF TypeOK
<1>c. \A k \in Slot : state'[k] = "RUNNING" <=> state[k] = "RUNNING"
  OBVIOUS
<1>2. OneCPU'
  BY SMTT(30) DEF Core, OneCPU
<1>3. RunningOnCPU'
  BY <1>b, <1>c DEF Core, RunningOnCPU
<1>4. CurProcInv'
  BY <1>b, <1>c DEF Core, CurProcInv
<1>5. LockInv'
  BY <1>a, <1>b DEF Core, LockInv, CurProcInv
<1>6. ForkInv'
  <2>1. \A q \in Slot : ForkPending(q)' => ForkPending(q) /\ arg'[q] = arg[q]
    BY DEF ForkPending, At, SwitchedIn
  <2>2. \A q \in Slot : state[q] = "USED" => state'[q] = "USED"
    OBVIOUS
  <2> QED BY <2>1, <2>2 DEF Core, ForkInv
<1> QED BY <1>2, <1>3, <1>4, <1>5, <1>6 DEF Core

\* allocproc() claims an UNUSED slot for fork().
LEMMA ForkAllocCore ==
  ASSUME TypeOK, Core, NEW c \in CPU, NEW p \in Slot, NEW k \in Slot,
         curproc[c] = p, spc[c] \in InProcess, pc[p] = "fork",
         state[k] = "UNUSED",
         state' = [state EXCEPT ![k] = "USED"],
         pc' = [pc EXCEPT ![k] = "forkret", ![p] = "forkparent"],
         arg' = [arg EXCEPT ![p] = k],
         UNCHANGED <<curproc, spc, si, plock, resume>>
  PROVE  Core'
<1>n. p # Null /\ c # Null /\ state[p] = "RUNNING" /\ k # p
  BY ProcAssumption DEF Core, CurProcInv
<1>1. /\ \A q \in Slot : state'[q] = IF q = k THEN "USED" ELSE state[q]
      /\ \A q \in Slot : pc'[q] = IF q = p THEN "forkparent"
                                  ELSE IF q = k THEN "forkret" ELSE pc[q]
      /\ \A q \in Slot : arg'[q] = IF q = p THEN k ELSE arg[q]
  BY <1>n DEF TypeOK
<1>b. \A d \in CPU : curproc[d] \in Slot \cup {Null}
  BY DEF TypeOK
<1>2. OneCPU'
  BY DEF Core, OneCPU
<1>3. RunningOnCPU'
  BY <1>1, <1>b DEF Core, RunningOnCPU
<1>4. CurProcInv'
  BY <1>1, <1>b DEF Core, CurProcInv
<1>c. \A d \in CPU : spc[d] \in InProcess => curproc[d] \in Slot \ {k}
  BY <1>b DEF Core, CurProcInv
<1>5. LockInv'
  <2>1. \A d \in CPU : spc[d] \in InProcess /\ pc'[curproc[d]] \in SwitchedIn
                         => pc[curproc[d]] \in SwitchedIn
    BY <1>1, <1>c DEF SwitchedIn
  <2> QED BY Zenon, <2>1 DEF Core, LockInv
<1>6. ForkInv'
  <2>1. \A q \in Slot : q # p /\ ForkPending(q)' => ForkPending(q) /\ q # k
    BY <1>1 DEF ForkPending, At
  <2>2. \A q \in Slot : ForkPending(q) => arg[q] \in Slot /\ arg[q] # k
                                          /\ state[arg[q]] = "USED"
    BY DEF Core, ForkInv
  <2> QED BY <2>1, <2>2, <1>1 DEF Core, ForkInv
<1> QED BY <1>2, <1>3, <1>4, <1>5, <1>6 DEF Core

\* fork() makes its child RUNNABLE.
LEMMA ForkRunCore ==
  ASSUME TypeOK, Core, NEW c \in CPU, NEW p \in Slot,
         curproc[c] = p, spc[c] \in InProcess, pc[p] = "forkrun",
         state' = [state EXCEPT ![arg[p]] = "RUNNABLE"],
         pc' = [pc EXCEPT ![p] = "trapret"],
         arg' = [arg EXCEPT ![p] = 0],
         UNCHANGED <<curproc, spc, si, plock, resume>>
  PROVE  Core'
<1>0. ForkPending(p) /\ arg[p] \in Slot /\ state[arg[p]] = "USED"
  BY DEF Core, ForkInv, ForkPending, At
<1>1. /\ \A q \in Slot : state'[q] = IF q = arg[p] THEN "RUNNABLE" ELSE state[q]
      /\ \A q \in Slot : pc'[q] = IF q = p THEN "trapret" ELSE pc[q]
      /\ \A q \in Slot : q # p => arg'[q] = arg[q]
  BY <1>0 DEF TypeOK
<1>b. \A d \in CPU : curproc[d] \in Slot \cup {Null}
  BY DEF TypeOK
<1>2. OneCPU'
  BY DEF Core, OneCPU
<1>3. RunningOnCPU'
  BY <1>0, <1>1, <1>b DEF Core, RunningOnCPU
<1>4. CurProcInv'
  BY <1>0, <1>1, <1>b DEF Core, CurProcInv
<1>5. LockInv'
  BY <1>1, <1>b DEF Core, LockInv, CurProcInv, SwitchedIn
<1>6. ForkInv'
  <2>1. \A q \in Slot : ForkPending(q)' => ForkPending(q) /\ q # p
    BY <1>1 DEF ForkPending, At
  <2> QED BY <2>1, <1>0, <1>1 DEF Core, ForkInv
<1> QED BY <1>2, <1>3, <1>4, <1>5, <1>6 DEF Core

-----------------------------------------------------------------------------
(* One lemma per action of Next. *)

\* A loop variable over proc[] that is not at the end names a slot.
LEMMA IndexFacts ==
  /\ 0 \in Index /\ initproc \in Slot
  /\ \A i \in Index : i < NPROC => i \in Slot /\ i + 1 \in Index
  BY ProcAssumption DEF Index, Slot, initproc

\* C int addition as compiled yields an integer.
LEMMA IntWrapInt == ASSUME NEW x \in Int PROVE IntWrap(x) \in Int
  BY ProcAssumption DEF IntWrap

\* The top of scheduler()'s loop reads scheduler_mode.
LEMMA SchedTopStep ==
  ASSUME TypeOK, Core, NEW c \in CPU, SchedTop(c)
  PROVE  TypeOK' /\ Core'
<1>1. TypeOK'
  BY IndexFacts DEF TypeOK, SchedTop, table, locals, SchedLabels
<1>2. Core'
  BY Zenon, SchedLocal DEF SchedTop, locals, table, InProcess, SwitchingBack
<1> QED BY <1>1, <1>2

\* One slot of the first lottery pass.
LEMMA LotteryCountStep ==
  ASSUME TypeOK, Core, NEW c \in CPU, LotteryCount(c)
  PROVE  TypeOK' /\ Core'
<1>1. TypeOK'
  BY IndexFacts, IntWrapInt DEF TypeOK, LotteryCount, table, locals
<1>2. Core'
  <2>1. spc' = [spc EXCEPT ![c] = spc[c]]
    BY DEF LotteryCount, TypeOK
  <2> QED BY Zenon, <2>1, SchedLocal
          DEF LotteryCount, locals, table, InProcess, SwitchingBack
<1> QED BY <1>1, <1>2

\* The draw between the lottery passes.
LEMMA LotteryDrawStep ==
  ASSUME TypeOK, Core, NEW c \in CPU, LotteryDraw(c)
  PROVE  TypeOK' /\ Core'
<1>1. TypeOK'
  <2>1. \A x \in random(total[c]) : x \in Int
    BY IntWrapInt, ProcAssumption DEF random, TypeOK
  <2> QED BY SMTT(30), <2>1, IndexFacts DEF TypeOK, LotteryDraw, table, locals, SchedLabels
<1>2. Core'
  BY Zenon, SchedLocal DEF LotteryDraw, locals, table, InProcess, SwitchingBack
<1> QED BY <1>1, <1>2

\* One slot of the second lottery pass, which may dispatch.
LEMMA LotteryPickStep ==
  ASSUME TypeOK, Core, NEW c \in CPU, LotteryPick(c)
  PROVE  TypeOK' /\ Core'
<1>1. TypeOK'
  <2> DEFINE s == IF state[si[c]] = "RUNNABLE"
                    THEN IntWrap(sum[c] + tickets[si[c]]) ELSE sum[c]
  <2>0. si[c] \in Slot /\ s \in Int
    BY IndexFacts, IntWrapInt DEF LotteryPick, TypeOK
  <2> HIDE DEF s
  <2>1. CASE state[si[c]] = "RUNNABLE" /\ s > winning[c]
    <3>1. /\ Dispatch(c, si[c], "run_lottery")
          /\ si' = [si EXCEPT ![c] = 0]
          /\ sum' = [sum EXCEPT ![c] = 0]
          /\ winning' = [winning EXCEPT ![c] = 0]
          /\ UNCHANGED total
      BY Zenon, <2>1 DEF LotteryPick, s
    <3> QED BY SMTT(30), <3>1, <2>0, IndexFacts
            DEF TypeOK, Dispatch, locals, States, SchedLabels
  <2>2. CASE ~(state[si[c]] = "RUNNABLE" /\ s > winning[c])
    <3>1. /\ sum' = [sum EXCEPT ![c] = s]
          /\ si' = [si EXCEPT ![c] = @ + 1]
          /\ UNCHANGED <<table, plock, waitLock, nextpid, schedulerMode,
                         curproc, spc, total, winning, pc, locals>>
      BY Zenon, <2>2 DEF LotteryPick, s
    <3> QED BY SMTT(30), <3>1, <2>0, IndexFacts DEF TypeOK, LotteryPick, table, locals
  <2> QED BY <2>1, <2>2
<1>2. Core'
  BY SMTT(30), SchedLocal, DispatchCore, IndexFacts
     DEF LotteryPick, Dispatch, TypeOK, locals, table, InProcess, SwitchingBack
<1> QED BY <1>1, <1>2

\* One slot of the round-robin pass, which may dispatch.
LEMMA RoundRobinStep ==
  ASSUME TypeOK, Core, NEW c \in CPU, RoundRobin(c)
  PROVE  TypeOK' /\ Core'
<1>1. TypeOK'
  <2>1. CASE state[si[c]] = "RUNNABLE"
    BY SMTT(30), <2>1, IndexFacts DEF TypeOK, RoundRobin, Dispatch, locals, States, SchedLabels
  <2>2. CASE state[si[c]] # "RUNNABLE"
    BY SMTT(30), <2>2, IndexFacts DEF TypeOK, RoundRobin, table, locals
  <2> QED BY Zenon, <2>1, <2>2
<1>2. Core'
  BY SMTT(30), SchedLocal, DispatchCore, IndexFacts
     DEF RoundRobin, Dispatch, TypeOK, locals, table, InProcess, SwitchingBack
<1> QED BY <1>1, <1>2

\* The end of a pass over proc[].
LEMMA PassDoneStep ==
  ASSUME TypeOK, Core, NEW c \in CPU, PassDone(c)
  PROVE  TypeOK' /\ Core'
<1>1. TypeOK'
  BY IndexFacts DEF TypeOK, PassDone, table, locals, SchedLabels
<1>2. Core'
  BY Zenon, SchedLocal DEF PassDone, locals, table, InProcess, SwitchingBack
<1> QED BY <1>1, <1>2

\* The return of swtch() in scheduler().
LEMMA SwitchBackStep ==
  ASSUME TypeOK, Core, NEW c \in CPU, SwitchBack(c)
  PROVE  TypeOK' /\ Core'
<1>1. TypeOK'
  <2>1. spc[c] = "back_rr" => si[c] < NPROC
    BY Zenon DEF Core, CurProcInv
  <2>2. si' \in [CPU -> Index]
    BY <2>1, IndexFacts DEF TypeOK, SwitchBack
  <2>3. spc' \in [CPU -> SchedLabels]
    BY DEF TypeOK, SwitchBack, SchedLabels
  <2> QED BY Zenon, <2>2, <2>3 DEF TypeOK, SwitchBack, table, locals
<1>2. Core'
  <2>1. \A d \in CPU : d # c => si'[d] = si[d]
    BY DEF SwitchBack, TypeOK
  <2>2. PICK l \in {"top", "rr"} : spc' = [spc EXCEPT ![c] = l]
    BY DEF SwitchBack
  <2>3. l \notin InProcess \cup SwitchingBack
    BY DEF InProcess, SwitchingBack
  <2> QED BY Zenon, <2>1, <2>2, <2>3, SwitchBackCore DEF SwitchBack, table, locals
<1> QED BY <1>1, <1>2

\* yield() from kerneltrap().
LEMMA KernelYieldStep ==
  ASSUME TypeOK, Core, NEW c \in CPU, NEW p \in Slot, KernelYield(c, p)
  PROVE  TypeOK' /\ Core'
<1>1. TypeOK'
  BY DEF TypeOK, KernelYield, Yield, sched_swtch, Running, Goto, States,
     SchedLabels, Labels, SwitchedIn
<1>2. Core'
  <2>1. /\ curproc[c] = p /\ spc[c] \in InProcess /\ plock[p] = Null
        /\ UNCHANGED <<curproc, si, arg>>
    BY DEF KernelYield, Yield, sched_swtch, Running, Goto, Preemptible
  <2>2. /\ state' = [state EXCEPT ![p] = "RUNNABLE"]
        /\ plock' = [plock EXCEPT ![p] = c]
        /\ spc' = [spc EXCEPT ![c] = IF @ = "run_lottery" THEN "back_lottery"
                                                       ELSE "back_rr"]
        /\ pc' = [pc EXCEPT ![p] = "yielded"]
    BY DEF KernelYield, Yield, sched_swtch, Running, Goto, Preemptible
  <2>3. \A q \in Slot : ForkPending(q)' => ForkPending(q)
    BY DEF KernelYield, Yield, sched_swtch, Running, Goto, Preemptible, TypeOK, ForkPending, At
  <2> QED BY Zenon, <2>1, <2>2, <2>3, SwtchOutCore
<1> QED BY <1>1, <1>2

\* yield() from usertrap().
LEMMA UserYieldStep ==
  ASSUME TypeOK, Core, NEW c \in CPU, NEW p \in Slot, UserYield(c, p)
  PROVE  TypeOK' /\ Core'
<1>1. TypeOK'
  BY SMTT(30) DEF TypeOK, UserYield, Yield, sched_swtch, Running, Goto, States,
     SchedLabels, Labels, SwitchedIn
<1>2. Core'
  <2>1. /\ curproc[c] = p /\ spc[c] \in InProcess /\ plock[p] = Null
        /\ UNCHANGED <<curproc, si, arg>>
    BY Zenon DEF UserYield, Yield, sched_swtch, Running, Goto
  <2>2. /\ state' = [state EXCEPT ![p] = "RUNNABLE"]
        /\ plock' = [plock EXCEPT ![p] = c]
        /\ spc' = [spc EXCEPT ![c] = IF @ = "run_lottery" THEN "back_lottery"
                                                       ELSE "back_rr"]
        /\ pc' = [pc EXCEPT ![p] = "yielded"]
    BY Zenon DEF UserYield, Yield, sched_swtch, Running, Goto
  <2>3. \A q \in Slot : ForkPending(q)' => ForkPending(q)
    BY DEF UserYield, Yield, sched_swtch, Running, Goto, TypeOK, ForkPending, At
  <2> QED BY Zenon, <2>1, <2>2, <2>3, SwtchOutCore
<1> QED BY <1>1, <1>2

\* The return of sched() in yield() and sleep(), and forkret().
LEMMA SwitchedInStepStep ==
  ASSUME TypeOK, Core, NEW c \in CPU, NEW p \in Slot, SwitchedInStep(c, p)
  PROVE  TypeOK' /\ Core'
<1>1. TypeOK'
  BY SMTT(30) DEF TypeOK, SwitchedInStep, Running, Goto, sched, Labels,
     Preemptible, SwitchedIn
<1>2. Core'
  <2>1. PICK l : /\ pc' = [pc EXCEPT ![p] = l]
                 /\ l \notin SwitchedIn
                 /\ l \in {"forkparent", "forkrun"}
                      => l = resume[p] /\ pc[p] = "yielded"
    BY DEF SwitchedInStep, Running, Goto, TypeOK, SwitchedIn, Preemptible
  <2>2. \A q \in Slot : q # p => resume'[q] = resume[q]
    BY DEF SwitchedInStep, TypeOK
  <2> QED BY Zenon, <2>1, <2>2, SwitchedInCore
          DEF SwitchedInStep, Running, SwitchedIn, sched
<1> QED BY <1>1, <1>2

\* A system call enters usertrap().
LEMMA SyscallStep ==
  ASSUME TypeOK, Core, NEW c \in CPU, NEW p \in Slot, Syscall(c, p)
  PROVE  TypeOK' /\ Core'
<1>1. TypeOK'
  BY SMTT(30), ProcAssumption DEF TypeOK, Syscall, UnlessKilled, Goto, table, sched, Labels,
     Preemptible
<1>2. Core'
  <2>1. /\ curproc[c] = p /\ spc[c] \in InProcess /\ pc[p] = "user"
        /\ UNCHANGED <<curproc, spc, si, plock, resume, state>>
    BY ZenonT(30) DEF Syscall, Running, sched, table
  <2>2. /\ \A q \in Slot : q # p => pc'[q] = pc[q]
        /\ pc'[p] \in {"exit", "fork", "wait", "kill"}
    BY SMTT(30), <2>1 DEF Syscall, Goto, TypeOK, UnlessKilled
  <2>3. \A q \in Slot : q # p => arg'[q] = arg[q]
    BY SMTT(30) DEF Syscall, TypeOK
  <2> QED BY Zenon, <2>1, <2>2, <2>3, LocalCore DEF SwitchedIn
<1> QED BY <1>1, <1>2

\* A timer interrupt enters usertrap().
LEMMA TimerUserStep ==
  ASSUME TypeOK, Core, NEW c \in CPU, NEW p \in Slot, TimerUser(c, p)
  PROVE  TypeOK' /\ Core'
<1>1. TypeOK'
  BY SMTT(30) DEF TypeOK, TimerUser, UnlessKilled, Goto, table, sched, locals,
     Labels, Preemptible
<1>2. Core'
  <2>1. /\ curproc[c] = p /\ spc[c] \in InProcess /\ pc[p] = "user"
        /\ UNCHANGED <<curproc, spc, si, plock, resume, arg, state>>
    BY ZenonT(30) DEF TimerUser, Running, sched, locals, table
  <2>2. /\ \A q \in Slot : q # p => pc'[q] = pc[q]
        /\ pc'[p] \in {"exit", "yield"}
    BY SMTT(30), <2>1 DEF TimerUser, Goto, TypeOK, UnlessKilled
  <2> QED BY Zenon, <2>1, <2>2, LocalCore DEF SwitchedIn
<1> QED BY <1>1, <1>2

\* An exception in user mode: setkilled().
LEMMA FaultStep ==
  ASSUME TypeOK, Core, NEW c \in CPU, NEW p \in Slot, Fault(c, p)
  PROVE  TypeOK' /\ Core'
<1>1. TypeOK'
  BY SMTT(30) DEF TypeOK, Fault, Goto, sched, locals, Labels, Preemptible
<1>2. Core'
  <2>1. /\ curproc[c] = p /\ spc[c] \in InProcess /\ pc[p] = "user"
        /\ UNCHANGED <<curproc, spc, si, plock, resume, arg, state>>
    BY ZenonT(30) DEF Fault, Running, sched, locals
  <2>2. /\ \A q \in Slot : q # p => pc'[q] = pc[q]
        /\ pc'[p] \in {"exit"}
    BY SMTT(30), <2>1 DEF Fault, Goto, TypeOK
  <2> QED BY Zenon, <2>1, <2>2, LocalCore DEF SwitchedIn
<1> QED BY <1>1, <1>2

\* The killed check at the end of usertrap().
LEMMA TrapRetStep ==
  ASSUME TypeOK, Core, NEW c \in CPU, NEW p \in Slot, TrapRet(c, p)
  PROVE  TypeOK' /\ Core'
<1>1. TypeOK'
  BY SMTT(30) DEF TypeOK, TrapRet, UnlessKilled, Goto, table, sched, locals,
     Labels, Preemptible
<1>2. Core'
  <2>1. /\ curproc[c] = p /\ spc[c] \in InProcess /\ pc[p] = "trapret"
        /\ UNCHANGED <<curproc, spc, si, plock, resume, arg, state>>
    BY ZenonT(30) DEF TrapRet, Running, sched, locals, table
  <2>2. /\ \A q \in Slot : q # p => pc'[q] = pc[q]
        /\ pc'[p] \in {"exit", "user"}
    BY SMTT(30), <2>1 DEF TrapRet, Goto, TypeOK, UnlessKilled
  <2> QED BY Zenon, <2>1, <2>2, LocalCore DEF SwitchedIn
<1> QED BY <1>1, <1>2

\* sys_settickets().
LEMMA SetTicketsStep ==
  ASSUME TypeOK, Core, NEW c \in CPU, NEW p \in Slot, SetTickets(c, p)
  PROVE  TypeOK' /\ Core'
<1>1. TypeOK'
  BY SMTT(30), ProcAssumption DEF TypeOK, SetTickets, Goto, sched, locals, Labels,
     Preemptible
<1>2. Core'
  <2>1. /\ curproc[c] = p /\ spc[c] \in InProcess /\ pc[p] = "user"
        /\ UNCHANGED <<curproc, spc, si, plock, resume, arg, state>>
    BY ZenonT(30) DEF SetTickets, Running, sched, locals
  <2>2. /\ \A q \in Slot : q # p => pc'[q] = pc[q]
        /\ pc'[p] \in {"trapret"}
    BY SMTT(30), <2>1 DEF SetTickets, Goto, TypeOK
  <2> QED BY Zenon, <2>1, <2>2, LocalCore DEF SwitchedIn
<1> QED BY <1>1, <1>2

\* sys_setsched().
LEMMA SetSchedStep ==
  ASSUME TypeOK, Core, NEW c \in CPU, NEW p \in Slot, SetSched(c, p)
  PROVE  TypeOK' /\ Core'
<1>1. TypeOK'
  BY SMTT(30) DEF TypeOK, SetSched, Goto, table, sched, locals, Labels, Preemptible
<1>2. Core'
  <2>1. /\ curproc[c] = p /\ spc[c] \in InProcess /\ pc[p] = "user"
        /\ UNCHANGED <<curproc, spc, si, plock, resume, arg, state>>
    BY ZenonT(30) DEF SetSched, Running, sched, locals, table
  <2>2. /\ \A q \in Slot : q # p => pc'[q] = pc[q]
        /\ pc'[p] \in {"trapret"}
    BY SMTT(30), <2>1 DEF SetSched, Goto, TypeOK
  <2> QED BY Zenon, <2>1, <2>2, LocalCore DEF SwitchedIn
<1> QED BY <1>1, <1>2

\* One slot of allocproc()'s scan.
LEMMA ForkAllocStep ==
  ASSUME TypeOK, Core, NEW c \in CPU, NEW p \in Slot, ForkAlloc(c, p)
  PROVE  TypeOK' /\ Core'
<1>1. TypeOK'
  <2> DEFINE k == idx[p]
  <2>0. k \in Slot /\ k \in Int
    BY SMTT(30), IndexFacts, ProcAssumption DEF ForkAlloc, TypeOK, Slot
  <2>1. CASE state[k] # "UNUSED"
    BY SMTT(30), <2>1, IndexFacts DEF TypeOK, ForkAlloc, table, sched
  <2>2. CASE state[k] = "UNUSED"
    <3>1. /\ nextpid' = nextpid + 1
          /\ tickets' = [tickets EXCEPT ![k] = DefaultTickets]
          /\ idx' = [idx EXCEPT ![p] = 0]
          /\ UNCHANGED <<plock, waitLock, schedulerMode, curproc, sched, ridx,
                         havekids, resume>>
      BY SMTT(30), <2>2 DEF ForkAlloc, allocpid
    <3>n. nextpid' \in Nat
      BY SMTT(30), <3>1 DEF TypeOK
    <3>t. tickets' \in [Slot -> Int]
      BY Zenon, <3>1, ProcAssumption DEF TypeOK
    <3>i. idx' \in [Slot -> Index]
      BY <3>1, IndexFacts DEF TypeOK
    <3>4. nextpid' \in Nat /\ tickets' \in [Slot -> Int] /\ idx' \in [Slot -> Index]
      BY <3>n, <3>t, <3>i
    <3>2. CASE /\ pid' = [pid EXCEPT ![k] = nextpid]
               /\ state' = [state EXCEPT ![k] = "USED"]
               /\ pc' = [pc EXCEPT ![k] = "forkret", ![p] = "forkparent"]
               /\ arg' = [arg EXCEPT ![p] = k]
               /\ UNCHANGED <<chan, killed, parent>>
      <4>1. pid' \in [Slot -> Nat] /\ arg' \in [Slot -> Int]
        BY <2>0, <3>2 DEF TypeOK
      <4>2. state' \in [Slot -> States]
        BY ZenonT(30), <3>2 DEF TypeOK, States
      <4>3. pc' \in [Slot -> Labels]
        BY <3>2 DEF TypeOK, Labels, SwitchedIn, Preemptible
      <4> QED BY Zenon, <3>1, <3>2, <3>4, <4>1, <4>2, <4>3 DEF TypeOK, sched
    <3>3. CASE freeproc(k) /\ Goto(p, "trapret") /\ UNCHANGED arg
      <4>1. pid' \in [Slot -> Nat] /\ killed' \in [Slot -> {0, 1}]
        BY Zenon, <3>3 DEF TypeOK, freeproc
      <4>2. /\ parent' \in [Slot -> Slot \cup {Null}]
            /\ chan' \in [Slot -> Slot \cup {Null}]
        BY Zenon, <3>3 DEF TypeOK, freeproc
      <4>3. state' \in [Slot -> States]
        BY Zenon, <3>3 DEF TypeOK, freeproc, States
      <4>4. pc' \in [Slot -> Labels]
        BY SMTT(30), <3>3 DEF TypeOK, Goto, Labels, Preemptible
      <4> QED BY <3>1, <3>3, <3>4, <4>1, <4>2, <4>3, <4>4 DEF TypeOK, sched
    <3> QED BY <2>2, <3>2, <3>3 DEF ForkAlloc
  <2> QED BY <2>1, <2>2
<1>2. Core'
  <2> DEFINE k == idx[p]
  <2>0. /\ k \in Slot
        /\ curproc[c] = p /\ spc[c] \in InProcess /\ pc[p] = "fork"
        /\ UNCHANGED <<curproc, spc, si, plock, resume>>
    BY SMTT(30), IndexFacts DEF ForkAlloc, Running, TypeOK, sched
  <2>1. CASE state' = [state EXCEPT ![k] = "USED"] /\ state[k] = "UNUSED"
             /\ pc' = [pc EXCEPT ![k] = "forkret", ![p] = "forkparent"]
             /\ arg' = [arg EXCEPT ![p] = k]
    BY Zenon, <2>0, <2>1, ForkAllocCore
  <2>2. CASE /\ \A q \in Slot : state'[q] = state[q]
             /\ pc' = pc \/ Goto(p, "trapret")
             /\ arg' = arg
    BY SMTT(30), <2>0, <2>2, LocalCore DEF Goto, SwitchedIn, TypeOK
  <2>3. \/ /\ state' = [state EXCEPT ![k] = "USED"] /\ state[k] = "UNUSED"
           /\ pc' = [pc EXCEPT ![k] = "forkret", ![p] = "forkparent"]
           /\ arg' = [arg EXCEPT ![p] = k]
        \/ /\ \A q \in Slot : state'[q] = state[q]
           /\ pc' = pc \/ Goto(p, "trapret")
           /\ arg' = arg
    BY Zenon DEF ForkAlloc, freeproc, TypeOK, table
  <2> QED BY Zenon, <2>1, <2>2, <2>3
<1> QED BY <1>1, <1>2

\* fork() finds no slot.
LEMMA ForkFullStep ==
  ASSUME TypeOK, Core, NEW c \in CPU, NEW p \in Slot, ForkFull(c, p)
  PROVE  TypeOK' /\ Core'
<1>1. TypeOK'
  BY SMTT(30), IndexFacts DEF TypeOK, ForkFull, Goto, table, sched, Labels, Preemptible
<1>2. Core'
  <2>1. /\ curproc[c] = p /\ spc[c] \in InProcess /\ pc[p] = "fork"
        /\ UNCHANGED <<curproc, spc, si, plock, resume, arg, state>>
    BY ZenonT(30) DEF ForkFull, Running, sched, table
  <2>2. /\ \A q \in Slot : q # p => pc'[q] = pc[q]
        /\ pc'[p] \in {"trapret"}
    BY SMTT(30), <2>1 DEF ForkFull, Goto, TypeOK
  <2> QED BY Zenon, <2>1, <2>2, LocalCore DEF SwitchedIn
<1> QED BY <1>1, <1>2

\* fork() sets np->parent under wait_lock.
LEMMA ForkParentStep ==
  ASSUME TypeOK, Core, NEW c \in CPU, NEW p \in Slot, ForkParent(c, p)
  PROVE  TypeOK' /\ Core'
<1>1. TypeOK'
  BY ZenonT(30) DEF TypeOK, ForkParent, Goto, sched, locals, Labels, Preemptible
<1>2. Core'
  <2>1. /\ curproc[c] = p /\ spc[c] \in InProcess /\ pc[p] = "forkparent"
        /\ UNCHANGED <<curproc, spc, si, plock, resume, arg, state>>
    BY ZenonT(30) DEF ForkParent, Running, sched, locals
  <2>2. /\ \A q \in Slot : q # p => pc'[q] = pc[q]
        /\ pc'[p] \in {"forkrun"}
    BY SMTT(30), <2>1 DEF ForkParent, Goto, TypeOK
  <2>3. ForkPending(p)
    BY Zenon, <2>1 DEF ForkPending, At
  <2> QED BY Zenon, <2>1, <2>2, <2>3, LocalCore DEF SwitchedIn
<1> QED BY <1>1, <1>2

\* fork() makes the child RUNNABLE.
LEMMA ForkRunStep ==
  ASSUME TypeOK, Core, NEW c \in CPU, NEW p \in Slot, ForkRun(c, p)
  PROVE  TypeOK' /\ Core'
<1>1. TypeOK'
  <2>0. pc[p] = "forkrun"
    BY Zenon DEF ForkRun, Running
  <2>1. arg[p] \in Slot
    BY Zenon, <2>0 DEF Core, ForkInv, ForkPending, At
  <2> QED BY SMTT(30), <2>1 DEF TypeOK, ForkRun, Goto, sched, States, Labels, Preemptible
<1>2. Core'
  BY ZenonT(30), ForkRunCore DEF ForkRun, Running, Goto, sched
<1> QED BY <1>1, <1>2

\* exit() takes wait_lock, or panics for init.
LEMMA ExitStartStep ==
  ASSUME TypeOK, Core, NEW c \in CPU, NEW p \in Slot, ExitStart(c, p)
  PROVE  TypeOK' /\ Core'
<1>1. TypeOK'
  BY SMTT(30) DEF TypeOK, ExitStart, Goto, table, sched, locals, Labels,
     Preemptible, HoldsWaitLock
<1>2. Core'
  <2>1. /\ curproc[c] = p /\ spc[c] \in InProcess /\ pc[p] = "exit"
        /\ UNCHANGED <<curproc, spc, si, plock, resume, arg, state>>
    BY ZenonT(30) DEF ExitStart, Running, sched, locals, table
  <2>2. /\ \A q \in Slot : q # p => pc'[q] = pc[q]
        /\ pc'[p] \in {"panic", "reparent"}
    BY SMTT(30), <2>1 DEF ExitStart, Goto, TypeOK
  <2> QED BY Zenon, <2>1, <2>2, LocalCore DEF SwitchedIn
<1> QED BY <1>1, <1>2

\* One slot of reparent().
LEMMA ReparentStep ==
  ASSUME TypeOK, Core, NEW c \in CPU, NEW p \in Slot, Reparent(c, p)
  PROVE  TypeOK' /\ Core'
<1>1. TypeOK'
  <2>1. parent' \in [Slot -> Slot \cup {Null}]
    BY SMTT(30), IndexFacts DEF TypeOK, Reparent
  <2>2. ridx' \in [Slot -> Index]
    BY SMTT(30), IndexFacts DEF TypeOK, Reparent
  <2>3. pc' \in [Slot -> Labels]
    BY SMTT(30) DEF TypeOK, Reparent, Goto, Labels, HoldsWaitLock
  <2> QED BY SMTT(30), <2>1, <2>2, <2>3 DEF TypeOK, Reparent, sched
<1>2. Core'
  <2>1. /\ curproc[c] = p /\ spc[c] \in InProcess /\ pc[p] = "reparent"
        /\ UNCHANGED <<curproc, spc, si, plock, resume, arg, state>>
    BY ZenonT(30) DEF Reparent, Running, sched
  <2>2. /\ \A q \in Slot : q # p => pc'[q] = pc[q]
        /\ pc'[p] \in {"reparent", "wakeinit", "wakeparent"}
    BY SMTT(30), <2>1 DEF Reparent, Goto, TypeOK
  <2> QED BY Zenon, <2>1, <2>2, LocalCore DEF SwitchedIn
<1> QED BY <1>1, <1>2

\* One slot of the wakeup() calls of exit() and reparent().
LEMMA ExitWakeupStep ==
  ASSUME TypeOK, Core, NEW c \in CPU, NEW p \in Slot, ExitWakeup(c, p)
  PROVE  TypeOK' /\ Core'
<1>1. TypeOK'
  <2>1. state' \in [Slot -> States]
    BY SMTT(30), IndexFacts DEF TypeOK, ExitWakeup, wakeup, States
  <2>2. idx' \in [Slot -> Index]
    BY SMTT(30), IndexFacts DEF TypeOK, ExitWakeup, wakeup
  <2>3. pc' \in [Slot -> Labels]
    BY SMTT(30) DEF TypeOK, ExitWakeup, wakeup, Goto, Labels, HoldsWaitLock
  <2> QED BY SMTT(30), <2>1, <2>2, <2>3 DEF TypeOK, ExitWakeup, sched
<1>2. Core'
  <2>1. /\ curproc[c] = p /\ spc[c] \in InProcess /\ pc[p] \notin SwitchedIn
        /\ UNCHANGED <<curproc, spc, si, plock, resume, arg>>
    BY Zenon DEF ExitWakeup, Running, sched, SwitchedIn
  <2>2. \A k \in Slot : \/ state'[k] = state[k]
                        \/ /\ state[k] = "SLEEPING" /\ state'[k] = "RUNNABLE"
                           /\ plock[k] = Null
    BY SMTT(30) DEF ExitWakeup, wakeup, TypeOK
  <2>3. /\ \A q \in Slot : q # p => pc'[q] = pc[q]
        /\ pc'[p] \in {"wakeinit", "wakeparent", "reparent", "zombie"}
    BY SMTT(30) DEF ExitWakeup, wakeup, Running, Goto, TypeOK
  <2> QED BY ZenonT(30), <2>1, <2>2, <2>3, LocalCore DEF SwitchedIn
<1> QED BY <1>1, <1>2

\* exit() becomes a ZOMBIE and calls sched().
LEMMA ExitZombieStep ==
  ASSUME TypeOK, Core, NEW c \in CPU, NEW p \in Slot, ExitZombie(c, p)
  PROVE  TypeOK' /\ Core'
<1>1. TypeOK'
  BY DEF TypeOK, ExitZombie, sched_swtch, Goto, locals, States, SchedLabels,
     Labels
<1>2. Core'
  <2>1. /\ curproc[c] = p /\ spc[c] \in InProcess /\ plock[p] = Null
        /\ UNCHANGED <<curproc, si, arg>>
    BY Zenon DEF ExitZombie, sched_swtch, Running, Goto, locals
  <2>2. /\ state' = [state EXCEPT ![p] = "ZOMBIE"]
        /\ plock' = [plock EXCEPT ![p] = c]
        /\ spc' = [spc EXCEPT ![c] = IF @ = "run_lottery" THEN "back_lottery"
                                                       ELSE "back_rr"]
        /\ pc' = [pc EXCEPT ![p] = "none"]
    BY Zenon DEF ExitZombie, sched_swtch, Running, Goto, locals
  <2>3. \A q \in Slot : ForkPending(q)' => ForkPending(q)
    BY SMTT(30) DEF ExitZombie, sched_swtch, Running, Goto, locals, TypeOK, ForkPending, At
  <2> QED BY Zenon, <2>1, <2>2, <2>3, SwtchOutCore
<1> QED BY <1>1, <1>2

\* wait() or sleep() acquires wait_lock.
LEMMA WaitStartStep ==
  ASSUME TypeOK, Core, NEW c \in CPU, NEW p \in Slot, WaitStart(c, p)
  PROVE  TypeOK' /\ Core'
<1>1. TypeOK'
  BY SMTT(30) DEF TypeOK, WaitStart, Goto, table, sched, Labels, HoldsWaitLock
<1>2. Core'
  <2>1. /\ curproc[c] = p /\ spc[c] \in InProcess /\ pc[p] \in {"wait", "reacquire"}
        /\ UNCHANGED <<curproc, spc, si, plock, resume, arg, state>>
    BY ZenonT(30) DEF WaitStart, Running, sched, table
  <2>2. /\ \A q \in Slot : q # p => pc'[q] = pc[q]
        /\ pc'[p] \in {"scan"}
    BY SMTT(30), <2>1 DEF WaitStart, Goto, TypeOK
  <2> QED BY Zenon, <2>1, <2>2, LocalCore DEF SwitchedIn
<1> QED BY <1>1, <1>2

\* One slot of wait()'s scan.
LEMMA WaitScanStep ==
  ASSUME TypeOK, Core, NEW c \in CPU, NEW p \in Slot, WaitScan(c, p)
  PROVE  TypeOK' /\ Core'
<1>1. TypeOK'
  <2> DEFINE k == idx[p]
  <2>0. k \in Slot /\ k + 1 \in Index
    BY SMTT(30), IndexFacts DEF WaitScan, TypeOK
  <2>1. CASE /\ idx' = [idx EXCEPT ![p] = @ + 1]
             /\ \/ havekids' = [havekids EXCEPT ![p] = TRUE]
                \/ UNCHANGED havekids
             /\ UNCHANGED <<table, waitLock, pc>>
    BY ZenonT(30), <2>0, <2>1 DEF TypeOK, WaitScan, table, sched
  <2>2. CASE /\ (freeproc(k) /\ UNCHANGED tickets) \/ UNCHANGED table
             /\ waitLock' = Null
             /\ idx' = [idx EXCEPT ![p] = 0]
             /\ havekids' = [havekids EXCEPT ![p] = FALSE]
             /\ Goto(p, "trapret")
    <3>0. pid' = [pid EXCEPT ![k] = 0] \/ pid' = pid
      BY Zenon, <2>2 DEF freeproc, table
    <3>p. pid' \in [Slot -> Nat]
      BY SMTT(30), <3>0 DEF TypeOK
    <3>1. killed' \in [Slot -> {0, 1}] /\ tickets' \in [Slot -> Int]
      BY Zenon, <2>2 DEF TypeOK, freeproc, table
    <3>3. /\ parent' \in [Slot -> Slot \cup {Null}]
          /\ chan' \in [Slot -> Slot \cup {Null}]
      BY Zenon, <2>2 DEF TypeOK, freeproc, table
    <3>4. state' \in [Slot -> States]
      BY ZenonT(30), <2>2 DEF TypeOK, freeproc, table, States
    <3>2. /\ idx' \in [Slot -> Index]
          /\ havekids' \in [Slot -> BOOLEAN]
          /\ pc' \in [Slot -> Labels]
      BY SMTT(30), <2>2, IndexFacts DEF TypeOK, Goto, Labels, Preemptible
    <3> QED BY Zenon, <2>2, <3>p, <3>1, <3>2, <3>3, <3>4 DEF TypeOK, WaitScan, sched
  <2> QED BY SMTT(30), <2>1, <2>2 DEF WaitScan
<1>2. Core'
  <2>0. idx[p] \in Slot
    BY SMTT(30), IndexFacts DEF WaitScan, TypeOK
  <2>1. /\ curproc[c] = p /\ spc[c] \in InProcess /\ pc[p] = "scan"
        /\ UNCHANGED <<curproc, spc, si, plock, resume, arg>>
    BY ZenonT(30) DEF WaitScan, Running, sched
  <2>2. \A k \in Slot : \/ state'[k] = state[k]
                        \/ /\ state[k] = "ZOMBIE" /\ state'[k] = "UNUSED"
                           /\ plock[k] = Null
    BY Zenon, <2>0 DEF WaitScan, freeproc, TypeOK, table
  <2>3. /\ \A q \in Slot : q # p => pc'[q] = pc[q]
        /\ pc'[p] \in {"scan", "trapret"}
    BY SMTT(30), <2>1 DEF WaitScan, Goto, TypeOK
  <2> QED BY Zenon, <2>1, <2>2, <2>3, LocalCore DEF SwitchedIn
<1> QED BY <1>1, <1>2

\* The end of wait()'s scan.
LEMMA WaitScannedStep ==
  ASSUME TypeOK, Core, NEW c \in CPU, NEW p \in Slot, WaitScanned(c, p)
  PROVE  TypeOK' /\ Core'
<1>1. TypeOK'
  BY SMTT(30), IndexFacts DEF TypeOK, WaitScanned, Goto, table, sched, Labels,
     HoldsWaitLock, Preemptible
<1>2. Core'
  <2>1. /\ curproc[c] = p /\ spc[c] \in InProcess /\ pc[p] = "scan"
        /\ UNCHANGED <<curproc, spc, si, plock, resume, arg, state>>
    BY ZenonT(30) DEF WaitScanned, Running, sched, table
  <2>2. /\ \A q \in Slot : q # p => pc'[q] = pc[q]
        /\ pc'[p] \in {"checkkilled", "trapret"}
    BY SMTT(30), <2>1 DEF WaitScanned, Goto, TypeOK
  <2> QED BY Zenon, <2>1, <2>2, LocalCore DEF SwitchedIn
<1> QED BY <1>1, <1>2

\* The killed check of wait().
LEMMA WaitKilledStep ==
  ASSUME TypeOK, Core, NEW c \in CPU, NEW p \in Slot, WaitKilled(c, p)
  PROVE  TypeOK' /\ Core'
<1>1. TypeOK'
  BY SMTT(30) DEF TypeOK, WaitKilled, Goto, table, sched, locals, Labels,
     HoldsWaitLock, Preemptible
<1>2. Core'
  <2>1. /\ curproc[c] = p /\ spc[c] \in InProcess /\ pc[p] = "checkkilled"
        /\ UNCHANGED <<curproc, spc, si, plock, resume, arg, state>>
    BY ZenonT(30) DEF WaitKilled, Running, sched, locals, table
  <2>2. /\ \A q \in Slot : q # p => pc'[q] = pc[q]
        /\ pc'[p] \in {"sleep", "trapret"}
    BY SMTT(30) DEF WaitKilled, Goto, TypeOK
  <2> QED BY Zenon, <2>1, <2>2, LocalCore DEF SwitchedIn
<1> QED BY <1>1, <1>2

\* sleep() in wait() goes to sched().
LEMMA WaitSleepStep ==
  ASSUME TypeOK, Core, NEW c \in CPU, NEW p \in Slot, WaitSleep(c, p)
  PROVE  TypeOK' /\ Core'
<1>1. TypeOK'
  BY DEF TypeOK, WaitSleep, sched_swtch, Goto, locals, States, SchedLabels,
     Labels, SwitchedIn
<1>2. Core'
  <2>1. /\ curproc[c] = p /\ spc[c] \in InProcess /\ plock[p] = Null
        /\ UNCHANGED <<curproc, si, arg>>
    BY Zenon DEF WaitSleep, sched_swtch, Running, Goto, locals
  <2>2. /\ state' = [state EXCEPT ![p] = "SLEEPING"]
        /\ plock' = [plock EXCEPT ![p] = c]
        /\ spc' = [spc EXCEPT ![c] = IF @ = "run_lottery" THEN "back_lottery"
                                                       ELSE "back_rr"]
        /\ pc' = [pc EXCEPT ![p] = "slept"]
    BY Zenon DEF WaitSleep, sched_swtch, Running, Goto, locals
  <2>3. \A q \in Slot : ForkPending(q)' => ForkPending(q)
    BY SMTT(30) DEF WaitSleep, sched_swtch, Running, Goto, locals, TypeOK, ForkPending, At
  <2> QED BY Zenon, <2>1, <2>2, <2>3, SwtchOutCore
<1> QED BY <1>1, <1>2

\* One slot of kill().
LEMMA KillStep ==
  ASSUME TypeOK, Core, NEW c \in CPU, NEW p \in Slot, Kill(c, p)
  PROVE  TypeOK' /\ Core'
<1>1. TypeOK'
  <2>1. killed' \in [Slot -> {0, 1}] /\ state' \in [Slot -> States]
    BY SMTT(30) DEF TypeOK, Kill, States
  <2>2. idx' \in [Slot -> Index] /\ arg' \in [Slot -> Int]
    BY SMTT(30), IndexFacts DEF TypeOK, Kill
  <2>3. pc' \in [Slot -> Labels]
    BY SMTT(30) DEF TypeOK, Kill, Goto, Labels, Preemptible
  <2>4. UNCHANGED <<pid, parent, tickets, chan, plock, waitLock, nextpid, schedulerMode,
                    curproc, spc, si, total, winning, sum, ridx, havekids, resume>>
    BY Zenon DEF Kill, sched
  <2> QED BY ONLY TypeOK, <2>1, <2>2, <2>3, <2>4 DEF TypeOK
<1>2. Core'
  <2>1. /\ curproc[c] = p /\ spc[c] \in InProcess /\ pc[p] = "kill"
        /\ UNCHANGED <<curproc, spc, si, plock, resume>>
    BY Zenon DEF Kill, Running, sched
  <2>2. \A k \in Slot : \/ state'[k] = state[k]
                        \/ /\ state[k] = "SLEEPING" /\ state'[k] = "RUNNABLE"
                           /\ plock[k] = Null
    BY SMTT(30) DEF Kill, TypeOK
  <2>3. /\ \A q \in Slot : q # p => pc'[q] = pc[q] /\ arg'[q] = arg[q]
        /\ pc'[p] \in {"kill", "trapret"}
    BY <2>1 DEF Kill, Goto, TypeOK
  <2> QED BY ZenonT(30), <2>1, <2>2, <2>3, LocalCore DEF SwitchedIn
<1> QED BY <1>1, <1>2

\* The state userinit() and scheduler() start from satisfies the invariant.
LEMMA CoreInit == Init => TypeOK /\ Core
<1> SUFFICES ASSUME Init PROVE TypeOK /\ Core
  OBVIOUS
<1>1. TypeOK
  BY ProcAssumption, IndexFacts
     DEF Init, TypeOK, States, SchedLabels, Labels, SwitchedIn
<1>2. \A c \in CPU : curproc[c] = Null /\ spc[c] = "top"
  BY DEF Init
<1>3. \A p \in Slot : /\ state[p] \in {"RUNNABLE", "UNUSED"}
                      /\ plock[p] = Null
                      /\ pc[p] \in {"forkret", "none"}
  BY DEF Init
<1>4. OneCPU /\ RunningOnCPU
  BY <1>2, <1>3 DEF OneCPU, RunningOnCPU
<1>5. CurProcInv
  BY <1>2 DEF CurProcInv, InProcess, SwitchingBack
<1>6. LockInv
  BY <1>2, <1>3 DEF LockInv, InProcess
<1>7. ForkInv
  BY <1>3 DEF ForkInv, ForkPending, At
<1> QED BY <1>1, <1>4, <1>5, <1>6, <1>7 DEF Core

\* A step that changes nothing keeps the invariant.
LEMMA CoreStutter == TypeOK /\ Core /\ UNCHANGED vars => TypeOK' /\ Core'
<1> SUFFICES ASSUME TypeOK, Core, UNCHANGED vars PROVE TypeOK' /\ Core'
  OBVIOUS
<1> USE DEF vars, table, sched, locals
<1>1. TypeOK'
  BY SMTT(30) DEF TypeOK
<1>2. OneCPU' /\ RunningOnCPU'
  BY ZenonT(30) DEF Core, OneCPU, RunningOnCPU
<1>3. CurProcInv' /\ LockInv'
  BY SMTT(30) DEF Core, CurProcInv, LockInv
<1>4. ForkInv'
  BY DEF Core, ForkInv, ForkPending, At
<1> QED BY <1>1, <1>2, <1>3, <1>4 DEF Core

\* Every step of every CPU and every thread keeps the invariant.
LEMMA HandoverStep == TypeOK /\ Core /\ [Next]_vars => TypeOK' /\ Core'
<1> SUFFICES ASSUME TypeOK, Core, Next PROVE TypeOK' /\ Core'
  BY CoreStutter
<1>1. PICK c \in CPU :
        \/ SchedStep(c)
        \/ \E p \in Slot : KernelStep(c, p) \/ UserStep(c, p) \/ KernelYield(c, p)
  BY DEF Next
<1>2. CASE SchedStep(c)
  BY SMTT(30), <1>2, SchedTopStep, LotteryCountStep, LotteryDrawStep, LotteryPickStep,
     RoundRobinStep, PassDoneStep, SwitchBackStep DEF SchedStep
<1>3. ASSUME NEW p \in Slot, KernelStep(c, p) PROVE TypeOK' /\ Core'
  <2>1. CASE UserYield(c, p) \/ SwitchedInStep(c, p) \/ TrapRet(c, p) \/ Kill(c, p)
    BY <2>1, UserYieldStep, SwitchedInStepStep, TrapRetStep, KillStep
  <2>2. CASE ForkAlloc(c, p) \/ ForkFull(c, p) \/ ForkParent(c, p) \/ ForkRun(c, p)
    BY <2>2, ForkAllocStep, ForkFullStep, ForkParentStep, ForkRunStep
  <2>3. CASE ExitStart(c, p) \/ Reparent(c, p) \/ ExitWakeup(c, p) \/ ExitZombie(c, p)
    BY <2>3, ExitStartStep, ReparentStep, ExitWakeupStep, ExitZombieStep
  <2>4. CASE WaitStart(c, p) \/ WaitScan(c, p) \/ WaitScanned(c, p)
    BY <2>4, WaitStartStep, WaitScanStep, WaitScannedStep
  <2>5. CASE WaitKilled(c, p) \/ WaitSleep(c, p)
    BY <2>5, WaitKilledStep, WaitSleepStep
  <2> QED BY ONLY <1>3, <2>1, <2>2, <2>3, <2>4, <2>5 DEF KernelStep
<1>4. ASSUME NEW p \in Slot, UserStep(c, p) PROVE TypeOK' /\ Core'
  BY <1>4, SyscallStep, SetTicketsStep, SetSchedStep, FaultStep, TimerUserStep
     DEF UserStep
<1>5. ASSUME NEW p \in Slot, KernelYield(c, p) PROVE TypeOK' /\ Core'
  BY <1>5, KernelYieldStep
<1> QED BY <1>1, <1>2, <1>3, <1>4, <1>5

\* The inductive invariant of the lock hand-over through swtch() holds.
THEOREM Handover == Spec => []HandoverInv
<1>1. Init => HandoverInv
  BY CoreInit DEF HandoverInv, Core
<1>2. HandoverInv /\ [Next]_vars => HandoverInv'
  BY HandoverStep DEF HandoverInv, Core
<1> QED BY <1>1, <1>2, PTL DEF Spec

\* Every variable of the process table keeps its type.
THEOREM TypeCorrect == Spec => []TypeOK
<1>1. HandoverInv => TypeOK
  BY DEF HandoverInv
<1> QED BY <1>1, Handover, PTL

\* For any number of CPUs and slots, no process is ever on two CPUs.
THEOREM NoProcessOnTwoCPUs == Spec => []OneCPU
<1>1. HandoverInv => OneCPU
  BY DEF HandoverInv
<1> QED BY <1>1, Handover, PTL

\* For any number of CPUs and slots, RUNNING processes are on a CPU, and a
\* process on a CPU that is not RUNNING has its lock held by that CPU.
THEOREM RunningIsOnCPU == Spec => []RunningOnCPU
<1>1. HandoverInv => RunningOnCPU
  BY DEF HandoverInv
<1> QED BY <1>1, Handover, PTL
=============================================================================
