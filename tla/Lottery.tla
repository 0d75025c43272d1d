------------------------------ MODULE Lottery ------------------------------
(***************************************************************************)
(* The arithmetic of the lottery: random() and the two passes of           *)
(* scheduler().  Module Proc interleaves the passes slot by slot; here each *)
(* pass is one step and the numbers are exact.  `seed' is a plain global,  *)
(* so the load and the store of random() are separate steps and two CPUs   *)
(* may lose an update.  The low bits of the generator evolve by            *)
(* themselves, so IntMod may be any power of two up to the code's 2^32.    *)
(* The processes compute without blocking: each is RUNNABLE or on a CPU.   *)
(***************************************************************************)
EXTENDS Integers, FiniteSets

CONSTANTS
  NPROC,         \* slots of proc[]
  CPU,           \* harts
  IntMod,        \* 2^32 in the code
  TicketValues,  \* the tickets processes start out with
  TicketArgs,    \* arguments of settickets() calls made later
  None           \* no process

Slot == 0 .. NPROC - 1

ASSUME LotteryAssumption ==
  /\ NPROC \in Nat \ {0}
  /\ IntMod \in Nat \ {0}
  /\ TicketValues \subseteq 1 .. (IntMod \div 2) - 1
  /\ TicketArgs \subseteq -(IntMod \div 2) .. (IntMod \div 2) - 1
  /\ None \notin Slot

VARIABLES
  seed,      \* the global of random.c
  runnable,  \* slots that are RUNNABLE
  tickets,   \* p->tickets
  lpc,       \* per CPU: where its scheduler loop is
  held,      \* per CPU: the value of seed random() loaded
  total,     \* per CPU: total_tickets
  winning,   \* per CPU: winning_ticket
  running    \* per CPU: c->proc

vars == <<seed, runnable, tickets, lpc, held, total, winning, running>>

\* int arithmetic as compiled: two's complement wrap-around.
IntWrap(x) == ((x + IntMod \div 2) % IntMod) - IntMod \div 2

\* Mutant: the increment is forgotten.
advance_multiply(s) == (s * (1664525 % IntMod)) % IntMod

\* seed * 1664525 + 1013904223 in unsigned arithmetic.
advance(s) == (s * (1664525 % IntMod) + (1013904223 % IntMod)) % IntMod

\* seed % max, with max converted to unsigned and the result back to int.
remainder(s, max) == IntWrap(s % (max % IntMod))

\* current_ticket_sum after the slots below n.
RunningSum ==
  LET f[n \in 0 .. NPROC] ==
        IF n = 0 THEN 0
        ELSE IF n - 1 \in runnable THEN IntWrap(f[n - 1] + tickets[n - 1])
        ELSE f[n - 1]
  IN f

\* What the first pass counts.
CountPass == RunningSum[NPROC]

\* Mutant: >= for > in the second pass.
PickPass_ge(w) ==
  LET over == {p \in runnable : RunningSum[p + 1] >= w}
  IN IF over = {} THEN None ELSE CHOOSE p \in over : \A q \in over : p <= q

\* The second pass: the first RUNNABLE slot whose running sum exceeds w.
PickPass(w) ==
  LET over == {p \in runnable : RunningSum[p + 1] > w}
  IN IF over = {} THEN None ELSE CHOOSE p \in over : \A q \in over : p <= q

Init ==
  /\ seed = 1
  /\ runnable \in SUBSET Slot
  /\ tickets \in [Slot -> TicketValues]
  /\ lpc = [c \in CPU |-> "count"]
  /\ held = [c \in CPU |-> 0]
  /\ total = [c \in CPU |-> 0]
  /\ winning = [c \in CPU |-> 0]
  /\ running = [c \in CPU |-> None]

\* First pass; a total of zero starts the loop again.
Count(c) ==
  /\ lpc[c] = "count"
  /\ LET t == CountPass
     IN /\ total' = [total EXCEPT ![c] = t]
        /\ lpc' = [lpc EXCEPT ![c] = IF t = 0 THEN "count" ELSE "load"]
  /\ UNCHANGED <<seed, runnable, tickets, held, winning, running>>

\* random() loads the seed.
Load(c) ==
  /\ lpc[c] = "load"
  /\ held' = [held EXCEPT ![c] = seed]
  /\ lpc' = [lpc EXCEPT ![c] = "store"]
  /\ UNCHANGED <<seed, runnable, tickets, total, winning, running>>

\* random() stores the next seed and returns the winning ticket.
Store(c) ==
  /\ lpc[c] = "store"
  /\ seed' = advance(held[c])
  /\ winning' = [winning EXCEPT ![c] = remainder(advance(held[c]), total[c])]
  /\ held' = [held EXCEPT ![c] = 0]
  /\ lpc' = [lpc EXCEPT ![c] = "pick"]
  /\ UNCHANGED <<runnable, tickets, total, running>>

\* Second pass: run the winner, or start again when there is none.
Pick(c) ==
  /\ lpc[c] = "pick"
  /\ LET p == PickPass(winning[c])
     IN /\ running' = [running EXCEPT ![c] = p]
        /\ runnable' = runnable \ {p}
        /\ lpc' = [lpc EXCEPT ![c] = IF p = None THEN "count" ELSE "run"]
  /\ total' = [total EXCEPT ![c] = 0]
  /\ winning' = [winning EXCEPT ![c] = 0]
  /\ UNCHANGED <<seed, tickets, held>>

\* The timer interrupt: the process yields and the scheduler resumes.
Yield(c) ==
  /\ lpc[c] = "run"
  /\ runnable' = runnable \cup {running[c]}
  /\ running' = [running EXCEPT ![c] = None]
  /\ lpc' = [lpc EXCEPT ![c] = "count"]
  /\ UNCHANGED <<seed, tickets, held, total, winning>>

\* Mutant: no lower bound on n.
SetTickets_unchecked(c, n) ==
  /\ lpc[c] = "run"
  /\ tickets' = [tickets EXCEPT ![running[c]] = n]
  /\ UNCHANGED <<seed, runnable, lpc, held, total, winning, running>>

\* sys_settickets(n) of the running process.
SetTickets(c, n) ==
  /\ lpc[c] = "run"
  /\ n >= 1
  /\ tickets' = [tickets EXCEPT ![running[c]] = n]
  /\ UNCHANGED <<seed, runnable, lpc, held, total, winning, running>>

LoopStep(c) == Count(c) \/ Load(c) \/ Store(c) \/ Pick(c) \/ Yield(c)

Next == \E c \in CPU : LoopStep(c) \/ \E n \in TicketArgs : SetTickets(c, n)

Spec == Init /\ [][Next]_vars

-----------------------------------------------------------------------------
\* The processes competing for a CPU or running on one.
Live == runnable \cup {running[c] : c \in {d \in CPU : lpc[d] = "run"}}

\* The tickets of a set of slots, without overflow.
TicketSum(S) ==
  LET f[n \in 0 .. NPROC] ==
        IF n = 0 THEN 0
        ELSE f[n - 1] + (IF n - 1 \in S THEN tickets[n - 1] ELSE 0)
  IN f[NPROC]

\* The draw is a lottery: as long as the tickets fit an int, the second pass
\* gives every RUNNABLE process exactly tickets[p] of the numbers random() can
\* return when the first pass saw the same processes, and nobody else any.
ProportionalShare ==
  TicketSum(runnable) < IntMod \div 2 =>
    \A p \in Slot :
      Cardinality({w \in 0 .. CountPass - 1 : PickPass(w) = p})
        = IF p \in runnable THEN tickets[p] ELSE 0

\* The generator starves nobody on one CPU: a process that stays ready to run
\* is picked again and again.  (With two CPUs it is not so: the total may be stale
\* in the second pass.  A ticket drawn for two processes picks nobody when the
\* first of them has been taken meanwhile, one drawn for the second process alone
\* goes to the first when that is back, and an unlucky schedule repeats this.)
EveryoneWins ==
  \A p \in Slot :
    [](p \in Live) => []<>(\E c \in CPU : running[c] = p)

\* The lottery always finds somebody: although the locks are dropped between
\* the passes and another CPU may take the winner away, while there are live
\* processes some CPU runs one again and again.
SomeoneRuns ==
  [](Live # {}) => []<>(\E c \in CPU : running[c] # None)

\* The first pass does what its comment says, "count total tickets": it ends
\* with the number of tickets the RUNNABLE processes have.
TotalCounted == CountPass = TicketSum(runnable)
=============================================================================
