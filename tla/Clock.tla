------------------------------- MODULE Clock --------------------------------
(***************************************************************************)
(* The clock: clockintr() counts ticks and sys_sleep() waits for them.     *)
(* ticks is an unsigned counter that wraps.  tickslock makes each round of *)
(* the waiting loop one step.                                              *)
(***************************************************************************)
EXTENDS Integers

CONSTANTS
  Sleeper,    \* processes in sys_sleep()
  TickMod,    \* 2^32
  SleepArgs,  \* values of the argument n
  Lag         \* ticks that may pass before a woken process runs

ASSUME ClockAssumption ==
  /\ TickMod \in Nat \ {0} /\ Lag \in Nat /\ SleepArgs \subseteq Int
  /\ Lag < TickMod /\ \A n \in SleepArgs : n + Lag < TickMod

VARIABLES
  ticks,
  nap,        \* per sleeper: where it is, n, ticks0, killed
  passed      \* ticks since the call, history

clockvars == <<ticks, nap, passed>>

Awake == [pc |-> "idle", n |-> 0, ticks0 |-> 0, killed |-> FALSE]

ClockInit ==
  /\ ticks = 0 /\ nap = [p \in Sleeper |-> Awake] /\ passed = [p \in Sleeper |-> 0]

\* if(n < 0) n = 0;
Argument(n) == IF n < 0 THEN 0 ELSE n

SleepCall(p, n) ==
  /\ nap[p].pc = "idle"
  /\ nap' = [nap EXCEPT ![p] = [pc |-> "loop", n |-> n, ticks0 |-> ticks,
                                killed |-> FALSE]]
  /\ passed' = [passed EXCEPT ![p] = 0]
  /\ UNCHANGED ticks

\* Mutant: the deadline is compared instead of the difference.
Waits_deadline(p) == ticks < (nap[p].ticks0 + Argument(nap[p].n)) % TickMod

\* ticks - ticks0 < n, unsigned.
Waits(p) == (ticks - nap[p].ticks0) % TickMod < Argument(nap[p].n)

SleepLoop(p) ==
  /\ nap[p].pc = "loop"
  /\ nap' = [nap EXCEPT ![p].pc = CASE ~Waits(p) -> "slept"
                                   [] Waits(p) /\ nap[p].killed -> "failed"
                                   [] OTHER -> "asleep"]
  /\ UNCHANGED <<ticks, passed>>

SleepReturn(p) ==
  /\ nap[p].pc \in {"slept", "failed"}
  /\ nap' = [nap EXCEPT ![p] = Awake]
  /\ UNCHANGED <<ticks, passed>>

KillSleeper(p) ==
  /\ nap[p].pc \in {"loop", "asleep"}
  /\ nap' = [nap EXCEPT ![p].killed = TRUE, ![p].pc = "loop"]
  /\ UNCHANGED <<ticks, passed>>

\* clockintr() on hart 0: ticks++, wakeup(&ticks).
clockintr ==
  /\ \A p \in Sleeper : nap[p].pc # "idle" => passed[p] < Argument(nap[p].n) + Lag
  /\ ticks' = (ticks + 1) % TickMod
  /\ nap' = [p \in Sleeper |-> [nap[p] EXCEPT !.pc = IF @ = "asleep" THEN "loop" ELSE @]]
  /\ passed' = [p \in Sleeper |-> IF nap[p].pc = "idle" THEN 0 ELSE passed[p] + 1]

ClockNext ==
  \/ clockintr
  \/ \E p \in Sleeper :
       \/ \E n \in SleepArgs : SleepCall(p, n)
       \/ SleepLoop(p) \/ SleepReturn(p) \/ KillSleeper(p)

ClockSpec == ClockInit /\ [][ClockNext]_clockvars

-----------------------------------------------------------------------------
\* sleep(n) returns 0 only after n ticks, across the wrap of the counter and whatever
\* the sign of n; nobody stays asleep when n ticks have passed; and only a killed
\* process gives up early (sys_sleep(), clockintr()).
SleepExact ==
  \A p \in Sleeper :
    /\ nap[p].pc = "slept" => passed[p] >= nap[p].n
    /\ nap[p].pc = "asleep" => passed[p] < nap[p].n
    /\ nap[p].pc = "failed" => nap[p].killed

\* The unsigned difference is the number of ticks that have passed: it never gets
\* to where it would wrap.
ClockInv ==
  /\ ticks \in 0 .. TickMod - 1
  /\ nap \in [Sleeper -> [pc : {"idle", "loop", "asleep", "slept", "failed"},
                          n : SleepArgs \cup {0}, ticks0 : 0 .. TickMod - 1,
                          killed : BOOLEAN]]
  /\ passed \in [Sleeper -> Nat]
  /\ \A p \in Sleeper : nap[p].pc # "idle" =>
       /\ (ticks - nap[p].ticks0) % TickMod = passed[p]
       /\ passed[p] <= Argument(nap[p].n) + Lag
  /\ SleepExact
=============================================================================
