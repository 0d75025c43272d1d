---------------------------- MODULE DeviceProofs ----------------------------
(***************************************************************************)
(* Proofs about the console and the clock, for any number of processes and *)
(* any sizes: nobody sleeps on with input or ticks to be had, no output is *)
(* forgotten, typing never changes what was committed, and sleep(n) takes  *)
(* n ticks although the tick counter wraps.                                *)
(***************************************************************************)
EXTENDS Console, Clock, NaturalsInduction, WellFoundedInduction, SequenceTheorems,
        TLAPS

-----------------------------------------------------------------------------
(* Remainders *)

\* A product by a positive number is at least that number, or not positive.
LEMMA ProductBound ==
  ASSUME NEW P \in Nat \ {0}, NEW d \in Int
  PROVE  /\ P * d \in Int
         /\ d >= 1 => P * d >= P
         /\ d <= 0 => P * d <= 0
  OBVIOUS

\* Division with remainder.
LEMMA DivMod ==
  ASSUME NEW P \in Nat \ {0}, NEW x \in Int
  PROVE  /\ x \div P \in Int /\ (x % P) \in 0 .. P - 1
         /\ x = P * (x \div P) + (x % P)
  OBVIOUS

\* The remainder is unique.
LEMMA ModUnique ==
  ASSUME NEW P \in Nat \ {0}, NEW q \in Int, NEW a \in 0 .. P - 1
  PROVE  (P * q + a) % P = a
<1> DEFINE x == P * q + a
           m == x % P
           k == x \div P
           d == k - q
<1>1. x \in Int
  OBVIOUS
<1>2. k \in Int /\ m \in 0 .. P - 1 /\ x = P * k + m
  BY <1>1, DivMod
<1>3. d \in Int /\ P * d = a - m
  <2>1. d \in Int /\ P * d = P * k - P * q
    BY <1>2
  <2>2. P * k = P * q + a - m
    BY <1>2
  <2> QED BY <1>2, <2>1, <2>2
<1>4. P * d > -P /\ P * d < P
  BY <1>2, <1>3
<1> HIDE DEF d, m
<1>5. d <= 0
  BY <1>3, <1>4, ProductBound
<1>6. -d \in Int /\ P * (-d) < P
  BY <1>3, <1>4
<1>7. -d <= 0
  BY <1>6, ProductBound
<1>8. P * d = 0
  BY <1>3, <1>5, <1>7
<1> QED BY <1>2, <1>3, <1>8 DEF m

\* Whole turns do not change the remainder.
LEMMA ModShift ==
  ASSUME NEW P \in Nat \ {0}, NEW x \in Int, NEW q \in Int
  PROVE  (x + P * q) % P = x % P
<1> DEFINE a == x % P
           k == x \div P
<1>1. k \in Int /\ a \in 0 .. P - 1 /\ x = P * k + a
  BY DivMod
<1> HIDE DEF a, k
<1>2. x + P * q = P * (k + q) + a /\ k + q \in Int
  BY <1>1
<1>3. (P * (k + q) + a) % P = a
  BY <1>1, <1>2, ModUnique
<1> QED BY <1>2, <1>3 DEF a

\* A number below the modulus is its own remainder; one turn further it is again.
LEMMA ModNear ==
  ASSUME NEW P \in Nat \ {0}, NEW a \in 0 .. P - 1
  PROVE  a % P = a /\ (a + P) % P = a /\ (a - P) % P = a
<1>1. (P * 0 + a) % P = a /\ P * 0 + a = a
  BY ModUnique
<1>2. (P * 1 + a) % P = a /\ P * 1 + a = a + P
  BY ModUnique
<1>3. (P * (-1) + a) % P = a /\ P * (-1) + a = a - P
  BY ModUnique
<1> QED BY <1>1, <1>2, <1>3

\* Numbers less than a turn apart have different remainders.
LEMMA ModDistinct ==
  ASSUME NEW P \in Nat \ {0}, NEW x \in Int, NEW y \in Int, x < y, y < x + P
  PROVE  x % P # y % P
<1> SUFFICES ASSUME x % P = y % P PROVE FALSE
  OBVIOUS
<1> DEFINE ex == x \div P
           ey == y \div P
           d == ey - ex
<1>1. /\ ex \in Int /\ (x % P) \in 0 .. P - 1 /\ x = P * ex + (x % P)
      /\ ey \in Int /\ (y % P) \in 0 .. P - 1 /\ y = P * ey + (y % P)
  BY DivMod
<1>2. d \in Int /\ P * d = y - x
  BY <1>1
<1> HIDE DEF d
<1> QED BY <1>2, ProductBound

\* A uint subtraction and increment, without the wrap and with it.
LEMMA Counter ==
  ASSUME NEW M \in Nat \ {0}, NEW a \in 0 .. M - 1, NEW b \in 0 .. M - 1
  PROVE  /\ (b - a) % M = IF b >= a THEN b - a ELSE b - a + M
         /\ (a + 1) % M = IF a + 1 = M THEN 0 ELSE a + 1
<1>1. (b - a) % M = IF b >= a THEN b - a ELSE b - a + M
  <2>1. CASE b >= a
    BY <2>1, ModNear
  <2>2. CASE b < a
    <3>1. b - a + M \in 0 .. M - 1 /\ (b - a + M) - M = b - a
      BY <2>2
    <3>2. ((b - a + M) - M) % M = b - a + M
      BY <3>1, ModNear
    <3> QED BY <2>2, <3>1, <3>2
  <2> QED BY <2>1, <2>2
<1>2. (a + 1) % M = IF a + 1 = M THEN 0 ELSE a + 1
  <2>1. CASE a + 1 = M
    <3>1. (0 + M) % M = 0 /\ 0 + M = M
      BY ModNear
    <3> QED BY <2>1, <3>1
  <2>2. CASE a + 1 # M
    BY <2>2, ModNear
  <2> QED BY <2>1, <2>2
<1> QED BY <1>1, <1>2

-----------------------------------------------------------------------------
(* The clock *)

\* One tick more, on counters that wrap.
LEMMA TickCounted ==
  ASSUME NEW M \in Nat \ {0}, NEW t \in 0 .. M - 1, NEW s \in 0 .. M - 1, NEW k \in Nat,
         (t - s) % M = k, k + 1 < M
  PROVE  /\ (t + 1) % M \in 0 .. M - 1
         /\ (((t + 1) % M) - s) % M = k + 1
<1> DEFINE u == (t + 1) % M
<1>1. /\ (t - s) % M = IF t >= s THEN t - s ELSE t - s + M
      /\ u = IF t + 1 = M THEN 0 ELSE t + 1
  BY Counter
<1>2. u \in 0 .. M - 1
  BY <1>1
<1> HIDE DEF u
<1>3. (u - s) % M = IF u >= s THEN u - s ELSE u - s + M
  BY <1>2, Counter
<1>4. (u - s) % M = k + 1
  BY <1>1, <1>3
<1> QED BY <1>2, <1>4 DEF u

\* At boot nobody sleeps.
LEMMA ClockInvInit == ClockInit => ClockInv
  BY ClockAssumption DEF ClockInit, ClockInv, Awake, SleepExact

\* How long a call sleeps, in numbers.
LEMMA ArgumentFacts ==
  ASSUME NEW n \in SleepArgs \cup {0}
  PROVE  /\ n \in Int /\ Argument(n) \in Nat /\ Argument(n) >= n
         /\ Argument(n) + Lag < TickMod
         /\ n < 0 => Argument(n) = 0
         /\ n >= 0 => Argument(n) = n
  BY ClockAssumption DEF Argument

\* sys_sleep() starts counting at the current tick.
LEMMA SleepCallInv ==
  ASSUME ClockInv, NEW p \in Sleeper, NEW n \in SleepArgs, SleepCall(p, n)
  PROVE  ClockInv'
<1>1. /\ ticks \in 0 .. TickMod - 1 /\ ticks' = ticks
      /\ nap' = [nap EXCEPT ![p] = [pc |-> "loop", n |-> n, ticks0 |-> ticks, killed |-> FALSE]]
      /\ passed' = [passed EXCEPT ![p] = 0]
  BY DEF ClockInv, SleepCall
<1>2. /\ nap' \in [Sleeper -> [pc : {"idle", "loop", "asleep", "slept", "failed"},
                               n : SleepArgs \cup {0}, ticks0 : 0 .. TickMod - 1,
                               killed : BOOLEAN]]
      /\ passed' \in [Sleeper -> Nat]
  BY <1>1 DEF ClockInv
<1>3. /\ nap'[p].pc = "loop" /\ nap'[p].ticks0 = ticks /\ nap'[p].n = n /\ passed'[p] = 0
      /\ \A q \in Sleeper \ {p} : nap'[q] = nap[q] /\ passed'[q] = passed[q]
  BY <1>1 DEF ClockInv
<1>4. (ticks - ticks) % TickMod = 0 /\ 0 <= Argument(n) + Lag
  <2>1. TickMod \in Nat \ {0} /\ Lag \in Nat
    BY ClockAssumption
  <2>2. (ticks - ticks) % TickMod = IF ticks >= ticks THEN ticks - ticks
                                    ELSE ticks - ticks + TickMod
    BY <1>1, <2>1, Counter
  <2>3. (ticks - ticks) % TickMod = 0
    BY <1>1, <2>1, <2>2
  <2> QED BY <2>1, <2>3, ArgumentFacts
<1>5. \A q \in Sleeper : nap'[q].pc # "idle" =>
        /\ (ticks' - nap'[q].ticks0) % TickMod = passed'[q]
        /\ passed'[q] <= Argument(nap'[q].n) + Lag
  <2>1. ASSUME NEW q \in Sleeper, q # p, nap'[q].pc # "idle"
        PROVE  /\ (ticks' - nap'[q].ticks0) % TickMod = passed'[q]
               /\ passed'[q] <= Argument(nap'[q].n) + Lag
    BY <1>1, <1>3, <2>1 DEF ClockInv
  <2>2. /\ (ticks' - nap'[p].ticks0) % TickMod = passed'[p]
        /\ passed'[p] <= Argument(nap'[p].n) + Lag
    BY <1>1, <1>3, <1>4
  <2> QED BY <2>1, <2>2
<1>6. SleepExact'
  BY <1>3 DEF ClockInv, SleepExact
<1> QED BY <1>1, <1>2, <1>5, <1>6 DEF ClockInv

\* A step in which p changes only its label or its killed flag.
LEMMA LabelInv ==
  ASSUME ClockInv, NEW p \in Sleeper, UNCHANGED <<ticks, passed>>,
         nap' \in [Sleeper -> [pc : {"idle", "loop", "asleep", "slept", "failed"},
                               n : SleepArgs \cup {0}, ticks0 : 0 .. TickMod - 1,
                               killed : BOOLEAN]],
         \A q \in Sleeper \ {p} : nap'[q] = nap[q],
         nap'[p].pc # "idle" => /\ nap[p].pc # "idle"
                                /\ nap'[p].n = nap[p].n /\ nap'[p].ticks0 = nap[p].ticks0,
         nap'[p].pc = "slept" => passed[p] >= nap[p].n,
         nap'[p].pc = "asleep" => passed[p] < nap[p].n,
         nap'[p].pc = "failed" => nap'[p].killed
  PROVE  ClockInv'
<1>1. \A q \in Sleeper : nap'[q].pc # "idle" =>
        /\ (ticks' - nap'[q].ticks0) % TickMod = passed'[q]
        /\ passed'[q] <= Argument(nap'[q].n) + Lag
  BY DEF ClockInv
<1>2. SleepExact'
  BY DEF ClockInv, SleepExact
<1> QED BY <1>1, <1>2 DEF ClockInv

\* A round of sys_sleep()'s loop: the unsigned difference decides.
LEMMA SleepLoopInv ==
  ASSUME ClockInv, NEW p \in Sleeper, SleepLoop(p)
  PROVE  ClockInv'
<1> DEFINE next == CASE ~Waits(p) -> "slept"
                     [] Waits(p) /\ nap[p].killed -> "failed"
                     [] OTHER -> "asleep"
<1>1. /\ nap[p].pc = "loop" /\ UNCHANGED <<ticks, passed>>
      /\ nap' = [nap EXCEPT ![p].pc = next]
  BY DEF SleepLoop
<1>2. /\ nap[p].n \in SleepArgs \cup {0} /\ nap[p].killed \in BOOLEAN /\ passed[p] \in Nat
      /\ (ticks - nap[p].ticks0) % TickMod = passed[p]
  BY <1>1 DEF ClockInv
<1>3. /\ next \in {"slept", "failed", "asleep"}
      /\ next = "slept" => ~Waits(p)
      /\ next = "asleep" => Waits(p)
      /\ next = "failed" => nap[p].killed
  BY <1>2 DEF Waits
<1> HIDE DEF next
<1>4. /\ nap' \in [Sleeper -> [pc : {"idle", "loop", "asleep", "slept", "failed"},
                               n : SleepArgs \cup {0}, ticks0 : 0 .. TickMod - 1,
                               killed : BOOLEAN]]
      /\ \A q \in Sleeper \ {p} : nap'[q] = nap[q]
      /\ nap'[p].pc = next /\ nap'[p].n = nap[p].n /\ nap'[p].ticks0 = nap[p].ticks0
      /\ nap'[p].killed = nap[p].killed
  BY <1>1, <1>3 DEF ClockInv
<1>5. Waits(p) <=> passed[p] < Argument(nap[p].n)
  BY <1>2 DEF Waits
<1>6. /\ ~Waits(p) => passed[p] >= nap[p].n
      /\ Waits(p) => passed[p] < nap[p].n
  BY <1>2, <1>5, ArgumentFacts
<1> QED BY <1>1, <1>3, <1>4, <1>6, LabelInv

\* sys_sleep() returns.
LEMMA SleepReturnInv ==
  ASSUME ClockInv, NEW p \in Sleeper, SleepReturn(p)
  PROVE  ClockInv'
<1>1. UNCHANGED <<ticks, passed>> /\ nap' = [nap EXCEPT ![p] = Awake]
  BY DEF SleepReturn
<1>2. Awake \in [pc : {"idle", "loop", "asleep", "slept", "failed"},
                 n : SleepArgs \cup {0}, ticks0 : 0 .. TickMod - 1, killed : BOOLEAN]
  BY ClockAssumption DEF Awake
<1>3. /\ nap' \in [Sleeper -> [pc : {"idle", "loop", "asleep", "slept", "failed"},
                               n : SleepArgs \cup {0}, ticks0 : 0 .. TickMod - 1,
                               killed : BOOLEAN]]
      /\ \A q \in Sleeper \ {p} : nap'[q] = nap[q]
      /\ nap'[p] = Awake
  BY <1>1, <1>2 DEF ClockInv
<1>4. nap'[p].pc = "idle"
  BY <1>3 DEF Awake
<1> QED BY <1>1, <1>3, <1>4, LabelInv

\* kill() makes a sleeping process look at its flag.
LEMMA KillSleeperInv ==
  ASSUME ClockInv, NEW p \in Sleeper, KillSleeper(p)
  PROVE  ClockInv'
<1>1. /\ UNCHANGED <<ticks, passed>> /\ nap[p].pc \in {"loop", "asleep"}
      /\ nap' = [nap EXCEPT ![p].killed = TRUE, ![p].pc = "loop"]
  BY DEF KillSleeper
<1>2. /\ nap' \in [Sleeper -> [pc : {"idle", "loop", "asleep", "slept", "failed"},
                               n : SleepArgs \cup {0}, ticks0 : 0 .. TickMod - 1,
                               killed : BOOLEAN]]
      /\ \A q \in Sleeper \ {p} : nap'[q] = nap[q]
      /\ nap'[p].pc = "loop" /\ nap'[p].n = nap[p].n /\ nap'[p].ticks0 = nap[p].ticks0
  BY <1>1 DEF ClockInv
<1> QED BY <1>1, <1>2, LabelInv

\* clockintr(): the difference grows with the counter and everybody looks again.
LEMMA clockintrInv ==
  ASSUME ClockInv, clockintr
  PROVE  ClockInv'
<1>1. /\ ticks' = (ticks + 1) % TickMod
      /\ nap' = [p \in Sleeper |-> [nap[p] EXCEPT !.pc = IF @ = "asleep" THEN "loop" ELSE @]]
      /\ passed' = [p \in Sleeper |-> IF nap[p].pc = "idle" THEN 0 ELSE passed[p] + 1]
      /\ \A p \in Sleeper : nap[p].pc # "idle" => passed[p] < Argument(nap[p].n) + Lag
  BY DEF clockintr
<1>2. /\ nap \in [Sleeper -> [pc : {"idle", "loop", "asleep", "slept", "failed"},
                              n : SleepArgs \cup {0}, ticks0 : 0 .. TickMod - 1,
                              killed : BOOLEAN]]
      /\ passed \in [Sleeper -> Nat] /\ ticks \in 0 .. TickMod - 1
      /\ TickMod \in Nat \ {0} /\ Lag \in Nat
  BY ClockAssumption DEF ClockInv
<1>3. \A p \in Sleeper :
        /\ nap'[p].pc = (IF nap[p].pc = "asleep" THEN "loop" ELSE nap[p].pc)
        /\ nap'[p].n = nap[p].n /\ nap'[p].ticks0 = nap[p].ticks0
        /\ nap'[p].killed = nap[p].killed
        /\ passed'[p] = IF nap[p].pc = "idle" THEN 0 ELSE passed[p] + 1
  BY <1>1, <1>2
<1>4. /\ nap' \in [Sleeper -> [pc : {"idle", "loop", "asleep", "slept", "failed"},
                               n : SleepArgs \cup {0}, ticks0 : 0 .. TickMod - 1,
                               killed : BOOLEAN]]
      /\ passed' \in [Sleeper -> Nat]
  BY <1>1, <1>2
<1>5. ticks' \in 0 .. TickMod - 1
  BY <1>1, <1>2, DivMod
<1>6. ASSUME NEW p \in Sleeper, nap'[p].pc # "idle"
      PROVE  /\ (ticks' - nap'[p].ticks0) % TickMod = passed'[p]
             /\ passed'[p] <= Argument(nap'[p].n) + Lag
  <2> DEFINE k == passed[p]
             s == nap[p].ticks0
  <2>1. nap[p].pc # "idle" /\ passed'[p] = k + 1
    BY <1>3, <1>6
  <2>2. /\ k \in Nat /\ s \in 0 .. TickMod - 1 /\ (ticks - s) % TickMod = k
        /\ k < Argument(nap[p].n) + Lag /\ nap[p].n \in SleepArgs \cup {0}
    BY <1>1, <1>2, <2>1 DEF ClockInv
  <2>3. Argument(nap[p].n) \in Nat /\ Argument(nap[p].n) + Lag < TickMod
    BY <2>2, ArgumentFacts
  <2>4. k + 1 < TickMod /\ k + 1 <= Argument(nap[p].n) + Lag
    BY <1>2, <2>2, <2>3
  <2> HIDE DEF k, s
  <2>5. (((ticks + 1) % TickMod) - s) % TickMod = k + 1
    BY <1>2, <2>2, <2>4, TickCounted
  <2>6. nap'[p].ticks0 = s /\ nap'[p].n = nap[p].n
    BY <1>3 DEF s
  <2> QED BY <1>1, <2>1, <2>4, <2>5, <2>6
<1>7. SleepExact'
  <2>1. ASSUME NEW p \in Sleeper
        PROVE  /\ nap'[p].pc = "slept" => passed'[p] >= nap'[p].n
               /\ nap'[p].pc # "asleep"
               /\ nap'[p].pc = "failed" => nap'[p].killed
    <3>1. /\ nap[p].pc = "slept" => passed[p] >= nap[p].n
          /\ nap[p].pc = "failed" => nap[p].killed
      BY DEF ClockInv, SleepExact
    <3>2. passed[p] \in Nat /\ nap[p].n \in Int
      BY <1>2, ArgumentFacts
    <3> QED BY <1>3, <3>1, <3>2
  <2> QED BY <2>1 DEF SleepExact
<1> QED BY <1>4, <1>5, <1>6, <1>7 DEF ClockInv

\* Every step keeps the clock's invariant.
LEMMA ClockStep == ClockInv /\ [ClockNext]_clockvars => ClockInv'
<1> SUFFICES ASSUME ClockInv, [ClockNext]_clockvars PROVE ClockInv'
  OBVIOUS
<1>1. CASE UNCHANGED clockvars
  BY <1>1 DEF clockvars, ClockInv, SleepExact
<1>2. CASE ClockNext
  BY <1>2, SleepCallInv, SleepLoopInv, SleepReturnInv, KillSleeperInv, clockintrInv DEF ClockNext
<1> QED BY <1>1, <1>2

\* sleep(n) returns 0 after n ticks and not before, nobody sleeps longer, and only
\* the killed give up, for any number of sleepers and across the counter's wrap.
THEOREM SleepIsExact == ClockSpec => []SleepExact
<1>1. ClockInv => SleepExact
  BY DEF ClockInv
<1> QED BY <1>1, ClockInvInit, ClockStep, PTL DEF ClockSpec

-----------------------------------------------------------------------------
(* The console: indices *)

\* The buffer is at most half of a turn of the indices.
LEMMA Sizes ==
  /\ INPUT_BUF_SIZE \in Nat \ {0} /\ IndexMod \in Nat \ {0}
  /\ IndexMod = INPUT_BUF_SIZE * (IndexMod \div INPUT_BUF_SIZE)
  /\ IndexMod \div INPUT_BUF_SIZE \in Int
  /\ INPUT_BUF_SIZE < IndexMod
<1> DEFINE N == INPUT_BUF_SIZE
           M == IndexMod
           k == M \div N
<1>1. N \in Nat \ {0} /\ M \in Nat \ {0} /\ M % N = 0 /\ M # N
  BY ConsoleAssumption
<1> HIDE DEF N, M
<1>2. k \in Int /\ M = N * k
  BY <1>1, DivMod
<1> HIDE DEF k
<1>3. k > 0 /\ k # 1
  BY <1>1, <1>2
<1>4. N * (k - 1) >= N /\ N * (k - 1) = N * k - N
  <2>1. k - 1 \in Int /\ k - 1 >= 1
    BY <1>2, <1>3
  <2>2. N * (k - 1) >= N
    BY <1>1, <2>1, ProductBound
  <2>3. N * (k - 1) = N * k - N
    BY <1>1, <1>2
  <2> QED BY <2>2, <2>3
<1>5. N < M
  BY <1>1, <1>2, <1>4
<1> QED BY <1>1, <1>2, <1>5 DEF N, M, k

\* Unsigned arithmetic on the indices.
LEMMA IndexFacts ==
  ASSUME NEW a \in 0 .. IndexMod - 1, NEW b \in 0 .. IndexMod - 1
  PROVE  /\ Used(a, b) = IF b >= a THEN b - a ELSE b - a + IndexMod
         /\ Used(a, b) \in 0 .. IndexMod - 1
         /\ Inc(a) = IF a + 1 = IndexMod THEN 0 ELSE a + 1
         /\ Inc(a) \in 0 .. IndexMod - 1
         /\ Dec(a) = IF a = 0 THEN IndexMod - 1 ELSE a - 1
         /\ Dec(a) \in 0 .. IndexMod - 1
<1>0. IndexMod \in Nat \ {0} /\ IndexMod > 1
  BY Sizes
<1>1. /\ Used(a, b) = IF b >= a THEN b - a ELSE b - a + IndexMod
      /\ Inc(a) = IF a + 1 = IndexMod THEN 0 ELSE a + 1
  BY <1>0, Counter DEF Used, Inc
<1>2. Dec(a) = IF a = 0 THEN IndexMod - 1 ELSE a - 1
  <2>1. 1 \in 0 .. IndexMod - 1
    BY <1>0
  <2>2. (a - 1) % IndexMod = IF a >= 1 THEN a - 1 ELSE a - 1 + IndexMod
    BY <1>0, <2>1, Counter
  <2> QED BY <1>0, <2>2 DEF Dec
<1> QED BY <1>0, <1>1, <1>2

\* The index i places after a.
LEMMA Advance ==
  ASSUME NEW a \in 0 .. IndexMod - 1, NEW i \in 0 .. IndexMod - 1
  PROVE  /\ (a + i) % IndexMod = IF a + i < IndexMod THEN a + i ELSE a + i - IndexMod
         /\ (a + i) % IndexMod \in 0 .. IndexMod - 1
<1>0. IndexMod \in Nat \ {0}
  BY Sizes
<1>1. CASE a + i < IndexMod
  <2>1. a + i \in 0 .. IndexMod - 1
    BY <1>0, <1>1
  <2> QED BY <1>0, <1>1, <2>1, ModNear
<1>2. CASE a + i >= IndexMod
  <2> DEFINE k == a + i - IndexMod
  <2>1. k \in 0 .. IndexMod - 1 /\ k + IndexMod = a + i
    BY <1>0, <1>2
  <2> HIDE DEF k
  <2>2. (k + IndexMod) % IndexMod = k
    BY <1>0, <2>1, ModNear
  <2> QED BY <1>0, <1>2, <2>1, <2>2
<1> QED BY <1>0, <1>1, <1>2

\* A non-empty set of numbers up to n has a greatest element.
LEMMA GreatestElement ==
  ASSUME NEW n \in Nat, NEW S, S \subseteq 0 .. n, S # {}
  PROVE  \E x \in S : \A y \in S : y <= x
<1> DEFINE T == {n - x : x \in S}
<1>1. T \subseteq Nat /\ T # {}
  <2>1. \A x \in S : x \in 0 .. n
    OBVIOUS
  <2>2. \A x \in S : n - x \in Nat
    BY <2>1
  <2>3. PICK z \in S : TRUE
    OBVIOUS
  <2>4. n - z \in T
    OBVIOUS
  <2> QED BY <2>2, <2>4
<1> HIDE DEF T
<1>2. \E x \in T : \A y \in T : ~(<<y, x>> \in OpToRel(<, Nat))
  BY <1>1, WFMin, NatLessThanWellFounded, Zenon
<1>3. PICK t \in T : \A y \in T : ~(y < t)
  BY <1>1, <1>2, Zenon DEF OpToRel
<1>4. PICK x \in S : t = n - x
  BY <1>3 DEF T
<1>5. ASSUME NEW y \in S PROVE y <= x
  <2>1. n - y \in T
    BY DEF T
  <2>2. ~(n - y < n - x)
    BY <1>3, <1>4, <2>1
  <2> QED BY <1>4, <2>2
<1> QED BY <1>4, <1>5

\* The ring, in numbers: u bytes to read, v more in the line being edited.
LEMMA RingFacts ==
  ASSUME RingInv
  PROVE  /\ r \in 0 .. IndexMod - 1 /\ w \in 0 .. IndexMod - 1 /\ e \in 0 .. IndexMod - 1
         /\ Used(r, w) \in Nat /\ Used(w, e) \in Nat /\ Used(r, e) \in Nat
         /\ Used(r, w) + Used(w, e) = Used(r, e) /\ Used(r, e) <= INPUT_BUF_SIZE
         /\ Used(r, w) = 0 <=> r = w
<1>1. r \in 0 .. IndexMod - 1 /\ w \in 0 .. IndexMod - 1 /\ e \in 0 .. IndexMod - 1
  BY DEF RingInv
<1>2. Used(r, w) \in Nat /\ Used(w, e) \in Nat /\ Used(r, e) \in Nat
  BY <1>1, IndexFacts
<1>3. Used(r, w) = 0 <=> r = w
  <2>1. Used(r, w) = IF w >= r THEN w - r ELSE w - r + IndexMod
    BY <1>1, IndexFacts
  <2>2. IndexMod \in Nat
    BY Sizes
  <2> QED BY <1>1, <2>1, <2>2
<1> QED BY <1>1, <1>2, <1>3 DEF RingInv

-----------------------------------------------------------------------------
(* The console: readers *)

\* consoleread() takes a byte: one less to read.
LEMMA TakeRing ==
  ASSUME RingInv, r # w, r' = Inc(r), UNCHANGED <<buf, w, e>>
  PROVE  /\ RingInv'
         /\ Used(r, w)' = Used(r, w) - 1 /\ Used(r, e)' = Used(r, e) - 1
<1>1. /\ r \in 0 .. IndexMod - 1 /\ w \in 0 .. IndexMod - 1 /\ e \in 0 .. IndexMod - 1
      /\ IndexMod \in Nat \ {0} /\ INPUT_BUF_SIZE \in Nat
  BY Sizes, RingFacts
<1>2. /\ r' = (IF r + 1 = IndexMod THEN 0 ELSE r + 1) /\ r' \in 0 .. IndexMod - 1
  BY <1>1, IndexFacts
<1>3. /\ Used(r, w) = IF w >= r THEN w - r ELSE w - r + IndexMod
      /\ Used(r, e) = IF e >= r THEN e - r ELSE e - r + IndexMod
      /\ Used(w, e) = IF e >= w THEN e - w ELSE e - w + IndexMod
  BY <1>1, IndexFacts
<1>4. /\ Used(r', w) = IF w >= r' THEN w - r' ELSE w - r' + IndexMod
      /\ Used(r', e) = IF e >= r' THEN e - r' ELSE e - r' + IndexMod
  BY <1>1, <1>2, IndexFacts
<1>5. /\ Used(r, w) + Used(w, e) = Used(r, e) /\ Used(r, e) <= INPUT_BUF_SIZE
      /\ Used(r, w) # 0
  BY RingFacts
<1>6. Used(r', w) = Used(r, w) - 1
  BY <1>1, <1>2, <1>3, <1>4
<1>7. e # r
  BY <1>1, <1>3, <1>5
<1>8. Used(r', e) = Used(r, e) - 1
  BY <1>1, <1>2, <1>3, <1>4, <1>7
<1>9. /\ Used(r, w)' = Used(r', w) /\ Used(r, e)' = Used(r', e) /\ Used(w, e)' = Used(w, e)
  BY DEF Used
<1>10. /\ Used(r', w) + Used(w, e) = Used(r', e) /\ Used(r', e) <= INPUT_BUF_SIZE
  <2>1. Used(r, w) \in Nat /\ Used(w, e) \in Nat /\ Used(r, e) \in Nat
    BY RingFacts
  <2> QED BY <1>1, <1>5, <1>6, <1>8, <2>1
<1> QED BY <1>1, <1>2, <1>6, <1>8, <1>9, <1>10 DEF RingInv

\* The ring stays as it is when its variables do.
LEMMA RingKept ==
  ASSUME RingInv, UNCHANGED <<buf, r, w, e>>
  PROVE  /\ RingInv' /\ Used(r, w)' = Used(r, w) /\ Used(r, e)' = Used(r, e)
         /\ Used(w, e)' = Used(w, e)
<1>1. /\ Used(r, w)' = Used(r, w) /\ Used(r, e)' = Used(r, e) /\ Used(w, e)' = Used(w, e)
  BY DEF Used
<1> QED BY <1>1 DEF RingInv

\* A step of reader p outside the ring and the transmitter.
LEMMA ReaderFrame ==
  ASSUME ConsoleInv, UNCHANGED <<buf, r, w, e, rhr, thr, thre, tx, txlock, wr, ih, echo>>,
         conslock' \in Reader \cup {None}, conslock # "intr",
         rd' \in [Reader -> [pc : {"idle", "loop", "asleep", "woken"}, n : Nat, target : Nat,
                             killed : BOOLEAN]],
         \A p \in Reader : /\ rd'[p].pc = "loop" => conslock' = p
                           /\ rd'[p].n <= rd'[p].target
                           /\ rd'[p].pc = "asleep" => rd[p].pc = "asleep" \/ r = w
  PROVE  ConsoleInv'
<1>1. RingInv' /\ Used(r, e)' = Used(r, e)
  BY RingKept DEF ConsoleInv
<1>2. ReaderInv'
  BY ConsoleAssumption DEF ConsoleInv, ReaderInv
<1>3. SendInv'
  BY DEF ConsoleInv, SendInv
<1>4. ConsoleAwake'
  BY <1>1 DEF ConsoleInv, ConsoleAwake
<1> QED BY <1>1, <1>2, <1>3, <1>4 DEF ConsoleInv

\* consoleread() takes cons.lock.
LEMMA ReadStartInv ==
  ASSUME ConsoleInv, NEW p \in Reader, ReadStart(p)
  PROVE  ConsoleInv'
<1>0. ReaderInv
  BY DEF ConsoleInv
<1>1. /\ UNCHANGED <<buf, r, w, e, rhr, thr, thre, tx, txlock, wr, ih, echo>>
      /\ conslock = None /\ conslock' = p
  BY DEF ReadStart
<1>2. PICK n \in 1 .. MaxRead :
        rd' = [rd EXCEPT ![p] = [pc |-> "loop", n |-> n, target |-> n, killed |-> FALSE]]
  BY DEF ReadStart
<1>3. n \in Nat
  BY ConsoleAssumption
<1>4. /\ rd' \in [Reader -> [pc : {"idle", "loop", "asleep", "woken"}, n : Nat, target : Nat,
                             killed : BOOLEAN]]
      /\ rd'[p].pc = "loop" /\ rd'[p].n = n /\ rd'[p].target = n
      /\ \A q \in Reader \ {p} : rd'[q] = rd[q]
  BY <1>0, <1>2, <1>3 DEF ReaderInv
<1>5. None \notin Reader /\ None # "intr"
  BY ConsoleAssumption
<1>6. \A q \in Reader : rd[q].pc # "loop"
  BY <1>0, <1>1, <1>5 DEF ReaderInv
<1>7. \A q \in Reader : /\ rd'[q].pc = "loop" => conslock' = q
                        /\ rd'[q].n <= rd'[q].target
                        /\ rd'[q].pc = "asleep" => rd[q].pc = "asleep" \/ r = w
  BY <1>0, <1>1, <1>3, <1>4, <1>6 DEF ReaderInv
<1> QED BY <1>1, <1>4, <1>5, <1>7, ReaderFrame

\* The record of a call that has returned.
LEMMA ReturnFacts ==
  ASSUME ReaderInv, NEW p \in Reader, Return(p)
  PROVE  /\ conslock' = None
         /\ rd' \in [Reader -> [pc : {"idle", "loop", "asleep", "woken"}, n : Nat,
                                target : Nat, killed : BOOLEAN]]
         /\ rd'[p].pc = "idle" /\ rd'[p].n = 0 /\ rd'[p].target = 0
         /\ \A q \in Reader \ {p} : rd'[q] = rd[q]
<1>1. NotReading \in [pc : {"idle", "loop", "asleep", "woken"}, n : Nat, target : Nat,
                      killed : BOOLEAN]
  BY DEF NotReading
<1>2. conslock' = None /\ rd' = [rd EXCEPT ![p] = NotReading]
  BY DEF Return
<1>3. /\ rd' \in [Reader -> [pc : {"idle", "loop", "asleep", "woken"}, n : Nat,
                             target : Nat, killed : BOOLEAN]]
      /\ rd'[p] = NotReading
      /\ \A q \in Reader \ {p} : rd'[q] = rd[q]
  BY <1>1, <1>2 DEF ReaderInv
<1> QED BY <1>2, <1>3 DEF NotReading

\* The lock says who reads: one reader at a time.
LEMMA OneReader ==
  ASSUME ReaderInv, NEW p \in Reader, rd[p].pc = "loop"
  PROVE  /\ conslock = p /\ conslock # "intr" /\ conslock # None
         /\ \A q \in Reader : rd[q].pc = "loop" => q = p
  BY ConsoleAssumption DEF ReaderInv

\* consoleread() sleeps, or gives up.
LEMMA ReadSleepInv ==
  ASSUME ConsoleInv, NEW p \in Reader, ReadSleep(p)
  PROVE  ConsoleInv'
<1>0. ReaderInv
  BY DEF ConsoleInv
<1>1. /\ UNCHANGED <<buf, r, w, e, rhr, thr, thre, tx, txlock, wr, ih, echo>>
      /\ rd[p].pc = "loop" /\ r = w
  BY DEF ReadSleep
<1>2. /\ conslock # "intr"
      /\ \A q \in Reader \ {p} : rd[q].pc # "loop" /\ rd[q].n <= rd[q].target
  BY <1>0, <1>1, OneReader DEF ReaderInv
<1>3. CASE Return(p)
  <2>1. \A q \in Reader : /\ rd'[q].pc = "loop" => conslock' = q
                          /\ rd'[q].n <= rd'[q].target
    BY <1>0, <1>2, <1>3, ReturnFacts
  <2> QED BY <1>0, <1>1, <1>2, <1>3, <2>1, ReturnFacts, ReaderFrame
<1>4. CASE conslock' = None /\ rd' = [rd EXCEPT ![p].pc = "asleep"]
  <2>1. /\ rd' \in [Reader -> [pc : {"idle", "loop", "asleep", "woken"}, n : Nat,
                               target : Nat, killed : BOOLEAN]]
        /\ rd'[p].pc = "asleep" /\ rd'[p].n = rd[p].n /\ rd'[p].target = rd[p].target
        /\ \A q \in Reader \ {p} : rd'[q] = rd[q]
    BY <1>0, <1>4 DEF ReaderInv
  <2>2. \A q \in Reader : /\ rd'[q].pc = "loop" => conslock' = q
                          /\ rd'[q].n <= rd'[q].target
    BY <1>0, <1>2, <2>1 DEF ReaderInv
  <2> QED BY <1>1, <1>2, <1>4, <2>1, <2>2, ReaderFrame
<1> QED BY <1>3, <1>4 DEF ReadSleep

\* sleep() returns with the lock.
LEMMA ReadWakeInv ==
  ASSUME ConsoleInv, NEW p \in Reader, ReadWake(p)
  PROVE  ConsoleInv'
<1>0. ReaderInv
  BY DEF ConsoleInv
<1>1. /\ UNCHANGED <<buf, r, w, e, rhr, thr, thre, tx, txlock, wr, ih, echo>>
      /\ conslock = None /\ conslock' = p /\ rd' = [rd EXCEPT ![p].pc = "loop"]
  BY DEF ReadWake
<1>2. None \notin Reader /\ None # "intr"
  BY ConsoleAssumption
<1>3. /\ rd' \in [Reader -> [pc : {"idle", "loop", "asleep", "woken"}, n : Nat,
                             target : Nat, killed : BOOLEAN]]
      /\ rd'[p].pc = "loop" /\ rd'[p].n = rd[p].n /\ rd'[p].target = rd[p].target
      /\ \A q \in Reader \ {p} : rd'[q] = rd[q]
  BY <1>0, <1>1 DEF ReaderInv
<1>4. \A q \in Reader : rd[q].pc # "loop"
  BY <1>0, <1>1, <1>2 DEF ReaderInv
<1>5. \A q \in Reader : /\ rd'[q].pc = "loop" => conslock' = q
                        /\ rd'[q].n <= rd'[q].target
                        /\ rd'[q].pc = "asleep" => rd[q].pc = "asleep" \/ r = w
  BY <1>0, <1>1, <1>3, <1>4 DEF ReaderInv
<1> QED BY <1>1, <1>2, <1>3, <1>5, ReaderFrame

\* kill() of a reader.
LEMMA KillReaderInv ==
  ASSUME ConsoleInv, NEW p \in Reader, KillReader(p)
  PROVE  ConsoleInv'
<1>0. ReaderInv
  BY DEF ConsoleInv
<1>1. /\ UNCHANGED <<buf, r, w, e, conslock, rhr, thr, thre, tx, txlock, wr, ih, echo>>
      /\ rd' = [rd EXCEPT ![p].killed = TRUE, ![p].pc = IF @ = "asleep" THEN "woken" ELSE @]
  BY DEF KillReader
<1>2. /\ rd' \in [Reader -> [pc : {"idle", "loop", "asleep", "woken"}, n : Nat,
                             target : Nat, killed : BOOLEAN]]
      /\ rd'[p].pc = (IF rd[p].pc = "asleep" THEN "woken" ELSE rd[p].pc)
      /\ rd'[p].n = rd[p].n /\ rd'[p].target = rd[p].target
      /\ \A q \in Reader \ {p} : rd'[q] = rd[q]
  BY <1>0, <1>1 DEF ReaderInv
<1>3. RingInv' /\ Used(r, e)' = Used(r, e)
  BY <1>1, RingKept DEF ConsoleInv
<1>4. ReaderInv'
  BY <1>0, <1>1, <1>2 DEF ReaderInv
<1>5. SendInv'
  BY <1>1 DEF ConsoleInv, SendInv
<1>6. ConsoleAwake'
  BY <1>1, <1>2, <1>3 DEF ConsoleInv, ConsoleAwake
<1> QED BY <1>3, <1>4, <1>5, <1>6 DEF ConsoleInv

\* consoleread() takes a byte, or leaves a ^D for the next call.
LEMMA ReadByteInv ==
  ASSUME ConsoleInv, NEW p \in Reader, ReadByte(p)
  PROVE  ConsoleInv'
<1>0. ReaderInv /\ RingInv /\ ConsoleAwake
  BY DEF ConsoleInv
<1>1. /\ UNCHANGED <<buf, w, e, rhr, thr, thre, tx, txlock, wr, ih, echo>>
      /\ rd[p].pc = "loop" /\ r # w
  BY DEF ReadByte
<1>2. /\ r' = r \/ r' = Inc(r)
      /\ \/ Return(p)
         \/ /\ rd[p].n > 1 /\ rd' = [rd EXCEPT ![p].n = @ - 1] /\ UNCHANGED conslock
  BY DEF ReadByte, Pushback
<1>3. /\ conslock = p /\ conslock # "intr"
      /\ \A q \in Reader \ {p} : rd[q].pc # "loop" /\ rd[q].n <= rd[q].target
  BY <1>0, <1>1, OneReader DEF ReaderInv
<1>4. /\ conslock' \in {None, p}
      /\ rd' \in [Reader -> [pc : {"idle", "loop", "asleep", "woken"}, n : Nat,
                             target : Nat, killed : BOOLEAN]]
      /\ rd'[p].pc \in {"idle", "loop"} /\ rd'[p].n <= rd'[p].target
      /\ rd'[p].pc = "loop" => conslock' = p
      /\ \A q \in Reader \ {p} : rd'[q] = rd[q]
  <2>1. CASE Return(p)
    BY <1>0, <2>1, ReturnFacts
  <2>2. CASE rd[p].n > 1 /\ rd' = [rd EXCEPT ![p].n = @ - 1] /\ UNCHANGED conslock
    <3>1. rd[p].n \in Nat /\ rd[p].target \in Nat /\ rd[p].n <= rd[p].target
      BY <1>0 DEF ReaderInv
    <3>2. rd[p].n - 1 \in Nat /\ rd[p].n - 1 <= rd[p].target
      BY <2>2, <3>1
    <3>3. rd'[p].pc = rd[p].pc /\ rd'[p].n = rd[p].n - 1 /\ rd'[p].target = rd[p].target
      BY <1>0, <2>2 DEF ReaderInv
    <3>4. rd' \in [Reader -> [pc : {"idle", "loop", "asleep", "woken"}, n : Nat,
                              target : Nat, killed : BOOLEAN]]
      BY <1>0, <2>2, <3>2 DEF ReaderInv
    <3>5. \A q \in Reader \ {p} : rd'[q] = rd[q]
      BY <1>0, <2>2 DEF ReaderInv
    <3> QED BY <1>1, <1>3, <2>2, <3>2, <3>3, <3>4, <3>5
  <2> QED BY <1>2, <2>1, <2>2
<1>5. RingInv' /\ (Used(r, e)' = INPUT_BUF_SIZE => r' # w')
  <2>1. CASE r' = r
    <3>1. RingInv' /\ Used(r, e)' = Used(r, e)
      BY <1>0, <1>1, <2>1, RingKept
    <3> QED BY <1>1, <2>1, <3>1
  <2>2. CASE r' = Inc(r)
    <3>1. RingInv' /\ Used(r, e)' = Used(r, e) - 1
      BY <1>0, <1>1, <2>2, TakeRing
    <3>2. Used(r, e) \in Nat /\ Used(r, e) <= INPUT_BUF_SIZE /\ INPUT_BUF_SIZE \in Nat
      BY <1>0, RingFacts, Sizes
    <3>3. Used(r, e)' # INPUT_BUF_SIZE
      BY <3>1, <3>2
    <3> QED BY <3>1, <3>3
  <2> QED BY <1>2, <2>1, <2>2
<1>6. \A q \in Reader : rd'[q].pc # "asleep"
  BY <1>0, <1>1, <1>4 DEF ConsoleAwake
<1>7. ReaderInv'
  <2>1. p # "intr" /\ None # "intr"
    BY ConsoleAssumption
  <2>2. conslock' \in Reader \cup {None} /\ conslock' # "intr"
    BY <1>4, <2>1
  <2>3. ih' \notin {"echo", "echowrite"}
    BY <1>0, <1>1, <1>3 DEF ReaderInv
  <2> QED BY <1>0, <1>1, <1>3, <1>4, <2>2, <2>3 DEF ReaderInv
<1>8. SendInv'
  BY <1>1 DEF ConsoleInv, SendInv
<1>9. ConsoleAwake'
  BY <1>0, <1>1, <1>5, <1>6 DEF ConsoleAwake
<1> QED BY <1>5, <1>7, <1>8, <1>9 DEF ConsoleInv

-----------------------------------------------------------------------------
(* The console: the transmitter *)

\* What output is promised, apart from the readers and the ring.
Sent ==
  /\ \A q \in Writer : wr[q] = "asleep" => tx = UART_TX_BUF_SIZE
  /\ tx > 0 => thr > 0 \/ thre \/ txlock # None \/ ih \in {"rx", "echo", "echowrite"}

\* A step that leaves the input alone, and does not enter or leave consoleintr().
LEMMA OutputFrame ==
  ASSUME ConsoleInv, UNCHANGED inputvars, rhr' \in Keys \cup {None},
         ih' \in {"echo", "echowrite"} <=> ih \in {"echo", "echowrite"},
         SendInv', Sent'
  PROVE  ConsoleInv'
<1>0. UNCHANGED <<buf, r, w, e, conslock, rd>>
  BY DEF inputvars
<1>1. RingInv' /\ Used(r, e)' = Used(r, e)
  BY <1>0, RingKept DEF ConsoleInv
<1>2. ReaderInv'
  BY <1>0 DEF ConsoleInv, ReaderInv
<1>3. ConsoleAwake'
  BY <1>0, <1>1 DEF ConsoleInv, ConsoleAwake, Sent
<1> QED BY <1>1, <1>2, <1>3 DEF ConsoleInv

\* The invariant's part about output.
LEMMA SentNow ==
  ASSUME ConsoleInv
  PROVE  SendInv /\ Sent /\ ReaderInv /\ rhr \in Keys \cup {None}
  BY DEF ConsoleInv, ConsoleAwake, Sent, ReaderInv

\* consolewrite() begins.
LEMMA WriteStartInv ==
  ASSUME ConsoleInv, NEW q \in Writer, WriteStart(q)
  PROVE  ConsoleInv'
<1>0. SendInv /\ Sent /\ rhr \in Keys \cup {None}
  BY SentNow
<1>1. /\ UNCHANGED inputvars /\ UNCHANGED <<rhr, thr, thre, tx, txlock, ih, echo>>
      /\ wr' = [wr EXCEPT ![q] = "put"]
  BY DEF WriteStart
<1>2. SendInv' /\ Sent'
  BY <1>0, <1>1 DEF SendInv, Sent
<1> QED BY <1>0, <1>1, <1>2, OutputFrame

\* uartputc() stores a byte and is about to call uartstart(), or sleeps.
LEMMA uartputcInv ==
  ASSUME ConsoleInv, NEW q \in Writer, uartputc(q)
  PROVE  ConsoleInv'
<1>0. SendInv /\ Sent /\ rhr \in Keys \cup {None} /\ UART_TX_BUF_SIZE \in Nat
  BY SentNow, ConsoleAssumption
<1>1. UNCHANGED inputvars /\ UNCHANGED <<rhr, thr, thre, ih, echo>>
  BY DEF uartputc
<1>2. CASE tx = UART_TX_BUF_SIZE /\ wr' = [wr EXCEPT ![q] = "asleep"] /\ UNCHANGED <<tx, txlock>>
  <2>1. SendInv' /\ Sent'
    BY <1>0, <1>1, <1>2 DEF SendInv, Sent
  <2> QED BY <1>0, <1>1, <2>1, OutputFrame
<1>3. CASE tx < UART_TX_BUF_SIZE /\ tx' = tx + 1 /\ txlock' = q /\ wr' = [wr EXCEPT ![q] = "start"]
  <2>1. tx \in Nat /\ \A x \in Writer : wr[x] # "asleep"
    BY <1>0, <1>3 DEF SendInv, Sent
  <2>2. wr' \in [Writer -> {"idle", "put", "asleep", "start"}] /\ \A x \in Writer : wr'[x] # "asleep"
    BY <1>0, <1>3, <2>1 DEF SendInv
  <2>3. txlock' # None
    BY <1>3, ConsoleAssumption
  <2>4. SendInv' /\ Sent'
    BY <1>0, <1>1, <1>3, <2>1, <2>2, <2>3 DEF SendInv, Sent
  <2> QED BY <1>0, <1>1, <2>4, OutputFrame
<1> QED BY <1>2, <1>3 DEF uartputc

\* A round of uartstart() that sends a byte keeps the transmitter busy and wakes the
\* writers.
LEMMA StartSendsKeeps ==
  ASSUME SendInv, Sent, StartSends, UNCHANGED echo
  PROVE  SendInv' /\ Sent' /\ ih' = ih
<1>1. /\ tx > 0 /\ tx' = tx - 1 /\ thr' = 1 /\ thre' = FALSE /\ UNCHANGED <<txlock, ih>>
      /\ wr' = [q \in Writer |-> IF wr[q] = "asleep" THEN "put" ELSE wr[q]]
  BY DEF StartSends, WakeWriters
<1>2. /\ wr' \in [Writer -> {"idle", "put", "asleep", "start"}]
      /\ \A q \in Writer : wr'[q] # "asleep"
  BY <1>1 DEF SendInv
<1>3. tx' \in Nat
  BY <1>1 DEF SendInv
<1>4. SendInv'
  <2>1. thr' \in Nat /\ thre' \in BOOLEAN /\ echo' \in Nat
    BY <1>1 DEF SendInv
  <2> QED BY <1>1, <1>2, <1>3, <2>1 DEF SendInv
<1>5. Sent'
  <2>1. thr' > 0
    BY <1>1
  <2> QED BY <1>2, <2>1 DEF Sent
<1> QED BY <1>1, <1>4, <1>5

\* uartstart() in uartputc().
LEMMA WriterSendsInv ==
  ASSUME ConsoleInv, NEW q \in Writer, WriterSends(q)
  PROVE  ConsoleInv'
<1>0. SendInv /\ Sent /\ rhr \in Keys \cup {None}
  BY SentNow
<1>1. UNCHANGED inputvars /\ UNCHANGED <<rhr, echo>>
  BY DEF WriterSends
<1>2. CASE StartSends
  BY <1>0, <1>1, <1>2, StartSendsKeeps, OutputFrame
<1>3. CASE StartEnds /\ wr' = [wr EXCEPT ![q] = "idle"] /\ UNCHANGED ih
  <2>1. /\ tx = 0 \/ thr > 0
        /\ thre' = (thre /\ tx > 0) /\ txlock' = None /\ UNCHANGED <<tx, thr>>
    BY <1>3 DEF StartEnds
  <2>2. SendInv'
    BY <1>0, <1>1, <1>3, <2>1 DEF SendInv
  <2>3. Sent'
    BY <1>0, <1>3, <2>1 DEF SendInv, Sent
  <2> QED BY <1>0, <1>1, <1>3, <2>2, <2>3, OutputFrame
<1> QED BY <1>2, <1>3 DEF WriterSends

\* uartstart() at the end of uartintr().
LEMMA IntrSendsInv ==
  ASSUME ConsoleInv, IntrSends
  PROVE  ConsoleInv'
<1>0. SendInv /\ Sent /\ rhr \in Keys \cup {None}
  BY SentNow
<1>1. UNCHANGED inputvars /\ UNCHANGED <<rhr, echo>> /\ ih = "tx"
  BY DEF IntrSends
<1>2. CASE StartSends
  BY <1>0, <1>1, <1>2, StartSendsKeeps, OutputFrame
<1>3. CASE StartEnds /\ ih' = "idle" /\ UNCHANGED wr
  <2>1. /\ tx = 0 \/ thr > 0
        /\ thre' = (thre /\ tx > 0) /\ txlock' = None /\ UNCHANGED <<tx, thr>>
    BY <1>3 DEF StartEnds
  <2>2. SendInv'
    BY <1>0, <1>1, <1>3, <2>1 DEF SendInv
  <2>3. Sent'
    BY <1>0, <1>3, <2>1 DEF SendInv, Sent
  <2> QED BY <1>0, <1>1, <1>3, <2>2, <2>3, OutputFrame
<1> QED BY <1>2, <1>3 DEF IntrSends

\* The UART: a key, and a character gone out.
LEMMA UartInv ==
  ASSUME ConsoleInv, Transmit \/ \E c \in Keys : Key(c)
  PROVE  ConsoleInv'
<1>0. SendInv /\ Sent /\ rhr \in Keys \cup {None}
  BY SentNow
<1>1. CASE Transmit
  <2>1. /\ UNCHANGED inputvars /\ UNCHANGED <<rhr, tx, txlock, wr, ih, echo>>
        /\ thr > 0 /\ thr' = thr - 1 /\ thre' = (thre \/ thr = 1)
    BY <1>1 DEF Transmit
  <2>2. thr \in Nat /\ thr' \in Nat /\ (thr' > 0 \/ thre')
    <3>1. thr \in Nat /\ (thr' > 0 \/ thr = 1) /\ thr' \in Nat
      BY <1>0, <2>1 DEF SendInv
    <3>2. thr = 1 => thre'
      BY <2>1
    <3> QED BY <3>1, <3>2
  <2>3. SendInv'
    <3>1. thre' \in BOOLEAN
      BY <2>1
    <3> QED BY <1>0, <2>1, <2>2, <3>1 DEF SendInv
  <2>4. Sent'
    BY <1>0, <2>1, <2>2 DEF Sent
  <2> QED BY <1>0, <2>1, <2>3, <2>4, OutputFrame
<1>2. ASSUME NEW c \in Keys, Key(c)
      PROVE  ConsoleInv'
  <2>1. UNCHANGED inputvars /\ UNCHANGED <<thr, thre, tx, txlock, wr, ih, echo>> /\ rhr' = c
    BY <1>2 DEF Key
  <2>2. SendInv' /\ Sent'
    BY <1>0, <2>1 DEF SendInv, Sent
  <2> QED BY <2>1, <2>2, OutputFrame
<1> QED BY <1>1, <1>2

\* uartintr(): claim, echo, and the way to uartstart().
LEMMA IntrInv ==
  ASSUME ConsoleInv, Claim \/ EchoWait \/ EchoWrite \/ IntrTx
  PROVE  ConsoleInv'
<1>0. SendInv /\ Sent /\ rhr \in Keys \cup {None}
  BY SentNow
<1>1. CASE Claim
  <2>1. /\ UNCHANGED inputvars /\ UNCHANGED <<rhr, thr, thre, tx, txlock, wr, echo>>
        /\ ih = "idle" /\ ih' = "rx"
    BY <1>1 DEF Claim
  <2>2. SendInv' /\ Sent'
    BY <1>0, <2>1 DEF SendInv, Sent
  <2> QED BY <1>0, <2>1, <2>2, OutputFrame
<1>2. CASE EchoWait
  <2>1. /\ UNCHANGED inputvars /\ UNCHANGED <<rhr, thr, thre, tx, txlock, wr, echo>>
        /\ ih = "echo" /\ ih' = "echowrite" /\ echo > 0
    BY <1>2 DEF EchoWait
  <2>2. SendInv' /\ Sent'
    BY <1>0, <2>1 DEF SendInv, Sent
  <2> QED BY <1>0, <2>1, <2>2, OutputFrame
<1>4. CASE IntrTx
  <2>1. /\ UNCHANGED inputvars /\ UNCHANGED <<rhr, thr, thre, tx, wr, echo>>
        /\ ih = "rx" /\ ih' = "tx" /\ txlock' = "intr" /\ None # "intr"
    BY <1>4, ConsoleAssumption DEF IntrTx
  <2>2. SendInv' /\ Sent'
    BY <1>0, <2>1 DEF SendInv, Sent
  <2> QED BY <1>0, <2>1, <2>2, OutputFrame
<1>3. CASE EchoWrite
  <2>1. /\ UNCHANGED inputvars /\ UNCHANGED <<rhr, tx, txlock, wr>>
        /\ ih = "echowrite" /\ ih' = "echo" /\ thr' = thr + 1 /\ thre' = FALSE
        /\ echo' = echo - 1
    BY <1>3 DEF EchoWrite
  <2>2. echo' \in Nat /\ thr' \in Nat /\ thr' > 0
    BY <1>0, <2>1 DEF SendInv
  <2>3. SendInv'
    BY <1>0, <2>1, <2>2 DEF SendInv
  <2>4. Sent'
    BY <1>0, <2>1, <2>2 DEF Sent
  <2> QED BY <1>0, <2>1, <2>3, <2>4, OutputFrame
<1> QED BY <1>1, <1>2, <1>3, <1>4

-----------------------------------------------------------------------------
(* The console: consoleintr() *)

\* consoleintr() ends.
LEMMA EchoDoneInv ==
  ASSUME ConsoleInv, EchoDone
  PROVE  ConsoleInv'
<1>0. SendInv /\ ReaderInv /\ RingInv /\ ConsoleAwake
  BY DEF ConsoleInv
<1>1. /\ UNCHANGED <<buf, r, w, e, rd, rhr, thr, thre, tx, txlock, wr, echo>>
      /\ ih = "echo" /\ ih' = "rx" /\ conslock' = None
  BY DEF EchoDone
<1>2. RingInv' /\ Used(r, e)' = Used(r, e)
  BY <1>0, <1>1, RingKept
<1>3. conslock = "intr" /\ None # "intr" /\ "intr" \notin Reader
  BY <1>0, <1>1, ConsoleAssumption DEF ReaderInv
<1>4. \A p \in Reader : rd[p].pc # "loop"
  BY <1>0, <1>3 DEF ReaderInv
<1>5. ReaderInv'
  BY <1>0, <1>1, <1>3, <1>4 DEF ReaderInv
<1>6. SendInv'
  BY <1>0, <1>1 DEF SendInv
<1>7. ConsoleAwake'
  BY <1>0, <1>1, <1>2 DEF ConsoleAwake
<1> QED BY <1>2, <1>5, <1>6, <1>7 DEF ConsoleInv

\* Backspace and ^U leave e between w and where it was.
LEMMA ErasedFacts ==
  ASSUME RingInv, NEW c
  PROVE  Erased(c) \in 0 .. IndexMod - 1 /\ Used(w, Erased(c)) <= Used(w, e)
<1>1. /\ w \in 0 .. IndexMod - 1 /\ e \in 0 .. IndexMod - 1 /\ IndexMod \in Nat \ {0}
      /\ Used(w, e) \in 0 .. IndexMod - 1
      /\ Used(w, e) = IF e >= w THEN e - w ELSE e - w + IndexMod
  BY RingFacts, Sizes, IndexFacts
<1>2. CASE c = "KILL"
  <2> DEFINE kept == {i \in 0 .. Used(w, e) :
                        i = 0 \/ buf[Cell((w + i - 1) % IndexMod)] = "NL"}
             k == CHOOSE i \in kept : \A j \in kept : j <= i
  <2>1. kept \subseteq 0 .. Used(w, e) /\ 0 \in kept /\ Used(w, e) \in Nat
    BY <1>1
  <2>2. Erased(c) = (w + k) % IndexMod
    BY <1>2 DEF Erased
  <2> HIDE DEF kept
  <2>3. \E i \in kept : \A j \in kept : j <= i
    BY <2>1, GreatestElement
  <2>4. k \in kept
    BY <2>3
  <2> HIDE DEF k
  <2>5. k \in 0 .. IndexMod - 1 /\ k <= Used(w, e)
    BY <1>1, <2>1, <2>4
  <2>6. /\ Erased(c) = IF w + k < IndexMod THEN w + k ELSE w + k - IndexMod
        /\ Erased(c) \in 0 .. IndexMod - 1
    BY <1>1, <2>2, <2>5, Advance
  <2> DEFINE x == Erased(c)
  <2> HIDE DEF x
  <2>7. Used(w, x) = IF x >= w THEN x - w ELSE x - w + IndexMod
    BY <1>1, <2>6, IndexFacts DEF x
  <2>8. Used(w, x) = k
    BY <1>1, <2>5, <2>6, <2>7 DEF x
  <2> QED BY <2>5, <2>6, <2>8 DEF x
<1>3. CASE c # "KILL" /\ e # w
  <2>1. Erased(c) = Dec(e)
    BY <1>3 DEF Erased
  <2>2. /\ Dec(e) = IF e = 0 THEN IndexMod - 1 ELSE e - 1
        /\ Dec(e) \in 0 .. IndexMod - 1
    BY <1>1, IndexFacts
  <2>3. Used(w, Dec(e)) = IF Dec(e) >= w THEN Dec(e) - w ELSE Dec(e) - w + IndexMod
    BY <1>1, <2>2, IndexFacts
  <2>4. Used(w, Dec(e)) <= Used(w, e)
    BY <1>1, <1>3, <2>2, <2>3
  <2> QED BY <2>1, <2>2, <2>4
<1>4. CASE c # "KILL" /\ e = w
  BY <1>1, <1>4 DEF Erased
<1> QED BY <1>2, <1>3, <1>4

\* The ring after the line has been edited.
LEMMA EditRing ==
  ASSUME RingInv, UNCHANGED <<buf, r, w>>, e' \in 0 .. IndexMod - 1,
         Used(w, e') <= Used(w, e)
  PROVE  RingInv' /\ Used(r, e)' <= Used(r, e)
<1>1. /\ r \in 0 .. IndexMod - 1 /\ w \in 0 .. IndexMod - 1 /\ e \in 0 .. IndexMod - 1
      /\ IndexMod \in Nat \ {0} /\ INPUT_BUF_SIZE \in Nat /\ INPUT_BUF_SIZE < IndexMod
      /\ Used(r, w) + Used(w, e) = Used(r, e) /\ Used(r, e) <= INPUT_BUF_SIZE
  BY Sizes, RingFacts
<1>2. /\ Used(r, w) = IF w >= r THEN w - r ELSE w - r + IndexMod
      /\ Used(r, e) = IF e >= r THEN e - r ELSE e - r + IndexMod
      /\ Used(w, e) = IF e >= w THEN e - w ELSE e - w + IndexMod
      /\ Used(r, e') = IF e' >= r THEN e' - r ELSE e' - r + IndexMod
      /\ Used(w, e') = IF e' >= w THEN e' - w ELSE e' - w + IndexMod
  BY <1>1, IndexFacts
<1>3. /\ Used(r, w) + Used(w, e') = Used(r, e')
      /\ Used(r, e') <= Used(r, e) /\ Used(r, e') \in Nat /\ Used(r, e) \in Nat
  <2>1. PICK m, ra, wa, ea, fa, A, B, C, D, F :
             /\ m = IndexMod /\ ra = r /\ wa = w /\ ea = e /\ fa = e' /\ A = Used(r, w)
             /\ B = Used(r, e) /\ C = Used(w, e) /\ D = Used(r, e') /\ F = Used(w, e')
    OBVIOUS
  <2>2. /\ m \in Nat /\ ra \in 0 .. m - 1 /\ wa \in 0 .. m - 1 /\ ea \in 0 .. m - 1
        /\ fa \in 0 .. m - 1 /\ F <= C /\ A + C = B
        /\ A = (IF wa >= ra THEN wa - ra ELSE wa - ra + m)
        /\ B = (IF ea >= ra THEN ea - ra ELSE ea - ra + m)
        /\ C = (IF ea >= wa THEN ea - wa ELSE ea - wa + m)
        /\ D = (IF fa >= ra THEN fa - ra ELSE fa - ra + m)
        /\ F = (IF fa >= wa THEN fa - wa ELSE fa - wa + m)
    BY <1>1, <1>2, <2>1
  <2>3. A + F = D /\ D <= B /\ D \in Nat /\ B \in Nat
    BY ONLY <2>2
  <2> QED BY <2>1, <2>3
<1>4. Used(r, w)' = Used(r, w) /\ Used(w, e)' = Used(w, e') /\ Used(r, e)' = Used(r, e')
  BY DEF Used
<1>5. Used(r, e') <= INPUT_BUF_SIZE
  BY <1>1, <1>3
<1> QED BY <1>1, <1>3, <1>4, <1>5 DEF RingInv

\* The ring after a character has been added, and perhaps the line committed.
LEMMA AddRing ==
  ASSUME RingInv, Used(r, e) < INPUT_BUF_SIZE, NEW c \in {"x", "NL", "EOF"},
         buf' = [buf EXCEPT ![Cell(e)] = c], e' = Inc(e), r' = r, w' = w \/ w' = Inc(e)
  PROVE  RingInv' /\ Used(r, e)' = Used(r, e) + 1 /\ Used(r, Inc(e)) = Used(r, e)'
<1>1. /\ r \in 0 .. IndexMod - 1 /\ w \in 0 .. IndexMod - 1 /\ e \in 0 .. IndexMod - 1
      /\ IndexMod \in Nat \ {0} /\ INPUT_BUF_SIZE \in Nat /\ INPUT_BUF_SIZE < IndexMod
      /\ Used(r, w) + Used(w, e) = Used(r, e) /\ Used(r, e) <= INPUT_BUF_SIZE
      /\ Used(r, w) \in Nat
  BY Sizes, RingFacts
<1>2. /\ Used(r, w) = IF w >= r THEN w - r ELSE w - r + IndexMod
      /\ Used(r, e) = IF e >= r THEN e - r ELSE e - r + IndexMod
      /\ Used(w, e) = IF e >= w THEN e - w ELSE e - w + IndexMod
      /\ e' = (IF e + 1 = IndexMod THEN 0 ELSE e + 1) /\ e' \in 0 .. IndexMod - 1
  BY <1>1, IndexFacts
<1>3. /\ Used(r, e') = IF e' >= r THEN e' - r ELSE e' - r + IndexMod
      /\ Used(w, e') = IF e' >= w THEN e' - w ELSE e' - w + IndexMod
      /\ Used(e', e') = IF e' >= e' THEN e' - e' ELSE e' - e' + IndexMod
  BY <1>1, <1>2, IndexFacts
<1>4. Used(r, e') = Used(r, e) + 1
  BY <1>1, <1>2, <1>3
<1>5. Used(w, e') = Used(w, e) + 1
  BY <1>1, <1>2, <1>3
<1>6. Used(e', e') = 0
  BY <1>1, <1>2, <1>3
<1>7. Used(r, w)' = Used(r, w') /\ Used(w, e)' = Used(w', e') /\ Used(r, e)' = Used(r, e')
  BY DEF Used
<1>8. w' \in 0 .. IndexMod - 1 /\ Used(r, w') + Used(w', e') = Used(r, e')
  <2>1. CASE w' = w
    BY <1>1, <1>2, <1>4, <1>5, <2>1
  <2>2. CASE w' = Inc(e)
    <3>1. w' = e'
      BY <2>2
    <3>2. Used(r, e') \in Int
      BY <1>1, <1>2, <1>4
    <3> QED BY <1>2, <1>6, <3>1, <3>2
  <2> QED BY <2>1, <2>2
<1>9. buf' \in [0 .. INPUT_BUF_SIZE - 1 -> {"x", "NL", "EOF"}]
  BY DEF RingInv
<1>10. Used(r, e') <= INPUT_BUF_SIZE
  BY <1>1, <1>2, <1>4
<1> QED BY <1>1, <1>2, <1>4, <1>7, <1>8, <1>9, <1>10 DEF RingInv

\* wakeup(&cons.r) leaves no reader asleep.
LEMMA WakeReadersFacts ==
  ASSUME ReaderInv
  PROVE  /\ WakeReaders \in [Reader -> [pc : {"idle", "loop", "asleep", "woken"}, n : Nat,
                                        target : Nat, killed : BOOLEAN]]
         /\ \A p \in Reader :
              /\ WakeReaders[p].pc # "asleep" /\ WakeReaders[p].n = rd[p].n
              /\ WakeReaders[p].target = rd[p].target
              /\ WakeReaders[p].pc = "loop" => rd[p].pc = "loop"
  BY DEF ReaderInv, WakeReaders

\* consoleintr() edits, adds, commits or drops a character.
LEMMA consoleintrInv ==
  ASSUME ConsoleInv, consoleintr
  PROVE  ConsoleInv'
<1>0. SendInv /\ ReaderInv /\ RingInv /\ ConsoleAwake
  BY DEF ConsoleInv
<1>1. /\ UNCHANGED <<r, thr, thre, tx, txlock, wr>>
      /\ ih = "rx" /\ ih' = "echo" /\ conslock = None /\ conslock' = "intr" /\ rhr' = None
  BY DEF consoleintr
<1>2. None # "intr" /\ None \notin Reader /\ INPUT_BUF_SIZE \in Nat
  BY ConsoleAssumption
<1>3. \A p \in Reader : rd[p].pc # "loop"
  BY <1>0, <1>1, <1>2 DEF ReaderInv
<1>4. SUFFICES /\ RingInv' /\ echo' \in Nat
               /\ rd' = rd \/ rd' = WakeReaders
               /\ rd' = WakeReaders \/ w' = w
               /\ Used(r, e)' = INPUT_BUF_SIZE => r # w'
  <2>1. ReaderInv'
    <3>1. /\ rd' \in [Reader -> [pc : {"idle", "loop", "asleep", "woken"}, n : Nat,
                                 target : Nat, killed : BOOLEAN]]
          /\ \A p \in Reader : rd'[p].pc # "loop" /\ rd'[p].n <= rd'[p].target
      BY <1>0, <1>3, <1>4, WakeReadersFacts DEF ReaderInv
    <3> QED BY <1>1, <3>1 DEF ReaderInv
  <2>2. SendInv'
    BY <1>0, <1>1, <1>4 DEF SendInv
  <2>3. \A p \in Reader : rd'[p].pc = "asleep" => r' = w'
    <3>1. CASE rd' = WakeReaders
      BY <1>0, <3>1, WakeReadersFacts
    <3>2. CASE rd' = rd /\ w' = w
      BY <1>0, <1>1, <3>2 DEF ConsoleAwake
    <3> QED BY <1>4, <3>1, <3>2
  <2>4. ConsoleAwake'
    BY <1>0, <1>1, <1>4, <2>3 DEF ConsoleAwake
  <2> QED BY <1>4, <2>1, <2>2, <2>4 DEF ConsoleInv
<1>5. CASE /\ e' = Erased(rhr) /\ echo' = Used(Erased(rhr), e)
           /\ UNCHANGED <<buf, r, w, rd>>
  <2>1. e' \in 0 .. IndexMod - 1 /\ Used(w, e') <= Used(w, e)
    BY <1>0, <1>5, ErasedFacts
  <2>2. RingInv' /\ Used(r, e)' <= Used(r, e)
    BY <1>0, <1>5, <2>1, EditRing
  <2>3. echo' \in Nat
    <3>1. e \in 0 .. IndexMod - 1
      BY <1>0, RingFacts
    <3>2. echo' = Used(e', e)
      BY <1>5
    <3> QED BY <2>1, <3>1, <3>2, IndexFacts
  <2>4. Used(r, e)' = INPUT_BUF_SIZE => r # w'
    <3>1. Used(r, e) \in Nat /\ Used(r, e) <= INPUT_BUF_SIZE
      BY <1>0, RingFacts
    <3>2. Used(r, e)' = INPUT_BUF_SIZE => Used(r, e) = INPUT_BUF_SIZE
      BY <1>2, <2>2, <3>1
    <3> QED BY <1>0, <1>5, <3>2 DEF ConsoleAwake
  <2> QED BY <1>5, <2>2, <2>3, <2>4
<1>6. CASE /\ rhr \in {"x", "NL", "EOF"} /\ Used(r, e) < INPUT_BUF_SIZE
           /\ buf' = [buf EXCEPT ![Cell(e)] = rhr] /\ e' = Inc(e) /\ echo' = 1
           /\ IF Commits(rhr, Inc(e)) THEN w' = Inc(e) /\ rd' = WakeReaders
                                      ELSE UNCHANGED <<w, rd>>
           /\ UNCHANGED r
  <2>1. /\ RingInv' /\ Used(r, e)' = Used(r, e) + 1 /\ Used(r, Inc(e)) = Used(r, e)'
    BY <1>0, <1>6, AddRing
  <2>2. Used(r, e)' = INPUT_BUF_SIZE => r # w'
    <3>1. SUFFICES ASSUME Used(r, e)' = INPUT_BUF_SIZE PROVE r # w'
      OBVIOUS
    <3>2. Commits(rhr, Inc(e))
      BY <2>1, <3>1 DEF Commits
    <3>3. w' = e'
      BY <1>6, <3>2
    <3>4. Used(r, w)' = Used(r, e)' /\ Used(r, e)' # 0
      <4>1. INPUT_BUF_SIZE # 0
        BY Sizes
      <4> QED BY <3>1, <3>3, <4>1 DEF Used
    <3>5. Used(r', w') # 0 /\ r' \in 0 .. IndexMod - 1 /\ IndexMod \in Nat
      BY <2>1, <3>4, Sizes DEF Used, RingInv
    <3>6. Used(r', r') = IF r' >= r' THEN r' - r' ELSE r' - r' + IndexMod
      BY <3>5, IndexFacts
    <3> QED BY <1>1, <3>5, <3>6
  <2> QED BY <1>6, <2>1, <2>2
<1>7. CASE echo' \in {0, 1} /\ UNCHANGED <<buf, r, w, e, rd>>
  <2>1. RingInv' /\ Used(r, e)' = Used(r, e)
    BY <1>0, <1>7, RingKept
  <2> QED BY <1>0, <1>7, <2>1 DEF ConsoleAwake
<1> QED BY <1>5, <1>6, <1>7 DEF consoleintr

\* The console when it is switched on.
LEMMA ConsoleInvInit == CInit => ConsoleInv
<1> SUFFICES ASSUME CInit PROVE ConsoleInv
  OBVIOUS
<1>1. /\ INPUT_BUF_SIZE \in Nat \ {0} /\ IndexMod \in Nat \ {0} /\ 0 \in 0 .. IndexMod - 1
      /\ None # "intr" /\ "intr" \notin Reader
  BY Sizes, ConsoleAssumption
<1>2. Used(0, 0) = 0
  <2>1. Used(0, 0) = IF 0 >= 0 THEN 0 - 0 ELSE 0 - 0 + IndexMod
    BY <1>1, IndexFacts
  <2> QED BY <2>1
<1>3. RingInv
  BY <1>1, <1>2 DEF CInit, RingInv
<1>4. ReaderInv
  BY <1>1 DEF CInit, ReaderInv, NotReading
<1>5. SendInv
  BY DEF CInit, SendInv
<1>6. ConsoleAwake
  BY <1>1, <1>2 DEF CInit, ConsoleAwake, NotReading
<1> QED BY <1>3, <1>4, <1>5, <1>6 DEF ConsoleInv

\* Every step keeps the console's invariant.
LEMMA ConsoleStep == ConsoleInv /\ [CNext]_consvars => ConsoleInv'
<1> SUFFICES ASSUME ConsoleInv, [CNext]_consvars PROVE ConsoleInv'
  OBVIOUS
<1>1. CASE UNCHANGED consvars
  <2>1. /\ UNCHANGED inputvars /\ UNCHANGED <<rhr, thr, thre, tx, txlock, wr, ih, echo>>
    BY <1>1 DEF consvars, inputvars
  <2>2. SendInv' /\ Sent' /\ rhr' \in Keys \cup {None}
    BY <2>1, SentNow DEF SendInv, Sent
  <2> QED BY <2>1, <2>2, OutputFrame
<1>2. ASSUME NEW p \in Reader, ReadStart(p) \/ ReaderStep(p) \/ KillReader(p)
      PROVE  ConsoleInv'
  BY <1>2, ReadStartInv, ReadByteInv, ReadSleepInv, ReadWakeInv, KillReaderInv DEF ReaderStep
<1>3. ASSUME NEW q \in Writer, WriteStart(q) \/ WriterStep(q)
      PROVE  ConsoleInv'
  BY <1>3, WriteStartInv, uartputcInv, WriterSendsInv DEF WriterStep
<1>4. CASE IntrStep
  BY <1>4, IntrInv, IntrSendsInv, EchoDoneInv, consoleintrInv DEF IntrStep
<1>5. CASE Transmit \/ \E c \in Keys : Key(c)
  BY <1>5, UartInv
<1> QED BY <1>1, <1>2, <1>3, <1>4, <1>5 DEF CNext

\* Nobody sleeps on with input to read or room to write, a full input buffer can be
\* read, and no buffered output is forgotten, for any number of readers and writers
\* and any buffer sizes.
THEOREM ConsoleStaysAwake == CSpec => []ConsoleAwake
<1>1. ConsoleInv => ConsoleAwake
  BY DEF ConsoleInv
<1> QED BY <1>1, ConsoleInvInit, ConsoleStep, PTL DEF CSpec

-----------------------------------------------------------------------------
(* The console: what was committed *)

\* A function on 1 .. n is a sequence.
LEMMA AsSequence ==
  ASSUME NEW n \in Nat \ {0}, NEW S, NEW s \in [1 .. n -> S]
  PROVE  /\ s # <<>> /\ Head(s) = s[1]
         /\ Tail(s) = [i \in 1 .. n - 1 |-> s[i + 1]]
<1>1. s \in Seq(S)
  BY SeqDef
<1>2. DOMAIN s = 1 .. Len(s) /\ Len(s) \in Nat /\ DOMAIN s = 1 .. n
  BY <1>1, LenProperties
<1>3. Len(s) = n
  <2>1. n \in 1 .. Len(s) /\ (Len(s) > 0 => Len(s) \in 1 .. n)
    BY <1>2
  <2> QED BY <1>2, <2>1
<1>4. s # <<>> /\ Head(s) = s[1]
  BY <1>1, <1>3
<1>5. /\ Tail(s) \in Seq(S) /\ Len(Tail(s)) = n - 1
      /\ \A i \in 1 .. Len(Tail(s)) : Tail(s)[i] = s[i + 1]
  BY <1>1, <1>3, <1>4, HeadTailProperties
<1>6. Tail(s) \in [1 .. n - 1 -> S]
  BY <1>5, LenProperties
<1> QED BY <1>4, <1>5, <1>6

\* The same input in the same cells.
LEMMA SameInput ==
  ASSUME UNCHANGED <<buf, r, w>>, RingInv
  PROVE  InputStep
<1>1. Committed' = Committed
  BY DEF Committed, Used, Cell
<1>2. Len(Committed) = Used(r, w) /\ Used(r, w) \in Nat
  BY RingFacts DEF Committed
<1> QED BY <1>1, <1>2 DEF InputStep

\* consoleread() takes the first character.
LEMMA TakeInput ==
  ASSUME RingInv, r # w, r' = Inc(r), UNCHANGED <<buf, w, e>>
  PROVE  /\ Committed # <<>> /\ Committed' = Tail(Committed)
         /\ Head(Committed) = buf[Cell(r)]
<1>1. /\ r \in 0 .. IndexMod - 1 /\ IndexMod \in Nat \ {0}
      /\ Used(r, w) \in 1 .. IndexMod - 1 /\ Used(r, w)' = Used(r, w) - 1
  <2>1. Used(r, w) \in 0 .. IndexMod - 1 /\ Used(r, w) # 0 /\ Used(r, w) \in Nat
    BY RingFacts, IndexFacts
  <2>2. IndexMod \in Nat \ {0} /\ r \in 0 .. IndexMod - 1
    BY RingFacts, Sizes
  <2> QED BY <2>1, <2>2, TakeRing
<1> DEFINE n == Used(r, w)
           C == Committed
<1>2. r' = (IF r + 1 = IndexMod THEN 0 ELSE r + 1) /\ r' \in 0 .. IndexMod - 1
  BY <1>1, IndexFacts
<1>3. /\ C = [i \in 1 .. n |-> buf[Cell((r + i - 1) % IndexMod)]]
      /\ C' = [i \in 1 .. n - 1 |-> buf[Cell((r' + i - 1) % IndexMod)]]
  BY <1>1 DEF Committed, Cell
<1>4. ASSUME NEW i \in 1 .. n - 1
      PROVE  (r' + i - 1) % IndexMod = (r + (i + 1) - 1) % IndexMod
  <2>1. i \in 0 .. IndexMod - 1 /\ i - 1 \in 0 .. IndexMod - 1
    BY <1>1
  <2>2. /\ (r + i) % IndexMod = IF r + i < IndexMod THEN r + i ELSE r + i - IndexMod
        /\ (r' + (i - 1)) % IndexMod = IF r' + (i - 1) < IndexMod THEN r' + (i - 1)
                                       ELSE r' + (i - 1) - IndexMod
    BY <1>1, <1>2, <2>1, Advance
  <2>3. r + (i + 1) - 1 = r + i /\ r' + i - 1 = r' + (i - 1)
    BY <1>1, <1>2
  <2>4. (r' + (i - 1)) % IndexMod = (r + i) % IndexMod
    BY <1>1, <1>2, <2>1, <2>2
  <2> QED BY <2>3, <2>4
<1>5. n \in Nat \ {0} /\ C \in [1 .. n -> {C[i] : i \in 1 .. n}]
  BY <1>1, <1>3
<1> HIDE DEF C
<1>6. /\ C # <<>> /\ Head(C) = buf[Cell((r + 1 - 1) % IndexMod)]
      /\ Tail(C) = [i \in 1 .. n - 1 |-> C[i + 1]]
  <2>1. C # <<>> /\ Head(C) = C[1] /\ Tail(C) = [i \in 1 .. n - 1 |-> C[i + 1]]
    BY <1>5, AsSequence
  <2>2. C[1] = buf[Cell((r + 1 - 1) % IndexMod)]
    BY <1>1, <1>3
  <2> QED BY <2>1, <2>2
<1>7. (r + 1 - 1) % IndexMod = r
  <2>1. r + 1 - 1 = r /\ r % IndexMod = r
    BY <1>1, ModNear
  <2> QED BY <2>1
<1>8. C' = Tail(C)
  <2>1. \A i \in 1 .. n - 1 : C[i + 1] = buf[Cell((r' + i - 1) % IndexMod)]
    <3>1. ASSUME NEW i \in 1 .. n - 1
          PROVE  C[i + 1] = buf[Cell((r' + i - 1) % IndexMod)]
      <4>1. i + 1 \in 1 .. n
        BY <1>1
      <4>2. C[i + 1] = buf[Cell((r + (i + 1) - 1) % IndexMod)]
        BY <1>3, <4>1
      <4> QED BY <1>4, <4>2
    <3> QED BY <3>1
  <2>2. [i \in 1 .. n - 1 |-> C[i + 1]]
          = [i \in 1 .. n - 1 |-> buf[Cell((r' + i - 1) % IndexMod)]]
    BY ONLY <2>1
  <2> QED BY <1>3, <1>6, <2>2
<1> QED BY <1>6, <1>7, <1>8 DEF C

\* The cell after the last character is none of those to be read: the counters wrap at a
\* multiple of the buffer's size.
LEMMA FreeCell ==
  ASSUME RingInv, Used(r, e) < INPUT_BUF_SIZE, NEW i \in 1 .. Used(r, w)
  PROVE  Cell((r + i - 1) % IndexMod) # Cell(e)
<1> DEFINE N == INPUT_BUF_SIZE
           M == IndexMod
           U == Used(r, e)
           x == r + i - 1
           y == r + U
           q == M \div N
<1>1. /\ N \in Nat \ {0} /\ M \in Nat \ {0} /\ M = N * q /\ q \in Int
      /\ r \in 0 .. M - 1 /\ e \in 0 .. M - 1 /\ N < M
      /\ U = (IF e >= r THEN e - r ELSE e - r + M)
      /\ U \in Nat /\ U < N /\ Used(r, w) <= U /\ Used(r, w) \in Nat
  <2>1. /\ N \in Nat \ {0} /\ M \in Nat \ {0} /\ M = N * q /\ q \in Int /\ N < M
    BY Sizes
  <2>2. /\ r \in 0 .. M - 1 /\ e \in 0 .. M - 1
    BY RingFacts
  <2>3. U = (IF e >= r THEN e - r ELSE e - r + M)
    BY <2>2, IndexFacts
  <2>4. U \in Nat /\ U < N /\ Used(r, w) <= U /\ Used(r, w) \in Nat
    BY RingFacts
  <2> QED BY <2>1, <2>2, <2>3, <2>4
<1> HIDE DEF N, M, U, q
<1>2. x \in Int /\ y \in Int /\ x < y /\ y < x + N
  BY <1>1
<1>3. x % N # y % N
  BY <1>1, <1>2, ModDistinct
<1>4. \A z \in Int : (z - M) % N = z % N
  <2>1. ASSUME NEW z \in Int PROVE (z - M) % N = z % N
    <3>1. -q \in Int /\ N * (-q) = -M
      BY <1>1
    <3>2. (z + N * (-q)) % N = z % N
      BY <1>1, <3>1, ModShift
    <3>3. z + N * (-q) = z - M
      BY <1>1, <3>1
    <3> QED BY <3>2, <3>3
  <2> QED BY <2>1
<1>5. x % M = x \/ x % M = x - M
  <2>1. i - 1 \in 0 .. M - 1 /\ r + (i - 1) = x
    BY <1>1
  <2>2. (r + (i - 1)) % M = IF r + (i - 1) < M THEN r + (i - 1) ELSE r + (i - 1) - M
    <3>1. r \in 0 .. IndexMod - 1 /\ i - 1 \in 0 .. IndexMod - 1
      BY <1>1, <2>1 DEF M
    <3> DEFINE j == i - 1
    <3> HIDE DEF j
    <3>2. (r + j) % IndexMod = IF r + j < IndexMod THEN r + j ELSE r + j - IndexMod
      BY <3>1, Advance DEF j
    <3> QED BY <3>2 DEF j, M
  <2> QED BY <1>1, <2>1, <2>2
<1>6. e = y \/ e = y - M
  BY <1>1
<1>7. (x % M) % N = x % N
  BY <1>2, <1>4, <1>5
<1>8. e % N = y % N
  BY <1>2, <1>4, <1>6
<1> QED BY <1>3, <1>7, <1>8 DEF Cell, N, M

\* A character is added behind what was committed; the line may be committed with it.
LEMMA AddInput ==
  ASSUME RingInv, Used(r, e) < INPUT_BUF_SIZE, NEW c,
         buf' = [buf EXCEPT ![Cell(e)] = c], e' = Inc(e), r' = r, w' = w \/ w' = Inc(e)
  PROVE  InputStep
<1>1. Used(r, w) \in Nat /\ Used(r, w)' \in Nat /\ Used(r, w) <= Used(r, w)'
  <2>1. /\ r \in 0 .. IndexMod - 1 /\ w \in 0 .. IndexMod - 1 /\ e \in 0 .. IndexMod - 1
        /\ IndexMod \in Nat \ {0} /\ INPUT_BUF_SIZE \in Nat /\ INPUT_BUF_SIZE < IndexMod
        /\ Used(r, w) \in Nat /\ Used(r, w) <= Used(r, e) /\ Used(r, e) \in Nat
    <3>1. /\ Used(r, w) + Used(w, e) = Used(r, e) /\ Used(w, e) \in Nat
          /\ Used(r, w) \in Nat /\ Used(r, e) \in Nat
      BY RingFacts
    <3>2. Used(r, w) <= Used(r, e)
      BY <3>1
    <3> QED BY <3>1, <3>2, RingFacts, Sizes
  <2>2. CASE w' = w
    BY <2>1, <2>2 DEF Used
  <2>3. CASE w' = Inc(e)
    <3>1. /\ Inc(e) = (IF e + 1 = IndexMod THEN 0 ELSE e + 1) /\ Inc(e) \in 0 .. IndexMod - 1
          /\ Used(r, e) = IF e >= r THEN e - r ELSE e - r + IndexMod
      BY <2>1, IndexFacts
    <3>2. Used(r, Inc(e)) = IF Inc(e) >= r THEN Inc(e) - r ELSE Inc(e) - r + IndexMod
      BY <2>1, <3>1, IndexFacts
    <3>3. Used(r, Inc(e)) = Used(r, e) + 1
      BY <2>1, <3>1, <3>2
    <3>4. Used(r, w)' = Used(r, Inc(e))
      BY <2>3 DEF Used
    <3> QED BY <2>1, <3>3, <3>4
  <2> QED BY <2>2, <2>3
<1>2. /\ Committed = [i \in 1 .. Used(r, w) |-> buf[Cell((r + i - 1) % IndexMod)]]
      /\ Committed' = [i \in 1 .. Used(r, w)' |-> buf'[Cell((r + i - 1) % IndexMod)]]
  BY DEF Committed, Cell
<1>3. Len(Committed) = Used(r, w) /\ Len(Committed') = Used(r, w)'
  BY <1>1, <1>2
<1>4. ASSUME NEW i \in 1 .. Used(r, w)
      PROVE  Committed'[i] = Committed[i]
  <2>1. Cell((r + i - 1) % IndexMod) # Cell(e)
    BY FreeCell
  <2>2. buf'[Cell((r + i - 1) % IndexMod)] = buf[Cell((r + i - 1) % IndexMod)]
    BY <2>1 DEF RingInv
  <2>3. i \in 1 .. Used(r, w)'
    BY <1>1
  <2> QED BY <1>2, <2>2, <2>3
<1> QED BY <1>1, <1>3, <1>4 DEF InputStep

\* Every step of the console adds to the committed input or takes its head.
LEMMA ConsoleInputStep == ConsoleInv /\ CNext => InputStep
<1> SUFFICES ASSUME ConsoleInv, CNext PROVE InputStep
  OBVIOUS
<1>0. RingInv /\ ReaderInv
  BY DEF ConsoleInv
<1>1. CASE UNCHANGED <<buf, r, w>>
  BY <1>0, <1>1, SameInput
<1>2. ASSUME NEW p \in Reader, ReadByte(p)
      PROVE  InputStep
  <2>1. /\ rd[p].pc = "loop" /\ r # w /\ UNCHANGED <<buf, w, e>>
        /\ r' = r \/ r' = Inc(r)
        /\ buf[Cell(r)] = "EOF" => r' = Pushback(p)
    BY <1>2 DEF ReadByte, Pushback
  <2>2. CASE r' = r
    BY <1>1, <2>1, <2>2
  <2>3. CASE r' = Inc(r) /\ r' # r
    <3>1. /\ Committed # <<>> /\ Committed' = Tail(Committed)
          /\ Head(Committed) = buf[Cell(r)]
      BY <1>0, <2>1, <2>3, TakeInput
    <3>2. conslock = p /\ rd[p].n <= rd[p].target /\ rd[p].n \in Nat /\ rd[p].target \in Nat
      BY <1>0, <2>1 DEF ReaderInv
    <3>3. buf[Cell(r)] = "EOF" => ~(rd[p].n < rd[p].target)
      BY <2>1, <2>3 DEF Pushback
    <3>4. ~(rd[p].n < rd[p].target) => rd[p].n = rd[p].target
      BY <3>2
    <3> QED BY <3>1, <3>2, <3>3, <3>4 DEF InputStep
  <2> QED BY <2>1, <2>2, <2>3
<1>3. CASE consoleintr
  <2>1. \/ UNCHANGED <<buf, r, w>>
        \/ /\ Used(r, e) < INPUT_BUF_SIZE
           /\ buf' = [buf EXCEPT ![Cell(e)] = rhr] /\ e' = Inc(e) /\ r' = r
           /\ w' = w \/ w' = Inc(e)
    BY <1>3 DEF consoleintr
  <2> QED BY <1>0, <1>1, <2>1, AddInput
<1>4. ASSUME NEW p \in Reader, ReadStart(p) \/ ReadSleep(p) \/ ReadWake(p) \/ KillReader(p)
      PROVE  UNCHANGED <<buf, r, w>>
  BY <1>4 DEF ReadStart, ReadSleep, ReadWake, KillReader
<1>5. ASSUME NEW q \in Writer, WriteStart(q) \/ WriterStep(q)
      PROVE  UNCHANGED <<buf, r, w>>
  BY <1>5 DEF WriteStart, WriterStep, uartputc, WriterSends, inputvars
<1>6. ASSUME IntrStep, ~consoleintr
      PROVE  UNCHANGED <<buf, r, w>>
  BY <1>6 DEF IntrStep, Claim, EchoWait, EchoWrite, EchoDone, IntrTx, IntrSends, inputvars
<1>7. ASSUME Transmit \/ \E c \in Keys : Key(c)
      PROVE  UNCHANGED <<buf, r, w>>
  BY <1>7 DEF Transmit, Key, inputvars
<1> QED BY <1>1, <1>2, <1>3, <1>4, <1>5, <1>6, <1>7 DEF CNext, ReaderStep

\* Typing never changes what was committed, input leaves only at the head, and every ^D
\* is seen by a read that returns 0 bytes, whatever the sizes.
THEOREM CommittedInputKept == CSpec => InputKept
<1>1. ConsoleInv /\ [CNext]_consvars => [InputStep]_consvars
  BY ConsoleInputStep
<1> QED BY <1>1, ConsoleInvInit, ConsoleStep, PTL DEF CSpec, InputKept

=============================================================================
