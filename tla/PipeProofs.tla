----------------------------- MODULE PipeProofs -----------------------------
(***************************************************************************)
(* Proofs about the pipe, for any number of writers and readers, any       *)
(* PIPESIZE and any counter modulus that PIPESIZE divides: the pipe is     *)
(* freed only when nobody uses it, no sleeper is forgotten, and the ring   *)
(* buffer with its wrapping counters implements a bounded queue.           *)
(***************************************************************************)
EXTENDS Pipe, SequenceTheorems, TLAPS

-----------------------------------------------------------------------------
(* Remainders *)

\* A product by a positive number is at least that number, or not positive.
LEMMA ProductBound ==
  ASSUME NEW P \in Nat \ {0}, NEW d \in Int
  PROVE  /\ P * d \in Int
         /\ d >= 1 => P * d >= P
         /\ d <= 0 => P * d <= 0
  OBVIOUS

\* Division with remainder.
LEMMA DivMod ==
  ASSUME NEW P \in Nat \ {0}, NEW x \in Int
  PROVE  /\ x \div P \in Int /\ (x % P) \in 0 .. P - 1
         /\ x = P * (x \div P) + (x % P)
  OBVIOUS

\* The remainder is unique.
LEMMA ModUnique ==
  ASSUME NEW P \in Nat \ {0}, NEW q \in Int, NEW r \in 0 .. P - 1
  PROVE  (P * q + r) % P = r
<1> DEFINE x == P * q + r
           m == x % P
           e == x \div P
           d == e - q
<1>1. x \in Int
  OBVIOUS
<1>2. e \in Int /\ m \in 0 .. P - 1 /\ x = P * e + m
  BY <1>1, DivMod
<1>3. d \in Int /\ P * d = r - m
  BY <1>2
<1>4. P * d > -P /\ P * d < P
  BY <1>2, <1>3
<1> HIDE DEF d, m
<1>5. d <= 0
  BY <1>3, <1>4, ProductBound
<1>6. -d \in Int /\ P * (-d) < P
  BY <1>3, <1>4
<1>7. -d <= 0
  BY <1>6, ProductBound
<1>8. P * d = 0
  BY <1>3, <1>5, <1>7
<1> QED BY <1>2, <1>3, <1>8 DEF m

\* Whole turns do not change the remainder.
LEMMA ModShift ==
  ASSUME NEW P \in Nat \ {0}, NEW x \in Int, NEW q \in Int
  PROVE  (x + P * q) % P = x % P
<1> DEFINE r == x % P
           e == x \div P
<1>1. e \in Int /\ r \in 0 .. P - 1 /\ x = P * e + r
  BY DivMod
<1> HIDE DEF r, e
<1>2. x + P * q = P * (e + q) + r /\ e + q \in Int
  BY <1>1
<1>3. (P * (e + q) + r) % P = r
  BY <1>1, <1>2, ModUnique
<1> QED BY <1>2, <1>3 DEF r

\* A number below the modulus is its own remainder; one turn further it is again.
LEMMA ModNear ==
  ASSUME NEW P \in Nat \ {0}, NEW r \in 0 .. P - 1
  PROVE  r % P = r /\ (r + P) % P = r /\ (r - P) % P = r
<1>1. (P * 0 + r) % P = r /\ P * 0 + r = r
  BY ModUnique
<1>2. (P * 1 + r) % P = r /\ P * 1 + r = r + P
  BY ModUnique
<1>3. (P * (-1) + r) % P = r /\ P * (-1) + r = r - P
  BY ModUnique
<1> QED BY <1>1, <1>2, <1>3

\* Numbers less than a turn apart have different remainders.
LEMMA ModDistinct ==
  ASSUME NEW P \in Nat \ {0}, NEW x \in Int, NEW y \in Int, x < y, y < x + P
  PROVE  x % P # y % P
<1> SUFFICES ASSUME x % P = y % P PROVE FALSE
  OBVIOUS
<1> DEFINE ex == x \div P
           ey == y \div P
           d == ey - ex
<1>1. /\ ex \in Int /\ (x % P) \in 0 .. P - 1 /\ x = P * ex + (x % P)
      /\ ey \in Int /\ (y % P) \in 0 .. P - 1 /\ y = P * ey + (y % P)
  BY DivMod
<1>2. d \in Int /\ P * d = y - x
  BY <1>1
<1> HIDE DEF d
<1> QED BY <1>2, ProductBound

-----------------------------------------------------------------------------
(* The counters nread and nwrite *)

\* A uint subtraction and increment, without the wrap and with it.
LEMMA Counter ==
  ASSUME NEW M \in Nat \ {0}, NEW r \in 0 .. M - 1, NEW w \in 0 .. M - 1
  PROVE  /\ (w - r) % M = IF w >= r THEN w - r ELSE w - r + M
         /\ (r + 1) % M = IF r + 1 = M THEN 0 ELSE r + 1
<1>1. (w - r) % M = IF w >= r THEN w - r ELSE w - r + M
  <2>1. CASE w >= r
    BY <2>1, ModNear
  <2>2. CASE w < r
    <3>1. w - r + M \in 0 .. M - 1 /\ (w - r + M) - M = w - r
      BY <2>2
    <3>2. ((w - r + M) - M) % M = w - r + M
      BY <3>1, ModNear
    <3> QED BY <2>2, <3>1, <3>2
  <2> QED BY <2>1, <2>2
<1>2. (r + 1) % M = IF r + 1 = M THEN 0 ELSE r + 1
  <2>1. CASE r + 1 = M
    <3>1. (0 + M) % M = 0 /\ 0 + M = M
      BY ModNear
    <3> QED BY <2>1, <3>1
  <2>2. CASE r + 1 # M
    BY <2>2, ModNear
  <2> QED BY <2>1, <2>2
<1> QED BY <1>1, <1>2

\* The moduli of the code: the counters wrap at a multiple of PIPESIZE.
LEMMA Moduli ==
  /\ PIPESIZE \in Nat \ {0} /\ UintMod \in Nat \ {0} /\ UintMod > PIPESIZE
  /\ \E k \in Int : UintMod = PIPESIZE * k
<1>1. PIPESIZE \in Nat \ {0} /\ UintMod \in Nat \ {0} /\ UintMod > PIPESIZE
  BY PipeAssumption
<1>2. UintMod \div PIPESIZE \in Int
      /\ UintMod = PIPESIZE * (UintMod \div PIPESIZE) + (UintMod % PIPESIZE)
  BY <1>1, DivMod
<1>3. UintMod % PIPESIZE = 0
  BY PipeAssumption
<1>4. UintMod = PIPESIZE * (UintMod \div PIPESIZE)
  BY <1>1, <1>2, <1>3
<1> QED BY <1>1, <1>2, <1>4

\* A wrap of a counter does not change the place in the ring it names.
LEMMA SamePlace ==
  ASSUME NEW x \in Int
  PROVE  /\ (x + UintMod) % PIPESIZE = x % PIPESIZE
         /\ (x - UintMod) % PIPESIZE = x % PIPESIZE
<1>1. PICK k \in Int : UintMod = PIPESIZE * k
  BY Moduli
<1>2. PIPESIZE \in Nat \ {0}
  BY Moduli
<1>3. (x + PIPESIZE * k) % PIPESIZE = x % PIPESIZE
  BY <1>2, ModShift
<1>k. -k \in Int
  OBVIOUS
<1>4. (x + PIPESIZE * (-k)) % PIPESIZE = x % PIPESIZE
  BY <1>2, <1>k, ModShift
<1>5. x + PIPESIZE * (-k) = x - UintMod
  BY <1>1, <1>2
<1> QED BY <1>1, <1>3, <1>4, <1>5

\* What the counters say about the number of bytes in transit.
LEMMA TransitFacts ==
  ASSUME PipeTypeOK, InTransit <= PIPESIZE
  PROVE  /\ InTransit \in 0 .. PIPESIZE
         /\ InTransit = IF nwrite >= nread THEN nwrite - nread ELSE nwrite - nread + UintMod
         /\ Empty <=> InTransit = 0
         /\ PipeFull <=> InTransit = PIPESIZE
         /\ (nread + InTransit) % PIPESIZE = nwrite % PIPESIZE
<1>m. PIPESIZE \in Nat \ {0} /\ UintMod \in Nat \ {0} /\ UintMod > PIPESIZE
  BY Moduli
<1>t. nread \in 0 .. UintMod - 1 /\ nwrite \in 0 .. UintMod - 1
  BY DEF PipeTypeOK
<1>1. InTransit = IF nwrite >= nread THEN nwrite - nread ELSE nwrite - nread + UintMod
  BY <1>m, <1>t, Counter DEF InTransit
<1>2. InTransit \in 0 .. PIPESIZE
  BY <1>m, <1>t, <1>1
<1>3. Empty <=> InTransit = 0
  BY <1>m, <1>t, <1>1 DEF Empty
<1>4. (nread + PIPESIZE) % UintMod =
        IF nread + PIPESIZE < UintMod THEN nread + PIPESIZE ELSE nread + PIPESIZE - UintMod
  <2>1. CASE nread + PIPESIZE < UintMod
    BY <2>1, <1>m, <1>t, ModNear
  <2>2. CASE nread + PIPESIZE >= UintMod
    <3>1. /\ nread + PIPESIZE - UintMod \in 0 .. UintMod - 1
          /\ (nread + PIPESIZE - UintMod) + UintMod = nread + PIPESIZE
      BY <2>2, <1>m, <1>t
    <3> QED BY <2>2, <3>1, <1>m, ModNear
  <2> QED BY <2>1, <2>2, <1>m, <1>t
<1>5. PipeFull <=> InTransit = PIPESIZE
  BY <1>m, <1>t, <1>1, <1>4 DEF PipeFull
<1>6. (nread + InTransit) % PIPESIZE = nwrite % PIPESIZE
  <2>1. nread + InTransit = nwrite \/ nread + InTransit = nwrite + UintMod
    BY <1>m, <1>t, <1>1
  <2> QED BY <2>1, <1>t, SamePlace
<1> QED BY <1>1, <1>2, <1>3, <1>5, <1>6

\* A byte more in the ring.
LEMMA TransitPut ==
  ASSUME PipeTypeOK, InTransit <= PIPESIZE, ~PipeFull,
         nwrite' = (nwrite + 1) % UintMod, nread' = nread
  PROVE  InTransit' = InTransit + 1 /\ nwrite' \in 0 .. UintMod - 1
<1>m. PIPESIZE \in Nat \ {0} /\ UintMod \in Nat \ {0} /\ UintMod > PIPESIZE
  BY Moduli
<1>t. nread \in 0 .. UintMod - 1 /\ nwrite \in 0 .. UintMod - 1
  BY DEF PipeTypeOK
<1>1. nwrite' = IF nwrite + 1 = UintMod THEN 0 ELSE nwrite + 1
  BY <1>m, <1>t, Counter
<1>2. nwrite' \in 0 .. UintMod - 1
  BY <1>m, <1>t, <1>1
<1>3. InTransit' = IF nwrite' >= nread THEN nwrite' - nread ELSE nwrite' - nread + UintMod
  BY <1>m, <1>t, <1>2, Counter DEF InTransit
<1> QED BY <1>m, <1>t, <1>1, <1>2, <1>3, TransitFacts

\* A byte less in the ring, and the place of the next one.
LEMMA TransitTake ==
  ASSUME PipeTypeOK, InTransit <= PIPESIZE, ~Empty,
         nread' = (nread + 1) % UintMod, nwrite' = nwrite
  PROVE  /\ InTransit' = InTransit - 1 /\ nread' \in 0 .. UintMod - 1
         /\ \A k \in Int : (nread' + k - 1) % PIPESIZE = (nread + (k + 1) - 1) % PIPESIZE
<1>m. PIPESIZE \in Nat \ {0} /\ UintMod \in Nat \ {0} /\ UintMod > PIPESIZE
  BY Moduli
<1>t. nread \in 0 .. UintMod - 1 /\ nwrite \in 0 .. UintMod - 1
  BY DEF PipeTypeOK
<1>1. nread' = IF nread + 1 = UintMod THEN 0 ELSE nread + 1
  BY <1>m, <1>t, Counter
<1>2. nread' \in 0 .. UintMod - 1
  BY <1>m, <1>t, <1>1
<1>3. InTransit' = IF nwrite >= nread' THEN nwrite - nread' ELSE nwrite - nread' + UintMod
  BY <1>m, <1>t, <1>2, Counter DEF InTransit
<1>4. InTransit' = InTransit - 1
  BY <1>m, <1>t, <1>1, <1>2, <1>3, TransitFacts
<1>5. ASSUME NEW k \in Int
      PROVE  (nread' + k - 1) % PIPESIZE = (nread + (k + 1) - 1) % PIPESIZE
  <2>1. nread' + k - 1 = nread + k \/ nread' + k - 1 = (nread + k) - UintMod
    BY <1>m, <1>t, <1>1
  <2>2. nread + (k + 1) - 1 = nread + k /\ nread + k \in Int
    BY <1>t
  <2> QED BY <2>1, <2>2, SamePlace
<1> QED BY <1>2, <1>4, <1>5

-----------------------------------------------------------------------------
(* The inductive invariant *)

\* What wakeup() does to the processes of the pipe.
LEMMA WakeFacts ==
  ASSUME PipeTypeOK
  PROVE  /\ WakeReaders(pc) \in [PipeProc -> {"user", "closing"} \cup WriterLabels \cup ReaderLabels]
         /\ WakeWriters(pc) \in [PipeProc -> {"user", "closing"} \cup WriterLabels \cup ReaderLabels]
         /\ \A q \in PipeProc :
              /\ WakeReaders(pc)[q] = IF pc[q] = "rsleep" THEN "rwake" ELSE pc[q]
              /\ WakeWriters(pc)[q] = IF pc[q] = "wsleep" THEN "wwake" ELSE pc[q]
  BY DEF PipeTypeOK, WakeReaders, WakeWriters, WriterLabels, ReaderLabels

\* pipewrite() returns: it has woken the readers, so only writers still sleep.
LEMMA WriteDoneInv ==
  ASSUME PipeInv, NEW p \in PipeProc, WriteDone(p)
  PROVE  PipeInv'
<1>0. PipeTypeOK /\ CallInv /\ EndInv /\ SleepInv /\ InTransit <= PIPESIZE
  BY DEF PipeInv
<1>u. UNCHANGED <<data, nread, nwrite, readopen, writeopen, freed, open, killed>>
  BY DEF WriteDone, Quiet, pipe, ends
<1>t. PipeTypeOK'
  BY <1>0, <1>u, WakeFacts
  DEF WriteDone, PipeTypeOK, PipeReturn, Goto, WriterLabels, ReaderLabels
<1>p. /\ pc[p] = "write" /\ pc'[p] = "user"
      /\ \A q \in PipeProc \ {p} : pc'[q] = IF pc[q] = "rsleep" THEN "rwake" ELSE pc[q]
  BY <1>0, WakeFacts DEF WriteDone, PipeTypeOK, PipeReturn, Goto
<1>h. /\ \A q \in PipeProc \ {p} : pc[q] \notin InPipeCall
      /\ p \in Writer /\ p \notin Reader
  BY <1>0, <1>p, PipeAssumption DEF CallInv, InPipeCall, WriterLabels, ReaderLabels
<1>f. Empty' = Empty /\ PipeFull' = PipeFull /\ ~(Empty /\ PipeFull)
  BY <1>0, <1>u, TransitFacts, Moduli DEF Empty, PipeFull
<1>c. CallInv'
  BY <1>0, <1>u, WakeFacts, PipeAssumption
  DEF WriteDone, PipeTypeOK, CallInv, PipeReturn, Goto, WriterLabels, ReaderLabels,
      InPipeCall
<1>e. EndInv'
  BY <1>0, <1>u, WakeFacts
  DEF WriteDone, PipeTypeOK, EndInv, PipeReturn, Goto, WriterLabels, ReaderLabels
<1>s. SleepInv'
  BY <1>0, <1>u, <1>p, <1>h, <1>f
  DEF WriteDone, EndInv, CallInv, SleepInv, WriterLabels, ReaderLabels, InPipeCall,
      PipeProc
<1>i. (InTransit <= PIPESIZE)'
  BY <1>0, <1>u DEF InTransit
<1> QED BY <1>t, <1>c, <1>e, <1>s, <1>i DEF PipeInv

\* pipewrite() gives up: either nobody reads, so no reader sleeps, or a writer is killed.
LEMMA WriteAbortInv ==
  ASSUME PipeInv, NEW p \in PipeProc, WriteAbort(p)
  PROVE  PipeInv'
<1>0. PipeTypeOK /\ CallInv /\ EndInv /\ SleepInv /\ InTransit <= PIPESIZE
  BY DEF PipeInv
<1>u. UNCHANGED <<data, nread, nwrite, readopen, writeopen, freed, open, killed>>
  BY DEF WriteAbort, Quiet, pipe, ends
<1>t. PipeTypeOK'
  BY <1>0, <1>u, WakeFacts
  DEF WriteAbort, PipeTypeOK, PipeReturn, Goto, WriterLabels, ReaderLabels
<1>p. /\ pc[p] = "write" /\ pc'[p] = "user"
      /\ \A q \in PipeProc \ {p} : pc'[q] = pc[q]
  BY <1>0, WakeFacts DEF WriteAbort, PipeTypeOK, PipeReturn, Goto
<1>h. /\ \A q \in PipeProc \ {p} : pc[q] \notin InPipeCall
      /\ p \in Writer /\ p \notin Reader
  BY <1>0, <1>p, PipeAssumption DEF CallInv, InPipeCall, WriterLabels, ReaderLabels
<1>f. Empty' = Empty /\ PipeFull' = PipeFull /\ ~(Empty /\ PipeFull)
  BY <1>0, <1>u, TransitFacts, Moduli DEF Empty, PipeFull
<1>c. CallInv'
  BY <1>0, <1>u, WakeFacts, PipeAssumption
  DEF WriteAbort, PipeTypeOK, CallInv, PipeReturn, Goto, WriterLabels, ReaderLabels,
      InPipeCall
<1>e. EndInv'
  BY <1>0, <1>u, WakeFacts
  DEF WriteAbort, PipeTypeOK, EndInv, PipeReturn, Goto, WriterLabels, ReaderLabels
<1>s. SleepInv'
  BY <1>0, <1>u, <1>p, <1>h, <1>f
  DEF WriteAbort, EndInv, CallInv, SleepInv, WriterLabels, ReaderLabels, InPipeCall,
      PipeProc
<1>i. (InTransit <= PIPESIZE)'
  BY <1>0, <1>u DEF InTransit
<1> QED BY <1>t, <1>c, <1>e, <1>s, <1>i DEF PipeInv

\* pipewrite() has seen readopen, which cannot change while it holds the lock.
LEMMA WriteGoOnInv ==
  ASSUME PipeInv, NEW p \in PipeProc, WriteGoOn(p)
  PROVE  PipeInv'
<1>0. PipeTypeOK /\ CallInv /\ EndInv /\ SleepInv /\ InTransit <= PIPESIZE
  BY DEF PipeInv
<1>u. UNCHANGED <<data, nread, nwrite, readopen, writeopen, freed, open, killed>>
  BY DEF WriteGoOn, Quiet, pipe, ends
<1>t. PipeTypeOK'
  BY <1>0, <1>u, WakeFacts
  DEF WriteGoOn, PipeTypeOK, PipeReturn, Goto, WriterLabels, ReaderLabels
<1>p. /\ pc[p] = "write" /\ pc'[p] = "put"
      /\ \A q \in PipeProc \ {p} : pc'[q] = pc[q]
  BY <1>0, WakeFacts DEF WriteGoOn, PipeTypeOK, PipeReturn, Goto
<1>h. /\ \A q \in PipeProc \ {p} : pc[q] \notin InPipeCall
      /\ p \in Writer /\ p \notin Reader
  BY <1>0, <1>p, PipeAssumption DEF CallInv, InPipeCall, WriterLabels, ReaderLabels
<1>f. Empty' = Empty /\ PipeFull' = PipeFull /\ ~(Empty /\ PipeFull)
  BY <1>0, <1>u, TransitFacts, Moduli DEF Empty, PipeFull
<1>c. CallInv'
  BY <1>0, <1>u, WakeFacts, PipeAssumption
  DEF WriteGoOn, PipeTypeOK, CallInv, PipeReturn, Goto, WriterLabels, ReaderLabels,
      InPipeCall
<1>e. EndInv'
  BY <1>0, <1>u, WakeFacts
  DEF WriteGoOn, PipeTypeOK, EndInv, PipeReturn, Goto, WriterLabels, ReaderLabels
<1>s. SleepInv'
  BY <1>0, <1>u, <1>p, <1>h, <1>f
  DEF WriteGoOn, EndInv, CallInv, SleepInv, WriterLabels, ReaderLabels, InPipeCall,
      PipeProc
<1>i. (InTransit <= PIPESIZE)'
  BY <1>0, <1>u DEF InTransit
<1> QED BY <1>t, <1>c, <1>e, <1>s, <1>i DEF PipeInv

\* pipewrite() goes to sleep on a full pipe, with the readers woken.
LEMMA WriteSleepInv ==
  ASSUME PipeInv, NEW p \in PipeProc, WriteSleep(p)
  PROVE  PipeInv'
<1>0. PipeTypeOK /\ CallInv /\ EndInv /\ SleepInv /\ InTransit <= PIPESIZE
  BY DEF PipeInv
<1>u. UNCHANGED <<data, nread, nwrite, readopen, writeopen, freed, open, killed>>
  BY DEF WriteSleep, Quiet, pipe, ends
<1>t. PipeTypeOK'
  BY <1>0, <1>u, WakeFacts
  DEF WriteSleep, PipeTypeOK, PipeReturn, Goto, WriterLabels, ReaderLabels
<1>p. /\ pc[p] = "put" /\ pc'[p] = "wsleep"
      /\ \A q \in PipeProc \ {p} : pc'[q] = IF pc[q] = "rsleep" THEN "rwake" ELSE pc[q]
  BY <1>0, WakeFacts DEF WriteSleep, PipeTypeOK, PipeReturn, Goto
<1>h. /\ \A q \in PipeProc \ {p} : pc[q] \notin InPipeCall
      /\ p \in Writer /\ p \notin Reader
  BY <1>0, <1>p, PipeAssumption DEF CallInv, InPipeCall, WriterLabels, ReaderLabels
<1>f. Empty' = Empty /\ PipeFull' = PipeFull /\ ~(Empty /\ PipeFull)
  BY <1>0, <1>u, TransitFacts, Moduli DEF Empty, PipeFull
<1>c. CallInv'
  BY <1>0, <1>u, WakeFacts, PipeAssumption
  DEF WriteSleep, PipeTypeOK, CallInv, PipeReturn, Goto, WriterLabels, ReaderLabels,
      InPipeCall
<1>e. EndInv'
  BY <1>0, <1>u, WakeFacts
  DEF WriteSleep, PipeTypeOK, EndInv, PipeReturn, Goto, WriterLabels, ReaderLabels
<1>s. SleepInv'
  BY <1>0, <1>u, <1>p, <1>h, <1>f
  DEF WriteSleep, EndInv, CallInv, SleepInv, WriterLabels, ReaderLabels, InPipeCall,
      PipeProc
<1>i. (InTransit <= PIPESIZE)'
  BY <1>0, <1>u DEF InTransit
<1> QED BY <1>t, <1>c, <1>e, <1>s, <1>i DEF PipeInv

\* pipewrite() returns after a failed copyin(), and wakes the readers too.
LEMMA WriteFaultInv ==
  ASSUME PipeInv, NEW p \in PipeProc, WriteFault(p)
  PROVE  PipeInv'
<1>0. PipeTypeOK /\ CallInv /\ EndInv /\ SleepInv /\ InTransit <= PIPESIZE
  BY DEF PipeInv
<1>u. UNCHANGED <<data, nread, nwrite, readopen, writeopen, freed, open, killed>>
  BY DEF WriteFault, Quiet, pipe, ends
<1>t. PipeTypeOK'
  BY <1>0, <1>u, WakeFacts
  DEF WriteFault, PipeTypeOK, PipeReturn, Goto, WriterLabels, ReaderLabels
<1>p. /\ pc[p] = "put" /\ pc'[p] = "user"
      /\ \A q \in PipeProc \ {p} : pc'[q] = IF pc[q] = "rsleep" THEN "rwake" ELSE pc[q]
  BY <1>0, WakeFacts DEF WriteFault, PipeTypeOK, PipeReturn, Goto
<1>h. /\ \A q \in PipeProc \ {p} : pc[q] \notin InPipeCall
      /\ p \in Writer /\ p \notin Reader
  BY <1>0, <1>p, PipeAssumption DEF CallInv, InPipeCall, WriterLabels, ReaderLabels
<1>f. Empty' = Empty /\ PipeFull' = PipeFull /\ ~(Empty /\ PipeFull)
  BY <1>0, <1>u, TransitFacts, Moduli DEF Empty, PipeFull
<1>c. CallInv'
  BY <1>0, <1>u, WakeFacts, PipeAssumption
  DEF WriteFault, PipeTypeOK, CallInv, PipeReturn, Goto, WriterLabels, ReaderLabels,
      InPipeCall
<1>e. EndInv'
  BY <1>0, <1>u, WakeFacts
  DEF WriteFault, PipeTypeOK, EndInv, PipeReturn, Goto, WriterLabels, ReaderLabels
<1>s. SleepInv'
  BY <1>0, <1>u, <1>p, <1>h, <1>f
  DEF WriteFault, EndInv, CallInv, SleepInv, WriterLabels, ReaderLabels, InPipeCall,
      PipeProc
<1>i. (InTransit <= PIPESIZE)'
  BY <1>0, <1>u DEF InTransit
<1> QED BY <1>t, <1>c, <1>e, <1>s, <1>i DEF PipeInv

\* piperead() gives up on an empty pipe, where no writer sleeps.
LEMMA ReadAbortInv ==
  ASSUME PipeInv, NEW p \in PipeProc, ReadAbort(p)
  PROVE  PipeInv'
<1>0. PipeTypeOK /\ CallInv /\ EndInv /\ SleepInv /\ InTransit <= PIPESIZE
  BY DEF PipeInv
<1>u. UNCHANGED <<data, nread, nwrite, readopen, writeopen, freed, open, killed>>
  BY DEF ReadAbort, Quiet, pipe, ends
<1>t. PipeTypeOK'
  BY <1>0, <1>u, WakeFacts
  DEF ReadAbort, PipeTypeOK, PipeReturn, Goto, WriterLabels, ReaderLabels
<1>p. /\ pc[p] = "read" /\ pc'[p] = "user"
      /\ \A q \in PipeProc \ {p} : pc'[q] = pc[q]
  BY <1>0, WakeFacts DEF ReadAbort, PipeTypeOK, PipeReturn, Goto
<1>h. /\ \A q \in PipeProc \ {p} : pc[q] \notin InPipeCall
      /\ p \in Reader /\ p \notin Writer
  BY <1>0, <1>p, PipeAssumption DEF CallInv, InPipeCall, WriterLabels, ReaderLabels
<1>f. Empty' = Empty /\ PipeFull' = PipeFull /\ ~(Empty /\ PipeFull)
  BY <1>0, <1>u, TransitFacts, Moduli DEF Empty, PipeFull
<1>c. CallInv'
  BY <1>0, <1>u, WakeFacts, PipeAssumption
  DEF ReadAbort, PipeTypeOK, CallInv, PipeReturn, Goto, WriterLabels, ReaderLabels,
      InPipeCall
<1>e. EndInv'
  BY <1>0, <1>u, WakeFacts
  DEF ReadAbort, PipeTypeOK, EndInv, PipeReturn, Goto, WriterLabels, ReaderLabels
<1>s. SleepInv'
  BY <1>0, <1>u, <1>p, <1>h, <1>f
  DEF ReadAbort, EndInv, CallInv, SleepInv, WriterLabels, ReaderLabels, InPipeCall,
      PipeProc
<1>i. (InTransit <= PIPESIZE)'
  BY <1>0, <1>u DEF InTransit
<1> QED BY <1>t, <1>c, <1>e, <1>s, <1>i DEF PipeInv

\* piperead() has seen an empty pipe with writers.
LEMMA ReadWaitInv ==
  ASSUME PipeInv, NEW p \in PipeProc, ReadWait(p)
  PROVE  PipeInv'
<1>0. PipeTypeOK /\ CallInv /\ EndInv /\ SleepInv /\ InTransit <= PIPESIZE
  BY DEF PipeInv
<1>u. UNCHANGED <<data, nread, nwrite, readopen, writeopen, freed, open, killed>>
  BY DEF ReadWait, Quiet, pipe, ends
<1>t. PipeTypeOK'
  BY <1>0, <1>u, WakeFacts
  DEF ReadWait, PipeTypeOK, PipeReturn, Goto, WriterLabels, ReaderLabels
<1>p. /\ pc[p] = "read" /\ pc'[p] = "wait"
      /\ \A q \in PipeProc \ {p} : pc'[q] = pc[q]
  BY <1>0, WakeFacts DEF ReadWait, PipeTypeOK, PipeReturn, Goto
<1>h. /\ \A q \in PipeProc \ {p} : pc[q] \notin InPipeCall
      /\ p \in Reader /\ p \notin Writer
  BY <1>0, <1>p, PipeAssumption DEF CallInv, InPipeCall, WriterLabels, ReaderLabels
<1>f. Empty' = Empty /\ PipeFull' = PipeFull /\ ~(Empty /\ PipeFull)
  BY <1>0, <1>u, TransitFacts, Moduli DEF Empty, PipeFull
<1>c. CallInv'
  BY <1>0, <1>u, WakeFacts, PipeAssumption
  DEF ReadWait, PipeTypeOK, CallInv, PipeReturn, Goto, WriterLabels, ReaderLabels,
      InPipeCall
<1>e. EndInv'
  BY <1>0, <1>u, WakeFacts
  DEF ReadWait, PipeTypeOK, EndInv, PipeReturn, Goto, WriterLabels, ReaderLabels
<1>s. SleepInv'
  BY <1>0, <1>u, <1>p, <1>h, <1>f
  DEF ReadWait, EndInv, CallInv, SleepInv, WriterLabels, ReaderLabels, InPipeCall,
      PipeProc
<1>i. (InTransit <= PIPESIZE)'
  BY <1>0, <1>u DEF InTransit
<1> QED BY <1>t, <1>c, <1>e, <1>s, <1>i DEF PipeInv

\* piperead() goes to sleep: what it saw still holds.
LEMMA ReadSleepInv ==
  ASSUME PipeInv, NEW p \in PipeProc, ReadSleep(p)
  PROVE  PipeInv'
<1>0. PipeTypeOK /\ CallInv /\ EndInv /\ SleepInv /\ InTransit <= PIPESIZE
  BY DEF PipeInv
<1>u. UNCHANGED <<data, nread, nwrite, readopen, writeopen, freed, open, killed>>
  BY DEF ReadSleep, Quiet, pipe, ends
<1>t. PipeTypeOK'
  BY <1>0, <1>u, WakeFacts
  DEF ReadSleep, PipeTypeOK, PipeReturn, Goto, WriterLabels, ReaderLabels
<1>p. /\ pc[p] = "wait" /\ pc'[p] = "rsleep"
      /\ \A q \in PipeProc \ {p} : pc'[q] = pc[q]
  BY <1>0, WakeFacts DEF ReadSleep, PipeTypeOK, PipeReturn, Goto
<1>h. /\ \A q \in PipeProc \ {p} : pc[q] \notin InPipeCall
      /\ p \in Reader /\ p \notin Writer
  BY <1>0, <1>p, PipeAssumption DEF CallInv, InPipeCall, WriterLabels, ReaderLabels
<1>f. Empty' = Empty /\ PipeFull' = PipeFull /\ ~(Empty /\ PipeFull)
  BY <1>0, <1>u, TransitFacts, Moduli DEF Empty, PipeFull
<1>c. CallInv'
  BY <1>0, <1>u, WakeFacts, PipeAssumption
  DEF ReadSleep, PipeTypeOK, CallInv, PipeReturn, Goto, WriterLabels, ReaderLabels,
      InPipeCall
<1>e. EndInv'
  BY <1>0, <1>u, WakeFacts
  DEF ReadSleep, PipeTypeOK, EndInv, PipeReturn, Goto, WriterLabels, ReaderLabels
<1>s. SleepInv'
  BY <1>0, <1>u, <1>p, <1>h, <1>f
  DEF ReadSleep, EndInv, CallInv, SleepInv, WriterLabels, ReaderLabels, InPipeCall,
      PipeProc
<1>i. (InTransit <= PIPESIZE)'
  BY <1>0, <1>u DEF InTransit
<1> QED BY <1>t, <1>c, <1>e, <1>s, <1>i DEF PipeInv

\* piperead() leaves its wait loop.
LEMMA ReadStartInv ==
  ASSUME PipeInv, NEW p \in PipeProc, ReadStart(p)
  PROVE  PipeInv'
<1>0. PipeTypeOK /\ CallInv /\ EndInv /\ SleepInv /\ InTransit <= PIPESIZE
  BY DEF PipeInv
<1>u. UNCHANGED <<data, nread, nwrite, readopen, writeopen, freed, open, killed>>
  BY DEF ReadStart, Quiet, pipe, ends
<1>t. PipeTypeOK'
  BY <1>0, <1>u, WakeFacts
  DEF ReadStart, PipeTypeOK, PipeReturn, Goto, WriterLabels, ReaderLabels
<1>p. /\ pc[p] = "read" /\ pc'[p] = "copy"
      /\ \A q \in PipeProc \ {p} : pc'[q] = pc[q]
  BY <1>0, WakeFacts DEF ReadStart, PipeTypeOK, PipeReturn, Goto
<1>h. /\ \A q \in PipeProc \ {p} : pc[q] \notin InPipeCall
      /\ p \in Reader /\ p \notin Writer
  BY <1>0, <1>p, PipeAssumption DEF CallInv, InPipeCall, WriterLabels, ReaderLabels
<1>f. Empty' = Empty /\ PipeFull' = PipeFull /\ ~(Empty /\ PipeFull)
  BY <1>0, <1>u, TransitFacts, Moduli DEF Empty, PipeFull
<1>c. CallInv'
  BY <1>0, <1>u, WakeFacts, PipeAssumption
  DEF ReadStart, PipeTypeOK, CallInv, PipeReturn, Goto, WriterLabels, ReaderLabels,
      InPipeCall
<1>e. EndInv'
  BY <1>0, <1>u, WakeFacts
  DEF ReadStart, PipeTypeOK, EndInv, PipeReturn, Goto, WriterLabels, ReaderLabels
<1>s. SleepInv'
  BY <1>0, <1>u, <1>p, <1>h, <1>f
  DEF ReadStart, EndInv, CallInv, SleepInv, WriterLabels, ReaderLabels, InPipeCall,
      PipeProc
<1>i. (InTransit <= PIPESIZE)'
  BY <1>0, <1>u DEF InTransit
<1> QED BY <1>t, <1>c, <1>e, <1>s, <1>i DEF PipeInv

\* piperead() returns, with the writers woken.
LEMMA ReadDoneInv ==
  ASSUME PipeInv, NEW p \in PipeProc, ReadDone(p)
  PROVE  PipeInv'
<1>0. PipeTypeOK /\ CallInv /\ EndInv /\ SleepInv /\ InTransit <= PIPESIZE
  BY DEF PipeInv
<1>u. UNCHANGED <<data, nread, nwrite, readopen, writeopen, freed, open, killed>>
  BY DEF ReadDone, Quiet, pipe, ends
<1>t. PipeTypeOK'
  BY <1>0, <1>u, WakeFacts
  DEF ReadDone, PipeTypeOK, PipeReturn, Goto, WriterLabels, ReaderLabels
<1>p. /\ pc[p] = "copy" /\ pc'[p] = "user"
      /\ \A q \in PipeProc \ {p} : pc'[q] = IF pc[q] = "wsleep" THEN "wwake" ELSE pc[q]
  BY <1>0, WakeFacts DEF ReadDone, PipeTypeOK, PipeReturn, Goto
<1>h. /\ \A q \in PipeProc \ {p} : pc[q] \notin InPipeCall
      /\ p \in Reader /\ p \notin Writer
  BY <1>0, <1>p, PipeAssumption DEF CallInv, InPipeCall, WriterLabels, ReaderLabels
<1>f. Empty' = Empty /\ PipeFull' = PipeFull /\ ~(Empty /\ PipeFull)
  BY <1>0, <1>u, TransitFacts, Moduli DEF Empty, PipeFull
<1>c. CallInv'
  BY <1>0, <1>u, WakeFacts, PipeAssumption
  DEF ReadDone, PipeTypeOK, CallInv, PipeReturn, Goto, WriterLabels, ReaderLabels,
      InPipeCall
<1>e. EndInv'
  BY <1>0, <1>u, WakeFacts
  DEF ReadDone, PipeTypeOK, EndInv, PipeReturn, Goto, WriterLabels, ReaderLabels
<1>s. SleepInv'
  BY <1>0, <1>u, <1>p, <1>h, <1>f
  DEF ReadDone, EndInv, CallInv, SleepInv, WriterLabels, ReaderLabels, InPipeCall,
      PipeProc
<1>i. (InTransit <= PIPESIZE)'
  BY <1>0, <1>u DEF InTransit
<1> QED BY <1>t, <1>c, <1>e, <1>s, <1>i DEF PipeInv

\* A call takes the lock, with nobody else inside.
LEMMA PipeCallInv ==
  ASSUME PipeInv, NEW p \in PipeProc, NEW size \in Sizes, PipeCall(p, size)
  PROVE  PipeInv'
<1>0. PipeTypeOK /\ CallInv /\ EndInv /\ SleepInv /\ InTransit <= PIPESIZE
  BY DEF PipeInv
<1>u. /\ UNCHANGED <<data, nread, nwrite, readopen, writeopen, freed, open, killed>>
      /\ holder = Nobody /\ holder' = p
  BY DEF PipeCall, Quiet, pipe, ends
<1>p. /\ pc[p] = "user" /\ p \in open
      /\ pc'[p] = IF p \in Writer THEN "write" ELSE "read"
      /\ \A q \in PipeProc \ {p} : pc'[q] = pc[q]
  BY <1>0 DEF PipeCall, PipeTypeOK, Goto
<1>t. PipeTypeOK'
  BY <1>0, <1>u, PipeAssumption DEF PipeCall, PipeTypeOK, Goto, WriterLabels, ReaderLabels
<1>h. /\ \A q \in PipeProc : pc[q] \notin InPipeCall
      /\ p \in Writer <=> p \notin Reader
  BY <1>0, <1>u, PipeAssumption DEF CallInv, PipeProc
<1>c. CallInv'
  BY <1>0, <1>u, <1>p, <1>h DEF CallInv, WriterLabels, ReaderLabels, InPipeCall
<1>e. EndInv'
  BY <1>0, <1>u, <1>p DEF EndInv, CallInv, WriterLabels, ReaderLabels
<1>f. Empty' = Empty /\ PipeFull' = PipeFull /\ ~(Empty /\ PipeFull)
  BY <1>0, <1>u, TransitFacts, Moduli DEF Empty, PipeFull
<1>s. SleepInv'
  BY <1>0, <1>u, <1>p, <1>h, <1>f DEF SleepInv, InPipeCall, PipeProc
<1>i. (InTransit <= PIPESIZE)'
  BY <1>0, <1>u DEF InTransit
<1> QED BY <1>t, <1>c, <1>e, <1>s, <1>i DEF PipeInv

\* A woken process takes the lock again.
LEMMA ResumeInv ==
  ASSUME PipeInv, NEW p \in PipeProc, Resume(p)
  PROVE  PipeInv'
<1>0. PipeTypeOK /\ CallInv /\ EndInv /\ SleepInv /\ InTransit <= PIPESIZE
  BY DEF PipeInv
<1>u. /\ UNCHANGED <<data, nread, nwrite, readopen, writeopen, freed, open, killed>>
      /\ holder = Nobody /\ holder' = p
  BY DEF Resume, Quiet, pipe, ends
<1>p. /\ pc[p] \in {"wwake", "rwake"}
      /\ pc'[p] = IF p \in Writer THEN "write" ELSE "read"
      /\ \A q \in PipeProc \ {p} : pc'[q] = pc[q]
  BY <1>0 DEF Resume, PipeTypeOK, Goto
<1>t. PipeTypeOK'
  BY <1>0, <1>u, PipeAssumption DEF Resume, PipeTypeOK, Goto, WriterLabels, ReaderLabels
<1>h. /\ \A q \in PipeProc : pc[q] \notin InPipeCall
      /\ p \in Writer <=> p \notin Reader
  BY <1>0, <1>u, PipeAssumption DEF CallInv, PipeProc
<1>c. CallInv'
  BY <1>0, <1>u, <1>p, <1>h DEF CallInv, WriterLabels, ReaderLabels, InPipeCall
<1>e. EndInv'
  BY <1>0, <1>u, <1>p DEF EndInv, CallInv, WriterLabels, ReaderLabels
<1>f. Empty' = Empty /\ PipeFull' = PipeFull /\ ~(Empty /\ PipeFull)
  BY <1>0, <1>u, TransitFacts, Moduli DEF Empty, PipeFull
<1>s. SleepInv'
  BY <1>0, <1>u, <1>p, <1>h, <1>f DEF SleepInv, InPipeCall, PipeProc
<1>i. (InTransit <= PIPESIZE)'
  BY <1>0, <1>u DEF InTransit
<1> QED BY <1>t, <1>c, <1>e, <1>s, <1>i DEF PipeInv

\* The last process of an end to close it is the only one on its way to pipeclose().
LEMMA FileCloseInv ==
  ASSUME PipeInv, NEW p \in PipeProc, FileClose(p)
  PROVE  PipeInv'
<1>0. PipeTypeOK /\ CallInv /\ EndInv /\ SleepInv /\ InTransit <= PIPESIZE
  BY DEF PipeInv
<1>u. UNCHANGED <<data, nread, nwrite, readopen, writeopen, freed, holder, killed>>
  BY DEF FileClose, pipe
<1>p. /\ pc[p] = "user" /\ p \in open /\ open' = open \ {p}
      /\ pc'[p] \in {"user", "closing"}
      /\ \A q \in PipeProc \ {p} : pc'[q] = pc[q]
      /\ pc'[p] = "closing" =>
           open' \cap (IF p \in Writer THEN Writer ELSE Reader) = {}
  BY <1>0 DEF FileClose, PipeTypeOK, Goto
<1>t. PipeTypeOK'
  BY <1>0, <1>u, <1>p DEF FileClose, PipeTypeOK, Goto
<1>c. CallInv'
  BY <1>0, <1>u, <1>p DEF CallInv, WriterLabels, ReaderLabels, InPipeCall
<1>e. EndInv'
  BY <1>0, <1>u, <1>p, PipeAssumption DEF EndInv, PipeProc
<1>f. Empty' = Empty /\ PipeFull' = PipeFull /\ ~(Empty /\ PipeFull)
  BY <1>0, <1>u, TransitFacts, Moduli DEF Empty, PipeFull
<1>s. SleepInv'
  BY <1>0, <1>u, <1>p, <1>f DEF SleepInv, PipeProc
<1>i. (InTransit <= PIPESIZE)'
  BY <1>0, <1>u DEF InTransit
<1> QED BY <1>t, <1>c, <1>e, <1>s, <1>i DEF PipeInv

\* pipeclose() closes an end nobody has open, and wakes who waits for it.
LEMMA PipeCloseInv ==
  ASSUME PipeInv, NEW p \in PipeProc, PipeClose(p)
  PROVE  PipeInv'
<1>0. PipeTypeOK /\ CallInv /\ EndInv /\ SleepInv /\ InTransit <= PIPESIZE
  BY DEF PipeInv
<1>u. /\ UNCHANGED <<data, nread, nwrite, open, killed>>
      /\ holder = Nobody /\ holder' = Nobody
      /\ writeopen' = (writeopen /\ p \notin Writer)
      /\ readopen' = (readopen /\ p \notin Reader)
      /\ freed' = (~readopen' /\ ~writeopen')
  BY DEF PipeClose, pipe, unused
<1>p. /\ pc[p] = "closing" /\ pc'[p] = "user"
      /\ \A q \in PipeProc \ {p} :
           pc'[q] = IF p \in Writer THEN IF pc[q] = "rsleep" THEN "rwake" ELSE pc[q]
                                    ELSE IF pc[q] = "wsleep" THEN "wwake" ELSE pc[q]
  BY <1>0, WakeFacts DEF PipeClose, PipeTypeOK
<1>t. PipeTypeOK'
  BY <1>0, <1>u, WakeFacts DEF PipeClose, PipeTypeOK
<1>h. /\ \A q \in PipeProc : pc[q] \notin InPipeCall
      /\ p \in Writer <=> p \notin Reader
      /\ \A q \in PipeProc : q \in Writer <=> q \notin Reader
  BY <1>0, <1>u, PipeAssumption DEF CallInv, PipeProc
<1>c. CallInv'
  BY <1>0, <1>u, <1>p, <1>h, PipeAssumption
  DEF CallInv, WriterLabels, ReaderLabels, InPipeCall
<1>e. EndInv'
  BY <1>0, <1>u, <1>p, <1>h DEF EndInv
<1>f. Empty' = Empty /\ PipeFull' = PipeFull /\ ~(Empty /\ PipeFull)
  BY <1>0, <1>u, TransitFacts, Moduli DEF Empty, PipeFull
<1>s. SleepInv'
  <2>1. /\ \A q \in PipeProc : pc[q] = "wsleep" => readopen /\ PipeFull
        /\ \A q \in PipeProc : pc[q] = "rsleep" =>
             writeopen /\ (Empty \/ \E w \in Writer : killed[w])
    BY <1>0, <1>h DEF SleepInv, InPipeCall, PipeProc
  <2>2. \A q \in PipeProc : pc'[q] \notin InPipeCall
    BY <1>p, <1>h DEF InPipeCall
  <2>3. ASSUME NEW q \in PipeProc, pc'[q] = "wsleep"
        PROVE  readopen' /\ PipeFull'
    <3>1. pc[q] = "wsleep" /\ q # p /\ p \in Writer
      BY <1>p, <2>3
    <3> QED BY ONLY <1>u, <1>h, <1>f, <2>1, <3>1
  <2>4. ASSUME NEW q \in PipeProc, pc'[q] = "rsleep"
        PROVE  writeopen' /\ (Empty' \/ \E w \in Writer : killed'[w])
    <3>1. pc[q] = "rsleep" /\ q # p /\ p \notin Writer
      BY <1>p, <2>4
    <3>2. writeopen /\ (Empty \/ \E w \in Writer : killed[w])
      BY ONLY <2>1, <3>1, q \in PipeProc
    <3> QED BY ONLY <1>u, <1>f, <3>1, <3>2
  <2> QED BY ONLY <2>2, <2>3, <2>4 DEF SleepInv, InPipeCall
<1>i. (InTransit <= PIPESIZE)'
  BY <1>0, <1>u DEF InTransit
<1> QED BY <1>t, <1>c, <1>e, <1>s, <1>i DEF PipeInv

\* kill() takes no lock; it only sets killed and wakes a sleeper.
LEMMA KillInv ==
  ASSUME PipeInv, NEW p \in PipeProc, Kill(p)
  PROVE  PipeInv'
<1>0. PipeTypeOK /\ CallInv /\ EndInv /\ SleepInv /\ InTransit <= PIPESIZE
  BY DEF PipeInv
<1>u. UNCHANGED <<data, nread, nwrite, readopen, writeopen, freed, open, holder>>
  BY DEF Kill, pipe, ends
<1>p. /\ pc'[p] = IF pc[p] = "rsleep" THEN "rwake"
                  ELSE IF pc[p] = "wsleep" THEN "wwake" ELSE pc[p]
      /\ \A q \in PipeProc \ {p} : pc'[q] = pc[q]
      /\ \A q \in PipeProc : killed[q] => killed'[q]
  BY <1>0 DEF Kill, PipeTypeOK
<1>t. PipeTypeOK'
  BY <1>0, <1>u DEF Kill, PipeTypeOK, WriterLabels, ReaderLabels
<1>c. CallInv'
  BY <1>0, <1>u, <1>p DEF CallInv, WriterLabels, ReaderLabels, InPipeCall
<1>e. EndInv'
  BY <1>0, <1>u, <1>p DEF EndInv
<1>f. Empty' = Empty /\ PipeFull' = PipeFull /\ ~(Empty /\ PipeFull)
  BY <1>0, <1>u, TransitFacts, Moduli DEF Empty, PipeFull
<1>s. SleepInv'
  BY <1>0, <1>u, <1>p, <1>f DEF SleepInv, PipeProc
<1>i. (InTransit <= PIPESIZE)'
  BY <1>0, <1>u DEF InTransit
<1> QED BY <1>t, <1>c, <1>e, <1>s, <1>i DEF PipeInv

\* pipewrite() puts a byte in: it holds the lock, so no writer sleeps.
LEMMA WriteByteInv ==
  ASSUME PipeInv, NEW p \in PipeProc, NEW ch \in Byte, WriteByte(p, ch)
  PROVE  PipeInv'
<1>0. PipeTypeOK /\ CallInv /\ EndInv /\ SleepInv /\ InTransit <= PIPESIZE
  BY DEF PipeInv
<1>u. /\ UNCHANGED <<nread, readopen, writeopen, freed, open, killed, holder>>
      /\ nwrite' = (nwrite + 1) % UintMod /\ ~PipeFull
  BY DEF WriteByte, Quiet, ends
<1>n. InTransit' = InTransit + 1 /\ nwrite' \in 0 .. UintMod - 1
  BY <1>0, <1>u, TransitPut
<1>t. PipeTypeOK'
  <2>1. data' \in [0 .. PIPESIZE - 1 -> Byte]
    BY <1>0 DEF WriteByte, PipeTypeOK
  <2>2. i' \in [PipeProc -> Nat]
    BY <1>0 DEF WriteByte, PipeTypeOK
  <2> QED BY <1>0, <1>u, <1>n, <2>1, <2>2 DEF WriteByte, PipeTypeOK, Goto, WriterLabels
<1>p. /\ pc[p] = "put" /\ pc'[p] = "write"
      /\ \A q \in PipeProc \ {p} : pc'[q] = pc[q]
  BY <1>0 DEF WriteByte, PipeTypeOK, Goto
<1>h. /\ \A q \in PipeProc \ {p} : pc[q] \notin InPipeCall
      /\ p \in Writer /\ p \notin Reader
  BY <1>0, <1>p, PipeAssumption DEF CallInv, InPipeCall, WriterLabels, ReaderLabels
<1>c. CallInv'
  BY <1>0, <1>u, <1>p DEF CallInv, WriterLabels, ReaderLabels, InPipeCall
<1>e. EndInv'
  BY <1>0, <1>u, <1>p DEF EndInv
<1>s. SleepInv'
  <2>1. \A q \in PipeProc : pc[q] # "wsleep"
    BY <1>0, <1>u, <1>h, <1>p DEF SleepInv, InPipeCall, PipeProc
  <2> QED BY <1>0, <1>u, <1>p, <1>h, <2>1 DEF SleepInv, InPipeCall, PipeProc
<1>i. (InTransit <= PIPESIZE)'
  BY <1>0, <1>u, <1>n, TransitFacts, Moduli
<1> QED BY <1>t, <1>c, <1>e, <1>s, <1>i DEF PipeInv

\* piperead() takes a byte out, and wakes the writers when that ends the call.
LEMMA ReadByteInv ==
  ASSUME PipeInv, NEW p \in PipeProc, NEW fault \in BOOLEAN, ReadByte(p, fault)
  PROVE  PipeInv'
<1>0. PipeTypeOK /\ CallInv /\ EndInv /\ SleepInv /\ InTransit <= PIPESIZE
  BY DEF PipeInv
<1>u. /\ UNCHANGED <<data, nwrite, readopen, writeopen, freed, open, killed>>
      /\ nread' = (nread + 1) % UintMod /\ ~Empty
  BY DEF ReadByte, Quiet, ends
<1>n. InTransit' = InTransit - 1 /\ nread' \in 0 .. UintMod - 1
  BY <1>0, <1>u, TransitTake
<1>p. /\ pc[p] = "copy"
      /\ IF fault
         THEN /\ pc'[p] = "user" /\ holder' = Nobody
              /\ \A q \in PipeProc \ {p} : pc'[q] = IF pc[q] = "wsleep" THEN "wwake" ELSE pc[q]
         ELSE pc' = pc /\ holder' = holder
  BY <1>0, WakeFacts DEF ReadByte, PipeTypeOK, PipeReturn
<1>t. PipeTypeOK'
  <2>1. taken' \in Byte
    <3>1. nread % PIPESIZE \in 0 .. PIPESIZE - 1
      <4>1. nread \in Int /\ PIPESIZE \in Nat \ {0}
        BY <1>0, Moduli DEF PipeTypeOK
      <4> QED BY ONLY <4>1, DivMod
    <3> QED BY <1>0, <3>1 DEF ReadByte, PipeTypeOK
  <2>2. i' \in [PipeProc -> Nat] /\ n' \in [PipeProc -> Nat]
    <3>1. CASE fault
      <4>1. i' = [i EXCEPT ![p] = 0] /\ n' = [n EXCEPT ![p] = 0]
        BY <3>1, Zenon DEF ReadByte, PipeReturn
      <4> QED BY <1>0, <4>1 DEF PipeTypeOK
    <3>2. CASE ~fault
      <4>1. i' = [i EXCEPT ![p] = i[p] + 1] /\ n' = n
        BY <3>2, Zenon DEF ReadByte
      <4> QED BY <1>0, <4>1 DEF PipeTypeOK
    <3> QED BY <3>1, <3>2
  <2>3. /\ pc' \in [PipeProc -> {"user", "closing"} \cup WriterLabels \cup ReaderLabels]
        /\ holder' \in PipeProc \cup {Nobody}
    BY <1>0, WakeFacts DEF ReadByte, PipeTypeOK, PipeReturn
  <2> QED BY <1>0, <1>u, <1>n, <2>1, <2>2, <2>3 DEF PipeTypeOK
<1>h. /\ \A q \in PipeProc \ {p} : pc[q] \notin InPipeCall
      /\ p \in Reader /\ p \notin Writer /\ holder = p
  BY <1>0, <1>p, PipeAssumption DEF CallInv, InPipeCall, WriterLabels, ReaderLabels
<1>c. CallInv'
  BY <1>0, <1>u, <1>p, <1>h, PipeAssumption
  DEF CallInv, WriterLabels, ReaderLabels, InPipeCall
<1>e. EndInv'
  BY <1>0, <1>u, <1>p DEF EndInv
<1>s. SleepInv'
  <2>1. \A q \in PipeProc : pc[q] = "rsleep" => writeopen /\ \E w \in Writer : killed[w]
    BY <1>0, <1>u, <1>h, <1>p DEF SleepInv, InPipeCall, PipeProc
  <2>2. CASE fault
    BY <1>0, <1>u, <1>p, <1>h, <2>1, <2>2 DEF SleepInv, InPipeCall, PipeProc
  <2>3. CASE ~fault
    BY <1>0, <1>u, <1>p, <1>h, <2>1, <2>3 DEF SleepInv, InPipeCall, PipeProc
  <2> QED BY <2>2, <2>3
<1>i. (InTransit <= PIPESIZE)'
  BY <1>0, <1>u, <1>n, TransitFacts, Moduli
<1> QED BY <1>t, <1>c, <1>e, <1>s, <1>i DEF PipeInv

\* A new pipe satisfies the invariant.
LEMMA PipeInvInit == PipeInit => PipeInv
<1> SUFFICES ASSUME PipeInit PROVE PipeInv
  OBVIOUS
<1>1. PipeTypeOK
  <2>1. 0 \in 0 .. UintMod - 1
    BY Moduli
  <2>2. pc \in [PipeProc -> {"user", "closing"} \cup WriterLabels \cup ReaderLabels]
    BY DEF PipeInit
  <2> QED BY <2>1, <2>2 DEF PipeInit, PipeTypeOK
<1>2. CallInv /\ EndInv /\ SleepInv
  BY PipeAssumption
  DEF PipeInit, CallInv, EndInv, SleepInv, InPipeCall, WriterLabels, ReaderLabels
<1>3. InTransit <= PIPESIZE
  BY Moduli, Counter DEF PipeInit, InTransit
<1> QED BY <1>1, <1>2, <1>3 DEF PipeInv

\* Every step of a call, of close() and of kill() preserves the invariant.
LEMMA PipeStep == PipeInv /\ [PipeNext]_pipevars => PipeInv'
<1> SUFFICES ASSUME PipeInv, [PipeNext]_pipevars PROVE PipeInv'
  OBVIOUS
<1>1. CASE UNCHANGED pipevars
  BY <1>1 DEF pipevars, pipe, ends, PipeInv, PipeTypeOK, CallInv, EndInv, SleepInv,
              InTransit, Empty, PipeFull
<1>2. ASSUME NEW p \in PipeProc,
             (\E size \in Sizes : PipeCall(p, size)) \/ Resume(p) \/ FileClose(p)
               \/ PipeClose(p) \/ Kill(p)
      PROVE  PipeInv'
  BY <1>2, PipeCallInv, ResumeInv, FileCloseInv, PipeCloseInv, KillInv
<1>3. ASSUME NEW p \in PipeProc, WriteStep(p)
      PROVE  PipeInv'
  BY <1>3, WriteDoneInv, WriteAbortInv, WriteGoOnInv, WriteSleepInv, WriteFaultInv,
     WriteByteInv DEF WriteStep
<1>4. ASSUME NEW p \in PipeProc, ReadStep(p)
      PROVE  PipeInv'
  BY <1>4, ReadAbortInv, ReadWaitInv, ReadSleepInv, ReadStartInv, ReadDoneInv,
     ReadByteInv DEF ReadStep
<1> QED BY <1>1, <1>2, <1>3, <1>4 DEF PipeNext

\* The inductive invariant of the pipe holds in every state.
THEOREM PipeInvariant == PipeSpec => []PipeInv
  BY PipeInvInit, PipeStep, PTL DEF PipeSpec

\* pipeclose() frees the pipe only when no call is using it, however many
\* processes share its ends.
THEOREM PipeFreedUnused == PipeSpec => []NoUseAfterFree
<1>1. PipeInv => NoUseAfterFree
  <2> SUFFICES ASSUME PipeInv, freed, NEW p \in PipeProc PROVE pc[p] = "user"
    BY DEF NoUseAfterFree
  <2>1. ~readopen /\ ~writeopen
    BY DEF PipeInv, EndInv
  <2>2. p \notin open /\ pc[p] # "closing"
    BY <2>1 DEF PipeInv, EndInv, PipeProc
  <2> QED BY <2>2 DEF PipeInv, PipeTypeOK, CallInv
<1> QED BY <1>1, PipeInvariant, PTL

\* No sleeper in pipewrite() or piperead() misses its wakeup().
THEOREM PipeWakeups == PipeSpec => []NoLostWakeup
<1>1. PipeInv => NoLostWakeup
  <2> SUFFICES ASSUME PipeInv PROVE NoLostWakeup
    OBVIOUS
  <2>1. /\ \A r \in Reader : pc[r] = "copy" => holder = r
        /\ \A w \in Writer : pc[w] \in {"write", "put"} => holder = w
    BY DEF PipeInv, CallInv, InPipeCall, PipeProc
  <2> QED BY <2>1 DEF PipeInv, SleepInv, NoLostWakeup
<1> QED BY <1>1, PipeInvariant, PTL

-----------------------------------------------------------------------------
(* The ring buffer implements a bounded queue *)

Queue == [k \in 1 .. InTransit |-> data[(nread + k - 1) % PIPESIZE]]

QueueShape ==
  /\ InTransit \in 0 .. PIPESIZE
  /\ Queue \in Seq(Byte) /\ Len(Queue) = InTransit
  /\ \A k \in 1 .. InTransit : Queue[k] = data[(nread + k - 1) % PIPESIZE]
  /\ \A k \in Int : (nread + k - 1) % PIPESIZE \in 0 .. PIPESIZE - 1

\* The bytes in transit, as a sequence.
LEMMA QueueFacts == PipeInv => QueueShape
<1> SUFFICES ASSUME PipeInv PROVE QueueShape
  OBVIOUS
<1>m. PIPESIZE \in Nat \ {0} /\ UintMod \in Nat \ {0}
  BY Moduli
<1>t. /\ nread \in 0 .. UintMod - 1 /\ data \in [0 .. PIPESIZE - 1 -> Byte]
      /\ InTransit \in 0 .. PIPESIZE
  BY TransitFacts DEF PipeInv, PipeTypeOK
<1>1. ASSUME NEW k \in Int
      PROVE  (nread + k - 1) % PIPESIZE \in 0 .. PIPESIZE - 1
  <2>1. nread + k - 1 \in Int
    BY <1>m, <1>t
  <2> QED BY ONLY <1>m, <2>1, DivMod
<1>2. \A k \in 1 .. InTransit : data[(nread + k - 1) % PIPESIZE] \in Byte
  BY <1>m, <1>t, <1>1
<1>3. Queue \in [1 .. InTransit -> Byte]
  BY <1>2 DEF Queue
<1>4. Queue \in Seq(Byte) /\ Len(Queue) = InTransit
  BY <1>t, <1>m, <1>3, LenProperties
<1> QED BY <1>t, <1>1, <1>4 DEF Queue, QueueShape

\* pipewrite()'s copy of one byte appends it to the bytes in transit.
LEMMA ByteAppended ==
  ASSUME PipeInv, PipeInv', NEW p \in PipeProc, NEW ch \in Byte, WriteByte(p, ch)
  PROVE  Len(Queue) < PIPESIZE /\ Queue' = Append(Queue, ch)
<1>0. PipeTypeOK /\ InTransit <= PIPESIZE
  BY DEF PipeInv
<1>m. PIPESIZE \in Nat \ {0}
  BY Moduli
<1>u. nwrite' = (nwrite + 1) % UintMod /\ nread' = nread /\ ~PipeFull
  BY DEF WriteByte
<1>n. InTransit' = InTransit + 1
  BY <1>0, <1>u, TransitPut
<1>t. /\ InTransit \in 0 .. PIPESIZE /\ InTransit < PIPESIZE /\ nread \in Int
      /\ (nread + InTransit) % PIPESIZE = nwrite % PIPESIZE
  BY <1>0, <1>u, <1>m, TransitFacts DEF PipeTypeOK
<1>q. /\ Queue \in Seq(Byte) /\ Len(Queue) = InTransit
      /\ \A k \in 1 .. InTransit : Queue[k] = data[(nread + k - 1) % PIPESIZE]
      /\ \A k \in Int : (nread + k - 1) % PIPESIZE \in 0 .. PIPESIZE - 1
  BY QueueFacts DEF QueueShape
<1>r. /\ Queue' \in Seq(Byte) /\ Len(Queue') = InTransit + 1
      /\ \A k \in 1 .. InTransit + 1 : Queue'[k] = data'[(nread + k - 1) % PIPESIZE]
  <2>1. /\ Queue' \in Seq(Byte) /\ Len(Queue') = InTransit'
        /\ \A k \in 1 .. InTransit' : Queue'[k] = data'[(nread' + k - 1) % PIPESIZE]
    <3>1. QueueShape'
      BY QueueFacts, PTL
    <3> QED BY <3>1 DEF QueueShape
  <2> QED BY <2>1, <1>n, <1>u
<1>d. data' = [data EXCEPT ![nwrite % PIPESIZE] = ch] /\ data \in [0 .. PIPESIZE - 1 -> Byte]
  BY <1>0 DEF WriteByte, PipeTypeOK
<1>1. Queue'[InTransit + 1] = ch
  <2>1. nread + (InTransit + 1) - 1 = nread + InTransit
    BY <1>t, <1>m
  <2>2. nwrite % PIPESIZE \in 0 .. PIPESIZE - 1
    <3>1. InTransit + 1 \in Int
      BY <1>t, <1>m
    <3> QED BY <1>q, <1>t, <2>1, <3>1
  <2>3. Queue'[InTransit + 1] = data'[(nread + (InTransit + 1) - 1) % PIPESIZE]
    BY <1>r, <1>t, <1>m
  <2> QED BY <1>d, <1>t, <2>1, <2>2, <2>3
<1>2. ASSUME NEW k \in 1 .. InTransit
      PROVE  Queue'[k] = Queue[k]
  <2>1. (nread + k - 1) % PIPESIZE # (nread + InTransit) % PIPESIZE
    <3>1. /\ nread + k - 1 \in Int /\ nread + InTransit \in Int
          /\ nread + k - 1 < nread + InTransit
          /\ nread + InTransit < (nread + k - 1) + PIPESIZE
      BY <1>t, <1>m
    <3> QED BY ONLY <1>m, <3>1, ModDistinct
  <2>2. (nread + k - 1) % PIPESIZE \in 0 .. PIPESIZE - 1 /\ k \in 1 .. InTransit + 1
    BY <1>q, <1>t, <1>m
  <2>3. data'[(nread + k - 1) % PIPESIZE] = data[(nread + k - 1) % PIPESIZE]
    BY <1>d, <1>t, <2>1, <2>2
  <2> QED BY <1>q, <1>r, <2>2, <2>3
<1>3. /\ Append(Queue, ch) \in Seq(Byte) /\ Len(Append(Queue, ch)) = InTransit + 1
      /\ \A k \in 1 .. InTransit : Append(Queue, ch)[k] = Queue[k]
      /\ Append(Queue, ch)[InTransit + 1] = ch
  BY <1>q, AppendProperties
<1>4. \A k \in 1 .. Len(Queue') : Queue'[k] = Append(Queue, ch)[k]
  <2>1. ASSUME NEW k \in 1 .. Len(Queue')
        PROVE  k \in 1 .. InTransit \/ k = InTransit + 1
    BY <1>r, <1>t, <1>m
  <2> QED BY ONLY <2>1, <1>1, <1>2, <1>3
<1>5. Queue' = Append(Queue, ch)
  BY ONLY <1>r, <1>3, <1>4, SeqEqual
<1> QED BY <1>5, <1>q, <1>t

\* piperead()'s copy of one byte takes the oldest of the bytes in transit.
LEMMA ByteTaken ==
  ASSUME PipeInv, PipeInv', NEW p \in PipeProc, NEW fault \in BOOLEAN, ReadByte(p, fault)
  PROVE  Queue # <<>> /\ Queue' = Tail(Queue) /\ taken' = Head(Queue)
<1>0. PipeTypeOK /\ InTransit <= PIPESIZE
  BY DEF PipeInv
<1>m. PIPESIZE \in Nat \ {0}
  BY Moduli
<1>u. /\ nread' = (nread + 1) % UintMod /\ nwrite' = nwrite /\ ~Empty /\ data' = data
      /\ taken' = data[nread % PIPESIZE]
  BY DEF ReadByte
<1>n. /\ InTransit' = InTransit - 1
      /\ \A k \in Int : (nread' + k - 1) % PIPESIZE = (nread + (k + 1) - 1) % PIPESIZE
  BY <1>0, <1>u, TransitTake
<1>t. InTransit \in 0 .. PIPESIZE /\ InTransit > 0 /\ nread \in Int
  BY <1>0, <1>u, <1>m, TransitFacts DEF PipeTypeOK
<1>q. /\ Queue \in Seq(Byte) /\ Len(Queue) = InTransit
      /\ \A k \in 1 .. InTransit : Queue[k] = data[(nread + k - 1) % PIPESIZE]
  BY QueueFacts DEF QueueShape
<1>r. /\ Queue' \in Seq(Byte) /\ Len(Queue') = InTransit - 1
      /\ \A k \in 1 .. InTransit - 1 : Queue'[k] = data[(nread' + k - 1) % PIPESIZE]
  <2>1. /\ Queue' \in Seq(Byte) /\ Len(Queue') = InTransit'
        /\ \A k \in 1 .. InTransit' : Queue'[k] = data'[(nread' + k - 1) % PIPESIZE]
    <3>1. QueueShape'
      BY QueueFacts, PTL
    <3> QED BY <3>1 DEF QueueShape
  <2> QED BY <2>1, <1>n, <1>u
<1>1. Queue # <<>>
  BY <1>q, <1>t, EmptySeq
<1>2. taken' = Head(Queue)
  <2>1. 1 \in 1 .. InTransit /\ nread + 1 - 1 = nread
    BY <1>t, <1>m
  <2>2. Queue[1] = data[nread % PIPESIZE]
    BY <1>q, <2>1
  <2>3. Head(Queue) = Queue[1]
    BY <1>q, <1>1
  <2> QED BY <1>u, <2>2, <2>3
<1>3. /\ Tail(Queue) \in Seq(Byte) /\ Len(Tail(Queue)) = InTransit - 1
      /\ \A k \in 1 .. InTransit - 1 : Tail(Queue)[k] = Queue[k + 1]
  BY <1>q, <1>1, HeadTailProperties
<1>4. ASSUME NEW k \in 1 .. InTransit - 1
      PROVE  Queue'[k] = Tail(Queue)[k]
  <2>1. k \in Int /\ k + 1 \in 1 .. InTransit
    BY <1>t, <1>m
  <2>2. Queue'[k] = data[(nread + (k + 1) - 1) % PIPESIZE]
    BY <1>r, <1>n, <2>1
  <2>3. Queue[k + 1] = data[(nread + (k + 1) - 1) % PIPESIZE]
    BY <1>q, <2>1
  <2> QED BY <1>3, <2>2, <2>3
<1>5. Queue' = Tail(Queue)
  BY ONLY <1>r, <1>3, <1>4, SeqEqual
<1> QED BY <1>1, <1>2, <1>5

\* Every other step leaves the bytes in transit alone.
LEMMA QueueUnmoved ==
  ASSUME UNCHANGED pipe
  PROVE  Queue' = Queue
  BY DEF pipe, Queue, InTransit

\* The initial pipe is the empty queue.
LEMMA FIFOInit == PipeInit => FIFO!Init
<1> SUFFICES ASSUME PipeInit PROVE FIFO!Init
  OBVIOUS
<1>1. InTransit = 0
  BY Moduli, Counter DEF PipeInit, InTransit
<1>2. Queue = <<>>
  BY <1>1 DEF Queue
<1> QED BY <1>2 DEF FIFO!Init, Queue, PipeInit

\* Each step of the pipe is a step of the queue, or leaves it alone.
LEMMA FIFOStep ==
  ASSUME PipeInv, PipeInv', [PipeNext]_pipevars
  PROVE  [FIFO!Next]_<<Queue, taken>>
<1>1. CASE UNCHANGED pipevars
  <2>1. UNCHANGED pipe /\ taken' = taken
    BY <1>1 DEF pipevars
  <2> QED BY <2>1, QueueUnmoved
<1>2. ASSUME NEW p \in PipeProc, NEW ch \in Byte, WriteByte(p, ch)
      PROVE  FIFO!Next
  <2>1. Len(Queue) < PIPESIZE /\ Queue' = Append(Queue, ch)
    BY <1>2, ByteAppended
  <2>2. FIFO!Put(ch)
    BY <1>2, <2>1 DEF FIFO!Put, Queue, WriteByte
  <2> QED BY <2>2 DEF FIFO!Next
<1>3. ASSUME NEW p \in PipeProc, NEW fault \in BOOLEAN, ReadByte(p, fault)
      PROVE  FIFO!Next
  <2>1. Queue # <<>> /\ Queue' = Tail(Queue) /\ taken' = Head(Queue)
    BY <1>3, ByteTaken
  <2>2. FIFO!Take
    BY <2>1 DEF FIFO!Take, Queue
  <2> QED BY <2>2 DEF FIFO!Next
<1>4. ASSUME UNCHANGED pipe, taken' = NoByte
      PROVE  FIFO!Next
  <2>1. FIFO!Forget
    BY <1>4, QueueUnmoved DEF FIFO!Forget, Queue
  <2> QED BY <2>1 DEF FIFO!Next
<1>5. ASSUME NEW p \in PipeProc, WriteStep(p)
      PROVE  FIFO!Next
  BY <1>2, <1>4, <1>5
  DEF WriteStep, WriteDone, WriteAbort, WriteGoOn, WriteSleep, WriteFault
<1>6. ASSUME NEW p \in PipeProc, ReadStep(p)
      PROVE  FIFO!Next
  BY <1>3, <1>4, <1>6
  DEF ReadStep, ReadAbort, ReadWait, ReadSleep, ReadStart, ReadDone
<1>7. ASSUME NEW p \in PipeProc,
             (\E size \in Sizes : PipeCall(p, size)) \/ Resume(p) \/ FileClose(p)
               \/ PipeClose(p) \/ Kill(p)
      PROVE  FIFO!Next
  BY <1>4, <1>7 DEF PipeCall, Resume, FileClose, PipeClose, Kill
<1> QED BY <1>1, <1>5, <1>6, <1>7 DEF PipeNext

\* pipe.c implements a bounded queue of bytes: with any number of writers and
\* readers, and through every wrap of nread and nwrite, the bytes come out once
\* and in the order they went in.
THEOREM PipeIsFIFO == PipeSpec => RefinesFIFO
<1>1. PipeInv /\ PipeInv' /\ [PipeNext]_pipevars => [FIFO!Next]_<<Queue, taken>>
  BY FIFOStep
<1>2. PipeSpec => FIFO!Init /\ [][FIFO!Next]_<<Queue, taken>>
  BY <1>1, FIFOInit, PipeInvariant, PTL DEF PipeSpec
<1> QED BY <1>2, PTL DEF RefinesFIFO, FIFO!Spec, Queue
=============================================================================
