---------------------------- MODULE DriverProofs ----------------------------
(***************************************************************************)
(* Lemmas for StoreProofs: the steps of the disk driver and of the device  *)
(* preserve BcacheInv, for any number of processes, buffers, blocks and    *)
(* descriptors.                                                            *)
(***************************************************************************)
EXTENDS Bcache, FiniteSetTheorems, TLAPS

-----------------------------------------------------------------------------
(* Sequences and sets *)

\* A new entry at the end of a ring.
LEMMA AppendFacts ==
  ASSUME NEW S, NEW s \in Seq(S), IsInjective(s), NEW x \in S, x \notin Range(s)
  PROVE  /\ Append(s, x) \in Seq(S)
         /\ Range(Append(s, x)) = Range(s) \cup {x}
         /\ IsInjective(Append(s, x))
<1> DEFINE t == Append(s, x)
<1>1. /\ t \in Seq(S) /\ Len(t) = Len(s) + 1 /\ Len(s) \in Nat
      /\ DOMAIN s = 1 .. Len(s) /\ DOMAIN t = 1 .. Len(s) + 1
      /\ \A i \in 1 .. Len(s) : t[i] = s[i]
      /\ t[Len(s) + 1] = x
  OBVIOUS
<1> HIDE DEF t
<1>2. Range(t) = Range(s) \cup {x}
  BY <1>1 DEF Range
<1>3. IsInjective(t)
  BY <1>1 DEF IsInjective, Range
<1> QED
  BY <1>1, <1>2, <1>3 DEF t

\* The first entry of a ring is taken out.
LEMMA TailFacts ==
  ASSUME NEW S, NEW s \in Seq(S), IsInjective(s), s # <<>>
  PROVE  /\ Head(s) \in Range(s) /\ Head(s) \in S
         /\ Tail(s) \in Seq(S)
         /\ Range(Tail(s)) = Range(s) \ {Head(s)}
         /\ IsInjective(Tail(s))
<1> DEFINE t == Tail(s)  h == Head(s)
<1>1. /\ Len(s) \in Nat \ {0} /\ t \in Seq(S) /\ Len(t) = Len(s) - 1
      /\ DOMAIN s = 1 .. Len(s) /\ DOMAIN t = 1 .. Len(s) - 1
      /\ \A i \in 1 .. Len(s) - 1 : t[i] = s[i + 1]
      /\ h = s[1] /\ h \in S
  OBVIOUS
<1> HIDE DEF t, h
<1>2. h \in Range(s)
  BY <1>1 DEF Range
<1>3. \A i \in 2 .. Len(s) : i - 1 \in DOMAIN t /\ t[i - 1] = s[i]
  BY <1>1
<1>4. ASSUME NEW x \in Range(s) \ {h} PROVE x \in Range(t)
  <2>1. PICK i \in DOMAIN s : s[i] = x
    BY DEF Range
  <2>2. i \in 2 .. Len(s)
    BY <2>1, <1>1
  <2> QED
    BY <2>1, <2>2, <1>3 DEF Range
<1>5. ASSUME NEW x \in Range(t) PROVE x \in Range(s) \ {h}
  <2>1. PICK i \in DOMAIN t : t[i] = x
    BY DEF Range
  <2>2. i + 1 \in DOMAIN s /\ 1 \in DOMAIN s /\ i + 1 # 1 /\ s[i + 1] = x
    BY <2>1, <1>1
  <2>3. x \in Range(s)
    BY <2>2 DEF Range
  <2>4. s[i + 1] # s[1]
    BY <2>2, Zenon DEF IsInjective
  <2> QED
    BY <2>2, <2>3, <2>4, <1>1
<1>6. IsInjective(t)
  <2> SUFFICES ASSUME NEW i \in DOMAIN t, NEW j \in DOMAIN t, t[i] = t[j] PROVE i = j
    BY DEF IsInjective
  <2>1. i + 1 \in DOMAIN s /\ j + 1 \in DOMAIN s /\ s[i + 1] = s[j + 1] /\ i \in Nat /\ j \in Nat
    BY <1>1
  <2>2. i + 1 = j + 1
    BY <2>1, Zenon DEF IsInjective
  <2> QED
    BY <2>1, <2>2
<1> QED
  BY <1>1, <1>2, <1>4, <1>5, <1>6 DEF t, h

\* A non-empty set of natural numbers has a least element.
LEMMA LeastElement ==
  ASSUME NEW S, S \subseteq Nat, S # {}
  PROVE  \E x \in S : \A y \in S : x <= y
<1>1. \E x \in S : \A y \in S : ~(<<y, x>> \in OpToRel(<, Nat))
  BY WFMin, NatLessThanWellFounded, Zenon
<1>2. \E x \in S : \A y \in S : ~(y < x)
  BY <1>1, Zenon DEF OpToRel
<1> QED
  BY <1>2

\* A set of three natural numbers, in order.
LEMMA InOrder ==
  ASSUME NEW S, S \subseteq Nat, IsFiniteSet(S), Cardinality(S) >= 3
  PROVE  \E x, y, z \in S : /\ x < y /\ y < z
                            /\ \A j \in S \ {x, y, z} : z < j
                            /\ IsFiniteSet(S \ {x, y, z})
                            /\ Cardinality(S \ {x, y, z}) = Cardinality(S) - 3
<1>0. Cardinality(S) \in Nat
  BY FS_CardinalityType
<1>1. PICK x \in S : \A j \in S : x <= j
  <2>1. S # {}
    BY <1>0, FS_EmptySet
  <2> QED
    BY <2>1, LeastElement
<1>2. IsFiniteSet(S \ {x}) /\ Cardinality(S \ {x}) = Cardinality(S) - 1
  BY FS_RemoveElement
<1>3. PICK y \in S \ {x} : \A j \in S \ {x} : y <= j
  <2>1. S \ {x} # {}
    BY <1>0, <1>2, FS_EmptySet
  <2> QED
    BY <2>1, LeastElement
<1>4. IsFiniteSet((S \ {x}) \ {y}) /\ Cardinality((S \ {x}) \ {y}) = Cardinality(S) - 2
  <2> DEFINE A == S \ {x}
  <2>1. IsFiniteSet(A) /\ y \in A /\ Cardinality(A) = Cardinality(S) - 1
    BY <1>2
  <2> HIDE DEF A
  <2>2. IsFiniteSet(A \ {y}) /\ Cardinality(A \ {y}) = Cardinality(A) - 1
    BY <2>1, FS_RemoveElement
  <2> QED
    BY <2>1, <2>2, <1>0 DEF A
<1>5. PICK z \in (S \ {x}) \ {y} : \A j \in (S \ {x}) \ {y} : z <= j
  <2>1. (S \ {x}) \ {y} # {}
    BY <1>0, <1>4, FS_EmptySet
  <2> QED
    BY <2>1, LeastElement
<1>6. /\ IsFiniteSet(((S \ {x}) \ {y}) \ {z})
      /\ Cardinality(((S \ {x}) \ {y}) \ {z}) = Cardinality(S) - 3
  <2> DEFINE A == (S \ {x}) \ {y}
  <2>1. IsFiniteSet(A) /\ z \in A /\ Cardinality(A) = Cardinality(S) - 2
    BY <1>4
  <2> HIDE DEF A
  <2>2. IsFiniteSet(A \ {z}) /\ Cardinality(A \ {z}) = Cardinality(A) - 1
    BY <2>1, FS_RemoveElement
  <2> QED
    BY <2>1, <2>2, <1>0 DEF A
<1>7. ((S \ {x}) \ {y}) \ {z} = S \ {x, y, z}
  OBVIOUS
<1>8. x < y /\ y < z /\ \A j \in S \ {x, y, z} : z < j
  BY <1>1, <1>3, <1>5
<1> QED
  BY <1>6, <1>7, <1>8

\* alloc3_desc() gets three different free descriptors.
LEMMA LowestThree ==
  ASSUME NEW S, S \subseteq Nat, IsFiniteSet(S), Cardinality(S) >= 3
  PROVE  \E x, y, z \in S :
           x < y /\ y < z /\ Lowest(S, 3) = {x, y, z}
<1> DEFINE L == Lowest(S, 3)
<1>1. PICK x, y, z \in S : /\ x < y /\ y < z
                           /\ \A j \in S \ {x, y, z} : z < j
  BY InOrder
<1>2. Cardinality({x, y, z}) = 3
  <2>1. Cardinality({x}) = 1 /\ IsFiniteSet({x})
    BY FS_Singleton
  <2>2. Cardinality({x} \cup {y}) = 2 /\ IsFiniteSet({x} \cup {y})
    <3>1. y \notin {x}
      BY <1>1
    <3> DEFINE A == {x}
    <3>2. IsFiniteSet(A) /\ y \notin A /\ Cardinality(A) = 1
      BY <2>1, <3>1
    <3> HIDE DEF A
    <3>3. IsFiniteSet(A \cup {y}) /\ Cardinality(A \cup {y}) = Cardinality(A) + 1
      BY ONLY <3>2, FS_AddElement
    <3> QED
      BY <3>2, <3>3 DEF A
  <2>3. Cardinality(({x} \cup {y}) \cup {z}) = 3
    <3> DEFINE A == {x} \cup {y}
    <3>1. IsFiniteSet(A) /\ z \notin A /\ Cardinality(A) = 2
      BY <2>2, <1>1
    <3> HIDE DEF A
    <3>2. IsFiniteSet(A \cup {z}) /\ Cardinality(A \cup {z}) = Cardinality(A) + 1
      BY ONLY <3>1, FS_AddElement
    <3> QED
      BY <3>1, <3>2 DEF A
  <2>4. ({x} \cup {y}) \cup {z} = {x, y, z}
    OBVIOUS
  <2> QED
    BY <2>3, <2>4
<1>3. \E T \in kSubset(3, S) : \A i \in T, j \in S \ T : i < j
  <2>1. {x, y, z} \in kSubset(3, S)
    BY <1>2 DEF kSubset
  <2>2. \A i \in {x, y, z}, j \in S \ {x, y, z} : i < j
    BY <1>1
  <2> QED
    BY <2>1, <2>2
<1>4. L \in kSubset(3, S)
  BY <1>3 DEF Lowest
<1>5. L \subseteq S /\ Cardinality(L) = 3 /\ IsFiniteSet(L)
  BY <1>4, FS_Subset DEF kSubset
<1> HIDE DEF L
<1>6. PICK u, v, w \in L : /\ u < v /\ v < w
                           /\ IsFiniteSet(L \ {u, v, w}) /\ Cardinality(L \ {u, v, w}) = 0
  <2>1. L \subseteq Nat /\ Cardinality(L) >= 3 /\ Cardinality(L) - 3 = 0
    BY <1>5
  <2>2. \E u, v, w \in L : /\ u < v /\ v < w
                           /\ \A j \in L \ {u, v, w} : w < j
                           /\ IsFiniteSet(L \ {u, v, w})
                           /\ Cardinality(L \ {u, v, w}) = Cardinality(L) - 3
    BY ONLY <1>5, <2>1, InOrder
  <2> QED
    BY <2>1, <2>2
<1>7. L = {u, v, w}
  BY <1>6, FS_EmptySet
<1> QED
  BY <1>5, <1>6, <1>7 DEF L

\* Their order in the chain.
LEMMA ThreeInOrder ==
  ASSUME NEW x \in Nat, NEW y \in Nat, NEW z \in Nat, x < y, y < z
  PROVE  /\ Min({x, y, z}) = x /\ Max({x, y, z}) = z
         /\ (CHOOSE i \in {x, y, z} : i \notin {x, z}) = y
<1>1. Min({x, y, z}) = x /\ Max({x, y, z}) = z
  BY DEF Min, Max
<1>2. (CHOOSE i \in {x, y, z} : i \notin {x, z}) = y
  OBVIOUS
<1> QED
  BY <1>1, <1>2

-----------------------------------------------------------------------------
(* What a step that touches only one half leaves alone *)

\* Steps of bio.c that do not call the driver.
LEMMA DriverFrame ==
  ASSUME DriverInv, UNCHANGED <<inflight, irq, driver, used, dpc, req, panicked>>,
         \A p \in Proc : dpc[p] # "none" => /\ cur'[p] = cur[p] /\ pc'[p] = pc[p]
                                            /\ want'[p] = want[p]
  PROVE  DriverInv'
<1>1. DriverTypeOK'
  BY DEF DriverInv, DriverTypeOK, driver
<1>2. RequestInv'
  BY DEF DriverInv, RequestInv, RequestOf, Submitted, driver
<1>3. \A i : Asked(i) => Asked(i)'
  BY DEF Asked, Submitted, driver
<1>4. RingInv'
  BY <1>3 DEF DriverInv, RingInv, driver
<1>5. DescriptorsAccounted' /\ DriverSleepsForCause'
  BY DEF DriverInv, DescriptorsAccounted, DriverSleepsForCause, Submitted, Chain, driver
<1> QED
  BY <1>1, <1>2, <1>4, <1>5 DEF DriverInv

\* Steps of the driver and of the device.
LEMMA CacheFrame ==
  ASSUME CacheInv, UNCHANGED cvars,
         content' \in [Block -> Value], data' \in [Buf -> Value]
  PROVE  CacheInv'
<1>1. CacheTypeOK'
  BY DEF CacheInv, CacheTypeOK, cvars, cache, HasLock
<1>2. HoldInv'
  BY DEF CacheInv, HoldInv, cvars, cache
<1>3. ListInv'
  BY DEF CacheInv, ListInv, Users, cvars, cache
<1> QED
  BY <1>1, <1>2, <1>3 DEF CacheInv, cvars, cache

\* A driver step that moves no data and completes no transfer keeps CleanInv.
LEMMA CleanFrame ==
  ASSUME CleanInv, UNCHANGED <<cvars, content, data>>,
         \A p \in Proc : Transferred(p)' => Transferred(p)
  PROVE  CleanInv'
BY DEF CleanInv, cvars, cache

\* A locked buffer has one user past acquiresleep().
LEMMA OneHolder ==
  ASSUME HoldInv, NEW p \in Proc, NEW q \in Proc, cur[p] = cur[q],
         pc[p] \in HasLock, pc[q] \in HasLock
  PROVE  p = q
BY DEF HoldInv

\* A process in the cache has a buffer.
LEMMA CurOf ==
  ASSUME CacheTypeOK, HoldInv, NEW p \in Proc, pc[p] # "idle"
  PROVE  cur[p] \in Buf /\ want[p] \in Block /\ blockno[cur[p]] = want[p] /\ cur[p] # Null
BY VirtioAssumption DEF CacheTypeOK, HoldInv

\* A process past acquiresleep() holds the lock of its buffer.
LEMMA LockOf ==
  ASSUME CacheTypeOK, HoldInv, NEW p \in Proc, pc[p] \in HasLock
  PROVE  cur[p] \in Buf /\ lock[cur[p]] = p /\ pc[p] # "idle"
<1>1. pc[p] # "idle"
  BY DEF HasLock
<1> QED
  BY <1>1, CurOf DEF HoldInv

\* What it takes for every descriptor to be accounted for after a step.
LEMMA AccountedAfter ==
  ASSUME \A p, q \in Proc : Submitted(p)' /\ Submitted(q)' /\ p # q =>
           Chain(req[p].head)' \cap Chain(req[q].head)' = {},
         \A i \in Desc : i \notin free' => \E q \in Proc : Submitted(q)' /\ i \in Chain(req[q].head)',
         \A q \in Proc : Submitted(q)' => Chain(req[q].head)' \subseteq Desc \ free'
  PROVE  DescriptorsAccounted'
<1>1. ASSUME NEW i \in Desc \ free'
      PROVE  i \in UNION {Chain(req[q].head)' : q \in {r \in Proc : Submitted(r)'}}
  <2>1. PICK q \in Proc : Submitted(q)' /\ i \in Chain(req[q].head)'
    OBVIOUS
  <2> QED
    BY <2>1
<1>2. ASSUME NEW i \in UNION {Chain(req[q].head)' : q \in {r \in Proc : Submitted(r)'}}
      PROVE  i \in Desc \ free'
  OBVIOUS
<1>3. Desc \ free' = UNION {Chain(req[q].head)' : q \in {r \in Proc : Submitted(r)'}}
  BY <1>1, <1>2
<1> QED
  BY <1>3 DEF DescriptorsAccounted

\* The descriptors stay accounted for when neither the free list nor a chain changes.
LEMMA AccountedFrame ==
  ASSUME DescriptorsAccounted, UNCHANGED <<free, desc>>,
         \A q \in Proc : /\ Submitted(q)' <=> Submitted(q)
                         /\ Submitted(q) => req'[q] = req[q]
  PROVE  DescriptorsAccounted'
<1>1. \A q \in Proc : Submitted(q) => Chain(req[q].head)' = Chain(req[q].head)
  BY DEF Chain
<1>2. {Chain(req[q].head)' : q \in {r \in Proc : Submitted(r)'}} =
      {Chain(req[q].head) : q \in {r \in Proc : Submitted(r)}}
  BY <1>1
<1>3. Desc \ free' = UNION {Chain(req[q].head)' : q \in {r \in Proc : Submitted(r)'}}
  BY <1>2 DEF DescriptorsAccounted
<1>4. \A p, q \in Proc : Submitted(p)' /\ Submitted(q)' /\ p # q =>
        Chain(req[p].head)' \cap Chain(req[q].head)' = {}
  BY <1>1 DEF DescriptorsAccounted
<1> QED
  BY <1>3, <1>4 DEF DescriptorsAccounted

-----------------------------------------------------------------------------
(* Chains of descriptors *)

\* The chain of a submitted request has three descriptors, not free and in no other chain.
LEMMA ChainFacts ==
  ASSUME DriverInv
  PROVE  /\ \A p \in Proc : Submitted(p) =>
              /\ req[p].head \in Desc /\ desc[req[p].head] \in Desc
              /\ desc[desc[req[p].head]] \in Desc
              /\ Chain(req[p].head) = {req[p].head, desc[req[p].head],
                                       desc[desc[req[p].head]]}
              /\ Chain(req[p].head) \cap free = {}
         /\ \A p, q \in Proc : Submitted(p) /\ Submitted(q) /\ p # q =>
              Chain(req[p].head) \cap Chain(req[q].head) = {}
         /\ \A i \in Desc : i \notin free =>
              \E p \in Proc : Submitted(p) /\ i \in Chain(req[p].head)
<1> USE VirtioAssumption
<1>1. ASSUME NEW p \in Proc, Submitted(p)
      PROVE  /\ req[p].head \in Desc /\ desc[req[p].head] \in Desc
             /\ desc[desc[req[p].head]] \in Desc
             /\ Chain(req[p].head) = {req[p].head, desc[req[p].head], desc[desc[req[p].head]]}
  BY <1>1 DEF DriverInv, RequestInv, RequestOf, Chain
<1>2. ASSUME NEW p \in Proc, Submitted(p) PROVE Chain(req[p].head) \subseteq Desc \ free
  BY <1>2 DEF DriverInv, DescriptorsAccounted
<1>3. \A p, q \in Proc : Submitted(p) /\ Submitted(q) /\ p # q =>
        Chain(req[p].head) \cap Chain(req[q].head) = {}
  BY DEF DriverInv, DescriptorsAccounted
<1>4. \A i \in Desc : i \notin free => \E p \in Proc : Submitted(p) /\ i \in Chain(req[p].head)
  BY DEF DriverInv, DescriptorsAccounted
<1> QED
  BY <1>1, <1>2, <1>3, <1>4

\* A chain belongs to one process.
LEMMA OneAsker ==
  ASSUME DriverInv, NEW p \in Proc, NEW q \in Proc, Submitted(p), Submitted(q),
         req[p].head = req[q].head
  PROVE  p = q
BY ChainFacts

\* Two requests are for different buffers.
LEMMA OneRequest ==
  ASSUME HoldInv, DriverInv, NEW p \in Proc, NEW q \in Proc,
         Submitted(p), Submitted(q), cur[p] = cur[q]
  PROVE  p = q
<1>1. pc[p] \in HasLock /\ pc[q] \in HasLock
  BY DEF DriverInv, RequestInv, RequestOf, Submitted, HasLock
<1> QED
  BY <1>1, OneHolder

\* Steps that only move processes between sleeping and waking.
LEMMA WakeStep ==
  ASSUME BcacheInv, UNCHANGED <<cvars, device, data, driver, used, req, panicked>>,
         dpc' \in [Proc -> {"none", "alloc", "freesleep", "iosleep", "iowoken"}],
         \A p \in Proc : (dpc'[p] = "none" <=> dpc[p] = "none")
                         /\ (Submitted(p)' <=> Submitted(p)),
         DriverSleepsForCause'
  PROVE  BcacheInv'
<1>0. CacheInv /\ DriverInv /\ CleanInv
  BY DEF BcacheInv
<1>1. CacheInv'
  BY <1>0, CacheFrame DEF device, CacheInv, CacheTypeOK
<1>2. \A p \in Proc : Transferred(p)' => Transferred(p)
  BY DEF Transferred, cvars, driver
<1>3. CleanInv'
  BY <1>0, <1>2, CleanFrame DEF device
<1>4. DriverTypeOK'
  BY <1>0 DEF DriverInv, DriverTypeOK, device, driver
<1>5. RequestInv'
  <2> SUFFICES ASSUME NEW p \in Proc PROVE RequestOf(p)'
    BY DEF RequestInv
  <2>1. RequestOf(p)
    BY <1>0 DEF DriverInv, RequestInv
  <2> QED
    BY <2>1 DEF RequestOf, cvars, driver
<1>6. \A i : Asked(i) => Asked(i)'
  BY DEF Asked, cvars, driver
<1>7. RingInv'
  BY <1>0, <1>6 DEF DriverInv, RingInv, device, driver
<1>8. DescriptorsAccounted'
  BY <1>0, AccountedFrame DEF DriverInv, driver
<1> QED
  BY <1>0, <1>1, <1>3, <1>4, <1>5, <1>7, <1>8 DEF BcacheInv, DriverInv

\* Failing alloc3_desc(), an early wakeup and kill() only change who sleeps.
LEMMA SleepersInv ==
  ASSUME BcacheInv, NEW p \in Proc, UNCHANGED cvars,
         AllocFail(p) \/ SleepAgain(p) \/ KillInIO(p)
  PROVE  BcacheInv'
<1>0. DriverInv
  BY DEF BcacheInv
<1>1. UNCHANGED <<device, data, driver, used, req, panicked>>
  BY DEF AllocFail, SleepAgain, KillInIO
<1>2. CASE AllocFail(p)
  <2>1. \A q \in Proc : dpc'[q] = IF q = p THEN "freesleep"
                                  ELSE IF free # {} /\ dpc[q] = "freesleep" THEN "alloc"
                                  ELSE dpc[q]
    BY <1>0, <1>2 DEF AllocFail, WakeFree, DriverInv, DriverTypeOK
  <2>2. dpc' \in [Proc -> {"none", "alloc", "freesleep", "iosleep", "iowoken"}]
    BY <1>0, <1>2 DEF AllocFail, WakeFree, DriverInv, DriverTypeOK
  <2>3. DriverSleepsForCause'
    BY <2>1, <1>0, <1>1, <1>2 DEF AllocFail, DriverInv, DriverSleepsForCause, driver
  <2> QED
    BY <2>1, <2>2, <2>3, <1>1, <1>2, WakeStep DEF Submitted, AllocFail
<1>3. CASE SleepAgain(p) \/ KillInIO(p)
  <2>1. \A q \in Proc : q # p => dpc'[q] = dpc[q]
    BY <1>0, <1>3 DEF SleepAgain, KillInIO, DriverInv, DriverTypeOK
  <2>2. \/ dpc[p] = "iowoken" /\ dpc'[p] = "iosleep" /\ req[p].b \in owned
        \/ dpc[p] = "freesleep" /\ dpc'[p] = "alloc"
        \/ dpc[p] = "iosleep" /\ dpc'[p] = "iowoken"
    BY <1>0, <1>3 DEF SleepAgain, KillInIO, DriverInv, DriverTypeOK
  <2>3. dpc' \in [Proc -> {"none", "alloc", "freesleep", "iosleep", "iowoken"}]
    BY <1>0, <1>3 DEF SleepAgain, KillInIO, DriverInv, DriverTypeOK
  <2>4. DriverSleepsForCause'
    BY <2>1, <2>2, <1>0, <1>1 DEF DriverInv, DriverSleepsForCause, driver
  <2>5. \A q \in Proc : (dpc'[q] = "none" <=> dpc[q] = "none") /\ (Submitted(q)' <=> Submitted(q))
    BY <2>1, <2>2 DEF Submitted
  <2> QED
    BY <2>3, <2>4, <2>5, <1>1, WakeStep
<1> QED
  BY <1>2, <1>3

-----------------------------------------------------------------------------
(* virtio_disk_rw *)

\* Three descriptors leave the free list and become a chain.
LEMMA SubmitEffect ==
  ASSUME DriverInv, NEW p \in Proc, Submit(p)
  PROVE  \E h, m, t \in free :
           /\ h # m /\ h # t /\ m # t
           /\ free' = free \ {h, m, t}
           /\ desc' = [desc EXCEPT ![h] = m, ![m] = t, ![t] = Null]
           /\ info' = [info EXCEPT ![h] = [b |-> req[p].b, done |-> FALSE,
                                           blk |-> req[p].blk, write |-> req[p].write]]
           /\ avail' = Append(avail, h)
           /\ req' = [req EXCEPT ![p].head = h]
<1>1. free \subseteq Nat /\ IsFiniteSet(free) /\ Cardinality(free) >= 3
  <2>1. IsFiniteSet(Desc) /\ Desc \subseteq Nat
    BY VirtioAssumption, FS_Interval DEF Desc
  <2> QED
    BY <2>1, FS_Subset DEF DriverInv, DriverTypeOK, Submit
<1>2. PICK h, m, t \in free : h < m /\ m < t /\ Lowest(free, 3) = {h, m, t}
  BY ONLY <1>1, LowestThree
<1>3. h # m /\ h # t /\ m # t
  BY <1>1, <1>2
<1>4. /\ Min({h, m, t}) = h /\ Max({h, m, t}) = t
      /\ (CHOOSE i \in {h, m, t} : i \notin {h, t}) = m
  BY ONLY <1>1, <1>2, ThreeInOrder
<1>5. /\ free' = free \ {h, m, t}
      /\ desc' = [desc EXCEPT ![h] = m, ![m] = t, ![t] = Null]
      /\ info' = [info EXCEPT ![h] = [b |-> req[p].b, done |-> FALSE,
                                      blk |-> req[p].blk, write |-> req[p].write]]
      /\ avail' = Append(avail, h)
      /\ req' = [req EXCEPT ![p].head = h]
  BY <1>2, <1>4, Zenon DEF Submit
<1> QED
  BY ONLY <1>3, <1>5

\* virtio_disk_rw() takes three free descriptors and puts their head in the avail ring.
LEMMA SubmitInv ==
  ASSUME BcacheInv, NEW p \in Proc, Submit(p), UNCHANGED cvars
  PROVE  BcacheInv'
<1> USE VirtioAssumption
<1>0. CacheInv /\ DriverInv /\ CleanInv /\ DriverTypeOK /\ RequestInv /\ RingInv
  BY DEF BcacheInv, DriverInv
<1>1. PICK h, m, t \in free :
           /\ h # m /\ h # t /\ m # t
           /\ free' = free \ {h, m, t}
           /\ desc' = [desc EXCEPT ![h] = m, ![m] = t, ![t] = Null]
           /\ info' = [info EXCEPT ![h] = [b |-> req[p].b, done |-> FALSE,
                                           blk |-> req[p].blk, write |-> req[p].write]]
           /\ avail' = Append(avail, h)
           /\ req' = [req EXCEPT ![p].head = h]
  BY <1>0, SubmitEffect
<1>2. /\ dpc[p] = "alloc" /\ owned' = owned \cup {req[p].b}
      /\ dpc' = [dpc EXCEPT ![p] = "iosleep"]
      /\ UNCHANGED <<device, data, handling, used, panicked, cvars>>
  BY DEF Submit
<1>3. /\ req[p] \in Request /\ req[p].b = cur[p] /\ req[p].blk = want[p]
      /\ req[p].write <=> pc[p] = "writing"
      /\ pc[p] \in {"reading", "writing"}
      /\ h \in Desc /\ m \in Desc /\ t \in Desc
  BY <1>0, <1>2 DEF RequestInv, RequestOf, DriverTypeOK
<1>4. /\ \A i \in Desc \ {h, m, t} : desc'[i] = desc[i] /\ info'[i] = info[i]
      /\ desc'[h] = m /\ desc'[m] = t /\ desc'[t] = Null
      /\ info'[h] = [b |-> cur[p], done |-> FALSE, blk |-> want[p], write |-> req[p].write]
      /\ \A q \in Proc \ {p} : req'[q] = req[q] /\ dpc'[q] = dpc[q]
      /\ req'[p] = [req[p] EXCEPT !.head = h] /\ dpc'[p] = "iosleep"
  BY <1>0, <1>1, <1>2, <1>3 DEF DriverTypeOK
<1>5. /\ req'[p] \in Request /\ req'[p].b = cur[p] /\ req'[p].blk = want[p]
      /\ req'[p].write <=> pc[p] = "writing"
      /\ req'[p].head = h
      /\ info'[h] \in Info /\ info'[h].b = cur[p] /\ info'[h].blk = want[p]
      /\ info'[h].write <=> pc[p] = "writing"
  BY <1>3, <1>4 DEF Request, Info
<1>6. /\ \A q \in Proc \ {p} : Submitted(q)' <=> Submitted(q)
      /\ Submitted(p)' /\ ~Submitted(p)
  BY <1>2, <1>4 DEF Submitted
<1>7. \A q \in Proc : Submitted(q) =>
        /\ q # p /\ req[q].head \in Desc \ {h, m, t} /\ desc[req[q].head] \in Desc \ {h, m, t}
        /\ desc[desc[req[q].head]] \in Desc \ {h, m, t}
        /\ Chain(req[q].head) \cap {h, m, t} = {}
  <2> SUFFICES ASSUME NEW q \in Proc, Submitted(q)
               PROVE  /\ q # p /\ req[q].head \in Desc \ {h, m, t}
                      /\ desc[req[q].head] \in Desc \ {h, m, t}
                      /\ desc[desc[req[q].head]] \in Desc \ {h, m, t}
                      /\ Chain(req[q].head) \cap {h, m, t} = {}
    OBVIOUS
  <2>1. /\ req[q].head \in Desc /\ desc[req[q].head] \in Desc /\ desc[desc[req[q].head]] \in Desc
        /\ Chain(req[q].head) = {req[q].head, desc[req[q].head], desc[desc[req[q].head]]}
        /\ Chain(req[q].head) \cap free = {}
    BY <1>0, ChainFacts
  <2>2. {h, m, t} \subseteq free /\ q # p
    BY <1>6
  <2> QED
    BY ONLY <2>1, <2>2
<1>8. \A q \in Proc : Submitted(q) =>
        /\ req'[q].head = req[q].head /\ desc'[req[q].head] = desc[req[q].head]
        /\ desc'[desc[req[q].head]] = desc[desc[req[q].head]]
        /\ info'[req[q].head] = info[req[q].head]
        /\ Chain(req[q].head)' = Chain(req[q].head)
  <2> SUFFICES ASSUME NEW q \in Proc, Submitted(q)
               PROVE  /\ req'[q].head = req[q].head /\ desc'[req[q].head] = desc[req[q].head]
                      /\ desc'[desc[req[q].head]] = desc[desc[req[q].head]]
                      /\ info'[req[q].head] = info[req[q].head]
                      /\ Chain(req[q].head)' = Chain(req[q].head)
    OBVIOUS
  <2>1. /\ req'[q].head = req[q].head /\ desc'[req[q].head] = desc[req[q].head]
        /\ desc'[desc[req[q].head]] = desc[desc[req[q].head]]
        /\ info'[req[q].head] = info[req[q].head]
    BY <1>4, <1>7
  <2> QED
    BY <2>1, <1>7 DEF Chain
<1>9. Chain(req[p].head)' = {h, m, t}
  BY <1>3, <1>4, <1>5 DEF Chain
<1>10. DriverTypeOK'
  <2>1. avail' \in Seq(Desc)
    BY <1>0, <1>1, <1>3 DEF DriverTypeOK
  <2>2. req' \in [Proc -> Request \cup {Null}]
    BY <1>0, <1>1, <1>4, <1>5 DEF DriverTypeOK
  <2>3. info' \in [Desc -> Info \cup {NoInfo}]
    BY <1>0, <1>1, <1>4, <1>5 DEF DriverTypeOK
  <2>4. owned' \subseteq Buf /\ free' \subseteq Desc /\ desc' \in [Desc -> Desc \cup {Null}]
    BY <1>0, <1>1, <1>2, <1>3 DEF DriverTypeOK, Request
  <2> QED
    BY <2>1, <2>2, <2>3, <2>4, <1>0, <1>2 DEF DriverTypeOK, device
<1>11. RequestInv'
  <2> SUFFICES ASSUME NEW q \in Proc PROVE RequestOf(q)'
    BY DEF RequestInv
  <2>0. cur' = cur /\ pc' = pc /\ want' = want
    BY <1>2 DEF cvars
  <2>1. CASE q = p
    BY <2>0, <2>1, <1>2, <1>3, <1>4, <1>5 DEF RequestOf
  <2>2. CASE q # p
    BY <2>0, <2>2, <1>0, <1>4, <1>6, <1>7, <1>8 DEF RequestInv, RequestOf
  <2> QED
    BY <2>1, <2>2
<1>12. RingInv'
  <2>0. cur' = cur /\ inflight' = inflight /\ used' = used
    BY <1>2 DEF cvars, device
  <2>1. \A i : Asked(i) => Asked(i)' /\ i # h
    BY <2>0, <1>2, <1>6, <1>7, <1>8 DEF Asked
  <2>2. Asked(h)'
    BY <2>0, <1>2, <1>3, <1>5, <1>6 DEF Asked
  <2>3. h \notin Range(avail) /\ h \notin inflight /\ h \notin Range(used)
    BY <2>1, <1>0 DEF RingInv
  <2>4. Range(avail') = Range(avail) \cup {h} /\ IsInjective(avail')
    BY <2>3, <1>0, <1>1, <1>3, AppendFacts DEF RingInv, DriverTypeOK
  <2>5. \A i \in Range(used) : info'[i].done
    <3> SUFFICES ASSUME NEW i \in Range(used) PROVE info'[i].done
      OBVIOUS
    <3>1. PICK q \in Proc : Submitted(q) /\ req[q].head = i
      BY <1>0 DEF RingInv, Asked
    <3> QED
      BY <3>1, <1>0, <1>8 DEF RingInv
  <2> QED
    BY <2>0, <2>1, <2>2, <2>3, <2>4, <2>5, <1>0 DEF RingInv
<1>13. DescriptorsAccounted'
  <2>1. ASSUME NEW q \in Proc, NEW r \in Proc, Submitted(q)', Submitted(r)', q # r
        PROVE  Chain(req[q].head)' \cap Chain(req[r].head)' = {}
    <3>1. \A s \in Proc \ {p} : Submitted(s)' =>
            Submitted(s) /\ Chain(req[s].head)' = Chain(req[s].head)
                         /\ Chain(req[s].head) \cap {h, m, t} = {}
      BY <1>6, <1>7, <1>8
    <3> QED
      BY <3>1, <2>1, <1>0, <1>9, ChainFacts
  <2>2. ASSUME NEW i \in Desc, i \notin free'
        PROVE  \E q \in Proc : Submitted(q)' /\ i \in Chain(req[q].head)'
    <3>1. CASE i \in {h, m, t}
      BY <3>1, <1>6, <1>9
    <3>2. CASE i \notin {h, m, t}
      <4>1. PICK q \in Proc : Submitted(q) /\ i \in Chain(req[q].head)
        BY <3>2, <2>2, <1>0, <1>1, ChainFacts
      <4>2. Submitted(q)' /\ i \in Chain(req[q].head)'
        BY <4>1, <1>6, <1>7, <1>8
      <4> QED
        BY <4>2
    <3> QED
      BY <3>1, <3>2
  <2>3. ASSUME NEW q \in Proc, Submitted(q)'
        PROVE  Chain(req[q].head)' \subseteq Desc \ free'
    <3>1. CASE q = p
      BY <3>1, <1>1, <1>3, <1>9
    <3>2. CASE q # p
      <4>1. Submitted(q) /\ Chain(req[q].head)' = Chain(req[q].head)
        BY <2>3, <3>2, <1>6, <1>8
      <4>2. Chain(req[q].head) \subseteq Desc /\ Chain(req[q].head) \cap free = {}
        BY <4>1, <1>0, ChainFacts
      <4> QED
        BY <4>1, <4>2, <1>1
    <3> QED
      BY <3>1, <3>2
  <2> QED
    BY <2>1, <2>2, <2>3, AccountedAfter
<1>14. DriverSleepsForCause'
  <2>1. \A q \in Proc : dpc[q] # "freesleep"
    <3>1. IsFiniteSet(Desc)
      BY FS_Interval DEF Desc
    <3>2. Cardinality(free) \in Nat
      BY <3>1, <1>0, FS_Subset, FS_CardinalityType DEF DriverTypeOK
    <3> QED
      BY <3>2, <1>0 DEF DriverInv, DriverSleepsForCause, Submit
  <2>2. \A q \in Proc : dpc'[q] = "iosleep" => req'[q].b \in owned'
    <3>1. req'[p].b \in owned'
      BY <1>2, <1>3, <1>5
    <3>2. \A q \in Proc \ {p} : dpc'[q] = "iosleep" => req'[q].b \in owned'
      BY <1>0, <1>2, <1>4 DEF DriverInv, DriverSleepsForCause
    <3> QED
      BY <3>1, <3>2
  <2> QED
    BY <2>1, <2>2, <1>2, <1>4 DEF DriverSleepsForCause
<1>15. DriverInv'
  BY <1>0, <1>2, <1>10, <1>11, <1>12, <1>13, <1>14 DEF DriverInv
<1>16. \A q \in Proc : Transferred(q)' => Transferred(q)
  <2> SUFFICES ASSUME NEW q \in Proc, Transferred(q)' PROVE Transferred(q)
    OBVIOUS
  <2>0. cur' = cur /\ used' = used
    BY <1>2 DEF cvars
  <2>1. CASE q = p
    <3>1. h \notin Range(used)
      BY <1>0, <1>7 DEF RingInv, Asked
    <3> QED
      BY <3>1, <2>0, <2>1, <1>2, <1>3, <1>4, <1>5 DEF Transferred
  <2>2. CASE q # p
    BY <2>0, <2>2, <1>2, <1>4, <1>6 DEF Transferred
  <2> QED
    BY <2>1, <2>2
<1>17. CacheInv' /\ CleanInv'
  BY <1>0, <1>2, <1>16, CacheFrame, CleanFrame DEF device, CacheInv, CacheTypeOK
<1> QED
  BY <1>15, <1>17 DEF BcacheInv

\* virtio_disk_rw() returns: free_chain() gives back exactly the chain of the request.
LEMMA FinishInv ==
  ASSUME BcacheInv, NEW p \in Proc, Finish(p), UNCHANGED cvars
  PROVE  BcacheInv'
<1> USE VirtioAssumption
<1>0. CacheInv /\ DriverInv /\ CleanInv /\ DriverTypeOK /\ RequestInv /\ RingInv
  BY DEF BcacheInv, DriverInv
<1>1. PICK T : /\ T = Chain(req[p].head)
               /\ panicked' = (panicked \/ T \cap free # {})
               /\ free' = free \cup T
               /\ desc' = [i \in Desc |-> IF i \in T THEN Null ELSE desc[i]]
  BY DEF Finish
<1>2. /\ dpc[p] = "iowoken" /\ req[p].b \notin owned
      /\ info' = [info EXCEPT ![req[p].head] = NoInfo]
      /\ dpc' = [WakeFree(dpc) EXCEPT ![p] = "none"]
      /\ req' = [req EXCEPT ![p] = Null]
      /\ UNCHANGED <<device, data, owned, avail, handling, used, cvars>>
      /\ cur' = cur /\ pc' = pc /\ want' = want
  BY DEF Finish, cvars
<1>3. PICK h : h = req[p].head
  OBVIOUS
<1>4. Submitted(p) /\ h \in T /\ h \in Desc /\ T \subseteq Desc /\ T \cap free = {}
  <2>1. Submitted(p)
    BY <1>2 DEF Submitted
  <2>2. /\ req[p].head \in Desc /\ desc[req[p].head] \in Desc /\ desc[desc[req[p].head]] \in Desc
        /\ Chain(req[p].head) = {req[p].head, desc[req[p].head], desc[desc[req[p].head]]}
        /\ Chain(req[p].head) \cap free = {}
    BY <2>1, <1>0, ChainFacts
  <2> QED
    BY ONLY <2>1, <2>2, <1>1, <1>3
<1>5. /\ \A q \in Proc \ {p} : /\ dpc'[q] = IF dpc[q] = "freesleep" THEN "alloc" ELSE dpc[q]
                               /\ req'[q] = req[q]
                               /\ Submitted(q)' <=> Submitted(q)
      /\ dpc'[p] = "none" /\ ~Submitted(p)'
      /\ dpc' \in [Proc -> {"none", "alloc", "freesleep", "iosleep", "iowoken"}]
  BY <1>0, <1>2 DEF DriverTypeOK, WakeFree, Submitted
<1>6. \A q \in Proc \ {p} : Submitted(q) =>
        /\ req[q].head \in Desc \ T /\ desc[req[q].head] \in Desc \ T
        /\ desc[desc[req[q].head]] \in Desc \ T
        /\ Chain(req[q].head) \cap T = {}
  <2> SUFFICES ASSUME NEW q \in Proc \ {p}, Submitted(q)
               PROVE  /\ req[q].head \in Desc \ T /\ desc[req[q].head] \in Desc \ T
                      /\ desc[desc[req[q].head]] \in Desc \ T
                      /\ Chain(req[q].head) \cap T = {}
    OBVIOUS
  <2>1. /\ req[q].head \in Desc /\ desc[req[q].head] \in Desc /\ desc[desc[req[q].head]] \in Desc
        /\ Chain(req[q].head) = {req[q].head, desc[req[q].head], desc[desc[req[q].head]]}
    BY <1>0, ChainFacts
  <2>2. Chain(req[q].head) \cap T = {}
    BY <1>0, <1>1, <1>4, ChainFacts
  <2> QED
    BY ONLY <2>1, <2>2
<1>7. \A i \in Desc \ T : desc'[i] = desc[i] /\ info'[i] = info[i]
  BY <1>0, <1>1, <1>2, <1>3, <1>4 DEF DriverTypeOK
<1>8. \A q \in Proc \ {p} : Submitted(q) =>
        /\ desc'[req[q].head] = desc[req[q].head]
        /\ desc'[desc[req[q].head]] = desc[desc[req[q].head]]
        /\ info'[req[q].head] = info[req[q].head]
        /\ Chain(req[q].head)' = Chain(req[q].head)
  <2> SUFFICES ASSUME NEW q \in Proc \ {p}, Submitted(q)
               PROVE  /\ desc'[req[q].head] = desc[req[q].head]
                      /\ desc'[desc[req[q].head]] = desc[desc[req[q].head]]
                      /\ info'[req[q].head] = info[req[q].head]
                      /\ Chain(req[q].head)' = Chain(req[q].head)
    OBVIOUS
  <2>1. /\ desc'[req[q].head] = desc[req[q].head]
        /\ desc'[desc[req[q].head]] = desc[desc[req[q].head]]
        /\ info'[req[q].head] = info[req[q].head]
    BY <1>6, <1>7
  <2>2. req'[q] = req[q]
    BY <1>5
  <2> QED
    BY <2>1, <2>2 DEF Chain
<1>9. DriverTypeOK'
  <2>1. info' \in [Desc -> Info \cup {NoInfo}] /\ req' \in [Proc -> Request \cup {Null}]
    BY <1>0, <1>2 DEF DriverTypeOK
  <2>2. free' \subseteq Desc /\ desc' \in [Desc -> Desc \cup {Null}]
    BY <1>0, <1>1, <1>4 DEF DriverTypeOK
  <2> QED
    BY <2>1, <2>2, <1>0, <1>2, <1>5 DEF DriverTypeOK, device
<1>10. RequestInv'
  <2> SUFFICES ASSUME NEW q \in Proc PROVE RequestOf(q)'
    BY DEF RequestInv
  <2>1. CASE q = p
    BY <2>1, <1>5 DEF RequestOf
  <2>2. CASE q # p
    <3>1. /\ RequestOf(q) /\ req'[q] = req[q] /\ cur' = cur /\ pc' = pc /\ want' = want
          /\ (Submitted(q)' <=> Submitted(q)) /\ (dpc'[q] # "none" => dpc[q] # "none")
      BY <2>2, <1>0, <1>2, <1>5 DEF RequestInv
    <3>2. Submitted(q) => /\ desc'[req[q].head] = desc[req[q].head]
                          /\ desc'[desc[req[q].head]] = desc[desc[req[q].head]]
                          /\ info'[req[q].head] = info[req[q].head]
      BY <2>2, <1>8
    <3> QED
      BY ONLY <3>1, <3>2 DEF RequestOf
  <2> QED
    BY <2>1, <2>2
<1>11. RingInv'
  <2>1. req[p].b = cur[p]
    BY <1>0, <1>2 DEF RequestInv, RequestOf
  <2>2. \A i : Asked(i) => Asked(i)' /\ i \notin T
    BY <2>1, <1>2, <1>5, <1>6 DEF Asked
  <2>3. \A i \in Range(used) : info'[i].done
    <3> SUFFICES ASSUME NEW i \in Range(used) PROVE info'[i].done
      OBVIOUS
    <3>1. PICK q \in Proc : Submitted(q) /\ req[q].head = i /\ cur[q] \in owned
      BY <1>0 DEF RingInv, Asked
    <3> QED
      BY <3>1, <2>1, <1>0, <1>2, <1>8 DEF RingInv
  <2> QED
    BY <2>2, <2>3, <1>0, <1>2 DEF RingInv, device
<1>12. DescriptorsAccounted'
  <2>1. ASSUME NEW q \in Proc, NEW r \in Proc, Submitted(q)', Submitted(r)', q # r
        PROVE  Chain(req[q].head)' \cap Chain(req[r].head)' = {}
    <3>1. q # p /\ r # p /\ Submitted(q) /\ Submitted(r)
      BY <2>1, <1>5
    <3>2. /\ Chain(req[q].head)' = Chain(req[q].head)
          /\ Chain(req[r].head)' = Chain(req[r].head)
      BY <3>1, <1>8
    <3>3. Chain(req[q].head) \cap Chain(req[r].head) = {}
      BY <3>1, <2>1, <1>0, ChainFacts
    <3> QED
      BY ONLY <3>2, <3>3
  <2>2. ASSUME NEW i \in Desc, i \notin free'
        PROVE  \E q \in Proc : Submitted(q)' /\ i \in Chain(req[q].head)'
    <3>1. PICK q \in Proc : Submitted(q) /\ i \in Chain(req[q].head)
      BY <2>2, <1>0, <1>1, ChainFacts
    <3>2. q # p
      BY <3>1, <2>2, <1>1
    <3>3. Submitted(q)' /\ i \in Chain(req[q].head)'
      BY <3>1, <3>2, <1>5, <1>8
    <3> QED
      BY <3>3
  <2>3. ASSUME NEW q \in Proc, Submitted(q)'
        PROVE  Chain(req[q].head)' \subseteq Desc \ free'
    <3>1. q # p /\ Submitted(q) /\ Chain(req[q].head)' = Chain(req[q].head)
      BY <2>3, <1>5, <1>8
    <3>2. Chain(req[q].head) \subseteq Desc /\ Chain(req[q].head) \cap free = {}
      <4>1. /\ req[q].head \in Desc /\ desc[req[q].head] \in Desc
            /\ desc[desc[req[q].head]] \in Desc
            /\ Chain(req[q].head) = {req[q].head, desc[req[q].head], desc[desc[req[q].head]]}
            /\ Chain(req[q].head) \cap free = {}
        BY <3>1, <1>0, ChainFacts
      <4> QED
        BY ONLY <4>1
    <3>3. Chain(req[q].head) \cap T = {}
      BY <3>1, <1>6
    <3> QED
      BY ONLY <3>1, <3>2, <3>3, <1>1
  <2> QED
    BY <2>1, <2>2, <2>3, AccountedAfter
<1>13. DriverSleepsForCause'
  BY <1>0, <1>2, <1>5 DEF DriverInv, DriverSleepsForCause
<1>14. DriverInv'
  BY <1>0, <1>1, <1>4, <1>9, <1>10, <1>11, <1>12, <1>13 DEF DriverInv
<1>15. \A q \in Proc : Transferred(q)' => Transferred(q)
  <2>1. req[p].b = cur[p]
    BY <1>0, <1>2 DEF RequestInv, RequestOf
  <2> QED
    BY <2>1, <1>2, <1>4, <1>5 DEF Transferred
<1>16. CacheInv' /\ CleanInv'
  BY <1>0, <1>2, <1>15, CacheFrame, CleanFrame DEF device, CacheInv, CacheTypeOK
<1> QED
  BY <1>14, <1>16 DEF BcacheInv

-----------------------------------------------------------------------------
(* virtio_disk_intr and the device *)

\* Entering and leaving virtio_disk_intr() changes no request.
LEMMA HandlerInv ==
  ASSUME BcacheInv, UNCHANGED cvars, IntrStart \/ IntrEnd
  PROVE  BcacheInv'
<1>0. CacheInv /\ DriverInv /\ CleanInv
  BY DEF BcacheInv
<1>1. UNCHANGED <<content, inflight, data, owned, free, desc, info, avail, used, dpc, req,
                  panicked, cvars>>
      /\ cur' = cur /\ pc' = pc /\ want' = want
  BY DEF IntrStart, IntrEnd, device, cvars
<1>2. CacheInv'
  BY <1>0, <1>1, CacheFrame DEF CacheInv, CacheTypeOK
<1>3. CleanInv'
  BY <1>0, <1>1, CleanFrame DEF Transferred, Submitted
<1>4. DriverTypeOK'
  BY <1>0, <1>1 DEF DriverInv, DriverTypeOK
<1>5. RequestInv'
  BY <1>0, <1>1 DEF DriverInv, RequestInv, RequestOf, Submitted
<1>6. RingInv'
  BY <1>0, <1>1 DEF DriverInv, RingInv, Asked, Submitted
<1>7. DescriptorsAccounted' /\ DriverSleepsForCause'
  <2>1. \A q \in Proc : (Submitted(q)' <=> Submitted(q)) /\ req'[q] = req[q]
    BY <1>1 DEF Submitted
  <2> QED
    BY <2>1, <1>0, <1>1, AccountedFrame DEF DriverInv, DriverSleepsForCause
<1> QED
  BY <1>0, <1>1, <1>2, <1>3, <1>4, <1>5, <1>6, <1>7 DEF BcacheInv, DriverInv

\* virtio_disk_intr() handles a used entry: it wakes the process that asked, and only it.
LEMMA IntrEntryInv ==
  ASSUME BcacheInv, UNCHANGED cvars, IntrEntry
  PROVE  BcacheInv'
<1>0. CacheInv /\ DriverInv /\ CleanInv /\ DriverTypeOK /\ RequestInv /\ RingInv /\ HoldInv
  BY DEF BcacheInv, DriverInv, CacheInv
<1>1. PICK id, c : /\ id = Head(used) /\ c = info[id].b
                   /\ panicked' = (panicked \/ ~info[id].done)
                   /\ owned' = owned \ {c}
                   /\ dpc' = [q \in Proc |-> IF dpc[q] = "iosleep" /\ req[q].b = c
                                             THEN "iowoken" ELSE dpc[q]]
  BY DEF IntrEntry
<1>2. /\ used # <<>> /\ used' = Tail(used)
      /\ UNCHANGED <<device, data, free, desc, info, avail, handling, req, cvars>>
      /\ cur' = cur /\ pc' = pc /\ want' = want
  BY DEF IntrEntry, cvars
<1>3. /\ id \in Range(used) /\ used' \in Seq(Desc) /\ Range(used') = Range(used) \ {id}
      /\ IsInjective(used')
  BY <1>0, <1>1, <1>2, TailFacts DEF RingInv, DriverTypeOK
<1>4. PICK o \in Proc : Submitted(o) /\ req[o].head = id /\ cur[o] \in owned
  BY <1>0, <1>3 DEF RingInv, Asked
<1>5. c = cur[o] /\ info[id].done
  BY <1>0, <1>1, <1>3, <1>4 DEF RequestInv, RequestOf, RingInv
<1>6. \A q \in Proc : Submitted(q) /\ cur[q] = c => q = o
  BY <1>0, <1>4, <1>5, OneRequest
<1>7. \A q \in Proc : /\ (dpc'[q] = "none" <=> dpc[q] = "none")
                      /\ (Submitted(q)' <=> Submitted(q))
                      /\ (dpc'[q] = "freesleep" <=> dpc[q] = "freesleep")
                      /\ (dpc'[q] = "iosleep" => dpc[q] = "iosleep" /\ req[q].b # c)
  BY <1>1 DEF Submitted
<1>8. DriverTypeOK'
  <2>1. dpc' \in [Proc -> {"none", "alloc", "freesleep", "iosleep", "iowoken"}]
    BY <1>0, <1>1 DEF DriverTypeOK
  <2>2. owned' \subseteq Buf
    BY <1>0, <1>1 DEF DriverTypeOK
  <2> QED
    BY <2>1, <2>2, <1>0, <1>2, <1>3 DEF DriverTypeOK, device
<1>9. RequestInv'
  <2> SUFFICES ASSUME NEW q \in Proc PROVE RequestOf(q)'
    BY DEF RequestInv
  <2>1. RequestOf(q)
    BY <1>0 DEF RequestInv
  <2> QED
    BY <2>1, <1>2, <1>7 DEF RequestOf
<1>10. RingInv'
  <2>1. ASSUME NEW i, i # id, Asked(i) PROVE Asked(i)'
    <3>1. PICK q \in Proc : Submitted(q) /\ req[q].head = i /\ cur[q] \in owned
      BY <2>1 DEF Asked
    <3>2. cur[q] # c
      BY <3>1, <2>1, <1>4, <1>6
    <3> QED
      BY <3>1, <3>2, <1>1, <1>2, <1>7 DEF Asked
  <2>2. id \notin Range(avail) /\ id \notin inflight
    BY <1>0, <1>3 DEF RingInv
  <2> QED
    BY <2>1, <2>2, <1>0, <1>2, <1>3 DEF RingInv, device
<1>11. DescriptorsAccounted'
  BY <1>0, <1>2, <1>7, AccountedFrame DEF DriverInv
<1>12. DriverSleepsForCause'
  BY <1>0, <1>1, <1>2, <1>7 DEF DriverInv, DriverSleepsForCause
<1>13. DriverInv'
  BY <1>0, <1>1, <1>5, <1>8, <1>9, <1>10, <1>11, <1>12 DEF DriverInv
<1>14. \A q \in Proc : Transferred(q)' => Transferred(q)
  <2> SUFFICES ASSUME NEW q \in Proc, Transferred(q)' PROVE Transferred(q)
    OBVIOUS
  <2>1. CASE Submitted(q) /\ cur[q] = c
    BY <2>1, <1>3, <1>4, <1>6 DEF Transferred
  <2>2. CASE ~(Submitted(q) /\ cur[q] = c)
    BY <2>2, <1>1, <1>2, <1>3, <1>7 DEF Transferred
  <2> QED
    BY <2>1, <2>2
<1>15. CacheInv' /\ CleanInv'
  BY <1>0, <1>2, <1>14, CacheFrame, CleanFrame DEF device, CacheInv, CacheTypeOK
<1> QED
  BY <1>13, <1>15 DEF BcacheInv

\* The device takes a chain from the avail ring.
LEMMA DevFetchInv ==
  ASSUME BcacheInv, UNCHANGED cvars, DevFetch
  PROVE  BcacheInv'
<1>0. CacheInv /\ DriverInv /\ CleanInv /\ DriverTypeOK /\ RequestInv /\ RingInv
  BY DEF BcacheInv, DriverInv
<1>1. PICK h : /\ h = Head(avail) /\ avail # <<>> /\ avail' = Tail(avail)
               /\ inflight' = inflight \cup {h}
  BY DEF DevFetch
<1>2. /\ UNCHANGED <<content, irq, data, owned, free, desc, info, handling, used, dpc, req,
                     panicked, cvars>>
      /\ cur' = cur /\ pc' = pc /\ want' = want
  BY DEF DevFetch, cvars
<1>3. /\ h \in Range(avail) /\ h \in Desc /\ avail' \in Seq(Desc)
      /\ Range(avail') = Range(avail) \ {h} /\ IsInjective(avail')
  BY <1>0, <1>1, TailFacts DEF RingInv, DriverTypeOK
<1>4. DriverTypeOK'
  BY <1>0, <1>1, <1>2, <1>3 DEF DriverTypeOK
<1>5. RequestInv'
  BY <1>0, <1>2 DEF RequestInv, RequestOf, Submitted
<1>6. \A i : Asked(i)' <=> Asked(i)
  BY <1>2 DEF Asked, Submitted
<1>7. RingInv'
  BY <1>0, <1>1, <1>2, <1>3, <1>6 DEF RingInv
<1>8. DescriptorsAccounted' /\ DriverSleepsForCause'
  <2>1. \A q \in Proc : (Submitted(q)' <=> Submitted(q)) /\ req'[q] = req[q]
    BY <1>2 DEF Submitted
  <2> QED
    BY <2>1, <1>0, <1>2, AccountedFrame DEF DriverInv, DriverSleepsForCause
<1>9. CacheInv' /\ CleanInv'
  BY <1>0, <1>2, CacheFrame, CleanFrame DEF CacheInv, CacheTypeOK, Transferred, Submitted
<1> QED
  BY <1>0, <1>2, <1>4, <1>5, <1>7, <1>8, <1>9 DEF BcacheInv, DriverInv

\* The device copies between the block and the buffer of one request; it is alone at
\* both, because its process has the buffer's lock and no block has two buffers.
LEMMA DevCompleteInv ==
  ASSUME BcacheInv, UNCHANGED cvars, NEW i \in Desc, DevComplete(i)
  PROVE  BcacheInv'
<1>0. /\ CacheInv /\ DriverInv /\ CleanInv /\ DriverTypeOK /\ RequestInv /\ RingInv
      /\ HoldInv /\ CacheTypeOK
  BY DEF BcacheInv, DriverInv, CacheInv
<1>1. PICK o \in Proc : Submitted(o) /\ req[o].head = i /\ cur[o] \in owned
  BY <1>0 DEF DevComplete, RingInv, Asked
<1>2. PICK c, k : c = cur[o] /\ k = want[o]
  OBVIOUS
<1>3. /\ info[i] \in Info /\ info[i].b = c /\ info[i].blk = k
      /\ info[i].write <=> pc[o] = "writing"
      /\ pc[o] \in {"reading", "writing"}
      /\ c \in Buf /\ k \in Block /\ blockno[c] = k
  <2>1. /\ info[i] \in Info /\ info[i].b = c /\ info[i].blk = k
        /\ info[i].write <=> pc[o] = "writing"
    BY <1>0, <1>1, <1>2 DEF RequestInv, RequestOf
  <2>2. pc[o] \in {"reading", "writing"}
    BY <1>0, <1>1 DEF RequestInv, RequestOf, Submitted
  <2>3. c \in Buf /\ k \in Block /\ blockno[c] = k
    BY <2>2, <1>0, <1>2, CurOf
  <2> QED
    BY <2>1, <2>2, <2>3
<1>4. /\ info' = [info EXCEPT ![i].done = TRUE]
      /\ used' = Append(used, i) /\ inflight' = inflight \ {i} /\ i \in inflight
      /\ UNCHANGED <<owned, free, desc, avail, handling, dpc, req, panicked, cvars>>
      /\ cur' = cur /\ pc' = pc /\ want' = want
  BY DEF DevComplete, cvars
<1>5. /\ content' = IF info[i].write THEN [content EXCEPT ![k] = data[c]] ELSE content
      /\ data' = IF info[i].write THEN data ELSE [data EXCEPT ![c] = content[k]]
  BY <1>3 DEF DevComplete
<1>6. /\ info'[i] \in Info /\ info'[i].b = c /\ info'[i].blk = k /\ info'[i].done
      /\ info'[i].write <=> info[i].write
      /\ \A j \in Desc \ {i} : info'[j] = info[j]
  BY <1>0, <1>3, <1>4 DEF DriverTypeOK, Info
<1>7. content' \in [Block -> Value] /\ data' \in [Buf -> Value]
  BY <1>0, <1>3, <1>5 DEF CacheTypeOK
<1>8. CacheInv'
  BY <1>0, <1>4, <1>7, CacheFrame
<1>9. /\ i \notin Range(used) /\ i \notin Range(avail)
      /\ used' \in Seq(Desc) /\ Range(used') = Range(used) \cup {i} /\ IsInjective(used')
  <2>1. i \notin Range(used) /\ i \notin Range(avail)
    BY <1>0, <1>4 DEF RingInv
  <2> QED
    BY <2>1, <1>0, <1>4, AppendFacts DEF RingInv, DriverTypeOK
<1>10. DriverInv'
  <2>1. DriverTypeOK'
    BY <1>0, <1>4, <1>6, <1>9 DEF DriverTypeOK
  <2>2. RequestInv'
    <3> SUFFICES ASSUME NEW q \in Proc PROVE RequestOf(q)'
      BY DEF RequestInv
    <3>1. RequestOf(q) /\ (Submitted(q)' <=> Submitted(q))
      BY <1>0, <1>4 DEF RequestInv, Submitted
    <3>2. CASE Submitted(q) /\ req[q].head = i
      <4>1. q = o
        BY <3>2, <1>0, <1>1, OneAsker
      <4> QED
        BY <4>1, <3>1, <3>2, <1>2, <1>3, <1>4, <1>6 DEF RequestOf
    <3>3. CASE ~(Submitted(q) /\ req[q].head = i)
      BY <3>1, <3>3, <1>4, <1>6 DEF RequestOf
    <3> QED
      BY <3>2, <3>3
  <2>3. \A j : Asked(j)' <=> Asked(j)
    BY <1>4 DEF Asked, Submitted
  <2>4. \A j \in Range(used) : j \in Desc \ {i}
    BY <1>0, <1>9 DEF DriverTypeOK, Range
  <2>5. RingInv'
    BY <2>3, <2>4, <1>0, <1>4, <1>6, <1>9 DEF RingInv
  <2>6. DescriptorsAccounted' /\ DriverSleepsForCause'
    <3>1. \A q \in Proc : (Submitted(q)' <=> Submitted(q)) /\ req'[q] = req[q]
      BY <1>4 DEF Submitted
    <3> QED
      BY <3>1, <1>0, <1>4, AccountedFrame DEF DriverInv, DriverSleepsForCause
  <2> QED
    BY <2>1, <2>2, <2>5, <2>6, <1>0, <1>4 DEF DriverInv
<1>11. data'[c] = content'[k]
  BY <1>0, <1>3, <1>5 DEF CacheTypeOK
<1>12. /\ \A b \in Buf \ {c} : data'[b] = data[b]
       /\ \A j \in Block \ {k} : content'[j] = content[j]
  BY <1>0, <1>5 DEF CacheTypeOK
<1>13. UNCHANGED <<valid, pinned, blockno>>
  BY <1>4 DEF cvars, cache
<1>14. CleanInv'
  <2>1. ASSUME NEW q \in Proc, pc[q] \in {"reading", "writing"}, Transferred(q)'
        PROVE  data'[cur[q]] = content'[want[q]]
    <3>1. CASE q = o
      BY <3>1, <1>2, <1>11
    <3>2. CASE q # o
      <4>1. cur[q] # c
        BY <3>2, <2>1, <1>0, <1>2, <1>3, OneHolder DEF HasLock
      <4>2. cur[q] \in Buf /\ want[q] = blockno[cur[q]] /\ want[q] # Null /\ want[q] \in Block
        BY <2>1, <1>0, CurOf, VirtioAssumption
      <4>3. want[q] # k
        <5>1. \A b, d \in Buf : blockno[b] = blockno[d] /\ blockno[b] # Null => b = d
          BY <1>0 DEF HoldInv
        <5> QED
          BY ONLY <5>1, <4>1, <4>2, <1>3
      <4>4. Submitted(q) => req[q].head # i
        BY <3>2, <1>0, <1>1, OneAsker
      <4>5. Transferred(q)
        BY <4>4, <2>1, <1>4, <1>9 DEF Transferred, Submitted
      <4>6. data[cur[q]] = content[want[q]]
        BY <4>5, <2>1, <1>0 DEF CleanInv
      <4> QED
        BY <4>1, <4>2, <4>3, <4>6, <1>12
    <3> QED
      BY <3>1, <3>2
  <2>2. ASSUME NEW b \in valid \ pinned,
               \A q \in Proc : cur[q] = b => pc[q] \notin {"dirty", "writing"}
        PROVE  data'[b] = content'[blockno[b]]
    <3>1. CASE b = c
      BY <3>1, <1>3, <1>11
    <3>2. CASE b # c
      <4>1. b \in Buf /\ blockno[b] \in Block \ {k}
        <5>1. b \in Buf /\ blockno[b] # Null /\ blockno[b] \in Block \cup {Null}
          BY <1>0 DEF CacheTypeOK, CleanInv
        <5>2. \A d, e \in Buf : blockno[d] = blockno[e] /\ blockno[d] # Null => d = e
          BY <1>0 DEF HoldInv
        <5> QED
          BY ONLY <5>1, <5>2, <3>2, <1>3
      <4>2. data[b] = content[blockno[b]]
        BY <2>2, <1>0 DEF CleanInv
      <4> QED
        BY <4>1, <4>2, <3>2, <1>12
    <3> QED
      BY <3>1, <3>2
  <2> QED
    BY <2>1, <2>2, <1>0, <1>4, <1>13 DEF CleanInv
<1> QED
  BY <1>8, <1>10, <1>14 DEF BcacheInv
=============================================================================
