------------------------------- MODULE Virtio -------------------------------
(***************************************************************************)
(* The disk driver (virtio_disk.c) and the device it talks to.  A process  *)
(* in virtio_disk_rw() allocates three descriptors, puts their chain into  *)
(* the available ring and sleeps; the device takes requests from the ring, *)
(* completes them in any order and interrupts; virtio_disk_intr() walks    *)
(* the used ring.  The driver's state changes under vdisk_lock only, so a  *)
(* critical section is one step, except that the device runs in the middle *)
(* of the interrupt handler's loop.                                        *)
(***************************************************************************)
EXTENDS Naturals, Sequences, FiniteSetsExt

CONSTANTS
  Proc,     \* processes that do block I/O
  Buf,      \* struct bufs
  Block,    \* disk blocks
  Value,    \* contents of a block
  Null,     \* the null pointer
  NUM       \* descriptors, and entries of each ring

Desc == 0 .. NUM - 1

ASSUME VirtioAssumption ==
  /\ NUM \in Nat /\ NUM >= 3
  /\ Null \notin Buf \cup Desc \cup Block

VARIABLES
  content,   \* the device: contents of every block
  inflight,  \* the device: heads of the chains it works on
  irq,       \* the device asks for an interrupt
  data,      \* b->data
  owned,     \* buffers with b->disk = 1
  free,      \* descriptors with disk.free[i] = 1
  desc,      \* the next descriptor of a chain, Null without VRING_DESC_F_NEXT
  info,      \* per head: disk.info[i] and disk.ops[i]
  avail,     \* disk.avail: the entries the device has not read yet
  used,      \* disk.used: the entries from used_idx to used->idx
  handling,  \* virtio_disk_intr() holds vdisk_lock
  dpc,       \* per process: where it is in virtio_disk_rw()
  req,       \* per process: its arguments
  panicked   \* panic() was called

device == <<content, inflight, irq>>
driver == <<owned, free, desc, info, avail, handling>>
vvars  == <<device, data, driver, used, dpc, req, panicked>>

NoInfo == [b |-> Null, done |-> FALSE]

\* virtio_disk_init(): zeroed rings and NUM unused descriptors.
VInit ==
  /\ content \in [Block -> Value]
  /\ inflight = {} /\ irq = FALSE
  /\ \E v \in Value : data = [b \in Buf |-> v]
  /\ owned = {}
  /\ free = Desc
  /\ desc = [i \in Desc |-> Null]
  /\ info = [i \in Desc |-> NoInfo]
  /\ avail = <<>>
  /\ used = <<>>
  /\ handling = FALSE
  /\ dpc = [p \in Proc |-> "none"]
  /\ req = [p \in Proc |-> Null]
  /\ panicked = FALSE

\* wakeup(&disk.free[0])
WakeFree(f) == [p \in Proc |-> IF f[p] = "freesleep" THEN "alloc" ELSE f[p]]

-----------------------------------------------------------------------------
(* The driver *)

\* alloc_desc() three times: the lowest free descriptors.
Lowest(S, k) == CHOOSE T \in kSubset(k, S) : \A i \in T, j \in S \ T : i < j

\* virtio_disk_rw(b, write) is called.
Rw(p, b, blk, write) ==
  /\ dpc' = [dpc EXCEPT ![p] = "alloc"]
  /\ req' = [req EXCEPT ![p] = [b |-> b, blk |-> blk, write |-> write, head |-> Null]]

\* alloc3_desc() fails: it frees what it got, which wakes the others that wait
\* for descriptors, and virtio_disk_rw() sleeps.
AllocFail(p) ==
  /\ dpc[p] = "alloc" /\ ~handling
  /\ Cardinality(free) < 3
  /\ dpc' = [(IF free = {} THEN dpc ELSE WakeFree(dpc)) EXCEPT ![p] = "freesleep"]
  /\ UNCHANGED <<device, data, driver, used, req, panicked>>

\* virtio_disk_rw() gets its descriptors, makes the chain, tells the device and
\* sleeps on the buffer.
Submit(p) ==
  /\ dpc[p] = "alloc" /\ ~handling
  /\ Cardinality(free) >= 3
  /\ LET T == Lowest(free, 3)
         head == Min(T)
         third == Max(T)
         second == CHOOSE i \in T : i \notin {head, third}
     IN /\ free' = free \ T
        /\ desc' = [desc EXCEPT ![head] = second, ![second] = third, ![third] = Null]
        /\ info' = [info EXCEPT ![head] = [b |-> req[p].b, done |-> FALSE,
                                           blk |-> req[p].blk, write |-> req[p].write]]
        /\ avail' = Append(avail, head)
        /\ req' = [req EXCEPT ![p].head = head]
  /\ owned' = owned \cup {req[p].b}
  /\ dpc' = [dpc EXCEPT ![p] = "iosleep"]
  /\ UNCHANGED <<device, data, handling, used, panicked>>

\* The sleeper on b looks at b->disk again, and finds the request unfinished.
SleepAgain(p) ==
  /\ dpc[p] = "iowoken" /\ ~handling
  /\ req[p].b \in owned
  /\ dpc' = [dpc EXCEPT ![p] = "iosleep"]
  /\ UNCHANGED <<device, data, driver, used, req, panicked>>

\* free_chain(i) follows the next fields.
Chain(i) == {i} \cup IF desc[i] = Null THEN {}
                      ELSE {desc[i]} \cup ({desc[desc[i]]} \ {Null})

\* The request is done: free_chain(), wake the others, return.  free_desc()
\* panics on a descriptor that is free already.
Finish(p) ==
  /\ dpc[p] = "iowoken" /\ ~handling
  /\ req[p].b \notin owned
  /\ LET T == Chain(req[p].head)
     IN /\ panicked' = (panicked \/ T \cap free # {})
        /\ free' = free \cup T
        /\ desc' = [i \in Desc |-> IF i \in T THEN Null ELSE desc[i]]
  /\ info' = [info EXCEPT ![req[p].head] = NoInfo]
  /\ dpc' = [WakeFree(dpc) EXCEPT ![p] = "none"]
  /\ req' = [req EXCEPT ![p] = Null]
  /\ UNCHANGED <<device, data, owned, avail, handling, used>>

\* virtio_disk_intr(): acknowledge the interrupt.
IntrStart ==
  /\ irq /\ ~handling
  /\ irq' = FALSE
  /\ handling' = TRUE
  /\ UNCHANGED <<content, inflight, data, owned, free, desc, info, avail,
                 used, dpc, req, panicked>>

\* virtio_disk_intr(): one entry of the used ring.  
IntrEntry ==
  /\ handling
  /\ used # <<>>
  /\ LET id == Head(used)
         b == info[id].b
     IN /\ panicked' = (panicked \/ ~info[id].done)
        /\ owned' = owned \ {b}
        /\ dpc' = [p \in Proc |-> IF dpc[p] = "iosleep" /\ req[p].b = b
                                  THEN "iowoken" ELSE dpc[p]]
  /\ used' = Tail(used)
  /\ UNCHANGED <<device, data, free, desc, info, avail, handling, req>>

\* Mutant: the handler leaves after one entry.
IntrEnd_early ==
  /\ handling
  /\ handling' = FALSE
  /\ UNCHANGED <<device, data, owned, free, desc, info, avail, used, dpc,
                 req, panicked>>

\* virtio_disk_intr(): the used ring is exhausted.
IntrEnd ==
  /\ handling
  /\ used = <<>>
  /\ handling' = FALSE
  /\ UNCHANGED <<device, data, owned, free, desc, info, avail, used, dpc,
                 req, panicked>>

-----------------------------------------------------------------------------
(* The device, as the driver relies on it *)

\* It reads the next entry of the available ring.
DevFetch ==
  /\ avail # <<>>
  /\ inflight' = inflight \cup {Head(avail)}
  /\ avail' = Tail(avail)
  /\ UNCHANGED <<content, irq, data, owned, free, desc, info, handling,
                 used, dpc, req, panicked>>

\* It transfers one of the fetched requests, in any order, writes the status,
\* adds an entry to the used ring and raises the interrupt.
DevComplete(i) ==
  /\ i \in inflight
  /\ LET r == info[i]
     IN /\ content' = IF r.write THEN [content EXCEPT ![r.blk] = data[r.b]] ELSE content
        /\ data' = IF r.write THEN data ELSE [data EXCEPT ![r.b] = content[r.blk]]
  /\ info' = [info EXCEPT ![i].done = TRUE]
  /\ used' = Append(used, i)
  /\ inflight' = inflight \ {i}
  /\ irq' = TRUE
  /\ UNCHANGED <<owned, free, desc, avail, handling, dpc, req,
                 panicked>>

\* kill() wakes a sleeping process, whatever it sleeps on.
KillInIO(p) ==
  /\ dpc[p] \in {"freesleep", "iosleep"}
  /\ dpc' = [dpc EXCEPT ![p] = IF @ = "freesleep" THEN "alloc" ELSE "iowoken"]
  /\ UNCHANGED <<device, data, driver, used, req, panicked>>

Device == DevFetch \/ \E i \in Desc : DevComplete(i)
Intr == IntrStart \/ IntrEntry \/ IntrEnd

Drive(p) == AllocFail(p) \/ Submit(p) \/ SleepAgain(p) \/ Finish(p)

-----------------------------------------------------------------------------
(* The driver on its own: processes that read blocks into different buffers. *)

BufOf == CHOOSE f \in [Proc -> Buf] : \A p, q \in Proc : p # q => f[p] # f[q]

Call(p) ==
  /\ dpc[p] = "none"
  /\ \E blk \in Block : Rw(p, BufOf[p], blk, FALSE)
  /\ UNCHANGED <<device, data, driver, used, panicked>>

DriverNext ==
  \/ \E p \in Proc : Call(p) \/ Drive(p) \/ KillInIO(p)
  \/ Device \/ Intr

\* A process sleeps in the driver only for what is still missing: descriptors, or
\* the completion of its own request.  Neither a completion handled by the
\* interrupt of another request nor a failed alloc3_desc() loses a wakeup
\* (free_desc(), alloc3_desc(), virtio_disk_intr()).
DriverSleepsForCause ==
  \A p \in Proc :
    /\ dpc[p] = "freesleep" => Cardinality(free) < 3
    /\ dpc[p] = "iosleep" => req[p].b \in owned

\* p has a request in the rings, or has not yet freed its descriptors.
Submitted(p) == dpc[p] \in {"iosleep", "iowoken"}

\* Every descriptor is free or in the chain of exactly one request, also after
\* failed allocations (alloc_desc(), free_chain()).
DescriptorsAccounted ==
  LET busy == {p \in Proc : Submitted(p)}
  IN /\ \A p, q \in busy : p # q => Chain(req[p].head) \cap Chain(req[q].head) = {}
     /\ Desc \ free = UNION {Chain(req[p].head) : p \in busy}

\* A request that the driver has given to the device returns, whatever the order
\* in which the device completes requests and however they share interrupts.
IOReturns == \A p \in Proc : dpc[p] = "iosleep" ~> dpc[p] = "none"
=============================================================================
