-------------------------------- MODULE Pipe --------------------------------
(***************************************************************************)
(* A pipe (pipe.c) shared by writer and reader processes.  pi->lock is     *)
(* held from the start of a call to its end or its next sleep(); kill()    *)
(* does not take it, so a process may be killed between looking at         *)
(* killed() and going to sleep.  nread and nwrite wrap around like the     *)
(* code's uints.                                                           *)
(***************************************************************************)
EXTENDS Integers, Sequences, FiniteSets

CONSTANTS
  Writer, Reader,  \* the processes that have an end of the pipe open
  Byte, NoByte,
  Nobody,
  PIPESIZE,
  UintMod,         \* 2^32 in the code
  Sizes            \* the n of read() and write() calls

PipeProc == Writer \cup Reader

ASSUME PipeAssumption ==
  /\ PIPESIZE \in Nat \ {0}
  /\ UintMod \in Nat /\ UintMod % PIPESIZE = 0 /\ UintMod > PIPESIZE
  /\ Writer \cap Reader = {} /\ Nobody \notin PipeProc
  /\ NoByte \notin Byte
  /\ Sizes \subseteq Nat

VARIABLES
  data, nread, nwrite, readopen, writeopen,  \* struct pipe
  freed,   \* kfree(pi) was called
  holder,  \* pi->lock
  open,    \* processes whose end is open
  pc,      \* where each process is
  i, n,    \* locals of pipewrite() and piperead()
  killed,  \* p->killed
  taken    \* the byte taken out in the last step

pipe  == <<data, nread, nwrite>>
ends  == <<readopen, writeopen, freed, open>>
pipevars  == <<pipe, ends, holder, pc, i, n, killed, taken>>

\* Mutant: one byte too many.
PipeFull_off_by_one == nwrite = (nread + PIPESIZE + 1) % UintMod

PipeFull  == nwrite = (nread + PIPESIZE) % UintMod
Empty == nread = nwrite

\* Mutant: the readers are not woken.
WakeReaders_omitted(f) == f

\* wakeup(&pi->nread) and wakeup(&pi->nwrite), for processes described by f.
WakeReaders(f) == [p \in PipeProc |-> IF f[p] = "rsleep" THEN "rwake" ELSE f[p]]
WakeWriters(f) == [p \in PipeProc |-> IF f[p] = "wsleep" THEN "wwake" ELSE f[p]]

\* A pipe as pipealloc() makes it, once fork() has handed out its ends.
PipeInit ==
  /\ data \in [0 .. PIPESIZE - 1 -> Byte]
  /\ nread = 0 /\ nwrite = 0
  /\ readopen = TRUE /\ writeopen = TRUE
  /\ freed = FALSE
  /\ holder = Nobody
  /\ open = PipeProc
  /\ pc = [p \in PipeProc |-> "user"]
  /\ i = [p \in PipeProc |-> 0]
  /\ n = [p \in PipeProc |-> 0]
  /\ killed = [p \in PipeProc |-> FALSE]
  /\ taken = NoByte

\* What a step inside a call leaves alone.
Quiet == UNCHANGED <<ends, killed>>

\* Return from the call and release the lock; f describes everybody's pc.
PipeReturn(p, f) ==
  /\ pc' = [f EXCEPT ![p] = "user"]
  /\ i' = [i EXCEPT ![p] = 0]
  /\ n' = [n EXCEPT ![p] = 0]
  /\ holder' = Nobody

Goto(p, label) == pc' = [pc EXCEPT ![p] = label]

-----------------------------------------------------------------------------
\* read() or write() is called and takes the lock.
PipeCall(p, size) ==
  /\ pc[p] = "user" /\ p \in open /\ ~killed[p]
  /\ holder = Nobody
  /\ holder' = p
  /\ n' = [n EXCEPT ![p] = size]
  /\ Goto(p, IF p \in Writer THEN "write" ELSE "read")
  /\ taken' = NoByte
  /\ UNCHANGED <<pipe, i>> /\ Quiet

\* sleep() returns with the lock held again.
Resume(p) ==
  /\ pc[p] \in {"wwake", "rwake"}
  /\ holder = Nobody
  /\ holder' = p
  /\ Goto(p, IF p \in Writer THEN "write" ELSE "read")
  /\ taken' = NoByte
  /\ UNCHANGED <<pipe, i, n>> /\ Quiet

\* pipewrite(): everything is written.
WriteDone(p) ==
  /\ pc[p] = "write"
  /\ i[p] >= n[p]
  /\ PipeReturn(p, WakeReaders(pc))
  /\ taken' = NoByte
  /\ UNCHANGED pipe /\ Quiet

\* pipewrite(): nobody can read any more, or the writer was killed.
WriteAbort(p) ==
  /\ pc[p] = "write"
  /\ i[p] < n[p]
  /\ ~readopen \/ killed[p]
  /\ PipeReturn(p, pc)
  /\ taken' = NoByte
  /\ UNCHANGED pipe /\ Quiet

\* pipewrite(): go on with the loop body.
WriteGoOn(p) ==
  /\ pc[p] = "write"
  /\ i[p] < n[p]
  /\ readopen /\ ~killed[p]
  /\ Goto(p, "put")
  /\ taken' = NoByte
  /\ UNCHANGED <<pipe, holder, i, n>> /\ Quiet

\* pipewrite(): the pipe is full, wake the readers and sleep.
WriteSleep(p) ==
  /\ pc[p] = "put"
  /\ PipeFull
  /\ pc' = [WakeReaders(pc) EXCEPT ![p] = "wsleep"]
  /\ holder' = Nobody
  /\ taken' = NoByte
  /\ UNCHANGED <<pipe, i, n>> /\ Quiet

\* pipewrite(): copy one byte in.
WriteByte(p, ch) ==
  /\ pc[p] = "put"
  /\ ~PipeFull
  /\ data' = [data EXCEPT ![nwrite % PIPESIZE] = ch]
  /\ nwrite' = (nwrite + 1) % UintMod
  /\ i' = [i EXCEPT ![p] = @ + 1]
  /\ Goto(p, "write")
  /\ taken' = NoByte
  /\ UNCHANGED <<nread, holder, n>> /\ Quiet

\* pipewrite(): copyin() fails.
WriteFault(p) ==
  /\ pc[p] = "put"
  /\ ~PipeFull
  /\ PipeReturn(p, WakeReaders(pc))
  /\ taken' = NoByte
  /\ UNCHANGED pipe /\ Quiet

-----------------------------------------------------------------------------
\* piperead(): there is nothing to read and the reader was killed.
ReadAbort(p) ==
  /\ pc[p] = "read"
  /\ Empty /\ writeopen
  /\ killed[p]
  /\ PipeReturn(p, pc)
  /\ taken' = NoByte
  /\ UNCHANGED pipe /\ Quiet

\* piperead(): there is nothing to read, so wait ...
ReadWait(p) ==
  /\ pc[p] = "read"
  /\ Empty /\ writeopen
  /\ ~killed[p]
  /\ Goto(p, "wait")
  /\ taken' = NoByte
  /\ UNCHANGED <<pipe, holder, i, n>> /\ Quiet

\* ... in sleep(&pi->nread, &pi->lock).
ReadSleep(p) ==
  /\ pc[p] = "wait"
  /\ Goto(p, "rsleep")
  /\ holder' = Nobody
  /\ taken' = NoByte
  /\ UNCHANGED <<pipe, i, n>> /\ Quiet

\* piperead(): there is data, or the end of it.
ReadStart(p) ==
  /\ pc[p] = "read"
  /\ ~Empty \/ ~writeopen
  /\ Goto(p, "copy")
  /\ taken' = NoByte
  /\ UNCHANGED <<pipe, holder, i, n>> /\ Quiet

\* piperead(): take one byte out; copyout() may fail, which ends the call.
ReadByte(p, fault) ==
  /\ pc[p] = "copy"
  /\ i[p] < n[p] /\ ~Empty
  /\ taken' = data[nread % PIPESIZE]
  /\ nread' = (nread + 1) % UintMod
  /\ IF fault
     THEN PipeReturn(p, WakeWriters(pc))
     ELSE /\ i' = [i EXCEPT ![p] = @ + 1]
          /\ UNCHANGED <<pc, holder, n>>
  /\ UNCHANGED <<data, nwrite>> /\ Quiet

\* piperead(): enough bytes, or no more of them.
ReadDone(p) ==
  /\ pc[p] = "copy"
  /\ i[p] >= n[p] \/ Empty
  /\ PipeReturn(p, WakeWriters(pc))
  /\ taken' = NoByte
  /\ UNCHANGED pipe /\ Quiet

-----------------------------------------------------------------------------
\* fileclose(), by close() or by exit(): drop a reference to this end; whoever
\* drops the last one goes on to pipeclose().
FileClose(p) ==
  /\ pc[p] = "user" /\ p \in open
  /\ open' = open \ {p}
  /\ LET End == IF p \in Writer THEN Writer ELSE Reader
     IN IF open' \cap End = {} THEN Goto(p, "closing") ELSE UNCHANGED pc
  /\ taken' = NoByte
  /\ UNCHANGED <<pipe, readopen, writeopen, freed, holder, i, n, killed>>

\* Mutant: one closed end is enough to free the pipe.
unused_either(r, w) == ~r \/ ~w

\* pipeclose() frees a pipe that has neither end open.
unused(r, w) == ~r /\ ~w

\* pipeclose().
PipeClose(p) ==
  /\ pc[p] = "closing"
  /\ holder = Nobody
  /\ writeopen' = (writeopen /\ p \notin Writer)
  /\ readopen' = (readopen /\ p \notin Reader)
  /\ pc' = [(IF p \in Writer THEN WakeReaders(pc) ELSE WakeWriters(pc))
              EXCEPT ![p] = "user"]
  /\ freed' = unused(readopen', writeopen')
  /\ taken' = NoByte
  /\ UNCHANGED <<pipe, open, holder, i, n, killed>>

\* kill(): mark the process and make it RUNNABLE if it sleeps.
Kill(p) ==
  /\ p \in open /\ ~killed[p]
  /\ killed' = [killed EXCEPT ![p] = TRUE]
  /\ pc' = CASE pc[p] = "rsleep" -> [pc EXCEPT ![p] = "rwake"]
             [] pc[p] = "wsleep" -> [pc EXCEPT ![p] = "wwake"]
             [] OTHER -> pc
  /\ taken' = NoByte
  /\ UNCHANGED <<pipe, ends, holder, i, n>>

WriteStep(p) ==
  \/ WriteDone(p) \/ WriteAbort(p) \/ WriteGoOn(p) \/ WriteSleep(p)
  \/ WriteFault(p)
  \/ \E ch \in Byte : WriteByte(p, ch)

ReadStep(p) ==
  \/ ReadAbort(p) \/ ReadWait(p) \/ ReadSleep(p) \/ ReadStart(p) \/ ReadDone(p)
  \/ \E fault \in BOOLEAN : ReadByte(p, fault)

PipeNext ==
  \E p \in PipeProc :
    \/ \E size \in Sizes : PipeCall(p, size)
    \/ Resume(p) \/ FileClose(p) \/ PipeClose(p) \/ Kill(p)
    \/ WriteStep(p) \/ ReadStep(p)

PipeSpec == PipeInit /\ [][PipeNext]_pipevars

-----------------------------------------------------------------------------
InTransit == (nwrite - nread) % UintMod

FIFO == INSTANCE BoundedFIFO WITH
          Capacity <- PIPESIZE,
          queue <- [k \in 1 .. InTransit |-> data[(nread + k - 1) % PIPESIZE]]

\* The ring buffer is a bounded queue, also when nread and nwrite wrap around:
\* no byte is overwritten, duplicated or reordered, whoever reads and writes.
RefinesFIFO == FIFO!Spec

\* No wakeup is lost: a writer sleeps only while the pipe is full or a reader is
\* about to wake it, a reader only while it is empty or a writer is about to; and
\* nobody sleeps once the other end is closed.  The exception is what pipewrite()
\* does when its process is killed: it returns without waking the readers.
NoLostWakeup ==
  \A p \in PipeProc :
    /\ pc[p] = "wsleep" => /\ readopen
                           /\ PipeFull \/ holder \in Reader
    /\ pc[p] = "rsleep" => /\ writeopen
                           /\ \/ Empty \/ holder \in Writer
                              \/ \E q \in Writer : killed[q]

\* What the calls rely on, from which NoLostWakeup, NoUseAfterFree and RefinesFIFO follow.
InPipeCall == {"write", "put", "read", "wait", "copy"}  \* labels with pi->lock held
WriterLabels == {"write", "put", "wsleep", "wwake"}
ReaderLabels == {"read", "wait", "copy", "rsleep", "rwake"}

PipeTypeOK ==
  /\ data \in [0 .. PIPESIZE - 1 -> Byte]
  /\ nread \in 0 .. UintMod - 1 /\ nwrite \in 0 .. UintMod - 1
  /\ readopen \in BOOLEAN /\ writeopen \in BOOLEAN /\ freed \in BOOLEAN
  /\ holder \in PipeProc \cup {Nobody}
  /\ open \subseteq PipeProc
  /\ pc \in [PipeProc -> {"user", "closing"} \cup WriterLabels \cup ReaderLabels]
  /\ i \in [PipeProc -> Nat] /\ n \in [PipeProc -> Nat]
  /\ killed \in [PipeProc -> BOOLEAN]
  /\ taken \in Byte \cup {NoByte}

\* A call holds the lock, and is made by a process with an open end of its kind.
CallInv ==
  \A p \in PipeProc :
    /\ pc[p] \in InPipeCall <=> holder = p
    /\ pc[p] \in WriterLabels => p \in Writer /\ p \in open
    /\ pc[p] \in ReaderLabels => p \in Reader /\ p \in open

\* An end counts as open until its last user is through pipeclose().
EndInv ==
  /\ \A p \in PipeProc : p \in open \/ pc[p] = "closing" =>
       (p \in Writer => writeopen) /\ (p \in Reader => readopen)
  /\ \A p, q \in PipeProc : pc[p] = "closing" /\ (p \in Writer <=> q \in Writer) =>
       q \notin open /\ (pc[q] = "closing" => p = q)
  /\ freed => ~readopen /\ ~writeopen

\* What a call has seen stays true while it holds the lock; who sleeps has a cause.
SleepInv ==
  \A p \in PipeProc :
    /\ pc[p] = "put" => readopen
    /\ pc[p] = "wait" => Empty /\ writeopen
    /\ pc[p] = "wsleep" => /\ readopen
                           /\ PipeFull \/ \E r \in Reader : pc[r] = "copy"
    /\ pc[p] = "rsleep" => /\ writeopen
                           /\ \/ Empty \/ \E w \in Writer : pc[w] \in {"write", "put"}
                              \/ \E q \in Writer : killed[q]

PipeInv == PipeTypeOK /\ CallInv /\ EndInv /\ SleepInv /\ InTransit <= PIPESIZE

\* pipeclose() frees the pipe only when no call is using it.
NoUseAfterFree == freed => \A p \in PipeProc : pc[p] = "user"
=============================================================================
