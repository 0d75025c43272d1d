------------------------------ MODULE Console -------------------------------
(***************************************************************************)
(* The console (console.c) on the UART (uart.c): processes that read lines *)
(* and write bytes, the interrupt handler that edits the input, echoes it  *)
(* and feeds the transmitter, and the UART itself.  Sent characters are    *)
(* only counted.  One UART interrupt is handled at a time: the PLIC does   *)
(* not raise the next before plic_complete().                              *)
(***************************************************************************)
EXTENDS Integers, FiniteSets, Sequences

CONSTANTS
  Reader, Writer,   \* processes in consoleread() and consolewrite()
  None,
  INPUT_BUF_SIZE,
  IndexMod,         \* r, w and e are unsigned: 2^32, a multiple of INPUT_BUF_SIZE
  UART_TX_BUF_SIZE,
  MaxRead           \* largest n of a read

ASSUME ConsoleAssumption ==
  /\ INPUT_BUF_SIZE \in Nat \ {0} /\ UART_TX_BUF_SIZE \in Nat /\ MaxRead \in Nat
  /\ IndexMod \in Nat \ {0} /\ IndexMod % INPUT_BUF_SIZE = 0 /\ IndexMod # INPUT_BUF_SIZE
  /\ None \notin Reader \cup Writer \cup {"x", "NL", "EOF", "BS", "KILL", "CTL", "intr"}
  /\ "intr" \notin Reader

VARIABLES
  buf, r, w, e,     \* struct cons
  conslock,         \* cons.lock: None, a reader or "intr"
  rd,               \* per reader: where it is, n, target, killed
  rhr,              \* the character in the receive register, or None
  thr,              \* characters in the transmit register (a FIFO)
  thre,             \* the transmitter asks for an interrupt
  tx,               \* uart_tx_w - uart_tx_r
  txlock,           \* uart_tx_lock
  wr,               \* per writer: where it is
  ih, echo          \* where uartintr() is; characters it still has to echo

inputvars == <<buf, r, w, e, conslock, rd>>
consvars == <<buf, r, w, e, conslock, rd, rhr, thr, thre, tx, txlock, wr, ih, echo>>

Keys == {"x", "NL", "EOF", "BS", "KILL", "CTL"}
Inc(i) == (i + 1) % IndexMod
Dec(i) == (i - 1) % IndexMod
Used(a, b) == (b - a) % IndexMod       \* unsigned b - a
Cell(i) == i % INPUT_BUF_SIZE
NotReading == [pc |-> "idle", n |-> 0, target |-> 0, killed |-> FALSE]

CInit ==
  /\ buf = [i \in 0 .. INPUT_BUF_SIZE - 1 |-> "x"] /\ r = 0 /\ w = 0 /\ e = 0
  /\ conslock = None /\ rd = [p \in Reader |-> NotReading]
  /\ rhr = None /\ thr = 0 /\ thre = FALSE /\ tx = 0 /\ txlock = None
  /\ wr = [q \in Writer |-> "idle"] /\ ih = "idle" /\ echo = 0

-----------------------------------------------------------------------------
(* consoleread(): cons.lock is held from one sleep() to the next.          *)

ReadStart(p) ==
  /\ rd[p].pc = "idle" /\ conslock = None
  /\ conslock' = p
  /\ \E n \in 1 .. MaxRead :
       rd' = [rd EXCEPT ![p] = [pc |-> "loop", n |-> n, target |-> n, killed |-> FALSE]]
  /\ UNCHANGED <<buf, r, w, e, rhr, thr, thre, tx, txlock, wr, ih, echo>>

\* The call returns.
Return(p) == conslock' = None /\ rd' = [rd EXCEPT ![p] = NotReading]

\* ^D after other characters is saved for the next read.
Pushback(p) == IF rd[p].n < rd[p].target THEN r ELSE Inc(r)

ReadByte(p) ==
  /\ rd[p].pc = "loop" /\ r # w
  /\ LET c == buf[Cell(r)]
     IN \/ c = "EOF" /\ r' = Pushback(p) /\ Return(p)
        \/ c # "EOF" /\ r' = Inc(r) /\ Return(p)      \* either_copyout() fails, or the last byte
        \/ /\ c \notin {"EOF", "NL"} /\ rd[p].n > 1
           /\ r' = Inc(r) /\ rd' = [rd EXCEPT ![p].n = @ - 1] /\ UNCHANGED conslock
  /\ UNCHANGED <<buf, w, e, rhr, thr, thre, tx, txlock, wr, ih, echo>>

ReadSleep(p) ==
  /\ rd[p].pc = "loop" /\ r = w
  /\ \/ rd[p].killed /\ Return(p)
     \/ ~rd[p].killed /\ conslock' = None /\ rd' = [rd EXCEPT ![p].pc = "asleep"]
  /\ UNCHANGED <<buf, r, w, e, rhr, thr, thre, tx, txlock, wr, ih, echo>>

\* sleep() returns with the lock.
ReadWake(p) ==
  /\ rd[p].pc = "woken" /\ conslock = None
  /\ conslock' = p /\ rd' = [rd EXCEPT ![p].pc = "loop"]
  /\ UNCHANGED <<buf, r, w, e, rhr, thr, thre, tx, txlock, wr, ih, echo>>

KillReader(p) ==
  /\ rd[p].pc # "idle" /\ ~rd[p].killed
  /\ rd' = [rd EXCEPT ![p].killed = TRUE, ![p].pc = IF @ = "asleep" THEN "woken" ELSE @]
  /\ UNCHANGED <<buf, r, w, e, conslock, rhr, thr, thre, tx, txlock, wr, ih, echo>>

-----------------------------------------------------------------------------
(* uartstart() and uartputc()                                              *)

WakeWriters == [q \in Writer |-> IF wr[q] = "asleep" THEN "put" ELSE wr[q]]

\* One round of uartstart(): it sends a byte, or ends.
StartSends ==
  /\ tx > 0 /\ thr = 0
  /\ tx' = tx - 1 /\ thr' = 1 /\ thre' = FALSE
  /\ wr' = WakeWriters /\ UNCHANGED <<txlock, ih>>
StartEnds ==
  /\ tx = 0 \/ thr > 0
  /\ thre' = (thre /\ tx > 0)          \* ReadReg(ISR) when the buffer is empty
  /\ txlock' = None /\ UNCHANGED <<tx, thr>>

WriteStart(q) ==
  /\ wr[q] = "idle"
  /\ wr' = [wr EXCEPT ![q] = "put"]
  /\ UNCHANGED <<inputvars, rhr, thr, thre, tx, txlock, ih, echo>>

\* Mutant: the byte waits for the next transmit interrupt.
uartputc_lazy(q) ==
  /\ wr[q] = "put" /\ txlock = None
  /\ \/ tx = UART_TX_BUF_SIZE /\ wr' = [wr EXCEPT ![q] = "asleep"] /\ UNCHANGED tx
     \/ tx < UART_TX_BUF_SIZE /\ tx' = tx + 1 /\ wr' = [wr EXCEPT ![q] = "idle"]
  /\ UNCHANGED <<inputvars, rhr, thr, thre, txlock, ih, echo>>

\* uartputc(): a full buffer puts the writer to sleep.
uartputc(q) ==
  /\ wr[q] = "put" /\ txlock = None
  /\ \/ tx = UART_TX_BUF_SIZE /\ wr' = [wr EXCEPT ![q] = "asleep"] /\ UNCHANGED <<tx, txlock>>
     \/ /\ tx < UART_TX_BUF_SIZE
        /\ tx' = tx + 1 /\ txlock' = q /\ wr' = [wr EXCEPT ![q] = "start"]
  /\ UNCHANGED <<inputvars, rhr, thr, thre, ih, echo>>

WriterSends(q) ==
  /\ wr[q] = "start"
  /\ \/ StartSends
     \/ StartEnds /\ wr' = [wr EXCEPT ![q] = "idle"] /\ UNCHANGED ih
  /\ UNCHANGED <<inputvars, rhr, echo>>

-----------------------------------------------------------------------------
(* uartintr() and consoleintr()                                            *)

\* devintr(): plic_claim() finds the UART.
Claim ==
  /\ ih = "idle" /\ (rhr # None \/ thre)
  /\ ih' = "rx"
  /\ UNCHANGED <<inputvars, rhr, thr, thre, tx, txlock, wr, echo>>

\* The character makes the input so far readable.
Commits(c, f) == c \in {"NL", "EOF"} \/ Used(r, f) = INPUT_BUF_SIZE

\* Mutant: erasing goes on into what is already readable.
Erased_committed(c) == IF c = "KILL" THEN r ELSE IF e # r THEN Dec(e) ELSE e

\* Where ^U and backspace leave e.
Erased(c) ==
  IF c = "KILL"
  THEN LET kept == {i \in 0 .. Used(w, e) :
                      i = 0 \/ buf[Cell((w + i - 1) % IndexMod)] = "NL"}
       IN (w + CHOOSE i \in kept : \A j \in kept : j <= i) % IndexMod
  ELSE IF e # w THEN Dec(e) ELSE e

WakeReaders == [p \in Reader |-> IF rd[p].pc = "asleep" THEN [rd[p] EXCEPT !.pc = "woken"] ELSE rd[p]]

\* consoleintr() of the character in the register.  It echoes under cons.lock, so that
\* what it stores is seen only after the echo.
consoleintr ==
  /\ ih = "rx" /\ rhr # None /\ conslock = None
  /\ conslock' = "intr" /\ ih' = "echo" /\ rhr' = None
  /\ LET erased == Erased(rhr)
         f == Inc(e)
     IN \/ /\ rhr \in {"BS", "KILL"}
           /\ e' = erased /\ echo' = Used(erased, e)   \* "\b \b" counts as one
           /\ UNCHANGED <<buf, r, w, rd>>
        \/ /\ rhr \in {"x", "NL", "EOF"} /\ Used(r, e) < INPUT_BUF_SIZE
           /\ buf' = [buf EXCEPT ![Cell(e)] = rhr] /\ e' = f /\ echo' = 1
           /\ IF Commits(rhr, f) THEN w' = f /\ rd' = WakeReaders ELSE UNCHANGED <<w, rd>>
           /\ UNCHANGED r
        \/ /\ rhr \in {"x", "NL", "EOF"} /\ Used(r, e) >= INPUT_BUF_SIZE
           /\ echo' = 0 /\ UNCHANGED <<buf, r, w, e, rd>>
        \/ /\ rhr = "CTL"   \* NUL is ignored; ^P prints the process list, here one byte
           /\ echo' \in {0, 1} /\ UNCHANGED <<buf, r, w, e, rd>>
  /\ UNCHANGED <<thr, thre, tx, txlock, wr>>

\* uartputc_sync(): it has seen an empty transmit register; then it writes to it.
EchoWait ==
  /\ ih = "echo" /\ echo > 0 /\ thr = 0
  /\ ih' = "echowrite"
  /\ UNCHANGED <<inputvars, rhr, thr, thre, tx, txlock, wr, echo>>
EchoWrite ==
  /\ ih = "echowrite"
  /\ thr' = thr + 1 /\ thre' = FALSE /\ echo' = echo - 1 /\ ih' = "echo"
  /\ UNCHANGED <<inputvars, rhr, tx, txlock, wr>>
EchoDone ==
  /\ ih = "echo" /\ echo = 0
  /\ conslock' = None /\ ih' = "rx"
  /\ UNCHANGED <<buf, r, w, e, rd, rhr, thr, thre, tx, txlock, wr, echo>>

\* No more input: send what is buffered, then plic_complete().
IntrTx ==
  /\ ih = "rx" /\ rhr = None /\ txlock = None
  /\ txlock' = "intr" /\ ih' = "tx"
  /\ UNCHANGED <<inputvars, rhr, thr, thre, tx, wr, echo>>
IntrSends ==
  /\ ih = "tx"
  /\ \/ StartSends
     \/ StartEnds /\ ih' = "idle" /\ UNCHANGED wr
  /\ UNCHANGED <<inputvars, rhr, echo>>

-----------------------------------------------------------------------------
(* The UART and its user                                                   *)

Key(c) ==
  /\ rhr = None
  /\ rhr' = c
  /\ UNCHANGED <<inputvars, thr, thre, tx, txlock, wr, ih, echo>>
Transmit ==
  /\ thr > 0
  /\ thr' = thr - 1 /\ thre' = (thre \/ thr = 1)
  /\ UNCHANGED <<inputvars, rhr, tx, txlock, wr, ih, echo>>

ReaderStep(p) == ReadByte(p) \/ ReadSleep(p) \/ ReadWake(p)
WriterStep(q) == uartputc(q) \/ WriterSends(q)
IntrStep == Claim \/ consoleintr \/ EchoWait \/ EchoWrite \/ EchoDone \/ IntrTx \/ IntrSends

CNext ==
  \/ \E p \in Reader : ReadStart(p) \/ ReaderStep(p) \/ KillReader(p)
  \/ \E q \in Writer : WriteStart(q) \/ WriterStep(q)
  \/ IntrStep \/ Transmit \/ \E c \in Keys : Key(c)

CSpec == CInit /\ [][CNext]_consvars

-----------------------------------------------------------------------------
\* What readers can still get.
Committed == [i \in 1 .. Used(r, w) |-> buf[Cell((r + i - 1) % IndexMod)]]

\* What a step may do to it: add at the end, or take the first.  A ^D leaves only with a
\* read that returns 0 bytes.
InputStep ==
  \/ /\ Len(Committed) <= Len(Committed')
     /\ \A i \in 1 .. Len(Committed) : Committed'[i] = Committed[i]
  \/ /\ Committed # <<>> /\ Committed' = Tail(Committed)
     /\ Head(Committed) = "EOF" =>
          \E p \in Reader : conslock = p /\ rd[p].n = rd[p].target

\* Typing never changes what was committed: editing stops at the last line, a full
\* buffer overwrites nothing, and input leaves only at the head.  A ^D leaves only
\* with a read that returns 0 bytes, so that every end-of-file is seen.
InputKept == [][InputStep]_consvars

\* A reader sleeps only while there is nothing to read, a writer only while the
\* transmit buffer is full; and a full input buffer is always readable, so a long line
\* cannot block the console.  Buffered output is never forgotten: while there is some,
\* the transmitter is busy or asks for an interrupt, or somebody is about to call
\* uartstart().  (Reading ISR in uartstart() and the echo writing to the register both
\* withdraw an interrupt.)
ConsoleAwake ==
  /\ \A p \in Reader : rd[p].pc = "asleep" => r = w
  /\ \A q \in Writer : wr[q] = "asleep" => tx = UART_TX_BUF_SIZE
  /\ Used(r, e) = INPUT_BUF_SIZE => r # w
  /\ tx > 0 => thr > 0 \/ thre \/ txlock # None \/ ih \in {"rx", "echo", "echowrite"}

\* What every step relies on.  r, w and e follow each other around the ring, at most
\* INPUT_BUF_SIZE apart.
RingInv ==
  /\ buf \in [0 .. INPUT_BUF_SIZE - 1 -> {"x", "NL", "EOF"}]
  /\ {r, w, e} \subseteq 0 .. IndexMod - 1
  /\ Used(r, w) + Used(w, e) = Used(r, e) /\ Used(r, e) <= INPUT_BUF_SIZE

\* cons.lock is held by the reader in the loop of consoleread(), or by consoleintr().
ReaderInv ==
  /\ conslock \in Reader \cup {None, "intr"} /\ rhr \in Keys \cup {None}
  /\ rd \in [Reader -> [pc : {"idle", "loop", "asleep", "woken"}, n : Nat, target : Nat,
                        killed : BOOLEAN]]
  /\ \A p \in Reader : /\ rd[p].pc = "loop" => conslock = p
                       /\ rd[p].n <= rd[p].target
  /\ conslock = "intr" <=> ih \in {"echo", "echowrite"}

SendInv ==
  /\ tx \in Nat /\ thr \in Nat /\ thre \in BOOLEAN /\ echo \in Nat
  /\ wr \in [Writer -> {"idle", "put", "asleep", "start"}]
  /\ ih \in {"idle", "rx", "echo", "echowrite", "tx"}
  /\ ih = "echowrite" => echo > 0

ConsoleInv == RingInv /\ ReaderInv /\ SendInv /\ ConsoleAwake
=============================================================================
