------------------------------ MODULE Strings -------------------------------
(***************************************************************************)
(* Byte-level routines that the rest relies on: memmove() of the kernel    *)
(* and of the user library (string.c, ulib.c), the path elements of        *)
(* skipelem() with the directory names that strncpy() and strncmp() store  *)
(* and compare (fs.c), and numbers printed and read back (printf.c,        *)
(* atoi()).                                                                *)
(***************************************************************************)
EXTENDS Integers, Sequences, SequencesExt, FiniteSetsExt

CONSTANTS
  MemSize,    \* bytes of memory for memmove()
  DIRSIZ,     \* longest name in a directory
  MaxPath,    \* longest path
  Width       \* bits of an int

Zero == "NUL"

VARIABLES
  mem, moved,          \* memory; the last move as [was, d, s, n]
  path, left, name,    \* a path, what namex() has left of it, its name[] buffer
  entries,             \* de.name of the entries made from its elements
  number, printed      \* an int and what printint() writes of it

memvars == <<mem, moved>>
namevars == <<path, left, name, entries>>
numvars == <<number, printed>>

-----------------------------------------------------------------------------
\* Byte by byte, in the order given by the sequence of offsets.
Bytes(m, d, s, order) == FoldLeft(LAMBDA x, i : [x EXCEPT ![d + i] = x[s + i]], m, order)
Up(n) == [i \in 1 .. n |-> i - 1]
Down(n) == [i \in 1 .. n |-> n - i]

kmemmove(m, d, s, n) == Bytes(m, d, s, IF s < d /\ s + n > d THEN Down(n) ELSE Up(n))
umemmove(m, d, s, n) == Bytes(m, d, s, IF s > d THEN Up(n) ELSE Down(n))

Move(d, s, n) ==
  /\ d + n <= MemSize + 1 /\ s + n <= MemSize + 1
  /\ mem' \in {kmemmove(mem, d, s, n), umemmove(mem, d, s, n)}
  /\ moved' = [was |-> mem, d |-> d, s |-> s, n |-> n]

MoveInit ==
  mem = [i \in 1 .. MemSize |-> i] /\ moved = [was |-> mem, d |-> 1, s |-> 1, n |-> 0]
MoveNext == \E d, s \in 1 .. MemSize, n \in 0 .. MemSize : Move(d, s, n)

-----------------------------------------------------------------------------
\* The loops of skipelem().
SkipSlashes(p) ==
  SubSeq(p, 1 + Max({0} \cup {i \in DOMAIN p : \A j \in 1 .. i : p[j] = "/"}), Len(p))
ElemLen(p) == Max({0} \cup {i \in DOMAIN p : \A j \in 1 .. i : p[j] # "/"})

\* What skipelem() leaves in name[]: what lies after the NUL is old.
SetName(old, e) ==
  [i \in 1 .. DIRSIZ |-> IF i <= Len(e) THEN e[i] ELSE IF i = Len(e) + 1 THEN Zero ELSE old[i]]

\* strncpy(de.name, name, DIRSIZ): the rest of the entry is zeroed.
strncpy(t) == [i \in 1 .. DIRSIZ |-> IF \E j \in 1 .. i : t[j] = Zero THEN Zero ELSE t[i]]

\* strncmp(p, q, DIRSIZ) = 0
namecmp(p, q) ==
  \E n \in 0 .. DIRSIZ : /\ \A i \in 1 .. n : p[i] = q[i] /\ p[i] # Zero
                         /\ n = DIRSIZ \/ (p[n + 1] = Zero /\ q[n + 1] = Zero)

\* One round of namex(): skipelem() takes an element, and dirlink() would store it.
Skipelem ==
  LET p == SkipSlashes(left)
      e == SubSeq(p, 1, ElemLen(p))
  IN /\ p # <<>>
     /\ name' = SetName(name, e)
     /\ left' = SkipSlashes(SubSeq(p, Len(e) + 1, Len(p)))
     /\ entries' = Append(entries, strncpy(name'))
     /\ UNCHANGED path

\* namex() starts on a path; name[] is on the stack and holds what was there.
Namex ==
  /\ SkipSlashes(left) = <<>>
  /\ path' \in UNION {[1 .. n -> {"/", "a", "b"}] : n \in 0 .. MaxPath}
  /\ left' = path' /\ entries' = <<>> /\ UNCHANGED name

NameInit ==
  path = <<>> /\ left = <<>> /\ name = [i \in 1 .. DIRSIZ |-> Zero] /\ entries = <<>>
NameNext == Namex \/ Skipelem

-----------------------------------------------------------------------------
\* printint(): uint x = xx < 0 ? -xx : xx
Magnitude(xx) == (IF xx < 0 THEN -xx ELSE xx) % 2^Width

\* The digits, lowest first in buf[], are written from the end; at least one.
Digits(x) ==
  LET count == Min({n \in 1 .. Width : x < 10^n})
  IN [i \in 1 .. count |-> (x \div 10^(count - i)) % 10]
Minus == 10   \* '-', as opposed to the digits 0 .. 9
printint(xx) == (IF xx < 0 THEN <<Minus>> ELSE <<>>) \o Digits(Magnitude(xx))

\* An int after a computation that may overflow.
Int_(n) == ((n + 2^(Width - 1)) % 2^Width) - 2^(Width - 1)

\* atoi(): an int made of the digits up to the first other character.
atoi(s) ==
  LET count == Max({0} \cup {i \in DOMAIN s : \A j \in 1 .. i : s[j] \in 0 .. 9})
  IN FoldLeft(LAMBDA n, c : Int_(n * 10 + c), 0, SubSeq(s, 1, count))

NumInit == number = 0 /\ printed = printint(0)

\* The next int is printed.
Count ==
  /\ number' = IF number = 2^(Width - 1) - 1 THEN -(2^(Width - 1)) ELSE number + 1
  /\ printed' = printint(number')

-----------------------------------------------------------------------------
\* After either memmove() the destination is what the source was and nothing else has
\* changed, however the two overlap.
MoveExact ==
  mem = [i \in 1 .. MemSize |->
           IF i \in moved.d .. moved.d + moved.n - 1 THEN moved.was[i - moved.d + moved.s]
           ELSE moved.was[i]]

\* The elements of a path: what lies between slashes.
Elements(p) ==
  LET starts == SetToSortSeq({i \in DOMAIN p : p[i] # "/" /\ (i = 1 \/ p[i - 1] = "/")}, <)
  IN [k \in DOMAIN starts |->
        LET rest == SubSeq(p, starts[k], Len(p)) IN SubSeq(rest, 1, ElemLen(rest))]
Short(e) == SubSeq(e, 1, Min({Len(e), DIRSIZ}))

\* The k-th round of namex() sees the k-th element of the path, cut to DIRSIZ; and
\* dirlookup() with the name[] of this round, old bytes behind the NUL included, finds
\* the entry that dirlink() made from an earlier element exactly if the two have the same
\* first DIRSIZ characters.
NamesResolve ==
  LET elements == [k \in DOMAIN Elements(path) |-> Short(Elements(path)[k])]
      round == Len(entries)
  IN /\ round <= Len(elements)
     /\ SkipSlashes(left) = <<>> => round = Len(elements)
     /\ \A k \in 1 .. round :
          /\ namecmp(name, entries[k]) <=> elements[round] = elements[k]
          /\ SelectSeq(entries[k], LAMBDA c : c # Zero) = elements[k]

\* The number a decimal text stands for.
Denotes(s) ==
  LET sign == IF s[1] = Minus THEN -1 ELSE 1
      place(i) == 10^(Len(s) - i)
  IN sign * MapThenSumSet(LAMBDA i : IF s[i] = Minus THEN 0 ELSE s[i] * place(i), DOMAIN s)

\* Every int, the smallest included, is printed as the shortest text of its value; and
\* atoi(), which knows no sign, reads back the printed numbers that have none and makes
\* 0 of the others.
PrintExact ==
  /\ Denotes(printed) = number
  /\ Head(printed) = 0 => printed = <<0>>
  /\ atoi(printed) = Max({number, 0})
\* The small routines compute what they are for, whatever the overlap, the length of a
\* name or the sign of a number.
StringsExact == MoveExact /\ NamesResolve /\ PrintExact
=============================================================================
