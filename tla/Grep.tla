-------------------------------- MODULE Grep --------------------------------
(***************************************************************************)
(* grep (grep.c): the matcher, and the loop that cuts the input into lines *)
(* however read() delivers it.                                             *)
(***************************************************************************)
EXTENDS Naturals, Sequences, SequencesExt, FiniteSetsExt

CONSTANTS
  BufSize,   \* sizeof(buf)
  MaxRe,     \* longest pattern
  MaxIn      \* longest input

NL == "NL"
End == "NUL"
Upto(set, n) == UNION {[1 .. k -> set] : k \in 0 .. n}

VARIABLES
  re,      \* argv[1]
  input,   \* the file, of which pos characters are read
  pos,
  gbuf,     \* the m characters of buf
  out,     \* what has been written
  done     \* grep() has returned

grepvars == <<re, input, pos, gbuf, out, done>>

GrInit == re = <<>> /\ input = <<>> /\ pos = 0 /\ gbuf = <<>> /\ out = <<>> /\ done = TRUE

\* main(): a pattern and a file (none has been given before).
Main ==
  /\ done /\ re = <<>> /\ input = <<>>
  /\ re' \in Upto({"a", ".", "*", "^", "$"}, MaxRe) /\ input' \in Upto({"a", "b", NL}, MaxIn)
  /\ pos' = 0 /\ gbuf' = <<>> /\ out' = <<>> /\ done' = FALSE

Ch(s, i) == IF i > Len(s) THEN End ELSE s[i]

\* matchstar(): where the text can go on after c*.
StarEnds(r, i, t, j) ==
  {k \in j .. Len(t) + 1 : \A m \in j .. k - 1 : r[i] \in {".", t[m]}}

\* matchhere(): the pattern from i on matches at the beginning of the text from j on.
matchhere(r, t) ==
  LET here[n \in (1 .. Len(r) + 1) \X (1 .. Len(t) + 1)] ==
        LET i == n[1]
            j == n[2]
        IN CASE i > Len(r) -> TRUE
             [] i <= Len(r) /\ Ch(r, i + 1) = "*" -> \E k \in StarEnds(r, i, t, j) : here[<<i + 2, k>>]
             [] OTHER -> \/ i = Len(r) /\ r[i] = "$" /\ j > Len(t)
                         \/ /\ ~(i = Len(r) /\ r[i] = "$")
                            /\ j <= Len(t) /\ r[i] \in {".", Ch(t, j)}
                            /\ here[<<i + 1, j + 1>>]
  IN here

match(r, t) ==
  IF Ch(r, 1) = "^" THEN matchhere(r, t)[<<2, 1>>]
  ELSE \E j \in 1 .. Len(t) + 1 : matchhere(r, t)[<<1, j>>]

\* Mutant: what follows the last newline is not kept for the next read.
Keep_none(b) == <<>>

\* memmove(buf, p, m): what follows the last newline stays.
Keep(b) == SubSeq(b, 1 + Max({0} \cup {i \in DOMAIN b : b[i] = NL}), Len(b))

\* The lines of s that end, with their newline.
LinesOf(s) ==
  LET ends == SetToSortSeq({i \in DOMAIN s : s[i] = NL}, <)
  IN [n \in DOMAIN ends |-> SubSeq(s, IF n = 1 THEN 1 ELSE ends[n - 1] + 1, ends[n])]

\* One round of grep()'s loop: read() returns some of what is left.
Read ==
  /\ ~done
  /\ \E n \in 1 .. Min({BufSize - Len(gbuf) - 1, Len(input) - pos}) :
       LET b == gbuf \o SubSeq(input, pos + 1, pos + n)
       IN /\ out' = out \o SelectSeq(LinesOf(b), LAMBDA l : match(re, Front(l)))
          /\ gbuf' = Keep(b)
          /\ pos' = pos + n
  /\ UNCHANGED <<re, input, done>>

\* read() returns 0: the end of the file, or no room for another character.
ReadEnd ==
  /\ ~done /\ (pos = Len(input) \/ Len(gbuf) = BufSize - 1)
  /\ done' = TRUE
  /\ UNCHANGED <<re, input, pos, gbuf, out>>

GrNext == Main \/ Read \/ ReadEnd

-----------------------------------------------------------------------------
(* What a pattern means: a list of units, each a character or any          *)
(* character, perhaps repeated, which cut the text between them.           *)

\* The positions of r (after ^) where a unit starts: x* takes two characters.
UnitStarts(r) ==
  LET at[i \in 0 .. Len(r)] == i > 0 /\ (i = 1 \/ (IF i > 2 /\ at[i - 2] /\ r[i - 1] = "*" THEN TRUE
                                              ELSE at[i - 1] /\ r[i] # "*"))
  IN {i \in 1 .. Len(r) : at[i]}

\* Unit i of r spans the text from a up to b.
Spans(r, i, t, a, b) ==
  /\ a <= b /\ \A m \in a .. b - 1 : r[i] \in {".", t[m]}
  /\ Ch(r, i + 1) # "*" => b = a + 1

\* Some cut of the text gives every unit its span, from the start if r begins with ^,
\* to the end if its last unit is a plain $.
Means(pattern, t) ==
  LET anchored == Ch(pattern, 1) = "^"
      r == IF anchored THEN Tail(pattern) ELSE pattern
      starts == SetToSortSeq(UnitStarts(r), <)
      dollar == starts # <<>> /\ Last(starts) = Len(r) /\ r[Len(r)] = "$"
      units == IF dollar THEN Front(starts) ELSE starts
  IN \E cut \in [1 .. Len(units) + 1 -> 1 .. Len(t) + 1] :
       /\ \A u \in DOMAIN units : Spans(r, units[u], t, cut[u], cut[u + 1])
       /\ anchored => cut[1] = 1
       /\ dollar => cut[Len(units) + 1] = Len(t) + 1

\* grep writes exactly the lines that the pattern means, in order, wherever the reads
\* cut them; and it reads the input to the end unless a line does not fit in buf.
GrepExact ==
  /\ out = SelectSeq(LinesOf(SubSeq(input, 1, pos)), LAMBDA l : Means(re, Front(l)))
  /\ done /\ pos < Len(input) => \E i \in 0 .. Len(input) - BufSize + 1 :
       \A j \in i + 1 .. i + BufSize - 1 : input[j] # NL
=============================================================================
