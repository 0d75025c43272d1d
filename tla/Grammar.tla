------------------------------ MODULE Grammar -------------------------------
(***************************************************************************)
(* The language that the shell's parser should accept, as a grammar on     *)
(* tokens, and the parser checked against it on every line that can be     *)
(* typed.                                                                  *)
(***************************************************************************)
EXTENDS Shell

CONSTANT
  MaxLine   \* longest line

VARIABLES
  typed,   \* the line so far
  parse    \* what parsecmd() makes of it

gvars == <<typed, parse>>

GInit == typed = <<>> /\ parse = parsecmd(<<>>)

\* getcmd(): gets() takes one more character; the line might end here.
Type(c) ==
  /\ Len(typed) < MaxLine
  /\ typed' = Append(typed, c)
  /\ parse' = parsecmd(typed')

GNext == \E c \in {"e"} \cup whitespace \cup symbols : Type(c)

-----------------------------------------------------------------------------
Tok(k, q, eq) == [k |-> k, word |-> <<q, eq>>]

\* A > that follows an odd number of > in a row is the second half of >>.
Second(t, i) ==
  /\ t[i] = ">"
  /\ (i - 1 - Max({0} \cup {j \in 1 .. i - 1 : t[j] # ">"})) % 2 = 1

\* The token that starts at position i.
Word(t, i, j) == \A k \in i .. j : At(t, k) \notin whitespace \cup symbols \cup {NUL}
TokenAt(t, i) ==
  CASE t[i] = ">" /\ i < Len(t) /\ t[i + 1] = ">" -> Tok("+", i, i + 2)
    [] Word(t, i, i) -> Tok("a", i, 1 + CHOOSE j \in i .. Len(t) : Word(t, i, j) /\ ~Word(t, i, j + 1))
    [] OTHER -> Tok(t[i], i, i + 1)

Tokens(t) ==
  LET start == {i \in 1 .. Len(t) : /\ t[i] \notin whitespace /\ ~Second(t, i)
                                    /\ i > 1 => ~Word(t, i - 1, i)}
  IN [n \in 1 .. Cardinality(start) |->
        TokenAt(t, CHOOSE i \in start : Cardinality({j \in start : j <= i}) = n)]

Redir == {"<", ">", "+"}
\* redirs ::= (redirection word)*
Redirs(w) ==
  IF Len(w) % 2 = 0 /\ \A i \in 1 .. Len(w) : w[i].k \in IF i % 2 = 1 THEN Redir ELSE {"a"}
  THEN {[i \in 1 .. Len(w) \div 2 |-> <<w[2*i - 1].k, w[2*i].word>>]} ELSE {}

\* simple ::= words, fewer than MAXARGS, and redirections, in any order
Simple(w) ==
  LET Arg(i) == w[i].k = "a" /\ (i = 1 \/ w[i - 1].k \notin Redir)
      args == {i \in 1 .. Len(w) : Arg(i)}
      Pick(set) == SetToSortSeq(set, <)
      reds == {i \in 1 .. Len(w) : w[i].k \in Redir}
  IN IF /\ \A i \in 1 .. Len(w) : w[i].k \in Redir \cup {"a"}
        /\ \A i \in reds : i < Len(w) /\ w[i + 1].k = "a"
        /\ Cardinality(args) < MAXARGS
     THEN {Wrap(execcmd([n \in 1 .. Cardinality(args) |-> w[Pick(args)[n]].word]),
                [n \in 1 .. Cardinality(reds) |->
                   <<w[Pick(reds)[n]].k, w[Pick(reds)[n] + 1].word>>])}
     ELSE {}

\* The trees of the tokens i .. j of w, by the rules
\*   exec ::= simple | ( line ) redirs        pipe ::= exec | exec '|' pipe
\*   back ::= pipe | back &                   line ::= back | back ; line
Trees(w) ==
  LET N == 1 .. Len(w) + 1
      At_(sym, i, j) == {m \in i .. j : w[m].k = sym}
      g[n \in {"exec", "pipe", "back", "line"} \X N \X (0 .. Len(w))] ==
        LET i == n[2]
            j == n[3]
        IN CASE n[1] = "exec" -> Simple(SubSeq(w, i, j)) \cup
                  UNION {{Wrap(c, r) : c \in g[<<"line", i + 1, m - 1>>], r \in Redirs(SubSeq(w, m + 1, j))}
                           : m \in IF i <= j /\ w[i].k = "(" THEN At_(")", i + 1, j) ELSE {}}
             [] n[1] = "pipe" -> g[<<"exec", i, j>>] \cup
                  UNION {{pipecmd(l, r) : l \in g[<<"exec", i, m - 1>>], r \in g[<<"pipe", m + 1, j>>]}
                           : m \in At_("|", i, j)}
             [] n[1] = "back" -> g[<<"pipe", i, j>>] \cup
                  (IF j \in At_("&", i, j) THEN {backcmd(c) : c \in g[<<"back", i, j - 1>>]} ELSE {})
             [] n[1] = "line" -> g[<<"back", i, j>>] \cup
                  UNION {{listcmd(l, r) : l \in g[<<"back", i, m - 1>>], r \in g[<<"line", m + 1, j>>]}
                           : m \in At_(";", i, j)}
  IN g[<<"line", 1, Len(w)>>]

\* The words of a command.
Words(c) == CASE c.type = "EXEC" -> Range(c.argv) [] c.type = "REDIR" -> {c.file} [] OTHER -> {}

\* Each argument and each file name, read as a C string, ends where its word ends.
WordsTerminated ==
  LET nul == nulterminate(typed, parse.cmd) \cup {Len(typed) + 1}
  IN \A w \in UNION {Words(c) : c \in Visited(parse.cmd, Len(typed))} :
       Min({i \in nul : i >= w[1]}) = w[2]

\* parsecmd() accepts exactly the lines of the grammar, and builds the one tree that
\* the grammar gives them: & and ; bind weaker than |, the last redirection is the
\* outermost, and argv[] always keeps room for its final 0.  nulterminate() then ends
\* every word, also one that a symbol followed without a space.
ParserCorrect ==
  /\ Trees(Tokens(typed)) = IF parse.ok THEN {parse.cmd} ELSE {}
  /\ parse.ok => WordsTerminated
=============================================================================
