------------------------------- MODULE Shell --------------------------------
(***************************************************************************)
(* The shell's parser (sh.c).  A line is a sequence of characters, a       *)
(* position an index into it, and the character past its end is NUL.  A    *)
(* word is its <<q, eq>> span, as in struct execcmd.  Every parse function *)
(* yields the command, the position it leaves in *ps, and whether it       *)
(* returned (ok) or called panic().                                        *)
(***************************************************************************)
EXTENDS Naturals, Sequences, SequencesExt

CONSTANT MAXARGS

NUL == "NUL"
whitespace == {" "}
symbols == {"<", "|", ">", "&", ";", "(", ")"}

At(t, s) == IF s > Len(t) THEN NUL ELSE t[s]

\* The loops of gettoken() and peek(): the first position from s on whose character
\* is not in set.
Skip(t, s, set) ==
  CHOOSE e \in s .. Len(t) + 1 : At(t, e) \notin set /\ \A i \in s .. e - 1 : At(t, i) \in set
WordEnd(t, s) ==
  CHOOSE e \in s .. Len(t) + 1 :
    /\ At(t, e) \in whitespace \cup symbols \cup {NUL}
    /\ \A i \in s .. e - 1 : At(t, i) \notin whitespace \cup symbols

gettoken(t, ps) ==
  LET q == Skip(t, ps, whitespace)
      c == At(t, q)
      ret == CASE c = ">" /\ At(t, q + 1) = ">" -> "+"
               [] c \in symbols \cup {NUL} /\ ~(c = ">" /\ At(t, q + 1) = ">") -> c
               [] OTHER -> "a"
      eq == CASE ret = NUL -> q [] ret = "+" -> q + 2 [] ret \in symbols -> q + 1
              [] OTHER -> WordEnd(t, q)
  IN [c |-> c, ret |-> ret, word |-> <<q, eq>>, s |-> Skip(t, eq, whitespace)]

\* The token at each position, and the character that peek() finds there.
Lex(t) == [s \in 1 .. Len(t) + 1 |-> gettoken(t, s)]

peek(k, ps, toks) == k[ps].c \in toks

Panicked == [ok |-> FALSE, cmd |-> NUL, s |-> 0]
Parsed(cmd, s) == [ok |-> TRUE, cmd |-> cmd, s |-> s]

execcmd(argv) == [type |-> "EXEC", argv |-> argv]
redircmd(sub, file, mode, fd) ==
  [type |-> "REDIR", cmd |-> sub, file |-> file, mode |-> mode, fd |-> fd]
pipecmd(left, right) == [type |-> "PIPE", left |-> left, right |-> right]
listcmd(left, right) == [type |-> "LIST", left |-> left, right |-> right]
backcmd(sub) == [type |-> "BACK", cmd |-> sub]

\* parseredirs(): the redirection each symbol stands for, around cmd.
Redirect(cmd, tok, file) ==
  CASE tok = "<" -> redircmd(cmd, file, "rdonly", 0)
    [] tok = ">" -> redircmd(cmd, file, "create|trunc", 1)
    [] tok = "+" -> redircmd(cmd, file, "create", 1)

\* The redirections met so far, outermost last.
Wrap(cmd, redirs) == FoldLeft(LAMBDA c, r : Redirect(c, r[1], r[2]), cmd, redirs)

\* The functions below take the parser p itself, for its recursive calls (p[f, s] is what
\* f yields at position s), and the tokens k of the line.

\* parseredirs(): the redirections from s on, to be put around a command.
parseredirs(p, k, s) ==
  LET tok == k[s]
      file == k[tok.s]
      rest == p["redirs", file.s]
  IN CASE ~peek(k, s, {"<", ">"}) -> Parsed(<<>>, s)
       [] OTHER -> IF file.ret = "a" /\ rest.ok
                   THEN Parsed(<<<<tok.ret, file.word>>>> \o rest.cmd, rest.s) ELSE Panicked

\* parseexec()'s loop: the words and redirections from s on.
ParseArgs(p, k, s) ==
  LET tok == k[s]
      redirs == p["redirs", tok.s]
      rest == p["args", redirs.s]
  IN CASE peek(k, s, {"|", ")", "&", ";"}) \/ tok.ret = NUL ->
            Parsed([argv |-> <<>>, redirs |-> <<>>], tok.word[1])
       [] OTHER -> IF tok.ret = "a" /\ redirs.ok /\ rest.ok
                   THEN Parsed([argv |-> <<tok.word>> \o rest.cmd.argv,
                                redirs |-> redirs.cmd \o rest.cmd.redirs], rest.s)
                   ELSE Panicked

\* Mutant: the arguments are counted only after the array is full.
TooMany_late(argv) == Len(argv) > MAXARGS

TooMany(argv) == Len(argv) >= MAXARGS

parseblock(p, k, s) ==
  LET line == p["line", k[s].s]
      close == k[line.s]
      redirs == p["redirs", close.s]
  IN IF line.ok /\ close.ret = ")" /\ redirs.ok
     THEN Parsed(Wrap(line.cmd, redirs.cmd), redirs.s) ELSE Panicked

parseexec(p, k, s) ==
  LET redirs == p["redirs", s]
      args == p["args", redirs.s]
  IN CASE peek(k, s, {"("}) -> parseblock(p, k, s)
       [] OTHER -> IF redirs.ok /\ args.ok /\ ~TooMany(args.cmd.argv)
                   THEN Parsed(Wrap(execcmd(args.cmd.argv), redirs.cmd \o args.cmd.redirs), args.s)
                   ELSE Panicked

parsepipe(p, k, s) ==
  LET left == p["exec", s]
      right == p["pipe", k[left.s].s]
  IN CASE ~left.ok \/ ~peek(k, left.s, {"|"}) -> left
       [] OTHER -> IF right.ok THEN Parsed(pipecmd(left.cmd, right.cmd), right.s) ELSE Panicked

\* parseline(): each & puts a background command around what came before.
parseline(p, k, s) ==
  LET pipe == p["pipe", s]
      backs[n \in DOMAIN k] ==
        IF n = 1 THEN pipe
        ELSE LET b == backs[n - 1]
             IN IF peek(k, b.s, {"&"}) THEN Parsed(backcmd(b.cmd), k[b.s].s) ELSE b
      left == backs[Len(k)]
      right == p["line", k[left.s].s]
  IN CASE ~pipe.ok -> Panicked
       [] pipe.ok /\ ~peek(k, left.s, {";"}) -> left
       [] OTHER -> IF right.ok THEN Parsed(listcmd(left.cmd, right.cmd), right.s) ELSE Panicked

ParseWith(k) ==
  LET p[n \in {"line", "pipe", "exec", "args", "redirs"} \X DOMAIN k] ==
        CASE n[1] = "line" -> parseline(p, k, n[2])
          [] n[1] = "pipe" -> parsepipe(p, k, n[2])
          [] n[1] = "exec" -> parseexec(p, k, n[2])
          [] n[1] = "args" -> ParseArgs(p, k, n[2])
          [] n[1] = "redirs" -> parseredirs(p, k, n[2])
      line == p[<<"line", 1>>]
  IN IF line.ok /\ k[line.s].word[1] = Len(k) THEN line ELSE Panicked

parsecmd(t) == ParseWith(Lex(t))

\* The commands inside cmd, itself included: what nulterminate()'s recursion visits.
Parts(c) ==
  CASE c.type \in {"PIPE", "LIST"} -> {c.left, c.right}
    [] c.type \in {"REDIR", "BACK"} -> {c.cmd}
    [] c.type = "EXEC" -> {}
Visited(cmd, depth) ==
  LET level[n \in 0 .. depth] ==
        IF n = 0 THEN {cmd} ELSE level[n - 1] \cup UNION {Parts(c) : c \in level[n - 1]}
  IN level[depth]

Ends(c) ==
  CASE c.type = "EXEC" -> {w[2] : w \in Range(c.argv)}
    [] c.type = "REDIR" -> {c.file[2]}
    [] OTHER -> {}

\* nulterminate(): the positions that become NUL.  No tree is deeper than its line is long.
nulterminate(t, cmd) == UNION {Ends(c) : c \in Visited(cmd, Len(t))}
=============================================================================
