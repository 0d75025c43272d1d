------------------------------ MODULE ShellRun ------------------------------
(***************************************************************************)
(* init and the shell at work (init.c, main() and runcmd() of sh.c): the   *)
(* processes they fork, the pipes between them, and who waits for whom.    *)
(* Commands are the trees of the parser.  What the programs do is the      *)
(* least a pipeline can show: "e" writes a byte to its output, "c" copies  *)
(* its input until the end.                                                *)
(***************************************************************************)
EXTENDS Shell

CONSTANTS
  NTask,     \* process slots
  NPipe,     \* pipes that exist at once
  PipeSize,  \* bytes a pipe holds
  Sessions   \* what is typed, and in how many slots: [lines, slots]

Task == 1 .. NTask
Fds == 0 .. 4
init == 1

VARIABLES
  task,    \* the process in each slot: its state, command, buf, descriptors, parent,
           \* and for init the shell it has started; or Empty
  bytes,   \* bytes in each pipe
  session, \* one of Sessions
  failed   \* some fork() or pipe() has failed

rvars == <<task, bytes, session, failed>>

none == <<"none", 0>>
con == <<"con", 0>>
file == <<"file", 0>>
Rend(n) == <<"r", n>>
Wend(n) == <<"w", n>>

Empty ==
  [st |-> "unused", cmd |-> NUL, buf |-> <<>>, fd |-> [f \in Fds |-> none], parent |-> 0, sh |-> 0]
Console == [f \in Fds |-> IF f <= 2 THEN con ELSE none]

RInit ==
  /\ task = [p \in Task |-> IF p = init THEN [Empty EXCEPT !.st = "boot", !.fd = Console] ELSE Empty]
  /\ bytes = [n \in 1 .. NPipe |-> 0] /\ failed = FALSE /\ session \in Sessions

Open(end) == \E p \in Task, f \in Fds : task[p].fd[f] = end
Unused == {p \in 1 .. session.slots : task[p].st = "unused"}
Children(p) == {c \in Task : task[c].st # "unused" /\ task[c].parent = p}

\* p goes on as t.
Becomes(p, t) == task' = [task EXCEPT ![p] = t] /\ UNCHANGED <<bytes, session, failed>>
Go(p, st) == Becomes(p, [task[p] EXCEPT !.st = st])
Run(p, cmd) == Becomes(p, [task[p] EXCEPT !.st = "run", !.cmd = cmd])

\* exit(): files closed, children given to init, a zombie until the parent waits.
Exited(p) ==
  [c \in Task |-> IF c = p THEN [Empty EXCEPT !.st = "zombie", !.parent = task[p].parent]
                  ELSE IF c \in Children(p) THEN [task[c] EXCEPT !.parent = init] ELSE task[c]]
exit(p) == task' = Exited(p) /\ UNCHANGED <<bytes, session, failed>>
panic(p) == task' = Exited(p) /\ failed' = TRUE /\ UNCHANGED <<bytes, session>>

\* fork1(): the child starts at st with cmd, the parent goes on at next.
fork1(p, st, cmd, next) ==
  \/ /\ Unused # {}
     /\ LET c == Min(Unused)
        IN task' = [task EXCEPT
             ![c] = [task[p] EXCEPT !.st = st, !.cmd = cmd, !.parent = p],
             ![p].st = next, ![p].sh = IF p = init THEN c ELSE 0]
     /\ UNCHANGED <<bytes, session, failed>>
  \/ Unused = {} /\ panic(p)

\* wait(): some zombie child z is reaped, or there is no child (z = 0); p goes on
\* at next[z].
wait(p, next) ==
  \/ \E z \in Children(p) :
       /\ task[z].st = "zombie"
       /\ task' = [task EXCEPT ![z] = Empty, ![p].st = next[z]]
       /\ UNCHANGED <<bytes, session, failed>>
  \/ Children(p) = {} /\ Go(p, next[0])
Then(p, st) == [z \in Children(p) \cup {0} |-> st]

-----------------------------------------------------------------------------
\* init: fork a child that becomes the shell, or exits when exec("sh") fails; then
\* reap whatever exits until it is that child.
InitStart(p) == task[p].st = "boot" /\ fork1(p, "sh", NUL, "reap")
ExecSh(p) == task[p].st = "sh" /\ (Go(p, "prompt") \/ exit(p))
InitReap(p) ==
  /\ task[p].st = "reap"
  /\ wait(p, [z \in Children(p) \cup {0} |->
                CASE z = task[p].sh -> "boot" [] z = 0 -> "done" [] OTHER -> "reap"])

\* sh's main(): getcmd() returns a line, or the end of the input.
Prompt(p) ==
  /\ task[p].st = "prompt"
  /\ \/ \E t \in session.lines :
          Becomes(p, [task[p] EXCEPT !.st = "fork", !.buf = t])
     \/ exit(p)

\* What the parser makes of each line.
Parsing == [t \in UNION {x.lines : x \in Sessions} |-> parsecmd(t)]

\* The child parses the line; a syntax error ends it.
ForkLine(p) == task[p].st = "fork" /\ fork1(p, "parse", NUL, "await")
Parse(p) ==
  /\ task[p].st = "parse"
  /\ LET r == Parsing[task[p].buf] IN IF r.ok THEN Run(p, r.cmd) ELSE exit(p)
Await(p) == task[p].st = "await" /\ wait(p, Then(p, "prompt"))

-----------------------------------------------------------------------------
\* runcmd(), case by case.
Is(p, type) == task[p].st = "run" /\ task[p].cmd.type = type

\* exec() fails, or the program starts.
RunExec(p) ==
  /\ Is(p, "EXEC")
  /\ \/ exit(p)
     \/ task[p].cmd.argv # <<>> /\ Go(p, "program")

RunRedir(p) ==
  /\ Is(p, "REDIR")
  /\ LET closed == [task[p].fd EXCEPT ![task[p].cmd.fd] = none]
         f == Min({g \in Fds : closed[g] = none})
     IN \/ exit(p)
        \/ Becomes(p, [task[p] EXCEPT !.fd = [closed EXCEPT ![f] = file], !.cmd = @.cmd])

RunList(p) == Is(p, "LIST") /\ fork1(p, "run", task[p].cmd.left, "listwait")
ListWait(p) == task[p].st = "listwait" /\ wait(p, Then(p, "right"))
ListRight(p) == task[p].st = "right" /\ Run(p, task[p].cmd.right)

RunBack(p) == Is(p, "BACK") /\ fork1(p, "run", task[p].cmd.cmd, "done")
Done(p) == task[p].st = "done" /\ exit(p)

\* The PIPE case: pipe(), then a child for each side.
RunPipe(p) ==
  /\ Is(p, "PIPE")
  /\ LET unused == {n \in 1 .. NPipe : ~Open(Rend(n)) /\ ~Open(Wend(n))}
         n == Min(unused)
     IN \/ unused = {} /\ panic(p)
        \/ /\ unused # {}
           /\ task' = [task EXCEPT ![p].fd[3] = Rend(n), ![p].fd[4] = Wend(n), ![p].st = "pleft"]
           /\ bytes' = [bytes EXCEPT ![n] = 0]
           /\ UNCHANGED <<session, failed>>
PipeLeft(p) == task[p].st = "pleft" /\ fork1(p, "lchild", task[p].cmd, "pright")
PipeRight(p) == task[p].st = "pright" /\ fork1(p, "rchild", task[p].cmd, "pclose")

\* Mutant: the parent keeps its ends of the pipe.
Redirected_kept(p, side) ==
  IF side = "parent" THEN task[p].fd
  ELSE [task[p].fd EXCEPT ![IF side = "left" THEN 1 ELSE 0] = IF side = "left" THEN task[p].fd[4] ELSE task[p].fd[3],
                          ![3] = none, ![4] = none]

\* The descriptors after close(), dup() and the two closes that follow.
Redirected(p, side) ==
  LET fd == [task[p].fd EXCEPT ![3] = none, ![4] = none]
  IN CASE side = "left" -> [fd EXCEPT ![1] = task[p].fd[4]]
       [] side = "right" -> [fd EXCEPT ![0] = task[p].fd[3]]
       [] side = "parent" -> fd
LeftChild(p) ==
  /\ task[p].st = "lchild"
  /\ Becomes(p, [task[p] EXCEPT !.fd = Redirected(p, "left"), !.st = "run", !.cmd = @.left])
RightChild(p) ==
  /\ task[p].st = "rchild"
  /\ Becomes(p, [task[p] EXCEPT !.fd = Redirected(p, "right"), !.st = "run", !.cmd = @.right])
PipeClose(p) ==
  task[p].st = "pclose" /\ Becomes(p, [task[p] EXCEPT !.fd = Redirected(p, "parent"), !.st = "wait2"])

\* Mutant: a pipeline waits for one of its sides only.
PipeWait_one(p) ==
  \/ task[p].st = "wait2" /\ wait(p, Then(p, "wait1"))
  \/ task[p].st = "wait1" /\ exit(p)

PipeWait(p) ==
  \/ task[p].st = "wait2" /\ wait(p, Then(p, "wait1"))
  \/ task[p].st = "wait1" /\ wait(p, Then(p, "done"))

-----------------------------------------------------------------------------
\* The programs.  A write to a pipe nobody reads fails, and the program ends.
Name(p) == task[p].buf[task[p].cmd.argv[1][1]]
Out(p, next) ==
  LET o == task[p].fd[1]
  IN IF o \notin {Wend(n) : n \in 1 .. NPipe} THEN Go(p, next)
     ELSE \/ ~Open(Rend(o[2])) /\ exit(p)
          \/ /\ Open(Rend(o[2])) /\ bytes[o[2]] < PipeSize
             /\ bytes' = [bytes EXCEPT ![o[2]] = @ + 1]
             /\ task' = [task EXCEPT ![p].st = next]
             /\ UNCHANGED <<session, failed>>
Program(p) ==
  \/ task[p].st = "program" /\ Name(p) = "e" /\ Out(p, "done")
  \/ task[p].st = "copy" /\ Out(p, "program")
  \/ /\ task[p].st = "program" /\ Name(p) = "c"
     /\ LET i == task[p].fd[0]
        IN IF i \notin {Rend(n) : n \in 1 .. NPipe} THEN exit(p)
           ELSE \/ bytes[i[2]] = 0 /\ ~Open(Wend(i[2])) /\ exit(p)
                \/ /\ bytes[i[2]] > 0
                   /\ bytes' = [bytes EXCEPT ![i[2]] = @ - 1]
                   /\ task' = [task EXCEPT ![p].st = "copy"]
                   /\ UNCHANGED <<session, failed>>

RStep(p) ==
  \/ InitStart(p) \/ ExecSh(p) \/ InitReap(p) \/ Prompt(p) \/ ForkLine(p) \/ Parse(p) \/ Await(p)
  \/ RunExec(p) \/ RunRedir(p) \/ RunList(p) \/ ListWait(p) \/ ListRight(p)
  \/ RunBack(p) \/ Done(p) \/ RunPipe(p) \/ PipeLeft(p) \/ PipeRight(p)
  \/ LeftChild(p) \/ RightChild(p) \/ PipeClose(p) \/ PipeWait(p) \/ Program(p)

RNext == \E p \in Task : RStep(p)

-----------------------------------------------------------------------------
AtPrompt == {p \in Task : task[p].st = "prompt"} # {}

\* A child of init is about to execute the shell.
Starting == {p \in Task : task[p].st = "sh"} # {}

\* The shell always comes back to its prompt, or init starts the next one: no pipeline
\* hangs, because every process closes the ends of the pipe that it does not use, and
\* init reaps the shell even among orphans.  Only init's own failure to fork ends this
\* (the kernel panics); a failing exec("sh") is tried again.
PromptReturns == task[init].st # "boot" ~> AtPrompt \/ Starting \/ task[init].st = "zombie"

\* When the shell asks for the next line, the processes of the last one are gone,
\* unless the line put them in the background or a fork() or pipe() failed half-way.
LineDone ==
  AtPrompt /\ ~failed /\ (\A t \in session.lines : "&" \notin Range(t)) =>
    \A p \in Task : task[p].st \in {"unused", "boot", "reap", "prompt"}
=============================================================================
