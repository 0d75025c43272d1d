-------------------------------- MODULE MCFs --------------------------------
(***************************************************************************)
(* The file system for TLC: two processes begin at most MaxCalls calls     *)
(* (with a path name, or dup, fork, exit), in a new file system or in one  *)
(* with a directory a and a/b in it; or, beside it, the pipe.              *)
(***************************************************************************)
EXTENDS Fs, Pipe, TLC

CONSTANTS MaxCalls

VARIABLES
  calls,   \* calls begun so far
  part     \* what runs: "fs" or "pipe"

O(call, path, type) == [call |-> call, path |-> path, type |-> type, new |-> <<>>]
Link(old, new) == [O("link", old, "") EXCEPT !.new = new]

a == <<"a">>
b == <<"b">>
ab == <<"a", "b">>
root == <<"/">>

\* Calls that meet in one directory, in a directory and its parent, and in a file.
PathOps ==
  {O("create", x, t) : x \in {a, ab}, t \in {"file", "dir"}}
  \cup {O("create", b, "dir"), O("create", root, "dir")}
  \cup {O("open", x, "rdonly") : x \in {a, <<"c">>, <<"..">>}} \cup {O("open", ab, "trunc")}
  \cup {O("unlink", x, "") : x \in {a, ab, <<"a", ".">>}}
  \cup {O("chdir", x, "") : x \in {a, root}}
  \cup {Link(ab, b), Link(a, b), Link(b, ab)}

\* The console is c; then a directory a with a file b in it, or with a directory b.
Console == [Free EXCEPT !.type = "dev", !.nlink = 1]
Small == (1 :> Dir(1, 1, 1, 1, "c" :> 4)) @@ (4 :> Console) @@ [x \in Inum |-> Free]
Populated ==
  (1 :> Dir(1, 1, 2, 1, "a" :> 2 @@ "c" :> 4)) @@ (2 :> Dir(2, 1, 1, 2, "b" :> 3))
  @@ (3 :> [Free EXCEPT !.type = "file", !.nlink = 1]) @@ (4 :> Console)
Nested ==
  (1 :> Dir(1, 1, 2, 1, "a" :> 2 @@ "c" :> 4)) @@ (2 :> Dir(2, 1, 2, 2, "b" :> 3))
  @@ (3 :> Dir(3, 2, 1, 3, <<>>)) @@ (4 :> Console)

\* Both processes are in the root, or all but initproc in a/b.
AtRoot == [p \in Proc |-> ROOTINO]
FsInit ==
  \/ \E fs \in {Small, Populated} : InitFrom(fs, AtRoot)
  \/ InitFrom(Nested, [AtRoot EXCEPT ![CHOOSE p \in Proc : p # InitProc] = 3])
FsNext ==
  \E p \in Proc :
    \/ Step(p) /\ UNCHANGED calls
    \/ Begin(p) /\ calls < MaxCalls /\ calls' = calls + 1

\* The part that does not run has one initial state.
OnePipe == PipeInit /\ \A k \in DOMAIN data : data[k] = CHOOSE c \in Byte : TRUE
MCInit ==
  /\ calls = 0
  /\ \/ part = "fs" /\ FsInit /\ OnePipe
     \/ part = "pipe" /\ InitFrom(Small, AtRoot) /\ PipeInit
MCNext ==
  /\ UNCHANGED part
  /\ \/ part = "fs" /\ FsNext /\ UNCHANGED pipevars
     \/ part = "pipe" /\ PipeNext /\ UNCHANGED <<vars, calls>>

MCSpec == MCInit /\ [][MCNext]_<<vars, pipevars, calls, part>>

\* The file system alone.
FsSpec == (part = "fs" /\ FsInit /\ OnePipe /\ calls = 0)
            /\ [][FsNext /\ UNCHANGED <<pipevars, part>>]_<<vars, calls>>

\* The writers of the pipe and the bytes are interchangeable.
Symmetry == Permutations(Writer) \cup Permutations(Byte)
=============================================================================
