------------------------------- MODULE MCLive -------------------------------
(***************************************************************************)
(* The log, the disk driver and the shell, one at a time, for TLC: `part'  *)
(* says which of them runs.  The log runs twice: with two callers and all  *)
(* contents, and with three callers, of which one waits while the other    *)
(* two fill the log, and one content.                                      *)
(***************************************************************************)
EXTENDS Log, Virtio, ShellRun

CONSTANT Third  \* the caller that makes system calls in the part "waiters" only

VARIABLE part

livevars == <<part, vars, vvars, rvars>>

Logging == part \in {"log", "waiters"}
OneContent == CHOOSE v \in Content : TRUE

\* The log's blocks are as mkfs leaves them, and the parts that do not run have one
\* initial state.
LiveInit ==
  /\ part \in {"log", "waiters", "driver", "shell"}
  /\ Init /\ VInit /\ RInit
  /\ logged[1] = OneContent
  /\ part # "log" => home = [b \in Blockno |-> OneContent]
  /\ part # "shell" => session = CHOOSE s \in Sessions : TRUE

LiveNext ==
  /\ UNCHANGED part
  /\ \/ part = "log" /\ Next /\ pc'[Third] = "user" /\ UNCHANGED <<vvars, rvars>>
     \/ /\ part = "waiters" /\ Next /\ cache' \in [Blockno -> {OneContent, NoValue}]
        /\ UNCHANGED <<vvars, rvars>>
     \/ part = "driver" /\ DriverNext /\ UNCHANGED <<vars, rvars>>
     \/ part = "shell" /\ RNext /\ UNCHANGED <<vars, vvars>>

\* Log: kernel code keeps running (only the committing process is in commit() and the
\* rest of end_op()), and a system call makes finitely many writes.
LogFairness ==
  /\ WF_vars(Logging /\ (CommitStep \/ \E p \in Caller : EndCommit(p)))
  /\ \A p \in Caller :
       /\ WF_vars(Logging /\ (Panic(p) \/ \E b \in Blockno : LogWrite(p, b)))
       /\ SF_vars(Logging /\ (EndOp(p) \/ EndOpCommit(p)))

\* Driver: every process inside gets vdisk_lock in the end, the device serves every request in the
\* ring, and the interrupt is delivered.
DriverFairness ==
  /\ \A p \in Proc : SF_vvars(part = "driver" /\ Drive(p))
  /\ WF_vvars(part = "driver" /\ DevFetch) /\ WF_vvars(part = "driver" /\ Intr)
  /\ \A i \in Desc : WF_vvars(part = "driver" /\ DevComplete(i))

\* Shell: every process that can run is scheduled in the end.
ShellFairness == \A p \in Task : WF_rvars(part = "shell" /\ RStep(p))

LiveSpec ==
  LiveInit /\ [][LiveNext]_livevars /\ LogFairness /\ DriverFairness /\ ShellFairness

\* What is typed: pipelines of several processes with room for them, and lines for
\* which the process table is too small; a line the parser refuses.
SmallSessions ==
  {[slots |-> 7, lines |-> {<<"e", "|", "c", "|", "c">>, <<"(", "e", ";", "c", ")", "|", "c">>,
                            <<"c", "(">>}],
   [slots |-> 4, lines |-> {<<"e", "|", "c">>, <<"e", ">", "e", "&">>}]}
=============================================================================
