----------------------------- MODULE AtomicDisk -----------------------------
(***************************************************************************)
(* What the log promises the file system (log.c:10-22): system calls write *)
(* blocks, a commit makes everything written so far durable at once and    *)
(* never contains half of a system call, and a crash loses exactly what    *)
(* was written since the last commit.                                      *)
(***************************************************************************)
CONSTANTS Proc, Block, Value

VARIABLES
  durable,   \* contents of every block after a crash and recovery
  current,   \* contents the running system sees
  active     \* processes inside a system call

dvars == <<durable, current, active>>

Init ==
  /\ durable \in [Block -> Value]
  /\ current = durable
  /\ active = {}

Begin(p) ==
  /\ p \notin active
  /\ active' = active \cup {p}
  /\ UNCHANGED <<durable, current>>

Write(p, b, v) ==
  /\ p \in active
  /\ current' = [current EXCEPT ![b] = v]
  /\ UNCHANGED <<durable, active>>

End(p) ==
  /\ p \in active
  /\ active' = active \ {p}
  /\ UNCHANGED <<durable, current>>

Commit ==
  /\ active = {}
  /\ durable' = current
  /\ UNCHANGED <<current, active>>

Crash ==
  /\ current' = durable
  /\ active' = {}
  /\ UNCHANGED durable

Next ==
  \/ \E p \in Proc : Begin(p) \/ End(p)
  \/ \E p \in Proc, b \in Block, v \in Value : Write(p, b, v)
  \/ Commit
  \/ Crash

Spec == Init /\ [][Next]_dvars
=============================================================================
