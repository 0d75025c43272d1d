----------------------------- MODULE BlockStore -----------------------------
(***************************************************************************)
(* What the buffer cache promises: every block has one current contents,   *)
(* and at most one process at a time may look at it or change it.          *)
(***************************************************************************)
CONSTANTS Proc, Block, Value, Null

VARIABLES
  store,   \* the current contents of every block
  user     \* the process that may use the block, or Null

Init ==
  /\ store \in [Block -> Value]
  /\ user = [k \in Block |-> Null]

Take(p, k) ==
  /\ user[k] = Null
  /\ user' = [user EXCEPT ![k] = p]
  /\ UNCHANGED store

Change(p, k) ==
  /\ user[k] = p
  /\ \E v \in Value : store' = [store EXCEPT ![k] = v]
  /\ UNCHANGED user

GiveBack(p, k) ==
  /\ user[k] = p
  /\ user' = [user EXCEPT ![k] = Null]
  /\ UNCHANGED store

Next == \E p \in Proc, k \in Block : Take(p, k) \/ Change(p, k) \/ GiveBack(p, k)

Spec == Init /\ [][Next]_<<store, user>>
=============================================================================
