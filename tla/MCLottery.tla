----------------------------- MODULE MCLottery ------------------------------
(***************************************************************************)
(* The lottery for TLC on one hart, with processes that keep their         *)
(* tickets, and on all harts, with two processes that change them.         *)
(***************************************************************************)
EXTENDS Lottery

CONSTANT BootHart   \* the hart that runs alone

VARIABLE harts      \* "one" or "all"

LotteryInit ==
  /\ Init
  /\ harts \in {"one", "all"}
  /\ harts = "all" => runnable \subseteq {0, 1} /\ \A p \in Slot : tickets[p] = 1

LotteryNext ==
  /\ UNCHANGED harts
  /\ \/ harts = "one" /\ LoopStep(BootHart)
     \/ harts = "all" /\ Next

\* Every hart executes its scheduler loop, and its timer keeps ticking.
LotterySpec ==
  /\ LotteryInit /\ [][LotteryNext]_<<vars, harts>>
  /\ \A c \in CPU : WF_vars((c = BootHart \/ harts = "all") /\ LoopStep(c))

\* EveryoneWins on one hart.
AloneEveryoneWins == harts = "one" => EveryoneWins
=============================================================================
