------------------------------ MODULE MCBcache ------------------------------
(* The buffer cache and the disk driver for TLC. *)
EXTENDS Bcache, TLC

Symmetry == Permutations(Proc) \cup Permutations(Buf) \cup Permutations(Block)
              \cup Permutations(Value)
=============================================================================
