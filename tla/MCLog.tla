------------------------------- MODULE MCLog -------------------------------
\* Instances of Log for TLC.
EXTENDS Log, TLC

\* Processes, blocks and contents are interchangeable.
Symmetry == Permutations(Caller) \cup Permutations(Blockno) \cup Permutations(Content)
=============================================================================
