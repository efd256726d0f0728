------------------------- MODULE MCOperationRegistry -------------------------
(* Small instances of OperationRegistry for TLC.                            *)
EXTENDS OperationRegistry, TLC

Symmetric == Permutations(Ops) \cup Permutations(Keys)
                 \cup Permutations(Listeners) \cup Permutations(Threads)
=============================================================================
