--------------------------- MODULE MCShellShutdown ---------------------------
(* Small instances of ShellShutdown for TLC.                                *)
EXTENDS ShellShutdown, TLC

Symmetric == Permutations(Ops) \cup Permutations(Keys)
=============================================================================
