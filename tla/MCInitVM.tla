------------------------------ MODULE MCInitVM ------------------------------
(* Instances of InitVM for TLC. *)
EXTENDS InitVM, TLC

Symmetric == Permutations(Daemons) \cup Permutations(Cmds)
=============================================================================
