------------------------------- MODULE MCLog --------------------------------
(* Instances of Log for TLC. *)
EXTENDS Log, TLC

Symm == Permutations(Proc) \union Permutations(Block)
=============================================================================
