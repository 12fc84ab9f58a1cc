------------------------------- MODULE MCDisk -------------------------------
(* Instances of Disk for TLC. *)
EXTENDS Disk, TLC

Symm == Permutations(Proc) \union Permutations(Block)

(* Descriptors for one request, and for two. *)
SmallRings == {0..3, 0..6}
=============================================================================
