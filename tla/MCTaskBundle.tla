---------------------------- MODULE MCTaskBundle ----------------------------
(* Instances of TaskBundle for TLC. *)
EXTENDS TaskBundle, TLC

Symmetry == Permutations(Workers) \cup Permutations(Nodes)
=============================================================================
