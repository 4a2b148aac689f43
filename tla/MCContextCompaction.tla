-------------------------- MODULE MCContextCompaction --------------------------
(* Instances of ContextCompaction. *)
EXTENDS ContextCompaction, TLC

Symmetry == Permutations(Sends)
=============================================================================
