------------------------------ MODULE MCDeletion ------------------------------
(* Instances of the deletion of one candidate for TLC.                     *)
EXTENDS Deletion, TLC

Symmetry == Permutations(Cleaners)
===============================================================================
