------------------------------ MODULE MCLineage ------------------------------
(* Instances of Lineage for TLC. *)
EXTENDS Lineage, TLC

Symmetry == Permutations(Ids) \cup Permutations(Writers)
=============================================================================
