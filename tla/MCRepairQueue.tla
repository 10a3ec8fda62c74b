---------------------------- MODULE MCRepairQueue ----------------------------
(***************************************************************************)
(* Model values and symmetry for model checking RepairQueue.               *)
(***************************************************************************)
EXTENDS RepairQueue, TLC

Symmetry == Permutations(Ids) \cup Permutations(Texts)
            \cup Permutations(Workers) \cup Permutations(Writers)
=============================================================================
