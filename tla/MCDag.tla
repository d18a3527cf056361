-------------------------------- MODULE MCDag --------------------------------
(***************************************************************************)
(* Every workflow of up to three jobs with up to two dependencies each, to *)
(* itself, to others, to ids that are not there, and listed twice.         *)
(***************************************************************************)
EXTENDS Dag, TLC

IdSymmetry == Permutations(Id)
=============================================================================
