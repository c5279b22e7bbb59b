--------------------------- MODULE MCUpdateCycle ---------------------------
(***************************************************************************)
(* Instances of UpdateCycle: two covers, a safety slot with a release      *)
(* condition and a floor slot.                                             *)
(***************************************************************************)
EXTENDS UpdateCycle, TLC

TaskSymmetry == Permutations(Tasks)
=============================================================================
