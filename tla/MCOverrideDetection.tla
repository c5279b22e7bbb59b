------------------------ MODULE MCOverrideDetection ------------------------
(***************************************************************************)
(* Instances of OverrideDetection.                                         *)
(***************************************************************************)
EXTENDS OverrideDetection
=============================================================================
