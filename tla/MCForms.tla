------------------------------ MODULE MCForms ------------------------------
(* A circle of four directions, for TLC.  Lengths are in hundredths of a   *)
(* millimetre: the tenth of an inch is 254.                                *)
EXTENDS Forms
=============================================================================
