----------------------------- MODULE MCWindow -----------------------------
(* The window on instances of a few ticks a day.                           *)
EXTENDS Window
=============================================================================
