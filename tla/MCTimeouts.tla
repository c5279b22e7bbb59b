----------------------------- MODULE MCTimeouts -----------------------------
(* Instances of Timeouts for TLC.                                          *)
EXTENDS Timeouts
=============================================================================
