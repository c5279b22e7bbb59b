----------------------------- MODULE MCOptions -----------------------------
(* The options of one entry with one custom-position slot, for TLC.        *)
EXTENDS Options, TLC

CONSTANTS a, b

AllSensors == {a, b}
Swaps      == Permutations(AllSensors)
=============================================================================
