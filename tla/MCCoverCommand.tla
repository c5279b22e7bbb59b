--------------------------- MODULE MCCoverCommand ---------------------------
(* Instances of CoverCommand for TLC: one cover, positionable or not.      *)
EXTENDS CoverCommand

CONSTANT c1

OneCover     == {c1}
AllPosition  == [c \in Covers |-> "position"]
AllOpenClose == [c \in Covers |-> "open_close"]
=============================================================================
