----------------------------- MODULE MCEntities -----------------------------
(* Two entries with a cover each, one of them with a proxy, for TLC.       *)
EXTENDS Entities, TLC

CONSTANTS e1, e2, c1, c2

OwnerOf == c1 :> e1 @@ c2 :> e2
=============================================================================
