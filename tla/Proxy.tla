------------------------------- MODULE Proxy -------------------------------
(***************************************************************************)
(* AdaptiveProxyCover (cover.py): the managed cover that stands for one    *)
(* source cover.  It drives the source by its tilt and shows the state of  *)
(* the source, or, while a move that it has started is under way, the      *)
(* direction of that move.  The operators take a proxy p and a source s    *)
(* and return the proxy after a call; Entities.tla has the steps.          *)
(***************************************************************************)
EXTENDS Integers

CONSTANTS
  None,     \* nothing is shown, no direction, no target
  Top,      \* the largest tilt; 0 is closed
  Arrive    \* _MOVE_ARRIVE_TOLERANCE

\* What a signature may hold: available, opening, closing, tilt, direction.
Signatures == BOOLEAN \X BOOLEAN \X BOOLEAN \X (0..Top \cup {None})
                \X {None, "opening", "closing"}

ASSUME ProxyConstants ==
  /\ Top \in Nat \ {0} /\ Arrive \in Nat
  /\ None \notin Int /\ None \notin Signatures

\* What the source cover reports; it has no tilt while it is unavailable.
Sources == [state : {"open", "closed", "opening", "closing"}, tilt : 0..Top]
             \cup [state : {"unavailable"}, tilt : {None}]

\* Its report at rest at tilt t, and on its way from t to u.
Resting(t)       == [state |-> IF t = 0 THEN "closed" ELSE "open", tilt |-> t]
Travelling(t, u) == [state |-> IF u > t THEN "opening" ELSE "closing", tilt |-> t]
Gone             == [state |-> "unavailable", tilt |-> None]

Available(s) == s.state # "unavailable"

IsOpening(p, s) == p.dir = "opening" \/ s.state = "opening"
IsClosing(p, s) == p.dir = "closing" \/ s.state = "closing"

\* What Home Assistant writes for the proxy: CoverEntity.state and the tilt.
\* A tilt-only source has no position, so is_closed follows its state.
Rendered(p, s) ==
  [state |-> IF ~ Available(s)     THEN "unavailable"
             ELSE IF IsOpening(p, s) THEN "opening"
             ELSE IF IsClosing(p, s) THEN "closing"
             ELSE IF s.tilt = 0      THEN "closed" ELSE "open",
   tilt  |-> s.tilt]

Written(p, s) == [p EXCEPT !.shown = Rendered(p, s)]

\* A proxy that has just been added: _SENTINEL signatures, its first write.
Added(s) ==
  Written([dir |-> None, target |-> None, start |-> None, timer |-> FALSE,
           sig |-> None, acp |-> None, shown |-> None], s)

-----------------------------------------------------------------------------
(* The indicator.                                                          *)

\* A timer is kept from an earlier move instead of being replaced.
BeginMoveUntimed(p, s, target) ==
  IF s.tilt \in {None, target} THEN p
  ELSE Written([p EXCEPT !.dir = IF target > s.tilt THEN "opening" ELSE "closing",
                         !.target = target, !.start = s.tilt], s)

BeginMove(p, s, target) ==
  IF s.tilt \in {None, target} THEN p
  ELSE Written([p EXCEPT !.dir = IF target > s.tilt THEN "opening" ELSE "closing",
                         !.target = target, !.start = s.tilt,
                         !.timer = TRUE], s)

EndMove(p, s) ==
  LET q == [p EXCEPT !.dir = None, !.target = None, !.start = None,
                     !.timer = FALSE] IN
  IF p.dir = None THEN q ELSE Written(q, s)

Near(a, b) == a - b <= Arrive /\ b - a <= Arrive

\* _maybe_finish_move, at a report of the source.
MaybeFinish(p, s) ==
  IF /\ p.dir # None
     /\ s.state \notin {"opening", "closing"}
     /\ \/ s.tilt = None
        \/ Near(s.tilt, p.target)
        \/ s.tilt # p.start
  THEN EndMove(p, s) ELSE p

\* Without the tilt, as if the direction said enough.
SignatureCoarse(p, s) ==
  <<Available(s), IsOpening(p, s), IsClosing(p, s), p.dir>>

Signature(p, s) ==
  <<Available(s), IsOpening(p, s), IsClosing(p, s), s.tilt, p.dir>>

\* _handle_source_event: a report that changes nothing is not written.
SourceEvent(p, s) ==
  LET q == MaybeFinish(p, s) IN
  IF Signature(q, s) = q.sig THEN q
  ELSE Written([q EXCEPT !.sig = Signature(q, s)], s)

\* _handle_coordinator_update of the base class, with a signature of its own
\* that holds the state and no tilt.
CoordinatorUpdate(p, s) ==
  LET sig == Rendered(p, s).state IN
  IF sig = p.acp THEN p ELSE Written([p EXCEPT !.acp = sig], s)
=============================================================================
