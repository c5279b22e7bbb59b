----------------------------- MODULE MCForecast -----------------------------
(* Days of twelve grid points with a sample at every second one; set-up is *)
(* late on the first, so that two midnights come.  On odd days the sun     *)
(* comes into view a point earlier; a blind spot splits the view.          *)
EXTENDS Forecast, TLC

MCRise(d)   == 3
MCSunset(d) == 10
MCFacing(d) == (4 - (d % 2)..9) \ {6}
MCHigh(d)   == 3..9

Plain == [start |-> None, entity |-> None, end |-> None, night |-> TRUE, evening |-> FALSE,
          returns |-> FALSE, lead |-> 0, hold |-> 0, morning |-> TRUE]
Evenings == {[Plain EXCEPT !.night = n, !.evening = TRUE, !.returns = TRUE, !.end = e,
                           !.start = 5] : n \in BOOLEAN, e \in {8, 9}}
Mornings == {[Plain EXCEPT !.lead = 1, !.hold = 2, !.morning = m, !.start = s, !.end = 9]
               : m \in BOOLEAN, s \in {None, 2, 5}}
Entities == {[Plain EXCEPT !.entity = 7, !.start = 2],
             [Plain EXCEPT !.entity = 7, !.lead = 1, !.hold = 2, !.morning = FALSE]}
MCConfigs == {Plain, [Plain EXCEPT !.lead = 1, !.hold = 2, !.morning = FALSE, !.evening = TRUE,
                                   !.returns = TRUE, !.end = 2]}
             \cup Entities \cup Evenings \cup Mornings

MCSymmetry == Permutations(Jobs)
=============================================================================
