------------------------------- MODULE Slats -------------------------------
(***************************************************************************)
(* The roof's own geometry and the position it asks for                    *)
(* (engine/covers/louvered_roof.py, engine/sun_geometry.py,                *)
(* position_utils.py and pipeline/helpers.py): the slat angle for a sun,   *)
(* its percentage, the coverage steps, the configured limits and the look  *)
(* ahead over the throttle interval.                                       *)
(*                                                                         *)
(* Angles are whole degrees.  What the trigonometry yields for a sun, the  *)
(* signed profile angle and the half-angles that graze and that block with *)
(* the margin, is part of the sun's record; the travel is linear.          *)
(***************************************************************************)
EXTENDS Integers

CONSTANTS
  ThetaMin, ThetaMax,   \* CONF_LR_THETA_MIN, CONF_LR_THETA_MAX
  PastAxis,             \* past_axis_safety_deg
  Sky                   \* the suns of a day, in order

ASSUME Travel == /\ ThetaMin \in Int /\ ThetaMax \in Int /\ ThetaMin < ThetaMax
                 /\ PastAxis \in Nat

None         == -1
Vertical     == 90
FullCloseElevation == 2

(* elev: sol_elev.  far: |gamma_roof| > 90.  beta, raw, eff: the signed    *)
(* profile angle, blocking_half_angle and _delta_eff.  shading: in_fov, in *)
(* no blind spot and _needs_shade.  up: valid_elevation.  night:           *)
(* sunset_valid.  morning: is_morning_preopen_active.                      *)
Sun == [elev : Int, far : BOOLEAN, beta : Int, raw : Nat, eff : Nat,
        shading : BOOLEAN, up : BOOLEAN, night : BOOLEAN, morning : BOOLEAN]

ASSUME Suns == /\ 1 \in DOMAIN Sky /\ DOMAIN Sky \subseteq Nat
               /\ \A i \in DOMAIN Sky : Sky[i] \in Sun /\ Sky[i].raw <= Sky[i].eff

(* The options of the roof that bear on its position: percentages, None    *)
(* where one is not set, coverage steps and suns looked ahead.             *)
Roofs == [airflow : BOOLEAN, maxLight : -1..100, lowSun : -1..100, steps : Nat, horizon : Nat,
          min : 0..100, max : 0..100, minSunOnly : BOOLEAN, maxSunOnly : BOOLEAN,
          minTracking : -1..100, openClose : BOOLEAN]

-----------------------------------------------------------------------------
Smaller(a, b) == IF a <= b THEN a ELSE b
Larger(a, b)  == IF a <= b THEN b ELSE a
Away(a, b)    == IF a <= b THEN b - a ELSE a - b
Between(lo, hi, v) == Larger(lo, Smaller(hi, v))
Reach(theta)  == Between(ThetaMin, ThetaMax, theta)

(* round(n / d), ties to even.                                             *)
Rounded(n, d) ==
  LET q == n \div d
      r == n % d
  IN  IF 2 * r > d \/ (2 * r = d /\ q % 2 = 1) THEN q + 1 ELSE q

-----------------------------------------------------------------------------
(* A beam passes the slats within raw of their own angle.                  *)
Blocks(theta, sun) == Away(theta, sun.beta) >= sun.raw

FullCloseAngle == Reach(0)

(* The pose nearest the vertical, the earlier one of two as near.          *)
NearestVertical(a, b) == IF Away(b, Vertical) < Away(a, Vertical) THEN b ELSE a

Flat(sun)  == sun.beta - sun.eff
Steep(sun) == Smaller(sun.beta + sun.eff, ThetaMax)
SteepAlways(sun) == TRUE                       \* mutant: clamped at the travel's end
SteepFits(sun) == sun.beta + sun.raw <= ThetaMax
VerticalBlocks(sun) == Away(Vertical, sun.beta) >= sun.eff

(* _shade_angle *)
ShadeAngle(sun, airflow) ==
  LET steep  == IF SteepFits(sun) THEN NearestVertical(Flat(sun), Steep(sun)) ELSE Flat(sun)
      opened == IF VerticalBlocks(sun) THEN NearestVertical(steep, Vertical) ELSE steep
  IN  CASE sun.elev < FullCloseElevation -> FullCloseAngle
        [] sun.elev >= FullCloseElevation /\ sun.far ->
             Reach(Smaller(Flat(sun) - PastAxis, Vertical))
        [] OTHER -> Reach(IF airflow THEN opened ELSE Flat(sun))

(* _max_light_angle, without the low-sun rest.                             *)
LightAngle(sun) == IF sun.far THEN 180 - sun.elev ELSE sun.elev

(* _map_to_pct, linear, rounded as solar_position_from_geometry rounds it. *)
Percentage(theta) ==
  Between(0, 100, Rounded((theta - ThetaMin) * 100, ThetaMax - ThetaMin))

(* _target and calculate_percentage.  A configured percentage is an angle  *)
(* and back again: itself.                                                 *)
LowSunRests(sun, roof) == sun.far /\ roof.lowSun # None /\ LightAngle(sun) > ThetaMax
CalculatePercentage(sun, roof) ==
  CASE sun.shading              -> Percentage(ShadeAngle(sun, roof.airflow))
    [] ~sun.shading /\ roof.maxLight # None -> roof.maxLight
    [] ~sun.shading /\ roof.maxLight = None /\ LowSunRests(sun, roof) -> roof.lowSun
    [] OTHER                    -> Percentage(Reach(LightAngle(sun)))

(* The slats' angle at a percentage, in hundredths of a degree.            *)
HundredthsAt(pct) == ThetaMin * 100 + pct * (ThetaMax - ThetaMin)
PoseBlocks(pct, sun) == Away(HundredthsAt(pct), sun.beta * 100) >= sun.raw * 100

(* direct_sun_valid of the louvered roof.                                  *)
DirectSun(sun) == sun.up /\ ~sun.night

-----------------------------------------------------------------------------
(* quantize_to_coverage_steps, full coverage at 0: the demand for coverage *)
(* is rounded up to the next of n levels.                                  *)
Quantized(pct, n) ==
  LET level == Smaller(n, ((100 - pct) * n + 99) \div 100)
  IN  IF n < 1 THEN pct ELSE Rounded((n - level) * 100, n)

(* apply_limits *)
EffectiveMin(roof, sunValid) ==
  IF roof.minTracking # None /\ sunValid THEN roof.minTracking ELSE roof.min
Limited(v, roof, sunValid) ==
  LET low    == EffectiveMin(roof, sunValid)
      capped == IF roof.max # 100 /\ (~roof.maxSunOnly \/ sunValid)
                  THEN Smaller(Between(0, 100, v), roof.max) ELSE Between(0, 100, v)
  IN  IF low # 0 /\ (~roof.minSunOnly \/ sunValid) THEN Larger(capped, low) ELSE capped

SolarFloor(v, roof) == IF roof.openClose THEN Larger(v, 1) ELSE v
Stepped(pct, roof)  == IF roof.steps = 0 THEN pct ELSE Quantized(pct, roof.steps)

(* solar_position_from_geometry *)
SolarPosition(sun, roof) ==
  Limited(SolarFloor(Stepped(CalculatePercentage(sun, roof), roof), roof), roof, TRUE)

(* anticipated_solar_position: the lowest position any valid sun asks for  *)
(* from now to the end of the interval; more_protective_position is min.   *)
Anticipated(i, roof) ==
  LET ahead  == {j \in DOMAIN Sky : j > i /\ j <= i + roof.horizon /\ DirectSun(Sky[j])}
      asked  == {SolarPosition(Sky[j], roof) : j \in ahead \cup {i}}
  IN  CHOOSE p \in asked : \A q \in asked : p <= q
=============================================================================
