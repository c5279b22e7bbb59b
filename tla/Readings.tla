------------------------------ MODULE Readings ------------------------------
(***************************************************************************)
(* What a cycle makes of the states of other integrations: the light that  *)
(* ends the tracking of the sun (state/climate_provider.py), the weather   *)
(* (managers/weather.py), the occupancy (managers/motion.py), the          *)
(* temperatures that choose the slats' flavour (cover_types/               *)
(* louvered_roof.py) and the condition templates each is combined with     *)
(* (templates.py).                                                         *)
(*                                                                         *)
(* A report gives each configured source its state: a number, or one of    *)
(* the two below.  A binary sensor and a template say 1 or 0; the weather  *)
(* entity says 1 in one of the configured conditions.  Of several severe-  *)
(* weather sensors one stands for all.                                     *)
(***************************************************************************)
EXTENDS Integers

Silent  == -1     \* missing, unknown, unavailable; a template that fails
Garbled == -2     \* a state that is not a number

WeatherSources   == {"windSpeed", "windFrom", "rain", "raining", "windy", "severe",
                     "rainingSays", "windySays"}
OccupancySensors == {"motion", "player"}
OccupancySources == OccupancySensors \cup {"occupiedSays"}
(* async_setup_entry registers no listener for these.                      *)
Unwatched        == {"sunny", "sunnySays"}

Configured(r, n) == n \in DOMAIN r
Heard(r, n)      == Configured(r, n) /\ r[n] # Silent
Numeric(r, n)    == Heard(r, n) /\ r[n] # Garbled
IsOn(r, n)       == Heard(r, n) /\ r[n] = 1

(* is_entity_active: a player that says nothing plays nothing, anything    *)
(* else that says nothing counts as present.                               *)
Active(r, n) == IF n = "player" THEN Heard(r, n) /\ r[n] # 0 ELSE Heard(r, n) => r[n] = 1

(* An opinion is a set of at most one Boolean.                             *)
Opinion(r, template) == IF Heard(r, template) THEN {r[template] = 1} ELSE {}
Combined(template, others, both) == IF both THEN template /\ others ELSE template \/ others
Folded(template, others, both) ==
  IF template = {} \/ others = {} THEN template \cup others
  ELSE {Combined(t, o, both) : t \in template, o \in others}

-----------------------------------------------------------------------------
(* The light.  `g` holds the options: the limits, the templates combined   *)
(* with "and" (both), whether the weather entity has conditions, the       *)
(* switches that are on.                                                   *)

Sunny(g, r) ==
  LET sensor == IF Heard(r, "sunny") /\ r["sunny"] \in {0, 1} THEN {r["sunny"] = 1} ELSE {}
      said   == Folded(Opinion(r, "sunnySays"), sensor, "sunnySays" \in g.both)
  IN  IF said # {} THEN said = {TRUE}
      ELSE Heard(r, "weather") /\ g.conditions => r["weather"] = 1

AtMost(g, r, n)  == Numeric(r, n) /\ n \in DOMAIN g.limit /\ r[n] <= g.limit[n]
AtLeast(g, r, n) == Numeric(r, n) /\ n \in DOMAIN g.limit /\ r[n] >= g.limit[n]

(* read_climate: suppression reads the light whether its switch is on or   *)
(* not.                                                                    *)
UsesLight(g, r, n) == n \in g.switched \/ (g.suppression /\ Configured(r, n))

NoDirectSun(g, r) ==
  /\ g.suppression
  /\ \/ ~Sunny(g, r)
     \/ \E n \in {"lux", "irradiance"} : UsesLight(g, r, n) /\ AtMost(g, r, n)
     \/ AtLeast(g, r, "clouds")

-----------------------------------------------------------------------------
(* The weather.                                                            *)

Apart(a, b) == LET d == (IF a < b THEN b - a ELSE a - b) % 360
               IN  IF d > 180 THEN 360 - d ELSE d
WindActive(g, r) ==
  /\ AtLeast(g, r, "windSpeed")
  /\ Numeric(r, "windFrom") => Apart(r["windFrom"], g.azimuth) <= g.spread

(* _is_binary_condition_active: a sensor that says nothing is off.         *)
BinaryCondition(g, r, sensor, template) ==
  TRUE \in Folded(Opinion(r, template),
                  IF Configured(r, sensor) THEN {IsOn(r, sensor)} ELSE {}, template \in g.both)

(* is_any_condition_active *)
AnyCondition(g, r) ==
  \/ WindActive(g, r)
  \/ AtLeast(g, r, "rain")
  \/ BinaryCondition(g, r, "raining", "rainingSays")
  \/ BinaryCondition(g, r, "windy", "windySays")
  \/ IsOn(r, "severe")
WeatherConfigured(g, r) == g.guarded /\ WeatherSources \cap DOMAIN r # {}

-----------------------------------------------------------------------------
(* The occupancy.  A template that fails is false, not without opinion.    *)
Sensors(r) == OccupancySensors \cap DOMAIN r
MotionConfigured(r) == OccupancySources \cap DOMAIN r # {}
MotionDetected(g, r) ==
  LET sensed == \E n \in Sensors(r) : Active(r, n)
      said   == IsOn(r, "occupiedSays")
  IN  MotionConfigured(r) =>
        Combined(said, sensed, /\ "occupiedSays" \in g.both \cap DOMAIN r /\ Sensors(r) # {})

(* is_motion_timeout_active is about the sensors only.                     *)
MotionTimeoutActive(expired, r) == expired /\ Sensors(r) # {}

-----------------------------------------------------------------------------
(* build_calc_engine: the flavour follows the temperatures while both can  *)
(* be read, and the switch otherwise.                                      *)
Airflow(g, r, switch) ==
  IF /\ ~g.climate /\ g.byTemperature
     /\ Numeric(r, "inside") /\ Numeric(r, "outside") /\ "outside" \in DOMAIN g.limit
    THEN r["inside"] > r["outside"] /\ r["outside"] > g.limit["outside"]
    ELSE switch
=============================================================================
