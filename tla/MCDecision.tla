---------------------------- MODULE MCDecision ----------------------------
(* The decision for a day of seven suns over slats of 21 x 3 cm at 20 cm.    *)
EXTENDS Decision, Sequences

MCCovers == 1..2
MCSlots  == 1..2
MCHands  == {20}

(* night, dawn, morning, noon, afternoon, past the axis, evening *)
Of(elev, far, beta, raw, eff, shading) ==
  [elev |-> elev, far |-> far, beta |-> beta, raw |-> raw, eff |-> eff, shading |-> shading,
   up |-> elev >= 0, night |-> FALSE, morning |-> FALSE]
MCSky == << [Of(-10, FALSE, -12, 0, 0, FALSE) EXCEPT !.night = TRUE],
            [Of(3, FALSE, 5, 0, 2, FALSE) EXCEPT !.morning = TRUE],
            Of(40, FALSE, 50, 38, 46, TRUE),
            Of(62, FALSE, 85, 62, 82, TRUE),
            Of(50, FALSE, 60, 47, 57, TRUE),
            Of(30, TRUE, 125, 43, 53, TRUE),
            Of(10, TRUE, 150, 20, 26, FALSE) >>

Slatted == [airflow |-> TRUE, maxLight |-> None, lowSun |-> None, steps |-> 0, horizon |-> 0,
         min |-> 0, max |-> 100, minSunOnly |-> FALSE, maxSunOnly |-> FALSE,
         minTracking |-> None, openClose |-> FALSE]
SlotAt(kind, pos, priority) == [kind |-> kind, pos |-> pos, priority |-> priority]
Base ==
  [roof |-> Slatted,
   slots |-> <<SlotAt("floor", 60, 77), SlotAt("fixed", 0, 100)>>,
   priority |-> [weather |-> 90, manual |-> 80, motion |-> 75, cloud |-> 60, solar |-> 40],
   weather |-> [pos |-> 100, floor |-> FALSE, bypass |-> TRUE],
   default |-> 50, sunset |-> 0, cloudy |-> 70, morning |-> None, my |-> None,
   sunsetMy |-> FALSE, holds |-> FALSE, tracks |-> TRUE,
   inverse |-> FALSE, range |-> <<>>, minChange |-> 5, tolerance |-> 3, enforced |-> FALSE,
   limit |-> [n \in {} |-> 0], both |-> {}, conditions |-> FALSE, suppression |-> FALSE,
   switched |-> {}, climate |-> FALSE, byTemperature |-> FALSE, guarded |-> FALSE,
   azimuth |-> 180, spread |-> 60]

(* Steps, limits and the look ahead; a floor at safety priority.           *)
Stepwise ==
  [Base EXCEPT !.roof.steps = 2, !.roof.horizon = 1, !.roof.min = 15, !.roof.max = 85,
     !.roof.minTracking = 20, !.roof.lowSun = 30, !.slots[1] = SlotAt("fixed", 60, 77),
     !.slots[2] = SlotAt("floor", 40, 100), !.enforced = TRUE, !.cloudy = None,
     !.suppression = TRUE, !.limit = [lux |-> 40], !.both = {"sunnySays"}]
(* Priorities out of order and out of range; an inverted cover.            *)
Reordered ==
  [Base EXCEPT !.priority = [weather |-> 120, manual |-> 70, motion |-> 75, cloud |-> 30, solar |-> 40],
     !.slots[1] = SlotAt("my", 35, 77), !.my = 45, !.sunsetMy = TRUE, !.inverse = TRUE,
     !.roof.airflow = FALSE, !.roof.maxLight = 80, !.weather.bypass = FALSE, !.weather.pos = 70,
     !.guarded = TRUE, !.byTemperature = TRUE, !.limit = [windSpeed |-> 50, outside |-> 22]]
(* A floor from the weather, a held position, an interpolated range.       *)
Holding ==
  [Base EXCEPT !.holds = TRUE, !.range = <<10, 90>>, !.slots[1] = SlotAt("tilt", 25, 60),
     !.slots[2] = SlotAt("fixed", 30, 50), !.weather = [pos |-> 55, floor |-> TRUE, bypass |-> TRUE],
     !.morning = 25, !.roof.openClose = TRUE, !.roof.maxSunOnly = TRUE, !.roof.max = 90,
     !.guarded = TRUE, !.both = {"rainingSays"}]

MCConfigs == <<Base, Stepwise, Reordered, Holding>>
MCEnv == << {"slot", "open", "auto", "hand", "reset", "user"},
            {"slot", "open", "hand"},
            {"slot", "auto", "hand"},
            {"slot", "hand"} >>
MCSays == << [n \in {} |-> {}],
             [lux |-> {Silent, 30, 90}, sunny |-> {0, 1}],
             [windSpeed |-> {Silent, 60}, windFrom |-> {200}, inside |-> {Silent, 30}, outside |-> {25}],
             [raining |-> {0, 1}, rainingSays |-> {1}, motion |-> {0, 1}] >>
=============================================================================
