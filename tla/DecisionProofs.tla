--------------------------- MODULE DecisionProofs ---------------------------
(* Proofs about Decision, for any number of covers and slots, any options  *)
(* the forms let through, any suns and any sources.                        *)
EXTENDS Decision, FiniteSetTheorems, WellFoundedInduction, TLAPS

-----------------------------------------------------------------------------
(* Choice: a set of numbers has a least one, so the decision is the match  *)
(* that precedes every other.                                              *)

LEMMA LeastNat ==
  ASSUME NEW S \in SUBSET Nat, S # {}
  PROVE  \E p \in S : \A q \in S : p <= q
<1> DEFINE R == OpToRel(<, Nat)
<1>1. IsWellFoundedOn(R, Nat)
  BY NatLessThanWellFounded
<1>2. PICK p \in S : \A q \in S : <<q, p>> \notin R
  BY <1>1, WFMin
<1>3. \A q \in S : ~(q < p)
  BY <1>2 DEF OpToRel
<1> QED BY <1>3

-----------------------------------------------------------------------------
(* Rounding, percentages and angles.                                       *)

LEMMA Division ==
  ASSUME NEW n \in Int, NEW d \in Nat \ {0}
  PROVE  /\ n \div d \in Int /\ n % d \in Int
         /\ n = d * (n \div d) + (n % d) /\ 0 <= n % d /\ n % d < d
  OBVIOUS

LEMMA RoundedNear ==
  ASSUME NEW n \in Int, NEW d \in Nat \ {0}
  PROVE  /\ Rounded(n, d) \in Int
         /\ 2 * (d * Rounded(n, d)) <= 2 * n + d /\ 2 * n - d <= 2 * (d * Rounded(n, d))
<1> DEFINE q == n \div d
           r == n % d
<1>1. q \in Int /\ r \in Int /\ n = d * q + r /\ 0 <= r /\ r < d
  BY Division
<1>2. d * (q + 1) = d * q + d /\ d * q \in Int
  BY <1>1
<1>3. Rounded(n, d) = IF 2 * r > d \/ (2 * r = d /\ q % 2 = 1) THEN q + 1 ELSE q
  BY DEF Rounded
<1> HIDE DEF q, r
<1> QED BY <1>1, <1>2, <1>3

(* A share of a whole is rounded to a percentage.                          *)
LEMMA RoundedPercent ==
  ASSUME NEW n \in Int, NEW d \in Nat \ {0}, 0 <= n, n <= 100 * d
  PROVE  Rounded(n, d) \in 0..100
<1> DEFINE p == Rounded(n, d)
<1>1. p \in Int /\ 2 * (d * p) <= 2 * n + d /\ 2 * n - d <= 2 * (d * p)
  BY RoundedNear
<1> HIDE DEF p
<1>2. ASSUME p > 100 PROVE FALSE
  <2>1. d * p >= d * 101
    BY <1>1, <1>2
  <2> QED BY <1>1, <2>1
<1>3. ASSUME p < 0 PROVE FALSE
  <2>1. d * p <= d * (-1)
    BY <1>1, <1>3
  <2> QED BY <1>1, <2>1
<1>4. p \in 0..100
  BY <1>1, <1>2, <1>3
<1> QED BY <1>4 DEF p

LEMMA Bounded ==
  ASSUME NEW lo \in Int, NEW hi \in Int, lo <= hi, NEW v \in Int
  PROVE  Between(lo, hi, v) \in lo..hi
  BY DEF Between, Larger, Smaller

LEMMA PercentageType ==
  ASSUME NEW theta \in Int
  PROVE  Percentage(theta) \in 0..100
<1>1. ThetaMax - ThetaMin \in Nat \ {0} /\ (theta - ThetaMin) * 100 \in Int
  BY Travel
<1>2. Rounded((theta - ThetaMin) * 100, ThetaMax - ThetaMin) \in Int
  BY <1>1, RoundedNear
<1>3. \A v \in Int : Between(0, 100, v) \in 0..100
  BY DEF Between, Larger, Smaller
<1> QED BY <1>2, <1>3 DEF Percentage

LEMMA ReachType ==
  ASSUME NEW theta \in Int
  PROVE  Reach(theta) \in ThetaMin..ThetaMax
  BY Travel, Bounded DEF Reach

LEMMA SunType ==
  ASSUME NEW i \in DOMAIN Sky
  PROVE  Sky[i] \in Sun /\ i \in Nat
  BY Suns

LEMMA AnglesType ==
  ASSUME NEW ray \in Sun, NEW airflow \in BOOLEAN
  PROVE  ShadeAngle(ray, airflow) \in Int /\ Reach(LightAngle(ray)) \in Int
<1>1. /\ ray.elev \in Int /\ ray.beta \in Int /\ ray.eff \in Int /\ ray.raw \in Int
      /\ ThetaMin \in Int /\ ThetaMax \in Int /\ PastAxis \in Int
      /\ ray.far \in BOOLEAN
  BY Travel DEF Sun
<1>2. \A theta \in Int : Reach(theta) \in Int
  BY ReachType, <1>1
<1>3. Reach(LightAngle(ray)) \in Int
  BY <1>1, <1>2 DEF LightAngle
<1>4. Flat(ray) \in Int /\ Steep(ray) \in Int
  BY <1>1 DEF Flat, Steep, Smaller
<1>5. \A a \in Int, b \in Int : NearestVertical(a, b) \in Int
  BY DEF NearestVertical
<1>6. Reach(0) \in Int /\ Reach(Flat(ray)) \in Int
      /\ Reach(Smaller(Flat(ray) - PastAxis, Vertical)) \in Int
  BY <1>1, <1>2, <1>4 DEF Smaller, Vertical
<1> DEFINE steep  == IF SteepFits(ray) THEN NearestVertical(Flat(ray), Steep(ray)) ELSE Flat(ray)
           opened == IF VerticalBlocks(ray) THEN NearestVertical(steep, Vertical) ELSE steep
<1>7. steep \in Int
  BY <1>4, <1>5
<1> HIDE DEF steep
<1>8. opened \in Int
  BY <1>5, <1>7 DEF Vertical
<1>9. Reach(IF airflow THEN opened ELSE Flat(ray)) \in Int
  BY <1>2, <1>4, <1>8
<1> HIDE DEF opened
<1>10. ShadeAngle(ray, airflow)
         = CASE ray.elev < FullCloseElevation -> FullCloseAngle
             [] ray.elev >= FullCloseElevation /\ ray.far ->
                  Reach(Smaller(Flat(ray) - PastAxis, Vertical))
             [] OTHER -> Reach(IF airflow THEN opened ELSE Flat(ray))
  BY Zenon DEF ShadeAngle, steep, opened
<1>11. FullCloseElevation \in Int
  BY DEF FullCloseElevation
<1> QED BY <1>1, <1>3, <1>6, <1>9, <1>10, <1>11 DEF FullCloseAngle

-----------------------------------------------------------------------------
(* The position the roof asks for is a percentage.                         *)

LEMMA CalculateType ==
  ASSUME NEW ray \in Sun, NEW roof \in Roofs
  PROVE  CalculatePercentage(ray, roof) \in 0..100
<1>1. /\ ray.shading \in BOOLEAN /\ ray.far \in BOOLEAN /\ roof.airflow \in BOOLEAN
      /\ roof.maxLight \in -1..100 /\ roof.lowSun \in -1..100
  BY DEF Sun, Roofs
<1>2. /\ Percentage(ShadeAngle(ray, roof.airflow)) \in 0..100
      /\ Percentage(Reach(LightAngle(ray))) \in 0..100
  BY <1>1, AnglesType, PercentageType
<1>3. roof.maxLight # None => roof.maxLight \in 0..100
  BY <1>1 DEF None
<1>4. LowSunRests(ray, roof) => roof.lowSun \in 0..100
  BY <1>1 DEF None, LowSunRests
<1> DEFINE p == CalculatePercentage(ray, roof)
<1>5. CASE ray.shading
  BY <1>1, <1>2, <1>5 DEF CalculatePercentage
<1>6. CASE ~ray.shading /\ roof.maxLight # None
  BY <1>1, <1>3, <1>6 DEF CalculatePercentage
<1>7. CASE ~ray.shading /\ roof.maxLight = None /\ LowSunRests(ray, roof)
  BY <1>1, <1>4, <1>7 DEF CalculatePercentage
<1>8. CASE ~ray.shading /\ roof.maxLight = None /\ ~LowSunRests(ray, roof)
  BY <1>1, <1>2, <1>8 DEF CalculatePercentage
<1> QED BY <1>1, <1>5, <1>6, <1>7, <1>8

LEMMA QuantizedType ==
  ASSUME NEW pct \in 0..100, NEW n \in Nat
  PROVE  Quantized(pct, n) \in 0..100
<1>1. CASE n < 1
  BY <1>1 DEF Quantized
<1>2. CASE n >= 1
  <2> DEFINE up    == ((100 - pct) * n + 99) \div 100
             level == Smaller(n, up)
  <2>1. (100 - pct) * n + 99 \in Int /\ (100 - pct) * n >= 0
    BY <1>2
  <2>2. up \in Int /\ up >= 0
    BY <2>1
  <2> HIDE DEF up
  <2>3. level \in 0..n
    BY <2>2, <1>2 DEF Smaller
  <2> HIDE DEF level
  <2>4. Rounded((n - level) * 100, n) \in 0..100
    <3>1. (n - level) * 100 \in Int /\ 0 <= (n - level) * 100 /\ (n - level) * 100 <= 100 * n
      BY <2>3
    <3> QED BY <3>1, <1>2, RoundedPercent
  <2> QED BY <2>4, <1>2 DEF Quantized, level, up
<1> QED BY <1>1, <1>2

LEMMA LimitedType ==
  ASSUME NEW v \in 0..100, NEW roof \in Roofs, NEW sunValid \in BOOLEAN
  PROVE  Limited(v, roof, sunValid) \in 0..100
<1>1. /\ roof.max \in 0..100 /\ roof.min \in 0..100 /\ roof.minTracking \in -1..100
  BY DEF Roofs
<1>2. EffectiveMin(roof, sunValid) \in 0..100
  BY <1>1 DEF EffectiveMin, None
<1>3. Between(0, 100, v) = v
  BY DEF Between, Larger, Smaller
<1>4. \A a \in 0..100, b \in 0..100 : Larger(a, b) \in 0..100 /\ Smaller(a, b) \in 0..100
  BY DEF Larger, Smaller
<1> QED BY <1>1, <1>2, <1>3, <1>4 DEF Limited

LEMMA SolarType ==
  ASSUME NEW i \in DOMAIN Sky, NEW roof \in Roofs
  PROVE  SolarPosition(Sky[i], roof) \in 0..100
<1>1. CalculatePercentage(Sky[i], roof) \in 0..100
  BY SunType, CalculateType
<1>2. roof.steps \in Nat
  BY DEF Roofs
<1>3. Stepped(CalculatePercentage(Sky[i], roof), roof) \in 0..100
  BY <1>1, <1>2, QuantizedType DEF Stepped
<1>4. \A v \in 0..100 : SolarFloor(v, roof) \in 0..100
  BY DEF SolarFloor, Larger
<1> QED BY <1>3, <1>4, LimitedType DEF SolarPosition

(* The look ahead asks one of the suns in reach.                           *)
LEMMA AnticipatedType ==
  ASSUME NEW i \in DOMAIN Sky, NEW roof \in Roofs
  PROVE  /\ Anticipated(i, roof) \in 0..100
         /\ roof.horizon = 0 => Anticipated(i, roof) = SolarPosition(Sky[i], roof)
<1> DEFINE ahead == {j \in DOMAIN Sky : j > i /\ j <= i + roof.horizon /\ DirectSun(Sky[j])}
           asked == {SolarPosition(Sky[j], roof) : j \in ahead \cup {i}}
<1>1. asked \subseteq 0..100 /\ SolarPosition(Sky[i], roof) \in asked
  BY SolarType
<1>2. \E p \in asked : \A q \in asked : p <= q
  <2> HIDE DEF asked
  <2>1. asked \in SUBSET Nat /\ asked # {}
    BY <1>1
  <2> QED BY <2>1, LeastNat
<1>3. Anticipated(i, roof) \in asked
  <2>1. Anticipated(i, roof) = CHOOSE p \in asked : \A q \in asked : p <= q
    BY Zenon DEF Anticipated
  <2> HIDE DEF asked
  <2> QED BY <2>1, <1>2
<1>4. ASSUME roof.horizon = 0 PROVE asked = {SolarPosition(Sky[i], roof)}
  <2>1. \A j \in DOMAIN Sky : j \in Nat
    BY SunType
  <2>2. ahead = {}
    BY <2>1, <1>4
  <2> QED BY <2>2
<1> QED BY <1>1, <1>3, <1>4

-----------------------------------------------------------------------------
(* The mean of the covers.                                                 *)

CoverStates == [Covers -> [pos : 0..100, manual : BOOLEAN]]

LEMMA CoversCounted == Cardinality(Covers) \in Nat \ {0}
  BY Instance, FS_CardinalityType, FS_EmptySet

LEMMA UpToCounted ==
  ASSUME NEW n \in Nat
  PROVE  IsFiniteSet(1..n) /\ Cardinality(1..n) = n
<1>1. 1 \in Int /\ n \in Int /\ (1 > n => n = 0)
  OBVIOUS
<1>2. IsFiniteSet(1..n) /\ Cardinality(1..n) = IF 1 > n THEN 0 ELSE n - 1 + 1
  BY <1>1, FS_Interval
<1> DEFINE size == Cardinality(1..n)
<1>3. size = IF 1 > n THEN 0 ELSE n - 1 + 1
  BY <1>2
<1> HIDE DEF size
<1>4. size = n
  BY <1>1, <1>3
<1> QED BY <1>2, <1>4 DEF size

LEMMA PercentsCounted == IsFiniteSet(1..100) /\ Cardinality(1..100) = 100
<1>1. 100 \in Nat
  OBVIOUS
<1> QED BY <1>1, UpToCounted, Zenon

LEMMA MeanType ==
  ASSUME NEW cs \in CoverStates
  PROVE  Mean(cs) \in 0..100
<1> DEFINE below == UNION {{c} \X (1..cs[c].pos) : c \in Covers}
           all   == Covers \X (1..100)
           n     == Cardinality(Covers)
<1>1. IsFiniteSet(1..100) /\ Cardinality(1..100) = 100
  BY PercentsCounted
<1>2. IsFiniteSet(all) /\ Cardinality(all) = n * 100
  BY <1>1, Instance, FS_Product
<1>3. below \subseteq all
  BY DEF CoverStates
<1> HIDE DEF below, all
<1>4. Cardinality(below) \in Nat /\ Cardinality(below) <= n * 100
  BY <1>2, <1>3, FS_Subset, FS_CardinalityType
<1>5. n \in Nat \ {0}
  BY CoversCounted
<1> DEFINE m == Cardinality(below)
<1>6. m \in Int /\ 0 <= m /\ m <= 100 * n
  BY <1>4, <1>5
<1>7. Mean(cs) = Rounded(m, n)
  BY DEF Mean, SumOf, below
<1> HIDE DEF m, n
<1> QED BY <1>5, <1>6, <1>7, RoundedPercent

-----------------------------------------------------------------------------
(* What a snapshot holds.                                                  *)

SnapshotOK(s) ==
  /\ OptionsOK(s.config) /\ s.roof \in Roofs
  /\ s.at \in DOMAIN Sky /\ s.sky = Sky[s.at]
  /\ s.covers \in CoverStates /\ s.flags \in Flags

LEMMA SnapshotIsOK ==
  ASSUME NEW g, OptionsOK(g), NEW i \in DOMAIN Sky, NEW slots, NEW r, NEW f \in Flags,
         NEW cs \in CoverStates, NEW manual
  PROVE  LET s == Snapshot(g, i, slots, r, f, cs, manual)
         IN  /\ SnapshotOK(s)
             /\ s.config = g /\ s.on = slots /\ s.sky = Sky[i] /\ s.at = i
             /\ s.cloudy = NoDirectSun(g, r) /\ s.manual = manual
             /\ s.flags = Seen(g, r, f) /\ s.roof = Roof(g, r)
<1> DEFINE s == Snapshot(g, i, slots, r, f, cs, manual)
<1>1. /\ s.config = g /\ s.on = slots /\ s.sky = Sky[i] /\ s.at = i
      /\ s.cloudy = NoDirectSun(g, r) /\ s.manual = manual /\ s.covers = cs
      /\ s.flags = Seen(g, r, f) /\ s.roof = Roof(g, r)
  BY DEF Snapshot
<1>2. Seen(g, r, f) \in Flags
  <2>1. /\ WeatherConfigured(g, r) \in BOOLEAN \/ TRUE
        /\ MotionTimeoutActive(f.motion, r) \in BOOLEAN
    BY DEF MotionTimeoutActive, Flags
  <2>2. (f.weather /\ WeatherConfigured(g, r)) \in BOOLEAN
    BY DEF Flags
  <2> QED BY <2>1, <2>2 DEF Seen, Flags
<1>3. Roof(g, r) \in Roofs
  <2>1. g.roof \in Roofs
    BY DEF OptionsOK
  <2>2. Airflow(g, r, g.roof.airflow) \in BOOLEAN
    BY <2>1 DEF Airflow, Roofs
  <2> QED BY <2>1, <2>2 DEF Roof, Roofs
<1> HIDE DEF s
<1>4. SnapshotOK(s)
  BY <1>1, <1>2, <1>3 DEF SnapshotOK
<1> QED BY <1>1, <1>4 DEF s

LEMMA OptionTypes ==
  ASSUME NEW g, OptionsOK(g)
  PROVE  /\ g.weather.pos \in 0..100 /\ g.weather.floor \in BOOLEAN /\ g.weather.bypass \in BOOLEAN
         /\ g.default \in 0..100 /\ g.sunset \in 0..100
         /\ (g.cloudy = None \/ g.cloudy \in 0..100)
         /\ (g.morning = None \/ g.morning \in 0..100) /\ (g.my = None \/ g.my \in 0..100)
         /\ \A n \in Slots : /\ g.slots[n].kind \in Kinds /\ g.slots[n].pos \in 0..100
                             /\ g.slots[n].priority \in 1..100 /\ Goal(g, n) \in 0..100
         /\ \A name \in {"weather", "manual", "motion", "cloud", "solar"} :
              Priority(g, name) \in 1..99
<1>1. /\ g.weather.pos \in 0..100 /\ g.weather.floor \in BOOLEAN /\ g.weather.bypass \in BOOLEAN
      /\ g.default \in 0..100 /\ g.sunset \in 0..100
      /\ (g.cloudy = None \/ g.cloudy \in 0..100)
      /\ (g.morning = None \/ g.morning \in 0..100) /\ (g.my = None \/ g.my \in 0..100)
  BY DEF OptionsOK, None
<1>2. \A n \in Slots : /\ g.slots[n].kind \in Kinds /\ g.slots[n].pos \in 0..100
                       /\ g.slots[n].priority \in 1..100
  BY DEF OptionsOK
<1>3. \A n \in Slots : Goal(g, n) \in 0..100
  BY <1>1, <1>2 DEF Goal
<1>4. ASSUME NEW name \in {"weather", "manual", "motion", "cloud", "solar"}
      PROVE  Priority(g, name) \in 1..99
  <2>1. g.priority[name] \in Int
    BY DEF OptionsOK
  <2> QED BY <2>1 DEF Priority, Between, Larger, Smaller
<1> QED BY <1>1, <1>2, <1>3, <1>4

LEMMA DefaultType ==
  ASSUME NEW s, SnapshotOK(s)
  PROVE  DefaultPosition(s) \in 0..100
<1>1. s.config.default \in 0..100 /\ s.config.sunset \in 0..100 /\ s.roof \in Roofs
  BY OptionTypes DEF SnapshotOK
<1> QED BY <1>1, LimitedType DEF DefaultPosition

-----------------------------------------------------------------------------
(* The handlers' matches.                                                  *)

(* What the properties need to know of a match at rank k.                  *)
Sound(s, k, w) ==
  /\ k \in Nat \ {0} /\ w \in Result /\ ~w.clamped
  /\ w.safety => w.method \in {"weather", "custom"}
  /\ w.method = "manual" <=> k = 2
  /\ w.method = "weather" <=> k = 1
  /\ w.method # "custom" => w.priority < SafetyPriority
  /\ w.method = "custom" =>
       /\ k > 2 /\ w.bypass /\ ~w.skip /\ w.held = None
       /\ w.safety = (w.priority >= SafetyPriority)
       /\ \E n \in Slots \cap s.on :
            /\ s.config.slots[n].kind \in {"fixed", "my"}
            /\ w.priority = s.config.slots[n].priority /\ w.position = Goal(s.config, n)
  /\ w.method = "solar" =>
       /\ k = 104 /\ w.priority = Priority(s.config, "solar")
       /\ DirectSun(s.sky) /\ s.flags.open /\ w.held = None
       /\ w.position = Anticipated(s.at, s.roof)

Matched(w, method, priority, position) ==
  /\ w \in Result /\ w.position = position /\ w.method = method /\ w.priority = priority
  /\ ~w.bypass /\ ~w.safety /\ ~w.skip /\ w.held = None /\ ~w.clamped

LEMMA MatchType ==
  ASSUME NEW method \in Methods, NEW priority \in 0..100, NEW position \in 0..100
  PROVE  Matched(Match(method, priority, position), method, priority, position)
  BY DEF Matched, Match, Result, None

LEMMA MethodNames ==
  /\ "weather" \in Methods /\ "manual" \in Methods /\ "motion" \in Methods
  /\ "custom" \in Methods
  /\ \A m \in {"cloud", "morning", "solar", "default"} :
       m \in Methods /\ m \in Methods \ {"weather", "manual", "custom"}
  BY DEF Methods

LEMMA WeatherMatch ==
  ASSUME NEW s, SnapshotOK(s), NEW w \in Weather(s)
  PROVE  Sound(s, 1, w)
<1> DEFINE m == Match("weather", Priority(s.config, "weather"), s.config.weather.pos)
<1>1. /\ s.config.weather.pos \in 0..100 /\ s.config.weather.bypass \in BOOLEAN
      /\ Priority(s.config, "weather") \in 1..99 /\ Priority(s.config, "weather") \in 0..100
  BY OptionTypes DEF SnapshotOK
<1>2. Matched(m, "weather", Priority(s.config, "weather"), s.config.weather.pos)
  BY <1>1, MatchType, MethodNames
<1>3. w = [m EXCEPT !.bypass = s.config.weather.bypass, !.safety = TRUE]
  BY Zenon DEF Weather, When
<1> HIDE DEF m
<1>4. w \in Result /\ ~w.clamped /\ w.method = "weather" /\ w.priority \in 1..99
  BY <1>1, <1>2, <1>3 DEF Result, Matched
<1> QED BY <1>4 DEF Sound, SafetyPriority

LEMMA ManualMatch ==
  ASSUME NEW s, SnapshotOK(s), NEW w \in Manual(s)
  PROVE  Sound(s, 2, w) /\ w.priority = Priority(s.config, "manual")
<1> DEFINE goal == IF DirectSun(s.sky) THEN SolarPosition(s.sky, s.roof) ELSE DefaultPosition(s)
           m == Match("manual", Priority(s.config, "manual"), goal)
<1>1. /\ goal \in 0..100 /\ Priority(s.config, "manual") \in 1..99
      /\ Priority(s.config, "manual") \in 0..100 /\ Mean(s.covers) \in 0..100
  BY OptionTypes, SolarType, DefaultType, MeanType DEF SnapshotOK
<1> HIDE DEF goal
<1>2. Matched(m, "manual", Priority(s.config, "manual"), goal)
  BY <1>1, MatchType, MethodNames
<1>3. w = [m EXCEPT !.held = Mean(s.covers)]
  BY Zenon DEF Manual, When, goal
<1> HIDE DEF m
<1>4. /\ w \in Result /\ ~w.clamped /\ w.method = "manual" /\ ~w.safety
      /\ w.priority = Priority(s.config, "manual")
  BY <1>1, <1>2, <1>3 DEF Result, Matched
<1> QED BY <1>1, <1>4 DEF Sound, SafetyPriority

LEMMA SlotMatch ==
  ASSUME NEW s, SnapshotOK(s), NEW n \in Slots, NEW w \in Slot(s, n)
  PROVE  /\ Sound(s, Rank(n), w) /\ w.method = "custom"
         /\ w.priority = s.config.slots[n].priority /\ w.position = Goal(s.config, n)
         /\ n \in s.on /\ s.config.slots[n].kind \in {"fixed", "my"}
<1> DEFINE slot == s.config.slots[n]
           m == Match("custom", slot.priority, Goal(s.config, n))
<1>1. /\ slot.priority \in 1..100 /\ slot.priority \in 0..100 /\ Goal(s.config, n) \in 0..100
  BY OptionTypes DEF SnapshotOK
<1> HIDE DEF slot
<1>2. Matched(m, "custom", slot.priority, Goal(s.config, n))
  BY <1>1, MatchType, MethodNames
<1>3. /\ n \in s.on /\ slot.kind \in {"fixed", "my"}
      /\ w = [m EXCEPT !.bypass = TRUE, !.safety = slot.priority >= SafetyPriority]
  BY Zenon DEF Slot, When, slot
<1> HIDE DEF m
<1>4. /\ w \in Result /\ ~w.clamped /\ w.method = "custom" /\ w.priority = slot.priority
      /\ w.position = Goal(s.config, n) /\ ~w.skip /\ w.held = None /\ w.bypass
      /\ w.safety = (slot.priority >= SafetyPriority)
  <2>1. (slot.priority >= SafetyPriority) \in BOOLEAN
    OBVIOUS
  <2> QED BY <1>1, <1>2, <1>3, <2>1 DEF Result, Matched
<1>5. Rank(n) \in Nat /\ Rank(n) > 2
  BY Instance DEF Rank
<1> QED BY <1>3, <1>4, <1>5 DEF Sound, slot

LEMMA MotionMatch ==
  ASSUME NEW s, SnapshotOK(s), NEW w \in Motion(s)
  PROVE  Sound(s, 101, w)
<1> DEFINE p == Priority(s.config, "motion")
           held == Match("motion", p, Mean(s.covers))
           rest == Match("motion", p, DefaultPosition(s))
<1>1. /\ p \in 1..99 /\ p \in 0..100 /\ Mean(s.covers) \in 0..100 /\ DefaultPosition(s) \in 0..100
  BY OptionTypes, DefaultType, MeanType DEF SnapshotOK
<1> HIDE DEF p
<1>2. Matched(held, "motion", p, Mean(s.covers)) /\ Matched(rest, "motion", p, DefaultPosition(s))
  BY <1>1, MatchType, MethodNames
<1>3. w \in {[held EXCEPT !.skip = TRUE], rest}
  BY Zenon DEF Motion, When, p
<1> HIDE DEF held, rest
<1>4. w \in Result /\ ~w.clamped /\ w.method = "motion" /\ ~w.safety /\ w.priority = p
  BY <1>2, <1>3 DEF Result, Matched
<1> QED BY <1>1, <1>4 DEF Sound, SafetyPriority

(* The handlers that say no more than a position.                          *)
LEMMA PlainMatch ==
  ASSUME NEW s, NEW k \in Nat, k > 2, NEW method \in Methods \ {"weather", "manual", "custom"},
         NEW priority \in 0..99, NEW position \in 0..100,
         method = "solar" =>
           /\ k = 104 /\ priority = Priority(s.config, "solar")
           /\ DirectSun(s.sky) /\ s.flags.open /\ position = Anticipated(s.at, s.roof)
  PROVE  Sound(s, k, Match(method, priority, position))
<1> DEFINE w == Match(method, priority, position)
<1>1. Matched(w, method, priority, position)
  <2>1. method \in Methods /\ priority \in 0..100
    OBVIOUS
  <2> QED BY <2>1, MatchType
<1> HIDE DEF w
<1>2. Sound(s, k, w)
  BY <1>1 DEF Sound, SafetyPriority, Matched
<1> QED BY <1>2 DEF w

LEMMA CloudMatch ==
  ASSUME NEW s, SnapshotOK(s), NEW w \in Cloud(s)
  PROVE  Sound(s, 102, w) /\ w.priority = Priority(s.config, "cloud")
<1> DEFINE p    == Priority(s.config, "cloud")
           goal == IF s.sky.night \/ s.config.cloudy = None THEN DefaultPosition(s)
                   ELSE Limited(s.config.cloudy, s.roof, FALSE)
<1>1. p \in 0..99 /\ p \in 0..100 /\ goal \in 0..100
  <2>1. /\ p \in 1..99 /\ s.roof \in Roofs
        /\ s.config.cloudy = None \/ s.config.cloudy \in 0..100
    BY OptionTypes DEF SnapshotOK
  <2>2. s.config.cloudy \in 0..100 => Limited(s.config.cloudy, s.roof, FALSE) \in 0..100
    BY <2>1, LimitedType
  <2>3. DefaultPosition(s) \in 0..100
    BY DefaultType
  <2>4. goal \in 0..100
    BY <2>1, <2>2, <2>3
  <2> HIDE DEF goal
  <2> QED BY <2>1, <2>4
<1>2. w = Match("cloud", p, goal)
  BY Zenon DEF Cloud, When
<1> HIDE DEF goal
<1> HIDE DEF p
<1>3. 102 \in Nat /\ 102 > 2 /\ "cloud" \in Methods \ {"weather", "manual", "custom"}
      /\ "cloud" \in Methods /\ "cloud" # "solar"
  BY MethodNames
<1>4. Matched(Match("cloud", p, goal), "cloud", p, goal)
  BY <1>1, <1>3, MatchType
<1>5. Sound(s, 102, Match("cloud", p, goal))
  BY <1>1, <1>3, PlainMatch
<1> QED BY <1>2, <1>4, <1>5 DEF Matched, p

LEMMA MorningMatch ==
  ASSUME NEW s, SnapshotOK(s), NEW w \in Morning(s)
  PROVE  Sound(s, 103, w)
<1> DEFINE goal == IF s.config.morning # None THEN s.config.morning ELSE DefaultPosition(s)
<1>1. goal \in 0..100
  BY OptionTypes, DefaultType DEF SnapshotOK
<1>2. w = Match("morning", 43, goal)
  BY Zenon DEF Morning, When
<1> HIDE DEF goal
<1>3. Sound(s, 103, Match("morning", 43, goal))
  <2>1. 103 \in Nat /\ 103 > 2 /\ "morning" \in Methods \ {"weather", "manual", "custom"}
        /\ 43 \in 0..99 /\ "morning" # "solar"
    BY MethodNames
  <2> QED BY <1>1, <2>1, PlainMatch
<1> QED BY <1>2, <1>3

LEMMA SolarMatch ==
  ASSUME NEW s, SnapshotOK(s), NEW w \in Solar(s)
  PROVE  Sound(s, 104, w)
<1>1. Priority(s.config, "solar") \in 1..99 /\ Anticipated(s.at, s.roof) \in 0..100
  BY OptionTypes, AnticipatedType DEF SnapshotOK
<1>2. /\ s.flags.open /\ DirectSun(s.sky)
      /\ w = Match("solar", Priority(s.config, "solar"), Anticipated(s.at, s.roof))
  BY Zenon DEF Solar, When
<1>3. Sound(s, 104, Match("solar", Priority(s.config, "solar"), Anticipated(s.at, s.roof)))
  <2>1. /\ 104 \in Nat /\ 104 > 2 /\ "solar" \in Methods \ {"weather", "manual", "custom"}
        /\ Priority(s.config, "solar") \in 0..99
    BY <1>1, MethodNames
  <2> QED BY <1>1, <1>2, <2>1, PlainMatch
<1> QED BY <1>2, <1>3

LEMMA DefaultMatch ==
  ASSUME NEW s, SnapshotOK(s), NEW w \in Default(s)
  PROVE  Sound(s, 105, w)
<1> DEFINE goal == IF s.sky.night /\ s.config.sunsetMy /\ s.config.my # None
                     THEN s.config.my ELSE DefaultPosition(s)
<1>1. goal \in 0..100
  BY OptionTypes, DefaultType DEF SnapshotOK
<1>2. w = Match("default", 0, goal)
  BY Zenon DEF Default
<1> HIDE DEF goal
<1>3. Sound(s, 105, Match("default", 0, goal))
  <2>1. 105 \in Nat /\ 105 > 2 /\ "default" \in Methods \ {"weather", "manual", "custom"}
        /\ 0 \in 0..99 /\ "default" # "solar"
    BY MethodNames
  <2> QED BY <1>1, <2>1, PlainMatch
<1> QED BY <1>2, <1>3

LEMMA RankedSound ==
  ASSUME NEW s, SnapshotOK(s), NEW x \in Ranked(s)
  PROVE  Sound(s, x[1], x[2]) /\ x[2] \in Result
<1>1. CASE x \in {1} \X Weather(s)
  BY <1>1, WeatherMatch DEF Sound
<1>2. CASE x \in {2} \X Manual(s)
  BY <1>2, ManualMatch DEF Sound
<1>3. CASE \E n \in Slots : x \in {Rank(n)} \X Slot(s, n)
  BY <1>3, SlotMatch DEF Sound
<1>4. CASE x \in {101} \X Motion(s)
  BY <1>4, MotionMatch DEF Sound
<1>5. CASE x \in {102} \X Cloud(s)
  BY <1>5, CloudMatch DEF Sound
<1>6. CASE x \in {103} \X Morning(s)
  BY <1>6, MorningMatch DEF Sound
<1>7. CASE x \in {104} \X Solar(s)
  BY <1>7, SolarMatch DEF Sound
<1>8. CASE x \in {105} \X Default(s)
  BY <1>8, DefaultMatch DEF Sound
<1>9. \/ x \in {1} \X Weather(s) \/ x \in {2} \X Manual(s)
      \/ \E n \in Slots : x \in {Rank(n)} \X Slot(s, n)
      \/ x \in {101} \X Motion(s) \/ x \in {102} \X Cloud(s) \/ x \in {103} \X Morning(s)
      \/ x \in {104} \X Solar(s) \/ x \in {105} \X Default(s)
  <2>1. x \in Ranked(s)
    OBVIOUS
  <2> QED BY ONLY <2>1 DEF Ranked
<1> QED BY ONLY <1>1, <1>2, <1>3, <1>4, <1>5, <1>6, <1>7, <1>8, <1>9

-----------------------------------------------------------------------------
(* The winner, the floor and the result.                                   *)

LEMMA BestExists ==
  ASSUME NEW T, T # {}, \A x \in T : x[1] \in Nat /\ x[2].priority \in 0..100
  PROVE  Best(T) \in T /\ \A y \in T : Precedes(Best(T), y)
<1> DEFINE gaps == {100 - x[2].priority : x \in T}
<1>1. \A y \in T : 100 - y[2].priority \in gaps /\ y[2].priority \in 0..100
  OBVIOUS
<1>2. gaps \in SUBSET Nat /\ gaps # {}
  OBVIOUS
<1>3. \E x \in T : \A y \in T : x[2].priority >= y[2].priority
  <2>1. \A gap \in gaps : \E x \in T : gap = 100 - x[2].priority
    OBVIOUS
  <2> HIDE DEF gaps
  <2>2. PICK gap \in gaps : \A q \in gaps : gap <= q
    BY <1>2, LeastNat
  <2>3. PICK x \in T : gap = 100 - x[2].priority
    BY <2>1
  <2>4. ASSUME NEW y \in T PROVE x[2].priority >= y[2].priority
    <3>1. 100 - x[2].priority <= 100 - y[2].priority
      BY <1>1, <2>2, <2>3
    <3>2. x[2].priority \in Int /\ y[2].priority \in Int
      BY <1>1, <2>3
    <3> QED BY <3>1, <3>2
  <2> QED BY <2>4
<1>4. PICK a \in T : \A y \in T : a[2].priority >= y[2].priority
  BY <1>3
<1> DEFINE top   == {x \in T : x[2].priority = a[2].priority}
           ranks == {x[1] : x \in top}
<1>5. /\ ranks \in SUBSET Nat /\ ranks # {}
      /\ \A x \in top : x[1] \in ranks
      /\ \A rank \in ranks : \E x \in top : rank = x[1]
  OBVIOUS
<1>6. PICK x \in top : \A y \in top : x[1] <= y[1]
  <2> HIDE DEF ranks
  <2>1. PICK rank \in ranks : \A q \in ranks : rank <= q
    BY <1>5, LeastNat
  <2> QED BY <1>5, <2>1
<1>7. ASSUME NEW y \in T PROVE Precedes(x, y)
  <2>1. x[2].priority >= y[2].priority
    BY <1>4, <1>6
  <2>2. x[2].priority = y[2].priority => x[1] <= y[1]
    BY <1>6
  <2>3. x[2].priority \in Int /\ y[2].priority \in Int
    BY <1>6
  <2> QED BY <2>1, <2>2, <2>3 DEF Precedes
<1>8. x \in T
  BY <1>6
<1> QED BY <1>7, <1>8 DEF Best

(* The decision is the match that no other precedes.                       *)
Wins(s, x) == x \in Ranked(s) /\ Winner(s) = x[2] /\ \A y \in Ranked(s) : Precedes(x, y)

LEMMA WinnerExists ==
  ASSUME NEW s, SnapshotOK(s)
  PROVE  \E x : Wins(s, x) /\ Sound(s, x[1], x[2]) /\ x[2] \in Result
<1>1. \A x \in Ranked(s) : Sound(s, x[1], x[2]) /\ x[2] \in Result
  BY RankedSound
<1>2. \A x \in Ranked(s) : x[1] \in Nat /\ x[2].priority \in 0..100
  BY <1>1 DEF Sound, Result
<1>3. Ranked(s) # {}
  <2>1. PICK w : w \in Default(s)
    BY Zenon DEF Default
  <2>2. <<105, w>> \in Ranked(s)
    BY <2>1 DEF Ranked
  <2> QED BY <2>2
<1>4. Best(Ranked(s)) \in Ranked(s) /\ \A y \in Ranked(s) : Precedes(Best(Ranked(s)), y)
  BY <1>2, <1>3, BestExists
<1> QED BY <1>1, <1>4 DEF Wins, Winner

LEMMA GreatestExists ==
  ASSUME NEW S \in SUBSET (0..100), S # {}
  PROVE  Greatest(S) \in S /\ \A q \in S : Greatest(S) >= q
<1> DEFINE gaps == {100 - p : p \in S}
<1>1. /\ gaps \in SUBSET Nat /\ gaps # {}
      /\ \A q \in S : 100 - q \in gaps /\ q \in 0..100
      /\ \A gap \in gaps : \E p \in S : gap = 100 - p
  <2>1. \A q \in S : q \in 0..100 /\ 100 - q \in Nat
    OBVIOUS
  <2>2. gaps \in SUBSET Nat /\ gaps # {}
    BY <2>1
  <2>3. \A q \in S : 100 - q \in gaps
    OBVIOUS
  <2>4. \A gap \in gaps : \E p \in S : gap = 100 - p
    OBVIOUS
  <2> HIDE DEF gaps
  <2> QED BY <2>1, <2>2, <2>3, <2>4
<1> HIDE DEF gaps
<1>2. PICK gap \in gaps : \A q \in gaps : gap <= q
  BY <1>1, LeastNat
<1>3. PICK p \in S : gap = 100 - p
  BY <1>1
<1>4. ASSUME NEW q \in S PROVE p >= q
  <2>1. 100 - p <= 100 - q
    BY <1>1, <1>2, <1>3
  <2> QED BY <1>1, <2>1
<1> QED BY <1>4 DEF Greatest

LEMMA FloorType ==
  ASSUME NEW g, OptionsOK(g), NEW s, s.config = g, s.on \subseteq Slots
  PROVE  Floor(s) \in 0..100
<1>1. Floors(s) \subseteq 0..100
  BY OptionTypes DEF Floors
<1>2. Floors(s) # {}
  BY DEF Floors
<1> QED BY <1>1, <1>2, GreatestExists DEF Floor

LEMMA RaisedType ==
  ASSUME NEW w \in Result, ~w.clamped, NEW floor \in 0..100
  PROVE  LET r == Raised(w, floor)
         IN  /\ r \in Result
             /\ r.method = w.method /\ r.priority = w.priority /\ r.bypass = w.bypass
             /\ r.safety = w.safety /\ r.skip = w.skip
             /\ r.clamped => r.position = floor
             /\ ~r.clamped => r.position = w.position
             /\ w.held = None => r.position = Larger(w.position, floor)
<1> DEFINE raised == [w EXCEPT !.position = floor, !.clamped = TRUE]
<1>1. /\ raised \in Result /\ raised.method = w.method /\ raised.priority = w.priority
      /\ raised.bypass = w.bypass /\ raised.safety = w.safety /\ raised.skip = w.skip
      /\ raised.clamped /\ raised.position = floor
  BY DEF Result
<1>2. w.position \in 0..100
  BY DEF Result
<1>3. Raised(w, floor) = raised \/ Raised(w, floor) = w
  BY Zenon DEF Raised
<1>4. w.held = None => Raised(w, floor) = IF floor > w.position THEN raised ELSE w
  BY <1>2 DEF Raised
<1> HIDE DEF raised
<1> QED BY <1>1, <1>2, <1>3, <1>4 DEF Larger

(* What the result of a cycle keeps of the winner w.                       *)
Keeps(r, w, floor) ==
  /\ r \in Result
  /\ r.method = w.method /\ r.priority = w.priority /\ r.bypass = w.bypass
  /\ r.safety = w.safety /\ r.skip = w.skip
  /\ r.clamped => r.position = floor
  /\ ~r.clamped => r.position = w.position
  /\ w.held = None => r.position = Larger(w.position, floor)

Decides(s, x, r) ==
  Wins(s, x) /\ Sound(s, x[1], x[2]) /\ x[2] \in Result /\ Keeps(r, x[2], Floor(s))

LEMMA Evaluated ==
  ASSUME NEW s, SnapshotOK(s), s.on \subseteq Slots
  PROVE  /\ \E x : Decides(s, x, Evaluate(s))
         /\ Floor(s) \in 0..100
<1>1. Floor(s) \in 0..100
  BY FloorType DEF SnapshotOK
<1>2. PICK x : Wins(s, x) /\ Sound(s, x[1], x[2]) /\ x[2] \in Result
  BY WinnerExists
<1>3. ~x[2].clamped
  BY <1>2 DEF Sound
<1>4. Keeps(Raised(x[2], Floor(s)), x[2], Floor(s))
  BY <1>1, <1>2, <1>3, RaisedType DEF Keeps
<1>5. Evaluate(s) = Raised(x[2], Floor(s))
  BY <1>2 DEF Evaluate, Wins
<1>6. Decides(s, x, Evaluate(s))
  BY <1>2, <1>4, <1>5 DEF Decides
<1> QED BY <1>1, <1>6

-----------------------------------------------------------------------------
(* What is sent is a percentage.                                           *)

LEMMA Blend ==
  ASSUME NEW a \in 0..100, NEW b \in 0..100, NEW v \in 0..100
  PROVE  /\ a * 100 + v * (b - a) \in Int
         /\ 0 <= a * 100 + v * (b - a) /\ a * 100 + v * (b - a) <= 100 * 100
<1> DEFINE d == b - a
           p == v * d
<1>1. d \in Int /\ p \in Int
  OBVIOUS
<1>2. CASE d >= 0
  <2>1. 0 <= p /\ p <= 100 * d
    BY <1>2
  <2> HIDE DEF p
  <2> QED BY <1>1, <2>1 DEF p
<1>3. CASE d < 0
  <2>1. p <= 0 /\ 100 * d <= p
    BY <1>3
  <2> HIDE DEF p
  <2> QED BY <1>1, <2>1 DEF p
<1> QED BY <1>1, <1>2, <1>3

LEMMA InterpolatedType ==
  ASSUME NEW v \in 0..100, NEW range \in (0..100) \X (0..100)
  PROVE  Interpolated(v, range) \in 0..100
<1>1. range[1] \in 0..100 /\ range[2] \in 0..100
  OBVIOUS
<1> DEFINE n == range[1] * 100 + v * (range[2] - range[1])
<1>2. n \in Int /\ 0 <= n /\ n <= 100 * 100
  BY <1>1, Blend
<1> HIDE DEF n
<1>3. Rounded(n, 100) \in 0..100
  BY <1>2, RoundedPercent
<1> QED BY <1>3 DEF Interpolated, n

LEMMA StateType ==
  ASSUME NEW g, OptionsOK(g), NEW r \in Result
  PROVE  /\ StateOf(g, r) \in 0..100
         /\ r.bypass \/ r.clamped => StateOf(g, r) = r.position
<1>1. r.position \in 0..100 /\ 100 - r.position \in 0..100
  BY DEF Result
<1>2. CASE r.bypass \/ r.clamped
  BY <1>1, <1>2 DEF StateOf
<1>3. CASE ~(r.bypass \/ r.clamped) /\ g.range # <<>>
  <2>1. Interpolated(r.position, g.range) \in 0..100
    BY <1>1, <1>3, InterpolatedType DEF OptionsOK
  <2> QED BY <1>3, <2>1 DEF StateOf
<1>4. CASE ~(r.bypass \/ r.clamped) /\ g.range = <<>>
  BY <1>1, <1>4 DEF StateOf
<1> QED BY <1>2, <1>3, <1>4

-----------------------------------------------------------------------------
(* A cycle.                                                                *)

LEMMA TypeFacts ==
  ASSUME TypeOK
  PROVE  /\ OptionsOK(Options) /\ config \in DOMAIN Configs /\ sun \in DOMAIN Sky
         /\ on \subseteq Slots /\ flags \in Flags /\ covers \in CoverStates /\ result \in Result
         /\ report \in Reports(Says[config])
  BY Instance DEF TypeOK, Options, CoverStates

(* The snapshot of a cycle, and the decision it leads to.                  *)
Answers(s, trigger) ==
  /\ SnapshotOK(s) /\ s.config = Options /\ s.on = on' /\ s.sky = Sky[sun'] /\ s.at = sun'
  /\ s.cloudy = NoDirectSun(Options, report') /\ (s.manual <=> \E c \in Covers : covers[c].manual)
  /\ s.flags = Seen(Options, report', flags') /\ s.roof = Roof(Options, report')
  /\ result' = Evaluate(s) /\ Floor(s) \in 0..100
  /\ \E late \in Lates :
       Dispatch(result', StateOf(Options, result'), Forced(result', trigger, on \ on'), late, on \ on')
  /\ StateOf(Options, result') \in 0..100

LEMMA HandleAnswers ==
  ASSUME TypeOK, NEW trigger, Handle(trigger),
         sun' \in DOMAIN Sky, on' \subseteq Slots, flags' \in Flags
  PROVE  \E s, x : Answers(s, trigger) /\ Decides(s, x, result')
<1> DEFINE s == Snapshot(Options, sun', on', report', flags', covers, Held(covers) # {})
<1>1. /\ SnapshotOK(s) /\ s.config = Options /\ s.on = on' /\ s.sky = Sky[sun'] /\ s.at = sun'
      /\ s.cloudy = NoDirectSun(Options, report') /\ s.manual = (Held(covers) # {})
      /\ s.flags = Seen(Options, report', flags') /\ s.roof = Roof(Options, report')
  BY TypeFacts, SnapshotIsOK
<1>2. Held(covers) # {} <=> \E c \in Covers : covers[c].manual
  BY DEF Held
<1>3. /\ result' = Evaluate(s)
      /\ \E late \in Lates :
           Dispatch(result', StateOf(Options, result'), Forced(result', trigger, on \ on'), late, on \ on')
  BY Zenon DEF Handle
<1> HIDE DEF s
<1>4. (\E x : Decides(s, x, Evaluate(s))) /\ Floor(s) \in 0..100
  BY <1>1, Evaluated
<1>5. PICK x : Decides(s, x, result')
  BY <1>3, <1>4
<1>6. result' \in Result
  BY <1>5 DEF Decides, Keeps
<1>7. StateOf(Options, result') \in 0..100
  BY <1>6, TypeFacts, StateType
<1>8. Answers(s, trigger)
  BY <1>1, <1>2, <1>3, <1>4, <1>7 DEF Answers
<1> QED BY <1>5, <1>8

LEMMA AnswerType ==
  ASSUME TypeOK, NEW s, NEW x, NEW trigger, Answers(s, trigger), Decides(s, x, result')
  PROVE  covers' \in CoverStates /\ result' \in Result
<1>1. result' \in Result
  BY DEF Decides, Keeps
<1> DEFINE to == StateOf(Options, result')
<1>2. PICK moved \in [Covers -> BOOLEAN] :
        covers' = [c \in Covers |-> IF moved[c] THEN [covers[c] EXCEPT !.pos = to] ELSE covers[c]]
  <2>1. PICK late \in Lates :
          Dispatch(result', to, Forced(result', trigger, on \ on'), late, on \ on')
    BY DEF Answers
  <2> DEFINE moved == [c \in Covers |->
               /\ ~Outside(result', on \ on') /\ ~result'.skip
               /\ Sent(result', c, to, Forced(result', trigger, on \ on'), Appeared, late)]
  <2>2. covers' = [c \in Covers |-> IF moved[c] THEN [covers[c] EXCEPT !.pos = to] ELSE covers[c]]
    BY <2>1 DEF Dispatch
  <2>3. moved \in [Covers -> BOOLEAN]
    OBVIOUS
  <2> QED BY <2>2, <2>3
<1>3. to \in 0..100 /\ covers \in CoverStates
  BY TypeFacts DEF Answers
<1> HIDE DEF to
<1>4. ASSUME NEW c \in Covers PROVE covers'[c] \in [pos : 0..100, manual : BOOLEAN]
  <2>1. covers[c] \in [pos : 0..100, manual : BOOLEAN]
    BY <1>3 DEF CoverStates
  <2> QED BY <1>2, <1>3, <2>1
<1>5. covers' \in CoverStates
  BY <1>2, <1>4 DEF CoverStates
<1> QED BY <1>1, <1>5

-----------------------------------------------------------------------------
(* What is forced reaches every cover.                                     *)

LEMMA SlackType == TypeOK => Slack \in Nat /\ Slack >= Tolerance /\ Slack >= Options.tolerance
<1> SUFFICES ASSUME TypeOK PROVE Slack \in Nat /\ Slack >= Tolerance /\ Slack >= Options.tolerance
  OBVIOUS
<1>1. Options.tolerance \in Nat
  BY TypeFacts DEF OptionsOK
<1> QED BY <1>1 DEF Slack, Larger, Tolerance

LEMMA AtTargetNear ==
  ASSUME TypeOK, NEW r, NEW from \in 0..100, NEW to \in 0..100, NEW appeared,
         AtTarget(r, from, to, appeared)
  PROVE  Away(from, to) <= Slack
<1>1. Options.tolerance \in Nat
  BY TypeFacts DEF OptionsOK
<1>2. CASE from = to
  BY <1>2, SlackType DEF Away
<1>3. CASE Away(from, to) <= Tolerance
  BY <1>3, SlackType DEF Away, Tolerance
<1>4. CASE Away(from, to) <= Options.tolerance
  BY <1>1, <1>4, SlackType DEF Away
<1> QED BY <1>2, <1>3, <1>4 DEF AtTarget

LEMMA ForcedReaches ==
  ASSUME TypeOK, NEW r, NEW to \in 0..100, NEW force, NEW late, NEW released,
         Dispatch(r, to, force, late, released), force,
         ~Outside(r, released), ~r.skip, r.safety \/ flags'.auto \/ r.bypass
  PROVE  \A c \in Covers : covers'[c].pos \in 0..100 /\ Away(covers'[c].pos, to) <= Slack
<1> TAKE c \in Covers
<1>1. covers[c].pos \in 0..100 /\ DOMAIN covers = Covers
      /\ covers[c] \in [pos : 0..100, manual : BOOLEAN]
  BY TypeFacts DEF CoverStates
<1>2. covers'[c] = IF Sent(r, c, to, force, Appeared, late)
                     THEN [covers[c] EXCEPT !.pos = to] ELSE covers[c]
  BY DEF Dispatch
<1>3. CASE Sent(r, c, to, force, Appeared, late)
  <2>1. covers'[c].pos = to
    BY <1>1, <1>2, <1>3
  <2> QED BY <2>1, SlackType DEF Away
<1>4. CASE ~Sent(r, c, to, force, Appeared, late)
  <2>1. AtTarget(r, covers[c].pos, to, Appeared)
    BY <1>4 DEF Sent
  <2> QED BY <1>1, <1>2, <1>4, <2>1, AtTargetNear
<1> QED BY <1>3, <1>4

LEMMA FloorSame ==
  ASSUME NEW s, NEW t, s.config = t.config, s.on = t.on, s.flags = t.flags
  PROVE  Floor(s) = Floor(t)
  BY DEF Floor, Floors

LEMMA FloorNowIs ==
  ASSUME TypeOK, NEW s, NEW trigger, Answers(s, trigger), config' = config
  PROVE  FloorNow' = Floor(s) /\ Options' = Options
<1>1. Options' = Options
  BY DEF Options
<1> DEFINE t == [config |-> Options, on |-> on', flags |-> Seen(Options, report', flags')]
<1>2. s.config = t.config /\ s.on = t.on /\ s.flags = t.flags
  BY DEF Answers
<1>3. FloorNow' = Floor(t)
  BY <1>1 DEF FloorNow
<1> HIDE DEF t
<1> QED BY <1>1, <1>2, <1>3, FloorSame

LEMMA SlackKept == config' = config => Slack' = Slack
  BY DEF Slack, Options, Tolerance

LEMMA AnswerSafety ==
  ASSUME TypeOK, NEW s, NEW x, NEW trigger, Answers(s, trigger), Decides(s, x, result'),
         config' = config, on' \subseteq Slots, SafetySlots' # {}
  PROVE  \E n \in SafetySlots' : \A c \in Covers :
           Away(covers'[c].pos, Larger(Goal(Options', n), FloorNow')) <= Slack'
<1>1. s.config = Options /\ s.on = on' /\ SnapshotOK(s) /\ Options' = Options /\ FloorNow' = Floor(s)
  BY FloorNowIs DEF Answers
<1>2. \A n : n \in SafetySlots' <=>
             /\ n \in on' /\ Options.slots[n].kind \in {"fixed", "my"}
             /\ Options.slots[n].priority >= SafetyPriority
  BY <1>1 DEF SafetySlots, SafetySlot
<1>3. PICK m \in Slots : m \in SafetySlots'
  BY <1>2
<1>4. \E w : w \in Slot(s, m)
  BY <1>1, <1>2, <1>3, Zenon DEF Slot, When
<1>5. PICK w : w \in Slot(s, m)
  BY <1>4
<1>6. w.priority = Options.slots[m].priority /\ w.priority >= SafetyPriority
  BY <1>1, <1>2, <1>3, <1>5, SlotMatch
<1>7. <<Rank(m), w>> \in Ranked(s)
  BY <1>5 DEF Ranked
<1>8. x[2].priority >= SafetyPriority
  <2>1. Precedes(x, <<Rank(m), w>>)
    BY <1>7 DEF Decides, Wins
  <2>2. x[2].priority \in Int /\ w.priority \in Int
    <3>1. w.priority \in Int
      BY <1>1, <1>6, TypeFacts, OptionTypes
    <3> QED BY <3>1 DEF Decides, Result
  <2> QED BY <1>6, <2>1, <2>2 DEF Precedes, SafetyPriority
<1>9. x[2].method = "custom"
  <2>1. x[2].priority \in Int
    BY DEF Decides, Result
  <2> QED BY <1>8, <2>1 DEF Decides, Sound, SafetyPriority
<1>10. PICK n \in Slots \cap s.on :
         /\ s.config.slots[n].kind \in {"fixed", "my"}
         /\ x[2].priority = s.config.slots[n].priority /\ x[2].position = Goal(s.config, n)
  BY <1>9 DEF Decides, Sound
<1>11. n \in SafetySlots'
  BY <1>1, <1>2, <1>8, <1>10
<1> DEFINE r  == result'
           to == Larger(Goal(Options, n), Floor(s))
<1>12. /\ r.bypass /\ ~r.skip /\ r.safety /\ r.position = to /\ r \in Result
  BY <1>1, <1>8, <1>9, <1>10 DEF Decides, Sound, Keeps
<1>13. StateOf(Options, r) = to
  BY <1>12, StateType, TypeFacts
<1>14. to \in 0..100
  BY <1>12 DEF Result
<1>15. PICK late \in Lates : Dispatch(r, to, Forced(r, trigger, on \ on'), late, on \ on')
  BY <1>13 DEF Answers
<1>16. Forced(r, trigger, on \ on') /\ ~Outside(r, on \ on')
  BY <1>12 DEF Forced, Outside
<1> HIDE DEF r, to
<1>17. \A c \in Covers : Away(covers'[c].pos, to) <= Slack
  BY <1>12, <1>14, <1>15, <1>16, ForcedReaches
<1> QED BY <1>1, <1>11, <1>17, SlackKept DEF to

LEMMA AnswerFloor ==
  ASSUME TypeOK, NEW s, NEW x, NEW trigger, Answers(s, trigger), Decides(s, x, result'),
         config' = config, result'.clamped, ~result'.skip, flags'.open,
         flags'.auto \/ result'.bypass
  PROVE  \A c \in Covers : covers'[c].pos >= FloorNow' - Slack'
<1>1. FloorNow' = Floor(s) /\ Slack' = Slack
  BY FloorNowIs, SlackKept
<1> DEFINE r == result'
           to == Floor(s)
<1>2. r \in Result /\ r.position = to
  BY DEF Decides, Keeps
<1>3. StateOf(Options, r) = to
  BY <1>2, StateType, TypeFacts
<1>4. to \in 0..100
  BY DEF Answers
<1>5. PICK late \in Lates : Dispatch(r, to, Forced(r, trigger, on \ on'), late, on \ on')
  BY <1>3 DEF Answers
<1>6. Forced(r, trigger, on \ on') /\ ~Outside(r, on \ on')
  BY DEF Forced, Outside
<1> HIDE DEF r, to
<1>7. ~r.skip /\ (r.safety \/ flags'.auto \/ r.bypass)
  BY DEF r
<1>8. \A c \in Covers : covers'[c].pos \in 0..100 /\ Away(covers'[c].pos, to) <= Slack
  BY <1>4, <1>5, <1>6, <1>7, ForcedReaches
<1>9. ASSUME NEW c \in Covers PROVE covers'[c].pos >= to - Slack
  <2>1. covers'[c].pos \in Int /\ to \in Int /\ Slack \in Nat /\ Away(covers'[c].pos, to) <= Slack
    BY <1>4, <1>8, SlackType
  <2> QED BY <2>1 DEF Away
<1> QED BY <1>1, <1>9 DEF to

-----------------------------------------------------------------------------
(* The slats block the sun.                                                *)

Blocked(theta, ray) == Away(theta, ray.beta) >= ray.eff \/ (theta = ThetaMax /\ SteepFits(ray))

(* A sun whose flat blocking pose the travel reaches, and the vertical.    *)
Reachable(ray) ==
  /\ ray.shading /\ ray.elev >= FullCloseElevation
  /\ ThetaMax >= Vertical /\ 100 * (ray.eff - ray.raw) >= ThetaMax - ThetaMin
  /\ (IF ray.far THEN Flat(ray) - PastAxis ELSE Flat(ray)) >= ThetaMin

LEMMA ShadeBlocks ==
  ASSUME NEW ray \in Sun, Reachable(ray), NEW airflow \in BOOLEAN
  PROVE  ShadeAngle(ray, airflow) \in ThetaMin..ThetaMax /\ Blocked(ShadeAngle(ray, airflow), ray)
<1> DEFINE beta == ray.beta
           eff  == ray.eff
           raw  == ray.raw
           flat == beta - eff
<1>1. /\ ray.elev \in Int /\ beta \in Int /\ eff \in Nat /\ raw \in Nat
      /\ ThetaMin \in Int /\ ThetaMax \in Int /\ PastAxis \in Nat /\ ThetaMin < ThetaMax
      /\ ray.far \in BOOLEAN /\ ray.elev >= 2 /\ ThetaMax >= 90 /\ Flat(ray) = flat
  BY Travel DEF Sun, Reachable, Flat, FullCloseElevation, Vertical
<1> HIDE DEF beta, eff, raw
<1>2. CASE ray.far
  <2> DEFINE theta == Smaller(flat - PastAxis, 90)
  <2>1. ShadeAngle(ray, airflow) = Reach(theta)
    BY <1>1, <1>2 DEF ShadeAngle, FullCloseElevation, Vertical
  <2>2. flat - PastAxis >= ThetaMin
    BY <1>1, <1>2 DEF Reachable
  <2>3. Reach(theta) \in ThetaMin..ThetaMax /\ Reach(theta) <= flat
    BY <1>1, <2>2 DEF Reach, Between, Smaller, Larger
  <2>4. Away(Reach(theta), beta) >= eff
    BY <1>1, <2>3 DEF Away
  <2> QED BY <2>1, <2>3, <2>4 DEF Blocked, beta, eff
<1>3. CASE ~ray.far
  <2>1. flat >= ThetaMin
    BY <1>1, <1>3 DEF Reachable
  <2> DEFINE Good(t) == t \in Int /\ t >= ThetaMin
                        /\ (t <= flat \/ (t <= ThetaMax /\ (t >= beta + eff \/ (t = ThetaMax /\ beta + raw <= ThetaMax))))
             steep  == IF SteepFits(ray) THEN NearestVertical(Flat(ray), Steep(ray)) ELSE Flat(ray)
             opened == IF VerticalBlocks(ray) THEN NearestVertical(steep, Vertical) ELSE steep
  <2>2. Good(flat)
    BY <1>1, <2>1
  <2>3. ASSUME SteepFits(ray) PROVE Good(Steep(ray))
    <3>1. Steep(ray) = Smaller(beta + eff, ThetaMax) /\ beta + raw <= ThetaMax
      BY <2>3 DEF Steep, SteepFits, beta, eff, raw
    <3> QED BY <1>1, <2>1, <3>1 DEF Smaller
  <2>4. ASSUME VerticalBlocks(ray) PROVE Good(Larger(90, ThetaMin))
    <3>1. Away(90, beta) >= eff
      BY <2>4 DEF VerticalBlocks, Vertical, beta, eff
    <3> QED BY <1>1, <2>1, <3>1 DEF Away, Larger
  <2>5. Reach(IF airflow THEN opened ELSE Flat(ray)) = Reach(flat)
        \/ (SteepFits(ray) /\ Reach(IF airflow THEN opened ELSE Flat(ray)) = Reach(Steep(ray)))
        \/ (VerticalBlocks(ray) /\ Reach(IF airflow THEN opened ELSE Flat(ray)) = Reach(90))
    BY <1>1 DEF NearestVertical, Vertical
  <2>6. Reach(90) = Reach(Larger(90, ThetaMin))
    BY <1>1 DEF Reach, Between, Smaller, Larger
  <2>7. ASSUME NEW t, Good(t) PROVE Reach(t) \in ThetaMin..ThetaMax /\ Blocked(Reach(t), ray)
    <3>1. /\ Reach(t) \in ThetaMin..ThetaMax
          /\ Reach(t) <= flat \/ Reach(t) >= beta + eff \/ (Reach(t) = ThetaMax /\ beta + raw <= ThetaMax)
      BY <1>1, <2>1, <2>7 DEF Reach, Between, Smaller, Larger
    <3>2. Away(Reach(t), beta) >= eff \/ (Reach(t) = ThetaMax /\ beta + raw <= ThetaMax)
      BY <1>1, <3>1 DEF Away
    <3> QED BY <3>1, <3>2 DEF Blocked, SteepFits, beta, eff, raw
  <2>8. ShadeAngle(ray, airflow) = Reach(IF airflow THEN opened ELSE Flat(ray))
    BY <1>1, <1>3 DEF ShadeAngle, FullCloseElevation
  <2> HIDE DEF Good, steep, opened
  <2> QED BY <2>2, <2>3, <2>4, <2>5, <2>6, <2>7, <2>8
<1> QED BY <1>1, <1>2, <1>3

(* Rounded to a percentage and raised by at most one, the pose is within a *)
(* percent of the travel of the angle, and exactly at its end.             *)
Near(theta, pct) ==
  /\ pct \in 0..100
  /\ Away(HundredthsAt(pct), theta * 100) <= ThetaMax - ThetaMin
  /\ theta = ThetaMax => HundredthsAt(pct) = ThetaMax * 100

LEMMA PercentageNear ==
  ASSUME NEW theta \in ThetaMin..ThetaMax, NEW openClose \in BOOLEAN
  PROVE  LET pct == Percentage(theta) IN Near(theta, IF openClose THEN Larger(pct, 1) ELSE pct)
<1> DEFINE d == ThetaMax - ThetaMin
           n == (theta - ThetaMin) * 100
           p == Rounded(n, d)
<1>1. /\ d \in Nat \ {0} /\ n \in Int /\ 0 <= n /\ n <= 100 * d
      /\ ThetaMin \in Int /\ ThetaMax \in Int /\ theta \in Int
  BY Travel
<1>2. p \in 0..100 /\ p \in Int /\ 2 * (d * p) <= 2 * n + d /\ 2 * n - d <= 2 * (d * p)
  <2> HIDE DEF d, n
  <2> QED BY <1>1, RoundedPercent, RoundedNear
<1>3. Percentage(theta) = p
  <2> HIDE DEF p
  <2>1. Percentage(theta) = Between(0, 100, p)
    BY DEF Percentage, p, n, d
  <2> QED BY <1>2, <2>1 DEF Between, Smaller, Larger
<1>4. \A q \in 0..100 : /\ HundredthsAt(q) = ThetaMin * 100 + q * d /\ q * d = d * q
                        /\ q * d \in Int
  BY <1>1 DEF HundredthsAt
<1>5. theta * 100 = ThetaMin * 100 + n
  BY <1>1
<1>6. theta = ThetaMax => p = 100
  <2>1. SUFFICES ASSUME theta = ThetaMax PROVE p = 100
    OBVIOUS
  <2>2. n = 100 * d
    BY <1>1, <2>1
  <2> HIDE DEF p, n, d
  <2>3. ASSUME p <= 99 PROVE FALSE
    <3>1. d * p <= d * 99
      BY <1>1, <1>2, <2>3
    <3> QED BY <1>1, <1>2, <2>2, <3>1
  <2> QED BY <1>2, <2>3
<1>7. ThetaMax * 100 = ThetaMin * 100 + 100 * d
  BY <1>1
<1> HIDE DEF p, n
<1>8. Near(theta, p)
  <2>1. Away(ThetaMin * 100 + d * p, theta * 100) <= d
    <3> HIDE DEF d
    <3>1. d * p \in Int
      BY <1>1, <1>2
    <3> QED BY <1>1, <1>2, <1>5, <3>1 DEF Away
  <2> QED BY <1>2, <1>4, <1>6, <1>7, <2>1 DEF Near
<1>9. ASSUME openClose PROVE Near(theta, Larger(p, 1))
  <2>1. CASE p >= 1
    BY <1>2, <1>8, <2>1 DEF Larger
  <2>2. CASE p = 0
    <3>1. 2 * n <= d
      BY <1>1, <1>2, <2>2
    <3>2. HundredthsAt(1) = ThetaMin * 100 + d
      BY <1>1, <1>4
    <3>3. Away(HundredthsAt(1), theta * 100) <= d
      <4> HIDE DEF d
      <4> QED BY <1>1, <1>5, <3>1, <3>2 DEF Away
    <3>4. theta # ThetaMax
      BY <1>6, <2>2
    <3>5. Larger(p, 1) = 1
      BY <2>2 DEF Larger
    <3> QED BY <3>3, <3>4, <3>5 DEF Near
  <2> QED BY <1>2, <2>1, <2>2
<1> QED BY <1>3, <1>8, <1>9

LEMMA PlainPosition ==
  ASSUME NEW ray \in Sun, ray.shading, NEW roof \in Roofs, Plain(roof)
  PROVE  LET pct == Percentage(ShadeAngle(ray, roof.airflow))
         IN  SolarPosition(ray, roof) = IF roof.openClose THEN Larger(pct, 1) ELSE pct
<1> DEFINE pct == Percentage(ShadeAngle(ray, roof.airflow))
           v   == IF roof.openClose THEN Larger(pct, 1) ELSE pct
<1>1. /\ roof.steps = 0 /\ roof.max = 100 /\ roof.min = 0
      /\ roof.minTracking = None \/ roof.minTracking = 0
      /\ roof.airflow \in BOOLEAN
  BY DEF Plain, Roofs
<1>2. CalculatePercentage(ray, roof) = pct
  BY DEF CalculatePercentage
<1>3. pct \in 0..100
  BY <1>1, AnglesType, PercentageType
<1> HIDE DEF pct
<1>4. Stepped(CalculatePercentage(ray, roof), roof) = pct
  BY <1>1, <1>2 DEF Stepped
<1>5. SolarFloor(pct, roof) = v /\ v \in 0..100
  BY <1>3 DEF SolarFloor, Larger
<1> HIDE DEF v
<1>6. EffectiveMin(roof, TRUE) = 0
  BY <1>1 DEF EffectiveMin, None
<1>7. Limited(v, roof, TRUE) = v
  BY <1>1, <1>5, <1>6 DEF Limited, Between, Smaller, Larger
<1>8. SolarPosition(ray, roof) = v
  BY <1>4, <1>5, <1>7 DEF SolarPosition
<1> QED BY <1>8 DEF v, pct

(* Neither the rounding nor the least opening of a cover that knows only   *)
(* open and closed lets the beam through.                                  *)
LEMMA SolarBlocks ==
  ASSUME NEW ray \in Sun, Reachable(ray), NEW roof \in Roofs, Plain(roof)
  PROVE  PoseBlocks(SolarPosition(ray, roof), ray)
<1> DEFINE theta == ShadeAngle(ray, roof.airflow)
           p     == SolarPosition(ray, roof)
           h     == HundredthsAt(p)
<1>1. roof.airflow \in BOOLEAN /\ roof.openClose \in BOOLEAN /\ ray.shading
  BY DEF Roofs, Reachable
<1>2. theta \in ThetaMin..ThetaMax /\ Blocked(theta, ray)
  BY <1>1, ShadeBlocks
<1>3. Near(theta, p)
  <2> HIDE DEF theta
  <2>1. Near(theta, IF roof.openClose THEN Larger(Percentage(theta), 1) ELSE Percentage(theta))
    BY <1>1, <1>2, PercentageNear
  <2>2. p = IF roof.openClose THEN Larger(Percentage(theta), 1) ELSE Percentage(theta)
    BY <1>1, PlainPosition DEF theta
  <2> QED BY <2>1, <2>2
<1> HIDE DEF theta, p
<1> DEFINE d == ThetaMax - ThetaMin
<1>4. /\ ray.beta \in Int /\ ray.eff \in Nat /\ ray.raw \in Nat /\ theta \in Int
      /\ ThetaMin \in Int /\ ThetaMax \in Int /\ d \in Nat /\ 100 * (ray.eff - ray.raw) >= d
  BY <1>2, Travel DEF Sun, Reachable
<1>5. h \in Int
  BY <1>3, <1>4 DEF Near, HundredthsAt
<1> HIDE DEF h
<1>6. Away(h, theta * 100) <= d /\ (theta = ThetaMax => h = ThetaMax * 100)
  BY <1>3 DEF Near, h
<1> HIDE DEF d
<1>7. Away(h, ray.beta * 100) >= ray.raw * 100
  <2>1. CASE Away(theta, ray.beta) >= ray.eff
    BY <1>4, <1>5, <1>6, <2>1 DEF Away
  <2>2. CASE theta = ThetaMax /\ SteepFits(ray)
    <3>1. ray.beta + ray.raw <= ThetaMax /\ h = ThetaMax * 100
      BY <1>6, <2>2 DEF SteepFits
    <3> QED BY <1>4, <3>1 DEF Away
  <2> QED BY <1>2, <2>1, <2>2 DEF Blocked
<1> QED BY <1>7 DEF PoseBlocks, h, p

LEMMA AnswerSun ==
  ASSUME TypeOK, NEW s, NEW x, NEW trigger, Answers(s, trigger), Decides(s, x, result'),
         config' = config, sun' \in DOMAIN Sky,
         result'.method = "solar", ~result'.clamped, Shaded', Plain(Options'.roof)
  PROVE  PoseBlocks(result'.position, Sky[sun'])
<1>1. /\ SnapshotOK(s) /\ s.sky = Sky[sun'] /\ s.at = sun' /\ s.roof = Roof(Options, report')
      /\ Options' = Options
  BY DEF Answers, Options
<1>2. result'.position = Anticipated(sun', s.roof)
  BY <1>1 DEF Decides, Sound, Keeps
<1>3. Plain(s.roof) /\ s.roof \in Roofs /\ s.roof.horizon = 0
  <2>1. Plain(Options.roof) /\ Options.roof \in Roofs
    BY <1>1, TypeFacts DEF OptionsOK
  <2>2. /\ s.roof.steps = Options.roof.steps /\ s.roof.horizon = Options.roof.horizon
        /\ s.roof.max = Options.roof.max /\ s.roof.min = Options.roof.min
        /\ s.roof.minTracking = Options.roof.minTracking
    BY <1>1, <2>1 DEF Roof, Roofs
  <2> QED BY <1>1, <2>1, <2>2 DEF Plain, SnapshotOK
<1>4. result'.position = SolarPosition(Sky[sun'], s.roof)
  BY <1>2, <1>3, AnticipatedType
<1>5. Sky[sun'] \in Sun /\ Reachable(Sky[sun'])
  BY SunType DEF Shaded, Reachable
<1> QED BY <1>3, <1>4, <1>5, SolarBlocks

-----------------------------------------------------------------------------
(* An overcast sky and a manual override precede the tracking of the sun   *)
(* and what does not precede them.                                         *)

LEMMA CloudPrecedes ==
  ASSUME NEW s, SnapshotOK(s), NEW x, NEW r, Decides(s, x, r), r.method = "solar",
         Priority(s.config, "cloud") >= Priority(s.config, "solar")
  PROVE  ~s.cloudy
<1>1. /\ x[2].method = "solar" /\ x[1] = 104 /\ x[2].priority = Priority(s.config, "solar")
      /\ DirectSun(s.sky) /\ s.flags.open
  BY DEF Decides, Keeps, Sound
<1>2. SUFFICES ASSUME s.cloudy PROVE FALSE
  OBVIOUS
<1>3. PICK w : w \in Cloud(s)
  BY <1>1, <1>2, Zenon DEF Cloud, When
<1>4. w.priority = Priority(s.config, "cloud")
  BY <1>3, CloudMatch
<1>5. <<102, w>> \in Ranked(s)
  BY <1>3 DEF Ranked
<1>6. Precedes(x, <<102, w>>)
  BY <1>5 DEF Decides, Wins
<1>7. Priority(s.config, "cloud") \in Int /\ Priority(s.config, "solar") \in Int
  <2>1. Priority(s.config, "cloud") \in 1..99 /\ Priority(s.config, "solar") \in 1..99
    BY OptionTypes DEF SnapshotOK
  <2> QED BY <2>1
<1> QED BY <1>1, <1>4, <1>6, <1>7 DEF Precedes

(* No source said otherwise, but for those nobody listens to.              *)
Alike(r, says, heard) ==
  r \in Reports(says) /\ \A n \in DOMAIN r : r[n] # heard[n] => n \in {"sunny", "sunnySays"}

LEMMA AnswerCloud ==
  ASSUME TypeOK, NEW s, NEW x, SnapshotOK(s), s.config = Options, NEW r, Decides(s, x, r),
         r.method = "solar", Priority(Options, "cloud") >= Priority(Options, "solar"),
         NEW heard \in Reports(Says[config]), s.cloudy = NoDirectSun(Options, heard)
  PROVE  ~\A q \in Reports(Says[config]) :
            (\A n \in DOMAIN q : q[n] # heard[n] => n \in {"sunny", "sunnySays"}) =>
              NoDirectSun(Options, q)
<1>1. ~NoDirectSun(Options, heard)
  BY CloudPrecedes
<1> QED BY <1>1

(* What the light sources say is all the verdict goes by.                  *)
LightSources == {"sunny", "sunnySays", "weather", "lux", "irradiance", "clouds"}

LEMMA LightOnly ==
  ASSUME NEW g, NEW q, NEW r, DOMAIN q = DOMAIN r,
         \A n \in LightSources : n \in DOMAIN r => q[n] = r[n]
  PROVE  NoDirectSun(g, q) = NoDirectSun(g, r)
<1>1. \A n \in LightSources : /\ Configured(q, n) = Configured(r, n) /\ Heard(q, n) = Heard(r, n)
                              /\ Numeric(q, n) = Numeric(r, n) /\ (Heard(r, n) => q[n] = r[n])
  BY DEF Configured, Heard, Numeric
<1>2. \A n \in LightSources : /\ AtMost(g, q, n) = AtMost(g, r, n)
                              /\ AtLeast(g, q, n) = AtLeast(g, r, n)
                              /\ UsesLight(g, q, n) = UsesLight(g, r, n)
                              /\ Opinion(q, n) = Opinion(r, n)
  BY <1>1 DEF AtMost, AtLeast, UsesLight, Opinion, Heard, Numeric
<1>3. Sunny(g, q) = Sunny(g, r)
  <2>1. /\ Heard(q, "sunny") = Heard(r, "sunny") /\ (Heard(r, "sunny") => q["sunny"] = r["sunny"])
        /\ Opinion(q, "sunnySays") = Opinion(r, "sunnySays")
        /\ Heard(q, "weather") = Heard(r, "weather")
        /\ (Heard(r, "weather") => q["weather"] = r["weather"])
    BY <1>1, <1>2 DEF LightSources
  <2> DEFINE sensor(u) == IF Heard(u, "sunny") /\ u["sunny"] \in {0, 1} THEN {u["sunny"] = 1} ELSE {}
             said(u)   == Folded(Opinion(u, "sunnySays"), sensor(u), "sunnySays" \in g.both)
  <2>2. sensor(q) = sensor(r)
    BY <2>1
  <2>3. said(q) = said(r)
    BY <2>1, <2>2
  <2> DEFINE entity(u) == Heard(u, "weather") /\ g.conditions => u["weather"] = 1
  <2>4. entity(q) <=> entity(r)
    BY <2>1
  <2>5. \A u : Sunny(g, u) = IF said(u) # {} THEN said(u) = {TRUE} ELSE entity(u)
    BY Zenon DEF Sunny
  <2> HIDE DEF sensor, said, entity
  <2>6. (IF said(q) # {} THEN said(q) = {TRUE} ELSE entity(q))
          = (IF said(r) # {} THEN said(r) = {TRUE} ELSE entity(r))
    <3>1. CASE said(r) = {}
      <4>1. entity(q) = entity(r)
        BY <2>4 DEF entity
      <4> QED BY <2>3, <3>1, <4>1, Zenon
    <3>2. CASE said(r) # {}
      BY <2>3, <3>2, Zenon
    <3> QED BY <3>1, <3>2
  <2> QED BY <2>5, <2>6, Zenon
<1> QED BY <1>2, <1>3 DEF NoDirectSun, LightSources

LEMMA AnswerOverride ==
  ASSUME TypeOK, NEW s, NEW x, NEW trigger, Answers(s, trigger), Decides(s, x, result'),
         NEW c \in Covers, covers[c].manual, covers'[c].pos # covers[c].pos
  PROVE  \/ result'.clamped
         \/ result'.priority > Priority(Options, "manual")
         \/ result'.priority = Priority(Options, "manual") /\ result'.method = "weather"
         \/ \E n \in on \ on' : SafetySlot(n)
<1>1. SnapshotOK(s) /\ s.config = Options /\ s.manual
  BY DEF Answers
<1>2. PICK w : w \in Manual(s)
  BY <1>1, Zenon DEF Manual, When
<1>3. w.priority = Priority(Options, "manual") /\ <<2, w>> \in Ranked(s)
  BY <1>1, <1>2, ManualMatch DEF Ranked
<1>4. /\ Priority(Options, "manual") \in Int /\ x[2].priority \in Int /\ x[1] \in Nat
      /\ result'.priority = x[2].priority /\ result'.method = x[2].method
      /\ result'.safety = x[2].safety
  <2>1. Priority(Options, "manual") \in 1..99
    BY OptionTypes, TypeFacts
  <2> QED BY <2>1 DEF Decides, Keeps, Result, Sound
<1>5. \/ x[2].priority > Priority(Options, "manual")
      \/ x[2].priority = Priority(Options, "manual") /\ x[1] <= 2
  <2>1. Precedes(x, <<2, w>>)
    BY <1>3 DEF Decides, Wins
  <2> QED BY <1>3, <1>4, <2>1 DEF Precedes
<1>6. /\ x[2].method = "manual" <=> x[1] = 2
      /\ x[2].method = "custom" => x[1] > 2
      /\ x[2].safety => x[2].method \in {"weather", "custom"}
      /\ x[2].method = "weather" <=> x[1] = 1
  BY DEF Decides, Sound
<1>7. PICK late \in Lates :
        Dispatch(result', StateOf(Options, result'), Forced(result', trigger, on \ on'), late, on \ on')
  BY DEF Answers
<1>8. Sent(result', c, StateOf(Options, result'), Forced(result', trigger, on \ on'), Appeared, late)
  BY <1>7 DEF Dispatch
<1>9. Forced(result', trigger, on \ on')
  BY <1>8 DEF Sent
<1>10. \/ result'.safety \/ result'.method = "custom" \/ result'.clamped
       \/ \E n \in on \ on' : SafetySlot(n)
       \/ result'.method # "manual"
  BY <1>9 DEF Forced, SlotTrigger
<1>11. x[1] \in {1, 2} \/ x[2].priority > Priority(Options, "manual")
  <2>1. x[1] # 0
    BY DEF Decides, Sound
  <2> QED BY <1>4, <1>5, <2>1
<1> QED BY <1>4, <1>5, <1>6, <1>10, <1>11

-----------------------------------------------------------------------------
(* The steps.                                                              *)

LEMMA ReportChanges ==
  ASSUME NEW says, NEW r \in Reports(says), NEW n \in DOMAIN r, NEW v \in says[n]
  PROVE  /\ [r EXCEPT ![n] = v] \in Reports(says)
         /\ DOMAIN [r EXCEPT ![n] = v] = DOMAIN r /\ DOMAIN r = DOMAIN says
<1> DEFINE q == [r EXCEPT ![n] = v]
<1>1. /\ r \in [DOMAIN says -> UNION {says[m] : m \in DOMAIN says}]
      /\ \A m \in DOMAIN says : r[m] \in says[m]
  BY Zenon DEF Reports
<1>2. DOMAIN r = DOMAIN says /\ n \in DOMAIN says
  BY <1>1
<1>3. v \in UNION {says[m] : m \in DOMAIN says}
  BY <1>2
<1> DEFINE all == UNION {says[m] : m \in DOMAIN says}
<1>4. r \in [DOMAIN says -> all] /\ v \in all
  BY <1>1, <1>3
<1> HIDE DEF all
<1>5. q \in [DOMAIN says -> all] /\ \A m \in DOMAIN says : q[m] \in says[m]
  BY <1>1, <1>2, <1>4
<1> USE DEF all
<1>6. q \in Reports(says)
  BY <1>5 DEF Reports
<1>7. DOMAIN q = DOMAIN r
  BY <1>2, <1>5
<1> QED BY <1>2, <1>6, <1>7

(* A cycle that answers a trigger.                                         *)
Cycle == /\ config' = config /\ sun' \in DOMAIN Sky /\ on' \subseteq Slots /\ flags' \in Flags
         /\ report' \in Reports(Says[config])
         /\ \E trigger : Handle(trigger)

(* A step that dispatches nothing: it leaves the result alone, or          *)
(* refreshes it.                                                           *)
Still ==
  /\ config' = config /\ sun' = sun /\ on' = on /\ ~dispatched' /\ dispatched' \in BOOLEAN
  /\ flags' \in Flags /\ covers' \in CoverStates /\ report' \in Reports(Says[config])
  /\ \/ result' = result /\ (flags'.open => flags.open)
        /\ \/ report' = report
           \/ \E n \in DOMAIN report : \E v \in Says[config][n] :
                report' = [report EXCEPT ![n] = v] /\ Quiet(n, report')
     \/ /\ report' = report
        /\ \E cs \in CoverStates : \E manual :
             result' = Evaluate(Snapshot(Options, sun, on, report, flags', cs, manual))

LEMMA Reflagged ==
  TypeOK => /\ \A name \in {"weather", "motion", "open", "auto"} : \A b \in BOOLEAN :
                 [flags EXCEPT ![name] = b] \in Flags
            /\ [flags EXCEPT !.open = FALSE] \in Flags /\ [flags EXCEPT !.auto = FALSE] \in Flags
            /\ \A r : Engaged(r) \in Flags
<1> SUFFICES ASSUME TypeOK
             PROVE  /\ \A name \in {"weather", "motion", "open", "auto"} : \A b \in BOOLEAN :
                         [flags EXCEPT ![name] = b] \in Flags
                    /\ [flags EXCEPT !.open = FALSE] \in Flags
                    /\ [flags EXCEPT !.auto = FALSE] \in Flags
                    /\ \A r : Engaged(r) \in Flags
  OBVIOUS
<1>1. flags \in [weather : BOOLEAN, motion : BOOLEAN, open : BOOLEAN, auto : BOOLEAN]
  BY DEF TypeOK, Flags
<1>2. ASSUME NEW name \in {"weather", "motion", "open", "auto"}, NEW b \in BOOLEAN
      PROVE  [flags EXCEPT ![name] = b] \in Flags
  BY <1>1 DEF Flags
<1>3. [flags EXCEPT !.open = FALSE] \in Flags /\ [flags EXCEPT !.auto = FALSE] \in Flags
  BY <1>1 DEF Flags
<1>4. ASSUME NEW r PROVE Engaged(r) \in Flags
  <2>1. (flags.weather \/ AnyCondition(Options, r)) \in BOOLEAN
        /\ (flags.motion /\ ~MotionDetected(Options, r)) \in BOOLEAN
    OBVIOUS
  <2> DEFINE w == flags.weather \/ AnyCondition(Options, r)
             m == flags.motion /\ ~MotionDetected(Options, r)
  <2>2. Engaged(r) = [flags EXCEPT !.weather = w, !.motion = m]
    BY Zenon DEF Engaged
  <2>3. w \in BOOLEAN /\ m \in BOOLEAN
    BY <2>1
  <2> HIDE DEF w, m
  <2> QED BY <1>1, <2>2, <2>3 DEF Flags
<1> QED BY <1>2, <1>3, <1>4

LEMMA SunMovesStep == TypeOK /\ SunMoves => Cycle
<1> SUFFICES ASSUME TypeOK, SunMoves PROVE Cycle
  OBVIOUS
<1>1. sun' \in DOMAIN Sky
  BY Suns DEF SunMoves
<1>2. UNCHANGED <<config, on, report, flags>> /\ Handle({})
  BY DEF SunMoves
<1> QED BY <1>1, <1>2, TypeFacts DEF Cycle

LEMMA SlotFlipsStep == ASSUME TypeOK, NEW n \in Slots, SlotFlips(n) PROVE Cycle
<1>1. on' \subseteq Slots
  BY TypeFacts DEF SlotFlips
<1>2. UNCHANGED <<config, sun, report, flags>> /\ Handle({n})
  BY DEF SlotFlips
<1> QED BY <1>1, <1>2, TypeFacts DEF Cycle

LEMMA HearsStep ==
  ASSUME TypeOK, NEW n \in DOMAIN report, NEW v \in Says[config][n], Hears(n, v)
  PROVE  Cycle \/ Still
<1>1. report' = [report EXCEPT ![n] = v] /\ UNCHANGED <<config, sun, on>>
  BY DEF Hears
<1>2. report' \in Reports(Says[config])
  BY <1>1, TypeFacts, ReportChanges
<1>3. CASE Quiet(n, report')
  <2>1. dispatched' = FALSE /\ UNCHANGED <<flags, covers, result>>
    BY <1>3 DEF Hears
  <2> QED BY <1>1, <1>2, <1>3, <2>1, TypeFacts DEF Still
<1>4. CASE ~Quiet(n, report')
  <2>1. flags' \in {Engaged(report'), flags} /\ Handle({})
    BY <1>4 DEF Hears
  <2>2. flags' \in Flags
    BY <2>1, Reflagged, TypeFacts
  <2> QED BY <1>1, <1>2, <2>1, <2>2, TypeFacts DEF Cycle
<1> QED BY <1>3, <1>4

LEMMA ElapsesStep ==
  ASSUME TypeOK, NEW name \in {"weather", "motion"}, Elapses(name) PROVE Cycle
<1>1. flags' = [flags EXCEPT ![name] = ~flags[name]]
  BY DEF Elapses
<1>2. flags' \in Flags
  BY <1>1, Reflagged
<1>3. UNCHANGED <<config, sun, on, report>> /\ Handle({})
  BY DEF Elapses
<1> QED BY <1>2, <1>3, TypeFacts DEF Cycle

LEMMA ResumesStep == ASSUME TypeOK, NEW name, Resumes(name) PROVE Cycle
<1>1. name \in {"open", "auto"} /\ flags' = [flags EXCEPT ![name] = TRUE]
  BY DEF Resumes
<1>2. flags' \in Flags
  BY <1>1, Reflagged
<1>3. UNCHANGED <<config, sun, on, report>> /\ Handle({})
  BY DEF Resumes
<1> QED BY <1>2, <1>3, TypeFacts DEF Cycle

LEMMA ClosesStep == TypeOK /\ Closes => Still
<1> SUFFICES ASSUME TypeOK, Closes PROVE Still
  OBVIOUS
<1>1. flags' = [flags EXCEPT !.open = FALSE] /\ flags' \in Flags
  BY Reflagged DEF Closes
<1>2. ~flags'.open
  BY <1>1, TypeFacts DEF Flags
<1> QED BY <1>1, <1>2, TypeFacts DEF Closes, Still

LEMMA CoverMoves ==
  ASSUME NEW cs \in CoverStates, NEW c \in Covers, NEW p \in 0..100
  PROVE  /\ [cs EXCEPT ![c].pos = p] \in CoverStates
         /\ [cs EXCEPT ![c] = [pos |-> p, manual |-> TRUE]] \in CoverStates
  BY DEF CoverStates

LEMMA CoverFreed ==
  ASSUME NEW cs \in CoverStates, NEW c \in Covers
  PROVE  [cs EXCEPT ![c].manual = FALSE] \in CoverStates
  BY DEF CoverStates

LEMMA SwitchedOffStep == TypeOK /\ SwitchedOff => Still
<1> SUFFICES ASSUME TypeOK, SwitchedOff PROVE Still
  OBVIOUS
<1> DEFINE freed == [c \in Covers |-> [covers[c] EXCEPT !.manual = FALSE]]
<1>1. freed \in CoverStates
  BY TypeFacts DEF CoverStates
<1>2. /\ flags' = [flags EXCEPT !.auto = FALSE] /\ covers' = freed
      /\ result' = Evaluate(Snapshot(Options, sun, on, report, flags', freed, FALSE))
      /\ dispatched' = FALSE /\ UNCHANGED <<config, sun, on, report>>
  BY Zenon DEF SwitchedOff
<1> HIDE DEF freed
<1>3. flags' \in Flags
  BY <1>2, Reflagged
<1> QED BY <1>1, <1>2, <1>3, TypeFacts DEF Still

LEMMA HandMovesStep ==
  ASSUME TypeOK, NEW c \in Covers, NEW p \in Hands, HandMoves(c, p) PROVE Still
<1>1. /\ covers' = [covers EXCEPT ![c] = [pos |-> p, manual |-> TRUE]]
      /\ result' = Evaluate(Snapshot(Options, sun, on, report, flags, covers', TRUE))
      /\ dispatched' = FALSE /\ UNCHANGED <<config, sun, on, report, flags>>
  BY DEF HandMoves
<1>2. covers' \in CoverStates
  <2>1. p \in 0..100
    BY Instance
  <2> QED BY <1>1, <2>1, TypeFacts, CoverMoves
<1> QED BY <1>1, <1>2, TypeFacts DEF Still

LEMMA CurrentIsOK ==
  ASSUME TypeOK, NEW f \in Flags, NEW cs \in CoverStates, NEW manual
  PROVE  LET s == Snapshot(Options, sun, on, report, f, cs, manual)
         IN  /\ SnapshotOK(s) /\ s.on = on /\ s.config = Options
             /\ s.cloudy = NoDirectSun(Options, report)
  BY TypeFacts, SnapshotIsOK

LEMMA Refreshed ==
  ASSUME TypeOK, NEW f \in Flags, NEW cs \in CoverStates, NEW manual
  PROVE  LET r == Evaluate(Snapshot(Options, sun, on, report, f, cs, manual))
         IN  /\ r \in Result
             /\ r.method = "solar" /\ Priority(Options, "cloud") >= Priority(Options, "solar") => ~Overcast
<1> DEFINE s == Snapshot(Options, sun, on, report, f, cs, manual)
           r == Evaluate(s)
<1>1. SnapshotOK(s) /\ s.on = on /\ s.config = Options /\ s.cloudy = NoDirectSun(Options, report)
  BY CurrentIsOK
<1> HIDE DEF s
<1>2. PICK x : Decides(s, x, r)
  BY <1>1, TypeFacts, Evaluated
<1> HIDE DEF r
<1>3. r \in Result
  BY <1>2 DEF Decides, Keeps
<1>4. report \in Reports(Says[config])
  BY TypeFacts
<1>5. ASSUME r.method = "solar", Priority(Options, "cloud") >= Priority(Options, "solar")
      PROVE  ~Overcast
  BY <1>1, <1>2, <1>4, <1>5, AnswerCloud DEF Overcast
<1> QED BY <1>3, <1>5 DEF r, s

LEMMA ResetStep == ASSUME TypeOK, NEW c \in Covers, Reset(c) PROVE Still
<1> DEFINE freed == [covers EXCEPT ![c].manual = FALSE]
           r == Evaluate(Snapshot(Options, sun, on, report, flags, freed, Held(freed) # {}))
<1>1. freed \in CoverStates
  BY TypeFacts, CoverFreed
<1>2. /\ result' = r
      /\ covers' \in {freed, [freed EXCEPT ![c].pos = StateOf(Options, r)]}
      /\ dispatched' = FALSE /\ UNCHANGED <<config, sun, on, report, flags>>
  BY Zenon DEF Reset
<1> HIDE DEF freed
<1>3. StateOf(Options, r) \in 0..100
  BY <1>1, TypeFacts, Refreshed, StateType
<1> DEFINE to == StateOf(Options, r)
<1>4. covers' \in CoverStates
  <2>1. covers' \in {freed, [freed EXCEPT ![c].pos = to]} /\ to \in 0..100
    BY <1>2, <1>3
  <2> HIDE DEF to
  <2>2. [freed EXCEPT ![c].pos = to] \in CoverStates
    BY <1>1, <2>1, CoverMoves
  <2> QED BY <1>1, <2>1, <2>2
<1> QED BY <1>1, <1>2, <1>4, TypeFacts DEF Still

LEMMA UserSetsStep ==
  ASSUME TypeOK, NEW c \in Covers, NEW p \in Hands, UserSets(c, p) PROVE Still
<1> DEFINE s    == Snapshot(Options, sun, on, report, flags, covers, FALSE)
           goal == Larger(p, Floor(s))
<1>1. /\ dispatched' = FALSE /\ UNCHANGED <<config, sun, on, report, flags, result>>
      /\ covers' = [covers EXCEPT ![c].manual = TRUE,
                      ![c].pos = IF AtTarget(result, @, goal, FALSE) THEN @ ELSE goal]
  BY Zenon DEF UserSets
<1>2. SnapshotOK(s) /\ s.on = on
  BY CurrentIsOK, TypeFacts
<1> HIDE DEF s
<1>3. Floor(s) \in 0..100
  BY <1>2, TypeFacts, Evaluated
<1>4. goal \in 0..100
  BY <1>3, Instance DEF Larger
<1> HIDE DEF goal
<1>5. PICK q \in 0..100 : covers' = [covers EXCEPT ![c].manual = TRUE, ![c].pos = q]
  <2>1. covers[c].pos \in 0..100 /\ covers[c] \in [pos : 0..100, manual : BOOLEAN]
        /\ covers \in CoverStates
    BY TypeFacts DEF CoverStates
  <2>2. [covers EXCEPT ![c].manual = TRUE][c].pos = covers[c].pos
    BY <2>1 DEF CoverStates
  <2>3. (IF AtTarget(result, [covers EXCEPT ![c].manual = TRUE][c].pos, goal, FALSE)
           THEN [covers EXCEPT ![c].manual = TRUE][c].pos ELSE goal) \in 0..100
    BY <1>4, <2>1, <2>2
  <2> QED BY <1>1, <2>3
<1>6. covers' \in CoverStates
  BY <1>5, TypeFacts DEF CoverStates
<1> QED BY <1>1, <1>6, TypeFacts DEF Still

LEMMA NextStep == TypeOK /\ Next => Cycle \/ Still
  BY SunMovesStep, SlotFlipsStep, HearsStep, ElapsesStep, ResumesStep, ClosesStep, SwitchedOffStep,
     HandMovesStep, UserSetsStep, ResetStep DEF Next

-----------------------------------------------------------------------------
(* The properties.                                                         *)

LEMMA StepReaches ==
  TypeOK /\ Next =>
    /\ TypeOK' /\ config' = config
    /\ SafetyReaches' /\ FloorReaches' /\ SunBlocked'
<1> SUFFICES ASSUME TypeOK, Next
             PROVE  /\ TypeOK' /\ config' = config
                    /\ SafetyReaches' /\ FloorReaches' /\ SunBlocked'
  OBVIOUS
<1>1. CASE Still
  <2>1. result' \in Result
    BY <1>1, TypeFacts, Refreshed DEF Still
  <2>2. TypeOK'
    BY <1>1, <2>1, TypeFacts DEF Still, TypeOK, CoverStates
  <2> QED BY <1>1, <2>2 DEF Still, SafetyReaches, FloorReaches, SunBlocked
<1>2. CASE Cycle
  <2>1. PICK trigger : Handle(trigger)
    BY <1>2 DEF Cycle
  <2>2. PICK s, x : Answers(s, trigger) /\ Decides(s, x, result')
    BY <1>2, <2>1, HandleAnswers DEF Cycle
  <2>3. covers' \in CoverStates /\ result' \in Result
    BY <2>2, AnswerType
  <2>4. dispatched' \in BOOLEAN
    BY <2>1 DEF Handle
  <2>5. TypeOK'
    BY <1>2, <2>3, <2>4, TypeFacts DEF Cycle, TypeOK, CoverStates
  <2>6. SafetyReaches'
    BY <1>2, <2>2, AnswerSafety DEF Cycle, SafetyReaches
  <2>7. FloorReaches'
    BY <1>2, <2>2, AnswerFloor DEF Cycle, FloorReaches
  <2>8. SunBlocked'
    BY <1>2, <2>2, AnswerSun DEF Cycle, SunBlocked
  <2> QED BY <1>2, <2>5, <2>6, <2>7, <2>8 DEF Cycle
<1> QED BY <1>1, <1>2, NextStep

Inv == TypeOK /\ SafetyReaches /\ FloorReaches /\ SunBlocked

LEMMA Initially == Init => TypeOK /\ ~dispatched /\ result.method = "default"
<1> SUFFICES ASSUME Init PROVE TypeOK /\ ~dispatched /\ result.method = "default"
  OBVIOUS
<1>1. OptionsOK(Options)
  BY Instance DEF Init, Options
<1>2. Options.default \in 0..100 /\ Options.roof \in Roofs
  BY <1>1 DEF OptionsOK
<1> DEFINE goal == Limited(Options.default, Options.roof, FALSE)
<1>3. goal \in 0..100
  BY <1>2, LimitedType
<1> HIDE DEF goal
<1>4. Matched(Match("default", 0, goal), "default", 0, goal)
  <2>1. "default" \in Methods /\ 0 \in 0..100
    BY MethodNames
  <2> QED BY <1>3, <2>1, MatchType
<1>5. result = Match("default", 0, goal)
  BY DEF Init, goal
<1>6. result \in Result /\ result.method = "default"
  BY <1>4, <1>5 DEF Matched
<1>7. covers \in CoverStates
  BY <1>2 DEF Init, CoverStates
<1>8. flags \in Flags
  BY DEF Init, Flags
<1> QED BY <1>6, <1>7, <1>8, Suns DEF Init, TypeOK, CoverStates

(* The decision, the covers and the flags keep their types: every          *)
(* position that is decided or sent is a percentage, whatever options the  *)
(* forms let through.                                                      *)
THEOREM Invariance == Spec => []Inv
<1>1. Init => Inv
  BY Initially DEF Inv, SafetyReaches, FloorReaches, SunBlocked
<1>2. Inv /\ [Next]_vars => Inv'
  <2> SUFFICES ASSUME Inv, [Next]_vars PROVE Inv'
    OBVIOUS
  <2>1. CASE Next
    BY <2>1, StepReaches DEF Inv
  <2>2. CASE UNCHANGED vars
    <3>1. TypeOK'
      BY <2>2 DEF vars, Inv, TypeOK
    <3>2. /\ Options' = Options /\ FloorNow' = FloorNow /\ Slack' = Slack
          /\ SafetySlots' = SafetySlots /\ Shaded' = Shaded
      BY <2>2 DEF vars, Options, FloorNow, Slack, SafetySlots, SafetySlot, Shaded
    <3>3. SafetyReaches' /\ FloorReaches' /\ SunBlocked'
      BY <2>2, <3>2 DEF vars, Inv, SafetyReaches, FloorReaches, SunBlocked
    <3> QED BY <3>1, <3>3 DEF Inv
  <2> QED BY <2>1, <2>2
<1> QED BY <1>1, <1>2, PTL DEF Spec

THEOREM TypeCorrect == Spec => []TypeOK
<1>1. Inv => TypeOK
  BY DEF Inv
<1> QED BY <1>1, Invariance, PTL

(* In the cycle that sees it a slot at safety priority brings every cover  *)
(* to its position, or to the floor above it, whatever priorities are      *)
(* configured and whatever window, override, throttle or switch would hold *)
(* the cover back.                                                         *)
THEOREM SafetyAlwaysReaches == Spec => []SafetyReaches
<1>1. Inv => SafetyReaches
  BY DEF Inv
<1> QED BY <1>1, Invariance, PTL

(* A floor that raises the decision raises every cover with it.            *)
THEOREM FloorAlwaysReaches == Spec => []FloorReaches
<1>1. Inv => FloorReaches
  BY DEF Inv
<1> QED BY <1>1, Invariance, PTL

(* The percentage that is sent for the sun blocks its beam, rounding and   *)
(* all, for every travel that reaches the vertical and every margin wider  *)
(* than a percent of it.                                                   *)
THEOREM SunAlwaysBlocked == Spec => []SunBlocked
<1>1. Inv => SunBlocked
  BY DEF Inv
<1> QED BY <1>1, Invariance, PTL

-----------------------------------------------------------------------------

(* A source that is not a light source leaves the verdict on the reports   *)
(* alike as it was, and so does one nobody listens to.                     *)
LEMMA OvercastKept ==
  ASSUME TypeOK, NEW n \in DOMAIN report, NEW v \in Says[config][n],
         report' = [report EXCEPT ![n] = v], config' = config, Quiet(n, report'), Overcast'
  PROVE  Overcast
<1> DEFINE says == Says[config]
<1>1. /\ report \in Reports(says) /\ report' \in Reports(says)
      /\ DOMAIN report' = DOMAIN report /\ DOMAIN report = DOMAIN says
  BY TypeFacts, ReportChanges
<1>2. \A q \in Reports(says) :
        (\A m \in DOMAIN q : q[m] # report'[m] => m \in {"sunny", "sunnySays"}) =>
          NoDirectSun(Options, q)
  BY DEF Overcast, Options
<1>3. SUFFICES ASSUME NEW q \in Reports(says),
                      \A m \in DOMAIN q : q[m] # report[m] => m \in {"sunny", "sunnySays"}
               PROVE  NoDirectSun(Options, q)
  BY DEF Overcast
<1>4. DOMAIN q = DOMAIN report
  BY <1>1, <1>3, Zenon DEF Reports
<1>5. \A m \in DOMAIN report : m # n => report'[m] = report[m]
  BY <1>1
<1>6. CASE n \in Unwatched
  <2>1. \A m \in DOMAIN q : q[m] # report'[m] => m \in {"sunny", "sunnySays"}
    BY <1>3, <1>4, <1>5, <1>6 DEF Unwatched
  <2> QED BY <1>2, <1>3, <2>1
<1>7. CASE n \in WeatherSources \cup OccupancySources
  <2> DEFINE p == [q EXCEPT ![n] = v]
  <2>1. p \in Reports(says) /\ DOMAIN p = DOMAIN q
    BY <1>3, <1>4, ReportChanges
  <2>2. \A m \in DOMAIN p : p[m] # report'[m] => m \in {"sunny", "sunnySays"}
    <3> TAKE m \in DOMAIN p
    <3>1. CASE m = n
      <4>1. p[m] = v /\ report'[m] = v
        BY <1>4, <2>1, <3>1
      <4> QED BY <4>1
    <3>2. CASE m # n
      BY <1>3, <1>4, <1>5, <2>1, <3>2
    <3> QED BY <3>1, <3>2
  <2>3. NoDirectSun(Options, p)
    BY <1>2, <2>1, <2>2
  <2>4. \A m \in LightSources : m \in DOMAIN q => p[m] = q[m]
    BY <1>7 DEF LightSources, WeatherSources, OccupancySources, OccupancySensors
  <2>5. NoDirectSun(Options, p) = NoDirectSun(Options, q)
    BY <2>1, <2>4, LightOnly
  <2> QED BY <2>3, <2>5
<1> QED BY <1>6, <1>7 DEF Quiet

LEMMA StepAnswers == TypeOK /\ CloudAnswered /\ Next => CloudAnswered'
<1> SUFFICES ASSUME TypeOK, CloudAnswered, Next,
                    result'.method = "solar", flags'.open,
                    Priority(Options', "cloud") >= Priority(Options', "solar")
             PROVE  ~Overcast'
  BY DEF CloudAnswered
<1>0. Options' = Options
  BY StepReaches DEF Options
<1>1. CASE Cycle
  <2>1. PICK trigger : Handle(trigger)
    BY <1>1 DEF Cycle
  <2>2. PICK s, x : Answers(s, trigger) /\ Decides(s, x, result')
    BY <1>1, <2>1, HandleAnswers DEF Cycle
  <2>3. /\ SnapshotOK(s) /\ s.config = Options /\ s.cloudy = NoDirectSun(Options, report')
        /\ report' \in Reports(Says[config])
    BY <1>1, <2>2 DEF Answers, Cycle
  <2>4. ~\A q \in Reports(Says[config]) :
            (\A n \in DOMAIN q : q[n] # report'[n] => n \in {"sunny", "sunnySays"}) =>
              NoDirectSun(Options, q)
    BY <1>0, <2>2, <2>3, AnswerCloud
  <2> QED BY <1>0, <1>1, <2>4 DEF Overcast, Cycle
<1>2. CASE Still /\ result' = result /\ (flags'.open => flags.open)
           /\ (\/ report' = report
               \/ \E n \in DOMAIN report : \E v \in Says[config][n] :
                    report' = [report EXCEPT ![n] = v] /\ Quiet(n, report'))
  <2>1. ~Overcast /\ config' = config
    BY <1>0, <1>2 DEF CloudAnswered, Still
  <2>2. CASE report' = report
    BY <1>0, <2>1, <2>2 DEF Overcast
  <2>3. CASE \E n \in DOMAIN report : \E v \in Says[config][n] :
               report' = [report EXCEPT ![n] = v] /\ Quiet(n, report')
    BY <2>1, <2>3, OvercastKept
  <2> QED BY <1>2, <2>2, <2>3
<1>3. CASE /\ Still /\ report' = report
           /\ \E cs \in CoverStates : \E manual :
                result' = Evaluate(Snapshot(Options, sun, on, report, flags', cs, manual))
  <2>1. ~Overcast
    BY <1>0, <1>3, Refreshed DEF Still
  <2> QED BY <1>0, <1>3, <2>1 DEF Overcast, Still
<1> QED BY <1>1, <1>2, <1>3, NextStep DEF Still

(* With suppression ranked no lower than tracking, the sun is not tracked  *)
(* inside the window while a source that is listened to says there is no   *)
(* direct sun, however reports come in between the cycles.                 *)
THEOREM CloudAlwaysAnswered == Spec => []CloudAnswered
<1>1. Init => CloudAnswered
  BY Initially DEF CloudAnswered
<1>2. TypeOK /\ CloudAnswered /\ [Next]_vars => CloudAnswered'
  <2>1. ASSUME CloudAnswered, UNCHANGED vars PROVE CloudAnswered'
    <3>1. Options' = Options /\ Overcast' = Overcast
      BY <2>1 DEF vars, Options, Overcast
    <3> QED BY <2>1, <3>1 DEF vars, CloudAnswered
  <2> QED BY <2>1, StepAnswers
<1> QED BY <1>1, <1>2, TypeCorrect, PTL DEF Spec

(* No cycle moves a cover that is under an override, but for a decision    *)
(* that precedes the override, a floor or the release of a safety slot,    *)
(* whatever priorities are configured.                                     *)
THEOREM OverrideAlwaysKept == Spec => OverrideKept
<1> DEFINE Excused == \/ result'.clamped
                      \/ result'.priority > Priority(Options, "manual")
                      \/ result'.priority = Priority(Options, "manual") /\ result'.method = "weather"
                      \/ \E n \in on \ on' : SafetySlot(n)
<1>1. TypeOK /\ [Next]_vars =>
        [(\E c \in Covers : covers[c].manual /\ Moved(c)) => Excused]_vars
  <2> SUFFICES ASSUME TypeOK, Next, NEW c \in Covers, covers[c].manual, Moved(c)
               PROVE  Excused
    OBVIOUS
  <2>1. Cycle
    BY NextStep DEF Moved, Still
  <2>2. PICK trigger : Handle(trigger)
    BY <2>1 DEF Cycle
  <2>3. PICK s, x : Answers(s, trigger) /\ Decides(s, x, result')
    BY <2>1, <2>2, HandleAnswers DEF Cycle
  <2> QED BY <2>3, AnswerOverride DEF Moved
<1> QED BY <1>1, TypeCorrect, PTL DEF Spec, OverrideKept
=============================================================================
