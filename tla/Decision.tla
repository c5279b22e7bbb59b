----------------------------- MODULE Decision -----------------------------
(***************************************************************************)
(* The decision of a cycle and what it does to the covers: the pipeline    *)
(* (pipeline/registry.py, pipeline/handlers/, pipeline/floors.py,          *)
(* pipeline/tilt_axis.py) over the snapshot (pipeline/snapshot_builder.py),*)
(* the value sent (coordinator.py, state), the force rules of              *)
(* async_handle_state_change and the gates of apply_position, the reset    *)
(* of an override and the user's own command (async_apply_user_position).  *)
(*                                                                         *)
(* A cycle runs without interruption and a cover is at once where it is    *)
(* sent: what happens in between is UpdateCycle's and CoverCommand's.      *)
(***************************************************************************)
EXTENDS Slats, Readings, FiniteSets

CONSTANTS
  Covers,
  Slots,      \* the numbers of the configured custom-position slots
  Configs,    \* the options of the instance, one set after the other
  Hands,      \* the positions people choose
  Env,        \* the events under each
  Says        \* the states each configured source reports, under each

Methods == {"weather", "manual", "motion", "cloud", "morning", "solar", "custom", "default"}

(* kind: a slot drives its position, raises to it, sends to the hardware   *)
(* preset, or fixes only the slat angle.                                   *)
Kinds == {"fixed", "floor", "my", "tilt"}

(* What the forms let through: percentages, None where one may be absent,  *)
(* and a priority of a slot up to the safety priority.  A handler's own    *)
(* priority is any number.                                                 *)
OptionsOK(g) ==
  /\ g.roof \in Roofs
  /\ \A n \in Slots : g.slots[n] \in [kind : Kinds, pos : 0..100, priority : 1..100]
  /\ g.priority \in [{"weather", "manual", "motion", "cloud", "solar"} -> Int]
  /\ g.weather \in [pos : 0..100, floor : BOOLEAN, bypass : BOOLEAN]
  /\ g.default \in 0..100 /\ g.sunset \in 0..100
  /\ g.cloudy \in -1..100 /\ g.morning \in -1..100 /\ g.my \in -1..100
  /\ g.range = <<>> \/ g.range \in (0..100) \X (0..100)
  /\ g.tolerance \in Nat

ASSUME Instance ==
  /\ IsFiniteSet(Covers) /\ Covers # {} /\ Slots \subseteq Nat \ {0}
  /\ Hands \subseteq 0..100
  /\ \A i \in DOMAIN Configs : OptionsOK(Configs[i])

VARIABLES
  config,     \* which options
  sun,        \* where in the day it is
  on,         \* the slots whose triggers are on
  report,     \* what the sources say
  flags,      \* weather, no motion, the window, automatic control
  covers,     \* each cover's position and whether it is under an override
  result,     \* the latest PipelineResult
  dispatched  \* ghost: the latest step was a cycle that answers a trigger

vars == <<config, sun, on, report, flags, covers, result, dispatched>>

Options == Configs[config]

(* Every report the configured sources can make.                           *)
Reports(says) == {r \in [DOMAIN says -> UNION {says[n] : n \in DOMAIN says}] :
                    \A n \in DOMAIN says : r[n] \in says[n]}
Flags  == [weather : BOOLEAN, motion : BOOLEAN, open : BOOLEAN, auto : BOOLEAN]
Result == [position : 0..100, method : Methods, priority : 0..100, bypass : BOOLEAN,
           safety : BOOLEAN, skip : BOOLEAN, held : -1..100, clamped : BOOLEAN]
SafetyPriority == 100            \* CUSTOM_POSITION_SAFETY_PRIORITY
Tolerance      == 2              \* STATIC_TARGET_TOLERANCE_PERCENT

-----------------------------------------------------------------------------
(* resolve_handler_priority *)
UnclampedPriority(g, name) == g.priority[name]            \* mutant: out of range
Priority(g, name)          == Between(1, 99, g.priority[name])

(* The snapshot: what build() reads, for a set of overridden covers.       *)
Held(cs)      == {c \in Covers : cs[c].manual}
(* The sum of the positions: the points that lie below them.               *)
SumOf(cs)     == Cardinality(UNION {{c} \X (1..cs[c].pos) : c \in Covers})
(* _compute_mean_cover_position *)
Mean(cs)      == Rounded(SumOf(cs), Cardinality(Covers))
Roof(g, r)    == [g.roof EXCEPT !.airflow = Airflow(g, r, @)]
Seen(g, r, f) == [f EXCEPT !.weather = @ /\ WeatherConfigured(g, r),
                           !.motion = MotionTimeoutActive(@, r)]
Snapshot(g, i, slots, r, f, cs, manual) ==
  [config |-> g, roof |-> Roof(g, r), at |-> i, sky |-> Sky[i], on |-> slots,
   cloudy |-> NoDirectSun(g, r), covers |-> cs, manual |-> manual,
   flags |-> Seen(g, r, f)]

EffectivePosition(s) == IF s.sky.night THEN s.config.sunset ELSE s.config.default
(* compute_default_position: the sunset position is not limited.           *)
DefaultPosition(s) ==
  IF s.sky.night THEN s.config.sunset ELSE Limited(s.config.default, s.roof, FALSE)

-----------------------------------------------------------------------------
(* The handlers: a set with the result of the handler when it matches.     *)

Match(method, priority, position) ==
  [position |-> position, method |-> method, priority |-> priority, bypass |-> FALSE,
   safety |-> FALSE, skip |-> FALSE, held |-> None, clamped |-> FALSE]
When(condition, match) == IF condition THEN {match} ELSE {}

Weather(s) ==
  When(s.flags.weather /\ ~s.config.weather.floor,
       [Match("weather", Priority(s.config, "weather"), s.config.weather.pos)
          EXCEPT !.bypass = s.config.weather.bypass, !.safety = TRUE])

Manual(s) ==
  When(s.manual,
       [Match("manual", Priority(s.config, "manual"),
              IF DirectSun(s.sky) THEN SolarPosition(s.sky, s.roof) ELSE DefaultPosition(s))
          EXCEPT !.held = Mean(s.covers)])

(* A floor and a tilt-only slot never win; a slot set to the preset        *)
(* without one sends its position.                                         *)
Goal(g, n) ==
  LET slot == g.slots[n]
  IN  IF slot.kind = "my" /\ g.my # None THEN g.my ELSE slot.pos
Slot(s, n) ==
  LET slot == s.config.slots[n]
  IN  When(n \in s.on /\ slot.kind \in {"fixed", "my"},
           [Match("custom", slot.priority, Goal(s.config, n))
              EXCEPT !.bypass = TRUE, !.safety = slot.priority >= SafetyPriority])

Motion(s) ==
  LET priority == Priority(s.config, "motion")
      holds    == s.config.holds /\ s.flags.open /\ DirectSun(s.sky)
  IN  When(s.flags.motion,
           IF holds THEN [Match("motion", priority, Mean(s.covers)) EXCEPT !.skip = TRUE]
                    ELSE Match("motion", priority, DefaultPosition(s)))

(* cloud_suppression_position is None for this roof: the cloudy position.  *)
Cloud(s) ==
  When(s.flags.open /\ s.cloudy /\ DirectSun(s.sky),
       Match("cloud", Priority(s.config, "cloud"),
             IF s.sky.night \/ s.config.cloudy = None THEN DefaultPosition(s)
             ELSE Limited(s.config.cloudy, s.roof, FALSE)))

Morning(s) ==
  When(s.sky.morning,
       Match("morning", 43,
             IF s.config.morning # None THEN s.config.morning ELSE DefaultPosition(s)))

Solar(s) ==
  When(s.config.tracks /\ s.flags.open /\ DirectSun(s.sky),
       Match("solar", Priority(s.config, "solar"), Anticipated(s.at, s.roof)))

Default(s) ==
  {Match("default", 0, IF s.sky.night /\ s.config.sunsetMy /\ s.config.my # None
                         THEN s.config.my ELSE DefaultPosition(s))}

(* The order of registration breaks ties of priority.                      *)
Rank(n) == 2 + n
Ranked(s) ==
  ({1} \X Weather(s)) \cup ({2} \X Manual(s)) \cup (UNION {{Rank(n)} \X Slot(s, n) : n \in Slots})
  \cup ({101} \X Motion(s)) \cup ({102} \X Cloud(s)) \cup ({103} \X Morning(s))
  \cup ({104} \X Solar(s)) \cup ({105} \X Default(s))
Precedes(a, b) == \/ a[2].priority > b[2].priority
                  \/ a[2].priority = b[2].priority /\ a[1] <= b[1]
Best(ranked) == CHOOSE a \in ranked : \A b \in ranked : Precedes(a, b)
Winner(s) == Best(Ranked(s))[2]

(* gather_active_floors, effective_floor *)
Floors(s) ==
  {0} \cup {s.config.slots[n].pos : n \in {m \in s.on : s.config.slots[m].kind = "floor"}}
      \cup (IF s.flags.weather /\ s.config.weather.floor THEN {s.config.weather.pos} ELSE {})
Greatest(S) == CHOOSE p \in S : \A q \in S : p >= q
Floor(s)       == Greatest(Floors(s))

(* evaluate: the floor is compared with the position a manual override     *)
(* holds, and replaces the winner's.                                       *)
Raised(w, floor) ==
  LET physical == IF w.held # None THEN w.held ELSE w.position
  IN  IF floor > physical /\ floor # w.position
        THEN [w EXCEPT !.position = floor, !.clamped = TRUE] ELSE w
Evaluate(s) == Raised(Winner(s), Floor(s))

-----------------------------------------------------------------------------
(* What is sent.                                                           *)

(* interpolate_position between two values.                                *)
Interpolated(v, range) == Rounded(range[1] * 100 + v * (range[2] - range[1]), 100)

(* state: an override's position and a raised one are sent as they are.    *)
StateOf(g, r) ==
  CASE r.bypass \/ r.clamped          -> r.position
    [] ~(r.bypass \/ r.clamped) /\ g.range # <<>> -> Interpolated(r.position, g.range)
    [] OTHER                          -> IF g.inverse THEN 100 - r.position ELSE r.position

(* build_special_positions, the endpoints enforced or not.                 *)
Specials(g) ==
  ((IF g.enforced THEN {} ELSE {0, 100}) \cup ({g.default, g.sunset, g.my} \ {None}))
  \ (IF g.enforced THEN {0, 100} ELSE {})

(* check_position_delta *)
DeltaPasses(g, from, to, appeared) ==
  \/ appeared \/ to \in Specials(g) \/ from \in Specials(g)
  \/ Away(from, to) >= g.minChange

AtTarget(r, from, to, appeared) ==
  /\ ~appeared
  /\ \/ from = to
     \/ r.method # "solar" /\ Away(from, to) <= Tolerance
     \/ to \in {0, 100} /\ Away(from, to) <= Options.tolerance

(* apply_position.  `late`: the covers the time gate refuses.              *)
Lates == {{}, Covers}
Sent(r, c, to, force, appeared, late) ==
  /\ r.safety \/ flags'.auto \/ r.bypass
  /\ ~AtTarget(r, covers[c].pos, to, appeared)
  /\ \/ force
     \/ /\ DeltaPasses(Options, covers[c].pos, to, appeared)
        /\ c \notin late
        /\ ~covers[c].manual

SafetySlot(n) == Options.slots[n].priority >= SafetyPriority

Outside(r, released) == ~flags'.open /\ ~r.safety /\ ~\E n \in released : SafetySlot(n)

(* The cycle that answers a trigger: a slot's sensor, or something else.   *)
SlotTriggerAny(r, trigger) == trigger # {}                \* mutant: whoever wins
SlotTrigger(r, trigger)    == r.method = "custom" /\ trigger # {}
ForcedByTrigger(r, trigger, released) ==       \* mutant: a raised position waits
  r.safety \/ SlotTrigger(r, trigger)
Forced(r, trigger, released) ==
  \/ r.safety \/ SlotTrigger(r, trigger) \/ r.clamped
  \/ \E n \in released : SafetySlot(n)
  \/ r.method # "manual" /\ released # {}

Appeared == ~DirectSun(Sky[sun]) /\ DirectSun(Sky[sun'])

Dispatch(r, to, force, late, released) ==
  covers' = [c \in Covers |->
               IF /\ ~Outside(r, released) /\ ~r.skip
                  /\ Sent(r, c, to, force, Appeared, late)
                 THEN [covers[c] EXCEPT !.pos = to] ELSE covers[c]]

Handle(trigger) ==
  /\ \E r \in {Evaluate(Snapshot(Options, sun', on', report', flags', covers, Held(covers) # {}))} :
       /\ result' = r
       /\ \E late \in Lates :
            Dispatch(r, StateOf(Options, r), Forced(r, trigger, on \ on'), late, on \ on')
  /\ dispatched' = TRUE

-----------------------------------------------------------------------------
Init ==
  /\ config \in DOMAIN Configs
  /\ sun = 1 /\ on = {}
  /\ report \in Reports(Says[config]) /\ ~AnyCondition(Options, report)
  /\ flags = [weather |-> FALSE, motion |-> ~MotionDetected(Options, report), open |-> TRUE,
              auto |-> TRUE]
  /\ covers = [c \in Covers |-> [pos |-> Options.default, manual |-> FALSE]]
  /\ result = Match("default", 0, Limited(Options.default, Options.roof, FALSE))
  /\ dispatched = FALSE

SunMoves ==
  /\ sun' = IF sun + 1 \in DOMAIN Sky THEN sun + 1 ELSE 1
  /\ UNCHANGED <<config, on, report, flags>>
  /\ Handle({})

SlotFlips(n) ==
  /\ "slot" \in Env[config]
  /\ on' = IF n \in on THEN on \ {n} ELSE on \cup {n}
  /\ UNCHANGED <<config, sun, report, flags>>
  /\ Handle({n})

(* A source reports something else.  A condition of the weather engages    *)
(* its override at once and occupancy ends the motion timeout; when they   *)
(* cease a delay begins, which is Timeouts' and Elapses below.  A timer    *)
(* runs while nobody is there and the timeout has not expired.             *)
Engaged(r) ==
  [flags EXCEPT !.weather = @ \/ AnyCondition(Options, r),
                !.motion = @ /\ ~MotionDetected(Options, r)]
QuietLight(n, r) ==                              \* mutant: the light is not tracked
  \/ n \in Unwatched \cup {"lux"}
  \/ n \in WeatherSources /\ ~AnyCondition(Options, r)
Quiet(n, r) ==
  \/ n \in Unwatched
  \/ n \in WeatherSources /\ ~AnyCondition(Options, r)
  \/ n \in OccupancySources
       /\ ~(MotionDetected(Options, r) /\ (flags.motion \/ ~MotionDetected(Options, report)))

Hears(n, v) ==
  /\ report[n] # v
  /\ report' = [report EXCEPT ![n] = v]
  /\ UNCHANGED <<config, sun, on>>
  /\ IF Quiet(n, report')
       THEN dispatched' = FALSE /\ UNCHANGED <<flags, covers, result>>
       ELSE /\ flags' = IF n \in WeatherSources \cup OccupancySources THEN Engaged(report') ELSE flags
            /\ Handle({})

(* The clear delay and the motion timeout end.                             *)
Elapses(name) ==
  /\ \/ name = "weather" /\ flags.weather /\ ~AnyCondition(Options, report)
     \/ name = "motion" /\ ~flags.motion /\ ~MotionDetected(Options, report)
  /\ flags' = [flags EXCEPT ![name] = ~@]
  /\ UNCHANGED <<config, sun, on, report>>
  /\ Handle({})

(* The window opens, or automatic control is switched on.                  *)
Resumes(name) ==
  /\ name \in Env[config] \cap {"open", "auto"} /\ ~flags[name]
  /\ flags' = [flags EXCEPT ![name] = TRUE]
  /\ UNCHANGED <<config, sun, on, report>>
  /\ Handle({})

Closes ==
  /\ "open" \in Env[config] /\ flags.open
  /\ flags' = [flags EXCEPT !.open = FALSE]
  /\ dispatched' = FALSE
  /\ UNCHANGED <<config, sun, on, report, covers, result>>

(* async_turn_off of the switch ends the overrides and refreshes.          *)
SwitchedOff ==
  LET freed == [c \in Covers |-> [covers[c] EXCEPT !.manual = FALSE]]
  IN  /\ "auto" \in Env[config] /\ flags.auto
      /\ flags' = [flags EXCEPT !.auto = FALSE]
      /\ covers' = freed
      /\ result' = Evaluate(Snapshot(Options, sun, on, report, flags', freed, FALSE))
      /\ dispatched' = FALSE
      /\ UNCHANGED <<config, sun, on, report>>

(* Somebody moves a cover: a refresh that dispatches nothing.              *)
HandMoves(c, p) ==
  /\ "hand" \in Env[config] /\ covers[c].pos # p
  /\ covers' = [covers EXCEPT ![c] = [pos |-> p, manual |-> TRUE]]
  /\ result' = Evaluate(Snapshot(Options, sun, on, report, flags, covers', TRUE))
  /\ dispatched' = FALSE
  /\ UNCHANGED <<config, sun, on, report, flags>>

(* async_press and _async_send_after_override_clear: inside the window and *)
(* with automatic control on the cover is sent the decision made without   *)
(* its override, whatever the decision says about sending.                 *)
Reset(c) ==
  LET freed == [covers EXCEPT ![c].manual = FALSE]
  IN  /\ "reset" \in Env[config] /\ covers[c].manual
      /\ \E r \in {Evaluate(Snapshot(Options, sun, on, report, flags, freed, Held(freed) # {}))} :
           /\ result' = r
           /\ covers' = IF flags.open /\ flags.auto
                             /\ ~AtTarget(r, covers[c].pos, StateOf(Options, r), FALSE)
                           THEN [freed EXCEPT ![c].pos = StateOf(Options, r)] ELSE freed
      /\ dispatched' = FALSE
      /\ UNCHANGED <<config, sun, on, report, flags>>

(* async_apply_user_position.  The winner is compared with the default     *)
(* priority of the manual handler, and no result is stored.                *)
UserSets(c, p) ==
  LET s      == Snapshot(Options, sun, on, report, flags, covers, FALSE)
      goal   == Larger(p, Floor(s))
  IN  /\ "user" \in Env[config]
      /\ Winner(s).priority <= 80
      /\ covers' = [covers EXCEPT ![c].manual = TRUE,
                      ![c].pos = IF AtTarget(result, @, goal, FALSE) THEN @ ELSE goal]
      /\ dispatched' = FALSE
      /\ UNCHANGED <<config, sun, on, report, flags, result>>

Next ==
  \/ SunMoves
  \/ \E n \in Slots : SlotFlips(n)
  \/ \E n \in DOMAIN report : \E v \in Says[config][n] : Hears(n, v)
  \/ \E name \in {"weather", "motion"} : Elapses(name)
  \/ \E name \in Env[config] : Resumes(name)
  \/ Closes \/ SwitchedOff
  \/ \E c \in Covers :
       \/ \E p \in Hands : HandMoves(c, p) \/ UserSets(c, p)
       \/ Reset(c)

-----------------------------------------------------------------------------
TypeOK ==
  /\ config \in DOMAIN Configs /\ sun \in DOMAIN Sky /\ on \subseteq Slots
  /\ report \in Reports(Says[config])
  /\ flags \in Flags /\ dispatched \in BOOLEAN
  /\ covers \in [Covers -> [pos : 0..100, manual : BOOLEAN]]
  /\ result \in Result

(* A slot at safety priority brings every cover to its position, or to the *)
(* floor above it, in the cycle that sees it: whatever priorities are      *)
(* configured for the other handlers, outside the window, with automatic   *)
(* control off, under an override and within the throttle                  *)
(* (handlers/__init__.py, resolve_handler_priority; coordinator.py,        *)
(* use_force).                                                             *)
SafetySlots == {n \in on : Options.slots[n].kind \in {"fixed", "my"} /\ SafetySlot(n)}
FloorNow    == Floor([config |-> Options, on |-> on, flags |-> Seen(Options, report, flags)])
Slack       == Larger(Tolerance, Options.tolerance)
SafetyReaches ==
  dispatched /\ SafetySlots # {} =>
    \E n \in SafetySlots : \A c \in Covers :
      Away(covers[c].pos, Larger(Goal(Options, n), FloorNow)) <= Slack

(* When a floor raises the decision, the covers are raised with it: past   *)
(* the throttle and the overrides, to the position as it is configured     *)
(* (registry.py, floor_clamp_applied; coordinator.py, state and use_force).*)
FloorReaches ==
  dispatched /\ result.clamped /\ ~result.skip /\ flags.open /\ (flags.auto \/ result.bypass) =>
    \A c \in Covers : covers[c].pos >= FloorNow - Slack

(* With neither look ahead nor coverage steps nor limits, the slats the    *)
(* sun moves stand where its beam does not pass them, whenever the travel  *)
(* reaches the vertical and the flat pose that blocks it and the margin is *)
(* more than a percent of the travel (louvered_roof.py, _shade_angle).     *)
Plain(roof) == /\ roof.steps = 0 /\ roof.horizon = 0 /\ roof.max = 100
               /\ roof.min = 0 /\ roof.minTracking \in {None, 0}
Shaded == LET s == Sky[sun]
          IN  /\ s.shading /\ s.elev >= FullCloseElevation
              /\ ThetaMax >= Vertical /\ 100 * (s.eff - s.raw) >= ThetaMax - ThetaMin
              /\ (IF s.far THEN Flat(s) - PastAxis ELSE Flat(s)) >= ThetaMin
SunBlocked ==
  result.method = "solar" /\ ~result.clamped /\ dispatched /\ Shaded
      /\ Plain(Options.roof) =>
    PoseBlocks(result.position, Sky[sun])

(* Inside the window the sun is not tracked while a source the integration *)
(* listens to says there is no direct sun, whatever the sources it does    *)
(* not listen to say, unless tracking was given the higher priority        *)
(* (__init__.py, async_setup_entry; cloud_suppression.py, evaluate).       *)
Overcast ==
  \A r \in Reports(Says[config]) :
    (\A n \in DOMAIN r : r[n] # report[n] => n \in {"sunny", "sunnySays"}) =>
      NoDirectSun(Options, r)
CloudAnswered ==
  result.method = "solar" /\ flags.open
      /\ Priority(Options, "cloud") >= Priority(Options, "solar") =>
    ~Overcast

(* A cycle moves a cover that is under an override only for a decision     *)
(* that precedes the override, one of higher priority or the weather's at  *)
(* the same, to raise it to a floor, or because a slot at safety priority  *)
(* was released (coordinator.py, async_handle_state_change).               *)
Moved(c) == dispatched' /\ covers'[c].pos # covers[c].pos
OverrideKept ==
  [][ (\E c \in Covers : covers[c].manual /\ Moved(c)) =>
        \/ result'.clamped
        \/ result'.priority > Priority(Options, "manual")
        \/ result'.priority = Priority(Options, "manual") /\ result'.method = "weather"
        \/ \E n \in on \ on' : SafetySlot(n) ]_vars

(* "must raise whichever handler ultimately wins the pipeline, regardless  *)
(* of priority" (floors.py): no cover is sent below a floor that is active.*)
FloorsHold == [][ \A c \in Covers : Moved(c) => covers'[c].pos >= FloorNow' ]_vars

(* "coverage is guaranteed until the cover is next allowed to move"        *)
(* (pipeline/helpers.py, anticipated_solar_position): the pose that looks  *)
(* ahead blocks the sun that shines now.                                   *)
CoverageGuaranteed ==
  result.method = "solar" /\ ~result.clamped /\ dispatched /\ Shaded =>
    PoseBlocks(result.position, Sky[sun])

Spec == Init /\ [][Next]_vars
=============================================================================
