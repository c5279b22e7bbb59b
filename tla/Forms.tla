------------------------------- MODULE Forms -------------------------------
(***************************************************************************)
(* What the forms of an entry store: the create flow and the sections of   *)
(* the options flow (config_flow.py), the conversions between stored and   *)
(* displayed values (unit_system.py and config_flow.py), the services      *)
(* that patch the same keys (services/options_service.py), the clamping of *)
(* old entries (__init__.py) and what the engine makes of the stored values *)
(* (config_types.py, engine/sun_geometry.py).                              *)
(*                                                                         *)
(* Overlapping saves are in Options.tla; here a section, a service call    *)
(* and a migration are one step each.  An option that is absent and one    *)
(* that is None read the same to every consumer of the keys below.         *)
(***************************************************************************)
EXTENDS Integers, FiniteSets

CONSTANTS
  None,         \* an option without a value
  Given,        \* any value of an option whose value does not matter
  Circle,       \* the degrees of a full circle
  Elevations,   \* elevations a user may enter
  Temperatures, \* thresholds a user may enter
  Percent,      \* the largest position
  Tenth,        \* stored units in the tenth of an inch that is displayed
  Metric,       \* lengths a user may enter in metric units
  Imperial,     \* lengths a user may enter in tenths of an inch
  MaxEdits      \* bound on sections submitted, services and create flows

ASSUME Angles  == Circle \in Nat /\ Circle % 4 = 0 /\ Circle > 0
ASSUME Lengths == /\ Tenth \in Nat \ {0}
                  /\ Metric \subseteq Nat /\ Imperial \subseteq Nat
                  /\ Metric # {} /\ Imperial # {}
ASSUME Ranges  == /\ Elevations \subseteq 0..(Circle \div 4)
                  /\ Temperatures \subseteq Nat
                  /\ Percent \in Nat /\ Percent > 2 /\ MaxEdits \in Nat
ASSUME Valueless == None \notin Int /\ Given \notin Int /\ None # Given

VARIABLES
  entry,      \* the stored options, with what their editors asked for
  screen,       \* the flow that is open, the step it is at, its copy
  imperial,   \* is_imperial: the units of Home Assistant
  edits

formVars == <<entry, screen, imperial, edits>>

-----------------------------------------------------------------------------
(* The options.                                                            *)

SunKeys   == {"azimuth", "fovLeft", "fovRight", "minElevation", "maxElevation"}
\* One clearable option each of the sections that only store what they get.
PlainKeys == {"gate", "wind", "threshold", "sunny", "priority", "template"}
OptionKeys == SunKeys \cup PlainKeys \cup
              {"length", "my", "useMy", "climate", "tempEntity", "tempLow",
               "tempHigh", "startTime", "startEntity", "spotLeft", "spotRight"}

\* A store: the options; ghosts: the window and the length as they were last
\* entered, and the keys that were last left empty.
Store(o, w, l, c) == [opts |-> o, window |-> w, length |-> l, cleared |-> c]

With(o, input) ==
  [k \in OptionKeys |-> IF k \in DOMAIN input THEN input[k] ELSE o[k]]

\* vol.Range of the field, or the choice of a field without one.
SunRanges(k) ==
  CASE k = "azimuth"                 -> 0..(Circle - 1)
    [] k \in {"fovLeft", "fovRight"} -> 0..(Circle \div 2)
    [] OTHER                         -> 0..(Circle \div 4)

MyRange == 1..(Percent - 1)

Accepts(k, v) ==
  \/ v = None
  \/ k \in SunKeys /\ v \in SunRanges(k)
  \/ k = "my" /\ v \in MyRange
  \/ k \notin SunKeys \cup {"my"}

-----------------------------------------------------------------------------
(* Displayed and stored lengths.                                           *)

\* A form that shows whole inches.
ToDisplayCoarse(d) ==
  IF imperial THEN 10 * ((d + 5 * Tenth) \div (10 * Tenth)) ELSE d

\* round(x, 1) of a length in inches, in tenths.
ToDisplay(d)   == IF imperial THEN (2 * d + Tenth) \div (2 * Tenth) ELSE d
FromDisplay(v) == IF imperial THEN v * Tenth ELSE v

Typed == IF imperial THEN Imperial ELSE Metric

-----------------------------------------------------------------------------
(* The sun window.                                                         *)

DefaultAzimuth == Circle \div 2
DefaultFov     == Circle \div 4

Or(v, default) == IF v = None THEN default ELSE v

\* sun_window_from_canonical, over the defaults of _inject_sun_window_display.
WindowOf(o) ==
  LET az == Or(o["azimuth"], DefaultAzimuth) IN
  <<(az - Or(o["fovLeft"], DefaultFov)) % Circle,
    (az + Or(o["fovRight"], DefaultFov)) % Circle>>

\* The midpoint measured from the other end.
CanonicalSwapped(start, end) ==
  LET span == (end - start) % Circle IN
  [azimuth |-> (start + (span - span \div 2)) % Circle,
   fovLeft |-> span \div 2, fovRight |-> span - span \div 2]

\* sun_window_to_canonical.
Canonical(start, end) ==
  LET span == (end - start) % Circle
      left == span \div 2 IN
  [azimuth |-> (start + left) % Circle, fovLeft |-> left,
   fovRight |-> span - left]

\* CoverConfig.from_options: an azimuth of 0 falls to the default as well.
EngineAzimuth(o) ==
  IF o["azimuth"] \in {None, 0} THEN DefaultAzimuth ELSE o["azimuth"]

Gamma(o, a) ==
  ((EngineAzimuth(o) - a + (Circle \div 2)) % Circle) - (Circle \div 2)

\* azimuth_within_fov: the gate of the running engine.
InFov(o, a) ==
  /\ Gamma(o, a) < Or(o["fovLeft"], DefaultFov)
  /\ - Or(o["fovRight"], DefaultFov) < Gamma(o, a)

\* Mutant: the window with its whole width on either side.
EngineWindowWide(o) ==
  LET width == Or(o["fovLeft"], DefaultFov) + Or(o["fovRight"], DefaultFov)
  IN  <<(EngineAzimuth(o) - width) % Circle, (EngineAzimuth(o) + width) % Circle>>

\* solar_times_with_position: the gate of the times published for the day.
EngineWindow(o) ==
  <<(EngineAzimuth(o) - Or(o["fovLeft"], DefaultFov)) % Circle,
    (EngineAzimuth(o) + Or(o["fovRight"], DefaultFov)) % Circle>>

InDay(o, a) ==
  (a - EngineWindow(o)[1]) % Circle
    <= (EngineWindow(o)[2] - EngineWindow(o)[1]) % Circle

\* What lies between two directions, clockwise.
Between(w) ==
  {a \in 0..(Circle - 1) :
     0 < (a - w[1]) % Circle /\ (a - w[1]) % Circle < (w[2] - w[1]) % Circle}

-----------------------------------------------------------------------------
(* The rules that span fields.                                             *)

Less(a, b) == None \notin {a, b} => a < b

\* async_step_sun_tracking and async_step_temperature_climate.
ElevationsOrdered(o) == Less(o["minElevation"], o["maxElevation"])
ClimateHasSensor(o)  == o["climate"] => o["tempEntity"] # None

\* _cross_field_validate.
SpotOrdered(o)  == Less(o["spotLeft"], o["spotRight"])
TempsOrdered(o) == Less(o["tempLow"], o["tempHigh"])
OneStart(o)     == o["startTime"] = None \/ o["startEntity"] = None
MyPresent(o)    == o["useMy"] => o["my"] # None

ServiceRules(o) == SpotOrdered(o) /\ TempsOrdered(o) /\ OneStart(o)
                   /\ MyPresent(o)
FormRules(o)    == ElevationsOrdered(o) /\ ClimateHasSensor(o)

\* A rule looked at only when the patch has both of its keys.
CrossFieldBoth(o, patch) ==
  LET m == With(o, patch)
      Both(x, y) == {x, y} \subseteq DOMAIN patch IN
  /\ Both("spotLeft", "spotRight")    => SpotOrdered(m)
  /\ Both("tempLow", "tempHigh")      => TempsOrdered(m)
  /\ Both("startTime", "startEntity") => OneStart(m)
  /\ Both("useMy", "my")              => MyPresent(m)

\* Each rule is looked at when the patch touches it, on the merged options.
CrossField(o, patch) ==
  LET m == With(o, patch)
      Touches(x, y) == DOMAIN patch \cap {x, y} # {} IN
  /\ Touches("spotLeft", "spotRight")    => SpotOrdered(m)
  /\ Touches("tempLow", "tempHigh")      => TempsOrdered(m)
  /\ Touches("startTime", "startEntity") => OneStart(m)
  /\ Touches("useMy", "my")              => MyPresent(m)

ValidPatch(o, patch) ==
  (\A k \in DOMAIN patch : Accepts(k, patch[k])) /\ CrossField(o, patch)

-----------------------------------------------------------------------------
(* Sections, over a store s.  A field that is left empty is missing from   *)
(* the input; optional_entities puts None there for the keys it lists.     *)

Optional(keys, input) ==
  [k \in DOMAIN input \cup keys |->
     IF k \in DOMAIN input THEN input[k] ELSE None]

\* The fields of a section as they are shown, with one of them changed; an
\* empty one is not submitted.
Shown(s, keys) == [k \in {x \in keys : s.opts[x] # None} |-> s.opts[k]]

OneChange(s, keys, values) ==
  {Shown(s, keys)} \cup
  {[x \in DOMAIN Shown(s, keys) \ {k} |-> s.opts[x]] : k \in keys} \cup
  UNION {{[x \in DOMAIN Shown(s, keys) \cup {k} |->
             IF x = k THEN v ELSE s.opts[x]] : v \in values[k]} : k \in keys}

Emptied(s, keys, input) ==
  (s.cleared \ DOMAIN input)
    \cup {k \in keys \ DOMAIN input : s.opts[k] # None}

\* self.options.update(user_input).
Updated(s, keys, input, stored) ==
  [s EXCEPT !.opts = With(@, stored), !.cleared = Emptied(s, keys, input)]

Geometry(s) ==
  LET shown == ToDisplay(s.opts["length"]) IN
  {[s EXCEPT !.opts = With(@, [k \in {"length"} |-> FromDisplay(v)]),
             !.length = IF v = shown THEN @ ELSE FromDisplay(v)] :
     v \in Typed \cup {shown}}

\* A window without a span and limits that cross are shown again.
SunTracking(s) ==
  LET limits == {"minElevation", "maxElevation"}
      inputs == OneChange(s, limits, [k \in limits |-> Elevations])
      shown  == WindowOf(s.opts)
      Saved(w, i) ==
        [Updated(s, limits, i, Optional(limits, i)) EXCEPT
           !.opts = With(@, Canonical(w[1], w[2])), !.window = w]
      windows == (0..(Circle - 1)) \X (0..(Circle - 1)) IN
  {t \in {Saved(shown, i) : i \in inputs}
           \cup {Saved(w, Shown(s, limits)) : w \in windows} :
     t.window[1] # t.window[2] /\ ElevationsOrdered(t.opts)}

Position(s) ==
  LET keys == {"my", "useMy"} IN
  {Updated(s, {"my"}, i, Optional({"my"}, i)) :
     i \in {x \in OneChange(s, keys, [k \in keys |->
                    IF k = "my" THEN {1, Percent - 1} ELSE BOOLEAN]) :
              "useMy" \in DOMAIN x}}

\* A section with a field that may be left empty, and the keys its handler
\* passes to optional_entities.
Plain(s, key, listed) ==
  {Updated(s, {key}, i, Optional(listed, i)) :
     i \in OneChange(s, {key}, [k \in {key} |-> {Given}])}

Behavior(s)           == Plain(s, "gate", {"gate"})
WeatherOverride(s)    == Plain(s, "wind", {"wind"})
ManualOverride(s)     == Plain(s, "threshold", {"threshold"})
LightCloudForgetting(s) == Plain(s, "sunny", {})
LightCloud(s)         == Plain(s, "sunny", {"sunny"})
PipelinePriorities(s) == Plain(s, "priority", {"priority"})
\* The occupancy template is in no list.
MotionOverride(s)     == Plain(s, "template", {})

\* Blank times are taken out of the options as well.
Automation(s) ==
  LET keys == {"startTime", "startEntity"} IN
  {Updated(s, keys, i, Optional({"startEntity"}, Optional({"startTime"}, i))) :
     i \in OneChange(s, keys, [k \in keys |-> {Given}])}

TemperatureClimate(s) ==
  LET keys == {"climate", "tempEntity", "tempLow", "tempHigh"} IN
  {t \in {Updated(s, {"tempEntity"}, i, Optional({"tempEntity"}, i)) :
            i \in {x \in OneChange(s, keys,
                           [k \in keys |-> CASE k = "climate"    -> BOOLEAN
                                             [] k = "tempEntity" -> {Given}
                                             [] OTHER -> Temperatures]) :
                     keys \ {"tempEntity"} \subseteq DOMAIN x}} :
     ClimateHasSensor(t.opts)}

-----------------------------------------------------------------------------
(* The flows.                                                              *)

BlankOptions ==
  [k \in OptionKeys |->
     CASE k \in {"useMy", "climate"} -> FALSE
       [] k = "length" -> CHOOSE l \in Metric : TRUE
       [] k = "tempLow"  -> CHOOSE l \in Temperatures : \A t \in Temperatures : l <= t
       [] k = "tempHigh" -> CHOOSE h \in Temperatures : \A t \in Temperatures : t <= h
       [] OTHER -> None]

New == Store(BlankOptions, None, BlankOptions["length"], {})

NoFlow == [at |-> "none", copy |-> New]

\* async_step_init: the copy of the entry's options.
OpenOptions ==
  /\ screen.at = "none" /\ entry # None
  /\ screen' = [at |-> "menu", copy |-> entry]
  /\ UNCHANGED <<entry, imperial, edits>>

\* A section of the menu; back in the menu, another may be chosen.
Submit(results) ==
  /\ screen.at = "menu" /\ edits < MaxEdits
  /\ \E t \in results : screen' = [screen EXCEPT !.copy = t]
  /\ edits' = edits + 1
  /\ UNCHANGED <<entry, imperial>>

GeometrySection   == Submit(Geometry(screen.copy))
SunSection        == Submit(SunTracking(screen.copy))
PositionSection   == Submit(Position(screen.copy))
BehaviorSection   == Submit(Behavior(screen.copy))
WeatherSection    == Submit(WeatherOverride(screen.copy))
ManualSection     == Submit(ManualOverride(screen.copy))
MotionSection     == Submit(MotionOverride(screen.copy))
CloudSection      == Submit(LightCloud(screen.copy))
PrioritySection   == Submit(PipelinePriorities(screen.copy))
AutomationSection == Submit(Automation(screen.copy))
ClimateSection    == Submit(TemperatureClimate(screen.copy))

\* async_create_entry with the whole copy.
Done ==
  /\ screen.at = "menu"
  /\ entry' = screen.copy /\ screen' = NoFlow
  /\ UNCHANGED <<imperial, edits>>

\* The create flow: covers, geometry, sun tracking, position, summary.
CreateCovers ==
  /\ screen.at = "none" /\ entry = None /\ edits < MaxEdits
  /\ screen' = [at |-> "geometry", copy |-> New]
  /\ edits' = edits + 1
  /\ UNCHANGED <<entry, imperial>>

Step(at, next, results) ==
  /\ screen.at = at
  /\ \E t \in results : screen' = [at |-> next, copy |-> t]
  /\ UNCHANGED <<entry, imperial, edits>>

CreateGeometry == Step("geometry", "sun", Geometry(screen.copy))
CreateSun      == Step("sun", "position", SunTracking(screen.copy))
CreatePosition == Step("position", "summary", Position(screen.copy))

CreateEntry ==
  /\ screen.at = "summary"
  /\ entry' = screen.copy /\ screen' = NoFlow
  /\ UNCHANGED <<imperial, edits>>

-----------------------------------------------------------------------------
(* Services; the entry is there and no flow is open.                       *)

\* apply_options_patch; what a service writes is not what a form asked for.
Patch(patch) ==
  /\ screen.at = "none" /\ entry # None /\ edits < MaxEdits
  /\ ValidPatch(entry.opts, patch)
  /\ entry' = [opts    |-> With(entry.opts, patch),
               window  |-> IF DOMAIN patch \cap SunKeys # {} THEN None
                                                             ELSE entry.window,
               length  |-> IF "length" \in DOMAIN patch THEN patch["length"]
                                                        ELSE entry.length,
               cleared |-> entry.cleared \ DOMAIN patch]
  /\ edits' = edits + 1
  /\ UNCHANGED <<screen, imperial>>

\* Values a caller may send; Circle and Percent are out of every range.
ServiceValues(k) ==
  CASE k = "azimuth"                           -> {None, 0, 1, Circle}
    [] k \in {"fovLeft", "fovRight"}           -> {None, 1, Circle \div 2}
    [] k \in {"minElevation", "maxElevation"}  -> {None, Circle} \cup Elevations
    [] k \in {"spotLeft", "spotRight"}         -> {None} \cup Elevations
    [] k \in {"tempLow", "tempHigh"}           -> Temperatures
    [] k = "length"                            -> Metric
    [] k = "my"                                -> {None, 0, 1, Percent}
    [] k \in {"useMy", "climate"}              -> BOOLEAN
    [] OTHER                                   -> {None, Given}

ServiceSections ==
  {{"fovLeft", "fovRight"}, {"spotLeft", "spotRight"}, {"tempLow", "tempHigh"},
   {"startTime", "startEntity"}, {"my", "useMy"}}

\* The set_* services of a section, and set_option.
PatchSection ==
  \E keys \in ServiceSections : \E a, b \in keys :
    /\ a # b
    /\ \E v \in ServiceValues(a), w \in ServiceValues(b) :
         Patch([k \in keys |-> IF k = a THEN v ELSE w])

PatchOption ==
  \E k \in OptionKeys : \E v \in ServiceValues(k) : Patch([x \in {k} |-> v])

-----------------------------------------------------------------------------
(* Entries of an older version, and Home Assistant's units.                *)

\* _clamp_options_to_declared_ranges.
Clamped(k, v) ==
  IF v = None THEN None
  ELSE CASE k \in {"fovLeft", "fovRight"} ->
              IF v > Circle \div 2 THEN Circle \div 2 ELSE v
         [] k = "my" -> IF v < 1 THEN 1
                        ELSE IF v > Percent - 1 THEN Percent - 1 ELSE v
         [] OTHER -> v

\* async_migrate_entry: clamp, drop a template that does not render in time.
Migrated(o, slow) ==
  [k \in OptionKeys |-> IF k = "template" /\ slow THEN None ELSE Clamped(k, o[k])]

Units ==
  /\ imperial' = ~ imperial
  /\ screen.at = "none"
  /\ UNCHANGED <<entry, screen, edits>>

OldEntries ==
  {With(BlankOptions, [k \in {"fovLeft", "fovRight", "my", "template"} |->
                  CASE k = "fovLeft"  -> l
                    [] k = "fovRight" -> 1
                    [] k = "my"       -> m
                    [] k = "template" -> Given]) :
     l \in {1, Circle - 1}, m \in {0, 1, Percent}}

FormsInit ==
  /\ \/ entry = None
     \/ \E o \in OldEntries, slow \in BOOLEAN :
          entry = Store(Migrated(o, slow), None, o["length"], {})
  /\ screen = NoFlow /\ imperial = FALSE /\ edits = 0

FormsNext ==
  \/ OpenOptions \/ Done
  \/ GeometrySection \/ SunSection \/ PositionSection \/ BehaviorSection
  \/ WeatherSection \/ ManualSection \/ MotionSection \/ CloudSection
  \/ PrioritySection \/ AutomationSection \/ ClimateSection
  \/ CreateCovers \/ CreateGeometry \/ CreateSun \/ CreatePosition
  \/ CreateEntry
  \/ PatchSection \/ PatchOption \/ Units

FormsSpec == FormsInit /\ [][FormsNext]_formVars

-----------------------------------------------------------------------------
(* Properties.                                                             *)

\* Types; the values are those the services accept, in entries that were
\* migrated as in those just created.
FormsTypeOK ==
  /\ entry # None => \A k \in OptionKeys : Accepts(k, entry.opts[k])
  /\ \A k \in OptionKeys : Accepts(k, screen.copy.opts[k])
  /\ screen.at \in {"none", "menu", "geometry", "sun", "position", "summary"}
  /\ imperial \in BOOLEAN /\ edits \in 0..MaxEdits

Near(a, b) == 2 * (a - b) <= Tenth /\ 2 * (b - a) <= Tenth

\* What was entered is what is stored, whatever was saved around it and
\* however often: the form shows the window that was entered and the engine
\* lets the sun in exactly between its ends (but for the azimuth 0, below);
\* a length stays within half a displayed tenth of the one entered, in either
\* unit; a field that was left empty is empty (but for the template, below).
EntriesKept ==
  entry # None =>
    LET o == entry.opts IN
    /\ entry.window # None =>
         /\ WindowOf(o) = entry.window
         /\ o["azimuth"] # 0 =>
              {a \in 0..(Circle - 1) : InFov(o, a)} = Between(entry.window)
    /\ Near(o["length"], entry.length)
    /\ \A k \in entry.cleared \ {"template"} : o[k] = None

\* A surface keeps the rules it checks: no service call leaves the options
\* with crossed blind spots or thresholds, two start times or a missing My
\* position, whichever part of the pair it sends; no section leaves crossed
\* elevations or a climate mode without its sensor.
RulesKept ==
  [][/\ entry # None /\ screen.at = "none" /\ screen'.at = "none"
        /\ ServiceRules(entry.opts) => ServiceRules(entry'.opts)
     /\ screen.at = "menu" /\ screen'.at = "menu" /\ FormRules(screen.copy.opts)
        => FormRules(screen'.copy.opts)]_formVars

\* The gates of the engine and of the day let in the same directions but for
\* the ends of the window, which only the day's includes, unless the window
\* is the full circle, which a service can store.
GatesAgree ==
  entry # None /\ Or(entry.opts["fovLeft"], DefaultFov)
                    + Or(entry.opts["fovRight"], DefaultFov) < Circle =>
    \A a \in 0..(Circle - 1) :
      InFov(entry.opts, a)
        <=> /\ InDay(entry.opts, a)
            /\ a \notin {EngineWindow(entry.opts)[1], EngineWindow(entry.opts)[2]}

\* Without the exceptions: not kept by the code.
NorthObeyed ==
  entry # None /\ entry.window # None =>
    {a \in 0..(Circle - 1) : InFov(entry.opts, a)} = Between(entry.window)

ClearedStaysCleared ==
  entry # None => \A k \in entry.cleared : entry.opts[k] = None
=============================================================================
