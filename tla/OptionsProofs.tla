----------------------------- MODULE OptionsProofs ----------------------------
(* Proofs about Options, for any sensors, any values of the other options   *)
(* and any number of saves and restarts; and, at the end, about Forms, for  *)
(* any circle, unit of length and ranges.                                   *)
EXTENDS Options, Forms, TLAPS

(* What a value of one key may be, and a patch of such values.              *)
Fits(k, v) ==
  /\ k \in {"sun", "position", "pruned"} => v \in BOOLEAN
  /\ k = "other"   => v \in Others
  /\ k = "sensors" => v \in Lists \cup {Absent}
  /\ k = "sensor"  => v \in Sensors \cup {Absent}
PatchFits(patch) == \A k \in DOMAIN patch : k \in Keys /\ Fits(k, patch[k])

InUse(o) == [sun |-> o.sun, sensors |-> SlotSensors(o)]

(* How far set-up has brought what the options say into use.                *)
Current ==
  ~overlooked =>
    /\ phase = "created" => running.sun = options.sun
    /\ phase \in {"forwarded", "refreshing", "loaded"} => running = InUse(options)
    /\ phase \in {"refreshing", "loaded"} => cached = options

(* The single-sensor key follows the list, in the options and in the copy   *)
(* of a flow alike.                                                         *)
Follows(o) == o.sensor = First(o.sensors)
RollbackInv ==
  /\ migrated /\ ~raw => Follows(options)
  /\ ~migrated => options.sensors = Absent /\ ~flow.open /\ phase = "down"
  /\ flow.open /\ ~flow.raw => Follows(flow.copy)

WellTyped == TypeOK /\ waiting <= saves

-----------------------------------------------------------------------------
(* Options as functions.                                                    *)

LEMMA OptionFits ==
  ASSUME NEW o
  PROVE  o \in OptionSet <=>
           /\ o = [k \in Keys |-> o[k]]
           /\ \A k \in Keys : Fits(k, o[k])
<1>1. o \in OptionSet <=>
        /\ o = [k \in Keys |-> o[k]]
        /\ o["sun"] \in BOOLEAN /\ o["other"] \in Others
        /\ o["sensors"] \in Lists \cup {Absent} /\ o["sensor"] \in Sensors \cup {Absent}
        /\ o["position"] \in BOOLEAN /\ o["pruned"] \in BOOLEAN
  BY DEF OptionSet, Keys
<1> QED BY <1>1 DEF Keys, Fits

LEMMA MergedFits ==
  ASSUME NEW o \in OptionSet, NEW patch, PatchFits(patch)
  PROVE  /\ Merged(o, patch) \in OptionSet
         /\ \A k \in Keys : Merged(o, patch)[k] = IF k \in DOMAIN patch THEN patch[k] ELSE o[k]
<1> DEFINE m == Merged(o, patch)
<1>1. \A k \in Keys : m[k] = IF k \in DOMAIN patch THEN patch[k] ELSE o[k]
  BY DEF Merged
<1>2. m = [k \in Keys |-> m[k]]
  BY DEF Merged
<1> HIDE DEF m
<1>3. ASSUME NEW k \in Keys PROVE Fits(k, m[k])
  <2>1. CASE k \in DOMAIN patch
    <3>1. m[k] = patch[k]
      BY <1>1, <2>1
    <3> QED BY <2>1, <3>1 DEF PatchFits
  <2>2. CASE k \notin DOMAIN patch
    <3>1. m[k] = o[k]
      BY <1>1, <2>2
    <3> QED BY <3>1, OptionFits
  <2> QED BY <2>1, <2>2
<1>4. m \in OptionSet
  BY <1>2, <1>3, OptionFits
<1> QED BY <1>1, <1>4 DEF m

LEMMA ListNotAbsent == Absent \notin Lists
<1>1. <<>> \in Seq(Sensors) /\ \A s \in Sensors : <<s>> \in Seq(Sensors)
  OBVIOUS
<1> QED BY <1>1, Data DEF Lists

LEMMA FirstType == \A list \in Lists \cup {Absent} : First(list) \in Sensors \cup {Absent}
  BY DEF First, Lists

LEMMA MirroredFollows ==
  ASSUME NEW o \in OptionSet, o.sensors # Absent
  PROVE  Mirrored(o) \in OptionSet /\ Follows(Mirrored(o))
<1>1. First(o.sensors) \in Sensors \cup {Absent}
  BY FirstType DEF OptionSet
<1> QED BY <1>1 DEF Mirrored, Follows, OptionSet

LEMMA CopiedFollows ==
  ASSUME NEW o \in OptionSet, o.sensors = Absent
  PROVE  CopiedLegacy(o) \in OptionSet /\ Follows(CopiedLegacy(o))
<1>1. CASE o.sensor = Absent
  BY <1>1 DEF CopiedLegacy, Follows, First
<1>2. CASE o.sensor # Absent
  <2>1. o.sensor \in Sensors /\ <<o.sensor>> \in Lists
    BY <1>2 DEF OptionSet, Lists
  <2>2. CopiedLegacy(o) = [o EXCEPT !.sensors = <<o.sensor>>]
    BY <1>2 DEF CopiedLegacy
  <2>3. <<o.sensor>> \notin {Absent, <<>>}
    BY <2>1, ListNotAbsent
  <2>4. First(<<o.sensor>>) = o.sensor
    BY <2>3 DEF First
  <2> QED BY <2>1, <2>2, <2>4 DEF OptionSet, Follows
<1> QED BY <1>1, <1>2

LEMMA SlotSensorsType ==
  ASSUME NEW o \in OptionSet PROVE SlotSensors(o) \in SUBSET Sensors
<1>1. CASE o.sensors \in Lists /\ o.sensors # Absent
  <2>1. CASE o.sensors = <<>>
    BY <1>1, <2>1 DEF SlotSensors
  <2>2. CASE o.sensors \in {<<s>> : s \in Sensors}
    BY <1>1, <2>2 DEF SlotSensors
  <2> QED BY <1>1, <2>1, <2>2 DEF Lists
<1>2. CASE o.sensors = Absent
  BY <1>2 DEF SlotSensors, OptionSet
<1> QED BY <1>1, <1>2 DEF OptionSet

LEMMA BlankType == Blank \in OptionSet /\ Closed \in [open : BOOLEAN, copy : OptionSet,
                                                      edited : SUBSET Keys, raw : BOOLEAN]
<1>1. (CHOOSE v \in Others : TRUE) \in Others
  BY Data
<1>2. Blank \in OptionSet
  BY <1>1 DEF Blank, OptionSet, Lists
<1> QED BY <1>2 DEF Closed

-----------------------------------------------------------------------------
(* The saves of single keys are patches.                                    *)

Patches == SectionService \/ SetCustomPosition \/ SetOption \/ SwitchSun

(* Whatever saves single keys applies a patch that fits them, and leaves    *)
(* the single-sensor key behind the list only if it owns up to it (raw).    *)
LEMMA PatchesApply ==
  ASSUME TypeOK, Patches
  PROVE  \E patch :
           /\ PatchFits(patch) /\ Apply(patch) /\ raw' \in BOOLEAN
           /\ migrated' = migrated
           /\ phase # "down"
           /\ ~raw' => \/ "sensors" \in DOMAIN patch /\ "sensor" \in DOMAIN patch
                          /\ patch["sensor"] = First(patch["sensors"])
                       \/ ~raw /\ "sensors" \notin DOMAIN patch /\ "sensor" \notin DOMAIN patch
<1>0. raw \in BOOLEAN /\ options \in OptionSet
  BY DEF TypeOK
<1>1. CASE SectionService
  <2>1. PICK s \in BOOLEAN, v \in Others : Apply([sun |-> s, other |-> v])
    BY <1>1 DEF SectionService
  <2>2. PatchFits([sun |-> s, other |-> v])
    BY DEF PatchFits, Keys, Fits
  <2>3. "sensors" \notin DOMAIN [sun |-> s, other |-> v]
        /\ "sensor" \notin DOMAIN [sun |-> s, other |-> v]
    OBVIOUS
  <2> QED BY <1>0, <1>1, <2>1, <2>2, <2>3 DEF SectionService, Apply, UpdateEntry
<1>2. CASE SetCustomPosition
  <2>1. PICK fields \in (SUBSET {"sensors", "position"}) \ {{}},
             list \in Lists \cup {Absent}, pos \in BOOLEAN :
          Apply(SlotPatch(fields, list, pos)) /\ raw' = (raw /\ "sensors" \notin fields)
    BY <1>2 DEF SetCustomPosition
  <2> DEFINE patch == SlotPatch(fields, list, pos)
  <2>2. /\ DOMAIN patch = fields \cup (IF "sensors" \in fields THEN {"sensor"} ELSE {})
        /\ \A k \in DOMAIN patch :
             /\ k = "sensors" => patch[k] = list
             /\ k = "sensor" => patch[k] = First(list)
             /\ k = "position" => patch[k] = pos
    BY DEF SlotPatch
  <2>3. PatchFits(patch)
    BY <2>1, <2>2, FirstType DEF PatchFits, Keys, Fits
  <2>4. phase # "down" /\ raw' \in BOOLEAN /\ migrated' = migrated
    BY <1>0, <1>2, <2>1 DEF SetCustomPosition, Apply, UpdateEntry
  <2> HIDE DEF patch
  <2> QED BY <1>0, <2>1, <2>2, <2>3, <2>4 DEF patch
<1>3. CASE SetOption
  <2>1. PICK k \in {"sun", "other", "sensors", "sensor", "position"} :
          \E v \in CASE k = "sun"      -> BOOLEAN
                     [] k = "other"    -> Others
                     [] k = "sensors"  -> Lists \cup {Absent}
                     [] k = "sensor"   -> Sensors \cup {Absent}
                     [] k = "position" -> BOOLEAN :
            Apply([x \in {k} |-> v]) /\ raw' = (raw \/ k \in {"sensors", "sensor"})
    BY <1>3 DEF SetOption
  <2>2. PICK v \in CASE k = "sun"      -> BOOLEAN
                     [] k = "other"    -> Others
                     [] k = "sensors"  -> Lists \cup {Absent}
                     [] k = "sensor"   -> Sensors \cup {Absent}
                     [] k = "position" -> BOOLEAN :
            Apply([x \in {k} |-> v]) /\ raw' = (raw \/ k \in {"sensors", "sensor"})
    BY <2>1
  <2>3. Fits(k, v)
    <3>1. k = "sun" => v \in BOOLEAN
      BY <2>2
    <3>2. k = "other" => v \in Others
      BY <2>2
    <3>3. k = "sensors" => v \in Lists \cup {Absent}
      BY <2>2
    <3>4. k = "sensor" => v \in Sensors \cup {Absent}
      BY <2>2
    <3>5. k = "position" => v \in BOOLEAN
      BY <2>2
    <3> QED BY <2>1, <3>1, <3>2, <3>3, <3>4, <3>5 DEF Fits
  <2>4. PatchFits([x \in {k} |-> v])
    BY <2>3 DEF PatchFits, Keys
  <2>5. phase # "down" /\ raw' \in BOOLEAN /\ migrated' = migrated
    BY <1>0, <1>3, <2>2 DEF SetOption, Apply, UpdateEntry
  <2>6. ~raw' => /\ ~raw /\ "sensors" \notin DOMAIN [x \in {k} |-> v]
                 /\ "sensor" \notin DOMAIN [x \in {k} |-> v]
    <3>1. ~raw' => ~raw /\ k \notin {"sensors", "sensor"}
      BY <1>0, <2>2
    <3> QED BY <3>1
  <2>7. Apply([x \in {k} |-> v])
    BY <2>2
  <2> DEFINE patch == [x \in {k} |-> v]
  <2> HIDE DEF patch
  <2> QED BY <2>4, <2>5, <2>6, <2>7 DEF patch
<1>4. CASE SwitchSun
  <2>1. PatchFits([sun |-> ~ options.sun])
    <3>1. \A b \in BOOLEAN : PatchFits([sun |-> b])
      BY DEF PatchFits, Keys, Fits
    <3>2. (~ options.sun) \in BOOLEAN
      OBVIOUS
    <3> QED BY <3>1, <3>2
  <2>2. "sensors" \notin DOMAIN [sun |-> ~ options.sun]
        /\ "sensor" \notin DOMAIN [sun |-> ~ options.sun]
    OBVIOUS
  <2>3. Apply([sun |-> ~ options.sun]) /\ phase # "down" /\ raw' = raw /\ migrated' = migrated
    BY <1>4 DEF SwitchSun, Apply, UpdateEntry
  <2> QED BY <1>0, <2>1, <2>2, <2>3
<1> QED BY <1>1, <1>2, <1>3, <1>4 DEF Patches

-----------------------------------------------------------------------------
(* A save and its listener.                                                 *)

Flows == [open : BOOLEAN, copy : OptionSet, edited : SUBSET Keys, raw : BOOLEAN]
Phases == {"down", "created", "forwarded", "refreshing", "loaded", "unloading"}

LEMMA Limits == MaxSaves \in Nat /\ MaxRestarts \in Nat
  BY Bounds

LEMMA UpdateTyped ==
  ASSUME WellTyped, NEW new \in OptionSet, UpdateEntry(new)
  PROVE  /\ options' = new /\ options' \in OptionSet /\ cached' \in OptionSet
         /\ phase' \in Phases /\ waiting' \in 0..MaxSaves /\ waiting' <= saves'
         /\ running' \in [sun : BOOLEAN, sensors : SUBSET Sensors]
         /\ overlooked' \in BOOLEAN /\ saves' \in 0..MaxSaves
         /\ migrated' = migrated /\ restarts' = restarts
<1>1. saves < MaxSaves /\ saves' = saves + 1 /\ options' = new
      /\ migrated' = migrated /\ restarts' = restarts
      /\ overlooked' = (overlooked \/ (new # options /\ SettingUp))
  BY DEF UpdateEntry
<1>2. /\ saves \in 0..MaxSaves /\ waiting \in 0..MaxSaves /\ waiting <= saves
      /\ phase \in Phases /\ cached \in OptionSet /\ overlooked \in BOOLEAN
      /\ running \in [sun : BOOLEAN, sensors : SUBSET Sensors]
  BY DEF WellTyped, TypeOK, Phases
<1>3. saves' \in 0..MaxSaves /\ overlooked' \in BOOLEAN
  BY <1>1, <1>2, Limits
<1>4. CASE UNCHANGED <<phase, waiting, running, cached>>
  BY <1>1, <1>2, <1>3, <1>4, Limits
<1>5. CASE ApplyInPlace(new)
  <2>1. new.sun \in BOOLEAN
    BY DEF OptionSet
  <2>2. running' \in [sun : BOOLEAN, sensors : SUBSET Sensors]
    BY <1>2, <1>5, <2>1 DEF ApplyInPlace
  <2> QED BY <1>1, <1>2, <1>3, <1>5, <2>2, Limits DEF ApplyInPlace
<1>6. CASE Reload
  <2>1. phase' \in Phases /\ UNCHANGED <<running, cached>>
    BY <1>2, <1>6 DEF Reload, Phases
  <2>2. waiting' \in {waiting, waiting + 1}
    BY <1>6 DEF Reload
  <2>3. waiting' \in 0..MaxSaves /\ waiting' <= saves'
    BY <1>1, <1>2, <2>2, Limits
  <2> QED BY <1>1, <1>2, <1>3, <2>1, <2>3
<1> QED BY <1>4, <1>5, <1>6 DEF UpdateEntry, UpdateListener

(* Options that differ only in what is applied in place use the same        *)
(* sensors.                                                                 *)
LEMMA SameSensors ==
  ASSUME NEW new \in OptionSet, Changed(new) \subseteq Runtime, cached \in OptionSet
  PROVE  SlotSensors(new) = SlotSensors(cached)
<1>1. new["sensors"] = cached["sensors"] /\ new["sensor"] = cached["sensor"]
  <2>1. "sensors" \in Keys \ Runtime /\ "sensor" \in Keys \ Runtime
    BY DEF Keys, Runtime
  <2> QED BY <2>1 DEF Changed
<1> QED BY <1>1 DEF SlotSensors

LEMMA UpdateCurrent ==
  ASSUME WellTyped, Current, NEW new \in OptionSet, UpdateEntry(new)
  PROVE  /\ Current'
         /\ phase = "loaded" /\ phase' = "unloading" /\ ~overlooked =>
              \E k \in Keys \ Runtime : options'[k] # options[k]
<1>1. /\ options' = new /\ overlooked' = (overlooked \/ (new # options /\ SettingUp))
      /\ overlooked \in BOOLEAN /\ cached \in OptionSet
  BY DEF UpdateEntry, WellTyped, TypeOK
<1>2. CASE new = options \/ ~Listening
  <2>1. UNCHANGED <<phase, waiting, running, cached>>
    BY <1>2 DEF UpdateEntry
  <2>2. CASE new = options
    BY <1>1, <2>1, <2>2 DEF Current, InUse
  <2>3. CASE new # options /\ ~Listening
    <3>1. phase \notin {"loaded", "unloading"}
      BY <2>3 DEF Listening
    <3>2. ~overlooked' => phase \notin {"created", "forwarded", "refreshing"}
      BY <1>1, <2>3 DEF SettingUp
    <3> QED BY <2>1, <3>1, <3>2 DEF Current
  <2> QED BY <1>2, <2>2, <2>3
<1>3. CASE new # options /\ Listening
  <2>1. UpdateListener(new)
    BY <1>3 DEF UpdateEntry
  <2>2. phase \in {"loaded", "unloading"} /\ (overlooked' = overlooked)
    BY <1>1, <1>3 DEF Listening, SettingUp
  <2>3. CASE phase = "loaded" /\ ~overlooked
    <3>1. running = InUse(options) /\ cached = options
      BY <2>3 DEF Current
    <3>2. CASE Changed(new) = {}
      <4>1. \A k \in Keys : new[k] = cached[k]
        BY <3>2 DEF Changed
      <4>2. new = [k \in Keys |-> new[k]] /\ cached = [k \in Keys |-> cached[k]]
        BY <1>1, OptionFits
      <4>3. new = cached
        BY <4>1, <4>2
      <4> QED BY <1>3, <3>1, <4>3
    <3>3. CASE Changed(new) \subseteq Runtime /\ ApplyInPlace(new)
      <4>1. SlotSensors(new) = SlotSensors(options)
        BY <1>1, <3>1, <3>3, SameSensors
      <4>2. running' = [running EXCEPT !.sun = new.sun] /\ cached' = new /\ phase' = phase
        BY <3>3 DEF ApplyInPlace
      <4>3. running' = InUse(new)
        BY <3>1, <4>1, <4>2 DEF InUse
      <4>4. Current'
        BY <1>1, <2>3, <4>2, <4>3 DEF Current, InUse
      <4> QED BY <2>3, <4>2, <4>4
    <3>4. CASE ~(Changed(new) \subseteq Runtime) /\ Reload
      <4>1. phase' = "unloading"
        BY <2>3, <3>4 DEF Reload
      <4>2. PICK k \in Changed(new) : k \notin Runtime
        BY <3>4
      <4>3. k \in Keys \ Runtime /\ options'[k] # options[k]
        BY <1>1, <3>1, <4>2 DEF Changed
      <4> QED BY <4>1, <4>3 DEF Current
    <3> QED BY <2>1, <3>2, <3>3, <3>4 DEF UpdateListener
  <2>4. CASE phase = "unloading"
    <3>1. phase' = phase
      BY <2>1, <2>4 DEF UpdateListener, ApplyInPlace, Reload
    <3> QED BY <2>4, <3>1 DEF Current
  <2>5. CASE overlooked
    BY <2>2, <2>5 DEF Current
  <2> QED BY <2>2, <2>3, <2>4, <2>5
<1> QED BY <1>2, <1>3

-----------------------------------------------------------------------------
(* Types.                                                                   *)

LEMMA InitTyped == Init => WellTyped
<1> SUFFICES ASSUME Init PROVE WellTyped
  OBVIOUS
<1>1. options \in OptionSet
  BY DEF Init, Entries
<1>2. running \in [sun : BOOLEAN, sensors : SUBSET Sensors]
  BY <1>1 DEF Init, OptionSet
<1>3. flow \in Flows
  BY BlankType DEF Init, Flows
<1>4. /\ migrated \in BOOLEAN /\ phase = "down" /\ waiting = 0 /\ cached = options
      /\ meant = options /\ clobbered = {} /\ raw = FALSE /\ overlooked = FALSE
      /\ saves = 0 /\ restarts = 0
  BY DEF Init
<1>5. saves \in 0..MaxSaves /\ restarts \in 0..MaxRestarts /\ waiting \in 0..MaxSaves
      /\ waiting <= saves
  BY <1>4, Limits
<1>6. cached \in OptionSet /\ meant \in OptionSet /\ clobbered \in SUBSET Keys
  BY <1>1, <1>4
<1> QED BY <1>1, <1>2, <1>3, <1>4, <1>5, <1>6 DEF WellTyped, TypeOK, Flows

LEMMA PatchesTyped == WellTyped /\ Patches => WellTyped'
<1> SUFFICES ASSUME WellTyped, Patches PROVE WellTyped'
  OBVIOUS
<1>1. PICK patch : PatchFits(patch) /\ Apply(patch) /\ raw' \in BOOLEAN
  BY PatchesApply DEF WellTyped
<1>2. Merged(options, patch) \in OptionSet /\ Merged(meant, patch) \in OptionSet
  BY <1>1, MergedFits DEF WellTyped, TypeOK
<1>3. UpdateEntry(Merged(options, patch)) /\ meant' = Merged(meant, patch)
      /\ clobbered' = clobbered \ DOMAIN patch /\ flow' = flow
  BY <1>1 DEF Apply, Patched
<1> QED BY <1>1, <1>2, <1>3, UpdateTyped DEF WellTyped, TypeOK, Phases

LEMMA FlowTyped ==
  ASSUME WellTyped, OpenFlow \/ SunTrackingSection \/ CustomPositionSection \/ FlowDone \/ AbandonFlow
  PROVE  WellTyped'
<1>0. flow \in Flows /\ options \in OptionSet /\ meant \in OptionSet /\ raw \in BOOLEAN
  BY DEF WellTyped, TypeOK, Flows
<1>1. CASE OpenFlow
  <2>1. flow' \in Flows
    BY <1>0, <1>1 DEF OpenFlow, Flows
  <2> QED BY <1>1, <2>1 DEF OpenFlow, WellTyped, TypeOK, Flows
<1>2. ASSUME NEW new \in OptionSet, NEW r \in BOOLEAN, Section(new, r)
      PROVE  WellTyped'
  <2>1. flow' \in Flows
    BY <1>0, <1>2 DEF Section, Flows
  <2> QED BY <1>2, <2>1 DEF Section, WellTyped, TypeOK, Flows
<1>3. CASE SunTrackingSection
  <2>1. PICK s \in BOOLEAN, v \in Others :
          Section([flow.copy EXCEPT !.sun = s, !.other = v], flow.raw)
    BY <1>3 DEF SunTrackingSection
  <2>2. [flow.copy EXCEPT !.sun = s, !.other = v] \in OptionSet /\ flow.raw \in BOOLEAN
    BY <1>0 DEF Flows, OptionSet
  <2> QED BY <1>2, <2>1, <2>2
<1>4. CASE CustomPositionSection
  <2>1. PICK list \in Lists, pos \in BOOLEAN :
          Section(Mirrored([flow.copy EXCEPT !.sensors = list, !.position = pos]), FALSE)
    BY <1>4 DEF CustomPositionSection
  <2>2. /\ [flow.copy EXCEPT !.sensors = list, !.position = pos] \in OptionSet
        /\ [flow.copy EXCEPT !.sensors = list, !.position = pos].sensors # Absent
    BY <1>0, ListNotAbsent DEF Flows, OptionSet
  <2> QED BY <1>2, <2>1, <2>2, MirroredFollows
<1>5. CASE FlowDone
  <2>1. flow.copy \in OptionSet /\ flow.edited \in SUBSET Keys /\ flow.raw \in BOOLEAN
    BY <1>0 DEF Flows
  <2>2. meant' = [k \in Keys |-> IF k \in flow.edited THEN flow.copy[k] ELSE meant[k]]
    BY <1>5 DEF FlowDone
  <2>3. meant' \in OptionSet
    <3>1. ASSUME NEW k \in Keys PROVE Fits(k, meant'[k])
      <4>1. CASE k \in flow.edited
        BY <2>1, <2>2, <4>1, OptionFits
      <4>2. CASE k \notin flow.edited
        BY <1>0, <2>2, <4>2, OptionFits
      <4> QED BY <4>1, <4>2
    <3>2. meant' = [k \in Keys |-> meant'[k]]
      BY <2>2
    <3> QED BY <3>1, <3>2, OptionFits
  <2>4. clobbered' \in SUBSET Keys /\ raw' \in BOOLEAN /\ flow' \in Flows
    BY <1>5, <2>1, BlankType DEF FlowDone, Flows
  <2>5. UpdateEntry(flow.copy)
    BY <1>5 DEF FlowDone
  <2> QED BY <2>1, <2>3, <2>4, <2>5, UpdateTyped DEF WellTyped, TypeOK, Phases, Flows
<1>6. CASE AbandonFlow
  <2>1. flow' \in Flows
    BY <1>6, BlankType DEF AbandonFlow, Flows
  <2> QED BY <1>6, <2>1 DEF AbandonFlow, WellTyped, TypeOK, Flows
<1> QED BY <1>1, <1>3, <1>4, <1>5, <1>6

(* What a start makes of the options: only an entry that has not been       *)
(* migrated is changed by it, and its single-sensor key follows the list    *)
(* unless a force override was copied.                                      *)
LEMMA StartOptions ==
  ASSUME WellTyped, RollbackInv, Start
  PROVE  /\ options' \in OptionSet /\ raw' \in BOOLEAN
         /\ migrated => options' = options /\ raw' = raw
         /\ ~migrated /\ ~raw' => Follows(options')
<1>1. options \in OptionSet /\ migrated \in BOOLEAN /\ raw \in BOOLEAN
  BY DEF WellTyped, TypeOK
<1>2. ~migrated => options.sensors = Absent
  BY DEF RollbackInv
<1>3. CASE migrated
  <2>1. PICK force \in ForceLists(options) :
          options' = options /\ raw' = (raw \/ (~ migrated /\ force # <<>>))
    BY <1>3 DEF Start
  <2> QED BY <1>1, <1>3, <2>1
<1>4. CASE ~migrated
  <2>1. PICK force \in ForceLists(options) :
          /\ options' = CopiedLegacy(ForceMerged(options, force))
          /\ raw' = (raw \/ (~ migrated /\ force # <<>>))
    BY <1>4 DEF Start
  <2>2. CASE force = <<>>
    <3>1. options' = CopiedLegacy(options)
      BY <2>1, <2>2 DEF ForceMerged
    <3> QED BY <1>1, <1>2, <1>4, <2>1, <3>1, CopiedFollows
  <2>3. CASE force # <<>>
    <3>1. force \in Lists
      BY DEF ForceLists, Lists
    <3>2. force # Absent
      BY <2>3, <3>1, ListNotAbsent DEF Lists
    <3>3. ForceMerged(options, force) = [options EXCEPT !.sensors = force, !.position = TRUE]
      BY <2>3 DEF ForceMerged
    <3>4. ForceMerged(options, force) \in OptionSet /\ ForceMerged(options, force).sensors # Absent
      BY <1>1, <3>1, <3>2, <3>3 DEF OptionSet
    <3>5. options' = ForceMerged(options, force)
      BY <2>1, <3>4 DEF CopiedLegacy
    <3>6. raw'
      BY <1>4, <2>1, <2>3
    <3> QED BY <1>4, <3>4, <3>5, <3>6
  <2> QED BY <2>2, <2>3
<1> QED BY <1>1, <1>3, <1>4

SetUpSteps == Subscribe \/ FirstRefresh \/ Loaded \/ NextReload \/ Unloaded \/ Restart

LEMMA StartTyped == WellTyped /\ RollbackInv /\ Start => WellTyped'
<1> SUFFICES ASSUME WellTyped, RollbackInv, Start PROVE WellTyped'
  OBVIOUS
<1>1. options' \in OptionSet /\ raw' \in BOOLEAN
  BY StartOptions
<1>2. /\ cached' = options' /\ running' = [sun |-> options'.sun, sensors |-> {}]
      /\ meant' \in {meant, options'}
  BY DEF Start
<1>3. running' \in [sun : BOOLEAN, sensors : SUBSET Sensors]
  BY <1>1, <1>2 DEF OptionSet
<1> QED BY <1>1, <1>2, <1>3 DEF Start, WellTyped, TypeOK

LEMMA SetUpTyped == WellTyped /\ SetUpSteps => WellTyped'
<1> SUFFICES ASSUME WellTyped, SetUpSteps PROVE WellTyped'
  OBVIOUS
<1>1. CASE Subscribe
  <2>1. SlotSensors(options) \in SUBSET Sensors
    BY SlotSensorsType DEF WellTyped, TypeOK
  <2>2. running' \in [sun : BOOLEAN, sensors : SUBSET Sensors]
    BY <1>1, <2>1 DEF Subscribe, WellTyped, TypeOK
  <2>3. options' \in OptionSet /\ meant' \in OptionSet
    BY <1>1 DEF Subscribe, WellTyped, TypeOK, OptionSet
  <2> QED BY <1>1, <2>2, <2>3 DEF Subscribe, WellTyped, TypeOK
<1>2. CASE FirstRefresh
  BY <1>2 DEF FirstRefresh, ghosts, WellTyped, TypeOK
<1>3. CASE Loaded \/ Unloaded
  BY <1>3 DEF Loaded, Unloaded, ghosts, WellTyped, TypeOK
<1>4. CASE NextReload
  <2>1. waiting' \in 0..MaxSaves /\ waiting' <= saves'
    BY <1>4, Limits DEF NextReload, WellTyped, TypeOK
  <2> QED BY <1>4, <2>1 DEF NextReload, ghosts, WellTyped, TypeOK
<1>5. CASE Restart
  <2>1. flow' \in Flows
    BY <1>5, BlankType DEF Restart, Flows
  <2>2. restarts' \in 0..MaxRestarts /\ waiting' \in 0..MaxSaves /\ waiting' <= saves'
    BY <1>5, Limits DEF Restart, WellTyped, TypeOK
  <2> QED BY <1>5, <2>1, <2>2 DEF Restart, ghosts, WellTyped, TypeOK, Flows
<1> QED BY <1>1, <1>2, <1>3, <1>4, <1>5 DEF SetUpSteps

-----------------------------------------------------------------------------
(* Rollback.                                                                *)

LEMMA InitRollback == Init => RollbackInv
<1> SUFFICES ASSUME Init PROVE RollbackInv
  OBVIOUS
<1>1. ~flow.open /\ phase = "down" /\ options \in OptionSet
  BY DEF Init, Closed, Entries
<1>2. ~migrated => options.sensors = Absent
  BY DEF Init
<1>3. migrated => Follows(options)
  <2>1. migrated => options = Mirrored(options) /\ options.sensors # Absent
    BY DEF Init
  <2> QED BY <1>1, <2>1, MirroredFollows
<1> QED BY <1>1, <1>2, <1>3 DEF RollbackInv

LEMMA PatchesRollback == WellTyped /\ RollbackInv /\ Patches => RollbackInv'
<1> SUFFICES ASSUME WellTyped, RollbackInv, Patches PROVE RollbackInv'
  OBVIOUS
<1>1. PICK patch :
        /\ PatchFits(patch) /\ Apply(patch) /\ migrated' = migrated /\ phase # "down"
        /\ ~raw' => \/ "sensors" \in DOMAIN patch /\ "sensor" \in DOMAIN patch
                        /\ patch["sensor"] = First(patch["sensors"])
                    \/ ~raw /\ "sensors" \notin DOMAIN patch /\ "sensor" \notin DOMAIN patch
  BY PatchesApply DEF WellTyped
<1>2. options' = Merged(options, patch) /\ flow' = flow /\ migrated
  BY <1>1 DEF Apply, Patched, UpdateEntry, RollbackInv
<1>3. \A k \in Keys : options'[k] = IF k \in DOMAIN patch THEN patch[k] ELSE options[k]
  BY <1>1, <1>2, MergedFits DEF WellTyped, TypeOK
<1>4. ~raw' => Follows(options')
  <2>1. "sensors" \in Keys /\ "sensor" \in Keys
    BY DEF Keys
  <2> QED BY <1>1, <1>2, <1>3, <2>1 DEF Follows, RollbackInv
<1> QED BY <1>1, <1>2, <1>4 DEF RollbackInv

LEMMA FlowRollback ==
  ASSUME WellTyped, RollbackInv,
         OpenFlow \/ SunTrackingSection \/ CustomPositionSection \/ FlowDone \/ AbandonFlow
  PROVE  RollbackInv'
<1>0. flow \in Flows
  BY DEF WellTyped, TypeOK, Flows
<1>1. CASE OpenFlow
  BY <1>1 DEF OpenFlow, RollbackInv
<1>2. CASE SunTrackingSection
  <2>1. PICK s \in BOOLEAN, v \in Others :
          Section([flow.copy EXCEPT !.sun = s, !.other = v], flow.raw)
    BY <1>2 DEF SunTrackingSection
  <2>2. ~flow.raw => Follows([flow.copy EXCEPT !.sun = s, !.other = v])
    BY <1>0, <2>1 DEF Section, RollbackInv, Follows, Flows, OptionSet
  <2>3. flow'.copy = [flow.copy EXCEPT !.sun = s, !.other = v] /\ flow'.raw = flow.raw
    BY <1>0, <2>1 DEF Section, Flows
  <2> QED BY <2>1, <2>2, <2>3 DEF Section, RollbackInv
<1>3. CASE CustomPositionSection
  <2>1. PICK list \in Lists, pos \in BOOLEAN :
          Section(Mirrored([flow.copy EXCEPT !.sensors = list, !.position = pos]), FALSE)
    BY <1>3 DEF CustomPositionSection
  <2>2. /\ [flow.copy EXCEPT !.sensors = list, !.position = pos] \in OptionSet
        /\ [flow.copy EXCEPT !.sensors = list, !.position = pos].sensors # Absent
    BY <1>0, ListNotAbsent DEF Flows, OptionSet
  <2>3. Follows(Mirrored([flow.copy EXCEPT !.sensors = list, !.position = pos]))
    BY <2>2, MirroredFollows
  <2>4. flow'.copy = Mirrored([flow.copy EXCEPT !.sensors = list, !.position = pos])
    BY <1>0, <2>1 DEF Section, Flows
  <2> QED BY <2>1, <2>3, <2>4 DEF Section, RollbackInv
<1>4. CASE FlowDone
  <2>1. options' = flow.copy /\ raw' = flow.raw /\ flow.open /\ ~flow'.open /\ migrated' = migrated
    BY <1>4 DEF FlowDone, UpdateEntry, Closed
  <2> QED BY <2>1 DEF RollbackInv
<1>5. CASE AbandonFlow
  <2>1. ~flow'.open /\ flow.open
    BY <1>5 DEF AbandonFlow, Closed
  <2> QED BY <1>5, <2>1 DEF AbandonFlow, RollbackInv
<1> QED BY <1>1, <1>2, <1>3, <1>4, <1>5

LEMMA StartRollback == WellTyped /\ RollbackInv /\ Start => RollbackInv'
<1> SUFFICES ASSUME WellTyped, RollbackInv, Start PROVE RollbackInv'
  OBVIOUS
<1>1. /\ migrated => options' = options /\ raw' = raw
      /\ ~migrated /\ ~raw' => Follows(options')
  BY StartOptions
<1>2. migrated' /\ flow' = flow
  BY DEF Start
<1>3. ~raw' => Follows(options')
  BY <1>1 DEF RollbackInv
<1> QED BY <1>1, <1>2, <1>3 DEF RollbackInv

LEMMA SetUpRollback == WellTyped /\ RollbackInv /\ SetUpSteps => RollbackInv'
<1> SUFFICES ASSUME WellTyped, RollbackInv, SetUpSteps PROVE RollbackInv'
  OBVIOUS
<1>1. CASE Subscribe
  <2>1. options'.sensor = options.sensor /\ options'.sensors = options.sensors
    BY <1>1 DEF Subscribe, WellTyped, TypeOK, OptionSet
  <2> QED BY <1>1, <2>1 DEF Subscribe, RollbackInv, Follows
<1>2. CASE FirstRefresh \/ Loaded \/ NextReload \/ Unloaded
  BY <1>2 DEF FirstRefresh, Loaded, NextReload, Unloaded, ghosts, RollbackInv
<1>3. CASE Restart
  <2>1. ~flow'.open
    BY <1>3 DEF Restart, Closed
  <2> QED BY <1>3, <2>1 DEF Restart, ghosts, RollbackInv
<1> QED BY <1>1, <1>2, <1>3 DEF SetUpSteps

-----------------------------------------------------------------------------
(* The invariant of types and rollback.                                     *)

Flowing == OpenFlow \/ SunTrackingSection \/ CustomPositionSection \/ FlowDone \/ AbandonFlow
Inv == WellTyped /\ RollbackInv

LEMMA NextSplit == Next <=> Patches \/ Flowing \/ Start \/ SetUpSteps
  BY DEF Next, Patches, Flowing, SetUpSteps

LEMMA InvInvariant == Spec => []Inv
<1>1. Init => Inv
  BY InitTyped, InitRollback DEF Inv
<1>2. Inv /\ [Next]_vars => Inv'
  <2> SUFFICES ASSUME Inv, [Next]_vars PROVE Inv'
    OBVIOUS
  <2>1. CASE UNCHANGED vars
    BY <2>1 DEF vars, Inv, WellTyped, TypeOK, RollbackInv
  <2>2. CASE Next
    BY <2>2, NextSplit, PatchesTyped, PatchesRollback, FlowTyped, FlowRollback, StartTyped,
       StartRollback, SetUpTyped, SetUpRollback DEF Inv, Flowing
  <2> QED BY <2>1, <2>2
<1> QED BY <1>1, <1>2, PTL DEF Spec

(* Every variable keeps its type.                                           *)
THEOREM TypeCorrect == Spec => []TypeOK
<1>1. Inv => TypeOK
  BY DEF Inv, WellTyped
<1> QED BY <1>1, InvInvariant, PTL

(* However flows, services and migration overlap, the key an older release  *)
(* reads names the first sensor of the list.                                *)
THEOREM RollbackAlwaysSafe == Spec => []RollbackSafe
<1>1. Inv => RollbackSafe
  BY DEF Inv, RollbackInv, Follows, RollbackSafe
<1> QED BY <1>1, InvInvariant, PTL

-----------------------------------------------------------------------------
(* The options in use.                                                      *)

CurrentInv == Inv /\ Current

LEMMA NextCurrent ==
  ASSUME Inv, Current, [Next]_vars
  PROVE  /\ Current'
         /\ phase = "loaded" /\ phase' = "unloading" /\ waiting = 0 /\ ~overlooked =>
              \E k \in Keys \ Runtime : options'[k] # options[k]
<1> USE DEF Inv
<1>1. CASE Patches
  <2>1. PICK patch : PatchFits(patch) /\ Apply(patch)
    BY <1>1, PatchesApply DEF WellTyped
  <2>2. Merged(options, patch) \in OptionSet /\ UpdateEntry(Merged(options, patch))
    BY <2>1, MergedFits DEF Apply, Patched, WellTyped, TypeOK
  <2> QED BY <2>2, UpdateCurrent
<1>2. CASE FlowDone
  <2>1. flow.copy \in OptionSet /\ UpdateEntry(flow.copy)
    BY <1>2 DEF FlowDone, WellTyped, TypeOK
  <2> QED BY <2>1, UpdateCurrent
<1>3. CASE OpenFlow \/ SunTrackingSection \/ CustomPositionSection \/ AbandonFlow
  <2>1. UNCHANGED <<options, phase, running, cached, overlooked>>
    BY <1>3 DEF OpenFlow, SunTrackingSection, CustomPositionSection, AbandonFlow, Section
  <2> QED BY <2>1 DEF Current, InUse
<1>4. CASE Start
  <2>1. phase = "down" /\ phase' = "created" /\ ~overlooked'
        /\ running' = [sun |-> options'.sun, sensors |-> {}]
    BY <1>4 DEF Start
  <2> QED BY <2>1 DEF Current
<1>5. CASE Subscribe
  <2>1. /\ phase = "created" /\ phase' = "forwarded" /\ overlooked' = overlooked
        /\ running' = [running EXCEPT !.sensors = SlotSensors(options)]
        /\ options' = [options EXCEPT !.pruned = TRUE]
    BY <1>5 DEF Subscribe
  <2>2. options'["sensors"] = options["sensors"] /\ options'["sensor"] = options["sensor"]
        /\ options'.sun = options.sun
    BY <2>1 DEF WellTyped, TypeOK, OptionSet
  <2>3. SlotSensors(options') = SlotSensors(options)
    BY <2>2 DEF SlotSensors
  <2>4. ~overlooked' => running' = InUse(options')
    BY <2>1, <2>2, <2>3 DEF Current, InUse, WellTyped, TypeOK
  <2> QED BY <2>1, <2>4 DEF Current
<1>6. CASE FirstRefresh \/ Loaded
  BY <1>6 DEF FirstRefresh, Loaded, ghosts, Current, InUse
<1>7. CASE NextReload \/ Unloaded \/ Restart
  BY <1>7 DEF NextReload, Unloaded, Restart, Current, WellTyped, TypeOK
<1>8. CASE UNCHANGED vars
  BY <1>8 DEF vars, Current, InUse
<1> QED BY <1>1, <1>2, <1>3, <1>4, <1>5, <1>6, <1>7, <1>8, NextSplit DEF Flowing, SetUpSteps

LEMMA CurrentInvariant == Spec => []Current
<1>1. Init => Current
  BY DEF Init, Current
<1>2. Inv /\ Current /\ [Next]_vars => Current'
  BY NextCurrent
<1> QED BY <1>1, <1>2, InvInvariant, PTL DEF Spec

(* A loaded coordinator runs on the stored options, unless they were saved  *)
(* while it was being set up.                                               *)
THEOREM OptionsAlwaysInUse == Spec => []OptionsInUse
<1>1. Current => OptionsInUse
  BY DEF Current, OptionsInUse, InUse
<1> QED BY <1>1, CurrentInvariant, PTL

(* Nothing but a change of another option reloads a loaded entry.           *)
THEOREM SunAppliedInPlace == Spec => SunAloneInPlace
<1>1. Inv /\ Current /\ [Next]_vars =>
        [phase = "loaded" /\ phase' = "unloading" /\ waiting = 0 /\ ~ overlooked
           => \E k \in Keys \ Runtime : options'[k] # options[k]]_vars
  BY NextCurrent
<1> QED BY <1>1, InvInvariant, CurrentInvariant, PTL DEF Spec, SunAloneInPlace

-----------------------------------------------------------------------------
(* Lost writes.                                                             *)

LEMMA NextKept == Inv /\ WritesKept /\ [Next]_vars => WritesKept'
<1> SUFFICES ASSUME Inv, WritesKept, [Next]_vars PROVE WritesKept'
  OBVIOUS
<1> USE DEF Inv
<1>1. CASE Patches
  <2>1. PICK patch : PatchFits(patch) /\ Apply(patch)
    BY <1>1, PatchesApply DEF WellTyped
  <2>2. /\ options' = Merged(options, patch) /\ meant' = Merged(meant, patch)
        /\ clobbered' = clobbered \ DOMAIN patch
    BY <2>1 DEF Apply, Patched, UpdateEntry
  <2>3. ASSUME NEW k \in Keys \ clobbered' PROVE options'[k] = meant'[k]
    BY <2>1, <2>2, MergedFits DEF WellTyped, TypeOK, WritesKept
  <2> QED BY <2>3 DEF WritesKept
<1>2. CASE FlowDone
  BY <1>2 DEF FlowDone, UpdateEntry, WritesKept
<1>3. CASE OpenFlow \/ SunTrackingSection \/ CustomPositionSection \/ AbandonFlow
  <2>1. UNCHANGED <<options, meant, clobbered>>
    BY <1>3 DEF OpenFlow, SunTrackingSection, CustomPositionSection, AbandonFlow, Section
  <2> QED BY <2>1 DEF WritesKept
<1>4. CASE Start
  BY <1>4 DEF Start, WritesKept
<1>5. CASE Subscribe
  <2>1. \A k \in Keys : options'[k] = (IF k = "pruned" THEN TRUE ELSE options[k])
                        /\ meant'[k] = (IF k = "pruned" THEN TRUE ELSE meant[k])
    BY <1>5 DEF Subscribe, WellTyped, TypeOK, OptionSet, Keys
  <2> QED BY <1>5, <2>1 DEF Subscribe, WritesKept
<1>6. CASE FirstRefresh \/ Loaded \/ NextReload \/ Unloaded \/ Restart
  BY <1>6 DEF FirstRefresh, Loaded, NextReload, Unloaded, Restart, ghosts, WritesKept
<1>7. CASE UNCHANGED vars
  BY <1>7 DEF vars, WritesKept
<1> QED BY <1>1, <1>2, <1>3, <1>4, <1>5, <1>6, <1>7, NextSplit DEF Flowing, SetUpSteps

(* Every key holds what its latest editor wrote, but for those a flow left  *)
(* open over another save has put back.                                     *)
THEOREM WritesAlwaysKept == Spec => []WritesKept
<1>1. Init => WritesKept
  BY DEF Init, WritesKept
<1> QED BY <1>1, NextKept, InvInvariant, PTL DEF Spec

-----------------------------------------------------------------------------
(* What the forms store, for any circle, unit, length and range.            *)

LEMMA FormNumbers ==
  /\ Circle \in Nat /\ Circle >= 4 /\ None \notin Int /\ Given \notin Int /\ None # Given
         /\ Circle \div 2 \in Nat /\ Circle = 2 * (Circle \div 2) /\ Circle \div 4 \in Nat
         /\ Circle \div 4 <= Circle \div 2 /\ Circle \div 2 < Circle
         /\ Tenth \in Nat \ {0} /\ Percent \in Nat /\ Percent > 2
         /\ Metric \subseteq Nat /\ Metric # {} /\ Imperial \subseteq Nat
         /\ Elevations \subseteq 0..(Circle \div 4) /\ Temperatures \subseteq Nat
<1>1. Circle \in Nat /\ (Circle % 4) = 0 /\ Circle > 0
  BY Angles
<1>2. Circle = 4 * (Circle \div 4) /\ Circle \div 4 \in Nat
  BY <1>1
<1>3. Circle \div 2 \in Nat /\ Circle = 2 * (Circle \div 2)
  BY <1>1
<1>4. /\ Tenth \in Nat \ {0} /\ Percent \in Nat /\ Percent > 2 /\ None \notin Int /\ Given \notin Int
      /\ Metric \subseteq Nat /\ Metric # {} /\ Imperial \subseteq Nat /\ None # Given
      /\ Elevations \subseteq 0..(Circle \div 4) /\ Temperatures \subseteq Nat
  BY Lengths, Ranges, Valueless
<1> QED BY <1>1, <1>2, <1>3, <1>4

(* Directions: the residue of a number and of one whole circles away.       *)
LEMMA Residue ==
  ASSUME NEW c \in Nat, c > 0, NEW x \in Int
  PROVE  (x % c) \in 0..(c - 1) /\ \E k \in Int : (x % c) = x + c * k
<1>1. (x % c) \in 0..(c - 1) /\ x = c * (x \div c) + (x % c) /\ (x \div c) \in Int
  OBVIOUS
<1>2. (x % c) = x + c * (0 - (x \div c))
  <2> DEFINE q == x \div c
             r == x % c
  <2>1. q \in Int /\ r \in Int /\ x = c * q + r
    BY <1>1
  <2> HIDE DEF q, r
  <2>2. c * (0 - q) = 0 - c * q
    BY <2>1
  <2>3. r = x + c * (0 - q)
    BY <2>1, <2>2
  <2> QED BY <2>3 DEF q, r
<1> QED BY <1>1, <1>2

LEMMA ResidueOnly ==
  ASSUME NEW c \in Nat, c > 0, NEW x \in Int, NEW r \in 0..(c - 1), NEW k \in Int, r = x + c * k
  PROVE  (x % c) = r
<1>1. PICK q \in Int : (x % c) = x + c * q
  BY Residue
<1>2. PICK s : s = x % c
  OBVIOUS
<1>3. s \in 0..(c - 1) /\ s = x + c * q
  BY <1>1, <1>2, Residue
<1>4. ASSUME q > k PROVE FALSE
  <2>1. q - k >= 1
    BY <1>4
  <2>2. c * (q - k) >= c * 1
    BY <2>1
  <2>3. c * (q - k) = c * q - c * k
    OBVIOUS
  <2> QED BY <1>3, <2>2, <2>3
<1>5. ASSUME k > q PROVE FALSE
  <2>1. k - q >= 1
    BY <1>5
  <2>2. c * (k - q) >= c * 1
    BY <2>1
  <2>3. c * (k - q) = c * k - c * q
    OBVIOUS
  <2> QED BY <1>3, <2>2, <2>3
<1>6. q = k
  BY <1>4, <1>5
<1> QED BY <1>2, <1>3, <1>6

(* Numbers whole circles apart have the same residue.                       *)
LEMMA ResidueSame ==
  ASSUME NEW c \in Nat, c > 0, NEW x \in Int, NEW y \in Int, NEW k \in Int, y = x + c * k
  PROVE  (x % c) = (y % c)
<1>1. PICK q \in Int : (y % c) = y + c * q
  BY Residue
<1>2. PICK r \in 0..(c - 1) : r = y % c
  BY Residue
<1>3. r = x + c * (k + q)
  <2>1. c * (k + q) = c * k + c * q
    OBVIOUS
  <2> QED BY <1>1, <1>2, <2>1
<1>4. (x % c) = r
  BY <1>2, <1>3, ResidueOnly
<1> QED BY <1>2, <1>4

(* Two residues are equally far from a third only if they are equal.        *)
LEMMA ResidueApart ==
  ASSUME NEW c \in Nat, c > 0, NEW x \in 0..(c - 1), NEW y \in 0..(c - 1), NEW f \in Int
  PROVE  ((x - f) % c) = ((y - f) % c) <=> x = y
<1>1. x - f \in Int /\ y - f \in Int /\ x \in Int /\ y \in Int
  OBVIOUS
<1>2. PICK k \in Int : ((x - f) % c) = (x - f) + c * k
  BY <1>1, Residue
<1>3. PICK q \in Int : ((y - f) % c) = (y - f) + c * q
  BY <1>1, Residue
<1>4. ASSUME ((x - f) % c) = ((y - f) % c) PROVE x = y
  <2>1. x = y + c * (q - k) /\ q - k \in Int
    <3>1. c * (q - k) = c * q - c * k
      OBVIOUS
    <3> QED BY <1>1, <1>2, <1>3, <1>4, <3>1
  <2>2. (y % c) = x
    BY <1>1, <2>1, ResidueOnly
  <2>3. y = y + c * 0
    BY <1>1
  <2>4. (y % c) = y
    BY <1>1, <2>3, ResidueOnly
  <2> QED BY <2>2, <2>4
<1> QED BY <1>4

(* A residue taken away or added before another is taken.                   *)
LEMMA ResidueOfDifference ==
  ASSUME NEW c \in Nat, c > 0, NEW x \in Int, NEW y \in Int
  PROVE  /\ ((x - (y % c)) % c) = ((x - y) % c)
         /\ (((x % c) - y) % c) = ((x - y) % c)
         /\ (((x % c) + y) % c) = ((x + y) % c)
<1>1. PICK k \in Int : (y % c) = y + c * k
  BY Residue
<1>2. PICK q \in Int : (x % c) = x + c * q
  BY Residue
<1>3. x - (y % c) \in Int /\ (x % c) - y \in Int /\ (x % c) + y \in Int
  BY Residue
<1>4. x - y = (x - (y % c)) + c * k
  BY <1>1
<1>5. (x % c) - y = (x - y) + c * q /\ (x % c) + y = (x + y) + c * q
  BY <1>2
<1> DEFINE u == x - (y % c)
           v == (x % c) - y
           w == (x % c) + y
<1>6. u \in Int /\ v \in Int /\ w \in Int /\ x - y = u + c * k
      /\ v = (x - y) + c * q /\ w = (x + y) + c * q
  BY <1>3, <1>4, <1>5
<1> DEFINE m == x - y
           p == x + y
<1>7. m \in Int /\ p \in Int /\ m = u + c * k /\ v = m + c * q /\ w = p + c * q
  BY <1>6
<1> HIDE DEF u, v, w, m, p
<1>8. u \in Int /\ v \in Int /\ w \in Int
  BY <1>6
<1>9. (u % c) = (m % c)
  BY <1>7, <1>8, ResidueSame
<1>10. (m % c) = (v % c)
  BY <1>7, <1>8, ResidueSame
<1>11. (p % c) = (w % c)
  BY <1>7, <1>8, ResidueSame
<1> QED BY <1>9, <1>10, <1>11 DEF u, v, w, m, p

-----------------------------------------------------------------------------
(* The sun window.                                                          *)

Dirs == 0..(Circle - 1)
Half == Circle \div 2

(* The window is stored as a direction and two angles to its sides.         *)
HoldsWindow(o, start, end) ==
  LET c == Canonical(start, end)
  IN  o["azimuth"] = c.azimuth /\ o["fovLeft"] = c.fovLeft /\ o["fovRight"] = c.fovRight

LEMMA CanonicalParts ==
  ASSUME NEW start \in Dirs, NEW end \in Dirs
  PROVE  LET c == Canonical(start, end)
         IN  /\ c.azimuth = (start + c.fovLeft) % Circle /\ c.azimuth \in Dirs
             /\ c.fovLeft \in 0..Half /\ c.fovRight \in 0..Half
             /\ c.fovLeft + c.fovRight = (end - start) % Circle
<1> DEFINE span == (end - start) % Circle
           left == span \div 2
           c    == Canonical(start, end)
<1>1. /\ Circle \in Nat /\ Circle > 0 /\ Half \in Nat /\ Circle = 2 * Half
      /\ start \in Int /\ end \in Int /\ end - start \in Int
  BY FormNumbers DEF Dirs, Half
<1>2. span \in 0..(Circle - 1)
  BY <1>1, Residue
<1>3. c = [azimuth |-> (start + left) % Circle, fovLeft |-> left, fovRight |-> span - left]
  BY Zenon DEF Canonical
<1> HIDE DEF span
<1>4. left \in Nat /\ (span = 2 * left \/ span = 2 * left + 1)
  BY <1>1, <1>2
<1> HIDE DEF left
<1>5. left \in 0..Half /\ span - left \in 0..Half /\ left + (span - left) = span
  BY <1>1, <1>2, <1>4
<1>6. (start + left) % Circle \in Dirs
  <2>1. start + left \in Int
    BY <1>1, <1>4
  <2> QED BY <1>1, <2>1, Residue DEF Dirs
<1> HIDE DEF c
<1>7. c.azimuth = (start + left) % Circle /\ c.fovLeft = left /\ c.fovRight = span - left
  BY <1>3
<1> QED BY <1>5, <1>6, <1>7 DEF c, span

(* What is stored shows the ends that were entered.                         *)
LEMMA WindowShown ==
  ASSUME NEW start \in Dirs, NEW end \in Dirs, NEW o, HoldsWindow(o, start, end)
  PROVE  WindowOf(o) = <<start, end>>
<1> DEFINE az == o["azimuth"]
           left == o["fovLeft"]
           right == o["fovRight"]
<1>1. /\ Circle \in Nat /\ Circle > 0 /\ Half \in Nat /\ None \notin Int
      /\ start \in Int /\ end \in Int /\ start \in 0..(Circle - 1) /\ end \in 0..(Circle - 1)
  BY FormNumbers DEF Dirs, Half
<1>2. /\ az = (start + left) % Circle /\ az \in Dirs /\ left \in 0..Half /\ right \in 0..Half
      /\ left + right = (end - start) % Circle
  BY CanonicalParts DEF HoldsWindow
<1>3. WindowOf(o) = <<(az - left) % Circle, (az + right) % Circle>>
  <2>1. az # None /\ left # None /\ right # None
    BY <1>1, <1>2 DEF Dirs
  <2>2. Or(az, DefaultAzimuth) = az /\ Or(left, DefaultFov) = left
        /\ Or(right, DefaultFov) = right
    BY <2>1 DEF Or
  <2> QED BY <2>2, Zenon DEF WindowOf
<1> HIDE DEF az, left, right
<1>4. left \in Int /\ right \in Int /\ start + left \in Int
  BY <1>1, <1>2
<1>5. ((az - left) % Circle) = start
  <2>1. (((start + left) % Circle) - left) % Circle = ((start + left) - left) % Circle
    BY <1>1, <1>4, ResidueOfDifference
  <2>2. (start + left) - left = start /\ (start % Circle) = start
    BY <1>1, <1>4
  <2> QED BY <1>2, <2>1, <2>2
<1>6. ((az + right) % Circle) = end
  <2>1. (((start + left) % Circle) + right) % Circle = ((start + left) + right) % Circle
    BY <1>1, <1>4, ResidueOfDifference
  <2>2. PICK k \in Int : ((end - start) % Circle) = (end - start) + Circle * k
    <3>1. end - start \in Int
      BY <1>1
    <3> QED BY <1>1, <3>1, Residue
  <2>3. end = ((start + left) + right) + Circle * (0 - k)
    <3>1. Circle * (0 - k) = 0 - Circle * k
      BY <1>1
    <3> QED BY <1>1, <1>2, <1>4, <2>2, <3>1
  <2>4. (start + left) + right \in Int /\ 0 - k \in Int
    BY <1>4
  <2>5. ((start + left) + right) % Circle = end
    BY <1>1, <2>3, <2>4, ResidueOnly
  <2> QED BY <1>2, <2>1, <2>5
<1> QED BY <1>3, <1>5, <1>6

(* The engine's deviation from the direction it faces.                      *)
LEMMA Deviation ==
  ASSUME NEW o, EngineAzimuth(o) \in Dirs, NEW a \in Dirs
  PROVE  /\ Gamma(o, a) \in (0 - Half)..(Half - 1)
         /\ \E k \in Int : Gamma(o, a) = (EngineAzimuth(o) - a) + Circle * k
<1> DEFINE z == EngineAzimuth(o)
           x == z - a + Half
<1>1. /\ Circle \in Nat /\ Circle > 0 /\ Half \in Nat /\ Circle = 2 * Half /\ z \in Int /\ a \in Int
      /\ x \in Int
  BY FormNumbers DEF Dirs, Half
<1>2. Gamma(o, a) = (x % Circle) - Half
  BY DEF Gamma, Half
<1> HIDE DEF z
<1>3. PICK k \in Int : (x % Circle) = x + Circle * k
  BY <1>1, Residue
<1>4. (x % Circle) \in 0..(Circle - 1)
  BY <1>1, Residue
<1>5. (x % Circle) - Half \in (0 - Half)..(Half - 1)
  BY <1>1, <1>4
<1>6. (x % Circle) - Half = (z - a) + Circle * k
  BY <1>1, <1>3
<1> QED BY <1>2, <1>5, <1>6 DEF z

(* A deviation is the only one of its residue that is less than half a      *)
(* circle.                                                                  *)
LEMMA DeviationOnly ==
  ASSUME NEW o, EngineAzimuth(o) \in Dirs, NEW a \in Dirs,
         NEW g \in (0 - Half)..(Half - 1), NEW k \in Int,
         g = (EngineAzimuth(o) - a) + Circle * k
  PROVE  Gamma(o, a) = g
<1> DEFINE z == EngineAzimuth(o)
           x == z - a + Half
<1>1. /\ Circle \in Nat /\ Circle > 0 /\ Half \in Nat /\ Circle = 2 * Half /\ z \in Int /\ a \in Int
      /\ x \in Int
  BY FormNumbers DEF Dirs, Half
<1>2. Gamma(o, a) = (x % Circle) - Half
  BY DEF Gamma, Half
<1> HIDE DEF z
<1>3. g + Half \in 0..(Circle - 1) /\ g + Half = x + Circle * k
  BY <1>1 DEF z
<1> HIDE DEF x
<1>4. (x % Circle) = g + Half
  BY <1>1, <1>3, ResidueOnly
<1> QED BY <1>1, <1>2, <1>4

SunTyped(o) ==
  /\ o["azimuth"] \in {None} \cup Dirs
  /\ o["fovLeft"] \in {None} \cup (0..Half) /\ o["fovRight"] \in {None} \cup (0..Half)

LEMMA EngineTyped ==
  ASSUME NEW o, SunTyped(o)
  PROVE  /\ EngineAzimuth(o) \in Dirs
         /\ Or(o["fovLeft"], DefaultFov) \in 0..Half
         /\ Or(o["fovRight"], DefaultFov) \in 0..Half
<1>1. /\ Circle \in Nat /\ Half \in Nat /\ Half < Circle /\ Circle \div 4 \in Nat
      /\ Circle \div 4 <= Half
  BY FormNumbers DEF Half
<1>2. DefaultAzimuth \in Dirs /\ DefaultFov \in 0..Half
  BY <1>1 DEF DefaultAzimuth, DefaultFov, Dirs, Half
<1>3. EngineAzimuth(o) \in Dirs
  BY <1>2 DEF EngineAzimuth, SunTyped
<1> QED BY <1>2, <1>3 DEF Or, SunTyped

(* How far a direction lies clockwise of the window's left end.             *)
LEMMA FromLeft ==
  ASSUME NEW o, EngineAzimuth(o) \in Dirs, NEW a \in Dirs, NEW left \in 0..Half
  PROVE  \E k \in Int : a - (EngineAzimuth(o) - left) = (left - Gamma(o, a)) + Circle * k
<1> DEFINE z == EngineAzimuth(o)
           g == Gamma(o, a)
<1>1. Circle \in Nat /\ z \in Int /\ a \in Int /\ left \in Int /\ Half \in Nat
  BY FormNumbers DEF Dirs, Half
<1>2. g \in (0 - Half)..(Half - 1) /\ \E k \in Int : g = (z - a) + Circle * k
  BY Deviation
<1> HIDE DEF z, g
<1>3. PICK k \in Int : g = (z - a) + Circle * k
  BY <1>2
<1>4. g \in Int
  BY <1>1, <1>2
<1>5. a - (z - left) = (left - g) + Circle * k
  BY <1>1, <1>3, <1>4
<1> QED BY <1>5 DEF z, g

(* The running engine lets in what lies strictly between the two ends.      *)
LEMMA FovBetween ==
  ASSUME NEW o, SunTyped(o), NEW a \in Dirs,
         Or(o["fovLeft"], DefaultFov) + Or(o["fovRight"], DefaultFov) < Circle
  PROVE  LET u == (a - EngineWindow(o)[1]) % Circle
         IN  InFov(o, a) <=> /\ 0 < u
                             /\ u < Or(o["fovLeft"], DefaultFov) + Or(o["fovRight"], DefaultFov)
<1> DEFINE z == EngineAzimuth(o)
           left == Or(o["fovLeft"], DefaultFov)
           right == Or(o["fovRight"], DefaultFov)
           g == Gamma(o, a)
           x == a - (z - left)
           u == (a - ((z - left) % Circle)) % Circle
<1>1. z \in Dirs /\ left \in 0..Half /\ right \in 0..Half /\ left + right < Circle
  BY EngineTyped
<1>2. /\ Circle \in Nat /\ Circle > 0 /\ Half \in Nat /\ Circle = 2 * Half
      /\ a \in Int /\ z \in Int /\ left \in Int /\ right \in Int /\ z - left \in Int
  BY <1>1, FormNumbers DEF Dirs, Half
<1>3. g \in (0 - Half)..(Half - 1)
  BY <1>1, Deviation
<1>4. InFov(o, a) <=> g < left /\ - right < g
  BY DEF InFov
<1>5. PICK k \in Int : x = (left - g) + Circle * k
  BY <1>1, FromLeft
<1>6. EngineWindow(o)[1] = (z - left) % Circle
  BY DEF EngineWindow
<1>7. x \in Int /\ g \in Int
  BY <1>2, <1>3
<1> HIDE DEF z, left, right, g
<1>8. u = (x % Circle)
  BY <1>2, ResidueOfDifference
<1>9. u \in 0..(Circle - 1) /\ u \in Int
  BY <1>2, <1>7, <1>8, Residue
<1> HIDE DEF u
<1>10. ASSUME g < left, - right < g PROVE u = left - g
  <2>1. left - g \in 0..(Circle - 1) /\ left - g = x + Circle * (0 - k) /\ 0 - k \in Int
    <3>1. Circle * (0 - k) = 0 - Circle * k
      BY <1>2
    <3> HIDE DEF x
    <3>2. left - g = x + Circle * (0 - k)
      BY <1>2, <1>5, <1>7, <3>1
    <3> QED BY <1>1, <1>2, <1>7, <1>10, <3>2
  <2> HIDE DEF x
  <2> QED BY <1>2, <1>7, <1>8, <2>1, ResidueOnly
<1>11. ASSUME 0 < u, u < left + right PROVE g = left - u
  <2>1. PICK q \in Int : u = x + Circle * q
    BY <1>2, <1>7, <1>8, Residue
  <2>2. left - u = (z - a) + Circle * (0 - q)
    <3>1. Circle * (0 - q) = 0 - Circle * q
      BY <1>2
    <3> QED BY <1>2, <1>9, <2>1, <3>1
  <2>3. left - u \in (0 - Half)..(Half - 1) /\ 0 - q \in Int
    BY <1>1, <1>2, <1>9, <1>11
  <2> DEFINE h == left - u
  <2>4. h \in (0 - Half)..(Half - 1) /\ h = (EngineAzimuth(o) - a) + Circle * (0 - q)
    BY <2>2, <2>3 DEF z
  <2> HIDE DEF h
  <2>5. Gamma(o, a) = h
    BY <1>1, <2>3, <2>4, DeviationOnly DEF z
  <2> QED BY <2>5 DEF g, h
<1>12. InFov(o, a) <=> 0 < u /\ u < left + right
  BY <1>2, <1>4, <1>7, <1>9, <1>10, <1>11
<1> QED BY <1>6, <1>12 DEF u, left, right, z

(* The two gates of GatesAgree, for one direction.                          *)
LEMMA GateIsDay ==
  ASSUME NEW o, SunTyped(o), NEW a \in Dirs,
         Or(o["fovLeft"], DefaultFov) + Or(o["fovRight"], DefaultFov) < Circle
  PROVE  InFov(o, a) <=> InDay(o, a) /\ a \notin {EngineWindow(o)[1], EngineWindow(o)[2]}
<1> DEFINE z == EngineAzimuth(o)
           left == Or(o["fovLeft"], DefaultFov)
           right == Or(o["fovRight"], DefaultFov)
           from == EngineWindow(o)[1]
           to == EngineWindow(o)[2]
           u == (a - from) % Circle
           span == (to - from) % Circle
<1>1. z \in Dirs /\ left \in 0..Half /\ right \in 0..Half /\ left + right < Circle
  BY EngineTyped
<1>2. Circle \in Nat /\ Circle > 0 /\ Half \in Nat /\ a \in Int /\ a \in 0..(Circle - 1)
  BY FormNumbers DEF Dirs, Half
<1>3. InFov(o, a) <=> 0 < u /\ u < left + right
  BY FovBetween
<1>4. InDay(o, a) <=> u <= span
  BY DEF InDay
<1>5. from = (z - left) % Circle /\ to = (z + right) % Circle
  BY DEF EngineWindow
<1> HIDE DEF z, left, right
<1>6. z \in Int /\ left \in Int /\ right \in Int /\ z - left \in Int /\ z + right \in Int
  BY <1>1, <1>2 DEF Dirs
<1> HIDE DEF from, to
<1>7. from \in 0..(Circle - 1) /\ to \in 0..(Circle - 1) /\ from \in Int /\ to \in Int
  BY <1>2, <1>5, <1>6, Residue
<1>8. span = left + right
  <2> DEFINE y == z - left
             w == z + right
             r == left + right
  <2>1. y \in Int /\ w \in Int /\ w - y = r /\ r \in 0..(Circle - 1) /\ r = r + Circle * 0
        /\ r \in Int /\ (w % Circle) \in Int
    BY <1>1, <1>2, <1>5, <1>6, <1>7
  <2>2. from = (y % Circle) /\ to = (w % Circle)
    BY <1>5
  <2> HIDE DEF y, w, r
  <2>3. (((w % Circle) - (y % Circle)) % Circle) = (((w % Circle) - y) % Circle)
    BY <1>2, <2>1, ResidueOfDifference
  <2>4. (((w % Circle) - y) % Circle) = ((w - y) % Circle)
    BY <1>2, <2>1, ResidueOfDifference
  <2>5. (r % Circle) = r
    BY <1>2, <2>1, ResidueOnly
  <2> QED BY <2>1, <2>2, <2>3, <2>4, <2>5 DEF r
<1>9. u \in 0..(Circle - 1) /\ span \in 0..(Circle - 1)
  BY <1>2, <1>7, Residue
<1>10. u = 0 <=> a = from
  BY <1>2, <1>7, ResidueApart
<1>11. u = span <=> a = to
  BY <1>2, <1>7, ResidueApart
<1> HIDE DEF u, span
<1>12. 0 < u /\ u < left + right <=> u <= span /\ u # 0 /\ u # span
  BY <1>6, <1>8, <1>9, <1>2
<1> QED BY <1>3, <1>4, <1>10, <1>11, <1>12 DEF from, to

(* The engine lets the sun in between the ends that were entered.           *)
LEMMA EngineLets ==
  ASSUME NEW start \in Dirs, NEW end \in Dirs, NEW o, HoldsWindow(o, start, end),
         o["azimuth"] # 0
  PROVE  {a \in 0..(Circle - 1) : InFov(o, a)} = Between(<<start, end>>)
<1> DEFINE z == o["azimuth"]
           left == o["fovLeft"]
           right == o["fovRight"]
           span == (end - start) % Circle
<1>1. /\ Circle \in Nat /\ Circle > 0 /\ Half \in Nat /\ Circle = 2 * Half /\ None \notin Int
      /\ start \in Int /\ end \in Int /\ start \in 0..(Circle - 1) /\ end - start \in Int
  BY FormNumbers DEF Dirs, Half
<1>2. /\ z = (start + left) % Circle /\ z \in Dirs /\ left \in 0..Half /\ right \in 0..Half
      /\ left + right = span
  BY CanonicalParts DEF HoldsWindow
<1>3. span \in 0..(Circle - 1)
  BY <1>1, Residue
<1>4. z # None /\ left # None /\ right # None
  BY <1>1, <1>2 DEF Dirs
<1>5. EngineAzimuth(o) = z /\ Or(left, DefaultFov) = left /\ Or(right, DefaultFov) = right
  BY <1>4 DEF EngineAzimuth, Or
<1>6. SunTyped(o)
  BY <1>2 DEF SunTyped
<1> HIDE DEF z, left, right, span
<1>7. left \in Int /\ right \in Int /\ z \in Int /\ start + left \in Int
  BY <1>1, <1>2 DEF Dirs
<1>8. ((z - left) % Circle) = start
  <2>1. (((start + left) % Circle) - left) % Circle = ((start + left) - left) % Circle
    BY <1>1, <1>7, ResidueOfDifference
  <2>2. (start + left) - left = start /\ (start % Circle) = start
    BY <1>1, <1>7
  <2> QED BY <1>2, <2>1, <2>2
<1>9. ASSUME NEW a \in Dirs
      PROVE  InFov(o, a) <=> 0 < ((a - start) % Circle) /\ ((a - start) % Circle) < span
  <2>1. EngineWindow(o)[1] = start
    BY <1>5, <1>8 DEF EngineWindow, left, right, z
  <2>2. Or(o["fovLeft"], DefaultFov) + Or(o["fovRight"], DefaultFov) = span
    BY <1>2, <1>5 DEF left, right
  <2>3. span < Circle
    BY <1>1, <1>3
  <2> QED BY <1>6, <2>1, <2>2, <2>3, FovBetween
<1>10. Between(<<start, end>>) =
         {a \in 0..(Circle - 1) : 0 < ((a - start) % Circle) /\ ((a - start) % Circle) < span}
  BY DEF Between, span
<1> QED BY <1>9, <1>10 DEF Dirs

-----------------------------------------------------------------------------
(* Stores.                                                                  *)

Bound == {"azimuth", "fovLeft", "fovRight", "length"}
Ruled == {"minElevation", "maxElevation", "climate", "tempEntity"}

(* The options of a store are what the fields accept; the window and the    *)
(* length are held as they were entered, but for a length that a form has   *)
(* rounded to a displayed tenth; what was left empty is empty.              *)
Accepted(o) == /\ o = [k \in OptionKeys |-> o[k]]
               /\ \A k \in OptionKeys : Accepts(k, o[k])
WindowHeld(s) == s.window # None => \E start, end \in Dirs : /\ s.window = <<start, end>>
                                                             /\ HoldsWindow(s.opts, start, end)
Rounded(d, of) == /\ d \in Nat /\ of \in Nat
                  /\ d # of => /\ Near(d, of)
                               /\ \E n \in Nat : d = n * Tenth
LengthHeld(s) == Rounded(s.opts["length"], s.length)
ClearedHeld(s) == /\ s.cleared \subseteq OptionKeys \ Bound
                  /\ \A k \in s.cleared \ {"template"} : s.opts[k] = None
StoreGood(s) == /\ s = Store(s.opts, s.window, s.length, s.cleared)
                /\ Accepted(s.opts) /\ WindowHeld(s) /\ LengthHeld(s) /\ ClearedHeld(s)

LEMMA AcceptedSun ==
  ASSUME NEW o, Accepted(o)
  PROVE  SunTyped(o)
<1>1. {"azimuth", "fovLeft", "fovRight"} \subseteq OptionKeys
  BY DEF OptionKeys, SunKeys
<1>2. /\ SunRanges("azimuth") = Dirs /\ SunRanges("fovLeft") = 0..Half
      /\ SunRanges("fovRight") = 0..Half
  BY DEF SunRanges, Dirs, Half
<1>3. ASSUME NEW k \in {"azimuth", "fovLeft", "fovRight"}
      PROVE  o[k] = None \/ o[k] \in SunRanges(k)
  <2>1. Accepts(k, o[k]) /\ k \in SunKeys /\ k # "my"
    BY <1>1 DEF Accepted, SunKeys
  <2> QED BY <2>1 DEF Accepts
<1> QED BY <1>2, <1>3 DEF SunTyped

(* A merge of what the fields accept.                                       *)
LEMMA WithAccepted ==
  ASSUME NEW o, Accepted(o), NEW input, \A k \in DOMAIN input : Accepts(k, input[k])
  PROVE  /\ Accepted(With(o, input))
         /\ \A k \in OptionKeys : With(o, input)[k] = IF k \in DOMAIN input THEN input[k] ELSE o[k]
<1> DEFINE m == With(o, input)
<1>1. m = [k \in OptionKeys |-> IF k \in DOMAIN input THEN input[k] ELSE o[k]]
  BY DEF With
<1>2. /\ m = [k \in OptionKeys |-> m[k]]
      /\ \A k \in OptionKeys : m[k] = IF k \in DOMAIN input THEN input[k] ELSE o[k]
  BY <1>1
<1> HIDE DEF m
<1>3. \A k \in OptionKeys : Accepts(k, m[k])
  BY <1>2 DEF Accepted
<1>4. Accepted(m)
  BY <1>2, <1>3 DEF Accepted
<1> QED BY <1>2, <1>4 DEF m

LEMMA OptionalParts ==
  ASSUME NEW keys, NEW input
  PROVE  /\ DOMAIN Optional(keys, input) = DOMAIN input \cup keys
         /\ \A k \in DOMAIN input : Optional(keys, input)[k] = input[k]
         /\ \A k \in keys \ DOMAIN input : Optional(keys, input)[k] = None
BY DEF Optional

(* What may come out of a form with one field changed.                      *)
FromForm(s, keys, values, input) ==
  /\ DOMAIN input \subseteq keys
  /\ \A k \in DOMAIN input : input[k] = s.opts[k] \/ input[k] \in values[k]

LEMMA OneChangeParts ==
  ASSUME NEW s, NEW keys, NEW values, NEW input \in OneChange(s, keys, values)
  PROVE  FromForm(s, keys, values, input)
<1> DEFINE shown == Shown(s, keys)
<1>1. DOMAIN shown \subseteq keys /\ \A k \in DOMAIN shown : shown[k] = s.opts[k]
  BY DEF Shown
<1> HIDE DEF shown
<1>2. \/ input = shown
      \/ \E k \in keys : input = [x \in DOMAIN shown \ {k} |-> s.opts[x]]
      \/ \E k \in keys : \E v \in values[k] :
           input = [x \in DOMAIN shown \cup {k} |-> IF x = k THEN v ELSE s.opts[x]]
  <2> DEFINE dropped == {[x \in DOMAIN shown \ {k} |-> s.opts[x]] : k \in keys}
             given(k) == {[x \in DOMAIN shown \cup {k} |-> IF x = k THEN v ELSE s.opts[x]]
                            : v \in values[k]}
  <2>1. input \in {shown} \cup dropped \cup UNION {given(k) : k \in keys}
    BY Zenon DEF OneChange, shown
  <2>2. CASE input = shown
    BY <2>2
  <2>3. CASE input \in dropped
    BY <2>3
  <2>4. CASE input \in UNION {given(k) : k \in keys}
    <3>1. PICK k \in keys : input \in given(k)
      <4> HIDE DEF given
      <4> QED BY <2>4
    <3> QED BY <3>1
  <2> QED BY <2>1, <2>2, <2>3, <2>4
<1>3. CASE input = shown
  BY <1>1, <1>3 DEF FromForm
<1>4. ASSUME NEW k \in keys, input = [x \in DOMAIN shown \ {k} |-> s.opts[x]]
      PROVE  FromForm(s, keys, values, input)
  BY <1>1, <1>4 DEF FromForm
<1>5. ASSUME NEW k \in keys, NEW v \in values[k],
             input = [x \in DOMAIN shown \cup {k} |-> IF x = k THEN v ELSE s.opts[x]]
      PROVE  FromForm(s, keys, values, input)
  BY <1>1, <1>5 DEF FromForm
<1> QED BY <1>2, <1>3, <1>4, <1>5

(* A section that stores what it gets, and None for the fields it lists.    *)
Stores(keys, input, stored) ==
  /\ DOMAIN stored \subseteq OptionKeys \ Bound /\ DOMAIN input \subseteq DOMAIN stored
  /\ keys \subseteq OptionKeys \ Bound /\ keys \ {"template"} \subseteq DOMAIN stored
  /\ \A k \in DOMAIN input : stored[k] = input[k] /\ Accepts(k, input[k])
  /\ \A k \in DOMAIN stored \ DOMAIN input : stored[k] = None

LEMMA UpdatedGood ==
  ASSUME NEW s, StoreGood(s), NEW keys, NEW input, NEW stored, Stores(keys, input, stored)
  PROVE  /\ StoreGood(Updated(s, keys, input, stored))
         /\ Updated(s, keys, input, stored).opts = With(s.opts, stored)
<1> DEFINE t == Updated(s, keys, input, stored)
           o == With(s.opts, stored)
           c == Emptied(s, keys, input)
<1>1. s = Store(s.opts, s.window, s.length, s.cleared)
  BY DEF StoreGood
<1>2. t = [s EXCEPT !.opts = o, !.cleared = c]
  BY <1>1 DEF Updated, Store
<1> HIDE DEF t, o, c
<1>3. t = Store(o, s.window, s.length, c)
  BY <1>1, <1>2 DEF Store
<1>4. t.opts = o /\ t.window = s.window /\ t.length = s.length /\ t.cleared = c
  BY <1>3 DEF Store
<1>5. \A k \in DOMAIN stored : Accepts(k, stored[k])
  BY DEF Stores, Accepts
<1>6. /\ Accepted(o)
      /\ \A k \in OptionKeys : o[k] = IF k \in DOMAIN stored THEN stored[k] ELSE s.opts[k]
  BY <1>5, WithAccepted DEF StoreGood, o
<1>7. \A k \in Bound : o[k] = s.opts[k]
  <2>1. Bound \subseteq OptionKeys
    BY DEF Bound, OptionKeys, SunKeys
  <2> QED BY <1>6, <2>1 DEF Stores
<1>8. WindowHeld(t)
  <2>1. \A k \in {"azimuth", "fovLeft", "fovRight"} : o[k] = s.opts[k]
    BY <1>7 DEF Bound
  <2>2. WindowHeld(s)
    BY DEF StoreGood
  <2> QED BY <1>4, <2>1, <2>2 DEF WindowHeld, HoldsWindow
<1>9. LengthHeld(t)
  BY <1>4, <1>7 DEF StoreGood, LengthHeld, Bound
<1>10. ClearedHeld(t)
  <2>1. c = (s.cleared \ DOMAIN input) \cup {k \in keys \ DOMAIN input : s.opts[k] # None}
    BY DEF Emptied, c
  <2>2. s.cleared \subseteq OptionKeys \ Bound /\ \A k \in s.cleared \ {"template"} : s.opts[k] = None
    BY DEF StoreGood, ClearedHeld
  <2>3. c \subseteq OptionKeys \ Bound
    BY <2>1, <2>2 DEF Stores
  <2>4. ASSUME NEW k \in c \ {"template"} PROVE o[k] = None
    <3>1. k \in OptionKeys /\ k \notin DOMAIN input
      BY <2>1, <2>3
    <3>2. CASE k \in DOMAIN stored
      BY <1>6, <3>1, <3>2 DEF Stores
    <3>3. CASE k \notin DOMAIN stored
      <4>1. k \in s.cleared \ {"template"}
        BY <2>1, <3>3 DEF Stores
      <4> QED BY <1>6, <2>2, <3>1, <3>3, <4>1
    <3> QED BY <3>2, <3>3
  <2> QED BY <1>4, <2>3, <2>4 DEF ClearedHeld
<1>11. StoreGood(t) /\ t.opts = o
  BY <1>3, <1>4, <1>6, <1>8, <1>9, <1>10 DEF StoreGood
<1> QED BY <1>11 DEF t, o

-----------------------------------------------------------------------------
(* The sections.  Each leaves a store as good as it found it, and keeps the *)
(* rules that forms check.                                                  *)

Serves(s, t) == StoreGood(t) /\ (FormRules(s.opts) => FormRules(t.opts))

LEMMA KeysOf ==
  /\ SunKeys \cup PlainKeys \cup {"length", "my", "useMy", "climate", "tempEntity", "tempLow",
        "tempHigh", "startTime", "startEntity", "spotLeft", "spotRight"} = OptionKeys
  /\ Bound \subseteq OptionKeys /\ Ruled \subseteq OptionKeys
  /\ PlainKeys \cap (SunKeys \cup Bound \cup Ruled) = {} /\ "my" \notin PlainKeys
  /\ "template" \in PlainKeys
BY DEF OptionKeys, SunKeys, PlainKeys, Bound, Ruled

LEMMA RulesFollow ==
  ASSUME NEW o, NEW p, \A k \in Ruled : p[k] = o[k], FormRules(o)
  PROVE  FormRules(p)
BY DEF Ruled, FormRules, ElevationsOrdered, ClimateHasSensor, Less

LEMMA UpdatedServes ==
  ASSUME NEW s, StoreGood(s), NEW keys, NEW input, NEW stored, Stores(keys, input, stored),
         DOMAIN stored \cap Ruled = {}
  PROVE  Serves(s, Updated(s, keys, input, stored))
<1> DEFINE t == Updated(s, keys, input, stored)
<1>1. StoreGood(t) /\ t.opts = With(s.opts, stored)
  BY UpdatedGood
<1>2. \A k \in Ruled : t.opts[k] = s.opts[k]
  BY <1>1, KeysOf DEF With
<1> HIDE DEF t
<1>3. Serves(s, t)
  BY <1>1, <1>2, RulesFollow DEF Serves
<1> QED BY <1>3 DEF t

(* A field that is filled in keeps what the store had or gets a value of    *)
(* the form.                                                                *)
LEMMA FromFormStores ==
  ASSUME NEW s, StoreGood(s), NEW keys, NEW values, NEW input, FromForm(s, keys, values, input),
         keys \subseteq OptionKeys \ Bound, \A k \in keys : \A v \in values[k] : Accepts(k, v),
         NEW listed, listed \subseteq keys, NEW left, left \subseteq listed \cup ({"template"} \cap keys)
  PROVE  /\ Stores(left, input, Optional(listed, input))
         /\ DOMAIN Optional(listed, input) \subseteq keys
<1> DEFINE stored == Optional(listed, input)
<1>1. /\ DOMAIN stored = DOMAIN input \cup listed
      /\ \A k \in DOMAIN input : stored[k] = input[k]
      /\ \A k \in listed \ DOMAIN input : stored[k] = None
  BY OptionalParts
<1> HIDE DEF stored
<1>2. ASSUME NEW k \in DOMAIN input PROVE Accepts(k, input[k])
  <2>1. k \in keys /\ k \in OptionKeys /\ (input[k] = s.opts[k] \/ input[k] \in values[k])
    BY DEF FromForm
  <2>2. Accepts(k, s.opts[k])
    BY <2>1 DEF StoreGood, Accepted
  <2> QED BY <2>1, <2>2
<1>3. DOMAIN input \subseteq keys
  BY DEF FromForm
<1>4. Stores(left, input, stored)
  BY <1>1, <1>2, <1>3 DEF Stores
<1> QED BY <1>1, <1>3, <1>4 DEF stored

LEMMA PlainServes ==
  ASSUME NEW s, StoreGood(s), NEW key \in PlainKeys, NEW listed \in SUBSET {key},
         listed = {key} \/ key = "template", NEW t \in Plain(s, key, listed)
  PROVE  Serves(s, t)
<1> DEFINE values == [k \in {key} |-> {Given}]
<1>1. PICK i \in OneChange(s, {key}, values) : t = Updated(s, {key}, i, Optional(listed, i))
  BY DEF Plain
<1>2. FromForm(s, {key}, values, i)
  BY <1>1, OneChangeParts
<1>3. {key} \subseteq OptionKeys \ Bound /\ {key} \cap Ruled = {} /\ key \notin SunKeys \cup {"my"}
  BY KeysOf
<1>4. \A k \in {key} : \A v \in values[k] : Accepts(k, v)
  BY <1>3 DEF Accepts
<1> HIDE DEF values
<1>5. listed \subseteq {key} /\ {key} \subseteq listed \cup ({"template"} \cap {key})
  OBVIOUS
<1>6. Stores({key}, i, Optional(listed, i)) /\ DOMAIN Optional(listed, i) \subseteq {key}
  <2> DEFINE keys == {key}
  <2> HIDE DEF keys
  <2>1. /\ FromForm(s, keys, values, i) /\ keys \subseteq OptionKeys \ Bound
        /\ \A k \in keys : \A v \in values[k] : Accepts(k, v)
        /\ listed \subseteq keys /\ keys \subseteq listed \cup ({"template"} \cap keys)
    BY <1>2, <1>3, <1>4, <1>5 DEF keys
  <2>2. Stores(keys, i, Optional(listed, i)) /\ DOMAIN Optional(listed, i) \subseteq keys
    BY <2>1, FromFormStores
  <2> QED BY <2>2 DEF keys
<1>7. DOMAIN Optional(listed, i) \cap Ruled = {}
  BY <1>3, <1>6
<1> QED BY <1>1, <1>6, <1>7, UpdatedServes

LEMMA PositionServes ==
  ASSUME NEW s, StoreGood(s), NEW t \in Position(s)
  PROVE  Serves(s, t)
<1> DEFINE keys == {"my", "useMy"}
           values == [k \in keys |-> IF k = "my" THEN {1, Percent - 1} ELSE BOOLEAN]
           listed == {"my"}
<1>1. PICK i \in OneChange(s, keys, values) :
        t = Updated(s, listed, i, Optional(listed, i))
  BY DEF Position
<1>2. keys \subseteq OptionKeys \ Bound /\ keys \cap Ruled = {} /\ listed \subseteq keys
  BY DEF OptionKeys, SunKeys, Bound, Ruled
<1>3. \A k \in keys : \A v \in values[k] : Accepts(k, v)
  <2>1. Percent \in Nat /\ Percent > 2
    BY FormNumbers
  <2>2. "useMy" \notin SunKeys
    BY DEF SunKeys
  <2> QED BY <2>1, <2>2 DEF Accepts, MyRange
<1> HIDE DEF keys, values, listed
<1>4. FromForm(s, keys, values, i)
  BY OneChangeParts
<1>5. listed \subseteq listed \cup ({"template"} \cap keys)
  OBVIOUS
<1>6. Stores(listed, i, Optional(listed, i)) /\ DOMAIN Optional(listed, i) \subseteq keys
  BY <1>2, <1>3, <1>4, <1>5, FromFormStores
<1>7. DOMAIN Optional(listed, i) \cap Ruled = {}
  BY <1>2, <1>6
<1> QED BY <1>1, <1>6, <1>7, UpdatedServes

LEMMA AutomationServes ==
  ASSUME NEW s, StoreGood(s), NEW t \in Automation(s)
  PROVE  Serves(s, t)
<1> DEFINE keys == {"startTime", "startEntity"}
           values == [k \in keys |-> {Given}]
<1>1. PICK i \in OneChange(s, keys, values) :
        t = Updated(s, keys, i, Optional({"startEntity"}, Optional({"startTime"}, i)))
  BY DEF Automation
<1>2. keys \subseteq OptionKeys \ Bound /\ keys \cap Ruled = {} /\ keys \cap SunKeys = {}
  BY DEF OptionKeys, SunKeys, Bound, Ruled
<1>3. FromForm(s, keys, values, i)
  BY OneChangeParts
<1> DEFINE inner == Optional({"startTime"}, i)
           stored == Optional({"startEntity"}, inner)
<1>4. /\ DOMAIN inner = DOMAIN i \cup {"startTime"}
      /\ \A k \in DOMAIN i : inner[k] = i[k]
      /\ \A k \in {"startTime"} \ DOMAIN i : inner[k] = None
  BY OptionalParts
<1>5. /\ DOMAIN stored = DOMAIN inner \cup {"startEntity"}
      /\ \A k \in DOMAIN inner : stored[k] = inner[k]
      /\ \A k \in {"startEntity"} \ DOMAIN inner : stored[k] = None
  BY OptionalParts
<1> HIDE DEF inner, stored, values
<1>6. DOMAIN i \subseteq keys
  BY <1>3 DEF FromForm
<1>7. DOMAIN stored = keys /\ (\A k \in DOMAIN i : stored[k] = i[k])
      /\ \A k \in keys \ DOMAIN i : stored[k] = None
  BY <1>4, <1>5, <1>6
<1>8. \A k \in keys : \A v : Accepts(k, v)
  BY <1>2 DEF Accepts
<1> HIDE DEF keys
<1>9. Stores(keys, i, stored)
  BY <1>2, <1>6, <1>7, <1>8 DEF Stores
<1>10. t = Updated(s, keys, i, stored) /\ DOMAIN stored \cap Ruled = {}
  BY <1>1, <1>2, <1>7 DEF stored, inner
<1> QED BY <1>9, <1>10, UpdatedServes

LEMMA ClimateServes ==
  ASSUME NEW s, StoreGood(s), NEW t \in TemperatureClimate(s)
  PROVE  Serves(s, t)
<1> DEFINE keys == {"climate", "tempEntity", "tempLow", "tempHigh"}
           values == [k \in keys |-> CASE k = "climate"    -> BOOLEAN
                                       [] k = "tempEntity" -> {Given}
                                       [] OTHER -> Temperatures]
           listed == {"tempEntity"}
<1>1. PICK i \in OneChange(s, keys, values) :
        t = Updated(s, listed, i, Optional(listed, i)) /\ ClimateHasSensor(t.opts)
  BY DEF TemperatureClimate
<1>2. /\ keys \subseteq OptionKeys \ Bound /\ keys \cap (SunKeys \cup {"my"}) = {}
      /\ listed \subseteq keys /\ {"minElevation", "maxElevation"} \subseteq OptionKeys \ keys
  BY DEF OptionKeys, SunKeys, Bound
<1>3. \A k \in keys : \A v \in values[k] : Accepts(k, v)
  BY <1>2 DEF Accepts
<1> HIDE DEF keys, values, listed
<1>4. FromForm(s, keys, values, i)
  BY OneChangeParts
<1>5. listed \subseteq listed \cup ({"template"} \cap keys)
  OBVIOUS
<1> DEFINE stored == Optional(listed, i)
<1>6. Stores(listed, i, stored) /\ DOMAIN stored \subseteq keys
  BY <1>2, <1>3, <1>4, <1>5, FromFormStores
<1> HIDE DEF stored
<1>7. StoreGood(t) /\ t.opts = With(s.opts, stored)
  BY <1>1, <1>6, UpdatedGood DEF stored
<1>8. \A k \in {"minElevation", "maxElevation"} : t.opts[k] = s.opts[k]
  BY <1>2, <1>6, <1>7 DEF With
<1> QED BY <1>1, <1>7, <1>8 DEF Serves, FormRules, ElevationsOrdered, Less

(* A length survives the forms: the one that is shown again is rounded once. *)
RoundsOnce(tenth, d, q) ==
  /\ q \in Nat /\ 2 * (q * tenth - d) <= tenth /\ 2 * (d - q * tenth) <= tenth
  /\ \A n \in Nat : d = n * tenth => q = n

LEMMA RoundedOnce ==
  ASSUME NEW tenth \in Nat, tenth > 0, NEW d \in Nat, NEW q, q = (2 * d + tenth) \div (2 * tenth)
  PROVE  RoundsOnce(tenth, d, q)
<1> DEFINE x == 2 * d + tenth
           y == 2 * tenth
           p == q * tenth
<1>1. x \in Nat /\ y \in Nat /\ y > 0 /\ q = x \div y
  OBVIOUS
<1>2. q \in Nat /\ y * q <= x /\ x < y * q + y
  <2> HIDE DEF x, y
  <2> QED BY <1>1
<1>3. y * q = 2 * p /\ p \in Nat
  BY <1>2
<1>4. 2 * p <= 2 * d + tenth /\ 2 * d + tenth < 2 * p + 2 * tenth
  BY <1>2, <1>3
<1>5. 2 * (p - d) <= tenth /\ 2 * (d - p) <= tenth
  <2> HIDE DEF p
  <2> QED BY <1>3, <1>4
<1>6. ASSUME NEW n \in Nat, d = n * tenth PROVE q = n
  <2>1. ASSUME q >= n + 1 PROVE FALSE
    <3>1. q * tenth >= (n + 1) * tenth
      BY <1>2, <2>1
    <3>2. (n + 1) * tenth = n * tenth + tenth
      OBVIOUS
    <3>3. p >= d + tenth
      BY <1>6, <3>1, <3>2
    <3> HIDE DEF p
    <3> QED BY <1>3, <1>4, <3>3
  <2>2. ASSUME n >= q + 1 PROVE FALSE
    <3>1. n * tenth >= (q + 1) * tenth
      BY <1>2, <2>2
    <3>2. (q + 1) * tenth = q * tenth + tenth
      BY <1>2
    <3>3. d >= p + tenth
      BY <1>6, <3>1, <3>2
    <3> HIDE DEF p
    <3> QED BY <1>3, <1>4, <3>3
  <2> QED BY <1>2, <2>1, <2>2
<1> QED BY <1>2, <1>5, <1>6 DEF RoundsOnce

LEMMA LengthShown ==
  ASSUME NEW d, NEW of, Rounded(d, of), NEW v \in Typed \cup {ToDisplay(d)}
  PROVE  Rounded(FromDisplay(v), IF v = ToDisplay(d) THEN of ELSE FromDisplay(v))
<1>1. /\ Tenth \in Nat /\ Tenth > 0 /\ Metric \subseteq Nat /\ Imperial \subseteq Nat
  BY FormNumbers
<1>2. d \in Nat /\ of \in Nat
  BY DEF Rounded
<1>3. CASE v # ToDisplay(d)
  <2>1. v \in Nat /\ FromDisplay(v) \in Nat
    BY <1>1, <1>3 DEF Typed, FromDisplay
  <2> QED BY <1>3, <2>1 DEF Rounded
<1>4. CASE v = ToDisplay(d) /\ ~imperial
  BY <1>4 DEF ToDisplay, FromDisplay
<1>5. CASE v = ToDisplay(d) /\ imperial
  <2>1. v = (2 * d + Tenth) \div (2 * Tenth) /\ FromDisplay(v) = v * Tenth
    BY <1>5 DEF ToDisplay, FromDisplay
  <2>2. /\ v \in Nat /\ 2 * (v * Tenth - d) <= Tenth /\ 2 * (d - v * Tenth) <= Tenth
        /\ \A n \in Nat : d = n * Tenth => v = n
    <3>1. RoundsOnce(Tenth, d, v)
      BY <1>1, <1>2, <2>1, RoundedOnce
    <3> QED BY <3>1 DEF RoundsOnce
  <2>3. v * Tenth \in Nat
    BY <1>1, <2>2
  <2>4. Rounded(v * Tenth, of)
    <3>1. CASE d = of
      BY <1>2, <2>2, <2>3, <3>1 DEF Rounded, Near
    <3>2. CASE d # of
      <4>1. PICK n \in Nat : d = n * Tenth
        BY <3>2 DEF Rounded
      <4>2. v * Tenth = d
        BY <2>2, <4>1
      <4> QED BY <4>2
    <3> QED BY <3>1, <3>2
  <2> QED BY <1>5, <2>1, <2>4
<1> QED BY <1>3, <1>4, <1>5

LEMMA GeometryServes ==
  ASSUME NEW s, StoreGood(s), NEW t \in Geometry(s)
  PROVE  Serves(s, t)
<1> DEFINE shown == ToDisplay(s.opts["length"])
<1>1. PICK v \in Typed \cup {shown} :
        t = [s EXCEPT !.opts = With(@, [k \in {"length"} |-> FromDisplay(v)]),
                      !.length = IF v = shown THEN @ ELSE FromDisplay(v)]
  BY DEF Geometry
<1> DEFINE input == [k \in {"length"} |-> FromDisplay(v)]
           o == With(s.opts, input)
           of == IF v = shown THEN s.length ELSE FromDisplay(v)
<1>2. s = Store(s.opts, s.window, s.length, s.cleared)
  BY DEF StoreGood
<1>3. t = Store(o, s.window, of, s.cleared)
  <2>1. t = [s EXCEPT !.opts = o, !.length = of]
    BY <1>1, <1>2 DEF Store
  <2> HIDE DEF o, of
  <2> QED BY <1>2, <2>1 DEF Store
<1>4. Rounded(FromDisplay(v), of)
  <2>1. Rounded(s.opts["length"], s.length)
    BY DEF StoreGood, LengthHeld
  <2> QED BY <2>1, LengthShown
<1>5. Accepted(o) /\ \A k \in OptionKeys : o[k] = IF k = "length" THEN FromDisplay(v) ELSE s.opts[k]
  <2>1. "length" \notin SunKeys \cup {"my"} /\ DOMAIN input = {"length"}
        /\ input["length"] = FromDisplay(v)
    BY DEF SunKeys
  <2> HIDE DEF input
  <2>2. \A k \in DOMAIN input : Accepts(k, input[k])
    BY <2>1 DEF Accepts
  <2>3. /\ Accepted(o)
        /\ \A k \in OptionKeys : o[k] = IF k \in DOMAIN input THEN input[k] ELSE s.opts[k]
    BY <2>2, WithAccepted DEF StoreGood
  <2> QED BY <2>1, <2>3
<1> HIDE DEF o, of
<1>6. t.opts = o /\ t.window = s.window /\ t.length = of /\ t.cleared = s.cleared
  BY <1>3 DEF Store
<1>7. o["length"] = FromDisplay(v) /\ \A k \in OptionKeys \ {"length"} : o[k] = s.opts[k]
  BY <1>5, KeysOf DEF Bound
<1>8. WindowHeld(t)
  <2>1. {"azimuth", "fovLeft", "fovRight"} \subseteq OptionKeys \ {"length"}
    BY KeysOf DEF Bound
  <2>2. WindowHeld(s)
    BY DEF StoreGood
  <2> QED BY <1>6, <1>7, <2>1, <2>2 DEF WindowHeld, HoldsWindow
<1>9. LengthHeld(t)
  BY <1>4, <1>6, <1>7 DEF LengthHeld
<1>10. ClearedHeld(t)
  BY <1>6, <1>7 DEF StoreGood, ClearedHeld, Bound
<1>11. StoreGood(t)
  BY <1>3, <1>5, <1>6, <1>8, <1>9, <1>10 DEF StoreGood
<1>12. \A k \in Ruled : t.opts[k] = s.opts[k]
  BY <1>6, <1>7, KeysOf DEF Ruled
<1> QED BY <1>11, <1>12, RulesFollow DEF Serves

(* A window that is entered, or shown again.                                *)
LEMMA ShownWindow ==
  ASSUME NEW o, SunTyped(o)
  PROVE  \E start, end \in Dirs : WindowOf(o) = <<start, end>>
<1> DEFINE az == Or(o["azimuth"], DefaultAzimuth)
           left == Or(o["fovLeft"], DefaultFov)
           right == Or(o["fovRight"], DefaultFov)
<1>1. left \in 0..Half /\ right \in 0..Half /\ Circle \in Nat /\ Circle > 0 /\ Half \in Nat
      /\ Half < Circle
  BY EngineTyped, FormNumbers DEF Half
<1>2. az \in Dirs
  BY <1>1 DEF Or, DefaultAzimuth, SunTyped, Dirs, Half
<1>3. WindowOf(o) = <<(az - left) % Circle, (az + right) % Circle>>
  BY DEF WindowOf
<1> HIDE DEF az, left, right
<1>4. az - left \in Int /\ az + right \in Int
  BY <1>1, <1>2 DEF Dirs
<1>5. ((az - left) % Circle) \in Dirs /\ ((az + right) % Circle) \in Dirs
  BY <1>1, <1>4, Residue DEF Dirs
<1> QED BY <1>3, <1>5

Facing(u, start, end) ==
  Store(With(u.opts, Canonical(start, end)), <<start, end>>, u.length, u.cleared)

LEMMA WindowSaved ==
  ASSUME NEW u, StoreGood(u), NEW start \in Dirs, NEW end \in Dirs,
         NEW t, t = Facing(u, start, end)
  PROVE  /\ StoreGood(t)
         /\ \A k \in OptionKeys \ {"azimuth", "fovLeft", "fovRight"} : t.opts[k] = u.opts[k]
<1> DEFINE c == Canonical(start, end)
           o == With(u.opts, c)
           sun == {"azimuth", "fovLeft", "fovRight"}
<1>2. t = Store(o, <<start, end>>, u.length, u.cleared)
  BY DEF Facing
<1>3. DOMAIN c = sun /\ c["azimuth"] = c.azimuth /\ c["fovLeft"] = c.fovLeft
      /\ c["fovRight"] = c.fovRight
  BY DEF Canonical
<1>4. c.azimuth \in Dirs /\ c.fovLeft \in 0..Half /\ c.fovRight \in 0..Half
  BY CanonicalParts
<1> HIDE DEF c
<1>5. \A k \in DOMAIN c : Accepts(k, c[k])
  <2>1. /\ SunRanges("azimuth") = Dirs /\ SunRanges("fovLeft") = 0..Half
        /\ SunRanges("fovRight") = 0..Half
    BY DEF SunRanges, Dirs, Half
  <2>2. sun \subseteq SunKeys
    BY DEF SunKeys
  <2> QED BY <1>3, <1>4, <2>1, <2>2 DEF Accepts
<1>6. /\ Accepted(o)
      /\ \A k \in OptionKeys : o[k] = IF k \in DOMAIN c THEN c[k] ELSE u.opts[k]
  BY <1>5, WithAccepted DEF StoreGood
<1> HIDE DEF o
<1>7. t.opts = o /\ t.window = <<start, end>> /\ t.length = u.length /\ t.cleared = u.cleared
  BY <1>2 DEF Store
<1>8. sun \subseteq OptionKeys /\ "length" \in OptionKeys
  BY KeysOf DEF Bound
<1>9. HoldsWindow(o, start, end)
  <2>1. \A k \in sun : o[k] = c[k]
    BY <1>3, <1>6, <1>8
  <2>2. o["azimuth"] = c.azimuth /\ o["fovLeft"] = c.fovLeft /\ o["fovRight"] = c.fovRight
    BY <1>3, <2>1
  <2> QED BY <2>2 DEF HoldsWindow, c
<1>10. \A k \in OptionKeys \ sun : o[k] = u.opts[k]
  BY <1>3, <1>6
<1>11. WindowHeld(t)
  BY <1>7, <1>9 DEF WindowHeld
<1>12. LengthHeld(t) /\ ClearedHeld(t)
  BY <1>7, <1>8, <1>10 DEF StoreGood, LengthHeld, ClearedHeld, Bound
<1> QED BY <1>2, <1>6, <1>7, <1>10, <1>11, <1>12 DEF StoreGood

LEMMA SunServes ==
  ASSUME NEW s, StoreGood(s), NEW t \in SunTracking(s)
  PROVE  Serves(s, t)
<1> DEFINE limits == {"minElevation", "maxElevation"}
           values == [k \in limits |-> Elevations]
           inputs == OneChange(s, limits, values)
           upd(i) == Updated(s, limits, i, Optional(limits, i))
           saved(w, i) == [upd(i) EXCEPT !.opts = With(@, Canonical(w[1], w[2])), !.window = w]
           windows == (0..(Circle - 1)) \X (0..(Circle - 1))
           shown == WindowOf(s.opts)
<1>1. /\ t \in {saved(shown, i) : i \in inputs} \cup {saved(w, Shown(s, limits)) : w \in windows}
      /\ ElevationsOrdered(t.opts)
  BY Zenon DEF SunTracking
<1>2. \E start, end \in Dirs : shown = <<start, end>>
  BY AcceptedSun, ShownWindow DEF StoreGood
<1>3. \A i \in inputs : FromForm(s, limits, values, i)
  <2> HIDE DEF limits, values
  <2> QED BY OneChangeParts
<1>4. FromForm(s, limits, values, Shown(s, limits))
  BY DEF FromForm, Shown
<1>5. \E i : FromForm(s, limits, values, i) /\ \E start, end \in Dirs : t = saved(<<start, end>>, i)
  <2>1. CASE t \in {saved(shown, i) : i \in inputs}
    <3>1. PICK i \in inputs : t = saved(shown, i)
      <4> HIDE DEF saved, shown, inputs
      <4> QED BY <2>1
    <3>2. PICK start \in Dirs, end \in Dirs : shown = <<start, end>>
      BY <1>2
    <3>3. t = saved(<<start, end>>, i)
      <4> HIDE DEF shown
      <4> QED BY <3>1, <3>2, Zenon
    <3> HIDE DEF saved, shown, inputs
    <3> QED BY <1>3, <3>3
  <2>2. CASE t \in {saved(w, Shown(s, limits)) : w \in windows}
    <3>1. PICK w \in windows : t = saved(w, Shown(s, limits))
      <4> HIDE DEF saved, limits, windows
      <4> QED BY <2>2
    <3>2. PICK start \in Dirs, end \in Dirs : w = <<start, end>>
      BY DEF Dirs
    <3>3. t = saved(<<start, end>>, Shown(s, limits))
      BY <3>1, <3>2, Zenon
    <3> HIDE DEF saved, limits
    <3> QED BY <1>4, <3>3 DEF limits
  <2> HIDE DEF saved, shown, inputs, limits, windows
  <2> QED BY <1>1, <2>1, <2>2
<1>6. PICK i : FromForm(s, limits, values, i) /\ \E start, end \in Dirs : t = saved(<<start, end>>, i)
  BY <1>5
<1>7. PICK start \in Dirs, end \in Dirs : t = saved(<<start, end>>, i)
  BY <1>6
<1> DEFINE stored == Optional(limits, i)
           u == upd(i)
<1>8. /\ limits \subseteq OptionKeys \ Bound /\ limits \subseteq SunKeys
      /\ {"climate", "tempEntity"} \subseteq OptionKeys \ (limits \cup Bound)
  BY DEF OptionKeys, SunKeys, Bound
<1>9. \A k \in limits : \A v \in values[k] : Accepts(k, v)
  <2>1. \A k \in limits : SunRanges(k) = 0..(Circle \div 4)
    BY DEF SunRanges
  <2>2. Elevations \subseteq 0..(Circle \div 4)
    BY FormNumbers
  <2> QED BY <1>8, <2>1, <2>2 DEF Accepts
<1>10. Stores(limits, i, stored) /\ DOMAIN stored \subseteq limits
  <2> HIDE DEF limits, values, stored
  <2>1. limits \subseteq limits \cup ({"template"} \cap limits)
    OBVIOUS
  <2> QED BY <1>6, <1>8, <1>9, <2>1, FromFormStores DEF stored
<1>11. StoreGood(u) /\ u.opts = With(s.opts, stored)
  <2> HIDE DEF limits
  <2> QED BY <1>10, UpdatedGood
<1>12. t = Facing(u, start, end)
  <2>1. <<start, end>>[1] = start /\ <<start, end>>[2] = end
    OBVIOUS
  <2>2. t = [u EXCEPT !.opts = With(@, Canonical(start, end)), !.window = <<start, end>>]
    BY <1>7, <2>1, Zenon
  <2>3. u = Store(u.opts, u.window, u.length, u.cleared)
    BY <1>11 DEF StoreGood
  <2> HIDE DEF u
  <2>4. t = [u EXCEPT !.opts = With(u.opts, Canonical(start, end)), !.window = <<start, end>>]
    BY <2>2, <2>3, Zenon DEF Store
  <2> DEFINE o == With(u.opts, Canonical(start, end))
             w == <<start, end>>
  <2>5. t = [u EXCEPT !.opts = o, !.window = w]
    BY <2>4
  <2> HIDE DEF o, w
  <2>6. t = Store(o, w, u.length, u.cleared)
    BY <2>3, <2>5 DEF Store
  <2> QED BY <2>6 DEF Facing, o, w
<1> HIDE DEF u
<1>13. /\ StoreGood(t)
       /\ \A k \in OptionKeys \ {"azimuth", "fovLeft", "fovRight"} : t.opts[k] = u.opts[k]
  BY <1>11, <1>12, WindowSaved
<1>14. \A k \in {"climate", "tempEntity"} : t.opts[k] = s.opts[k]
  <2>1. \A k \in {"climate", "tempEntity"} : u.opts[k] = s.opts[k]
    <3> HIDE DEF limits, stored
    <3> QED BY <1>8, <1>10, <1>11 DEF With
  <2> QED BY <1>8, <1>13, <2>1 DEF Bound
<1> QED BY <1>1, <1>13, <1>14 DEF Serves, FormRules, ClimateHasSensor

-----------------------------------------------------------------------------
(* Where stores come from: the first copy of a flow, an old entry, a service. *)

LEMMA BlankHolds ==
  /\ Accepted(BlankOptions) /\ BlankOptions["length"] \in Nat
         /\ \A k \in SunKeys \cup {"my"} : BlankOptions[k] = None
<1>1. Metric \subseteq Nat /\ Metric # {}
  BY FormNumbers
<1>2. (CHOOSE l \in Metric : TRUE) \in Nat
  BY <1>1
<1>3. "length" \in OptionKeys /\ SunKeys \cup {"my"} \subseteq OptionKeys
      /\ {"useMy", "climate", "length", "tempLow", "tempHigh"} \cap (SunKeys \cup {"my"}) = {}
  BY DEF OptionKeys, SunKeys
<1>4. BlankOptions["length"] \in Nat
  BY <1>2, <1>3 DEF BlankOptions
<1>5. \A k \in SunKeys \cup {"my"} : BlankOptions[k] = None
  BY <1>3 DEF BlankOptions
<1>6. BlankOptions = [k \in OptionKeys |-> BlankOptions[k]]
  BY DEF BlankOptions
<1>7. \A k \in OptionKeys : Accepts(k, BlankOptions[k])
  BY <1>5 DEF Accepts
<1> QED BY <1>4, <1>5, <1>6, <1>7 DEF Accepted

LEMMA FreshGood ==
  ASSUME NEW o, Accepted(o), o["length"] \in Nat
  PROVE  StoreGood(Store(o, None, o["length"], {}))
<1> DEFINE s == Store(o, None, o["length"], {})
<1>1. s.opts = o /\ s.window = None /\ s.length = o["length"] /\ s.cleared = {}
  BY DEF Store
<1>2. s = Store(s.opts, s.window, s.length, s.cleared)
  BY <1>1
<1> HIDE DEF s
<1>3. WindowHeld(s) /\ LengthHeld(s) /\ ClearedHeld(s)
  BY <1>1 DEF WindowHeld, LengthHeld, Rounded, ClearedHeld
<1>4. StoreGood(s)
  BY <1>1, <1>2, <1>3 DEF StoreGood
<1> QED BY <1>4 DEF s

LEMMA NewGood ==
  StoreGood(New)
BY BlankHolds, FreshGood DEF New

LEMMA MigratedGood ==
  ASSUME NEW o \in OldEntries, NEW slow
  PROVE  StoreGood(Store(Migrated(o, slow), None, o["length"], {}))
<1> DEFINE moved == Migrated(o, slow)
           held == {"fovLeft", "fovRight", "my", "template"}
           f(l, p) == [k \in held |-> CASE k = "fovLeft"  -> l
                                        [] k = "fovRight" -> 1
                                        [] k = "my"       -> p
                                        [] k = "template" -> Given]
<1>1. /\ Circle \in Nat /\ Circle >= 4 /\ Half \in Nat /\ Circle = 2 * Half
      /\ Percent \in Nat /\ Percent > 2 /\ None \notin Int
  BY FormNumbers DEF Half
<1>2. \E l \in {1, Circle - 1}, p \in {0, 1, Percent} : o = With(BlankOptions, f(l, p))
  <2>1. \E l \in {1, Circle - 1}, m \in {0, 1, Percent} :
          o = With(BlankOptions, [k \in held |-> CASE k = "fovLeft"  -> l
                                                 [] k = "fovRight" -> 1
                                                 [] k = "my"       -> m
                                                 [] k = "template" -> Given])
    BY DEF OldEntries
  <2> QED BY <2>1, Zenon
<1>3. PICK l \in {1, Circle - 1}, p \in {0, 1, Percent} : o = With(BlankOptions, f(l, p))
  BY <1>2
<1>4. held \subseteq OptionKeys /\ "length" \in OptionKeys
  BY DEF OptionKeys, SunKeys, PlainKeys
<1>5. /\ o["fovLeft"] = l /\ o["fovRight"] = 1 /\ o["my"] = p
      /\ \A k \in OptionKeys \ held : o[k] = BlankOptions[k]
  BY <1>4, <1>3 DEF With
<1>6. moved = [k \in OptionKeys |-> moved[k]]
      /\ \A k \in OptionKeys : moved[k] = IF k = "template" /\ slow THEN None ELSE Clamped(k, o[k])
  BY DEF Migrated
<1> HIDE DEF moved
<1>7. moved["fovLeft"] \in 0..Half /\ moved["fovRight"] \in 0..Half
  <2>1. moved["fovLeft"] = Clamped("fovLeft", l) /\ moved["fovRight"] = Clamped("fovRight", 1)
    BY <1>4, <1>5, <1>6
  <2> QED BY <1>1, <1>2, <2>1 DEF Clamped, Half
<1>8. moved["my"] \in 1..(Percent - 1)
  <2>1. moved["my"] = Clamped("my", p)
    BY <1>4, <1>5, <1>6
  <2> QED BY <1>1, <1>2, <2>1 DEF Clamped
<1>9. \A k \in (SunKeys \cup {"my"}) \ held : moved[k] = None
  <2>1. SunKeys \cup {"my"} \subseteq OptionKeys
    BY DEF OptionKeys
  <2>2. \A k \in (SunKeys \cup {"my"}) \ held : o[k] = None
    BY <1>5, <2>1, BlankHolds
  <2> QED BY <1>6, <2>1, <2>2 DEF Clamped
<1>10. moved["length"] = o["length"] /\ o["length"] \in Nat
  <2>1. o["length"] \in Nat
    BY <1>4, <1>5, BlankHolds
  <2> QED BY <1>4, <1>6, <2>1 DEF Clamped
<1>11. \A k \in OptionKeys : Accepts(k, moved[k])
  <2>1. SunRanges("fovLeft") = 0..Half /\ SunRanges("fovRight") = 0..Half
    BY DEF SunRanges, Half
  <2>2. Accepts("fovLeft", moved["fovLeft"]) /\ Accepts("fovRight", moved["fovRight"])
    BY <1>7, <2>1 DEF Accepts, SunKeys
  <2>3. Accepts("my", moved["my"])
    BY <1>8 DEF Accepts, MyRange
  <2>4. \A k \in (SunKeys \cup {"my"}) \ held : Accepts(k, moved[k])
    BY <1>9 DEF Accepts
  <2>5. \A k \in OptionKeys \ (SunKeys \cup {"my"}) : Accepts(k, moved[k])
    BY DEF Accepts
  <2>6. (SunKeys \cup {"my"}) \cap held = {"fovLeft", "fovRight", "my"}
    BY DEF SunKeys
  <2> QED BY <2>2, <2>3, <2>4, <2>5, <2>6
<1>12. StoreGood(Store(moved, None, o["length"], {}))
  BY <1>6, <1>10, <1>11, FreshGood DEF Accepted
<1> QED BY <1>12 DEF moved

(* What a service leaves.                                                   *)
Served(s, patch) ==
  Store(With(s.opts, patch),
           IF DOMAIN patch \cap SunKeys # {} THEN None ELSE s.window,
           IF "length" \in DOMAIN patch THEN patch["length"] ELSE s.length,
           s.cleared \ DOMAIN patch)

LEMMA PatchGood ==
  ASSUME NEW s, StoreGood(s), NEW patch, DOMAIN patch \subseteq OptionKeys,
         "length" \in DOMAIN patch => patch["length"] \in Nat, ValidPatch(s.opts, patch)
  PROVE  StoreGood(Served(s, patch))
<1> DEFINE t == Served(s, patch)
           o == With(s.opts, patch)
           w == IF DOMAIN patch \cap SunKeys # {} THEN None ELSE s.window
           l == IF "length" \in DOMAIN patch THEN patch["length"] ELSE s.length
           c == s.cleared \ DOMAIN patch
<1>1. /\ Accepted(o)
      /\ \A k \in OptionKeys : o[k] = IF k \in DOMAIN patch THEN patch[k] ELSE s.opts[k]
  BY WithAccepted DEF StoreGood, ValidPatch
<1>2. t = Store(o, w, l, c)
  BY DEF Served
<1> HIDE DEF t, o, w, l, c
<1>3. t.opts = o /\ t.window = w /\ t.length = l /\ t.cleared = c
  BY <1>2 DEF Store
<1>4. WindowHeld(t)
  <2>1. {"azimuth", "fovLeft", "fovRight"} \subseteq SunKeys \cap OptionKeys
    BY DEF OptionKeys, SunKeys
  <2>2. ASSUME w # None PROVE WindowHeld(t)
    <3>1. DOMAIN patch \cap SunKeys = {} /\ w = s.window
      BY <2>2 DEF w
    <3>2. \A k \in {"azimuth", "fovLeft", "fovRight"} : o[k] = s.opts[k]
      BY <1>1, <2>1, <3>1
    <3>3. WindowHeld(s)
      BY DEF StoreGood
    <3> QED BY <1>3, <3>1, <3>2, <3>3 DEF WindowHeld, HoldsWindow
  <2>3. CASE w = None
    BY <1>3, <2>3 DEF WindowHeld
  <2> QED BY <2>2, <2>3
<1>5. LengthHeld(t)
  <2>1. "length" \in OptionKeys
    BY DEF OptionKeys
  <2>2. CASE "length" \in DOMAIN patch
    <3>1. o["length"] = patch["length"] /\ l = patch["length"]
      BY <1>1, <2>1, <2>2 DEF l
    <3> QED BY <1>3, <2>2, <3>1 DEF LengthHeld, Rounded
  <2>3. CASE "length" \notin DOMAIN patch
    <3>1. o["length"] = s.opts["length"] /\ l = s.length
      BY <1>1, <2>1, <2>3 DEF l
    <3> QED BY <1>3, <3>1 DEF StoreGood, LengthHeld
  <2> QED BY <2>2, <2>3
<1>6. ClearedHeld(t)
  BY <1>1, <1>3 DEF StoreGood, ClearedHeld, c
<1>7. StoreGood(t)
  BY <1>1, <1>2, <1>3, <1>4, <1>5, <1>6 DEF StoreGood
<1> QED BY <1>7 DEF t

Halves(keys, a, v, w) == [k \in keys |-> IF k = a THEN v ELSE w]

LEMMA ServicePatches ==
  ASSUME PatchSection \/ PatchOption
  PROVE  \E patch : /\ DOMAIN patch \subseteq OptionKeys /\ Patch(patch)
                    /\ "length" \in DOMAIN patch => patch["length"] \in Nat
<1>1. Metric \subseteq Nat
  BY FormNumbers
<1>2. CASE PatchSection
  <2>1. PICK keys \in ServiceSections : \E a, b \in keys :
          a # b /\ \E v \in ServiceValues(a), w \in ServiceValues(b) :
                      Patch([k \in keys |-> IF k = a THEN v ELSE w])
    BY <1>2 DEF PatchSection
  <2>2. PICK a \in keys, b \in keys :
          \E v \in ServiceValues(a), w \in ServiceValues(b) :
             Patch([k \in keys |-> IF k = a THEN v ELSE w])
    BY <2>1
  <2>3. PICK v \in ServiceValues(a), w \in ServiceValues(b) :
          Patch([k \in keys |-> IF k = a THEN v ELSE w])
    BY <2>2
  <2>4. Patch(Halves(keys, a, v, w))
    BY <2>3 DEF Halves
  <2> DEFINE patch == Halves(keys, a, v, w)
  <2>5. keys \subseteq OptionKeys /\ "length" \notin keys
    BY DEF ServiceSections, OptionKeys, SunKeys
  <2>6. DOMAIN patch = keys
    BY DEF Halves
  <2> HIDE DEF patch
  <2> QED BY <2>5, <2>6, <2>4 DEF patch
<1>3. CASE PatchOption
  <2>1. PICK key \in OptionKeys : \E v \in ServiceValues(key) : Patch([x \in {key} |-> v])
    BY <1>3, Zenon DEF PatchOption
  <2>2. PICK v \in ServiceValues(key) : Patch([x \in {key} |-> v])
    BY <2>1
  <2> DEFINE patch == [x \in {key} |-> v]
  <2>3. DOMAIN patch = {key} /\ patch[key] = v
    OBVIOUS
  <2> HIDE DEF patch
  <2>4. key = "length" => v \in Metric
    BY <2>2 DEF ServiceValues
  <2> QED BY <1>1, <2>2, <2>3, <2>4 DEF patch
<1> QED BY <1>2, <1>3

-----------------------------------------------------------------------------
(* The invariant: what is stored and what a flow holds is good.             *)

FormsInv ==
  /\ entry # None => StoreGood(entry)
  /\ StoreGood(screen.copy) /\ screen = [at |-> screen.at, copy |-> screen.copy]
  /\ screen.at \in {"none", "menu", "geometry", "sun", "position", "summary"}
  /\ imperial \in BOOLEAN /\ edits \in 0..MaxEdits

NoFlowGood == StoreGood(NoFlow.copy) /\ NoFlow = [at |-> NoFlow.at, copy |-> NoFlow.copy]
              /\ NoFlow.at = "none"

LEMMA NoFlowIsGood ==
  NoFlowGood
BY NewGood DEF NoFlowGood, NoFlow

LEMMA FormsStart == FormsInit => FormsInv
<1> SUFFICES ASSUME FormsInit PROVE FormsInv
  OBVIOUS
<1>1. screen = NoFlow /\ imperial = FALSE /\ edits = 0
  BY DEF FormsInit
<1>2. StoreGood(screen.copy) /\ screen = [at |-> screen.at, copy |-> screen.copy] /\ screen.at = "none"
  BY <1>1, NoFlowIsGood DEF NoFlowGood
<1>3. entry # None => StoreGood(entry)
  <2>1. CASE entry = None
    BY <2>1
  <2>2. CASE entry # None
    <3>1. PICK o \in OldEntries, slow \in BOOLEAN :
            entry = Store(Migrated(o, slow), None, o["length"], {})
      BY <2>2 DEF FormsInit
    <3> QED BY <3>1, MigratedGood
  <2> QED BY <2>1, <2>2
<1>4. edits \in 0..MaxEdits
  BY <1>1, Ranges
<1>5. imperial \in BOOLEAN
  BY <1>1
<1> QED BY <1>2, <1>3, <1>4, <1>5 DEF FormsInv

(* A submitted section: the copy that results serves as the one before.     *)
Sections == GeometrySection \/ SunSection \/ PositionSection \/ BehaviorSection
            \/ WeatherSection \/ ManualSection \/ MotionSection \/ CloudSection
            \/ PrioritySection \/ AutomationSection \/ ClimateSection

Submitted == /\ screen.at = "menu" /\ edits < MaxEdits
             /\ screen' = [at |-> "menu", copy |-> screen'.copy] /\ Serves(screen.copy, screen'.copy)
             /\ edits' = edits + 1 /\ entry' = entry /\ imperial' = imperial

LEMMA SubmitServes ==
  ASSUME FormsInv, NEW results, \A t \in results : Serves(screen.copy, t), Submit(results)
  PROVE  Submitted
<1>1. PICK t \in results : screen' = [screen EXCEPT !.copy = t]
  BY DEF Submit
<1>2. screen.at = "menu" /\ edits < MaxEdits /\ edits' = edits + 1 /\ entry' = entry /\ imperial' = imperial
  BY DEF Submit
<1>3. screen' = [at |-> "menu", copy |-> t]
  BY <1>1, <1>2 DEF FormsInv
<1>4. screen'.copy = t
  BY <1>3
<1> QED BY <1>2, <1>3, <1>4 DEF Submitted

LEMMA SectionSubmitted ==
  ASSUME FormsInv, Sections
  PROVE  Submitted
<1> DEFINE s == screen.copy
<1>1. StoreGood(s)
  BY DEF FormsInv
<1> HIDE DEF s
<1>2. \A t \in Geometry(s) \cup SunTracking(s) \cup Position(s) \cup Automation(s)
               \cup TemperatureClimate(s) : Serves(s, t)
  BY <1>1, GeometryServes, SunServes, PositionServes, AutomationServes, ClimateServes
<1>3. ASSUME NEW key \in PlainKeys, NEW t \in Plain(s, key, {key}) PROVE Serves(s, t)
  BY <1>1, <1>3, PlainServes
<1>4. ASSUME NEW t \in Plain(s, "template", {}) PROVE Serves(s, t)
  BY <1>1, <1>4, PlainServes, KeysOf
<1>5. /\ \A t \in Behavior(s) : Serves(s, t)
      /\ \A t \in WeatherOverride(s) : Serves(s, t)
      /\ \A t \in ManualOverride(s) : Serves(s, t)
      /\ \A t \in LightCloud(s) : Serves(s, t)
      /\ \A t \in PipelinePriorities(s) : Serves(s, t)
      /\ \A t \in MotionOverride(s) : Serves(s, t)
  <2>1. {"gate", "wind", "threshold", "sunny", "priority"} \subseteq PlainKeys
    BY DEF PlainKeys
  <2> QED BY <1>3, <1>4, <2>1 DEF Behavior, WeatherOverride, ManualOverride, LightCloud,
              PipelinePriorities, MotionOverride
<1>6. \E results : (\A t \in results : Serves(s, t)) /\ Submit(results)
  <2>1. CASE GeometrySection
    BY <1>2, <2>1 DEF GeometrySection, s
  <2>2. CASE SunSection
    BY <1>2, <2>2 DEF SunSection, s
  <2>3. CASE PositionSection
    BY <1>2, <2>3 DEF PositionSection, s
  <2>4. CASE BehaviorSection
    BY <1>5, <2>4 DEF BehaviorSection, s
  <2>5. CASE WeatherSection
    BY <1>5, <2>5 DEF WeatherSection, s
  <2>6. CASE ManualSection
    BY <1>5, <2>6 DEF ManualSection, s
  <2>7. CASE MotionSection
    BY <1>5, <2>7 DEF MotionSection, s
  <2>8. CASE CloudSection
    BY <1>5, <2>8 DEF CloudSection, s
  <2>9. CASE PrioritySection
    BY <1>5, <2>9 DEF PrioritySection, s
  <2>10. CASE AutomationSection
    BY <1>2, <2>10 DEF AutomationSection, s
  <2>11. CASE ClimateSection
    BY <1>2, <2>11 DEF ClimateSection, s
  <2> QED BY <2>1, <2>2, <2>3, <2>4, <2>5, <2>6, <2>7, <2>8, <2>9, <2>10, <2>11 DEF Sections
<1>7. PICK results : (\A t \in results : Serves(s, t)) /\ Submit(results)
  BY <1>6
<1> QED BY <1>7, SubmitServes DEF s

(* A step of the create flow.                                               *)
Created == /\ screen' = [at |-> screen'.at, copy |-> screen'.copy] /\ StoreGood(screen'.copy)
           /\ screen.at \in {"geometry", "sun", "position"}
           /\ screen'.at \in {"sun", "position", "summary"}
           /\ entry' = entry /\ imperial' = imperial /\ edits' = edits

LEMMA StepCreates ==
  ASSUME FormsInv, CreateGeometry \/ CreateSun \/ CreatePosition
  PROVE  Created
<1> DEFINE s == screen.copy
<1>1. StoreGood(s)
  BY DEF FormsInv
<1> HIDE DEF s
<1>2. \A t \in Geometry(s) \cup SunTracking(s) \cup Position(s) : StoreGood(t)
  BY <1>1, GeometryServes, SunServes, PositionServes DEF Serves
<1>3. \E at \in {"geometry", "sun", "position"}, next \in {"sun", "position", "summary"} :
        \E results : (\A t \in results : StoreGood(t)) /\ Step(at, next, results)
  BY <1>2, Zenon DEF CreateGeometry, CreateSun, CreatePosition, s
<1>4. PICK at \in {"geometry", "sun", "position"}, next \in {"sun", "position", "summary"} :
        \E results : (\A t \in results : StoreGood(t)) /\ Step(at, next, results)
  BY <1>3
<1>5. PICK results : (\A t \in results : StoreGood(t)) /\ Step(at, next, results)
  BY <1>4
<1>6. PICK t \in results : screen' = [at |-> next, copy |-> t]
  BY <1>5 DEF Step
<1>7. screen'.copy = t /\ screen'.at = next /\ screen.at = at
      /\ entry' = entry /\ imperial' = imperial /\ edits' = edits
  BY <1>5, <1>6 DEF Step
<1> QED BY <1>5, <1>6, <1>7 DEF Created

(* A service that patches the entry.                                        *)
Serviced == /\ entry # None /\ StoreGood(entry') /\ screen' = screen /\ imperial' = imperial
            /\ edits < MaxEdits /\ edits' = edits + 1
            /\ ServiceRules(entry.opts) => ServiceRules(entry'.opts)

(* Whatever part of a pair is sent, the rule is looked at on the merge.     *)
LEMMA PatchKeepsRules ==
  ASSUME NEW o, NEW patch, CrossField(o, patch), ServiceRules(o)
  PROVE  ServiceRules(With(o, patch))
<1> DEFINE m == With(o, patch)
<1>1. {"spotLeft", "spotRight", "tempLow", "tempHigh", "startTime", "startEntity", "useMy", "my"}
        \subseteq OptionKeys
  BY DEF OptionKeys
<1>2. \A k \in OptionKeys : m[k] = IF k \in DOMAIN patch THEN patch[k] ELSE o[k]
  BY DEF With
<1>3. /\ DOMAIN patch \cap {"spotLeft", "spotRight"} # {} => SpotOrdered(m)
      /\ DOMAIN patch \cap {"tempLow", "tempHigh"} # {} => TempsOrdered(m)
      /\ DOMAIN patch \cap {"startTime", "startEntity"} # {} => OneStart(m)
      /\ DOMAIN patch \cap {"useMy", "my"} # {} => MyPresent(m)
  BY Zenon DEF CrossField
<1> HIDE DEF m
<1>4. SpotOrdered(o) /\ TempsOrdered(o) /\ OneStart(o) /\ MyPresent(o)
  BY DEF ServiceRules
<1>5. SpotOrdered(m)
  BY <1>1, <1>2, <1>3, <1>4 DEF SpotOrdered, Less
<1>6. TempsOrdered(m)
  BY <1>1, <1>2, <1>3, <1>4 DEF TempsOrdered, Less
<1>7. OneStart(m)
  BY <1>1, <1>2, <1>3, <1>4 DEF OneStart
<1>8. MyPresent(m)
  BY <1>1, <1>2, <1>3, <1>4 DEF MyPresent
<1> QED BY <1>5, <1>6, <1>7, <1>8 DEF ServiceRules, m

LEMMA ServiceServes ==
  ASSUME FormsInv, PatchSection \/ PatchOption
  PROVE  Serviced
<1>1. PICK patch : /\ DOMAIN patch \subseteq OptionKeys /\ Patch(patch)
                   /\ "length" \in DOMAIN patch => patch["length"] \in Nat
  BY ServicePatches
<1>2. /\ entry # None /\ edits < MaxEdits /\ ValidPatch(entry.opts, patch)
      /\ edits' = edits + 1 /\ screen' = screen /\ imperial' = imperial
  BY <1>1 DEF Patch
<1>3. entry' = Served(entry, patch)
  BY <1>1, Zenon DEF Patch, Served, Store
<1>4. StoreGood(Served(entry, patch))
  BY <1>1, <1>2, PatchGood DEF FormsInv
<1>5. Served(entry, patch).opts = With(entry.opts, patch)
  BY DEF Served, Store
<1>6. ServiceRules(entry.opts) => ServiceRules(Served(entry, patch).opts)
  BY <1>2, <1>5, PatchKeepsRules DEF ValidPatch
<1> QED BY <1>2, <1>3, <1>4, <1>6 DEF Serviced

(* The other steps: opening a flow, closing it, the units.                  *)
Opened == OpenOptions \/ CreateCovers
Shut == Done \/ CreateEntry
Still  == Units \/ UNCHANGED formVars

LEMMA StepsSplit ==
  ASSUME [FormsNext]_formVars
  PROVE  \/ Sections \/ Opened \/ Shut \/ Still
         \/ CreateGeometry \/ CreateSun \/ CreatePosition
         \/ PatchSection \/ PatchOption
BY DEF FormsNext, Sections, Opened, Shut, Still

LEMMA FormsStep == FormsInv /\ [FormsNext]_formVars => FormsInv'
<1> SUFFICES ASSUME FormsInv, [FormsNext]_formVars PROVE FormsInv'
  OBVIOUS
<1>1. MaxEdits \in Nat /\ edits \in 0..MaxEdits
  BY Ranges DEF FormsInv
<1>2. CASE Sections
  <2>1. Submitted
    BY <1>2, SectionSubmitted
  <2>2. screen'.at = "menu" /\ StoreGood(screen'.copy)
    BY <2>1 DEF Submitted, Serves
  <2> QED BY <1>1, <2>1, <2>2 DEF FormsInv, Submitted
<1>3. CASE CreateGeometry \/ CreateSun \/ CreatePosition
  <2>1. Created
    BY <1>3, StepCreates
  <2> QED BY <2>1 DEF FormsInv, Created
<1>4. CASE PatchSection \/ PatchOption
  <2>1. Serviced
    BY <1>4, ServiceServes
  <2> QED BY <1>1, <2>1 DEF FormsInv, Serviced
<1>5. CASE OpenOptions
  BY <1>5 DEF FormsInv, OpenOptions
<1>6. CASE CreateCovers
  <2>1. screen' = [at |-> "geometry", copy |-> New] /\ entry' = entry /\ imperial' = imperial
        /\ edits' \in 0..MaxEdits
    BY <1>1, <1>6 DEF CreateCovers
  <2> QED BY <2>1, NewGood DEF FormsInv
<1>7. CASE Shut
  <2>1. screen' = NoFlow /\ entry' = screen.copy /\ imperial' = imperial /\ edits' = edits
    BY <1>7 DEF Shut, Done, CreateEntry
  <2> QED BY <2>1, NoFlowIsGood DEF FormsInv, NoFlowGood
<1>8. CASE Units
  <2>1. imperial' \in BOOLEAN
    BY <1>8 DEF Units
  <2> QED BY <1>8, <2>1 DEF FormsInv, Units
<1>9. CASE UNCHANGED formVars
  BY <1>9 DEF FormsInv, formVars
<1> QED BY <1>2, <1>3, <1>4, <1>5, <1>6, <1>7, <1>8, <1>9, StepsSplit DEF Opened, Still

LEMMA FormsInvariance == FormsSpec => []FormsInv
BY FormsStart, FormsStep, PTL DEF FormsSpec

(* What is stored, and what a flow holds, is what the services accept for   *)
(* the field: validators, conversions, clamps and patches leave nothing     *)
(* else.                                                                    *)
THEOREM FormsTypeCorrect == FormsSpec => []FormsTypeOK
<1>1. FormsInv => FormsTypeOK
  BY DEF FormsInv, StoreGood, Accepted, FormsTypeOK
<1> QED BY <1>1, FormsInvariance, PTL

(* What was entered is what is stored, whatever was saved around it and     *)
(* however often: the window of the form and of the engine, the length to   *)
(* half a displayed tenth, and the fields that were left empty.             *)
THEOREM EntriesAlwaysKept == FormsSpec => []EntriesKept
<1>1. FormsInv => EntriesKept
  <2> SUFFICES ASSUME FormsInv, entry # None PROVE EntriesKept
    BY DEF EntriesKept
  <2> DEFINE o == entry.opts
  <2>1. StoreGood(entry)
    BY DEF FormsInv
  <2>2. ASSUME entry.window # None
        PROVE  /\ WindowOf(o) = entry.window
               /\ o["azimuth"] # 0 =>
                    {a \in 0..(Circle - 1) : InFov(o, a)} = Between(entry.window)
    <3>1. PICK start \in Dirs, end \in Dirs : entry.window = <<start, end>> /\ HoldsWindow(o, start, end)
      BY <2>1, <2>2 DEF StoreGood, WindowHeld
    <3> HIDE DEF o
    <3>2. WindowOf(o) = <<start, end>>
      BY <3>1, WindowShown
    <3>3. o["azimuth"] # 0 => {a \in 0..(Circle - 1) : InFov(o, a)} = Between(<<start, end>>)
      BY <3>1, EngineLets
    <3> QED BY <3>1, <3>2, <3>3
  <2>3. Near(o["length"], entry.length)
    <3>1. Rounded(o["length"], entry.length) /\ Tenth \in Nat
      BY <2>1, FormNumbers DEF StoreGood, LengthHeld
    <3> QED BY <3>1 DEF Rounded, Near
  <2>4. \A k \in entry.cleared \ {"template"} : o[k] = None
    BY <2>1 DEF StoreGood, ClearedHeld
  <2> QED BY <2>2, <2>3, <2>4, Zenon DEF EntriesKept
<1> QED BY <1>1, FormsInvariance, PTL

(* The running engine lets the sun in exactly while it is in the window     *)
(* whose times are published for the day, but for the ends of that window.  *)
THEOREM GatesAlwaysAgree == FormsSpec => []GatesAgree
<1>1. FormsInv => GatesAgree
  <2> SUFFICES ASSUME FormsInv, entry # None,
                      Or(entry.opts["fovLeft"], DefaultFov)
                        + Or(entry.opts["fovRight"], DefaultFov) < Circle,
                      NEW a \in 0..(Circle - 1)
               PROVE  InFov(entry.opts, a)
                        <=> /\ InDay(entry.opts, a)
                            /\ a \notin {EngineWindow(entry.opts)[1], EngineWindow(entry.opts)[2]}
    BY DEF GatesAgree
  <2>1. SunTyped(entry.opts)
    BY AcceptedSun DEF FormsInv, StoreGood
  <2> QED BY <2>1, GateIsDay DEF Dirs
<1> QED BY <1>1, FormsInvariance, PTL

(* A surface keeps the rules it checks: no service call leaves a crossed    *)
(* pair, whichever part of it is sent, and no section crossed elevations or *)
(* a climate mode without its sensor.                                       *)
THEOREM RulesAlwaysKept == FormsSpec => RulesKept
<1> DEFINE kept == /\ entry # None /\ screen.at = "none" /\ screen'.at = "none"
                      /\ ServiceRules(entry.opts) => ServiceRules(entry'.opts)
                   /\ screen.at = "menu" /\ screen'.at = "menu" /\ FormRules(screen.copy.opts)
                      => FormRules(screen'.copy.opts)
<1>1. FormsInv /\ [FormsNext]_formVars => kept
  <2> SUFFICES ASSUME FormsInv, [FormsNext]_formVars PROVE kept
    OBVIOUS
  <2>1. CASE Sections
    BY <2>1, SectionSubmitted DEF Submitted, Serves
  <2>2. CASE CreateGeometry \/ CreateSun \/ CreatePosition
    BY <2>2, StepCreates DEF Created
  <2>3. CASE PatchSection \/ PatchOption
    BY <2>3, ServiceServes DEF Serviced
  <2>4. CASE Opened
    BY <2>4 DEF Opened, OpenOptions, CreateCovers
  <2>5. CASE Shut
    <3>1. screen'.at = "none" /\ screen.at # "none"
      BY <2>5, NoFlowIsGood DEF Shut, Done, CreateEntry, NoFlowGood
    <3> QED BY <3>1
  <2>6. CASE Still
    BY <2>6 DEF Still, Units, formVars
  <2> QED BY <2>1, <2>2, <2>3, <2>4, <2>5, <2>6, StepsSplit
<1> QED BY <1>1, FormsInvariance, PTL DEF FormsSpec, RulesKept
=============================================================================
