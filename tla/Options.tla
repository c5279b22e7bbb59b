------------------------------ MODULE Options ------------------------------
(***************************************************************************)
(* The options of a config entry and the coordinator that runs on them:    *)
(* the options flow (config_flow.py), the services and switches that patch *)
(* single keys (services/options_service.py, switch.py), the migration and *)
(* the listener that applies a change in place or reloads the entry        *)
(* (__init__.py).                                                          *)
(*                                                                         *)
(* A save and the listener it wakes are one step.  Set-up and unload       *)
(* suspend at the points that separate their actions, and a flow stays     *)
(* open for as long as its user likes.                                     *)
(***************************************************************************)
EXTENDS Integers, Sequences, FiniteSets

CONSTANTS
  Sensors,      \* the sensors a custom-position slot may be given
  Absent,       \* the key is not in the options, or None
  Others,       \* the values of any option that needs a reload
  MaxSaves,     \* bound on saves by users
  MaxRestarts   \* bound on restarts of Home Assistant

ASSUME Data   == Absent \notin Sensors /\ Absent \notin Seq(Sensors)
                 /\ Others # {}
ASSUME Bounds == MaxSaves \in Nat /\ MaxRestarts \in Nat

VARIABLES
  options,     \* entry.options
  migrated,    \* entry.minor_version is the current one
  phase,       \* how far set-up or unload has come
  waiting,     \* reloads that wait for the entry's lock
  running,     \* the pipeline and the subscriptions of the coordinator
  cached,      \* _cached_options
  flow,        \* the options flow: open or not, its copy, what was edited
  meant,       \* ghost: each key as its latest editor left it
  clobbered,   \* ghost: keys a flow has put back to an older value
  raw,         \* ghost: the list was written without the single key
  overlooked,  \* ghost: options changed while no listener was registered
  saves, restarts

vars == <<options, migrated, phase, waiting, running, cached, flow, meant,
          clobbered, raw, overlooked, saves, restarts>>

ghosts == <<meant, clobbered, raw>>

-----------------------------------------------------------------------------
(* What the options say.                                                   *)

Keys       == {"sun", "other", "sensors", "sensor", "position", "pruned"}
Slot       == {"sensors", "sensor", "position"}
Runtime    == {"sun"}                          \* _RUNTIME_APPLICABLE_OPTIONS
Lists      == {<<>>} \cup {<<s>> : s \in Sensors}

OptionSet  == [sun: BOOLEAN, other: Others, sensors: Lists \cup {Absent},
               sensor: Sensors \cup {Absent}, position: BOOLEAN,
               pruned: BOOLEAN]

First(list) == IF list \in {Absent, <<>>} THEN Absent ELSE list[1]

\* custom_position_slot_sensors: the list wins, the single key is the fallback.
SlotSensors(o) ==
  IF o["sensors"] # Absent THEN {o["sensors"][i] : i \in DOMAIN o["sensors"]}
                           ELSE {o["sensor"]} \ {Absent}

\* copy_legacy_slot_sensors_to_list.
CopiedLegacy(o) ==
  IF o.sensors = Absent /\ o.sensor # Absent
    THEN [o EXCEPT !.sensors = <<o.sensor>>] ELSE o

\* _merge_force_override_into_slot_5 writes the list and the position, and
\* leaves the single key alone: slot 5 is new then.
ForceLists(o) == IF o.sensor = Absent THEN Lists ELSE {<<>>}
ForceMerged(o, force) ==
  IF force = <<>> THEN o ELSE [o EXCEPT !.sensors = force, !.position = TRUE]

\* mirror_legacy_slot_sensor_keys; a list of None falls back, as above.
MirroredStale(o) ==
  IF First(o.sensors) # Absent THEN [o EXCEPT !.sensor = First(o.sensors)]
                               ELSE o

Mirrored(o) ==
  IF o.sensors = Absent THEN o ELSE [o EXCEPT !.sensor = First(o.sensors)]

Merged(o, patch) ==
  [k \in Keys |-> IF k \in DOMAIN patch THEN patch[k] ELSE o[k]]

\* _cross_field_validate: a slot has a trigger exactly when it has a position.
Paired(o, patch) ==
  DOMAIN patch \cap Slot # {} =>
    LET m == Merged(o, patch) IN (SlotSensors(m) # {}) = m["position"]

-----------------------------------------------------------------------------
(* The listener.                                                           *)

\* Until async_unload_entry has returned the update listener stays registered.
Listening == phase \in {"loaded", "unloading"}
SettingUp == phase \in {"created", "forwarded", "refreshing"}

ChangedAny(new) ==
  IF \E k \in Runtime : new[k] # cached[k] THEN Runtime
  ELSE {k \in Keys : new[k] # cached[k]}

Changed(new) == {k \in Keys : new[k] # cached[k]}

\* async_apply_sun_tracking_update: new pipeline, new snapshot, no reload.
ApplyInPlace(new) ==
  /\ running' = [running EXCEPT !.sun = new.sun]
  /\ cached'  = new
  /\ UNCHANGED <<phase, waiting>>

\* async_reload: one at a time, behind the entry's lock.
Reload ==
  /\ IF phase = "loaded" THEN phase' = "unloading" /\ UNCHANGED waiting
                         ELSE waiting' = waiting + 1 /\ UNCHANGED phase
  /\ UNCHANGED <<running, cached>>

UpdateListener(new) ==
  \/ Changed(new) = {} /\ UNCHANGED <<phase, waiting, running, cached>>
  \/ Changed(new) # {} /\ Changed(new) \subseteq Runtime /\ ApplyInPlace(new)
  \/ ~ (Changed(new) \subseteq Runtime) /\ Reload

\* async_update_entry: tells the listeners, if anything has changed.
UpdateEntry(new) ==
  /\ saves < MaxSaves /\ saves' = saves + 1
  /\ options' = new
  /\ IF new # options /\ Listening
       THEN UpdateListener(new)
       ELSE UNCHANGED <<phase, waiting, running, cached>>
  /\ overlooked' = (overlooked \/ (new # options /\ SettingUp))
  /\ UNCHANGED <<migrated, restarts>>

-----------------------------------------------------------------------------
(* Saves of single keys.                                                   *)

\* apply_options_patch starts from the stored options, not from a snapshot.
PatchedSnapshot(patch) == Merged(cached, patch)

Patched(patch) == Merged(options, patch)

Apply(patch) ==
  /\ UpdateEntry(Patched(patch))
  /\ meant'     = Merged(meant, patch)
  /\ clobbered' = clobbered \ DOMAIN patch
  /\ UNCHANGED flow

\* Only entries that are LOADED are targets of a service.
SectionService ==
  /\ phase = "loaded"
  /\ \E s \in BOOLEAN, v \in Others : Apply([sun |-> s, other |-> v])
  /\ UNCHANGED raw

\* The single-sensor key follows the list.
SlotPatch(fields, list, pos) ==
  [k \in fields \cup (IF "sensors" \in fields THEN {"sensor"} ELSE {}) |->
     CASE k = "sensors"  -> list
       [] k = "sensor"   -> First(list)
       [] k = "position" -> pos]

SetCustomPosition ==
  /\ phase = "loaded"
  /\ \E fields \in (SUBSET {"sensors", "position"}) \ {{}},
        list \in Lists \cup {Absent}, pos \in BOOLEAN :
       LET patch == SlotPatch(fields, list, pos) IN
       /\ Paired(options, patch)
       /\ Apply(patch)
       /\ raw' = (raw /\ "sensors" \notin fields)

\* One key, whatever depends on it.
SetOption ==
  /\ phase = "loaded"
  /\ \E k \in {"sun", "other", "sensors", "sensor", "position"} :
       \E v \in CASE k = "sun"      -> BOOLEAN
                  [] k = "other"    -> Others
                  [] k = "sensors"  -> Lists \cup {Absent}
                  [] k = "sensor"   -> Sensors \cup {Absent}
                  [] k = "position" -> BOOLEAN :
         /\ Paired(options, [x \in {k} |-> v])
         /\ Apply([x \in {k} |-> v])
         /\ raw' = (raw \/ k \in {"sensors", "sensor"})

\* The Sun Tracking switch: there as soon as its platform is set up.
SwitchSun ==
  /\ phase \in {"forwarded", "refreshing", "loaded", "unloading"}
  /\ Apply([sun |-> ~ options.sun])
  /\ UNCHANGED raw

-----------------------------------------------------------------------------
(* The options flow: a copy, edited section by section, written back.      *)

Blank == [sun |-> FALSE, other |-> CHOOSE v \in Others : TRUE, sensors |-> <<>>,
          sensor |-> Absent, position |-> FALSE, pruned |-> FALSE]

Closed == [open |-> FALSE, copy |-> Blank, edited |-> {}, raw |-> FALSE]

OpenFlow ==
  /\ ~ flow.open /\ phase # "down"
  /\ flow' = [open |-> TRUE, copy |-> options, edited |-> {}, raw |-> raw]
  /\ UNCHANGED <<options, migrated, phase, waiting, running, cached, meant,
                 clobbered, raw, overlooked, saves, restarts>>

\* A section overwrites its keys; what the user changed in it is edited.
\* Bound: one section with changes per flow.
Section(new, r) ==
  /\ flow.open /\ flow.edited = {}
  /\ flow' = [flow EXCEPT !.copy = new, !.raw = r,
                 !.edited = @ \cup {k \in Keys : new[k] # flow.copy[k]}]
  /\ UNCHANGED <<options, migrated, phase, waiting, running, cached, meant,
                 clobbered, raw, overlooked, saves, restarts>>

SunTrackingSection ==
  \E s \in BOOLEAN, v \in Others :
    Section([flow.copy EXCEPT !.sun = s, !.other = v], flow.raw)

\* No check that a slot has both a trigger and a position.
CustomPositionSection ==
  \E list \in Lists, pos \in BOOLEAN :
    Section(Mirrored([flow.copy EXCEPT !.sensors = list, !.position = pos]),
            FALSE)

FlowDone ==
  /\ flow.open
  /\ UpdateEntry(flow.copy)
  /\ meant' = [k \in Keys |-> IF k \in flow.edited THEN flow.copy[k]
                                                   ELSE meant[k]]
  /\ clobbered' = {k \in Keys \ flow.edited : flow.copy[k] # meant[k]}
  /\ raw' = flow.raw
  /\ flow' = Closed

\* The user closes the dialog.
AbandonFlow ==
  /\ flow.open /\ flow' = Closed
  /\ UNCHANGED <<options, migrated, phase, waiting, running, cached, meant,
                 clobbered, raw, overlooked, saves, restarts>>

-----------------------------------------------------------------------------
(* Set-up and unload.                                                      *)

\* async_migrate_entry, then the coordinator with its pipeline and snapshot;
\* async_load suspends.
Start ==
  /\ phase = "down" /\ phase' = "created"
  /\ \E force \in ForceLists(options) :
       LET o == IF migrated THEN options ELSE CopiedLegacy(ForceMerged(options, force)) IN
       /\ options' = o
       /\ cached'  = o
       /\ running' = [sun |-> o.sun, sensors |-> {}]
       /\ meant'   = IF migrated THEN meant ELSE o
       /\ raw'     = (raw \/ (~ migrated /\ force # <<>>))
  /\ migrated' = TRUE /\ overlooked' = FALSE
  /\ UNCHANGED <<waiting, flow, clobbered, saves, restarts>>

\* Subscriptions, then the pruning of old entities, each with its flag; the
\* set-up of the platforms suspends.
Subscribe ==
  /\ phase = "created" /\ phase' = "forwarded"
  /\ running' = [running EXCEPT !.sensors = SlotSensors(options)]
  /\ options' = [options EXCEPT !.pruned = TRUE]
  /\ meant'   = [meant EXCEPT !.pruned = TRUE]
  /\ clobbered' = clobbered \ {"pruned"}
  /\ UNCHANGED <<migrated, waiting, cached, flow, raw, overlooked, saves,
                 restarts>>

\* The first refresh takes the snapshot again; its dispatches suspend.
FirstRefreshStale ==
  /\ phase = "forwarded" /\ phase' = "refreshing"
  /\ UNCHANGED <<options, migrated, waiting, running, cached, flow, ghosts,
                 overlooked, saves, restarts>>

FirstRefresh ==
  /\ phase = "forwarded" /\ phase' = "refreshing"
  /\ cached' = options
  /\ UNCHANGED <<options, migrated, waiting, running, flow, ghosts,
                 overlooked, saves, restarts>>

\* add_update_listener is the last line of set-up.
Loaded ==
  /\ phase = "refreshing" /\ phase' = "loaded"
  /\ UNCHANGED <<options, migrated, waiting, running, cached, flow, ghosts,
                 overlooked, saves, restarts>>

NextReload ==
  /\ phase = "loaded" /\ waiting > 0
  /\ phase' = "unloading" /\ waiting' = waiting - 1
  /\ UNCHANGED <<options, migrated, running, cached, flow, ghosts, overlooked,
                 saves, restarts>>

Unloaded ==
  /\ phase = "unloading" /\ phase' = "down"
  /\ UNCHANGED <<options, migrated, waiting, running, cached, flow, ghosts,
                 overlooked, saves, restarts>>

Restart ==
  /\ restarts < MaxRestarts /\ restarts' = restarts + 1
  /\ phase' = "down" /\ waiting' = 0 /\ flow' = Closed
  /\ UNCHANGED <<options, migrated, running, cached, ghosts, overlooked, saves>>

-----------------------------------------------------------------------------

\* An entry just made by the config flow, or one that is to be migrated.
Entries ==
  {o \in OptionSet : ~ o.pruned /\ (o.sensors = Absent => o.position = (o.sensor # Absent))}

Init ==
  /\ migrated \in BOOLEAN
  /\ options \in {o \in Entries :
                    /\ o.sun /\ o.other = Blank.other
                    /\ IF migrated THEN o = Mirrored(o) /\ o.sensors # Absent
                                   ELSE o.sensors = Absent}
  /\ phase = "down" /\ waiting = 0
  /\ cached = options /\ running = [sun |-> options.sun, sensors |-> {}]
  /\ flow = Closed
  /\ meant = options /\ clobbered = {} /\ raw = FALSE /\ overlooked = FALSE
  /\ saves = 0 /\ restarts = 0

Next ==
  \/ SectionService \/ SetCustomPosition \/ SetOption \/ SwitchSun
  \/ OpenFlow \/ SunTrackingSection \/ CustomPositionSection \/ FlowDone
  \/ AbandonFlow
  \/ Start \/ Subscribe \/ FirstRefresh \/ Loaded \/ NextReload \/ Unloaded
  \/ Restart

Spec == Init /\ [][Next]_vars

-----------------------------------------------------------------------------
(* Properties.                                                             *)

\* Types: a slot's list is a list, whatever form it was given in.
TypeOK ==
  /\ options \in OptionSet /\ cached \in OptionSet /\ meant \in OptionSet
  /\ migrated \in BOOLEAN
  /\ phase \in {"down", "created", "forwarded", "refreshing", "loaded",
                "unloading"}
  /\ waiting \in 0..MaxSaves
  /\ running \in [sun : BOOLEAN, sensors : SUBSET Sensors]
  /\ flow \in [open : BOOLEAN, copy : OptionSet, edited : SUBSET Keys,
               raw : BOOLEAN]
  /\ clobbered \in SUBSET Keys
  /\ raw \in BOOLEAN /\ overlooked \in BOOLEAN
  /\ saves \in 0..MaxSaves /\ restarts \in 0..MaxRestarts

\* A loaded coordinator runs on the stored options: the pipeline has the
\* stored Sun Tracking and every sensor of the slot is subscribed to, however
\* saves, changes in place and reloads overlapped.  The exception is a save
\* while the entry was being set up, which wakes no listener.
OptionsInUse ==
  phase = "loaded" /\ ~ overlooked =>
    running = [sun |-> options.sun, sensors |-> SlotSensors(options)]

\* Every key holds what its latest editor wrote, except the keys that a flow
\* left open over somebody else's save has put back (clobbered).
WritesKept == \A k \in Keys \ clobbered : options[k] = meant[k]

\* Rollback: unless set_option has written the slot's keys one by one, or the
\* migration has copied the force override into it (whose own keys an older
\* release reads), the single-sensor key names the first sensor of the list,
\* and none when the list is cleared, so an older release drives the slot the
\* same way and nothing brings a cleared sensor back.
RollbackSafe ==
  migrated /\ ~ raw =>
    options.sensor = First(options.sensors)

\* A save that changes nothing but Sun Tracking does not reload a loaded
\* entry, the flags the pruning stored during set-up notwithstanding.
SunAloneInPlace ==
  [][phase = "loaded" /\ phase' = "unloading" /\ waiting = 0 /\ ~ overlooked
       => \E k \in Keys \ Runtime : options'[k] # options[k]]_vars

\* The listener's promise without the exception: not kept by the code.
NoSaveOverlooked ==
  phase = "loaded" =>
    running = [sun |-> options.sun, sensors |-> SlotSensors(options)]
=============================================================================
