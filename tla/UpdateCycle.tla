---------------------------- MODULE UpdateCycle ----------------------------
(***************************************************************************)
(* The coordinator's update cycle (coordinator.py, _async_update_data and  *)
(* the handlers it calls) with the latches of the custom-position slots    *)
(* (managers/custom_position_hysteresis.py) and the switches and buttons   *)
(* that start a cycle.                                                     *)
(*                                                                         *)
(* async_refresh is not serialised: every event starts a cycle of its own, *)
(* and a cycle suspends in two places, in the executor job that primes the *)
(* sun data and in the end-stop detour of a command.  What runs in between *)
(* is one task holding the event loop (`running`); the other tasks and the *)
(* environment wait until it suspends.                                     *)
(***************************************************************************)
EXTENDS Integers, FiniteSets

CONSTANTS
  N,            \* self.entities are the covers 1..N, in this order
  Slots,        \* the custom-position slots with a trigger
  Safety,       \* slots of CUSTOM_POSITION_SAFETY_PRIORITY
  Floors,       \* slots in min_mode: a lower bound, never the winner
  Latched,      \* slots with a release condition
  Tasks,        \* bound: cycles and handlers alive at once
  Resync,       \* resync_travel_threshold is set: commands may take a detour
  Env,          \* the events of the instance
  MaxEvents     \* bound: events per run of the instance

ASSUME CoverCount   == N \in Nat \ {0}
ASSUME SlotKinds    == Safety \cup Floors \cup Latched \subseteq Slots
ASSUME ResyncFlag   == Resync \in BOOLEAN
ASSUME EnvKinds     == Env \subseteq {"sensor", "release", "tracked", "window", "move",
                                      "expire", "button", "auto", "cover", "restart"}
ASSUME EventBound   == MaxEvents \in Nat
ASSUME TasksNamed   == "none" \notin Tasks

VARIABLES
  world,    \* what Home Assistant shows: slot triggers, sun, clock window
  flags,    \* the coordinator's flags between cycles
  prevOn,   \* self._prev_custom_position_states: the slots it holds as on
  latch,    \* CustomPositionHysteresis, its Store and the delayed save
  manual,   \* covers under a manual override
  due,      \* those whose override has run out
  result,   \* self._pipeline_result
  tasks,    \* the suspended cycles and handlers
  running,  \* the task holding the event loop, or "none"
  events,   \* how many events the instance has had
  out,      \* ghost: the command this step sent, if any
  owed,     \* ghost: slots stamped off that no cycle has listed as released
  offline,  \* ghost: safety latches dropped while restoring, their release not sent
  unseen,   \* ghost: an event no cycle has acted on
  overtaken, \* ghost: a detour has outlived an event
  reloaded  \* ghost: this coordinator was set up by a reload

vars == <<world, flags, prevOn, latch, manual, due, result, tasks, running,
          events, out, owed, offline, unseen, overtaken, reloaded>>
ghosts == <<owed, offline, unseen, overtaken, reloaded>>

-----------------------------------------------------------------------------

Covers  == 1..N
NoOut   == [cover |-> 0]
Winners == {"none", "safety", "manual", "custom", "solar", "default"}
Sources == Slots \cup {"other", "nothing"}

World == [on : SUBSET Slots, rel : SUBSET Latched, sun : BOOLEAN, open : BOOLEAN]
Flags == [change : BOOLEAN, entity : Sources, template : BOOLEAN, first : BOOLEAN,
          ready : BOOLEAN, reload : BOOLEAN, auto : BOOLEAN, restoring : BOOLEAN]
Latch == [active : SUBSET Latched, released : SUBSET Latched,
          stored : SUBSET Latched, due : BOOLEAN]

(* A task: where it is suspended (or about to go on, when it is running),  *)
(* the slots its cycle found on when it began, the position it computed    *)
(* and how it is dispatching it.                                           *)
Task == [at : {"idle", "priming", "dispatch", "detour", "settle", "button"},
         prev : SUBSET Slots, goal : Winners \cup {"default height"},
         why : {"none", "state", "released", "manual_override_cleared",
                "manual_reset", "startup", "auto_control_off"},
         force : BOOLEAN, safety : BOOLEAN, next : 1..N+1,
         targets : SUBSET Covers, resetting : SUBSET Covers]

Idle == [at |-> "idle", prev |-> {}, goal |-> "none", why |-> "none",
         force |-> FALSE, safety |-> FALSE, next |-> 1, targets |-> {},
         resetting |-> {}]
Cycle(reset) == [Idle EXCEPT !.at = "priming", !.prev = prevOn, !.resetting = reset]

Fresh(reload, auto) == [change |-> FALSE, entity |-> "nothing", template |-> FALSE,
                  first |-> FALSE, ready |-> FALSE, reload |-> reload,
                  auto |-> auto, restoring |-> TRUE]
Handled(f)    == [f EXCEPT !.change = FALSE, !.entity = "nothing", !.template = FALSE]

-----------------------------------------------------------------------------
(* The latches.                                                            *)

(* evaluate(): activation wins, a held slot stays on until its release     *)
(* condition is true.  A change of the table schedules a delayed save.     *)
LatchOn(s)   == s \in world.on \/ (s \in latch.active /\ s \notin world.rel)
Tabled ==
  LET on == {s \in Latched : LatchOn(s)}
  IN  [latch EXCEPT !.active = on, !.released = (@ \ on) \cup (latch.active \ on)]
Evaluate == [Tabled EXCEPT !.due = @ \/ Tabled.active # latch.active]
Popped(l)    == [l EXCEPT !.released = {}]

(* read_custom_position_sensors: the slots that are on.                    *)
SlotsOn == Evaluate.active \cup (world.on \ Latched)

(* The winner of the pipeline among the handlers the cycle tells apart.    *)
Winner(on, overridden) ==
  IF (on \cap Safety) \ Floors # {} THEN "safety"
  ELSE IF overridden # {}           THEN "manual"
  ELSE IF on \ Floors # {}          THEN "custom"
  ELSE IF world.sun                 THEN "solar"
  ELSE "default"
BypassesAutoControl(w) == w \in {"safety", "custom"}

-----------------------------------------------------------------------------
Init ==
  /\ world \in World
  /\ flags = Fresh(FALSE, TRUE)
  /\ prevOn = {}
  /\ \E s \in SUBSET Latched :
       latch = [active |-> s, released |-> {}, stored |-> s, due |-> FALSE]
  /\ manual = {} /\ due = {}
  /\ result = "none"
  /\ tasks = [k \in Tasks |-> Idle]
  /\ running = "none"
  /\ events = 0
  /\ out = NoOut
  /\ owed = {} /\ offline = {} /\ unseen = FALSE /\ overtaken = FALSE /\ reloaded = FALSE

(* The instances bound the events; an event finds the loop free.           *)
Event(kind) ==
  /\ running = "none" /\ kind \in Env /\ events < MaxEvents
  /\ events' = events + 1
  /\ out' = NoOut

Start(k, task) == /\ tasks[k].at = "idle"
                  /\ tasks' = [tasks EXCEPT ![k] = task]
Goes(k, task)  == tasks' = [tasks EXCEPT ![k] = task]

-----------------------------------------------------------------------------
(* What starts a cycle.                                                    *)

Flagged(f, source, template) ==
  [f EXCEPT !.change = TRUE, !.entity = source, !.template = @ \/ template]

(* async_check_entity_state_change: a slot's sensor, or any other entity;  *)
(* async_check_custom_position_template_change: a release condition.       *)
SensorFlips(k, s) ==
  /\ Event("sensor") /\ Start(k, Cycle({}))
  /\ world' = [world EXCEPT !.on = IF s \in @ THEN @ \ {s} ELSE @ \cup {s}]
  /\ flags' = Flagged(flags, s, FALSE)
  /\ unseen' = TRUE
  /\ UNCHANGED <<prevOn, latch, manual, due, result, running, owed, offline,
                 overtaken, reloaded>>

ReleaseFlips(k, s) ==
  /\ Event("release") /\ Start(k, Cycle({}))
  /\ world' = [world EXCEPT !.rel = IF s \in @ THEN @ \ {s} ELSE @ \cup {s}]
  /\ flags' = Flagged(flags, "nothing", TRUE)
  /\ unseen' = TRUE
  /\ UNCHANGED <<prevOn, latch, manual, due, result, running, owed, offline,
                 overtaken, reloaded>>

EntityChanges(k) ==
  /\ Event("tracked") /\ Start(k, Cycle({}))
  /\ world' = [world EXCEPT !.sun = ~@]
  /\ flags' = Flagged(flags, "other", FALSE)
  /\ unseen' = TRUE
  /\ UNCHANGED <<prevOn, latch, manual, due, result, running, owed, offline,
                 overtaken, reloaded>>

(* The clock passes the start or the end of the window; the opening is     *)
(* noticed by the minute tick (_on_window_open).                           *)
WindowCloses ==
  /\ Event("window") /\ world.open
  /\ world' = [world EXCEPT !.open = FALSE]
  /\ UNCHANGED <<flags, prevOn, latch, manual, due, result, tasks, running, ghosts>>

OnWindowOpen(k) ==
  /\ Event("window") /\ ~world.open /\ Start(k, Cycle({}))
  /\ world' = [world EXCEPT !.open = TRUE]
  /\ flags' = [flags EXCEPT !.change = TRUE]
  /\ unseen' = TRUE
  /\ UNCHANGED <<prevOn, latch, manual, due, result, running, owed, offline,
                 overtaken, reloaded>>

(* A cover event, a restored switch or a daytime-gate wake: a refresh that *)
(* flags nothing.                                                          *)
PlainRefresh(k) ==
  /\ Event("cover") /\ Start(k, Cycle({}))
  /\ UNCHANGED <<world, flags, prevOn, latch, manual, due, result, running, ghosts>>

(* The user takes a cover over (the detection is OverrideDetection's); an  *)
(* override runs out.                                                      *)
UserMoves(c) ==
  /\ Event("move") /\ c \notin manual
  /\ manual' = manual \cup {c}
  /\ UNCHANGED <<world, flags, prevOn, latch, due, result, tasks, running, ghosts>>

OverrideRunsOut(c) ==
  /\ Event("expire") /\ c \in manual \ due
  /\ due' = due \cup {c}
  /\ UNCHANGED <<world, flags, prevOn, latch, manual, result, tasks, running, ghosts>>

(* The reset button: async_press up to its refresh.                        *)
PressReset(k) ==
  /\ Event("button") /\ manual # {} /\ Start(k, Cycle(manual))
  /\ manual' = {} /\ due' = {}
  /\ UNCHANGED <<world, flags, prevOn, latch, result, running, ghosts>>

(* The Automatic Control switch: async_turn_on, async_turn_off.            *)
TurnOn(k) ==
  /\ Event("auto") /\ ~flags.auto /\ Start(k, Cycle({}))
  /\ flags' = [flags EXCEPT !.auto = TRUE, !.change = TRUE]
  /\ unseen' = TRUE
  /\ UNCHANGED <<world, prevOn, latch, manual, due, result, running, owed, offline,
                 overtaken, reloaded>>

TurnOffClears(k, returnToDefault) ==      \* mutant: it clears state_change as well
  /\ Event("auto") /\ flags.auto
  /\ flags' = [flags EXCEPT !.auto = FALSE, !.change = FALSE]
  /\ manual' = {} /\ due' = {}
  /\ Start(k, Cycle({}))
  /\ UNCHANGED <<world, prevOn, latch, result, running, ghosts>>
TurnOff(k, returnToDefault) ==
  /\ Event("auto") /\ flags.auto
  /\ flags' = [flags EXCEPT !.auto = FALSE]
  /\ manual' = {} /\ due' = {}
  /\ IF returnToDefault
       THEN /\ Start(k, [Idle EXCEPT !.at = "dispatch", !.goal = "default height",
                                     !.why = "auto_control_off", !.force = TRUE,
                                     !.targets = Covers])
            /\ running' = k
       ELSE Start(k, Cycle({})) /\ UNCHANGED running
  /\ UNCHANGED <<world, prevOn, latch, result, ghosts>>

-----------------------------------------------------------------------------
(* The cycle, from the executor job to its first dispatch.                 *)

(* The slots this cycle lists as released: those its predecessor held on,  *)
(* and the latches that dropped, once the platforms have restored.         *)
ReleasedLatched(k, on, ready) ==  \* mutant: leaves the edge to the latches
  IF ready THEN Evaluate.released ELSE {}
Released(k, on, ready) ==
  (tasks[k].prev \ on) \cup (IF ready THEN Evaluate.released ELSE {})
ReadyAlways(f) == TRUE            \* mutant: the first cycle pops the latches
ReadyAt(f)     == f.ready \/ f.first

Dispatching(task, goal, why, force, safety, targets) ==
  [task EXCEPT !.at = "dispatch", !.goal = goal, !.why = why, !.force = force,
               !.safety = safety, !.next = 1, !.targets = targets]

(* async_handle_state_change: is the trigger of this refresh a slot that   *)
(* was released, or one that now wins?                                     *)
TriggerReleased(w, released) ==
  /\ w # "manual"
  /\ \/ flags.template /\ released # {}
     \/ flags.entity \in released
SlotTriggered(w) == w \in {"safety", "custom"} /\ (flags.template \/ flags.entity \in Slots)

OutsideWindow(w, released) ==
  ~world.open /\ w # "safety" /\ released \cap Safety = {}
ChangeFlag(released) ==
  flags.change \/ (flags.first /\ released \cap Safety # {})

(* _async_update_data, resumed.  `raised`: a floor lifted the winner.      *)
Compute(k, raised) ==
  LET freed    == manual \cap due
      ready    == ReadyAt(flags)
      on       == SlotsOn
      w        == Winner(on, manual \ due)
      released == Released(k, on, ready)
      change   == ChangeFlag(released)
      trigger  == TriggerReleased(w, released)
      task     == [tasks[k] EXCEPT !.at = "settle", !.prev = {}, !.goal = w]
      forced   == \/ w = "safety" \/ SlotTriggered(w) \/ trigger \/ raised
                  \/ released \cap Safety # {}
  IN
  /\ running = "none" /\ tasks[k].at = "priming"
  /\ raised => on \cap Floors # {}
  /\ manual' = manual \ due /\ due' = {}
  /\ latch' = IF ready THEN Popped(Evaluate) ELSE Evaluate
  /\ prevOn' = on
  /\ result' = w
  /\ running' = k
  /\ \/ /\ change /\ OutsideWindow(w, released)
        /\ flags' = [Handled(flags) EXCEPT !.ready = ready]
        /\ Goes(k, task)
     \/ /\ change /\ ~OutsideWindow(w, released)
        /\ flags' = [flags EXCEPT !.ready = ready, !.change = TRUE]
        /\ Goes(k, Dispatching(task, w, IF trigger \/ released \cap Safety # {}
                                        THEN "released" ELSE "state",
                               forced, w = "safety", Covers))
     \/ /\ ~change
        /\ flags' = [flags EXCEPT !.ready = ready]
        /\ Goes(k, IF freed # {} /\ world.open /\ flags.auto
                   THEN Dispatching(task, w, "manual_override_cleared", TRUE, FALSE, Covers)
                   ELSE task)
  /\ out' = NoOut
  /\ owed' = ((owed \cup (prevOn \ on)) \ released) \ on
  /\ offline' = (offline \cup (IF flags.restoring THEN (latch.active \ on) \cap Safety
                               ELSE {}))
                 \ (on \cup (IF change /\ ~OutsideWindow(w, released) THEN released ELSE {}))
  /\ unseen' = (unseen /\ ~change)
  /\ overtaken' = (overtaken /\ unseen')
  /\ UNCHANGED <<world, events, reloaded>>

-----------------------------------------------------------------------------
(* The dispatch loops: async_handle_state_change, the resend after an      *)
(* override, the startup loop and the return to the default height.        *)

Message(k) == [cover |-> tasks[k].next, why |-> tasks[k].why, goal |-> tasks[k].goal,
               safety |-> tasks[k].safety, held |-> tasks[k].next \in manual]
Advanced(k) == [tasks[k] EXCEPT !.at = "dispatch", !.next = @ + 1]

Addressed(k) ==
  /\ tasks[k].next \in tasks[k].targets
  /\ ~(tasks[k].why = "startup" /\ tasks[k].next \in manual)

(* The gates of apply_position that are the coordinator's: automatic       *)
(* control and the manual override.                                        *)
GatesOpen(k) ==
  /\ \/ tasks[k].safety \/ flags.auto \/ BypassesAutoControl(result)
     \/ tasks[k].why = "auto_control_off"
  /\ tasks[k].force \/ tasks[k].next \notin manual

(* The cover is already there, moved too little or too recently, or is     *)
(* gated.                                                                  *)
SkipCover(k) ==
  /\ running = k /\ tasks[k].at = "dispatch" /\ tasks[k].next \in Covers
  /\ Goes(k, Advanced(k))
  /\ out' = NoOut
  /\ UNCHANGED <<world, flags, prevOn, latch, manual, due, result, running, events, ghosts>>

SendCover(k) ==
  /\ running = k /\ tasks[k].at = "dispatch" /\ tasks[k].next \in Covers
  /\ Addressed(k) /\ GatesOpen(k)
  /\ Goes(k, Advanced(k))
  /\ out' = Message(k)
  /\ UNCHANGED <<world, flags, prevOn, latch, manual, due, result, running, events, ghosts>>

TakeDetour(k) ==
  /\ Resync
  /\ running = k /\ tasks[k].at = "dispatch" /\ tasks[k].next \in Covers
  /\ Addressed(k) /\ GatesOpen(k)
  /\ Goes(k, [tasks[k] EXCEPT !.at = "detour"])
  /\ running' = "none"
  /\ out' = Message(k)
  /\ UNCHANGED <<world, flags, prevOn, latch, manual, due, result, events, ghosts>>

EndDetour(k) ==
  /\ running = "none" /\ tasks[k].at = "detour"
  /\ Goes(k, Advanced(k))
  /\ running' = k
  /\ out' = Message(k)
  /\ overtaken' = (overtaken \/ unseen)
  /\ UNCHANGED <<world, flags, prevOn, latch, manual, due, result, events, owed, offline,
                 unseen, reloaded>>

-----------------------------------------------------------------------------
(* The end of a loop and of a cycle.                                       *)

Resting(k) == tasks[k].resetting # {}

(* What follows a cycle: the rest of async_press, or nothing.              *)
AfterCycle(k) ==
  /\ Goes(k, IF Resting(k) /\ world.open /\ flags.auto
             THEN Dispatching([tasks[k] EXCEPT !.resetting = {}], result, "manual_reset",
                              TRUE, FALSE, tasks[k].resetting)
             ELSE Idle)
  /\ running' = IF Resting(k) /\ world.open /\ flags.auto THEN k ELSE "none"

StartedAgain(f) == [f EXCEPT !.reload = FALSE]     \* mutant: first_refresh stays
Started(f)      == [f EXCEPT !.first = FALSE, !.reload = FALSE]

EndDispatch(k) ==
  /\ running = k /\ tasks[k].at = "dispatch" /\ tasks[k].next = N + 1
  /\ \/ /\ tasks[k].why \in {"state", "released"}
        /\ flags' = Handled(flags)
        /\ Goes(k, [tasks[k] EXCEPT !.at = "settle"])
        /\ UNCHANGED running
     \/ /\ tasks[k].why = "manual_override_cleared"
        /\ Goes(k, [tasks[k] EXCEPT !.at = "settle"])
        /\ UNCHANGED <<flags, running>>
     \/ /\ tasks[k].why = "startup"
        /\ flags' = Started(flags)
        /\ AfterCycle(k)
     \/ /\ tasks[k].why = "auto_control_off"
        /\ Goes(k, Cycle({}))
        /\ running' = "none" /\ UNCHANGED flags
     \/ /\ tasks[k].why = "manual_reset"
        /\ Goes(k, Idle)
        /\ running' = "none" /\ UNCHANGED flags
  /\ out' = NoOut
  /\ UNCHANGED <<world, prevOn, latch, manual, due, result, events, ghosts>>

(* async_handle_first_refresh, and the end of a cycle that is not first.   *)
SkipsStartup == result # "safety" /\ (~world.open \/ flags.reload)

Settle(k) ==
  /\ running = k /\ tasks[k].at = "settle"
  /\ \/ /\ ~flags.first
        /\ AfterCycle(k) /\ UNCHANGED flags
     \/ /\ flags.first /\ SkipsStartup
        /\ flags' = [flags EXCEPT !.first = FALSE, !.reload = @ /\ ~world.open]
        /\ AfterCycle(k)
     \/ /\ flags.first /\ ~SkipsStartup
        /\ Goes(k, Dispatching(tasks[k], tasks[k].goal, "startup", result = "safety",
                               result = "safety", Covers))
        /\ UNCHANGED <<flags, running>>
  /\ out' = NoOut
  /\ UNCHANGED <<world, prevOn, latch, manual, due, result, events, ghosts>>

-----------------------------------------------------------------------------
(* Setup, restarts and the delayed save of the latches.                    *)

(* async_config_entry_first_refresh, once the platforms have restored.     *)
FirstRefresh(k) ==
  /\ running = "none" /\ flags.restoring /\ Start(k, Cycle({}))
  /\ flags' = [flags EXCEPT !.restoring = FALSE, !.first = TRUE]
  /\ out' = NoOut
  /\ UNCHANGED <<world, prevOn, latch, manual, due, result, running, events, ghosts>>

Save ==
  /\ running = "none" /\ latch.due
  /\ latch' = [latch EXCEPT !.stored = latch.active, !.due = FALSE]
  /\ out' = NoOut
  /\ UNCHANGED <<world, flags, prevOn, manual, due, result, tasks, running, events, ghosts>>

Loaded(stored) == [active |-> stored, released |-> {}, stored |-> stored, due |-> FALSE]

(* A new coordinator.  The manual overrides and the switches come back     *)
(* with the entities.                                                      *)
Boot(reload, stored) ==
  /\ flags' = Fresh(reload, flags.auto)
  /\ latch' = Loaded(stored)
  /\ prevOn' = {} /\ result' = "none"
  /\ tasks' = [k \in Tasks |-> Idle]
  /\ owed' = {} /\ offline' = {} /\ unseen' = FALSE /\ overtaken' = FALSE
  /\ reloaded' = reload
  /\ UNCHANGED <<manual, due, running>>

Crash ==
  /\ Event("restart") /\ Boot(FALSE, latch.stored)
  /\ \E on \in SUBSET Slots : world' = [world EXCEPT !.on = on]

(* async_unload_entry and async_setup_entry, with nothing in flight.       *)
Reload ==
  /\ Event("restart") /\ \A k \in Tasks : tasks[k].at = "idle"
  /\ ~flags.restoring
  /\ Boot(TRUE, latch.active)
  /\ UNCHANGED world

-----------------------------------------------------------------------------
Advance(k) ==
  \/ \E raised \in BOOLEAN : Compute(k, raised)
  \/ SkipCover(k) \/ SendCover(k) \/ TakeDetour(k) \/ EndDetour(k)
  \/ EndDispatch(k) \/ Settle(k)

Triggers(k) ==
  \/ \E s \in Slots : SensorFlips(k, s)
  \/ \E s \in Latched : ReleaseFlips(k, s)
  \/ EntityChanges(k) \/ OnWindowOpen(k) \/ PlainRefresh(k) \/ PressReset(k)
  \/ TurnOn(k) \/ \E b \in BOOLEAN : TurnOff(k, b)
  \/ FirstRefresh(k)

Next ==
  \/ \E k \in Tasks : Advance(k) \/ Triggers(k)
  \/ \E c \in Covers : UserMoves(c) \/ OverrideRunsOut(c)
  \/ WindowCloses \/ Save \/ Crash \/ Reload

Spec == Init /\ [][Next]_vars

-----------------------------------------------------------------------------
(* Properties.                                                             *)

TypeOK ==
  /\ world \in World /\ flags \in Flags /\ latch \in Latch
  /\ prevOn \subseteq Slots
  /\ manual \subseteq Covers /\ due \subseteq manual
  /\ result \in Winners
  /\ tasks \in [Tasks -> Task]
  /\ running \in Tasks \cup {"none"}
  /\ events \in 0..MaxEvents
  /\ owed \subseteq Slots /\ offline \subseteq Latched
  /\ unseen \in BOOLEAN /\ overtaken \in BOOLEAN /\ reloaded \in BOOLEAN

(* Overlapping cycles never lose the release edge of a slot: one that a    *)
(* cycle found off again without listing it as released is still in the    *)
(* map some waiting cycle took when it began, so that cycle lists it.      *)
ReleaseNoticed ==
  owed \subseteq UNION {tasks[k].prev : k \in {j \in Tasks : tasks[j].at = "priming"}}

(* A safety slot whose latch dropped while the platforms were restoring    *)
(* stays listed as released until a cycle dispatches its release, whatever *)
(* refreshes the restoring entities and the events of that time start.     *)
OfflineReleasePending == offline \subseteq latch.released

(* What the latches would be after a crash differs from what they are only *)
(* while a save is scheduled.                                              *)
CrashLosesOnlyScheduled == latch.stored # latch.active => latch.due

(* An event no cycle has acted on is still flagged, unless an older cycle  *)
(* was in an end-stop detour when it came and cleared the flag on its      *)
(* return.                                                                 *)
EventStaysFlagged == unseen => flags.change \/ overtaken

(* A coordinator set up by a reload moves no cover from a startup loop,    *)
(* however many cycles overlap its first refresh and whatever they find,   *)
(* unless for safety.                                                      *)
ReloadQuiet ==
  reloaded /\ out.cover # 0 /\ out.why = "startup" => out.safety

(* The resend after an override ran out spares the covers another override *)
(* still holds.                                                            *)
ResendSparesHeld ==
  out.cover # 0 /\ out.why = "manual_override_cleared" => ~out.held
=============================================================================
