# Adaptive Pergola: models and proofs

TLA+ models of `custom_components/adaptive_pergola`, the Home Assistant
integration that computes louvre positions and drives the covers of a pergola,
with TLC instances and machine-checked proofs. Paths below are relative to
`src/custom_components/adaptive_pergola/`.

    tlasany M.tla                                        parse
    tlc -config CoverCommandDetours.cfg MCCoverCommand   model-check
    tlapm EntitiesProofs.tla                             check the proofs

`PROJECT.json` lists components, runs, mutants, hazards and theorems, and maps
every definition to the source lines it stands for. Definitions marked
*mutant* in the modules are the deliberate bugs each property is tried on; no
specification uses them.

## The system

The program is one asyncio event loop. It is never interrupted between two
`await`s that really suspend, so the hard part is what happens *at* them: an
end-stop detour that polls for minutes, the blocking stops of a shutdown, a
timer's sleep, a refresh awaited by a timer's callback, a dispatch loop over
several covers, an executor job, a flow its user leaves open. `async_refresh` is
not serialised: update cycles overlap. Little survives a restart. Covers are
slow, may report late, wrongly or not at all, and may be moved by hand at any
moment.

    sensors, sun, templates ──> coordinator update cycle ──> decision pipeline
                                    │        ▲                     │ position
       timers (motion, weather) ────┘        │ override set        ▼
       cover state events ──> classifier ──> manual override   cover command
                                                  service ──> Home Assistant
       master switch ── stops, clears records ────┘               covers
       options flow, services, switches ──> config entry ──> reload, or in place

| Component | State | Operations | What is hard | What makes it correct | Status |
|---|---|---|---|---|---|
| **Cover command service** (`managers/cover_command/`) | a record per cover (target, wait flag, times, retries, given up, safety), the enable generation, copies of the gates | `apply_position` with its detour, reconciliation, `stop_in_flight`, clean-ups | a call parked in a detour finds the world changed; retries rewrite the record they come from; stops suspend while holding a record | nothing moves after a disable; dropped targets stay dropped; every target settles or is given up | partly: `CoverCommand` |
| **Master switch and gate flags** (`coordinator.py`, `switch.py`) | `enabled_toggle`, `automatic_control`, the copies in the service | `async_set_integration_enabled`, the toggles, the sync at the end of a cycle | the clean-up runs after suspended stops; copies are stale between an edge and the next cycle | a disable drains | modelled: `CoverCommand`, `UpdateCycle` |
| **Timeout controller, motion, weather** (`managers/common/timeout_controller.py`, `managers/motion.py`, `managers/weather.py`) | a task handle and a flag per manager | start, cancel, expiry with re-check, reconcile, start-up recovery | expiry races with events; a cancel that reaches a running callback; events that never arrive | no early release; no override that never ends | modelled: `Timeouts` refining `HoldOff`; the readings in `Readings` |
| **Classifier and grace periods** (`managers/cover_command/state_classifier.py`, `managers/grace_period.py`) | a grace timer per cover, the start-up grace | decides what a report does to the wait flag | early reports, repeated reports, covers that stall | ends every wait; tells our move from a user's | partly: `OverrideDetection` |
| **Manual override detection** (`managers/manual_override/`, the queue in `coordinator.py`) | the override set with its times, the pending reports, `_target_just_reached` | classify on arrival, judge on drain, reset | judgement comes later than arrival; a mark outlives its report | a user's move is seen and respected until its end | partly: `OverrideDetection` |
| **Time window, graceful source, transitions** (`managers/time_window.py`, `managers/common/graceful_source.py`, `state/window_transition_tracker.py`) | the last verdict and its hold, the previous window and sunset states | observe, resolve, edges, one wake | edges consumed before they are acted on; a source that goes silent | a held verdict ends; the night position is reached | modelled: `Window` |
| **Custom position hysteresis** (`managers/custom_position_hysteresis.py`) | a latch per slot, the released set, a delayed save | evaluate, pop, load, save | a restart between change and save; an edge popped and not used | a release stays pending until it is used | partly: `UpdateCycle` |
| **Decision pipeline** (`pipeline/`, `state/`) | none | handlers by priority, floors, limits, the gates of a send | priorities, floors and force rules cross | safety and floors reach the cover; an override is kept | partly: `Decision`, `Readings`, `Slats` |
| **Coordinator update cycle** (`coordinator.py`) | `state_change`, `first_refresh`, the previous trigger map, the queue | `_async_update_data` and its handlers | cycles overlap: a parked one resumes after a newer one | no event and no edge is used up unseen | partly: `UpdateCycle` |
| **Solar geometry and forecast** (`engine/`, `sun.py`, `forecast.py`) | a day's sun table, shared by all entries; the published strip | slat angle; samples and events | a cache read around midnight, overlapping jobs | the strip is what the live cycle will do | partly: `Slats`, `Forecast` |
| **Cover types** (`cover_types/`) | none | axis and capability policy | – | – | partly: `Slats`, `Readings`, `CoverCommand` |
| **Configuration, options, migrations** (`config_flow.py`, `config_fields.py`, `services/options_service.py`, `migrations.py`, `__init__.py`) | the entry's options, an open flow's copy, the coordinator's cache of them | sections, services, switches, listener, reload, migration | long-lived copies, saves during a set-up, rules kept by two surfaces | a coordinator runs on what is stored; a visit changes what it shows only | partly: `Options`, `Forms` |
| **Entities and services** (`cover.py`, `button.py`, `switch.py`, `sensor.py`, `services/`) | proxies with a moving indicator; service calls under way | positioning, stop, re-sync, enable, disable, emergency stop | calls overlap a disable and an enable; writes are filtered by signatures | a stop reaches every cover; what is shown is current | partly: `Entities`, `Proxy` |
| **Diagnostics** (`diagnostics/`) | an event buffer | reporting | – | – | not modelled |

## Modules

A module models a component at the grain of its suspension points: a step is
what runs between two of them. `MC*` modules hold the values of one instance.

| Module | Role |
|---|---|
| `CoverCommand` | the command service with the master switch, the gates and the override edge |
| `HoldOff` | abstract specification of a debounced flag |
| `Timeouts` | timeout controller, motion and weather managers; implements `HoldOff` twice |
| `UpdateCycle` | overlapping update cycles, latches, flags, dispatch loops, first refresh, reload, restart |
| `OverrideDetection` | from a cover's reports to its manual override |
| `Window` | window, daytime gate, both edges, the night position |
| `Slats` | the slat pose for a sun, steps, limits, look ahead (operators) |
| `Readings` | what a cycle makes of sensors and templates (operators) |
| `Decision` | the pipeline over `Slats` and `Readings`, and what reaches the covers |
| `Options` | saves, flows, set-ups and reloads of one entry |
| `Forms` | conversions, merges and cross-field rules of the forms and services |
| `Proxy` | the proxy cover (operators) |
| `Entities` | entries, services and calls around `Proxy` |
| `Forecast` | the shared sun table, overlapping jobs, the strip and its events |
| `CoverCommandProofs`, `TimeoutsProofs`, `UpdateCycleProofs`, `OverrideDetectionProofs`, `DecisionProofs`, `EntitiesProofs` | theorems about the module of that name |
| `WindowProofs`, `OptionsProofs` | theorems about `Window` and `Forecast`, about `Options` and `Forms` |

`Decision` composes `Slats` and `Readings`, `Entities` extends `Proxy`, and
`Timeouts` instantiates `HoldOff` twice. The other modules meet at narrow interfaces, each of which
one module takes as an input of the other: `UpdateCycle` sends commands whose
fate is `CoverCommand`'s; `OverrideDetection` keeps of the command record
only target, wait flag and clock; `Entities` reduces the command service to its
gates for a user's command; the verdicts of `Timeouts` and `Window` are flags in
`Decision`.

### CoverCommand

`st[c]` is the record of a
cover, `NoEntry` standing for an absent or fresh one; `detours` are the
`apply_position` calls parked in `wait_for_position`, with the generation they
captured; `shutdowns` are the `async_set_integration_enabled(False)` calls
parked in a blocking stop, with the covers they have yet to visit and whether
the record they hold is still the stored one. `svc` are the flags
copied at the end of an update cycle, kept apart from `automatic` and
`override`, their originals. The record's two time stamps become one `clock`
(`none`, `recent`, `late` against the transit timeout).

`ApplyPosition` is a call by one of five origins, which differ in the gates they
bypass: `tracking` (pipeline result), `safety` (weather and safety-priority
slots), `clear` (an override has ended), `button`, `user` (proxy cover and
service, which also mark the override). `Reconcile` is one iteration of the
pass; iterations do not suspend and touch one record each, so a pass is a
sequence of them. `Disable` runs its loop of stops up to the first that
suspends; `StopReturns` resumes it and, at the end, runs the clean-up.
`ManualMove` and `UserStop` pop the record on the edge into an override.
`CheckTargetReached`, `ClearWaiting`, `RecordProgress` are what the classifier
may do to a record; here it may do them at any time.

Two ghosts carry the properties: `born[c]` remembers for the recorded
target whether a safety command made it and which events have since revoked it;
`out` is the service call of the step just taken.

Abstractions. The delta, time and arrival-band gates may refuse a command at
any moment; a refusal changes nothing. Only the movement counter of the detour
is kept, because travel distance moves in lockstep with it and serves the same
test. `gave_up` is set and reset but never read by the code, which compares
the retry count instead: the model has both. The policy hooks of the only cover
type do nothing, and `send_my_position` has no caller.

### Timeouts and HoldOff

`timer[m]` is a `TimeoutController`: `handle` says that `_task` is set, `phase`
where its live task is, and `unwinding` that a task cancelled inside its callback
has not yet run its `finally`. The docstring says that a cancel does nothing once
the sleep is over; the code cancels the task wherever it is, the refresh
awaited by its callback included, and the model follows the code. A state change
and the handler that re-reads the live sources are one step, for Home Assistant
runs such handlers eagerly. `signal[m]` is the verdict of all sources of a
manager together, `flag[m]` the override it holds. `CycleRuns` is what every
update cycle does to the weather override before its pipeline runs: recovery on
the first refresh, reconciliation on each. `Restart` keeps only the switch. Two
ghosts: `quiet[m]` counts ticks without a signal; `lost` records why the end of
the last motion may have gone unnoticed, a source removed while active or a
disable.

`HoldOff` is what the readers of such a flag rely on: it is up whenever the signal is; it
comes down only after the signal has been quiet for `Delay`; while the owner
starts up it may be either, and start-up ends with the flag up if the signal is.
For motion, *held* means that automatic positioning is not suspended
(`~flag["motion"]`) and the delay is `MotionTimeout`; start-up ends with
`_check_initial_motion_state`. For weather, *held* is the override and the delay
is 0, for the code does not keep more (see the divergences below); start-up ends with
the first refresh.

### UpdateCycle

`tasks` are the cycles and handlers alive at once and `running` the one that holds
the loop. A cycle suspends while it primes the sun data (`priming`) and in a detour
(`detour`); `Compute` is everything between the two: the latches
(`Evaluate`), the release edges against the map it took when it began, the flags,
the winner; then `SendCover`, `SkipCover`, `TakeDetour` and `EndDetour` walk one
dispatch loop, whose `why` tells the five of them apart (`state`,
`released`, `manual_override_cleared`, `startup`, `auto_control_off`), and
`EndDispatch`, `Settle` what follows. `SensorFlips`, `ReleaseFlips`,
`EntityChanges`, `OnWindowOpen`, `PlainRefresh`, `PressReset`, `TurnOn` and
`TurnOff` start a task each; `Crash` and `Reload` boot a new coordinator from the
stored latches, `FirstRefresh` and the refreshes of restoring entities race.
The winner of the pipeline is one of six kinds; its heights are
`Decision`'s. Ghosts: `owed`, `offline`, `unseen`, `overtaken`, `reloaded`
remember what a property needs of the past.

### OverrideDetection

One cover, because the managers keep everything per cover. `motor` is the cover itself, `shown` its
state, `rec` what the classifier needs of the command record. `CoverReports`
runs `Classify` at once and queues the report; `Resume` is the part of an update cycle that
drains the queue, with its early returns; `Judge` takes the
drained reports one at a time through the detector, `MovedByDelta` or
`MovedAfterWindow`. All paths that engage an override are there: detector,
press of stop, wall switch, command of the user, with the reset by age and by
button. Covers may report the target early (within the grace period), repeat
themselves, fall silent, be moved by hand or from another interface. The age of a
set override is counted from its judgement.
Ghosts: `excused`, `stale`, `hand` are the exceptions of the properties. `Threshold` is what
the detector compares with: the option, at least 3, and at most the tolerance when covers are not matched to positions. Nothing
relates it to `Tolerance` otherwise: a cover may count as arrived and be farther off than the threshold. The mark left by the arrival
(`Spared`) keeps its report from being judged; a further report from there is judged, and `excused` remembers it. The check of a second axis and the suppression
by the primary one return nothing for every cover type
(`cover_types/base.py:293`, `:324`) and are left out; both strategies are
modelled, the run and two theorems use `delta`, the default.

### Window

A day is `Day` ticks; the minute check runs once per tick in two steps, since it awaits
a cycle in between (`CheckTransition`, `CheckSunset`). `hold` is the `GracefulSource`, `wake` the single
scheduled refresh at the end of a hold, re-armed by every `Cycle`. `OnWindowClosed`
clears the daytime targets if the return-to-default option is on; `SunsetEdge`
is the night position's one command, which automatic control and the
time gate may refuse. Gate sensors and clock
entities come and go, options are edited, Home Assistant restarts.

### Decision, Slats, Readings

`Decision` runs a cycle without interruption over a snapshot: the handlers in
the order of their configured priorities, floors, limits and steps, the value
sent, the five reasons to force it and the gates of `apply_position`; then reset
and the user's own command. A cover is at once where it is sent. `Slats` has the
choice of the pose in whole degrees; the profile and blocking angles that the
trigonometry yields are part of each sun's record. `Readings` has the sensors:
`Silent` is a missing or unavailable state, `Garbled` one that is no number; of
several severe-weather sensors one stands for all. The climate handler is left out:
this roof's policy bars it from positioning (`climate_controls_position` is False).
`Seen` is what the snapshot makes of the raw flags, `Goal` where a slot wants its
cover; the mean position counts the points below each cover's, so that it needs no order
on the covers. `OptionsOK` and `Roofs` say which values the forms let through.

### Options and Forms

`Options` keeps one entry's stored options (sun tracking, which applies in place; any other key;
the two forms of a slot's sensors; a pruning flag), the coordinator's copy,
and how far set-up or unload has come. A save and the
listener it wakes are one step, for Home Assistant starts listeners eagerly; services
reach loaded entries only. A flow takes its copy when it is opened and writes the
whole of it when it is done. The slot is any of the five: the migration may copy the force override into it
(`ForceMerged`, slot 5), which writes the list and not the single key.

`Forms` takes a section, a service call or a migration as one step and models
what each stores: sun window (two azimuths shown, two widths stored), unit
conversions with their rounding, optional fields and the list that clears them,
clamps, and the rules between fields, over representative keys. The create flow
is modelled as far as it is reachable, up to the position step.

### Entities and Proxy

`life` is the state of each entry; the services are registered by the first set-up
and removed with the last loaded entry. `calls` are the service calls under
way: a user's command in a detour, a shutdown in a stop, a
re-sync between its two legs. `ShutdownBegins` closes every gate and collects what
the first entry has to stop; `ShutdownStops` is one stop answered or failed;
`ShutdownEntryEnds` is the `finally` of one entry and goes on to the next, as no
suspension lies between. `Proxy` has the indicator and the three filters by which a
proxy decides whether to write its state.
Assumptions: an entry is not unloaded while a call works on it; a cover that
acts on a command has left its start before a re-sync's wait runs out; a stop takes effect
when it is answered. A service's filter by entity is left out: calls concern
whole entries.

### Forecast

Times lie on a grid of the day. `Look`, `Key` and `Fill` are the three accesses
of a job to the shared cache, with the date read again for the key; a job looks the
table up four times (`Reads`) and takes sunrise and sunset with the last, and `Publish` hands over the strip. `Live` restates the decision
of a live cycle for the same options. Daylight-saving changes are left out and a job is
shorter than a day.

## Runs

| Run | Instance | Shows |
|---|---|---|
| `detours` | one cover, every move by an end stop, kill switch thrown twice, overrides, presses of stop, outages; 767,192 states | a waiting record can always expire; nothing moves after a disable (`WaitingCanExpire`, `KillSwitchFinal`) |
| `plain` | one cover without detours; tracking, safety and user commands; window, mode, override, kill switch; 912,000 states | dropped targets are never resent; the safety flag is truthful (`StaleNeverResent`, `SafetyFlagTruthful`) |
| `settle` | one cover with detours, two overlapping shutdowns, `FairSpec`; 50,927 states | every target settles or is given up, a disable drains (`SettlesOrGivesUp`, `DisableDrains`) |
| `timers` | both managers, two overlapping disables, `FairSpec`; 48,876 states | an empty room is watched, both refinements of `HoldOff`, a weather override ends (`MotionWatched`, `MotionHoldsOff`, `WeatherHoldsOff`, `WeatherReleases`) |
| `cycle` | two covers, a latched safety slot and a floor slot, two overlapping cycles with detours, three events of ten kinds, restart and reload; 2.97 million states | a release edge that one cycle uses up is listed by another, an event stays flagged, a reload moves nothing, a release from while Home Assistant was down stays pending until a cycle dispatches it (`ReleaseNoticed`, `EventStaysFlagged`, `ReloadQuiet`, `OfflineReleasePending`) |
| `override` | one cover of four positions, two events of eleven kinds, two cycles suspended; 7.2 million states | every override has its time and is not prolonged; our travel is not taken for a user's, nor the reverse (`OverrideTimed`, `NotProlonged`, `OwnTravelUnmarked`, `MoveNoticed`) |
| `window` | days of seven ticks with a daytime gate, the window's end before sunset, all six kinds of events without bound; 2.56 million states | a held verdict ends, the night position is reached, no day target outlives the window (`SilenceEnds`, `NightReached`, `DayTargetsCleared`) |
| `decision` | four sets of options, seven suns, two covers, two slots; 108,172 states | safety and floors reach the covers, the slats block the sun, clouds end tracking, an override is kept (`SafetyReaches`, `FloorReaches`, `SunBlocked`, `CloudAnswered`, `OverrideKept`) |
| `options` | two sensors, three saves, one restart, by flow, services, switch and set-up; 6.1 million states | a coordinator runs on the stored options, a rollback finds the slot's sensor, sun tracking never reloads (`OptionsInUse`, `RollbackSafe`, `SunAloneInPlace`) |
| `forms` | a circle of four directions, two unit systems, old and new entries, three edits; 1.99 million states | a visit changes nothing it did not show, the engine and the published times let in the same directions but for the ends, rules between fields are kept (`EntriesKept`, `GatesAgree`, `RulesKept`) |
| `entities` | two entries with a cover each, one with a proxy, two calls at once; `FairSpec`; 554,669 states | what a proxy shows is current, its indicator ends, a shutdown reaches every cover, a call from before a disable is silent (`ShownIsCurrent`, `IndicatorEnds`, `ShutdownReaches`, `StaleCallsSilent`) |
| `forecast` | fourteen sets of options, two overlapping jobs, two midnights; 2.2 million states | the strip follows the live decision, events frame it, the next event is real, only a job that crosses midnight mixes days (`StripFollowsLive`, `EventsFrameSolar`, `NextEventReal`, `OnlyMidnightMixes`) |

`plain` checks its properties without detours: with them they fail (below).
Deadlock is checked except where a bound on events ends the instance:
`cycle`, `override`, `forms` and `entities`.

### Bounds

- **Covers.** `CoverCommand`, `OverrideDetection` and `Window` keep everything per cover, so one
  cover suffices; the clean-ups and the dispatch loops, which go over several, have two (`cycle`,
  `decision`, `entities`). The proofs are for any set of covers.
- **Positions.** 0, 60, 100 in `CoverCommand`: both end stops and one position that needs a
  detour, none within the tolerance of another. 0..3 in `override`, with tolerance 2
  and threshold 1: a cover may count as arrived and be farther off than the threshold. `Top` = 2 in `entities`: the end stops
  and one in between.
- **CoverCommand.** `MaxRetries` 1 or 2 (3 in the code): the first, the last and giving up are
  distinct. `MoveThreshold`, `MoveCap` 1: every eligible move takes the detour. `MaxDetours` 1:
  calls for one cover still overlap, because newer ones go straight or start after the first
  has resumed. `MaxShutdowns`, `MaxGenerations` up to 2: the switch is thrown, thrown back
  and thrown again around a parked call. Times are ages: a transit timeout may
  strike whenever a record waits.
- **Timeouts.** `MotionTimeout` 3 and `WeatherTimeout` 2 ticks differ, and leave room for an
  event in the middle of a sleep; `QuietCap` 3 is the longer, so saturation hides
  nothing.
- **UpdateCycle.** Two tasks: one cycle is parked while another runs from start to end.
  `MaxEvents` 3: one event to start each and one between them.
- **OverrideDetection.** `Grace` 1, `StartGrace` 1, `Timeout` 2: a report falls before and after each
  of them. `Duration` 0: a reset is due from the tick after. `MaxEvents`, `MaxQueue` 2: a command and a hand, or two
  commands, with two reports queued. The proofs are for every value.
- **Window.** `Day` 7, `Start` 2, `End` 4, sunrise 3, sunset 5, `Grace` 2, `Spacing` 1: window,
  daylight and dark overlap in every order that a day has, and a hold can outlast
  the window. Nothing else is bounded.
- **Decision.** Seven suns: night, dawn, three in view, past the axis, evening.
  The four sets of options differ in every option that
  the properties tell apart: priorities out of order and out of range, floors at
  safety priority, inversion, limits, steps, interpolation. `MCDecision` names them.
- **Options.** One section with changes per visit of the flow; `MaxSaves` 3: one save of the flow and
  two that overlap it. The initial entries have sun tracking on.
- **Forms.** Four directions keep left and right, wrap and full circle apart; lengths are hundredths of a
  millimetre, so that a tenth of an inch is the whole number 254; `MaxEdits` 3: a
  change, a visit in the other unit and a visit back.
- **Entities.** `MaxCalls` 5 counts two for a command, a re-sync or a drop-out and one for a throw of the
  switch, of which there are at most `MaxThrows` 2: two commands and a
  disable, or one command between a disable and an enable. The exception `Overtaken` of
  `ShutdownReaches` needs a third throw, which
  the run leaves out; the theorem covers it. `MaxLoads` 2.
- **Forecast.** Twelve grid points a day with a sample at every second one; set-up in the last
  hour of a day and `Horizon` 24, so that jobs cross midnight. Two jobs. The fourteen sets of
  options cross end-of-window, sunset and morning positions, start entity (with a start time
  and with a morning hold of its own) and end with the window's hours before, during and after the sun.

### Fairness

`CoverCommand!Fairness`: the one-minute reconciliation tick (each cover), parked
detours and parked stops resume (polling has a time limit, service calls return
or raise), time passes, a moving cover comes to rest. `Timeouts!Fairness`: tasks
that are ready run, time passes, stops return or raise, the update cycle that was
requested runs, and the tracked entity `sun.sun` reports every few minutes.
`Entities!FairSpec`: the event loop runs the timer of an indicator.
Nothing is assumed of users, sensors, commands, nor of automatic control ever
being on. `SettlesOrGivesUp`, `DisableDrains` and `WeatherReleases` state their
own premises: nobody commands, the switch stays off, the conditions stay clear
and the integration stays enabled.

## Proofs

All proofs hold for every value of the constants that satisfies the named
assumptions of the module; those a theorem adds are in its statement. The `ASSUME`s say
what the code guarantees of its data (options the forms let through, a percentage is 0 to 100,
a table for every day that comes); each run evaluates them.

**CoverCommandProofs.** `Inv == TypeOK /\ st \in [Covers -> SoundEntry]`, where a sound
entry waits only with a target and a clock: the type invariant alone does not say that, and
targets and clocks are dropped in several places. Lemmas show that each writer of a record
returns a sound one.
- `TypeCorrect`, `WaitsEnd` (`WaitingCanExpire`).
- `KillSwitchIsFinal` (`KillSwitchFinal`) needs `DetoursKnowDisable`: a parked call captured a
  generation not above the current one, and strictly below it once a disable has revoked it
  or while the switch is off. The final leg compares the two and so cannot be sent.
- `StaleIsNeverResent` (`StaleNeverResent`), for `MoveThreshold = 0`, and `SafetyFlagIsTruthful`
  (`SafetyFlagTruthful`), for `MoveThreshold = 0` and no press of stop, from `Traced`: no call is in a detour, and
  a recorded target is younger than the last event that dropped one.
- `ShutdownAlwaysDrops` (`ShutdownDropsTracking`), under the hypotheses of the last, from `Swept`: when no
  shutdown is under way, a target from before a disable was commanded for safety.
- `RecordAlwaysNames` (`RecordNamesCommand`) from `Steered`: a call parked in a detour is for a cover that takes
  positions, so the record it puts back names the position it sends.

**TimeoutsProofs.** `Inv == TypeOK /\ OneTimer /\ QuietSound /\ MotionTimerSound`:
a no-motion timer sleeps only in an unoccupied room, and what is left of its sleep and
the quiet time together make the whole timeout.
- `TypeCorrect`; `OneTimerAlways`, where the case that matters is a task cancelled in its
  callback whose `finally` runs after a new timer was started.
- `EmptyRoomWatched` (`MotionWatched`), with one more conjunct: a no-motion callback
  runs only once its flag is set.
- `MotionImplements` (`MotionHoldsOff`) and `WeatherImplements`
  (`WeatherHoldsOff`), step by step from the same invariant: a due timer has seen the
  whole timeout, and the re-check after the sleep that the room is still empty; a cycle is
  a stutter for the weather except the first, which may raise the override and ends start-up.

**UpdateCycleProofs.** For any number of covers, slots, cycles and events.
- `ReleaseAlwaysNoticed` (`ReleaseNoticed`) needs `EdgeAwaited`: a slot that is off but still on in the map
  is on in the map some waiting cycle took. Each cycle that stamps one off hands
  it to the next. Listed is not yet sent: a cycle that lists a release
  may find `state_change` cleared by another and start no dispatch for it.
- `EventAlwaysFlagged` (`EventStaysFlagged`) needs `LoopUpToDate`: the loop that is about to clear the flag has let no
  event pass, except in a detour.
- `ReloadAlwaysQuiet` (`ReloadQuiet`) needs `StartupLater` and `ReloadKnown`: until the first cycle of a
  reloaded coordinator has settled, the reload is known and no start-up loop runs but for safety.
- `OfflineReleaseAlwaysPending` (`OfflineReleasePending`) adds `ReadyKnown`: latches are not ready while a release
  from before is owed. `CrashLosesAtMostScheduled`: stored and live latches differ only
  while a save is due.

**OverrideDetectionProofs.**
- `OverrideAlwaysTimed` (`OverrideTimed`), `NeverProlonged` (`NotProlonged`), for
  both strategies.
- `OwnTravelNeverMarked` (`OwnTravelUnmarked`) for `delta`, from `OwnTravel`: as long as
  nothing has excused an override, nobody has moved the cover (`Untouched`), it goes to the
  recorded target, is awaited or is there (`Driven`), and the one report to be judged
  shows no move or is that of the arrival, which the mark spares (`Innocent`). Tolerance and threshold are any numbers.
- `MoveAlwaysSeen` (`MoveNoticed`) for `delta`, from `HandWatched`: while a move by hand is to be noticed the
  classifier waits for nothing, and without an override yet either the cover has not come to rest where
  it is shown, or the report of that is still to be judged, or there is nothing to notice.
  `MarkMeetsReport` adds that a mark no drain has outlived meets an earlier report than the one that counts.

**WindowProofs.** `SilenceEndsAlways` (`SilenceEnds`) and `HoldAlwaysWakes` (`HoldHasWake`) from `SilenceInv`: a hold
is no younger than the silence, and the wake comes no later than the end of the grace.
`DayTargetsAlwaysCleared` (`DayTargetsCleared`) from `DayTargetSeen`; `NightAlwaysReached` (`NightReached`) from `NightKept`: what
the tracker remembers as dark has sent the night position.

About `Forecast`, for any grid, almanac, tables, options and number of overlapping jobs:
- `OnlyMidnightEverMixes` (`OnlyMidnightMixes`) from `DayInv`: what a job has read, holds and is about to
  store is of the days it ran through, or of the day before where that day's key is known to have been made
  across midnight; a job lives through at most one midnight, and the key it fills is today's or such a one.
- `ForecastTypeCorrect` and `NextEventAlwaysReal` (`NextEventReal`) from `ShownInv`: what is shown is
  the strip of a reading of days that have come.
- `StripAlwaysFollows` (`StripFollowsLive`): `SampleIsLive` compares the two decisions case by case, and
  each case in which they part is one of `Differs`.
- `EventsAlwaysFrame` (`EventsFrameSolar`): the refinement of a transition finds the first point of the finer grid
  with the sun in view, by a least element; transitions are a step apart, so their events differ, and
  enter events and stretches of tracking correspond one to one.

**OptionsProofs.** `RollbackAlwaysSafe` (`RollbackSafe`) from `RollbackInv`: the single key follows the list
in the options and in an open flow's copy alike. `OptionsAlwaysInUse` (`OptionsInUse`) and `SunAppliedInPlace`
(`SunAloneInPlace`) from `Current`, which says for each phase of a set-up what
is already in use. `WritesAlwaysKept` (`WritesKept`).

About `Forms`, for any circle of directions, any ranges and both unit systems, from `FormsInv`: what is stored, and
what a flow holds, is `StoreGood`: each value is one the services accept for its field, the widths
are those of the window last entered, a length is the one last entered, rounded once to what the form displays, and
what was left empty is empty. Every section, step, service and migration is shown to return such a store.
- `FormsTypeCorrect`; `EntriesAlwaysKept` (`EntriesKept`), where two conversions of a window and of a length must undo each
  other: residues for the circle, `RoundedOnce` for a length, which moves by rounding the first
  time and never again.
- `GatesAlwaysAgree` (`GatesAgree`): `FovBetween` turns the deviation from the roof's azimuth into the residue from the
  left end, in both directions; the engine lets in what lies strictly between the ends, the published window has the ends as well.
- `RulesAlwaysKept` (`RulesKept`): the rules are evaluated on the merge of the stored options and the patch.

**DecisionProofs.** For any number of covers and slots, any options that the forms let through, any suns and any
sources. The pipeline's choice exists (`BestExists`, `WinnerExists`): of the matches, one precedes every
other, by a least rank; so each decision has a known handler, priority and position (`Evaluated`).
- `TypeCorrect`: every decision is a percentage, through interpolation, limits, quantised steps and the
  mean of the covers.
- `SafetyAlwaysReaches` (`SafetyReaches`), `FloorAlwaysReaches` (`FloorReaches`) and `SunAlwaysBlocked` (`SunBlocked`)
  are inductive with the types once a step is known either to answer a trigger with a fresh decision (`Cycle`)
  or to leave what they speak of alone (`Still`); `ForcedReaches` says what a forced send achieves. For the sun,
  `ShadeBlocks` does the cases of the pose and `PercentageNear` bounds what rounding to a percentage loses.
- `CloudAlwaysAnswered` (`CloudAnswered`): `OvercastKept` shows that a source the integration does not listen to
  cannot end an overcast sky; `OverrideAlwaysKept` (`OverrideKept`), an action property.

**EntitiesProofs.** For any number of entries, covers, calls, throws and failed stops.
- `StaleCallsStaySilent` (`StaleCallsSilent`): generations only grow, and each leg of a call compares.
- `ShutdownAlwaysReaches` (`ShutdownReaches`) from `Reach`: of each shutdown, its entries are loaded and off
  (`Sound`), a cover that must come to rest and has not is among the stops to come
  (`Pending`), the entry it is at has nothing under way but what it will stop
  (`Swept`), and no cover counts on a shutdown that an enable has overtaken (`Crossed`). Steps that
  leave the switch alone share one lemma (`Modest`).
- `ShownAlwaysCurrent` (`ShownIsCurrent`) from `ProxiesKept`: the signature a proxy remembers is that of what it
  shows.
- `ServicesAlwaysKept` (`ServicesKept`) from `Registered`: while there are no services, whatever is set up or in
  set-up was already in set-up when they went.

Only model-checked: the four liveness properties `SettlesOrGivesUp`, `DisableDrains`,
`WeatherReleases` and `IndicatorEnds`, for liveness under fairness and ENABLED are out
of the prover's reach. Every other property of a run is a theorem. What is proved for one
strategy or for `MoveThreshold = 0` only says so above; `OwnTravelUnmarked` and `MoveNoticed` are claimed
for the delta strategy only; with the time window both are false, as the next section says. Induction over data is out of reach too (no theorem here needs it: sums
are counts, and a least element comes from `WFMin`), so no module has a recursive operator.

## Where code and text part

Statements of comments, docs or forms that the modules refute, and cases the properties
therefore leave out. The definitions named here are in the modules but in no run.

*Command service.*
- A disable resets the safety flag but keeps the safety target; after re-enabling,
  reconciliation resends it (`SafetyNotReplayed`). The first retry writes `is_safety` = False, so
  the target is from then on barred like any other (`SafetyOutlastsRetries`).
- A call parked in its detour puts its target back over a safety target commanded meanwhile,
  whose flag stays (`SafetyFlagTruthful` with detours), and recreates a record that a manual
  override has popped (`DiscardIsFinal`). A press of stop on a waiting safety command replaces its
  target by the My position and leaves the flag.
- The first manual move is counted in the record that the same callbacks then pop (`JogsCounted`).

*Timers and readings.*
- A gust during the clear-delay leaves the old timer running, so the override ends too soon
  (`ClearDelayHonoured`). A disable cancels the no-motion timer, perhaps after re-enabling, and
  nothing restarts it (`NoMotionTimesOut`).
- `is_motion_timeout_active` is False for an occupancy given by a template alone. The sunny
  sensor and its template are not listened to (`Unwatched`). Where templates are combined
  with "and", an unavailable rain sensor silences the template, an unavailable sunny sensor has no
  opinion.

*Cycles and overrides.*
- The resend after one override force-sends to covers under another (`ResendSparesHeld`).
- "The small positional difference allowed by POSITION_TOLERANCE_PERCENT would be misidentified as a
  user-initiated manual override" (`coordinator.py:1935`), and is when the tolerance exceeds the threshold: only the report of the arrival
  is spared. A cover that stopped that far from its target and reports once more is under an
  override (`ToleranceSpared`).
- `_target_just_reached`, left by an early return (`coordinator.py:1880`), swallows a later
  move by hand (`MoveAlwaysNoticed`).
- The time-window detector promises that after the window "the next position change away from the commanded
  state is a manual override" (`managers/manual_override/time_window.py:4`). It compares with the target to the percent and never with the position before, so any
  later report of a cover that stopped short of its target, but within the tolerance, is taken for a
  move, though the position in it is the old one (`OnlyMovesMark`). `OwnTravelUnmarked` therefore fails with this
  strategy, and `MoveNoticed` too: a move whose reports all come within the window is not noticed before another
  report comes.
- A cycle that was parked before the first refresh and ends after it may keep the latches from
  becoming ready: the release of a slot from while Home Assistant was down then stays
  pending and is not sent.
- The end-of-window position takes the sunset edge, so the night position does not follow it
  (`EveningHandsOver`).

*Decisions.* A floor is compared with the mean of the covers, so one cover may be sent below it
(`FloorsHold`). The pose that looks ahead may let in the sun that shines now (`CoverageGuaranteed`). With airflow, the vertical
pose and the flat one are candidates of `_shade_angle` whether or not the travel reaches them; when it does not, the clamp puts
the slats inside the leak band that the comment above (`engine/covers/louvered_roof.py:475-477`) keeps
the steep side out of. A margin below one percent of the travel is lost in the rounding to a percentage. `SunBlocked` has both
as conditions.

*Options and forms.*
- A save while a set-up is suspended wakes no listener (`NoSaveOverlooked`). An open flow puts back what others saved
  since (`WritesKept` names the exception).
- `config_types.py:217` turns azimuth 0 into 180 (`NorthObeyed`), and `:860` a position tolerance of 0
  into 3. A cleared motion template keeps its value, for that section passes no list of optional
  fields (`ClearedStaysCleared`). Imperial rounding stores lengths outside the range
  its comment claims (`services/options_service.py:444`). A service can store a full circle, which the
  form shows as start = end and then refuses. Each surface checks some rules only the other does
  not; a service for several targets patches them one after the other.

*Entities and services.*
- An entry's unload while another is in set-up removes the services (`ServicesPresent`).
- A disable that an enable overtakes drops, when its last stop returns, what is tracked since, so that a later
  disable of several entries may not stop that cover (`Overtaken`, `coordinator.py:2870`). A
  second shutdown finds nothing to stop after the first one's failed stop.
- A late "skipped" of an older command ends a newer command's indicator; a command to
  where the cover is leaves the earlier one; overlapping re-syncs lose the captured pose.

*Forecast.* The strip differs from the live decision after the end of the window with the sun in view
(`EndHolds`), with an end-of-window position that covers do not return to, in a window that opens
before sunrise and, after a start entity, while only one of the two counts a morning hold: the strip counts it from
the start time (`Differs`); it ignores sun tracking
being off. A morning that holds the default shows
the default of the day or night when the end-of-window position is due (`forecast.py:236-256`). A transition from the default to the morning position is shown as an exit. A job that crosses
midnight may leave yesterday's table under today's key (`KeyedByDay`). An older of two overlapping
jobs may publish last.

## Assumptions about Home Assistant

- `async_call(blocking=False)` schedules the handler and returns without suspending, or raises at
  once; a blocking stop suspends only when the service exists and the call is made.
- `async_refresh` is not serialised: a refresh may start while another is parked in a dispatch.
- State-change and update listeners start eagerly, in the step that wrote the state or the options.
- A config entry's set-up, unload and reload are serialised by the entry's lock; updates of its
  options are not.
- A cover may report any position at any time, and disappear.

## Not modelled

- **Trigonometry and the almanac**: floating-point functions of time and place. Profile and
  blocking angles, sunrise and sunset are data of the instances.
- **Decision**: tilt calibration, the tilt overlays, plane pitch, the climate handler (barred for this
  roof), thresholds resolved from templates, the presence reading (climate only).
- **Command service**: routing to a My position, which has no caller.
- **Classifier and detection**: the second-axis check, what a shutdown cancels, the restored override state.
- **Hysteresis**: the clean-up of latches after an edit of the options.
- **Forms**: summaries, labels, translations, pages behind the position step of the create flow, which it does
  not reach; the completeness rule of a slot is `Options`'s.
- **Sensors, numbers, exports, diagnostics**: they read the coordinator and change nothing.

## What could follow

- `CoverCommand` and `Entities` composed: the record behind each user's command.
- An abstract latch for `UpdateCycle` and an abstract override for `OverrideDetection`, with
  refinements like those of `HoldOff`.
- A run of `OverrideDetection` with the time-window strategy, for what it does promise.
- `CoverCommand` with the delta, time and arrival-band gates as data, so that a refusal has a reason.
