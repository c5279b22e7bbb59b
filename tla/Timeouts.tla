------------------------------ MODULE Timeouts ------------------------------
(***************************************************************************)
(* The two debounced overrides of a config entry and the timers behind     *)
(* them: TimeoutController (managers/common/timeout_controller.py), the    *)
(* no-motion timeout (managers/motion.py), the clear-delay of the weather  *)
(* override (managers/weather.py), and the coordinator's handlers that     *)
(* drive both.                                                             *)
(*                                                                         *)
(* A step is what the event loop runs between two suspension points.  A    *)
(* state change and the eagerly started handler that re-reads the live     *)
(* sources are one step.  A timer's task suspends in its sleep and in the  *)
(* refresh that its callback awaits.                                       *)
(***************************************************************************)
EXTENDS Naturals

CONSTANTS MotionTimeout,   \* _timeout_seconds of MotionManager, in ticks
          WeatherTimeout,  \* _timeout_seconds of WeatherManager, in ticks
          QuietCap,        \* bound: the quiet times saturate here
          MaxShutdowns     \* bound: disables suspended in their stops at a time

ASSUME TimeoutAssumption == /\ {MotionTimeout, WeatherTimeout, QuietCap, MaxShutdowns} \subseteq Nat
                            /\ MotionTimeout <= QuietCap /\ WeatherTimeout <= QuietCap

Managers == {"motion", "weather"}
Timeout  == [motion |-> MotionTimeout, weather |-> WeatherTimeout]

VARIABLES
  signal,      \* is_motion_detected; is_any_condition_active
  flag,        \* _motion_timeout_active; _override_active
  timer,       \* the TimeoutController of each manager
  boot,        \* "starting" until the first refresh, then "settling", "up"
  refreshing,  \* an update cycle that no timer awaits is under way
  enabled,     \* the master switch
  disabling,   \* how many async_set_integration_enabled(False) await their stops
  quiet,       \* ghost: ticks since the signal was last seen up
  lost         \* ghost: why the end of the last motion may go unnoticed

vars == <<signal, flag, timer, boot, refreshing, enabled, disabling, quiet, lost>>

-----------------------------------------------------------------------------
(* TimeoutController.  `handle` says that _task is set; `unwinding` that a *)
(* task cancelled inside its callback has yet to run its finally clause.   *)

Timers(m) == [handle : BOOLEAN, phase : {"idle", "sleeping", "callback"},
              left : 0..Timeout[m], unwinding : BOOLEAN]
AtRest(u) == [handle |-> FALSE, phase |-> "idle", left |-> 0, unwinding |-> u]
Unused == AtRest(FALSE)

IsRunning(t) == t.handle

Cancelled(t) ==
  IF t.handle THEN AtRest(t.unwinding \/ t.phase = "callback") ELSE t

Started(m, t) ==
  [Cancelled(t) EXCEPT !.handle = TRUE, !.phase = "sleeping", !.left = Timeout[m]]

Done(t) == AtRest(t.unwinding)

\* the finally clause of a cancelled task: `self._task is own` is false
Unwound(t) == [t EXCEPT !.unwinding = FALSE]

-----------------------------------------------------------------------------
(* Handlers that every refresh and the weather events share.               *)

\* reconcile() and the timer that _reconcile_weather_override starts
Reconciled(up, t) ==
  IF up /\ ~signal["weather"] /\ ~IsRunning(t) THEN Started("weather", t) ELSE t

\* mutant: no self-healing reconcile in the update cycle
CycleOnlyRecovers(ctl) ==
  LET recovers == boot = "starting" /\ signal["weather"]
  IN  /\ flag'  = [flag EXCEPT !["weather"] = @ \/ recovers]
      /\ timer' = [ctl EXCEPT !["weather"] = IF recovers THEN Cancelled(@) ELSE @]
      /\ boot'  = IF boot = "starting" THEN "settling" ELSE boot

\* what an update cycle does to the weather override before its pipeline
CycleRuns(ctl) ==
  LET recovers == boot = "starting" /\ signal["weather"]
      up == flag["weather"] \/ recovers
      t  == IF recovers THEN Cancelled(ctl["weather"]) ELSE ctl["weather"]
  IN  /\ flag'  = [flag EXCEPT !["weather"] = up]
      /\ timer' = [ctl EXCEPT !["weather"] = Reconciled(up, t)]
      /\ boot'  = IF boot = "starting" THEN "settling" ELSE boot

NewTimer(m, t) == timer' = [timer EXCEPT ![m] = t]

Init == /\ signal \in [Managers -> BOOLEAN]
        /\ flag = [m \in Managers |-> FALSE]
        /\ timer = [m \in Managers |-> Unused]
        /\ boot = "starting" /\ refreshing = TRUE
        /\ enabled = TRUE /\ disabling = 0
        /\ quiet = [m \in Managers |-> 0] /\ lost = {}

-----------------------------------------------------------------------------
(* The sources report.  A motion report makes good what was lost before.   *)

Reads(m, now) == /\ signal' = [signal EXCEPT ![m] = now]
                 /\ quiet' = IF now \/ signal[m] THEN [quiet EXCEPT ![m] = 0] ELSE quiet

\* mutant: the timer is cancelled, the expired flag stays
DetectedKeepsFlag ==
  /\ Reads("motion", TRUE)
  /\ NewTimer("motion", Cancelled(timer["motion"]))
  /\ refreshing' = (refreshing \/ IsRunning(timer["motion"]) \/ flag["motion"])
  /\ lost' = {}
  /\ UNCHANGED <<flag, boot, enabled, disabling>>

\* _handle_occupancy_change when someone is there: record_motion_detected
MotionDetected ==
  /\ Reads("motion", TRUE)
  /\ NewTimer("motion", Cancelled(timer["motion"]))
  /\ flag' = [flag EXCEPT !["motion"] = FALSE]
  /\ refreshing' = (refreshing \/ IsRunning(timer["motion"]) \/ flag["motion"])
  /\ lost' = {}
  /\ UNCHANGED <<boot, enabled, disabling>>

\* ... and when nobody is: start_motion_timeout, on every report
MotionCleared ==
  /\ Reads("motion", FALSE)
  /\ NewTimer("motion", Started("motion", timer["motion"]))
  /\ lost' = {}
  /\ UNCHANGED <<flag, boot, refreshing, enabled, disabling>>

\* async_check_weather_state_change with a condition active
WeatherActive ==
  /\ Reads("weather", TRUE)
  /\ IF flag["weather"] THEN UNCHANGED timer
                        ELSE NewTimer("weather", Cancelled(timer["weather"]))
  /\ flag' = [flag EXCEPT !["weather"] = TRUE]
  /\ refreshing' = TRUE
  /\ UNCHANGED <<boot, enabled, disabling, lost>>

\* ... and with none: the override is reconciled, nothing is refreshed
WeatherClear ==
  /\ Reads("weather", FALSE)
  /\ NewTimer("weather", IF flag["weather"] /\ ~IsRunning(timer["weather"])
                         THEN Started("weather", timer["weather"]) ELSE timer["weather"])
  /\ UNCHANGED <<flag, boot, refreshing, enabled, disabling, lost>>

\* a source is removed while it was the only active one: both handlers
\* return early because there is no new state
SourceRemoved(m) ==
  /\ signal[m]
  /\ Reads(m, FALSE)
  /\ lost' = IF m = "motion" THEN {"event"} ELSE lost
  /\ UNCHANGED <<flag, timer, boot, refreshing, enabled, disabling>>

-----------------------------------------------------------------------------
(* The timers' tasks.                                                      *)

Due(t) == t.phase = "sleeping" /\ t.left = 0

\* mutant: no re-check of the sources after the sleep
ExpireUnchecked(m) ==
  /\ Due(timer[m])
  /\ NewTimer(m, [timer[m] EXCEPT !.phase = "callback"])
  /\ flag' = [flag EXCEPT ![m] = (m = "motion")]
  /\ UNCHANGED <<signal, boot, refreshing, enabled, disabling, quiet, lost>>

\* the sleep is over: re-check, then set the flag and await the refresh
Expire(m) ==
  LET t == timer[m]
      releases == ~signal[m]
  IN  /\ Due(t)
      /\ NewTimer(m, IF releases THEN [t EXCEPT !.phase = "callback"] ELSE Done(t))
      /\ flag' = IF m = "motion" THEN [flag EXCEPT ![m] = @ \/ releases]
                                 ELSE [flag EXCEPT ![m] = ~releases]
      /\ UNCHANGED <<signal, boot, refreshing, enabled, disabling, quiet, lost>>

\* the refresh awaited by a callback runs to its end, then the finally clause
CallbackEnds(m) ==
  /\ timer[m].phase = "callback"
  /\ CycleRuns([timer EXCEPT ![m] = Done(@)])
  /\ UNCHANGED <<signal, refreshing, enabled, disabling, quiet, lost>>

Unwind(m) ==
  /\ timer[m].unwinding
  /\ NewTimer(m, Unwound(timer[m]))
  /\ UNCHANGED <<signal, flag, boot, refreshing, enabled, disabling, quiet, lost>>

\* a second: no task is past its wake-up or its cancellation
Tick ==
  /\ \A m \in Managers : ~Due(timer[m]) /\ ~timer[m].unwinding
  /\ timer' = [m \in Managers |->
       IF timer[m].phase = "sleeping" THEN [timer[m] EXCEPT !.left = @ - 1] ELSE timer[m]]
  /\ quiet' = [m \in Managers |->
       IF signal[m] \/ quiet[m] = QuietCap THEN quiet[m] ELSE quiet[m] + 1]
  /\ UNCHANGED <<signal, flag, boot, refreshing, enabled, disabling, lost>>

-----------------------------------------------------------------------------
(* The coordinator.                                                        *)

\* sun.sun or another tracked entity changes
TrackedEntityChanges ==
  /\ refreshing' = TRUE
  /\ UNCHANGED <<signal, flag, timer, boot, enabled, disabling, quiet, lost>>

Refresh ==
  /\ refreshing /\ refreshing' = FALSE
  /\ CycleRuns(timer)
  /\ UNCHANGED <<signal, enabled, disabling, quiet, lost>>

\* mutant: an empty room at start-up is left to the next event
StartsUnset ==
  /\ boot = "settling" /\ boot' = "up"
  /\ NewTimer("motion", Cancelled(timer["motion"]))
  /\ flag' = [flag EXCEPT !["motion"] = FALSE]
  /\ UNCHANGED <<signal, refreshing, enabled, disabling, quiet, lost>>

\* _check_initial_motion_state, after async_config_entry_first_refresh
InitialMotion ==
  /\ boot = "settling" /\ boot' = "up"
  /\ NewTimer("motion", Cancelled(timer["motion"]))
  /\ flag' = [flag EXCEPT !["motion"] = ~signal["motion"]]
  /\ UNCHANGED <<signal, refreshing, enabled, disabling, quiet, lost>>

Disable ==
  /\ disabling < MaxShutdowns
  /\ enabled' = FALSE /\ disabling' = disabling + 1
  /\ UNCHANGED <<signal, flag, timer, boot, refreshing, quiet, lost>>

\* the stops have returned or failed: the finally clause cancels both timers
DisableEnds ==
  /\ disabling > 0 /\ disabling' = disabling - 1
  /\ timer' = [m \in Managers |-> Cancelled(timer[m])]
  /\ lost' = lost \cup {"disable"}
  /\ UNCHANGED <<signal, flag, boot, refreshing, enabled, quiet>>

Enable ==
  /\ enabled' = TRUE
  /\ UNCHANGED <<signal, flag, timer, boot, refreshing, disabling, quiet, lost>>

\* the entry is reloaded or Home Assistant restarts: nothing is persisted
Restart ==
  /\ signal' \in [Managers -> BOOLEAN]
  /\ flag' = [m \in Managers |-> FALSE]
  /\ timer' = [m \in Managers |-> Unused]
  /\ boot' = "starting" /\ refreshing' = TRUE /\ disabling' = 0
  /\ quiet' = [m \in Managers |-> 0]
  /\ lost' = {}
  /\ UNCHANGED enabled

Environment == \/ MotionDetected \/ MotionCleared \/ WeatherActive \/ WeatherClear
               \/ \E m \in Managers : SourceRemoved(m)
               \/ TrackedEntityChanges \/ Disable \/ Enable \/ Restart
Next == \/ Environment
        \/ \E m \in Managers : Expire(m) \/ CallbackEnds(m) \/ Unwind(m)
        \/ Tick \/ Refresh \/ InitialMotion \/ DisableEnds

Spec == Init /\ [][Next]_vars

\* The event loop runs every task that is ready, service calls return or
\* fail, time passes, and sun.sun reports every few minutes.
Fairness == /\ \A m \in Managers : /\ WF_vars(Expire(m))
                                   /\ WF_vars(CallbackEnds(m))
                                   /\ WF_vars(Unwind(m))
            /\ WF_vars(Tick) /\ WF_vars(Refresh) /\ WF_vars(InitialMotion)
            /\ WF_vars(DisableEnds) /\ WF_vars(TrackedEntityChanges)
FairSpec == Spec /\ Fairness

-----------------------------------------------------------------------------
TypeOK == /\ signal \in [Managers -> BOOLEAN]
          /\ flag \in [Managers -> BOOLEAN]
          /\ DOMAIN timer = Managers /\ \A m \in Managers : timer[m] \in Timers(m)
          /\ boot \in {"starting", "settling", "up"}
          /\ {refreshing, enabled} \subseteq BOOLEAN /\ disabling \in 0..MaxShutdowns
          /\ quiet \in [Managers -> 0..QuietCap]
          /\ lost \subseteq {"event", "disable"}

(* A controller never has two parallel timers and never a stale handle:    *)
(* its handle is set exactly while its one live task sleeps or runs its    *)
(* callback (TimeoutController, docstring).                                *)
OneTimer == \A m \in Managers : timer[m].handle <=> timer[m].phase # "idle"

(* Automatic positioning is suspended for want of motion only after        *)
(* MotionTimeout without any, or at start-up, and resumes with the first   *)
(* sign of it, however events, restarts and the master switch interleave.  *)
Motion == INSTANCE HoldOff WITH
            Delay <- MotionTimeout, signal <- signal["motion"], held <- ~flag["motion"],
            quiet <- quiet["motion"], starting <- boot # "up"
MotionHoldsOff == Motion!Spec

(* The weather override is up whenever a condition is, once the first      *)
(* refresh has run, and ends only at a moment when every condition is      *)
(* clear (no delay is claimed here: see ClearDelayHonoured).               *)
Weather == INSTANCE HoldOff WITH
             Delay <- 0, signal <- signal["weather"], held <- flag["weather"],
             quiet <- quiet["weather"], starting <- boot = "starting"
WeatherHoldsOff == Weather!Spec

(* An override whose conditions stay clear ends, whatever became of its    *)
(* timer: cancelled by a disable, never started because the event was      *)
(* missed, or lost in a restart.                                           *)
WeatherReleases ==
  <>[](enabled /\ disabling = 0 /\ ~signal["weather"]) => []<>(~flag["weather"])

(* "Seconds to wait after ALL conditions clear before resuming normal      *)
(* control" (translations/en.json, weather_timeout): a running override    *)
(* ends only when the conditions have been clear that long.                *)
ClearDelayHonoured ==
  [][(boot = "up" /\ boot' = "up" /\ flag["weather"] /\ ~flag'["weather"])
       => quiet["weather"] >= WeatherTimeout]_vars

(* An unoccupied entry has timed out or has a timer that will see to it,   *)
(* unless a source vanished without a report or a disable took the timer.  *)
Watched == flag["motion"] \/ IsRunning(timer["motion"])
MotionWatched == boot = "up" /\ ~signal["motion"] /\ lost = {} => Watched

(* "When ALL sensors show no motion for the timeout duration, covers       *)
(* return to default position" (translations/en.json, motion_sensors):     *)
(* so an enabled entry whose sensors all reported no motion is watched.    *)
NoMotionTimesOut ==
  boot = "up" /\ enabled /\ disabling = 0 /\ ~signal["motion"] /\ "event" \notin lost => Watched
=============================================================================
