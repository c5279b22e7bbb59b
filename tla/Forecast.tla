------------------------------ MODULE Forecast ------------------------------
(***************************************************************************)
(* The forecast of a day: the table of sun positions that all entries at   *)
(* one place share (sun.py), the samples and events computed from it in    *)
(* the executor (forecast.py), their publication (coordinator.py) and what *)
(* the sensor shows (sensor.py).                                           *)
(*                                                                         *)
(* A time is a point of the table's grid, counted from local midnight of   *)
(* day 0; every configured time lies on the grid.  The module cache is the *)
(* part of it that belongs to one place.  The lock is held over the        *)
(* computation of a table, so a fill is one step.                          *)
(***************************************************************************)
EXTENDS Integers, FiniteSets, Sequences

CONSTANTS
  None,      \* no value
  Grid,      \* grid points of a day
  Step,      \* grid points between two samples
  Rise(_), SunsetAt(_),  \* sunrise and sunset of a day, with their offsets
  Facing(_), High(_),    \* grid points at which azimuth and elevation are accepted
  Configs,   \* configurations an entry may have
  Jobs,      \* executor jobs that may overlap
  Setup,     \* when the entry is set up
  Horizon    \* bound on the clock

ASSUME GridStep == Grid \in Nat \ {0} /\ Step \in Nat \ {0} /\ Grid % Step = 0
ASSUME NoValue  == None \notin Int
ASSUME Clock    == Horizon \in Nat /\ Setup \in 0..Horizon
ASSUME Hours    == \A c \in Configs : c.end \in Int \cup {None}
ASSUME Suns     == \A d \in 0..(Horizon \div Grid) + 1 : Rise(d) \in Int /\ SunsetAt(d) \in Int

VARIABLES
  config,    \* the configuration of the entry
  clock,     \* the wall clock
  cache,     \* _DAY_CACHE: day of the key -> day of the table
  jobs,      \* job -> what its thread has read so far
  shown,     \* data.position_forecast
  raced      \* days whose key was made by a job that had read the date before

forecastVars == <<config, clock, cache, jobs, shown, raced>>

Date == clock \div Grid
Midnight(d) == d * Grid

-----------------------------------------------------------------------------
(* What the engine makes of a configuration at one time.                   *)

(* SunGeometry.sunset_valid, and direct_sun_valid over the tables of two   *)
(* days and the almanac of a third.                                        *)
SunsetValid(alm, t) == \/ t > Midnight(alm) + SunsetAt(alm)
                       \/ t < Midnight(alm) + Rise(alm)
DirectSun(azi, ele, alm, i, t) ==
  i \in Facing(azi) /\ i \in High(ele) /\ ~SunsetValid(alm, t)

(* is_morning_preopen_active *)
MorningActive(c, alm, start, t) ==
  LET boundary == Midnight(alm) + Rise(alm)
      anchor == IF start # None /\ start > boundary THEN start ELSE boundary
  IN  /\ c.lead > 0 \/ c.hold > 0
      /\ anchor - c.lead <= t /\ t < anchor + c.hold

(* compute_effective_default without a daytime gate, and                   *)
(* default_position_with_limits: the sunset position is not limited.       *)
ForecastDefault(c, alm, t, started, closed) ==
  LET evening == closed /\ c.evening
      after   == t > Midnight(alm) + SunsetAt(alm)
      before  == t < Midnight(alm) + Rise(alm)
  IN  CASE evening /\ (~c.night \/ ~after) -> <<"evening", "unlimited">>
        [] c.night /\ (after \/ (before /\ ~started)) -> <<"night", "unlimited">>
        [] OTHER -> <<"default", "limited">>

(* resolve_window_start: the start entity before the configured time.      *)
At(d, time) == IF time = None THEN None ELSE Midnight(d) + time
WindowStart(c, d) == At(d, IF c.entity # None THEN c.entity ELSE c.start)
WindowEnd(c, d)   == At(d, c.end)

(* MorningPositionHandler without a configured position shows the default. *)
MorningPosition(c, otherwise) ==
  IF c.morning THEN <<"morning", "unlimited">> ELSE otherwise

-----------------------------------------------------------------------------
(* The samples, for what a job r has read: the days of the times, azimuths *)
(* and elevations, and the days of the almanac.                            *)

Times(r) == {Midnight(r.times) + i : i \in {k \in 0..Grid : k % Step = 0}}

(* _nearest_index *)
Nearest(day, t) ==
  LET i == t - Midnight(day) IN IF i < 0 THEN 0 ELSE IF i > Grid THEN Grid ELSE i

(* The end-of-window position counts when the option that returns covers   *)
(* is on and an end is known.                                              *)
PastEnd(c, d, t) == c.returns /\ c.end # None /\ t >= WindowEnd(c, d)

InStartedUnmoved(c, d, t) ==                              \* mutant: no entity
  At(d, c.start) = None \/ t >= At(d, c.start)
InStarted(c, d, t) == WindowStart(c, d) = None \/ t >= WindowStart(c, d)

(* One turn of the loop of _build_samples.                                 *)
Sample(c, r, t) ==
  LET i == Nearest(r.times, t)
  IN  CASE MorningActive(c, r.alm, At(r.alm, c.start), t) ->
             [t |-> t, handler |-> "morning",
              pos |-> MorningPosition(c, ForecastDefault(c, r.alm, t, FALSE, FALSE))]
        [] /\ ~MorningActive(c, r.alm, At(r.alm, c.start), t)
           /\ InStarted(c, r.alm, t) /\ DirectSun(r.azi, r.ele, r.alm, i, t) ->
             [t |-> t, handler |-> "solar", pos |-> <<"solar", "limited">>]
        [] OTHER ->
             [t |-> t, handler |-> "default",
              pos |-> ForecastDefault(c, r.alm, t, FALSE, PastEnd(c, r.alm, t))]

Samples(c, r) == [t \in Times(r) |-> Sample(c, r, t)]
Before(t)     == t - Step
Changes(c, r) == LET s == Samples(c, r)
                 IN  {t \in Times(r) : /\ Before(t) \in Times(r)
                                       /\ s[t].handler # s[Before(t)].handler}

(* _refine_fov_crossing reads the tables again: those of r.again.          *)
Matches(r, i, valid) ==
  DirectSun(r.again, r.again, r.alm, i, Midnight(r.again) + i) = valid
CrossingLate(r, t, valid) ==                              \* mutant
  LET found == {i \in Nearest(r.again, Before(t))..Nearest(r.again, t) : Matches(r, i, valid)}
  IN  IF found = {} THEN t ELSE Midnight(r.again) + (CHOOSE i \in found : \A k \in found : k <= i)
Crossing(r, t, valid) ==
  LET found == {i \in Nearest(r.again, Before(t))..Nearest(r.again, t) : Matches(r, i, valid)}
  IN  IF found = {} THEN t ELSE Midnight(r.again) + (CHOOSE i \in found : \A k \in found : i <= k)

Transitions(c, r) ==
  LET enters(t) == Sample(c, r, t).handler = "solar"
  IN  {[t |-> Crossing(r, t, enters(t)), kind |-> IF enters(t) THEN "enter" ELSE "exit"]
         : t \in Changes(c, r)}

(* Sunrise, sunset and the next sunrise, of the day the events are built.  *)
AlmanacToday(d) ==                                        \* mutant
  {[t |-> Midnight(d) + Rise(d), kind |-> "sunrise"],
   [t |-> Midnight(d) + SunsetAt(d), kind |-> "sunset"]}
Almanac(d) == {[t |-> Midnight(d) + Rise(d), kind |-> "sunrise"],
               [t |-> Midnight(d) + SunsetAt(d), kind |-> "sunset"],
               [t |-> Midnight(d + 1) + Rise(d + 1), kind |-> "sunrise"]}

Events(c, r) == Almanac(r.alm) \cup Transitions(c, r)

(* _position_forecast_value: the first event, in the order of their times, *)
(* that is not past.                                                       *)
Upcoming(events) ==
  LET ahead == {e.t : e \in {x \in events : x.t >= clock}}
  IN  IF ahead = {} THEN None ELSE CHOOSE t \in ahead : \A u \in ahead : t <= u

-----------------------------------------------------------------------------
(* The jobs: four reads of the tables, each through _ensure_today, and the *)
(* almanac, read with the last of them.                                    *)

Reads == <<"times", "azi", "ele", "again">>
Idle  == [pc |-> "idle"]
Fresh == [pc |-> "look", read |-> 1, began |-> Date, today |-> None, key |-> None,
          held |-> None, table |-> None, got |-> << >>]
ForecastInit ==
  /\ config \in Configs
  /\ clock = Setup /\ cache = << >> /\ shown = None /\ raced = {}
  /\ jobs = [j \in Jobs |-> Idle]

(* The initial background task and the tick every five minutes.            *)
Recompute(j) ==
  /\ jobs[j] = Idle
  /\ jobs' = [jobs EXCEPT ![j] = Fresh]
  /\ UNCHANGED <<config, clock, cache, shown, raced>>

(* A read is over; the property reads the instance's table.                *)
Took(job, today, table) ==
  [job EXCEPT !.held = today, !.table = table, !.got = Append(@, table),
              !.read = @ + 1, !.pc = IF job.read = Len(Reads) THEN "done" ELSE "look"]

(* Tier 1: the instance already holds today's table.                       *)
Holds(job, today) == job.held = today
Look(j) ==
  /\ jobs[j].pc = "look"
  /\ jobs' = [jobs EXCEPT ![j] = IF Holds(@, Date) THEN Took(@, Date, @.table)
                                 ELSE [@ EXCEPT !.pc = "key", !.today = Date]]
  /\ UNCHANGED <<config, clock, cache, shown, raced>>

(* Tier 2: the key asks for the date once more; a hit needs no lock.       *)
CacheKeyUndated(d) == 0                                   \* mutant
CacheKey(d) == d
Key(j) ==
  /\ jobs[j].pc = "key"
  /\ jobs' = [jobs EXCEPT ![j] =
                 IF CacheKey(Date) \in DOMAIN cache THEN Took(@, @.today, cache[CacheKey(Date)])
                 ELSE [@ EXCEPT !.pc = "fill", !.key = CacheKey(Date)]]
  /\ raced' = IF jobs[j].today # Date THEN raced \cup {Date} ELSE raced
  /\ UNCHANGED <<config, clock, cache, shown>>

(* Tier 3, under the lock: another job may have filled the key; otherwise  *)
(* compute today's table, purge the entries of other days and store it.    *)
Filled(today, key) ==
  [k \in {d \in DOMAIN cache : d = today} \cup {key} |->
     IF k = key THEN today ELSE cache[k]]
Fill(j) ==
  LET job == jobs[j]
  IN  /\ job.pc = "fill"
      /\ cache' = IF job.key \in DOMAIN cache THEN cache ELSE Filled(job.today, job.key)
      /\ jobs' = [jobs EXCEPT ![j] = Took(@, @.today, cache'[job.key])]
      /\ UNCHANGED <<config, clock, shown, raced>>

(* async_recompute_forecast goes on in the event loop: whatever finishes   *)
(* last is shown, and an exception shows nothing.                          *)
Publish(j) ==
  LET got  == jobs[j].got
      read == [times |-> got[1], azi |-> got[2], ele |-> got[3], again |-> got[4],
               alm |-> jobs[j].held]
  IN  /\ jobs[j].pc = "done"
      /\ shown' = [read |-> read, samples |-> Samples(config, read), events |-> Events(config, read)]
      /\ jobs' = [jobs EXCEPT ![j] = Idle]
      /\ UNCHANGED <<config, clock, cache, raced>>
Fail(j) ==
  /\ jobs[j] # Idle
  /\ shown' = None
  /\ jobs' = [jobs EXCEPT ![j] = Idle]
  /\ UNCHANGED <<config, clock, cache, raced>>

(* A job takes far less than a day.                                        *)
ClockTicks ==
  /\ clock < Horizon
  /\ \A j \in Jobs : jobs[j] # Idle => (clock + 1) \div Grid <= jobs[j].began + 1
  /\ clock' = clock + 1
  /\ UNCHANGED <<config, cache, jobs, shown, raced>>

ForecastNext ==
  \/ ClockTicks
  \/ \E j \in Jobs : Recompute(j) \/ Look(j) \/ Key(j) \/ Fill(j) \/ Publish(j) \/ Fail(j)

ForecastSpec == ForecastInit /\ [][ForecastNext]_forecastVars

-----------------------------------------------------------------------------
(* The live decision at time t of day d: morning, solar and default        *)
(* handlers of the pipeline over what the snapshot reads.                  *)

Open(c, d, t) == /\ c.end = None \/ t < WindowEnd(c, d)
                 /\ WindowStart(c, d) = None \/ t >= WindowStart(c, d)
HasStarted(c, d, t) == WindowStart(c, d) # None /\ t >= WindowStart(c, d)
Closed(c, d, t)  == c.end # None /\ t >= WindowEnd(c, d)
LiveDefault(c, d, t) == ForecastDefault(c, d, t, HasStarted(c, d, t), Closed(c, d, t))
SunInView(d, t) == DirectSun(d, d, d, t - Midnight(d), t)
Live(c, d, t) ==
  CASE MorningActive(c, d, WindowStart(c, d), t) ->
         [handler |-> "morning", pos |-> MorningPosition(c, LiveDefault(c, d, t))]
    [] ~MorningActive(c, d, WindowStart(c, d), t) /\ Open(c, d, t) /\ SunInView(d, t) ->
         [handler |-> "solar", pos |-> <<"solar", "limited">>]
    [] OTHER -> [handler |-> "default", pos |-> LiveDefault(c, d, t)]

-----------------------------------------------------------------------------
(* A strip all of whose reads fell on one day.                             *)
OneDay(r) == {r.azi, r.ele, r.again, r.alm} = {r.times}

(* Where the strip is known to differ: the sun is tracked past the end of  *)
(* the window; an end-of-window position that covers do not return to, or  *)
(* that is due while the morning holds the default; a window that opens    *)
(* before sunrise; a morning hold, which the strip counts from the start   *)
(* time and the cycle from the start entity, while only one of them holds. *)
Differs(c, d, t) ==
  \/ Closed(c, d, t) /\ (SunInView(d, t) \/ ~c.returns)
  \/ Closed(c, d, t) /\ MorningActive(c, d, WindowStart(c, d), t) /\ ~c.morning
  \/ HasStarted(c, d, t) /\ t < Midnight(d) + Rise(d)
  \/ MorningActive(c, d, WindowStart(c, d), t) # MorningActive(c, d, At(d, c.start), t)

(* "The forecast strip matches what the cover is actually commanded to"    *)
(* (forecast.py, build_forecast): outside those cases each sample of a     *)
(* published strip names the handler and position of the live decision at  *)
(* its time, limits included.                                              *)
Follows(d, strip) ==
  \A t \in DOMAIN strip \ {Midnight(d + 1)} :
    ~Differs(config, d, t) =>
      [handler |-> strip[t].handler, pos |-> strip[t].pos] = Live(config, d, t)
StripFollowsLive ==
  [][shown' # None /\ OneDay(shown'.read) => Follows(shown'.read.times, shown'.samples)]_shown

(* "samples at/after end_of_window_time get the end-of-window position"    *)
(* (forecast.py:147) does not hold while the sun is in view.               *)
EndHolds ==
  shown # None /\ OneDay(shown.read) /\ config.evening =>
    \A t \in DOMAIN shown.samples :
      PastEnd(config, shown.read.times, t) /\ ~SunsetValid(shown.read.times, t) =>
        shown.samples[t].pos[1] = "evening"

(* Every stretch of tracking in the strip is framed by events on the finer *)
(* grid: it begins with one enter event, no earlier than the last sample   *)
(* before it and at a time the sun is in view, and ends with one exit      *)
(* event after its last sample; no other enter event is shown.             *)
Framed(d, s, events) ==
  LET of(kind, t) == {e.t : e \in {x \in events : x.kind = kind /\ x.t \in Before(t)..t}}
      changes == {t \in DOMAIN s : Before(t) \in DOMAIN s /\ s[t].handler # s[Before(t)].handler}
      enters  == {t \in changes : s[t].handler = "solar"}
      exits   == {t \in changes : s[Before(t)].handler = "solar"}
  IN  /\ \A t \in enters : \E e \in of("enter", t) :
           SunInView(d, e) /\ \A before \in Before(t)..(e - 1) : ~SunInView(d, before)
      /\ \A t \in exits : \E e \in of("exit", t) : e > Before(t)
      /\ Cardinality({e \in events : e.kind = "enter"}) = Cardinality(enters)
EventsFrameSolar ==
  [][shown' # None /\ OneDay(shown'.read)
       => Framed(shown'.read.times, shown'.samples, shown'.events)]_shown

(* The sensor shows a real time late in the evening too (forecast.py,      *)
(* issue #516): from its publication to the sunrise of the day after its   *)
(* own, a forecast always has a next event, and never one after that       *)
(* sunrise.                                                                *)
NextEventReal ==
  shown # None =>
    LET sunrise == Midnight(shown.read.alm + 1) + Rise(shown.read.alm + 1)
    IN  clock <= sunrise => Upcoming(shown.events) \in clock..sunrise

(* The key carries the date (sun.py, _cache_key), so that a table is       *)
(* forgotten at midnight: only a job that had asked for the date before    *)
(* midnight and for its key after it can leave the table of the day before *)
(* under a day's key; a strip computed on a day no such job touched is of  *)
(* the days its computation ran through.                                   *)
OnlyMidnightMixes ==
  /\ \A k \in DOMAIN cache : cache[k] = k \/ (k \in raced /\ cache[k] = k - 1)
  /\ \A j \in Jobs : jobs[j] # Idle =>
       \A i \in 1..Len(jobs[j].got) :
         \/ jobs[j].got[i] \in jobs[j].began..Date
         \/ jobs[j].began \in raced /\ jobs[j].got[i] = jobs[j].began - 1
  /\ Cardinality(DOMAIN cache) <= 2

(* A day's key always holds that day's table: refuted by such a job, which *)
(* leaves every entry at the place with yesterday's sun for a day.         *)
KeyedByDay == \A k \in DOMAIN cache : cache[k] = k

ForecastTypeOK ==
  /\ clock \in Setup..Horizon
  /\ DOMAIN cache \subseteq 0..Date
  /\ \A k \in DOMAIN cache : cache[k] \in 0..Date
  /\ shown = None \/ \A f \in DOMAIN shown.read : shown.read[f] \in 0..Date
  /\ \A j \in Jobs : jobs[j] = Idle \/ jobs[j].pc \in {"look", "key", "fill", "done"}
=============================================================================
