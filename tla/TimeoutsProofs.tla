--------------------------- MODULE TimeoutsProofs ---------------------------
(* Proofs about Timeouts, for every length of both timeouts.               *)
EXTENDS Timeouts, TLAPS

(* Between steps a controller's record is well formed and its handle is    *)
(* set exactly while its task is live.                                     *)
Sound(m, t) == t \in Timers(m) /\ (t.handle <=> t.phase # "idle")

(* A no-motion timer runs only in an unoccupied room, and what is left of  *)
(* its sleep and the quiet time make up the whole timeout.                 *)
MotionTimerSound ==
  timer["motion"].phase = "sleeping" =>
    /\ ~signal["motion"]
    /\ quiet["motion"] + timer["motion"].left >= MotionTimeout

QuietSound == \A m \in Managers : signal[m] => quiet[m] = 0

Inv == TypeOK /\ OneTimer /\ QuietSound /\ MotionTimerSound

-----------------------------------------------------------------------------
(* The controller's operations.                                            *)

LEMMA Numbers ==
  /\ MotionTimeout \in Nat /\ WeatherTimeout \in Nat /\ QuietCap \in Nat
  /\ MaxShutdowns \in Nat
  /\ MotionTimeout <= QuietCap /\ WeatherTimeout <= QuietCap
  BY TimeoutAssumption

LEMMA TimeoutType == \A m \in Managers : Timeout[m] \in Nat
  BY Numbers DEF Managers, Timeout

LEMMA AtRestSound ==
  ASSUME NEW m \in Managers, NEW u \in BOOLEAN
  PROVE  Sound(m, AtRest(u)) /\ AtRest(u).phase = "idle"
<1>1. 0 \in 0..Timeout[m]
  BY TimeoutType
<1>2. AtRest(u) \in Timers(m)
  BY <1>1, Zenon DEF AtRest, Timers
<1>3. AtRest(u).phase = "idle" /\ ~AtRest(u).handle
  BY DEF AtRest
<1> QED BY <1>2, <1>3 DEF Sound

LEMMA UnusedSound == \A m \in Managers : Sound(m, Unused) /\ Unused.phase = "idle"
  BY AtRestSound DEF Unused

LEMMA CancelledSound ==
  ASSUME NEW m \in Managers, NEW t, Sound(m, t)
  PROVE  Sound(m, Cancelled(t)) /\ Cancelled(t).phase = "idle"
<1>1. CASE ~t.handle
  BY <1>1 DEF Sound, Timers, Cancelled
<1>2. CASE t.handle
  <2>1. (t.unwinding \/ t.phase = "callback") \in BOOLEAN
    OBVIOUS
  <2>2. Cancelled(t) = AtRest(t.unwinding \/ t.phase = "callback")
    BY <1>2 DEF Cancelled
  <2> QED BY <2>1, <2>2, AtRestSound
<1> QED BY <1>1, <1>2

LEMMA StartedSound ==
  ASSUME NEW m \in Managers, NEW t, Sound(m, t)
  PROVE  /\ Sound(m, Started(m, t))
         /\ Started(m, t).phase = "sleeping" /\ Started(m, t).left = Timeout[m]
<1>1. Cancelled(t) \in Timers(m)
  BY CancelledSound DEF Sound
<1>2. ASSUME NEW r \in Timers(m), NEW n \in 0..Timeout[m]
      PROVE  LET x == [r EXCEPT !.handle = TRUE, !.phase = "sleeping", !.left = n]
             IN  x \in Timers(m) /\ x.handle = TRUE /\ x.phase = "sleeping" /\ x.left = n
  BY DEF Timers
<1>3. Timeout[m] \in 0..Timeout[m]
  BY TimeoutType
<1> QED BY <1>1, <1>2, <1>3 DEF Started, Sound

LEMMA DoneSound ==
  ASSUME NEW m \in Managers, NEW t, Sound(m, t)
  PROVE  Sound(m, Done(t)) /\ Done(t).phase = "idle"
<1>1. t.unwinding \in BOOLEAN
  BY DEF Sound, Timers
<1> QED BY <1>1, AtRestSound DEF Done

LEMMA UnwoundSound ==
  ASSUME NEW m \in Managers, NEW t, Sound(m, t)
  PROVE  /\ Sound(m, Unwound(t))
         /\ Unwound(t).phase = t.phase /\ Unwound(t).left = t.left
  BY DEF Sound, Timers, Unwound

LEMMA CallbackSound ==
  ASSUME NEW m \in Managers, NEW t, Sound(m, t), Due(t)
  PROVE  Sound(m, [t EXCEPT !.phase = "callback"])
         /\ [t EXCEPT !.phase = "callback"].phase = "callback"
  BY DEF Sound, Timers, Due

LEMMA TickSound ==
  ASSUME NEW m \in Managers, NEW t, Sound(m, t), t.phase = "sleeping", ~Due(t)
  PROVE  /\ Sound(m, [t EXCEPT !.left = @ - 1])
         /\ [t EXCEPT !.left = @ - 1].left = t.left - 1
         /\ [t EXCEPT !.left = @ - 1].phase = t.phase
  BY TimeoutType DEF Sound, Timers, Due

-----------------------------------------------------------------------------
(* The invariant.                                                          *)

LEMMA InvSound == Inv => \A m \in Managers : Sound(m, timer[m])
  BY DEF Inv, TypeOK, OneTimer, Sound

(* What is left to show once the timers are known to be sound.             *)
LEMMA SoundInv ==
  ASSUME Inv,
         signal' \in [Managers -> BOOLEAN], flag' \in [Managers -> BOOLEAN],
         DOMAIN timer' = Managers, \A m \in Managers : Sound(m, timer'[m]),
         boot' \in {"starting", "settling", "up"}, refreshing' \in BOOLEAN,
         enabled' \in BOOLEAN, disabling' \in 0..MaxShutdowns,
         quiet' \in [Managers -> 0..QuietCap], lost' \subseteq {"event", "disable"},
         QuietSound', MotionTimerSound'
  PROVE  Inv'
<1>1. TypeOK'
  BY DEF TypeOK, Sound
<1>2. OneTimer'
  BY DEF OneTimer, Sound
<1> QED BY <1>1, <1>2 DEF Inv

LEMMA InitInv == Init => Inv
<1> SUFFICES ASSUME Init PROVE Inv
  OBVIOUS
<1>1. \A m \in Managers : Sound(m, timer[m])
  BY UnusedSound DEF Init
<1>2. TypeOK
  BY <1>1, Numbers DEF Init, TypeOK, Sound
<1>3. OneTimer
  BY <1>1 DEF OneTimer, Sound
<1>4. QuietSound /\ MotionTimerSound
  BY UnusedSound DEF Init, QuietSound, MotionTimerSound, Managers
<1> QED BY <1>2, <1>3, <1>4 DEF Inv
LEMMA ReadsSound ==
  ASSUME Inv, NEW m \in Managers, NEW now \in BOOLEAN, Reads(m, now)
  PROVE  /\ signal' \in [Managers -> BOOLEAN] /\ quiet' \in [Managers -> 0..QuietCap]
         /\ QuietSound'
         /\ signal'[m] = now
         /\ \A k \in Managers \ {m} : signal'[k] = signal[k] /\ quiet'[k] = quiet[k]
<1>1. signal \in [Managers -> BOOLEAN] /\ quiet \in [Managers -> 0..QuietCap] /\ QuietSound
  BY DEF Inv, TypeOK
<1>2. 0 \in 0..QuietCap
  BY Numbers
<1> QED BY <1>1, <1>2 DEF Reads, QuietSound

LEMMA NewTimerSound ==
  ASSUME Inv, NEW m \in Managers, NEW t, Sound(m, t), NewTimer(m, t)
  PROVE  /\ DOMAIN timer' = Managers /\ \A k \in Managers : Sound(k, timer'[k])
         /\ timer'[m] = t /\ \A k \in Managers \ {m} : timer'[k] = timer[k]
<1>1. DOMAIN timer = Managers
  BY DEF Inv, TypeOK
<1>2. timer'[m] = t /\ \A k \in Managers \ {m} : timer'[k] = timer[k]
  BY <1>1 DEF NewTimer
<1>3. DOMAIN timer' = Managers
  BY <1>1 DEF NewTimer
<1>4. \A k \in Managers : Sound(k, timer'[k])
  BY <1>2, InvSound
<1> QED BY <1>2, <1>3, <1>4

LEMMA CycleRunsSound ==
  ASSUME Inv, NEW ctl, DOMAIN ctl = Managers, \A k \in Managers : Sound(k, ctl[k]),
         CycleRuns(ctl)
  PROVE  /\ flag' \in [Managers -> BOOLEAN] /\ boot' \in {"starting", "settling", "up"}
         /\ DOMAIN timer' = Managers /\ \A k \in Managers : Sound(k, timer'[k])
         /\ timer'["motion"] = ctl["motion"] /\ flag'["motion"] = flag["motion"]
<1> DEFINE recovers == boot = "starting" /\ signal["weather"]
           up == flag["weather"] \/ recovers
           t  == IF recovers THEN Cancelled(ctl["weather"]) ELSE ctl["weather"]
           w  == Reconciled(up, t)
<1>1. "weather" \in Managers /\ "motion" \in Managers
  BY DEF Managers
<1>2. Sound("weather", t)
  BY <1>1, CancelledSound
<1>3. Sound("weather", w)
  BY <1>1, <1>2, StartedSound DEF Reconciled
<1>4. /\ flag' = [flag EXCEPT !["weather"] = up]
      /\ timer' = [ctl EXCEPT !["weather"] = w]
      /\ boot'  = IF boot = "starting" THEN "settling" ELSE boot
  BY DEF CycleRuns
<1>5. up \in BOOLEAN /\ flag \in [Managers -> BOOLEAN] /\ boot \in {"starting", "settling", "up"}
  BY DEF Inv, TypeOK
<1> HIDE DEF recovers, up, t, w
<1>6. flag' \in [Managers -> BOOLEAN] /\ flag'["motion"] = flag["motion"]
  BY <1>1, <1>4, <1>5
<1>7. /\ DOMAIN timer' = Managers /\ timer'["weather"] = w
      /\ \A k \in Managers \ {"weather"} : timer'[k] = ctl[k]
  BY <1>1, <1>4
<1>8. \A k \in Managers : Sound(k, timer'[k])
  BY <1>3, <1>7
<1>9. timer'["motion"] = ctl["motion"]
  BY <1>1, <1>7
<1> QED BY <1>4, <1>5, <1>6, <1>7, <1>8, <1>9

-----------------------------------------------------------------------------
(* Every step keeps the invariant.                                         *)

LEMMA ReportInv ==
  ASSUME Inv, MotionDetected \/ MotionCleared \/ WeatherActive \/ WeatherClear
  PROVE  Inv'
<1>1. "motion" \in Managers /\ "weather" \in Managers
      /\ \A m \in Managers : Sound(m, timer[m])
  BY InvSound DEF Managers
<1>2. TypeOK /\ QuietSound /\ MotionTimerSound
  BY DEF Inv
<1>3. CASE MotionDetected
  <2>1. Sound("motion", Cancelled(timer["motion"]))
        /\ Cancelled(timer["motion"]).phase = "idle"
    BY <1>1, CancelledSound
  <2>2. timer'["motion"] = Cancelled(timer["motion"])
        /\ DOMAIN timer' = Managers /\ \A k \in Managers : Sound(k, timer'[k])
    BY <1>1, <1>3, <2>1, NewTimerSound DEF MotionDetected
  <2>3. /\ signal' \in [Managers -> BOOLEAN] /\ quiet' \in [Managers -> 0..QuietCap]
        /\ QuietSound'
    BY <1>1, <1>3, ReadsSound DEF MotionDetected
  <2>4. MotionTimerSound'
    BY <2>1, <2>2 DEF MotionTimerSound
  <2>5. flag' \in [Managers -> BOOLEAN] /\ refreshing' \in BOOLEAN
    BY <1>2, <1>3 DEF MotionDetected, TypeOK
  <2> QED BY <1>2, <1>3, <2>2, <2>3, <2>4, <2>5, SoundInv DEF MotionDetected, TypeOK
<1>4. CASE MotionCleared
  <2>1. /\ Sound("motion", Started("motion", timer["motion"]))
        /\ Started("motion", timer["motion"]).left = MotionTimeout
    BY <1>1, StartedSound DEF Timeout
  <2>2. timer'["motion"] = Started("motion", timer["motion"])
        /\ DOMAIN timer' = Managers /\ \A k \in Managers : Sound(k, timer'[k])
    BY <1>1, <1>4, <2>1, NewTimerSound DEF MotionCleared
  <2>3. /\ signal' \in [Managers -> BOOLEAN] /\ quiet' \in [Managers -> 0..QuietCap]
        /\ QuietSound' /\ signal'["motion"] = FALSE
    BY <1>1, <1>4, ReadsSound DEF MotionCleared
  <2>4. MotionTimerSound'
    BY <1>1, <2>1, <2>2, <2>3, Numbers DEF MotionTimerSound
  <2> QED BY <1>2, <1>4, <2>2, <2>3, <2>4, SoundInv DEF MotionCleared, TypeOK
<1>5. CASE WeatherActive
  <2>1. Sound("weather", Cancelled(timer["weather"]))
    BY <1>1, CancelledSound
  <2>2. timer'["motion"] = timer["motion"]
        /\ DOMAIN timer' = Managers /\ \A k \in Managers : Sound(k, timer'[k])
    BY <1>1, <1>2, <1>5, <2>1, NewTimerSound DEF WeatherActive, TypeOK
  <2>3. /\ signal' \in [Managers -> BOOLEAN] /\ quiet' \in [Managers -> 0..QuietCap]
        /\ QuietSound' /\ signal'["motion"] = signal["motion"] /\ quiet'["motion"] = quiet["motion"]
    BY <1>1, <1>5, ReadsSound DEF WeatherActive
  <2>4. MotionTimerSound'
    BY <1>2, <2>2, <2>3 DEF MotionTimerSound
  <2>5. flag' \in [Managers -> BOOLEAN]
    BY <1>2, <1>5 DEF WeatherActive, TypeOK
  <2> QED BY <1>2, <1>5, <2>2, <2>3, <2>4, <2>5, SoundInv DEF WeatherActive, TypeOK
<1>6. CASE WeatherClear
  <2>1. Sound("weather", IF flag["weather"] /\ ~IsRunning(timer["weather"])
                         THEN Started("weather", timer["weather"]) ELSE timer["weather"])
    BY <1>1, StartedSound
  <2>2. timer'["motion"] = timer["motion"]
        /\ DOMAIN timer' = Managers /\ \A k \in Managers : Sound(k, timer'[k])
    BY <1>1, <1>6, <2>1, NewTimerSound DEF WeatherClear
  <2>3. /\ signal' \in [Managers -> BOOLEAN] /\ quiet' \in [Managers -> 0..QuietCap]
        /\ QuietSound' /\ signal'["motion"] = signal["motion"] /\ quiet'["motion"] = quiet["motion"]
    BY <1>1, <1>6, ReadsSound DEF WeatherClear
  <2>4. MotionTimerSound'
    BY <1>2, <2>2, <2>3 DEF MotionTimerSound
  <2> QED BY <1>2, <1>6, <2>2, <2>3, <2>4, SoundInv DEF WeatherClear, TypeOK
<1> QED BY <1>3, <1>4, <1>5, <1>6

LEMMA RemovedInv ==
  ASSUME Inv, NEW m \in Managers, SourceRemoved(m)
  PROVE  Inv'
<1>1. TypeOK /\ QuietSound /\ MotionTimerSound /\ \A k \in Managers : Sound(k, timer[k])
  BY InvSound DEF Inv
<1>2. "motion" \in Managers
  BY DEF Managers
<1>3. /\ signal' \in [Managers -> BOOLEAN] /\ quiet' \in [Managers -> 0..QuietCap]
      /\ QuietSound'
      /\ \A k \in Managers \ {m} : signal'[k] = signal[k] /\ quiet'[k] = quiet[k]
  BY ReadsSound DEF SourceRemoved
<1>4. MotionTimerSound'
  BY <1>1, <1>2, <1>3 DEF SourceRemoved, MotionTimerSound
<1>5. lost' \subseteq {"event", "disable"}
  BY <1>1 DEF SourceRemoved, TypeOK
<1> QED BY <1>1, <1>3, <1>4, <1>5, SoundInv DEF SourceRemoved, TypeOK

LEMMA ExpireInv ==
  ASSUME Inv, NEW m \in Managers, Expire(m)
  PROVE  Inv'
<1> DEFINE t == IF ~signal[m] THEN [timer[m] EXCEPT !.phase = "callback"] ELSE Done(timer[m])
<1>1. TypeOK /\ QuietSound /\ MotionTimerSound /\ \A k \in Managers : Sound(k, timer[k])
  BY InvSound DEF Inv
<1>2. Sound(m, t) /\ t.phase # "sleeping"
  BY <1>1, CallbackSound, DoneSound DEF Expire
<1>3. NewTimer(m, t)
  BY DEF Expire
<1> HIDE DEF t
<1>4. /\ DOMAIN timer' = Managers /\ \A k \in Managers : Sound(k, timer'[k])
      /\ timer'[m] = t /\ \A k \in Managers \ {m} : timer'[k] = timer[k]
  BY <1>2, <1>3, NewTimerSound
<1>5. flag' \in [Managers -> BOOLEAN]
  BY <1>1 DEF Expire, TypeOK
<1>6. MotionTimerSound'
  BY <1>1, <1>2, <1>4 DEF Expire, MotionTimerSound, Managers
<1>7. QuietSound'
  BY <1>1 DEF Expire, QuietSound
<1> QED BY <1>1, <1>4, <1>5, <1>6, <1>7, SoundInv DEF Expire, TypeOK

LEMMA CallbackEndsInv ==
  ASSUME Inv, NEW m \in Managers, CallbackEnds(m)
  PROVE  Inv'
<1> DEFINE ctl == [timer EXCEPT ![m] = Done(timer[m])]
<1>1. TypeOK /\ QuietSound /\ MotionTimerSound /\ \A k \in Managers : Sound(k, timer[k])
  BY InvSound DEF Inv
<1>2. /\ DOMAIN ctl = Managers /\ ctl[m] = Done(timer[m])
      /\ \A k \in Managers \ {m} : ctl[k] = timer[k]
  BY <1>1 DEF TypeOK
<1>3. Sound(m, Done(timer[m])) /\ Done(timer[m]).phase = "idle"
  BY <1>1, DoneSound
<1>4. CycleRuns(ctl)
  BY DEF CallbackEnds
<1> HIDE DEF ctl
<1>5. \A k \in Managers : Sound(k, ctl[k])
  BY <1>1, <1>2, <1>3
<1>6. /\ flag' \in [Managers -> BOOLEAN] /\ boot' \in {"starting", "settling", "up"}
      /\ DOMAIN timer' = Managers /\ \A k \in Managers : Sound(k, timer'[k])
      /\ timer'["motion"] = ctl["motion"]
  BY <1>2, <1>4, <1>5, CycleRunsSound
<1>7. MotionTimerSound'
  BY <1>1, <1>2, <1>3, <1>6 DEF CallbackEnds, MotionTimerSound, Managers
<1>8. QuietSound'
  BY <1>1 DEF CallbackEnds, QuietSound
<1> QED BY <1>1, <1>6, <1>7, <1>8, SoundInv DEF CallbackEnds, TypeOK

LEMMA UnwindInv ==
  ASSUME Inv, NEW m \in Managers, Unwind(m)
  PROVE  Inv'
<1>1. TypeOK /\ QuietSound /\ MotionTimerSound /\ \A k \in Managers : Sound(k, timer[k])
  BY InvSound DEF Inv
<1>2. /\ Sound(m, Unwound(timer[m]))
      /\ Unwound(timer[m]).phase = timer[m].phase /\ Unwound(timer[m]).left = timer[m].left
  BY <1>1, UnwoundSound
<1>3. /\ DOMAIN timer' = Managers /\ \A k \in Managers : Sound(k, timer'[k])
      /\ timer'[m] = Unwound(timer[m]) /\ \A k \in Managers \ {m} : timer'[k] = timer[k]
  BY <1>2, NewTimerSound DEF Unwind
<1>4. MotionTimerSound' /\ QuietSound'
  BY <1>1, <1>2, <1>3 DEF Unwind, MotionTimerSound, QuietSound, Managers
<1> QED BY <1>1, <1>3, <1>4, SoundInv DEF Unwind, TypeOK

LEMMA TickInv ==
  ASSUME Inv, Tick
  PROVE  Inv'
<1>1. TypeOK /\ QuietSound /\ MotionTimerSound /\ \A k \in Managers : Sound(k, timer[k])
  BY InvSound DEF Inv
<1>2. \A m \in Managers : timer'[m] =
        IF timer[m].phase = "sleeping" THEN [timer[m] EXCEPT !.left = @ - 1] ELSE timer[m]
  BY DEF Tick
<1>3. DOMAIN timer' = Managers /\ \A k \in Managers : Sound(k, timer'[k])
  BY <1>1, <1>2, TickSound DEF Tick
<1>4. \A m \in Managers : quiet'[m] =
        IF signal[m] \/ quiet[m] = QuietCap THEN quiet[m] ELSE quiet[m] + 1
  BY DEF Tick
<1>5. \A m \in Managers : quiet[m] \in 0..QuietCap
  BY <1>1 DEF TypeOK
<1>6. quiet' \in [Managers -> 0..QuietCap]
  <2>1. \A m \in Managers : quiet'[m] \in 0..QuietCap
    BY <1>4, <1>5, Numbers
  <2> QED BY <2>1 DEF Tick
<1>7. QuietSound'
  BY <1>1, <1>4 DEF Tick, QuietSound
<1>8. MotionTimerSound'
  <2> SUFFICES ASSUME timer'["motion"].phase = "sleeping"
               PROVE  ~signal'["motion"]
                      /\ quiet'["motion"] + timer'["motion"].left >= MotionTimeout
    BY DEF MotionTimerSound
  <2>1. "motion" \in Managers /\ ~Due(timer["motion"])
    BY DEF Managers, Tick
  <2>2. timer["motion"].phase = "sleeping" /\ timer'["motion"].left = timer["motion"].left - 1
    BY <1>1, <1>2, <2>1, TickSound
  <2>3. ~signal["motion"] /\ quiet["motion"] + timer["motion"].left >= MotionTimeout
    BY <1>1, <2>2 DEF MotionTimerSound
  <2>4. timer["motion"].left \in Nat /\ timer["motion"].left > 0
    BY <1>1, <2>1, <2>2, TimeoutType DEF Sound, Timers, Due
  <2>5. quiet'["motion"] = IF quiet["motion"] = QuietCap THEN quiet["motion"]
                                                        ELSE quiet["motion"] + 1
    BY <1>4, <2>1, <2>3
  <2>6. quiet["motion"] \in Nat
    BY <1>5, <2>1, Numbers
  <2> QED BY <2>2, <2>3, <2>4, <2>5, <2>6, Numbers DEF Tick
<1> QED BY <1>1, <1>3, <1>6, <1>7, <1>8, SoundInv DEF Tick, TypeOK

LEMMA RefreshInv ==
  ASSUME Inv, Refresh
  PROVE  Inv'
<1>1. TypeOK /\ QuietSound /\ MotionTimerSound /\ \A k \in Managers : Sound(k, timer[k])
  BY InvSound DEF Inv
<1>2. DOMAIN timer = Managers
  BY <1>1 DEF TypeOK
<1>3. /\ flag' \in [Managers -> BOOLEAN] /\ boot' \in {"starting", "settling", "up"}
      /\ DOMAIN timer' = Managers /\ \A k \in Managers : Sound(k, timer'[k])
      /\ timer'["motion"] = timer["motion"]
  BY <1>1, <1>2, CycleRunsSound DEF Refresh
<1>4. MotionTimerSound' /\ QuietSound'
  BY <1>1, <1>3 DEF Refresh, MotionTimerSound, QuietSound
<1> QED BY <1>1, <1>3, <1>4, SoundInv DEF Refresh, TypeOK

LEMMA InitialMotionInv ==
  ASSUME Inv, InitialMotion
  PROVE  Inv'
<1>1. TypeOK /\ QuietSound /\ "motion" \in Managers /\ \A k \in Managers : Sound(k, timer[k])
  BY InvSound DEF Inv, Managers
<1>2. Sound("motion", Cancelled(timer["motion"])) /\ Cancelled(timer["motion"]).phase = "idle"
  BY <1>1, CancelledSound
<1>3. /\ DOMAIN timer' = Managers /\ \A k \in Managers : Sound(k, timer'[k])
      /\ timer'["motion"] = Cancelled(timer["motion"])
  BY <1>1, <1>2, NewTimerSound DEF InitialMotion
<1>4. MotionTimerSound' /\ QuietSound'
  BY <1>1, <1>2, <1>3 DEF InitialMotion, MotionTimerSound, QuietSound
<1>5. flag' \in [Managers -> BOOLEAN]
  BY <1>1 DEF InitialMotion, TypeOK
<1> QED BY <1>1, <1>3, <1>4, <1>5, SoundInv DEF InitialMotion, TypeOK

LEMMA SwitchInv ==
  ASSUME Inv, TrackedEntityChanges \/ Disable \/ DisableEnds \/ Enable
  PROVE  Inv'
<1>1. TypeOK /\ QuietSound /\ MotionTimerSound /\ \A k \in Managers : Sound(k, timer[k])
  BY InvSound DEF Inv
<1>2. QuietSound'
  BY <1>1 DEF QuietSound, TrackedEntityChanges, Disable, DisableEnds, Enable
<1>3. CASE TrackedEntityChanges \/ Disable \/ Enable
  <2>1. UNCHANGED <<timer, signal, quiet, flag, boot, lost>>
    BY <1>3 DEF TrackedEntityChanges, Disable, Enable
  <2>2. MotionTimerSound'
    BY <1>1, <2>1 DEF MotionTimerSound
  <2>3. disabling' \in 0..MaxShutdowns
    <3>1. disabling \in 0..MaxShutdowns
      BY <1>1 DEF TypeOK
    <3> QED BY <1>3, <3>1, Numbers DEF TrackedEntityChanges, Disable, Enable
  <2>4. {refreshing', enabled'} \subseteq BOOLEAN
    <3>1. {refreshing, enabled} \subseteq BOOLEAN
      BY <1>1 DEF TypeOK
    <3> QED BY ONLY <1>3, <3>1, Zenon DEF TrackedEntityChanges, Disable, Enable
  <2> QED BY <1>1, <1>2, <2>1, <2>2, <2>3, <2>4, SoundInv DEF TypeOK
<1>4. CASE DisableEnds
  <2>1. /\ DOMAIN timer' = Managers
        /\ \A m \in Managers : timer'[m] = Cancelled(timer[m])
    BY <1>4 DEF DisableEnds
  <2>2. \A m \in Managers : Sound(m, timer'[m]) /\ timer'[m].phase = "idle"
    BY <1>1, <2>1, CancelledSound
  <2>3. MotionTimerSound'
    BY <2>2 DEF MotionTimerSound, Managers
  <2>4. disabling' \in 0..MaxShutdowns /\ lost' \subseteq {"event", "disable"}
    BY <1>1, <1>4, Numbers DEF DisableEnds, TypeOK
  <2> QED BY <1>1, <1>2, <1>4, <2>1, <2>2, <2>3, <2>4, SoundInv DEF DisableEnds, TypeOK
<1> QED BY <1>3, <1>4

LEMMA RestartInv ==
  ASSUME Inv, Restart
  PROVE  Inv'
<1>1. TypeOK
  BY DEF Inv
<1>2. DOMAIN timer' = Managers /\ \A m \in Managers : timer'[m] = Unused
  BY DEF Restart
<1>3. \A m \in Managers : Sound(m, timer'[m]) /\ timer'[m].phase = "idle"
  BY <1>2, UnusedSound
<1>4. MotionTimerSound' /\ QuietSound'
  BY <1>3 DEF Restart, MotionTimerSound, QuietSound, Managers
<1>5. /\ flag' \in [Managers -> BOOLEAN] /\ quiet' \in [Managers -> 0..QuietCap]
      /\ disabling' \in 0..MaxShutdowns
  BY Numbers DEF Restart
<1> QED BY <1>1, <1>2, <1>3, <1>4, <1>5, SoundInv DEF Restart, TypeOK

LEMMA NextInv == Inv /\ [Next]_vars => Inv'
<1> SUFFICES ASSUME Inv, [Next]_vars PROVE Inv'
  OBVIOUS
<1>1. CASE Environment
  BY <1>1, ReportInv, RemovedInv, SwitchInv, RestartInv DEF Environment
<1>2. CASE \E m \in Managers : Expire(m) \/ CallbackEnds(m) \/ Unwind(m)
  BY <1>2, ExpireInv, CallbackEndsInv, UnwindInv
<1>3. CASE Tick \/ Refresh \/ InitialMotion \/ DisableEnds
  BY <1>3, TickInv, RefreshInv, InitialMotionInv, SwitchInv
<1>4. CASE UNCHANGED vars
  BY <1>4 DEF vars, Inv, TypeOK, OneTimer, QuietSound, MotionTimerSound, Due
<1> QED BY <1>1, <1>2, <1>3, <1>4 DEF Next

LEMMA Invariance == Spec => []Inv
<1>1. Inv /\ [Next]_vars => Inv'
  BY NextInv
<1> QED BY <1>1, InitInv, PTL DEF Spec

(* The timers, flags and quiet times keep their types: above all a timer   *)
(* never sleeps longer than its manager's timeout.                         *)
THEOREM TypeCorrect == Spec => []TypeOK
<1>1. Inv => TypeOK
  BY DEF Inv
<1> QED BY <1>1, Invariance, PTL

(* TimeoutController never has two parallel timers nor a stale handle,     *)
(* whatever its managers, the master switch and restarts do to it.         *)
THEOREM OneTimerAlways == Spec => []OneTimer
<1>1. Inv => OneTimer
  BY DEF Inv
<1> QED BY <1>1, Invariance, PTL

-----------------------------------------------------------------------------
(* The watch over an empty room.                                           *)

(* A no-motion callback runs only once its flag is set.                    *)
CallbackFlagged == timer["motion"].phase = "callback" => flag["motion"]

Watch == CallbackFlagged /\ MotionWatched

(* A step that leaves the motion manager alone keeps the watch.            *)
LEMMA WatchFrame ==
  ASSUME Watch, UNCHANGED <<signal["motion"], flag["motion"], timer["motion"], lost>>,
         boot' = "up" => boot = "up"
  PROVE  Watch'
  BY DEF Watch, CallbackFlagged, MotionWatched, Watched, IsRunning

LEMMA ReportWatch ==
  ASSUME Inv, Watch, MotionDetected \/ MotionCleared \/ WeatherActive \/ WeatherClear
  PROVE  Watch'
<1>1. /\ "motion" \in Managers /\ "weather" \in Managers /\ DOMAIN timer = Managers
      /\ signal \in [Managers -> BOOLEAN] /\ flag \in [Managers -> BOOLEAN]
      /\ \A m \in Managers : Sound(m, timer[m])
  BY InvSound DEF Managers, Inv, TypeOK
<1>2. CASE MotionDetected
  <2>1. signal'["motion"] /\ timer'["motion"] = Cancelled(timer["motion"])
    BY <1>1, <1>2 DEF MotionDetected, Reads, NewTimer
  <2> QED BY <1>1, <2>1, CancelledSound
          DEF Watch, CallbackFlagged, MotionWatched
<1>3. CASE MotionCleared
  <2>1. timer'["motion"] = Started("motion", timer["motion"])
    BY <1>1, <1>3 DEF MotionCleared, NewTimer
  <2>2. timer'["motion"].handle /\ timer'["motion"].phase = "sleeping"
    BY <1>1, <2>1, StartedSound DEF Sound
  <2> QED BY <2>2 DEF Watch, CallbackFlagged, MotionWatched, Watched, IsRunning
<1>4. CASE WeatherActive \/ WeatherClear
  <2>1. UNCHANGED <<signal["motion"], flag["motion"], timer["motion"], lost, boot>>
    BY <1>1, <1>4 DEF WeatherActive, WeatherClear, Reads, NewTimer
  <2> QED BY <2>1, WatchFrame
<1> QED BY <1>2, <1>3, <1>4

LEMMA TimerWatch ==
  ASSUME Inv, Watch, NEW m \in Managers, Expire(m) \/ CallbackEnds(m) \/ Unwind(m)
  PROVE  Watch'
<1>1. /\ "motion" \in Managers /\ "weather" \in Managers /\ DOMAIN timer = Managers
      /\ signal \in [Managers -> BOOLEAN] /\ flag \in [Managers -> BOOLEAN]
      /\ \A k \in Managers : Sound(k, timer[k])
  BY InvSound DEF Managers, Inv, TypeOK
<1>2. CASE Expire(m) /\ m = "weather"
  BY <1>1, <1>2, WatchFrame DEF Expire, NewTimer
<1>3. CASE Expire(m) /\ m = "motion" /\ ~signal["motion"]
  <2>1. flag'["motion"]
    BY <1>1, <1>3 DEF Expire
  <2> QED BY <2>1 DEF Watch, CallbackFlagged, MotionWatched, Watched
<1>4. CASE Expire(m) /\ m = "motion" /\ signal["motion"]
  <2>1. signal'["motion"] /\ timer'["motion"] = Done(timer["motion"])
    BY <1>1, <1>4 DEF Expire, NewTimer
  <2> QED BY <1>1, <2>1, DoneSound DEF Watch, CallbackFlagged, MotionWatched
<1>5. CASE CallbackEnds(m)
  <2> DEFINE ctl == [timer EXCEPT ![m] = Done(timer[m])]
  <2>1. /\ DOMAIN ctl = Managers /\ ctl[m] = Done(timer[m])
        /\ \A k \in Managers \ {m} : ctl[k] = timer[k]
    BY <1>1
  <2>2. Sound(m, Done(timer[m])) /\ Done(timer[m]).phase = "idle"
    BY <1>1, DoneSound
  <2>3. CycleRuns(ctl)
    BY <1>5 DEF CallbackEnds
  <2> HIDE DEF ctl
  <2>4. \A k \in Managers : Sound(k, ctl[k])
    BY <1>1, <2>1, <2>2
  <2>5. timer'["motion"] = ctl["motion"] /\ flag'["motion"] = flag["motion"]
    BY <2>1, <2>3, <2>4, CycleRunsSound
  <2>6. UNCHANGED <<signal, lost>> /\ (boot' = "up" => boot = "up")
    BY <1>5 DEF CallbackEnds, CycleRuns
  <2>7. CASE m = "weather"
    BY <1>1, <2>1, <2>5, <2>6, <2>7, WatchFrame
  <2>8. CASE m = "motion"
    <3>1. flag'["motion"]
      BY <1>5, <2>5, <2>8 DEF CallbackEnds, Watch, CallbackFlagged
    <3> QED BY <3>1 DEF Watch, CallbackFlagged, MotionWatched, Watched
  <2> QED BY <2>7, <2>8 DEF Managers
<1>6. CASE Unwind(m)
  <2>1. /\ timer'[m] = Unwound(timer[m]) /\ \A k \in Managers \ {m} : timer'[k] = timer[k]
        /\ UNCHANGED <<signal, flag, lost, boot>>
    BY <1>1, <1>6 DEF Unwind, NewTimer
  <2>2. Unwound(timer[m]).phase = timer[m].phase /\ Unwound(timer[m]).handle = timer[m].handle
    BY <1>1, UnwoundSound DEF Unwound, Sound, Timers
  <2>3. /\ timer'["motion"].phase = timer["motion"].phase
        /\ timer'["motion"].handle = timer["motion"].handle
    BY <1>1, <2>1, <2>2
  <2> QED BY <2>1, <2>3 DEF Watch, CallbackFlagged, MotionWatched, Watched, IsRunning
<1> QED BY <1>2, <1>3, <1>4, <1>5, <1>6 DEF Managers

LEMMA LoopWatch ==
  ASSUME Inv, Watch, Tick \/ Refresh \/ InitialMotion \/ DisableEnds
  PROVE  Watch'
<1>1. /\ "motion" \in Managers /\ "weather" \in Managers /\ DOMAIN timer = Managers
      /\ signal \in [Managers -> BOOLEAN] /\ flag \in [Managers -> BOOLEAN]
      /\ \A m \in Managers : Sound(m, timer[m])
  BY InvSound DEF Managers, Inv, TypeOK
<1>2. CASE Tick
  <2>1. /\ timer'["motion"].phase = timer["motion"].phase
        /\ timer'["motion"].handle = timer["motion"].handle
    BY <1>1, <1>2 DEF Tick, Sound, Timers
  <2>2. UNCHANGED <<signal, flag, boot, lost>>
    BY <1>2 DEF Tick
  <2> QED BY <2>1, <2>2 DEF Watch, CallbackFlagged, MotionWatched, Watched, IsRunning
<1>3. CASE Refresh
  <2>1. timer'["motion"] = timer["motion"] /\ flag'["motion"] = flag["motion"]
    BY <1>1, <1>3, CycleRunsSound DEF Refresh
  <2>2. UNCHANGED <<signal, lost>> /\ (boot' = "up" => boot = "up")
    BY <1>3 DEF Refresh, CycleRuns
  <2> QED BY <2>1, <2>2, WatchFrame
<1>4. CASE InitialMotion
  <2>1. /\ timer'["motion"] = Cancelled(timer["motion"]) /\ flag'["motion"] = ~signal["motion"]
        /\ UNCHANGED <<signal, lost>>
    BY <1>1, <1>4 DEF InitialMotion, NewTimer
  <2>2. timer'["motion"].phase = "idle"
    BY <1>1, <2>1, CancelledSound
  <2> QED BY <2>1, <2>2 DEF Watch, CallbackFlagged, MotionWatched, Watched
<1>5. CASE DisableEnds
  <2>1. timer'["motion"].phase = "idle" /\ lost' # {}
    BY <1>1, <1>5, CancelledSound DEF DisableEnds
  <2> QED BY <2>1 DEF Watch, CallbackFlagged, MotionWatched
<1> QED BY <1>2, <1>3, <1>4, <1>5

LEMMA EnvironmentWatch ==
  ASSUME Inv, Watch,
         \/ Restart \/ TrackedEntityChanges \/ Disable \/ Enable
         \/ \E m \in Managers : SourceRemoved(m)
  PROVE  Watch'
<1>1. CASE Restart
  <2>1. timer'["motion"].phase = "idle" /\ boot' # "up"
    BY <1>1, UnusedSound DEF Restart, Managers
  <2> QED BY <2>1 DEF Watch, CallbackFlagged, MotionWatched
<1>2. CASE TrackedEntityChanges \/ Disable \/ Enable
  BY <1>2, WatchFrame DEF TrackedEntityChanges, Disable, Enable
<1>3. CASE \E m \in Managers : SourceRemoved(m)
  <2>1. PICK m \in Managers : SourceRemoved(m)
    BY <1>3
  <2>2. CASE m = "motion"
    BY <2>1, <2>2 DEF SourceRemoved, Watch, CallbackFlagged, MotionWatched
  <2>3. CASE m = "weather"
    <3>1. signal'["motion"] = signal["motion"]
      BY <2>1, <2>3 DEF SourceRemoved, Reads, Inv, TypeOK, Managers
    <3> QED BY <2>1, <2>3, <3>1, WatchFrame DEF SourceRemoved
  <2> QED BY <2>2, <2>3 DEF Managers
<1> QED BY <1>1, <1>2, <1>3

LEMMA WatchStep == Inv /\ Watch /\ [Next]_vars => Watch'
<1> SUFFICES ASSUME Inv, Watch, [Next]_vars PROVE Watch'
  OBVIOUS
<1>1. CASE Environment
  BY <1>1, ReportWatch, EnvironmentWatch DEF Environment
<1>2. CASE \E m \in Managers : Expire(m) \/ CallbackEnds(m) \/ Unwind(m)
  BY <1>2, TimerWatch
<1>3. CASE Tick \/ Refresh \/ InitialMotion \/ DisableEnds
  BY <1>3, LoopWatch
<1>4. CASE UNCHANGED vars
  BY <1>4, WatchFrame DEF vars
<1> QED BY <1>1, <1>2, <1>3, <1>4 DEF Next

(* Once started, an unoccupied entry has timed out or has a timer that     *)
(* will see to it, unless a source vanished without a report or a disable  *)
(* took the timer.                                                         *)
THEOREM EmptyRoomWatched == Spec => []MotionWatched
<1>1. Init => Watch
  BY UnusedSound DEF Init, Watch, CallbackFlagged, MotionWatched, Managers
<1>2. Watch => MotionWatched
  BY DEF Watch
<1> QED BY <1>1, <1>2, WatchStep, Invariance, PTL DEF Spec

-----------------------------------------------------------------------------
(* Both managers implement HoldOff, for every length of the timeouts.      *)

LEMMA Shape ==
  Inv => /\ "motion" \in Managers /\ "weather" \in Managers
         /\ signal \in [Managers -> BOOLEAN] /\ flag \in [Managers -> BOOLEAN]
         /\ quiet \in [Managers -> 0..QuietCap] /\ QuietSound
         /\ boot \in {"starting", "settling", "up"}
  BY DEF Inv, TypeOK, Managers

(* The steps that read and write only what belongs to the other manager.   *)
LEMMA OthersFrame ==
  ASSUME Inv, \/ TrackedEntityChanges \/ Disable \/ Enable \/ DisableEnds
              \/ \E m \in Managers : Unwind(m)
              \/ UNCHANGED vars
  PROVE  UNCHANGED <<signal, flag, quiet, boot>>
  BY DEF TrackedEntityChanges, Disable, Enable, DisableEnds, Unwind, vars

(* An update cycle brings the weather override up when it is the first,    *)
(* and changes no flag when it is not.                                     *)
LEMMA CycleFlags ==
  ASSUME Inv, NEW ctl, CycleRuns(ctl), UNCHANGED <<signal, quiet>>
  PROVE  /\ flag'["motion"] = flag["motion"] /\ (boot' = "up" <=> boot = "up")
         /\ Weather!Next \/ UNCHANGED Weather!vars
<1>1. flag' = [flag EXCEPT !["weather"] = @ \/ (boot = "starting" /\ signal["weather"])]
      /\ boot' = IF boot = "starting" THEN "settling" ELSE boot
  BY Zenon DEF CycleRuns
<1>2. flag'["motion"] = flag["motion"]
  BY <1>1, Shape
<1>3. flag'["weather"] = (flag["weather"] \/ (boot = "starting" /\ signal["weather"]))
  BY <1>1, Shape
<1>4. CASE boot = "starting"
  <2>1. flag'["weather"] \in {h \in BOOLEAN : signal["weather"] => h}
    BY <1>3, <1>4, Shape
  <2> QED BY <1>1, <1>2, <1>4, <2>1 DEF Weather!Next, Weather!Started
<1>5. CASE boot # "starting"
  <2>1. flag'["weather"] = flag["weather"]
    BY <1>3, <1>5, Shape
  <2> QED BY <1>1, <1>2, <1>5, <2>1 DEF Weather!vars
<1> QED BY <1>4, <1>5

LEMMA RestartStep ==
  ASSUME Inv, Restart
  PROVE  Weather!Next /\ Motion!Next
<1>1. signal' \in [Managers -> BOOLEAN] /\ quiet' = [m \in Managers |-> 0]
      /\ flag' = [m \in Managers |-> FALSE] /\ boot' = "starting"
  BY Zenon DEF Restart
<1>2. Weather!Restarted
  BY <1>1, Shape DEF Weather!Restarted
<1>3. Motion!Restarted
  BY <1>1, Shape DEF Motion!Restarted
<1> QED BY <1>2, <1>3 DEF Weather!Next, Motion!Next

LEMMA TickStep ==
  ASSUME Inv, Tick
  PROVE  /\ Weather!Next \/ UNCHANGED Weather!vars
         /\ Motion!Next \/ UNCHANGED Motion!vars
<1>1. UNCHANGED <<signal, flag, boot>>
  BY DEF Tick
<1>2. \A m \in Managers :
        \/ ~signal[m] /\ quiet[m] < QuietCap /\ quiet'[m] = quiet[m] + 1
        \/ quiet'[m] = quiet[m]
  <2> TAKE m \in Managers
  <2>1. quiet[m] \in 0..QuietCap
    BY Shape
  <2>2. CASE signal[m] \/ quiet[m] = QuietCap
    BY <2>2 DEF Tick
  <2>3. CASE ~signal[m] /\ quiet[m] # QuietCap
    <3>1. quiet'[m] = quiet[m] + 1
      BY <2>3 DEF Tick
    <3>2. quiet[m] < QuietCap
      BY <2>1, <2>3, Numbers
    <3> QED BY <2>3, <3>1, <3>2
  <2> QED BY <2>2, <2>3
<1>3. Weather!TimePasses \/ UNCHANGED Weather!vars
  BY <1>1, <1>2, Shape DEF Weather!TimePasses, Weather!vars
<1>4. Motion!TimePasses \/ UNCHANGED Motion!vars
  BY <1>1, <1>2, Shape DEF Motion!TimePasses, Motion!vars
<1> QED BY <1>3, <1>4 DEF Weather!Next, Motion!Next

LEMMA RemovedStep ==
  ASSUME Inv, NEW m \in Managers, SourceRemoved(m)
  PROVE  /\ Weather!Next \/ UNCHANGED Weather!vars
         /\ Motion!Next \/ UNCHANGED Motion!vars
<1>1. /\ signal[m] /\ signal' = [signal EXCEPT ![m] = FALSE]
      /\ quiet' = [quiet EXCEPT ![m] = 0] /\ UNCHANGED <<flag, boot>>
  BY DEF SourceRemoved, Reads
<1>2. CASE m = "weather"
  <2>1. Weather!Falls
    BY <1>1, <1>2, Shape DEF Weather!Falls
  <2>2. UNCHANGED Motion!vars
    BY <1>1, <1>2, Shape DEF Motion!vars
  <2> QED BY <2>1, <2>2 DEF Weather!Next
<1>3. CASE m = "motion"
  <2>1. Motion!Falls
    BY <1>1, <1>3, Shape DEF Motion!Falls
  <2>2. UNCHANGED Weather!vars
    BY <1>1, <1>3, Shape DEF Weather!vars
  <2> QED BY <2>1, <2>2 DEF Motion!Next
<1> QED BY <1>2, <1>3 DEF Managers

LEMMA WeatherStep == Inv /\ [Next]_vars => [Weather!Next]_(Weather!vars)
<1> SUFFICES ASSUME Inv, [Next]_vars
             PROVE  Weather!Next \/ UNCHANGED Weather!vars
  OBVIOUS
<1>1. CASE MotionDetected \/ MotionCleared
  BY <1>1, Shape, ReadsSound DEF MotionDetected, MotionCleared, Weather!vars
<1>2. CASE WeatherActive
  BY <1>2, Shape DEF WeatherActive, Reads, Weather!Next, Weather!Rises
<1>3. CASE WeatherClear
  BY <1>3, Shape DEF WeatherClear, Reads, Weather!Next, Weather!Falls, Weather!vars
<1>4. CASE \E m \in Managers : Expire(m)
  <2>1. PICK m \in Managers : Expire(m)
    BY <1>4
  <2>2. CASE m = "motion"
    BY <2>1, <2>2, Shape DEF Expire, Weather!vars
  <2>3. CASE m = "weather" /\ signal["weather"]
    <3>1. flag'["weather"] = TRUE
      BY <2>1, <2>3, Shape DEF Expire
    <3> QED BY <2>1, <2>3, <3>1, Shape DEF Expire, QuietSound, Weather!Next, Weather!Rises
  <2>4. CASE m = "weather" /\ ~signal["weather"]
    <3>1. flag'["weather"] = FALSE
      BY <2>1, <2>4, Shape DEF Expire
    <3> QED BY <2>1, <2>4, <3>1, Shape, Numbers
            DEF Expire, Weather!Next, Weather!Released, Weather!vars
  <2> QED BY <2>2, <2>3, <2>4 DEF Managers
<1>5. CASE Refresh \/ \E m \in Managers : CallbackEnds(m)
  BY <1>5, CycleFlags DEF Refresh, CallbackEnds
<1>6. CASE InitialMotion
  BY <1>6, Shape DEF InitialMotion, Weather!vars
<1>7. CASE \/ TrackedEntityChanges \/ Disable \/ Enable \/ DisableEnds
           \/ \E m \in Managers : Unwind(m)
           \/ UNCHANGED vars
  BY <1>7, OthersFrame DEF Weather!vars
<1> QED BY <1>1, <1>2, <1>3, <1>4, <1>5, <1>6, <1>7, RestartStep, TickStep, RemovedStep
        DEF Next, Environment

(* The weather override is up whenever a condition is and ends only at a   *)
(* moment when every condition is clear, whatever the events, the timers,  *)
(* the master switch and restarts do.                                      *)
THEOREM WeatherImplements == Spec => WeatherHoldsOff
<1>1. Init => Weather!Init
  BY Zenon DEF Init, Weather!Init, Managers
<1> QED BY <1>1, WeatherStep, Invariance, PTL DEF Spec, WeatherHoldsOff, Weather!Spec

LEMMA MotionStep == Inv /\ [Next]_vars => [Motion!Next]_(Motion!vars)
<1> SUFFICES ASSUME Inv, [Next]_vars
             PROVE  Motion!Next \/ UNCHANGED Motion!vars
  OBVIOUS
<1>1. CASE WeatherActive \/ WeatherClear
  <2>1. signal'["motion"] = signal["motion"] /\ quiet'["motion"] = quiet["motion"]
    BY <1>1, Shape, ReadsSound DEF WeatherActive, WeatherClear
  <2> QED BY <1>1, <2>1, Shape DEF WeatherActive, WeatherClear, Motion!vars
<1>2. CASE MotionDetected
  <2>1. (~flag'["motion"]) = TRUE
    BY <1>2, Shape DEF MotionDetected
  <2> QED BY <1>2, <2>1, Shape DEF MotionDetected, Reads, Motion!Next, Motion!Rises
<1>3. CASE MotionCleared
  BY <1>3, Shape DEF MotionCleared, Reads, Motion!Next, Motion!Falls, Motion!vars
<1>4. CASE \E m \in Managers : Expire(m)
  <2>1. PICK m \in Managers : Expire(m)
    BY <1>4
  <2>2. CASE m = "weather"
    BY <2>1, <2>2, Shape DEF Expire, Motion!vars
  <2>3. CASE m = "motion"
    <3>1. ~signal["motion"] /\ quiet["motion"] + 0 >= MotionTimeout
      BY <2>1, <2>3 DEF Expire, Due, Inv, MotionTimerSound
    <3>2. (~flag'["motion"]) = FALSE
      BY <2>1, <2>3, <3>1, Shape DEF Expire
    <3> QED BY <2>1, <2>3, <3>1, <3>2, Shape, Numbers
            DEF Expire, Motion!Next, Motion!Released, Motion!vars
  <2> QED BY <2>2, <2>3 DEF Managers
<1>5. CASE Refresh \/ \E m \in Managers : CallbackEnds(m)
  <2>1. UNCHANGED <<signal, quiet>>
    BY <1>5 DEF Refresh, CallbackEnds
  <2>2. flag'["motion"] = flag["motion"] /\ (boot' = "up" <=> boot = "up")
    BY <1>5, <2>1, CycleFlags DEF Refresh, CallbackEnds
  <2> QED BY <2>1, <2>2 DEF Motion!vars
<1>6. CASE InitialMotion
  <2>1. flag'["motion"] = ~signal["motion"]
    BY <1>6, Shape DEF InitialMotion
  <2>2. (~flag'["motion"]) \in {h \in BOOLEAN : signal["motion"] => h}
    BY <2>1, Shape
  <2> QED BY <1>6, <2>2 DEF InitialMotion, Motion!Next, Motion!Started
<1>7. CASE \/ TrackedEntityChanges \/ Disable \/ Enable \/ DisableEnds
           \/ \E m \in Managers : Unwind(m)
           \/ UNCHANGED vars
  BY <1>7, OthersFrame DEF Motion!vars
<1> QED BY <1>1, <1>2, <1>3, <1>4, <1>5, <1>6, <1>7, RestartStep, TickStep, RemovedStep
        DEF Next, Environment

(* Positioning is suspended for want of motion only after the whole        *)
(* timeout without any, or at start-up, and resumes with the first sign of *)
(* it, however reports, stale timers and restarts interleave.              *)
THEOREM MotionImplements == Spec => MotionHoldsOff
<1>1. Init => Motion!Init
  BY Zenon DEF Init, Motion!Init, Managers
<1> QED BY <1>1, MotionStep, Invariance, PTL DEF Spec, MotionHoldsOff, Motion!Spec
=============================================================================
