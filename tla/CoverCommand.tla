---------------------------- MODULE CoverCommand ----------------------------
(***************************************************************************)
(* CoverCommandService (managers/cover_command/__init__.py) and the part   *)
(* of the coordinator that shares its state: the master kill switch, the   *)
(* closing of the operating window and the manual-override edge.           *)
(*                                                                         *)
(* The program is single-threaded asyncio, so a step is what runs between  *)
(* two suspension points.  Those are the polling of an end-stop detour     *)
(* (wait_for_position), the blocking stop calls of a shutdown, and the     *)
(* ends of the handlers.  The positioning calls are not blocking: Home     *)
(* Assistant schedules the handler and returns without suspending its      *)
(* caller, or raises at once.                                              *)
(***************************************************************************)
EXTENDS Integers, FiniteSets

CONSTANTS
  Covers,              \* the cover entities of one config entry
  Positions,           \* the positions a command may name, percent open
  Caps,                \* Caps[c] \in {"position", "open_close", "none"}
  StopTilt,            \* the axis is stopped by stop_cover_tilt (any time)
  OpenCloseThreshold,  \* open/close covers open at or above this target
  Tolerance,           \* _position_tolerance
  MaxRetries,          \* _max_retries
  PositionMatching,    \* _enable_position_matching
  DryRun,              \* _dry_run
  MoveThreshold,       \* resync_movement_threshold, 0 = feature off
  MoveCap,             \* bound: the movement counter saturates here
  MaxGenerations,      \* bound: how often the kill switch is thrown
  MaxDetours,          \* bound: apply_position calls parked in a detour
  MaxShutdowns,        \* bound: shutdowns parked in a blocking stop
  Origins,             \* who commands covers in the instance
  Env                  \* the environment events of the instance

Absent   == -1                       \* Python's None, of a position
EndStops == {0, 100}
Causes   == {"disable", "window", "override"}

ASSUME CoversFinite      == IsFiniteSet(Covers)
ASSUME PositionRange     == EndStops \subseteq Positions /\ Positions \subseteq 0..100
ASSUME CapsAssumption    == Caps \in [Covers -> {"position", "open_close", "none"}]
ASSUME FlagAssumption    == {StopTilt, PositionMatching, DryRun} \subseteq BOOLEAN
ASSUME LimitAssumption   == /\ {OpenCloseThreshold, Tolerance} \subseteq 0..100
                            /\ {MaxRetries, MoveThreshold, MoveCap, MaxGenerations,
                                MaxDetours, MaxShutdowns} \subseteq Nat
ASSUME OriginAssumption  == Origins \subseteq {"tracking", "safety", "clear", "button", "user"}
ASSUME EnvAssumption     == Env \subseteq {"disable", "window", "override", "mode",
                                           "outage", "stop", "events"}

VARIABLES
  st,          \* self._state: a PerEntityState per cover
  enabled,     \* self._enabled
  generation,  \* self._disable_generation
  automatic,   \* the coordinator's automatic_control toggle
  override,    \* covers the manual-override manager holds as manual
  svc,         \* the service's copies of the coordinator's gate flags
  cover,       \* what Home Assistant reports of each cover
  detours,     \* apply_position calls suspended in wait_for_position
  shutdowns,   \* async_set_integration_enabled(False) calls suspended in a stop
  born,        \* ghost: the command each recorded target stems from
  out          \* ghost: the service call this step made, if any

vars == <<st, enabled, generation, automatic, override, svc, cover, detours,
          shutdowns, born, out>>

-----------------------------------------------------------------------------
(* Records.                                                                *)

Clocks == {"none", "recent", "late"}

(* PerEntityState.  `clock` is the age of last_progress_at or sent_at      *)
(* against the transit timeout, `progressed` that last_progress_at is set, *)
(* `moves` movements_since_resync; travel_since_resync moves in lockstep.  *)
Entry == [target : Positions \cup {Absent}, waiting : BOOLEAN, clock : Clocks,
          progressed : BOOLEAN, retries : 0..MaxRetries, gaveUp : BOOLEAN,
          safety : BOOLEAN, moves : 0..MoveCap]

NoEntry == [target |-> Absent, waiting |-> FALSE, clock |-> "none",
            progressed |-> FALSE, retries |-> 0, gaveUp |-> FALSE,
            safety |-> FALSE, moves |-> 0]

Birth  == [safety : BOOLEAN, revoked : SUBSET Causes]
Unborn == [safety |-> FALSE, revoked |-> {}]

Detour   == [cover : Covers, goal : Positions, generation : Nat, born : Birth]
Shutdown == [pending : SUBSET Covers, stopping : Covers, held : BOOLEAN,
             emergency : BOOLEAN]
Call     == [kind : {"move", "detour", "retry", "stop"}, cover : Covers,
             pos : Positions \cup {Absent}, born : Birth]

-----------------------------------------------------------------------------
(* Reading a cover.                                                        *)

Distance(a, b) == IF a >= b THEN a - b ELSE b - a

Reported(c)  == IF cover[c].state = "unavailable" THEN Absent ELSE cover[c].pos
InTransit(c) == cover[c].state = "moving"

AtTarget(actual, target) == actual # Absent /\ Distance(actual, target) <= Tolerance

SamePosition(c, p) ==
  \/ Reported(c) = p
  \/ p \in EndStops /\ AtTarget(Reported(c), p)

(* route_service_call: the position recorded as the target.                *)
Routable(c)  == Caps[c] # "none"
Routed(c, p) == IF Caps[c] # "open_close" THEN p
                ELSE IF p >= OpenCloseThreshold THEN 100 ELSE 0

-----------------------------------------------------------------------------
(* What the service writes into a record.                                  *)

Track(e, p)       == [e EXCEPT !.target = p, !.waiting = TRUE, !.clock = "recent",
                               !.progressed = FALSE]
CommandKeepsFlag(e, p, sf) ==   \* mutant: a newer command leaves is_safety set
  [Track(e, p) EXCEPT !.retries = 0, !.gaveUp = FALSE, !.safety = @ \/ sf]
Command(e, p, sf) == [Track(e, p) EXCEPT !.retries = 0, !.gaveUp = FALSE, !.safety = sf]
Resend(e, p)      == [Track(e, p) EXCEPT !.retries = @ + 1, !.safety = FALSE]
Stopped(e)        == [e EXCEPT !.waiting = FALSE,
                               !.clock = IF e.progressed THEN @ ELSE "none"]

Referenced(e)  == [e EXCEPT !.moves = 0]
OneMoreMove(e) == [e EXCEPT !.moves = IF @ < MoveCap THEN @ + 1 ELSE @]

(* The accounting of a sent command that left from position `origin`.      *)
Accounted(e, c, p, origin) ==
  IF p \in EndStops \/ Caps[c] = "open_close" \/ origin \in EndStops THEN Referenced(e)
  ELSE IF origin = Absent THEN e ELSE OneMoreMove(e)

Manual(e, c) == IF Reported(c) \in EndStops THEN Referenced(e) ELSE OneMoreMove(e)

Stale(e)              == e.target # Absent /\ ~e.safety
KeepsWaiting(e)       == [e EXCEPT !.target = Absent, !.retries = 0,   \* mutant
                                   !.gaveUp = FALSE]
WithoutTarget(e)      == [e EXCEPT !.target = Absent, !.waiting = FALSE,
                                   !.retries = 0, !.gaveUp = FALSE]
ClearWaits(s)         == [c \in Covers |-> [s[c] EXCEPT !.waiting = FALSE]]   \* mutant
ClearNonSafety(s)     == [c \in Covers |-> IF Stale(s[c]) THEN WithoutTarget(s[c]) ELSE s[c]]
ClearSafety(s)        == [c \in Covers |-> [s[c] EXCEPT !.safety = FALSE]]

(* _maybe_resync_at_endstop: the move that reaches the movement threshold  *)
(* goes by way of an end stop, unless it leaves from or ends at one.       *)
DetourDue(c, p) ==
  /\ Caps[c] = "position" /\ MoveThreshold > 0
  /\ p \notin EndStops /\ Reported(c) \notin EndStops
  /\ st[c].moves + 1 >= MoveThreshold
EndStopFor(p) == IF p >= 50 THEN 100 ELSE 0

Revoke(b, cause) == [b EXCEPT !.revoked = @ \cup {cause}]
RevokeDetours(D, cause) == {[d EXCEPT !.born = Revoke(@, cause)] : d \in D}
CallOf(k, c, p, b) == {[kind |-> k, cover |-> c, pos |-> p, born |-> b]}
-----------------------------------------------------------------------------
Init ==
  /\ st = [c \in Covers |-> NoEntry]
  /\ enabled = TRUE /\ generation = 0 /\ automatic = TRUE /\ override = {}
  /\ svc = [auto |-> TRUE, window |-> TRUE, override |-> {}]
  /\ cover \in [Covers -> [pos : Positions, state : {"idle"}]]
  /\ detours = {} /\ shutdowns = {}
  /\ born = [c \in Covers |-> Unborn]
  /\ out = {}

-----------------------------------------------------------------------------
(* apply_position.                                                         *)

(* The gates.  The delta and time gates may refuse any tracking command    *)
(* and the arrival band of a fixed pose any command; a refusal changes     *)
(* nothing, so they need no choice here.  `sun` is sun_just_appeared.      *)
Admitted(c, p, o, sun) ==
  /\ cover[c].state # "unavailable"
  /\ enabled
  /\ o \in {"safety", "button", "user"} \/ automatic
  /\ sun \/ ~SamePosition(c, p)
  /\ o = "tracking" => c \notin override
  /\ Routable(c)

(* The command goes straight to the cover: recorded, called, accounted; or *)
(* the call raises, or a dry run stops short of it.                        *)
Send(c, p, e, origin, b) ==
  \/ ~DryRun /\ st' = [st EXCEPT ![c] = Accounted(e, c, p, origin)]
             /\ out' = CallOf("move", c, Routed(c, p), b)
  \/ st' = [st EXCEPT ![c] = e] /\ out' = {}

(* The end stop is commanded first and becomes the live target; the call   *)
(* is then parked until the cover reports the end stop or time runs out.   *)
SendDetour(c, p, e, b) ==
  /\ DetourDue(c, p) /\ ~DryRun
  /\ Cardinality(detours) < MaxDetours
  /\ st' = [st EXCEPT ![c] = Referenced(Track(e, EndStopFor(p)))]
  /\ out' = CallOf("detour", c, EndStopFor(p), b)
  /\ detours' = detours \cup
       {[cover |-> c, goal |-> p, generation |-> generation, born |-> b]}

ApplyPosition(c, p, o, sun) ==
  LET e == Command(st[c], Routed(c, p), o = "safety")
      b == [safety |-> o = "safety", revoked |-> {}]
  IN  /\ Admitted(c, p, o, sun)
      /\ override' = IF o = "user" THEN override \cup {c} ELSE override
      /\ born' = [born EXCEPT ![c] = b]
      /\ \/ SendDetour(c, p, e, b)
         \/ Send(c, p, e, Reported(c), b) /\ UNCHANGED detours
      /\ UNCHANGED <<enabled, generation, automatic, svc, cover, shutdowns>>

(* Mutants: the final leg is not recorded; only `enabled` is asked again.  *)
FinishUnrecorded(d) ==
  /\ detours' = detours \ {d}
  /\ IF enabled /\ d.generation = generation
       THEN /\ Send(d.cover, d.goal, st[d.cover], EndStopFor(d.goal), d.born)
            /\ born' = [born EXCEPT ![d.cover] = d.born]
       ELSE UNCHANGED <<st, born>> /\ out' = {}
  /\ UNCHANGED <<enabled, generation, automatic, override, svc, cover, shutdowns>>

FinishIfEnabled(d) ==
  /\ detours' = detours \ {d}
  /\ IF enabled
       THEN /\ Send(d.cover, d.goal, Track(st[d.cover], d.goal), EndStopFor(d.goal), d.born)
            /\ born' = [born EXCEPT ![d.cover] = d.born]
       ELSE UNCHANGED <<st, born>> /\ out' = {}
  /\ UNCHANGED <<enabled, generation, automatic, override, svc, cover, shutdowns>>

(* The detour is over, reached or not: give the record back to the final   *)
(* leg and send it, unless the integration was disabled in the meantime.   *)
FinishDetour(d) ==
  /\ detours' = detours \ {d}
  /\ IF enabled /\ d.generation = generation
       THEN /\ Send(d.cover, d.goal, Track(st[d.cover], d.goal), EndStopFor(d.goal), d.born)
            /\ born' = [born EXCEPT ![d.cover] = d.born]
       ELSE UNCHANGED <<st, born>> /\ out' = {}
  /\ UNCHANGED <<enabled, generation, automatic, override, svc, cover, shutdowns>>

-----------------------------------------------------------------------------
(* run_reconciliation_pass, one iteration.  Iterations do not suspend and  *)
(* touch one record each, so a pass is a sequence of these steps.          *)

NeverOverdue(e) == e.waiting   \* mutant
Travelling(e) == e.waiting /\ e.clock # "late"

Exempt(c) ==
  \/ c \in svc.override
  \/ ~st[c].safety /\ ~(svc.auto /\ svc.window)
  \/ InTransit(c)
  \/ Reported(c) = Absent

(* Mutant: one retry too many.                                             *)
(* A cover that missed its target is sent there again, up to the limit.    *)
Retry(c, e) ==
  LET p == Routed(c, e.target)
  IN  /\ e.retries < MaxRetries
      /\ st' = [st EXCEPT ![c] = IF Routable(c) THEN Resend(e, p)
                                  ELSE [e EXCEPT !.retries = @ + 1]]
      /\ \/ ~DryRun /\ Routable(c) /\ out' = CallOf("retry", c, p, born[c])
         \/ out' = {}

GiveUp(c, e) ==
  /\ e.retries >= MaxRetries
  /\ st' = [st EXCEPT ![c] = [e EXCEPT !.gaveUp = TRUE]] /\ out' = {}

Leave(c, e) == st' = [st EXCEPT ![c] = e] /\ out' = {}

Reconcile(c) ==
  LET e == [st[c] EXCEPT !.waiting = FALSE]
  IN  /\ enabled /\ st[c].target # Absent /\ ~Travelling(st[c])
      /\ IF Exempt(c) THEN Leave(c, e)
         ELSE IF AtTarget(Reported(c), e.target) THEN Leave(c, [e EXCEPT !.retries = 0])
         ELSE IF ~PositionMatching THEN Leave(c, e)
         ELSE Retry(c, e) \/ GiveUp(c, e)
      /\ UNCHANGED <<enabled, generation, automatic, override, svc, cover, detours,
                     shutdowns, born>>

-----------------------------------------------------------------------------
(* What state-change events do to the record (StateClassifier decides).    *)

OnRecord(c, e) ==
  /\ st' = [st EXCEPT ![c] = e] /\ out' = {}
  /\ UNCHANGED <<enabled, generation, automatic, override, svc, cover, detours,
                 shutdowns, born>>

CheckTargetReached(c) ==
  /\ "events" \in Env /\ st[c].waiting /\ AtTarget(Reported(c), st[c].target)
  /\ OnRecord(c, [st[c] EXCEPT !.waiting = FALSE, !.retries = 0])

ClearWaiting(c) ==
  /\ "events" \in Env /\ st[c].waiting
  /\ OnRecord(c, [st[c] EXCEPT !.waiting = FALSE])

RecordProgress(c) ==
  /\ "events" \in Env /\ st[c].waiting
  /\ OnRecord(c, [st[c] EXCEPT !.clock = "recent", !.progressed = TRUE])

(* The transit timeout passes without a sign of progress.                  *)
TransitTimeout(c) ==
  /\ st[c].waiting /\ st[c].clock = "recent"
  /\ OnRecord(c, [st[c] EXCEPT !.clock = "late"])

-----------------------------------------------------------------------------
(* Manual override.                                                        *)

(* A detected manual move: counted, and on the not-manual to manual edge   *)
(* the whole record is popped (discard_target).                            *)
Revoked(c, cause) == [born EXCEPT ![c] = Revoke(@, cause)]
Detached(c) == {[d EXCEPT !.held = @ /\ d.stopping # c] : d \in shutdowns}
RevokeFor(c) == {IF d.cover = c THEN [d EXCEPT !.born = Revoke(@, "override")] ELSE d
                   : d \in detours}

MarkManual(c, counted, fresh) ==
  /\ override' = override \cup {c}
  /\ IF c \in override
       THEN st' = [st EXCEPT ![c] = counted] /\ UNCHANGED <<detours, shutdowns>>
       ELSE st' = [st EXCEPT ![c] = fresh]
            /\ detours' = RevokeFor(c) /\ shutdowns' = Detached(c)

ManualMove(c) ==
  /\ "override" \in Env
  /\ MarkManual(c, Manual(st[c], c), NoEntry)
  /\ born' = IF c \in override THEN born ELSE Revoked(c, "override")
  /\ out' = {}
  /\ UNCHANGED <<enabled, generation, automatic, svc, cover>>

(* A stop_cover call that is not ours on a cover with a My preset: the     *)
(* preset becomes the target, also when the press is ignored as a manual   *)
(* move because a command is under way.                                    *)
UserStop(c, my) ==
  LET preset(e) == [e EXCEPT !.target = my]
  IN  /\ "stop" \in Env /\ automatic
      /\ IF st[c].waiting
           THEN st' = [st EXCEPT ![c] = preset(st[c])]
                /\ UNCHANGED <<override, detours, shutdowns>>
           ELSE MarkManual(c, preset(Manual(st[c], c)), preset(NoEntry))
      /\ born' = [born EXCEPT ![c] = Unborn] /\ out' = {}
      /\ UNCHANGED <<enabled, generation, automatic, svc, cover>>

OnCoordinator(changed) == changed /\ out' = {} /\ UNCHANGED <<st, cover, detours, shutdowns, born>>

(* mark_user_command for a command that is then skipped, or for a stop.    *)
MarkUserCommand(c) ==
  /\ "override" \in Env /\ c \notin override
  /\ OnCoordinator(override' = override \cup {c})
  /\ UNCHANGED <<enabled, generation, automatic, svc>>

OverrideClears(c) ==
  /\ c \in override
  /\ OnCoordinator(override' = override \ {c})
  /\ UNCHANGED <<enabled, generation, automatic, svc>>

(* Switched off, automatic control also ends every override.  The return   *)
(* to default that an option adds is ApplyPosition with origin "button".   *)
ToggleAutomatic ==
  /\ "mode" \in Env
  /\ OnCoordinator(automatic' = ~automatic)
  /\ override' = IF automatic THEN {} ELSE override
  /\ UNCHANGED <<enabled, generation, svc>>

(* The end of an update cycle copies the gate flags into the service.      *)
SyncGates(window) ==
  /\ window \/ "window" \in Env
  /\ OnCoordinator(svc' = [auto |-> automatic, window |-> window, override |-> override])
  /\ UNCHANGED <<enabled, generation, automatic, override>>

(* The operating window closes, with the return to default configured: no *)
(* target but a safety target survives.                                    *)
WindowCloses ==
  /\ "window" \in Env
  /\ st' = ClearNonSafety(st)
  /\ born' = [c \in Covers |-> IF Stale(st[c]) THEN Revoke(born[c], "window") ELSE born[c]]
  /\ detours' = {IF d.born.safety THEN d ELSE [d EXCEPT !.born = Revoke(@, "window")]
                   : d \in detours}
  /\ out' = {}
  /\ UNCHANGED <<enabled, generation, automatic, override, svc, cover, shutdowns>>

-----------------------------------------------------------------------------
(* The master switch: async_set_integration_enabled.                       *)

Enable ==
  /\ "disable" \in Env /\ ~enabled
  /\ enabled' = TRUE /\ out' = {}
  /\ UNCHANGED <<st, generation, automatic, override, svc, cover, detours, shutdowns, born>>

(* A stop is sent to an axis that can be stopped and, for stop_cover, is   *)
(* seen moving; only such a cover suspends the loop.                       *)
Stoppable(c) == cover[c].state # "unavailable" /\ Caps[c] # "none" /\ (StopTilt \/ InTransit(c))
Suspends(c)  == Stoppable(c) /\ ~DryRun

StopAll(s, done) == [c \in Covers |-> IF c \in done THEN Stopped(s[c]) ELSE s[c]]

(* Run the loop over `pending` until its next blocking stop, or to its end *)
(* and through the cleanup.  `others` are the other shutdowns.             *)
RunStops(s, pending, emergency, others) ==
  \/ \E c \in pending, done \in SUBSET pending :
       /\ Suspends(c) /\ \A x \in done : ~Suspends(x)
       /\ st' = IF emergency THEN s ELSE StopAll(s, done)
       /\ shutdowns' = others \cup
            {[pending |-> pending \ (done \cup {c}), stopping |-> c, held |-> TRUE,
              emergency |-> emergency]}
       /\ out' = CallOf("stop", c, Absent, born[c])
  \/ /\ \A c \in pending : ~Suspends(c)
     /\ st' = ClearSafety(ClearNonSafety(IF emergency THEN s ELSE StopAll(s, pending)))
     /\ shutdowns' = others
     /\ out' = {}

(* Mutant: the generation is not advanced.                                 *)
DisableSameGeneration(entities, emergency) ==
  /\ "disable" \in Env
  /\ Cardinality(shutdowns) < MaxShutdowns
  /\ enabled' = FALSE
  /\ RunStops(st, {c \in entities : emergency \/ st[c].waiting}, emergency, shutdowns)
  /\ born' = [c \in Covers |-> Revoke(born[c], "disable")]
  /\ detours' = RevokeDetours(detours, "disable")
  /\ UNCHANGED <<generation, automatic, override, svc, cover>>

Disable(entities, emergency) ==
  /\ "disable" \in Env
  /\ enabled => generation < MaxGenerations
  /\ Cardinality(shutdowns) < MaxShutdowns
  /\ enabled' = FALSE
  /\ generation' = IF enabled THEN generation + 1 ELSE generation
  /\ RunStops(st, {c \in entities : emergency \/ st[c].waiting}, emergency, shutdowns)
  /\ born' = [c \in Covers |-> Revoke(born[c], "disable")]
  /\ detours' = RevokeDetours(detours, "disable")
  /\ UNCHANGED <<automatic, override, svc, cover>>

(* Mutant: a failing stop escapes and skips the cleanup.                   *)
StopFailureEscapes(d, accepted) ==
  /\ IF accepted THEN RunStops(st, d.pending, d.emergency, shutdowns \ {d})
       ELSE shutdowns' = shutdowns \ {d} /\ out' = {} /\ UNCHANGED st
  /\ UNCHANGED <<enabled, generation, automatic, override, svc, cover, detours, born>>

(* A blocking stop returns or raises; either way the record held since     *)
(* before the call is marked as landed, and the loop goes on.              *)
StopReturns(d, accepted) ==
  LET c == d.stopping
      s == IF d.held /\ ~d.emergency THEN [st EXCEPT ![c] = Stopped(@)] ELSE st
  IN  /\ RunStops(s, d.pending, d.emergency, shutdowns \ {d})
      /\ cover' = IF accepted /\ cover[c].state = "moving"
                    THEN [cover EXCEPT ![c].state = "idle"] ELSE cover
      /\ UNCHANGED <<enabled, generation, automatic, override, svc, detours, born>>

-----------------------------------------------------------------------------
(* Home Assistant: covers start, move, land anywhere, come and go.         *)

CoverReports(c, p, s) ==
  /\ p = Absent => "outage" \in Env
  /\ s = "unavailable" => p = Absent
  /\ cover[c] # [pos |-> p, state |-> s]
  /\ cover' = [cover EXCEPT ![c] = [pos |-> p, state |-> s]]
  /\ out' = {}
  /\ UNCHANGED <<st, enabled, generation, automatic, override, svc, detours, shutdowns, born>>

-----------------------------------------------------------------------------
CoverNext(c) ==
  \/ \E p \in Positions, o \in Origins, sun \in BOOLEAN : ApplyPosition(c, p, o, sun)
  \/ Reconcile(c)
  \/ CheckTargetReached(c) \/ ClearWaiting(c) \/ RecordProgress(c) \/ TransitTimeout(c)
  \/ ManualMove(c) \/ MarkUserCommand(c) \/ OverrideClears(c)
  \/ \E my \in Positions : UserStop(c, my)
  \/ \E p \in Positions \cup {Absent}, s \in {"idle", "moving", "unavailable"} :
       CoverReports(c, p, s)

Next ==
  \/ \E c \in Covers : CoverNext(c)
  \/ \E d \in detours : FinishDetour(d)
  \/ ToggleAutomatic
  \/ \E window \in BOOLEAN : SyncGates(window)
  \/ WindowCloses
  \/ Enable
  \/ \E entities \in SUBSET Covers \ {{}}, emergency \in BOOLEAN : Disable(entities, emergency)
  \/ \E d \in shutdowns, accepted \in BOOLEAN : StopReturns(d, accepted)

Spec == Init /\ [][Next]_vars

(* What the event loop and Home Assistant's timers give: the one-minute    *)
(* reconciliation tick and parked coroutines run, time passes, and a cover *)
(* that moves comes to rest.  Commands, users and sensors owe nothing.     *)
Fairness ==
  /\ \A c \in Covers :
       /\ WF_vars(Reconcile(c))
       /\ WF_vars(TransitTimeout(c))
       /\ WF_vars(\E p \in Positions : cover[c].state = "moving" /\ CoverReports(c, p, "idle"))
  /\ WF_vars(\E d \in detours : FinishDetour(d))
  /\ WF_vars(\E d \in shutdowns, accepted \in BOOLEAN : StopReturns(d, accepted))

FairSpec == Spec /\ Fairness

-----------------------------------------------------------------------------
(* Properties.                                                             *)

(* Every variable keeps its type; the retry counter its bound.             *)
TypeOK ==
  /\ st \in [Covers -> Entry]
  /\ enabled \in BOOLEAN /\ generation \in Nat /\ automatic \in BOOLEAN
  /\ override \subseteq Covers
  /\ svc \in [auto : BOOLEAN, window : BOOLEAN, override : SUBSET Covers]
  /\ cover \in [Covers -> [pos : Positions \cup {Absent},
                           state : {"idle", "moving", "unavailable"}]]
  /\ detours \subseteq Detour /\ shutdowns \subseteq Shutdown
  /\ born \in [Covers -> Birth]
  /\ out \subseteq Call

(* A record that waits for its cover names a target and a time, so the     *)
(* reconciliation pass can always find it and let it expire.  Otherwise    *)
(* reconciliation and override detection would skip that cover for good.   *)
WaitingCanExpire ==
  \A c \in Covers : st[c].waiting => st[c].target # Absent /\ st[c].clock # "none"

(* The kill switch is final: no positioning call is made while disabled,   *)
(* and none belongs to an apply_position call that began before a disable, *)
(* even when the integration has been re-enabled meanwhile.                *)
KillSwitchFinal ==
  \A k \in out : k.kind # "stop" =>
     enabled /\ (k.kind \in {"move", "detour"} => "disable" \notin k.born.revoked)

(* The generation taken before the detour tells a parked call that the     *)
(* integration was disabled in the meantime, re-enabled or not.            *)
DetoursKnowDisable ==
  \A d \in detours :
    /\ d.generation <= generation
    /\ ~enabled \/ "disable" \in d.born.revoked => d.generation < generation

(* Once a shutdown has run to its end, reconciliation resends no tracking  *)
(* target from before it.                                                  *)
ShutdownDropsTracking ==
  \A k \in out : k.kind = "retry" /\ "disable" \in k.born.revoked =>
     k.born.safety \/ shutdowns # {}

(* The record names the position the cover was last told to go to: what    *)
(* the classifier, override detection and reconciliation compare with.     *)
RecordNamesCommand ==
  \A k \in out : k.kind # "stop" => st[k.cover].target = k.pos

(* A target dropped by a manual override or by the window closing is never *)
(* resent.  (Only without the end-stop detour: see DiscardIsFinal.)        *)
StaleNeverResent ==
  \A k \in out : k.kind = "retry" => k.born.revoked \cap {"override", "window"} = {}

(* When nobody gives a new command and the cover stays put once it rests,  *)
(* a recorded target is settled: the cover is there, or the target is      *)
(* dropped or given up, or resending is barred.                            *)
Quiet == \A c \in Covers :
  /\ \A p \in Positions, o \in Origins, sun \in BOOLEAN : ~ApplyPosition(c, p, o, sun)
  /\ cover'[c] # cover[c] => cover'[c].state = "idle" /\ cover[c].state # "idle"
  /\ RecordProgress(c) => InTransit(c)

Settled(c) ==
  \/ st[c].target = Absent \/ st[c].gaveUp \/ AtTarget(Reported(c), st[c].target)
  \/ ~enabled \/ c \in svc.override \/ Reported(c) = Absent
  \/ ~st[c].safety /\ ~(svc.auto /\ svc.window)

SettlesOrGivesUp == <>[][Quiet]_vars => \A c \in Covers : []<>Settled(c)

(* The kill switch drains: if it stays off, then in the end, whatever the  *)
(* stops do and whichever calls were parked, no tracking target is left.   *)
DisableDrains ==
  <>[](~enabled) => <>[](\A c \in Covers : st[c].target = Absent \/ born[c].safety)

-----------------------------------------------------------------------------
(* What comments and tests say and the code does not do.                   *)

(* "Safety targets cleared on disable cannot be replayed after re-enable." *)
SafetyNotReplayed ==
  \A k \in out : k.kind = "retry" /\ k.born.safety => "disable" \notin k.born.revoked

(* Safety targets are resent whatever the automatic control toggle says:   *)
(* the flag that grants it must last as long as the target.                *)
SafetyOutlastsRetries ==
  \A c \in Covers : st[c].target # Absent /\ born[c].safety /\ born[c].revoked = {}
     => st[c].safety

(* is_safety_target: the current target was set via a safety override.     *)
SafetyFlagTruthful == \A c \in Covers : st[c].safety => born[c].safety

(* discard_target: a target that existed when a manual override started    *)
(* cannot be resurrected by reconciliation while or after it lasts.        *)
DiscardIsFinal == \A k \in out : k.kind = "retry" => "override" \notin k.born.revoked

(* note_manual_movement: every detected manual move counts, the first too. *)
JogsCounted ==
  [][\A c \in Covers : ManualMove(c) /\ Reported(c) \notin EndStops
       => st'[c].moves = OneMoreMove(st[c]).moves]_vars
=============================================================================
