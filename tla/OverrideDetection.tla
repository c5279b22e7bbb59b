------------------------- MODULE OverrideDetection -------------------------
(***************************************************************************)
(* Who moved the cover?  One cover of an entry, from its reports to the    *)
(* manual override: the classifier that judges a report when it arrives    *)
(* (managers/cover_command/state_classifier.py), the queue of reports that *)
(* an update cycle drains later (coordinator.py), the grace periods        *)
(* (managers/grace_period.py) and the detectors that engage the override   *)
(* (managers/manual_override/).                                            *)
(*                                                                         *)
(* The managers keep everything per cover, so one cover is enough.  Time   *)
(* is counted in ticks up to the largest age the code compares with.       *)
(***************************************************************************)
EXTENDS Integers, Sequences

CONSTANTS
  Top,          \* positions are 0..Top
  Tolerance,    \* position_tolerance: how near is "at the target"
  Threshold,    \* effective_manual_threshold: manual_threshold, at most the tolerance
                \* without position matching, and never below a floor of 3 percent
  Grace,        \* ticks of the command grace period
  StartGrace,   \* ticks of the startup grace period
  Timeout,      \* ticks of the transit timeout
  Duration,     \* ticks of the manual override
  Detector,     \* "delta" or "window": the strategy of the entry
  Window,       \* ticks of the command window of the "window" strategy
  AllowReset,   \* manual_reset: each move restarts the override
  IgnoreMoving, \* ignore_intermediate_states
  Presets,      \* my_position_value: one position, or none
  Env,          \* the events of the instance
  MaxEvents,    \* bound: events of the environment
  MaxQueue      \* bound: cycles suspended at once, and so reports queued

NoPos == -1
Positions == 0..Top

ASSUME Numbers    == /\ Top \in Nat \ {0} /\ Tolerance \in Nat /\ Threshold \in Nat
                     /\ {Grace, StartGrace, Duration, Window} \subseteq Nat
                     /\ Timeout \in Nat \ {0}
                     /\ {MaxEvents, MaxQueue} \subseteq Nat \ {0}
ASSUME Strategies == Detector \in {"delta", "window"} /\ AllowReset \in BOOLEAN
                     /\ IgnoreMoving \in BOOLEAN
ASSUME Preset     == Presets \subseteq Positions
ASSUME EnvKinds   == Env \subseteq {"command", "hand", "ui", "stop", "input", "proxy",
                                    "outage", "early", "toggle", "external", "reset"}

VARIABLES
  motor,     \* the cover itself: where it is, where it goes, who sent it
  shown,     \* its state in Home Assistant
  rec,       \* its record in the command service
  grace,     \* ticks left of its command grace period
  startup,   \* ticks left of the startup grace period
  since,     \* ticks since its last command, up to Window
  change,    \* self.cover_state_change
  queue,     \* self._pending_cover_events
  mark,      \* is it in self._target_just_reached?
  judging,   \* the drained reports still to be judged
  cycles,    \* update cycles suspended in prime_cache
  override,  \* manual_control and manual_control_time
  gates,     \* manual_toggle and manual_ignore_external
  resetting, \* how far the reset button's press is: cycles to go plus one, 0: no press
  events,    \* how many events the instance has had
  excused,   \* ghost: there was a hand on the cover, a travel without progress, a
             \* report from short of the target after the one that counted as the
             \* arrival, or a cycle that judged several reports
  stale,     \* ghost: the mark has outlived the reports that set it
  hand       \* ghost: a move by hand whose reports were all to be judged

vars == <<motor, shown, rec, grace, startup, since, change, queue, mark, judging,
          cycles, override, gates, resetting, events, excused, stale, hand>>
ghosts == <<excused, stale, hand>>

-----------------------------------------------------------------------------

Shown  == [pos : Positions, st : {"open", "moving", "stopped"}]
            \cup {[pos |-> NoPos, st |-> "unavailable"]}
Record == [target : Positions \cup {NoPos}, waiting : BOOLEAN, clock : 0..Timeout+1]
Report == [old : Shown, new : Shown, user : BOOLEAN]
NoRec  == [target |-> NoPos, waiting |-> FALSE, clock |-> 0]
Never  == [on |-> FALSE, timed |-> FALSE, age |-> 0]

Dist(a, b)  == IF a < b THEN b - a ELSE a - b
Near(a, b)  == Dist(a, b) <= Tolerance
Known(s)    == s.pos # NoPos
Moving(s)   == s.st = "moving"
Settled     == motor.pos = motor.goal
Least(a, b) == IF a < b THEN a ELSE b

Init ==
  /\ \E p \in Positions : /\ motor = [pos |-> p, goal |-> p, by |-> "us"]
                          /\ shown = [pos |-> p, st |-> "open"]
  /\ rec = NoRec
  /\ grace = 0 /\ startup = StartGrace /\ since = Window
  /\ change = FALSE /\ queue = <<>> /\ mark = FALSE /\ judging = <<>>
  /\ cycles = 0
  /\ override = Never
  /\ resetting = 0
  /\ gates = [toggle |-> TRUE, external |-> TRUE]
  /\ events = 0
  /\ excused = FALSE /\ stale = FALSE
  /\ hand = "no"

Quiet       == judging = <<>>       \* draining the queue is one step of the program
Event(kind) == /\ Quiet /\ kind \in Env /\ events < MaxEvents
               /\ events' = events + 1

-----------------------------------------------------------------------------
(* The classifier.  classify, for a report r of a cover the record waits   *)
(* for, after its grace period.                                            *)

(* _check_optimistic_guard: the target was shown before the travel began.  *)
Optimistic(r) ==
  /\ rec.target # NoPos /\ r.old.pos = rec.target
  /\ Known(r.new) /\ r.new.pos # rec.target
  /\ rec.clock < Timeout

(* A step motor pauses short of its target.                                *)
Paused(r) ==
  /\ Moving(r.old) /\ ~Moving(r.new)
  /\ rec.target # NoPos /\ Known(r.new) /\ r.new.pos # rec.target

Measured(r) == Known(r.old) /\ Known(r.new) /\ rec.target # NoPos /\ r.new.st # "stopped"
Nearer(r)   == Measured(r) /\ Dist(r.new.pos, rec.target) < Dist(r.old.pos, rec.target)
Starting(r) == /\ Measured(r)
               /\ Dist(r.new.pos, rec.target) = Dist(r.old.pos, rec.target)
               /\ ~Moving(r.old) /\ r.old.st # r.new.st
               /\ rec.clock <= Timeout

(* What the ghost `excused` counts as a report without progress.           *)
NoProgress(r) ==
  \/ ~Known(r.new)
  \/ /\ rec.target # NoPos /\ r.old.pos # rec.target /\ ~Nearer(r)
     /\ \/ r.old.st = r.new.st
        \/ Dist(r.new.pos, rec.target) > Dist(r.old.pos, rec.target)

(* One more report of a cover that counts as arrived, from farther off than *)
(* the detector lets pass: nothing keeps the tolerance below the threshold. *)
StillShort(r) ==
  /\ ~rec.waiting /\ rec.target # NoPos /\ Known(r.new) /\ r.old.st # "unavailable"
  /\ Dist(r.new.pos, rec.target) \in Threshold+1..Tolerance

Classify(r) ==
  IF ~rec.waiting \/ grace > 0 \/ (IgnoreMoving /\ Moving(r.new))
    THEN UNCHANGED <<rec, grace, mark>>
  ELSE IF Known(r.new) /\ rec.target # NoPos /\ Near(r.new.pos, rec.target)
    THEN rec' = [rec EXCEPT !.waiting = FALSE] /\ mark' = TRUE /\ UNCHANGED grace
  ELSE /\ UNCHANGED mark
       /\ IF Paused(r)          THEN grace' = Grace /\ UNCHANGED rec
          ELSE IF Optimistic(r) THEN grace' = Grace /\ rec' = [rec EXCEPT !.clock = 0]
          ELSE IF Nearer(r)     THEN rec' = [rec EXCEPT !.clock = 0] /\ UNCHANGED grace
          ELSE IF Starting(r)   THEN UNCHANGED <<rec, grace>>
          ELSE rec' = [rec EXCEPT !.waiting = FALSE] /\ UNCHANGED grace

(* async_check_cover_state_change: classify, queue, and start a cycle.  A  *)
(* cover that comes back from an outage was not moved by anybody.          *)
CoverReports(r) ==
  /\ Quiet
  /\ shown' = r.new
  /\ IF r.old.st = "unavailable"
       THEN UNCHANGED <<rec, grace, mark, change, queue, cycles, stale>>
       ELSE /\ cycles < MaxQueue
            /\ Classify(r)
            /\ change' = TRUE
            /\ queue' = Append(queue, r)
            /\ cycles' = cycles + 1
            /\ stale' = (stale /\ mark)
  /\ excused' = (excused \/ (rec.waiting /\ grace = 0 /\ NoProgress(r)) \/ StillShort(r))
  /\ UNCHANGED <<startup, since, judging, override, gates, resetting>>

-----------------------------------------------------------------------------
(* The environment: what the cover does and what it reports.               *)

Runs ==
  /\ Quiet /\ ~Settled
  /\ motor' = [motor EXCEPT !.pos = IF @ < motor.goal THEN @ + 1 ELSE @ - 1]
  /\ UNCHANGED <<shown, rec, grace, startup, since, change, queue, mark, judging, cycles,
                 override, gates, resetting, events, ghosts>>

(* A travelling cover may or may not call itself opening or closing.       *)
Says(st, user) ==
  /\ (st = "moving" => ~Settled) /\ (st = "stopped" => Settled /\ motor.by = "hand")
  /\ user => motor.by = "ui"
  /\ <<motor.pos, st>> # <<shown.pos, shown.st>>
  /\ CoverReports([old |-> shown, new |-> [pos |-> motor.pos, st |-> st], user |-> user])
  /\ UNCHANGED <<motor, events, hand>>

(* Some firmware shows the target as soon as the command comes in.         *)
SaysEarly ==
  /\ Event("early") /\ grace > 0 /\ motor.by = "us" /\ ~Settled
  /\ shown.pos # motor.goal
  /\ CoverReports([old |-> shown, new |-> [pos |-> motor.goal, st |-> "open"], user |-> FALSE])
  /\ UNCHANGED <<motor, hand>>

GoesSilent ==
  /\ Event("outage") /\ shown.st # "unavailable"
  /\ CoverReports([old |-> shown, new |-> [pos |-> NoPos, st |-> "unavailable"],
                   user |-> FALSE])
  /\ hand' = "no"
  /\ UNCHANGED motor

(* The user drives the cover: at its switch, or in Home Assistant.  A move *)
(* counts as `hand` when nothing the code waits for can explain it away.   *)
UserDrives(goal, by) ==
  /\ Event(by) /\ by \in {"hand", "ui"} /\ goal # motor.goal
  /\ motor' = [motor EXCEPT !.goal = goal, !.by = by]
  /\ excused' = TRUE
  /\ hand' = IF Settled /\ ~rec.waiting /\ grace = 0 /\ startup = 0 /\ shown.pos = motor.pos
             THEN "judged" ELSE "no"
  /\ UNCHANGED <<shown, rec, grace, startup, since, change, queue, mark, judging, cycles,
                 override, gates, resetting, stale>>

-----------------------------------------------------------------------------
(* The override.                                                           *)

(* _apply_decision: mark, time, and on the edge drop the record.  Without  *)
(* manual_reset only the first move sets the time.                         *)
EngagedUntimed(restart) ==             \* mutant: the time is set only to restart it
  [on |-> TRUE, timed |-> override.timed \/ restart, age |-> 0]
EngagedAgain(restart) ==               \* mutant: every move restarts the time
  [on |-> TRUE, timed |-> TRUE, age |-> 0]
Engaged(restart) ==
  [on |-> TRUE, timed |-> TRUE, age |-> IF override.timed /\ ~restart THEN override.age ELSE 0]
Engage(restart) ==
  /\ override' = Engaged(restart)
  /\ rec' = IF override.on THEN rec ELSE NoRec

(* async_check_cover_service_call: a stop that is not ours, on a cover     *)
(* with a My preset, which an idle cover then drives to.                   *)
StopPressed(my) ==
  /\ Event("stop")
  /\ motor' = [motor EXCEPT !.goal = IF Settled THEN my ELSE motor.pos, !.by = "hand"]
  /\ IF gates.toggle /\ gates.external
       THEN /\ IF rec.waiting THEN UNCHANGED override ELSE override' = Engaged(FALSE)
            /\ rec' = [IF rec.waiting \/ override.on THEN rec ELSE NoRec EXCEPT !.target = my]
       ELSE UNCHANGED <<override, rec>>
  /\ excused' = TRUE /\ hand' = "no"
  /\ UNCHANGED <<shown, grace, startup, since, change, queue, mark, judging, cycles, gates,
                 resetting, stale>>

(* async_check_manual_override_input_change: a wall switch.                *)
InputEdge ==
  /\ Event("input") /\ cycles < MaxQueue
  /\ Engage(TRUE)
  /\ cycles' = cycles + 1
  /\ excused' = TRUE /\ hand' = "no"
  /\ UNCHANGED <<motor, shown, grace, startup, since, change, queue, mark, judging, gates,
                 resetting, stale>>

(* The record of a command that leaves now.                                *)
Commanded(t) == [target |-> t, waiting |-> TRUE, clock |-> 0]

(* async_apply_user_position: the proxy cover and the services.            *)
ProxyCommand(t) ==
  /\ Event("proxy")
  /\ override' = Engaged(FALSE)
  /\ rec' = Commanded(t) /\ grace' = Grace /\ since' = 0
  /\ motor' = [motor EXCEPT !.goal = t, !.by = "us"]
  /\ excused' = TRUE /\ hand' = "no"
  /\ UNCHANGED <<shown, startup, change, queue, mark, judging, cycles, gates, resetting, stale>>

(* The reset button up to its refresh (queued reports wait for the next    *)
(* report of the cover), and after it: the position is sent, or the cover  *)
(* is no longer waited for.                                                *)
PressReset ==
  /\ Event("reset") /\ override.on /\ cycles < MaxQueue /\ resetting = 0
  /\ resetting' = cycles + 2
  /\ override' = Never
  /\ rec' = [rec EXCEPT !.waiting = TRUE]
  /\ change' = FALSE
  /\ cycles' = cycles + 1
  /\ hand' = "no"
  /\ UNCHANGED <<motor, shown, grace, startup, since, queue, mark, judging, gates,
                 excused, stale>>

ResetEnds(sends, t) ==
  /\ Quiet /\ resetting = 1 /\ resetting' = 0
  /\ IF sends
       THEN /\ rec' = Commanded(t) /\ grace' = Grace /\ since' = 0
            /\ motor' = [motor EXCEPT !.goal = t, !.by = "us"]
       ELSE /\ rec' = [rec EXCEPT !.waiting = FALSE]
            /\ UNCHANGED <<motor, grace, since>>
  /\ hand' = "no"
  /\ UNCHANGED <<shown, startup, change, queue, mark, judging, cycles, override, gates,
                 events, excused, stale>>

Toggle(gate) ==
  /\ Event(gate) /\ gate \in {"toggle", "external"}
  /\ gates' = [gates EXCEPT ![gate] = ~@]
  /\ hand' = "no"
  /\ UNCHANGED <<motor, shown, rec, grace, startup, since, change, queue, mark, judging,
                 cycles, override, resetting, excused, stale>>

-----------------------------------------------------------------------------
(* An update cycle goes on after prime_cache: it ends an override that ran *)
(* out, sends its command, and drains the queue.                           *)

Expired == override.on /\ override.age > Duration
Resume(sends, t) ==
  LET over == IF Expired THEN Never ELSE override
  IN  /\ Quiet /\ cycles > 0
      /\ cycles' = cycles - 1
      /\ override' = over
      /\ IF sends
           THEN /\ "command" \in Env /\ ~over.on
                /\ rec' = Commanded(t) /\ grace' = Grace /\ since' = 0
                /\ motor' = [motor EXCEPT !.goal = t, !.by = "us"]
           ELSE UNCHANGED <<rec, grace, since, motor>>
      /\ change' = FALSE
      /\ queue' = IF change THEN <<>> ELSE queue
      /\ IF change /\ gates.toggle /\ startup = 0 /\ gates.external
           THEN /\ judging' = queue
                /\ excused' = (excused \/ Len(queue) > 1)
                /\ UNCHANGED <<mark, stale>>
           ELSE /\ UNCHANGED <<judging, excused>>
                /\ mark' = (mark /\ ~(change /\ gates.toggle /\ startup = 0 /\ queue # <<>>))
                /\ stale' = (stale \/ (change /\ mark))
      /\ hand' = IF sends \/ Expired \/ (change /\ ~(gates.toggle /\ startup = 0 /\ gates.external))
                 THEN "no" ELSE hand
      /\ resetting' = IF resetting > 1 THEN resetting - 1 ELSE resetting
      /\ UNCHANGED <<shown, startup, gates, events>>

(* A cycle the other inputs start: the sun, a sensor, the minute tick.     *)
Trigger ==
  /\ Event("command") /\ cycles < MaxQueue
  /\ cycles' = cycles + 1
  /\ UNCHANGED <<motor, shown, rec, grace, startup, since, change, queue, mark, judging,
                 override, gates, resetting, ghosts>>

(* PositionDeltaDetector.detect and TimeWindowDetector.detect.  Without a  *)
(* recorded target the expected position is the one the cycle computed.    *)
MovedAStep(r) ==                       \* mutant: compares with the report before
  Known(r.old) /\ Known(r.new) /\ Dist(r.old.pos, r.new.pos) > Threshold
MovedByDelta(r) ==
  IF rec.target = NoPos
    THEN Known(r.old) /\ Known(r.new) /\ Dist(r.old.pos, r.new.pos) > Threshold
    ELSE Known(r.new) /\ ~Moving(shown) /\ Dist(rec.target, r.new.pos) > Threshold
MovedAfterWindow(r, state) ==
  /\ Known(r.new) /\ since >= Window
  /\ r.new.pos # (IF rec.target = NoPos THEN state ELSE rec.target)
Detected(r, state) ==
  IF Detector = "delta" THEN MovedByDelta(r) ELSE MovedAfterWindow(r, state)

SparedNever == FALSE                  \* mutant: the report of the arrival is judged
Spared      == mark
Explained   == rec.waiting \/ grace > 0

(* async_handle_cover_state_change for one report, with handle_state_change*)
(* and handle_user_initiated_state_change.                                 *)
Judge(state) ==
  LET r == Head(judging)
  IN  /\ judging # <<>>
      /\ judging' = Tail(judging)
      /\ mark' = FALSE
      /\ stale' = FALSE
      /\ hand' = IF hand = "judged" /\ stale /\ mark THEN "swallowed" ELSE hand
      /\ IF r.user \/ (~Spared /\ ~Explained /\ Detected(r, state))
           THEN Engage(AllowReset)
           ELSE UNCHANGED <<override, rec>>
      /\ UNCHANGED <<motor, shown, grace, startup, since, change, queue, cycles, gates,
                     resetting, events, excused>>

-----------------------------------------------------------------------------
(* The reconciliation pass gives a travel up that took too long.           *)
Overdue ==
  /\ Quiet /\ rec.waiting /\ rec.clock > Timeout
  /\ rec' = [rec EXCEPT !.waiting = FALSE]
  /\ excused' = TRUE
  /\ UNCHANGED <<motor, shown, grace, startup, since, change, queue, mark, judging, cycles,
                 override, gates, resetting, events, stale, hand>>

Older(n, cap) == Least(n + 1, cap)
Younger(n)    == IF n > 0 THEN n - 1 ELSE 0

Tick ==
  /\ Quiet
  /\ grace' = Younger(grace) /\ startup' = Younger(startup)
  /\ since' = Older(since, Window)
  /\ rec' = [rec EXCEPT !.clock = IF rec.waiting THEN Older(@, Timeout + 1) ELSE @]
  /\ override' = [override EXCEPT !.age = IF override.timed THEN Older(@, Duration + 1) ELSE @]
  /\ excused' = (excused \/ (rec.waiting /\ rec.clock + 1 >= Timeout))
  /\ UNCHANGED <<motor, shown, change, queue, mark, judging, cycles, gates, resetting, events,
                 stale, hand>>

Next ==
  \/ Runs \/ SaysEarly \/ GoesSilent \/ InputEdge \/ PressReset \/ Trigger
  \/ Overdue \/ Tick
  \/ \E my \in Presets : StopPressed(my)
  \/ \E st \in {"open", "moving", "stopped"}, user \in BOOLEAN : Says(st, user)
  \/ \E p \in Positions : \/ \E by \in {"hand", "ui"} : UserDrives(p, by)
                          \/ ProxyCommand(p) \/ Judge(p)
                          \/ \E b \in BOOLEAN : Resume(b, p) \/ ResetEnds(b, p)
  \/ \E gate \in {"toggle", "external"} : Toggle(gate)

Spec == Init /\ [][Next]_vars

-----------------------------------------------------------------------------
(* Properties.                                                             *)

TypeOK ==
  /\ motor \in [pos : Positions, goal : Positions, by : {"us", "hand", "ui"}]
  /\ shown \in Shown /\ rec \in Record
  /\ grace \in 0..Grace /\ startup \in 0..StartGrace /\ since \in 0..Window
  /\ change \in BOOLEAN /\ mark \in BOOLEAN
  /\ queue \in Seq(Report) /\ judging \in Seq(Report)
  /\ cycles \in 0..MaxQueue
  /\ override \in [on : BOOLEAN, timed : BOOLEAN, age : 0..Duration+1]
  /\ gates \in [toggle : BOOLEAN, external : BOOLEAN]
  /\ events \in 0..MaxEvents /\ resetting \in 0..MaxQueue+1
  /\ excused \in BOOLEAN /\ stale \in BOOLEAN
  /\ hand \in {"no", "judged", "swallowed"}

(* An override always has the time its reset is counted from, whatever     *)
(* engages it: a detector, a stop, a wall switch or a command of the user. *)
OverrideTimed == override.on <=> override.timed

(* The integration never takes its own travel for the user's: without a    *)
(* hand on the cover there is no override, unless a report of the travel   *)
(* showed no progress or the travel was overdue, or several reports were   *)
(* judged in one cycle, or the cover counted as arrived farther from its   *)
(* target than the threshold (position_tolerance may exceed it) and sent   *)
(* one more report from there: only the report of the arrival is spared.   *)
OwnTravelUnmarked == override.on => excused

(* A cover the user has driven away from a recorded target, and that has   *)
(* come to rest where Home Assistant shows it, is under an override once   *)
(* every report is judged.  MoveNoticed leaves out the report that a mark  *)
(* swallows which was left by an earlier, undrained arrival at the target. *)
AtRest == /\ Settled /\ shown = [pos |-> motor.pos, st |-> "open"]
          /\ judging = <<>> /\ queue = <<>>
Unnoticed == /\ AtRest /\ ~override.on
             /\ rec.target # NoPos /\ Dist(rec.target, motor.pos) > Threshold
MoveNoticed       == Unnoticed => hand # "judged"
MoveAlwaysNoticed == Unnoticed => hand = "no"

(* A cover that goes where the integration sent it and reports a position  *)
(* within the tolerance of its target is not taken for moved.              *)
ToleranceSpared ==
  [][\A p \in Positions : /\ Judge(p) /\ ~override.on /\ override'.on /\ motor.by = "us"
                          /\ rec.target = motor.goal /\ ~Head(judging).user
       => ~Near(Head(judging).new.pos, rec.target)]_vars

(* Only a report of another position than the one before is taken for a    *)
(* move, unless it carries the user's own context (TimeWindowDetector).    *)
OnlyMovesMark ==
  [][\A p \in Positions : Judge(p) /\ ~override.on /\ override'.on /\ ~Head(judging).user
       => Head(judging).old.pos # Head(judging).new.pos]_vars

(* Without manual_reset a move, a stop or a command of the user during an  *)
(* override does not prolong it; only the edge of a wall switch, which     *)
(* starts a cycle of its own, counts anew.                                 *)
NotProlonged ==
  [][override.on /\ override'.on /\ ~AllowReset /\ cycles' <= cycles
       => override'.age >= override.age]_vars
=============================================================================
