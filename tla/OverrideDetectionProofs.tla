------------------------ MODULE OverrideDetectionProofs ------------------------
(* Proofs about OverrideDetection, for any positions, periods and bounds.   *)
EXTENDS OverrideDetection, SequenceTheorems, TLAPS

(* Under the "delta" strategy: as long as nothing has excused an override,  *)
(* nobody but the integration has moved the cover, ...                      *)
Unmarked(q)  == \A i \in 1..Len(q) : ~q[i].user
Untouched == /\ ~override.on /\ resetting = 0 /\ motor.by = "us"
             /\ Unmarked(queue) /\ Unmarked(judging)

(* ... the cover goes to the recorded target, is waited for, or is there,   *)
Driven ==
  /\ grace > 0 => rec.waiting
  /\ rec.waiting => rec.target # NoPos /\ rec.clock < Timeout
  /\ rec.target # NoPos => motor.goal = rec.target
  /\ rec.target # NoPos /\ ~rec.waiting => Near(motor.pos, rec.target)
  /\ rec.target = NoPos => Settled /\ (Known(shown) => shown.pos = motor.pos)

(* ... and the one report to be judged shows no move of the user, or it is  *)
(* the report of the arrival, which the mark spares.                        *)
Harmless(r) ==
  IF rec.target = NoPos THEN Known(r.old) /\ Known(r.new) => r.old.pos = r.new.pos
                        ELSE Known(r.new) => Dist(r.new.pos, rec.target) <= Threshold
Innocent(q) == Len(q) = 1 /\ ~rec.waiting => Harmless(q[1]) \/ mark
Alone       == judging # <<>> => queue = <<>>
OwnTravel == ~excused => /\ Untouched /\ Driven /\ Innocent(queue) /\ Alone
                         /\ Len(judging) <= 1 /\ Innocent(judging)

-----------------------------------------------------------------------------
(* Types.                                                                   *)

LEMMA Numeric ==
  /\ Top \in Nat /\ Top > 0 /\ Tolerance \in Nat /\ Threshold \in Nat
  /\ Grace \in Nat /\ StartGrace \in Nat /\ Duration \in Nat /\ Window \in Nat
  /\ Timeout \in Nat /\ Timeout > 0
  /\ MaxEvents \in Nat /\ MaxQueue \in Nat /\ MaxQueue > 0
  /\ Presets \subseteq Positions /\ NoPos \notin Positions
  BY Numbers, Preset DEF NoPos, Positions

LEMMA CommandedType ==
  ASSUME NEW t \in Positions
  PROVE  /\ Commanded(t) \in Record /\ Commanded(t).target = t /\ Commanded(t).waiting
         /\ Commanded(t).clock = 0
  BY Numeric DEF Commanded, Record

LEMMA EngagedType ==
  ASSUME TypeOK, NEW b \in BOOLEAN
  PROVE  Engaged(b) \in [on : BOOLEAN, timed : BOOLEAN, age : 0..Duration+1]
  BY Numeric DEF Engaged, TypeOK

LEMMA NeverType == Never \in [on : BOOLEAN, timed : BOOLEAN, age : 0..Duration+1]
  BY Numeric DEF Never

LEMMA NoRecType == NoRec \in Record
  BY Numeric DEF NoRec, Record

LEMMA EventCounts ==
  ASSUME TypeOK, NEW kind, Event(kind) PROVE events' \in 0..MaxEvents /\ judging = <<>>
  BY Numeric DEF Event, Quiet, TypeOK

LEMMA ClassifyType ==
  ASSUME TypeOK, NEW r \in Report, Classify(r)
  PROVE  rec' \in Record /\ grace' \in 0..Grace /\ mark' \in BOOLEAN
<1>1. rec \in Record /\ grace \in 0..Grace /\ mark \in BOOLEAN
  BY DEF TypeOK
<1>2. [rec EXCEPT !.waiting = FALSE] \in Record /\ [rec EXCEPT !.clock = 0] \in Record
  <2>1. 0 \in 0..Timeout+1
    BY Numeric
  <2> QED BY <1>1, <2>1 DEF Record
<1>3. Grace \in 0..Grace
  BY Numeric
<1> HIDE DEF Record
<1> QED BY <1>1, <1>2, <1>3 DEF Classify

LEMMA ReportsType ==
  ASSUME TypeOK, NEW r \in Report, CoverReports(r)
  PROVE  /\ rec' \in Record /\ grace' \in 0..Grace /\ mark' \in BOOLEAN
         /\ shown' \in Shown /\ change' \in BOOLEAN /\ queue' \in Seq(Report)
         /\ cycles' \in 0..MaxQueue /\ stale' \in BOOLEAN /\ excused' \in BOOLEAN
         /\ UNCHANGED <<startup, since, judging, override, gates, resetting>>
<1>1. shown' \in Shown /\ UNCHANGED <<startup, since, judging, override, gates, resetting>>
  BY DEF CoverReports, Report
<1>2. excused' \in BOOLEAN
  BY DEF CoverReports, TypeOK
<1>3. CASE r.old.st = "unavailable"
  BY <1>1, <1>2, <1>3 DEF CoverReports, TypeOK
<1>4. CASE r.old.st # "unavailable"
  <2>1. /\ cycles < MaxQueue /\ Classify(r) /\ change' = TRUE
        /\ queue' = Append(queue, r) /\ cycles' = cycles + 1 /\ stale' = (stale /\ mark)
    BY <1>4 DEF CoverReports
  <2>2. queue' \in Seq(Report)
    BY <2>1 DEF TypeOK
  <2>3. cycles' \in 0..MaxQueue
    BY <2>1, Numeric DEF TypeOK
  <2>4. stale' \in BOOLEAN
    BY <2>1 DEF TypeOK
  <2> QED BY <1>1, <1>2, <2>1, <2>2, <2>3, <2>4, ClassifyType
<1> QED BY <1>3, <1>4

(* The reports the environment makes.                                       *)
Reports(r) ==
  \/ \E st \in {"open", "moving", "stopped"}, user \in BOOLEAN :
       Says(st, user) /\ r = [old |-> shown, new |-> [pos |-> motor.pos, st |-> st], user |-> user]
  \/ SaysEarly /\ r = [old |-> shown, new |-> [pos |-> motor.goal, st |-> "open"], user |-> FALSE]
  \/ GoesSilent /\ r = [old |-> shown, new |-> [pos |-> NoPos, st |-> "unavailable"],
                        user |-> FALSE]

LEMMA ReportsWhat ==
  ASSUME TypeOK, NEW r, Reports(r)
  PROVE  /\ r \in Report /\ CoverReports(r) /\ motor' = motor /\ events' \in 0..MaxEvents
         /\ hand' \in {hand, "no"} /\ r.old = shown
         /\ r.user => motor.by = "ui"
         /\ \/ grace > 0
            \/ r.new.pos = motor.pos /\ (r.new.st = "stopped" => motor.by = "hand")
            \/ r.new.pos = NoPos
<1>1. motor.pos \in Positions /\ motor.goal \in Positions /\ shown \in Shown
  BY DEF TypeOK
<1>2. ASSUME NEW st \in {"open", "moving", "stopped"}, NEW user \in BOOLEAN, Says(st, user),
             r = [old |-> shown, new |-> [pos |-> motor.pos, st |-> st], user |-> user]
      PROVE  /\ r \in Report /\ CoverReports(r) /\ motor' = motor /\ events' \in 0..MaxEvents
             /\ hand' = hand /\ r.old = shown /\ (r.user => motor.by = "ui")
             /\ r.new.pos = motor.pos /\ (r.new.st = "stopped" => motor.by = "hand")
  BY <1>1, <1>2 DEF Says, Report, Shown, TypeOK
<1>3. CASE SaysEarly /\ r = [old |-> shown, new |-> [pos |-> motor.goal, st |-> "open"], user |-> FALSE]
  BY <1>1, <1>3, EventCounts DEF SaysEarly, Report, Shown
<1>4. CASE GoesSilent /\ r = [old |-> shown, new |-> [pos |-> NoPos, st |-> "unavailable"], user |-> FALSE]
  BY <1>1, <1>4, EventCounts DEF GoesSilent, Report, Shown
<1> QED BY <1>2, <1>3, <1>4 DEF Reports

LEMMA ReportsTyped ==
  ASSUME TypeOK, NEW r, Reports(r) PROVE TypeOK'
<1>1. r \in Report /\ CoverReports(r) /\ motor' = motor /\ events' \in 0..MaxEvents /\ hand' \in {hand, "no"}
  BY ReportsWhat
<1> QED BY <1>1, ReportsType DEF TypeOK

LEMMA ResumeType ==
  ASSUME TypeOK, NEW sends \in BOOLEAN, NEW t \in Positions, Resume(sends, t) PROVE TypeOK'
<1> DEFINE over == IF Expired THEN Never ELSE override
<1>1. override' \in [on : BOOLEAN, timed : BOOLEAN, age : 0..Duration+1]
  BY NeverType DEF Resume, TypeOK
<1>2. /\ rec' \in Record /\ grace' \in 0..Grace /\ since' \in 0..Window
      /\ motor' \in [pos : Positions, goal : Positions, by : {"us", "hand", "ui"}]
  <2>1. CASE sends
    <3>1. rec' = Commanded(t) /\ grace' = Grace /\ since' = 0
          /\ motor' = [motor EXCEPT !.goal = t, !.by = "us"]
      BY <2>1 DEF Resume
    <3>2. motor \in [pos : Positions, goal : Positions, by : {"us", "hand", "ui"}]
      BY DEF TypeOK
    <3>3. 0 \in 0..Window /\ Grace \in 0..Grace
      BY Numeric
    <3> QED BY <3>1, <3>2, <3>3, CommandedType
  <2>2. CASE ~sends
    BY <2>2 DEF Resume, TypeOK
  <2> QED BY <2>1, <2>2
<1>3. cycles' \in 0..MaxQueue /\ resetting' \in 0..MaxQueue+1
  <2>1. /\ cycles \in 0..MaxQueue /\ cycles > 0 /\ cycles' = cycles - 1
        /\ resetting \in 0..MaxQueue+1
        /\ resetting' = IF resetting > 1 THEN resetting - 1 ELSE resetting
    BY DEF Resume, TypeOK
  <2> QED BY <2>1, Numeric
<1>4. queue' \in Seq(Report) /\ judging' \in Seq(Report)
  <2>1. queue \in Seq(Report) /\ judging \in Seq(Report) /\ <<>> \in Seq(Report)
    BY DEF TypeOK
  <2> QED BY <2>1 DEF Resume
<1>5. /\ change' \in BOOLEAN /\ mark' \in BOOLEAN /\ excused' \in BOOLEAN /\ stale' \in BOOLEAN
  <2>1. change' = FALSE
    BY DEF Resume
  <2>2. CASE change /\ gates.toggle /\ startup = 0 /\ gates.external
    <3>1. excused' = (excused \/ Len(queue) > 1) /\ mark' = mark /\ stale' = stale
      BY <2>2 DEF Resume
    <3> QED BY <2>1, <3>1 DEF TypeOK
  <2>3. CASE ~(change /\ gates.toggle /\ startup = 0 /\ gates.external)
    <3>1. /\ excused' = excused /\ stale' = (stale \/ (change /\ mark))
          /\ mark' = (mark /\ ~(change /\ gates.toggle /\ startup = 0 /\ queue # <<>>))
      BY <2>3 DEF Resume
    <3> QED BY <2>1, <3>1 DEF TypeOK
  <2> QED BY <2>2, <2>3
<1>6. /\ hand' \in {hand, "no"} /\ UNCHANGED <<shown, startup, gates, events>>
  BY DEF Resume
<1> QED BY <1>1, <1>2, <1>3, <1>4, <1>5, <1>6 DEF TypeOK

LEMMA JudgeType ==
  ASSUME TypeOK, NEW state \in Positions, Judge(state) PROVE TypeOK'
<1>1. judging' \in Seq(Report)
  BY HeadTailProperties DEF Judge, TypeOK
<1>2. AllowReset \in BOOLEAN
  BY Strategies
<1>3. /\ override' \in [on : BOOLEAN, timed : BOOLEAN, age : 0..Duration+1] /\ rec' \in Record
  <2>1. CASE Engage(AllowReset)
    BY <1>2, <2>1, EngagedType, NoRecType DEF Engage, TypeOK
  <2>2. CASE UNCHANGED <<override, rec>>
    BY <2>2 DEF TypeOK
  <2> QED BY <2>1, <2>2 DEF Judge
<1>4. hand' \in {"no", "judged", "swallowed"} /\ mark' \in BOOLEAN /\ stale' \in BOOLEAN
  BY DEF Judge, TypeOK
<1> QED BY <1>1, <1>3, <1>4 DEF Judge, TypeOK

LEMMA TickType == TypeOK /\ Tick => TypeOK'
<1> SUFFICES ASSUME TypeOK, Tick PROVE TypeOK'
  OBVIOUS
<1>1. rec' \in Record
  <2>1. rec \in Record /\ rec.clock \in 0..Timeout+1
    BY DEF TypeOK, Record
  <2>2. Older(rec.clock, Timeout + 1) \in 0..Timeout+1
    BY <2>1, Numeric DEF Older, Least
  <2>3. \A c \in 0..Timeout+1 : [rec EXCEPT !.clock = c] \in Record
    BY <2>1 DEF Record
  <2>4. rec' = [rec EXCEPT !.clock = IF rec.waiting THEN Older(rec.clock, Timeout + 1) ELSE rec.clock]
    BY DEF Tick
  <2> QED BY <2>1, <2>2, <2>3, <2>4
<1>2. override' \in [on : BOOLEAN, timed : BOOLEAN, age : 0..Duration+1]
  <2>1. Older(override.age, Duration + 1) \in 0..Duration+1
    BY Numeric DEF Older, Least, TypeOK
  <2> QED BY <2>1 DEF Tick, TypeOK
<1>3. grace' \in 0..Grace /\ startup' \in 0..StartGrace
  <2>1. /\ grace \in 0..Grace /\ startup \in 0..StartGrace
        /\ grace' = Younger(grace) /\ startup' = Younger(startup)
    BY DEF Tick, TypeOK
  <2> QED BY <2>1, Numeric DEF Younger
<1>4. since' \in 0..Window
  <2>1. since \in 0..Window /\ since' = Older(since, Window)
    BY DEF Tick, TypeOK
  <2> QED BY <2>1, Numeric DEF Older, Least
<1>5. excused' \in BOOLEAN
  BY DEF Tick, TypeOK
<1> QED BY <1>1, <1>2, <1>3, <1>4, <1>5 DEF Tick, TypeOK

(* What is left of the steps of the user and of the service.                *)
Interferes ==
  \/ InputEdge \/ Overdue \/ \E my \in Presets : StopPressed(my)
  \/ \E p \in Positions : \/ \E by \in {"hand", "ui"} : UserDrives(p, by)
                          \/ ProxyCommand(p)
Resets == PressReset \/ \E p \in Positions, b \in BOOLEAN : ResetEnds(b, p)
Rest   == Runs \/ Trigger \/ \E gate \in {"toggle", "external"} : Toggle(gate)

LEMMA NextSplit ==
  Next => \/ \E r : Reports(r)
          \/ \E p \in Positions : Judge(p) \/ \E b \in BOOLEAN : Resume(b, p)
          \/ Tick \/ Interferes \/ Resets \/ Rest
<1> SUFFICES ASSUME Next
             PROVE  \/ \E r : Reports(r)
                    \/ \E p \in Positions : Judge(p) \/ \E b \in BOOLEAN : Resume(b, p)
                    \/ Tick \/ Interferes \/ Resets \/ Rest
  OBVIOUS
<1>1. CASE SaysEarly \/ GoesSilent
  BY <1>1 DEF Reports
<1>2. CASE \E st \in {"open", "moving", "stopped"}, user \in BOOLEAN : Says(st, user)
  BY <1>2 DEF Reports
<1>3. CASE ~(\/ SaysEarly \/ GoesSilent
             \/ \E st \in {"open", "moving", "stopped"}, user \in BOOLEAN : Says(st, user))
  BY <1>3 DEF Next, Interferes, Resets, Rest
<1> QED BY <1>1, <1>2, <1>3

LEMMA InterferesType == TypeOK /\ Interferes => TypeOK' /\ excused'
<1> SUFFICES ASSUME TypeOK, Interferes PROVE TypeOK' /\ excused'
  OBVIOUS
<1>0. /\ rec \in Record /\ motor \in [pos : Positions, goal : Positions, by : {"us", "hand", "ui"}]
      /\ override \in [on : BOOLEAN, timed : BOOLEAN, age : 0..Duration+1]
  BY DEF TypeOK
<1>1. CASE InputEdge
  <2>1. rec' \in Record /\ override' \in [on : BOOLEAN, timed : BOOLEAN, age : 0..Duration+1]
    BY <1>0, <1>1, EngagedType, NoRecType DEF InputEdge, Engage
  <2>2. cycles' \in 0..MaxQueue /\ events' \in 0..MaxEvents
    BY <1>1, EventCounts, Numeric DEF InputEdge, TypeOK
  <2> QED BY <1>1, <2>1, <2>2 DEF InputEdge, TypeOK
<1>2. CASE Overdue
  <2>1. rec' \in Record
    BY <1>0, <1>2 DEF Overdue, Record
  <2> QED BY <1>2, <2>1 DEF Overdue, TypeOK
<1>3. ASSUME NEW my \in Presets, StopPressed(my) PROVE TypeOK' /\ excused'
  <2>0. my \in Positions
    BY Numeric
  <2>1. motor' \in [pos : Positions, goal : Positions, by : {"us", "hand", "ui"}]
    BY <1>0, <1>3, <2>0 DEF StopPressed
  <2>2. rec' \in Record
    <3>1. /\ [rec EXCEPT !.target = my] \in Record /\ [NoRec EXCEPT !.target = my] \in Record
      BY <1>0, <2>0, NoRecType DEF Record
    <3>2. rec' \in {rec, [rec EXCEPT !.target = my], [NoRec EXCEPT !.target = my]}
      BY <1>3 DEF StopPressed
    <3> QED BY <1>0, <3>1, <3>2
  <2>3. override' \in [on : BOOLEAN, timed : BOOLEAN, age : 0..Duration+1]
    BY <1>0, <1>3, EngagedType DEF StopPressed
  <2>4. events' \in 0..MaxEvents
    BY <1>3, EventCounts DEF StopPressed
  <2> QED BY <1>3, <2>1, <2>2, <2>3, <2>4 DEF StopPressed, TypeOK
<1>4. ASSUME NEW p \in Positions, NEW by \in {"hand", "ui"}, UserDrives(p, by)
      PROVE TypeOK' /\ excused'
  <2>1. motor' \in [pos : Positions, goal : Positions, by : {"us", "hand", "ui"}]
    BY <1>0, <1>4 DEF UserDrives
  <2>2. events' \in 0..MaxEvents
    BY <1>4, EventCounts DEF UserDrives
  <2> QED BY <1>4, <2>1, <2>2 DEF UserDrives, TypeOK
<1>5. ASSUME NEW p \in Positions, ProxyCommand(p) PROVE TypeOK' /\ excused'
  <2>1. motor' \in [pos : Positions, goal : Positions, by : {"us", "hand", "ui"}]
    BY <1>0, <1>5 DEF ProxyCommand
  <2>2. events' \in 0..MaxEvents
    BY <1>5, EventCounts DEF ProxyCommand
  <2>3. override' \in [on : BOOLEAN, timed : BOOLEAN, age : 0..Duration+1]
    BY <1>5, EngagedType DEF ProxyCommand
  <2>4. rec' \in Record /\ grace' \in 0..Grace /\ since' \in 0..Window
    BY <1>5, CommandedType, Numeric DEF ProxyCommand
  <2> QED BY <1>5, <2>1, <2>2, <2>3, <2>4 DEF ProxyCommand, TypeOK
<1> QED BY <1>1, <1>2, <1>3, <1>4, <1>5 DEF Interferes

LEMMA ResetsType == TypeOK /\ Resets => TypeOK'
<1> SUFFICES ASSUME TypeOK, Resets PROVE TypeOK'
  OBVIOUS
<1>0. /\ rec \in Record /\ motor \in [pos : Positions, goal : Positions, by : {"us", "hand", "ui"}]
  BY DEF TypeOK
<1>1. CASE PressReset
  <2>1. rec' \in Record
    BY <1>0, <1>1 DEF PressReset, Record
  <2>2. /\ events' \in 0..MaxEvents /\ cycles' \in 0..MaxQueue /\ resetting' \in 0..MaxQueue+1
    <3>1. /\ cycles \in 0..MaxQueue /\ cycles < MaxQueue /\ cycles' = cycles + 1
          /\ resetting' = cycles + 2
      BY <1>1 DEF PressReset, TypeOK
    <3> QED BY <1>1, <3>1, EventCounts, Numeric DEF PressReset
  <2> QED BY <1>1, <2>1, <2>2, NeverType DEF PressReset, TypeOK
<1>2. ASSUME NEW p \in Positions, NEW b \in BOOLEAN, ResetEnds(b, p) PROVE TypeOK'
  <2>1. /\ rec' \in Record /\ grace' \in 0..Grace /\ since' \in 0..Window
        /\ motor' \in [pos : Positions, goal : Positions, by : {"us", "hand", "ui"}]
    <3>1. CASE b
      <4>1. rec' = Commanded(p) /\ grace' = Grace /\ since' = 0
            /\ motor' = [motor EXCEPT !.goal = p, !.by = "us"]
        BY <1>2, <3>1 DEF ResetEnds
      <4>2. 0 \in 0..Window /\ Grace \in 0..Grace
        BY Numeric
      <4> QED BY <1>0, <4>1, <4>2, CommandedType
    <3>2. CASE ~b
      <4>1. rec' = [rec EXCEPT !.waiting = FALSE] /\ UNCHANGED <<motor, grace, since>>
        BY <1>2, <3>2 DEF ResetEnds
      <4>2. rec' \in Record
        BY <1>0, <4>1 DEF Record
      <4> QED BY <1>0, <4>1, <4>2 DEF TypeOK
    <3> QED BY <3>1, <3>2
  <2>2. resetting' \in 0..MaxQueue+1
    BY <1>2, Numeric DEF ResetEnds
  <2> QED BY <1>2, <2>1, <2>2 DEF ResetEnds, TypeOK
<1> QED BY <1>1, <1>2 DEF Resets

LEMMA RestType == TypeOK /\ Rest => TypeOK'
<1> SUFFICES ASSUME TypeOK, Rest PROVE TypeOK'
  OBVIOUS
<1>1. CASE Runs
  <2>1. motor' \in [pos : Positions, goal : Positions, by : {"us", "hand", "ui"}]
    <3>1. /\ motor \in [pos : Positions, goal : Positions, by : {"us", "hand", "ui"}]
          /\ motor.pos \in 0..Top /\ motor.goal \in 0..Top
      BY DEF TypeOK, Positions
    <3>2. /\ motor.pos # motor.goal
          /\ motor' = [motor EXCEPT !.pos = IF motor.pos < motor.goal THEN motor.pos + 1
                                            ELSE motor.pos - 1]
      BY <1>1 DEF Runs, Settled
    <3>3. (IF motor.pos < motor.goal THEN motor.pos + 1 ELSE motor.pos - 1) \in 0..Top
      BY <3>1, <3>2, Numeric
    <3> QED BY <3>1, <3>2, <3>3 DEF Positions
  <2> QED BY <1>1, <2>1 DEF Runs, TypeOK, ghosts
<1>2. CASE Trigger
  <2>1. events' \in 0..MaxEvents /\ cycles' \in 0..MaxQueue
    BY <1>2, EventCounts, Numeric DEF Trigger, TypeOK
  <2> QED BY <1>2, <2>1 DEF Trigger, TypeOK, ghosts
<1>3. ASSUME NEW gate \in {"toggle", "external"}, Toggle(gate) PROVE TypeOK'
  <2>1. events' \in 0..MaxEvents
    BY <1>3, EventCounts DEF Toggle
  <2>2. gates' \in [toggle : BOOLEAN, external : BOOLEAN]
    BY <1>3 DEF Toggle, TypeOK
  <2> QED BY <1>3, <2>1, <2>2 DEF Toggle, TypeOK
<1> QED BY <1>1, <1>2, <1>3 DEF Rest

LEMMA InitTyped == Init => TypeOK
<1> SUFFICES ASSUME Init PROVE TypeOK
  OBVIOUS
<1>1. PICK p \in Positions : /\ motor = [pos |-> p, goal |-> p, by |-> "us"]
                             /\ shown = [pos |-> p, st |-> "open"]
  BY DEF Init
<1>2. motor \in [pos : Positions, goal : Positions, by : {"us", "hand", "ui"}] /\ shown \in Shown
  BY <1>1 DEF Shown
<1>3. queue \in Seq(Report) /\ judging \in Seq(Report)
  BY DEF Init
<1>4. /\ grace \in 0..Grace /\ startup \in 0..StartGrace /\ since \in 0..Window
      /\ cycles \in 0..MaxQueue /\ events \in 0..MaxEvents /\ resetting \in 0..MaxQueue+1
  BY Numeric DEF Init
<1>5. rec \in Record /\ override \in [on : BOOLEAN, timed : BOOLEAN, age : 0..Duration+1]
  BY NoRecType, NeverType DEF Init
<1> QED BY <1>2, <1>3, <1>4, <1>5 DEF Init, TypeOK

LEMMA NextTyped == TypeOK /\ [Next]_vars => TypeOK'
<1> SUFFICES ASSUME TypeOK, [Next]_vars PROVE TypeOK'
  OBVIOUS
<1>1. CASE UNCHANGED vars
  BY <1>1 DEF vars, TypeOK
<1>2. CASE Next
  BY <1>2, NextSplit, ReportsTyped, JudgeType, ResumeType, TickType, InterferesType,
     ResetsType, RestType
<1> QED BY <1>1, <1>2

(* Every variable keeps its type.                                           *)
THEOREM TypeCorrect == Spec => []TypeOK
<1> QED BY InitTyped, NextTyped, PTL DEF Spec

-----------------------------------------------------------------------------
(* The times of the overrides.                                              *)

(* What a step makes of the override.                                       *)
LEMMA OverrideSteps ==
  ASSUME TypeOK, [Next]_vars
  PROVE  \/ override' \in {override, Never}
         \/ override' = [override EXCEPT !.age = IF override.timed THEN Older(@, Duration + 1) ELSE @]
         \/ override' = Engaged(FALSE)
         \/ override' = Engaged(TRUE) /\ (AllowReset \/ cycles' = cycles + 1)
<1>1. CASE UNCHANGED vars
  BY <1>1 DEF vars
<1>2. ASSUME NEW r, Reports(r) PROVE override' = override
  BY <1>2, ReportsWhat DEF CoverReports
<1>3. ASSUME NEW p \in Positions, Judge(p)
      PROVE  override' \in {override, Engaged(FALSE)} \/ (override' = Engaged(TRUE) /\ AllowReset)
  BY <1>3, Strategies DEF Judge, Engage
<1>4. ASSUME NEW p \in Positions, NEW b \in BOOLEAN, Resume(b, p) PROVE override' \in {override, Never}
  BY <1>4 DEF Resume
<1>5. CASE Tick
  BY <1>5 DEF Tick
<1>6. CASE Interferes
  <2>1. CASE InputEdge
    BY <2>1 DEF InputEdge, Engage
  <2>2. CASE Overdue
    BY <2>2 DEF Overdue
  <2>3. ASSUME NEW my \in Presets, StopPressed(my) PROVE override' \in {override, Engaged(FALSE)}
    BY <2>3 DEF StopPressed
  <2>4. ASSUME NEW p \in Positions, NEW by \in {"hand", "ui"}, UserDrives(p, by)
        PROVE override' = override
    BY <2>4 DEF UserDrives
  <2>5. ASSUME NEW p \in Positions, ProxyCommand(p) PROVE override' = Engaged(FALSE)
    BY <2>5 DEF ProxyCommand
  <2> QED BY <1>6, <2>1, <2>2, <2>3, <2>4, <2>5 DEF Interferes
<1>7. CASE Resets
  <2>1. CASE PressReset
    BY <2>1 DEF PressReset
  <2>2. ASSUME NEW p \in Positions, NEW b \in BOOLEAN, ResetEnds(b, p) PROVE override' = override
    BY <2>2 DEF ResetEnds
  <2> QED BY <1>7, <2>1, <2>2 DEF Resets
<1>8. CASE Rest
  BY <1>8 DEF Rest, Runs, Trigger, Toggle
<1> QED BY <1>1, <1>2, <1>3, <1>4, <1>5, <1>6, <1>7, <1>8, NextSplit

LEMMA NextTimed == TypeOK /\ OverrideTimed /\ [Next]_vars => OverrideTimed'
<1> SUFFICES ASSUME TypeOK, OverrideTimed, [Next]_vars PROVE OverrideTimed'
  OBVIOUS
<1>1. override \in [on : BOOLEAN, timed : BOOLEAN, age : 0..Duration+1]
  BY DEF TypeOK
<1> QED BY <1>1, OverrideSteps DEF OverrideTimed, Engaged, Never

(* Whatever engages an override also sets the time its reset is counted     *)
(* from (_apply_decision, async_apply_user_position).                       *)
THEOREM OverrideAlwaysTimed == Spec => []OverrideTimed
<1>1. Init => OverrideTimed
  BY DEF Init, OverrideTimed, Never
<1> QED BY <1>1, InitTyped, NextTyped, NextTimed, PTL DEF Spec

(* Without manual_reset nothing but the edge of a wall switch sets the age  *)
(* of an override back (set_last_updated).                                  *)
THEOREM NeverProlonged == Spec => NotProlonged
<1>1. ASSUME TypeOK, OverrideTimed, [Next]_vars,
             override.on, override'.on, ~AllowReset, cycles' <= cycles
      PROVE  override'.age >= override.age
  <2>1. /\ override \in [on : BOOLEAN, timed : BOOLEAN, age : 0..Duration+1]
        /\ override.age \in 0..Duration+1 /\ override.timed
    BY <1>1 DEF TypeOK, OverrideTimed
  <2>2. cycles \in Int
    BY <1>1 DEF TypeOK
  <2>3. ~(cycles' = cycles + 1)
    BY <1>1, <2>2
  <2>4. CASE override' = override
    BY <2>1, <2>4
  <2>5. CASE override' = Never
    BY <1>1, <2>5 DEF Never
  <2>6. CASE override' = [override EXCEPT !.age = IF override.timed THEN Older(@, Duration + 1) ELSE @]
    <3>1. override'.age = Older(override.age, Duration + 1)
      BY <2>1, <2>6
    <3> QED BY <2>1, <3>1, Numeric DEF Older, Least
  <2>7. CASE override' = Engaged(FALSE)
    <3>1. override'.age = override.age
      BY <2>1, <2>7 DEF Engaged
    <3> QED BY <2>1, <3>1
  <2> QED BY <1>1, <2>3, <2>4, <2>5, <2>6, <2>7, OverrideSteps
<1>2. TypeOK /\ OverrideTimed /\ [Next]_vars =>
        [override.on /\ override'.on /\ ~AllowReset /\ cycles' <= cycles
           => override'.age >= override.age]_vars
  BY <1>1
<1> QED BY <1>2, TypeCorrect, OverrideAlwaysTimed, PTL DEF Spec, NotProlonged

-----------------------------------------------------------------------------
(* The integration's own travel.                                            *)

Own == Untouched /\ Driven /\ Innocent(queue) /\ Alone /\ Len(judging) <= 1 /\ Innocent(judging)

(* The classifier ends the wait only at the target, as long as the reports  *)
(* show progress.                                                           *)
LEMMA ClassifyOwn ==
  ASSUME TypeOK, Driven, NEW r \in Report, Classify(r), r.old.st # "unavailable",
         ~(rec.waiting /\ grace = 0 /\ NoProgress(r)), r.new.st = "stopped" => grace > 0
  PROVE  /\ rec'.target = rec.target
         /\ rec'.waiting => rec.waiting /\ rec'.clock < Timeout
         /\ grace' > 0 => rec'.waiting
         /\ rec.waiting /\ ~rec'.waiting =>
              grace = 0 /\ Known(r.new) /\ Near(r.new.pos, rec.target) /\ mark'
<1>0. /\ rec \in Record /\ rec.clock \in 0..Timeout+1 /\ grace \in 0..Grace
      /\ rec.target \in Positions \cup {NoPos}
  BY DEF TypeOK, Record
<1>1. /\ [rec EXCEPT !.waiting = FALSE].target = rec.target
      /\ ~[rec EXCEPT !.waiting = FALSE].waiting
      /\ [rec EXCEPT !.clock = 0].target = rec.target
      /\ [rec EXCEPT !.clock = 0].waiting = rec.waiting
      /\ [rec EXCEPT !.clock = 0].clock = 0
  BY <1>0 DEF Record
<1>2. CASE ~rec.waiting \/ grace > 0 \/ (IgnoreMoving /\ Moving(r.new))
  <2>1. rec' = rec /\ grace' = grace
    BY <1>2 DEF Classify
  <2> QED BY <2>1 DEF Driven
<1> DEFINE waits == ~(~rec.waiting \/ grace > 0 \/ (IgnoreMoving /\ Moving(r.new)))
           there == Known(r.new) /\ rec.target # NoPos /\ Near(r.new.pos, rec.target)
<1>3. waits => rec.waiting /\ grace = 0 /\ rec.target # NoPos /\ rec.clock < Timeout
  BY <1>0, Numeric DEF Driven
<1>4. CASE waits /\ there
  <2>1. rec' = [rec EXCEPT !.waiting = FALSE] /\ grace' = grace /\ mark'
    BY <1>4 DEF Classify
  <2> QED BY <1>1, <1>3, <1>4, <2>1
<1>5. CASE waits /\ ~there
  <2>1. Paused(r) \/ Optimistic(r) \/ Nearer(r) \/ Starting(r)
    <3>1. rec.waiting /\ grace = 0 /\ rec.target # NoPos /\ rec.clock < Timeout
      BY <1>3, <1>5
    <3>2. Known(r.new) /\ r.new.st # "stopped"
      BY <3>1 DEF NoProgress
    <3>3. r.new.pos # rec.target
      <4>1. r.new.pos = rec.target => Near(r.new.pos, rec.target)
        BY <1>0, <3>1, Numeric DEF Near, Dist, Positions, NoPos
      <4> QED BY <1>5, <3>1, <3>2, <4>1
    <3>4. CASE r.old.pos = rec.target
      BY <3>1, <3>2, <3>3, <3>4 DEF Optimistic
    <3>5. CASE r.old.pos # rec.target /\ ~Nearer(r)
      <4>1. r.old.st # r.new.st /\ ~(Dist(r.new.pos, rec.target) > Dist(r.old.pos, rec.target))
        BY <3>1, <3>5 DEF NoProgress
      <4>2. r.old \in Shown /\ r.new \in Shown
        BY DEF Report
      <4>3. Known(r.old) /\ r.old.pos \in Positions /\ r.new.pos \in Positions
        BY <3>2, <4>2, Numeric DEF Shown, Known
      <4>4. Measured(r)
        BY <3>1, <3>2, <4>3 DEF Measured
      <4>5. Dist(r.new.pos, rec.target) = Dist(r.old.pos, rec.target)
        <5>1. ~(Dist(r.new.pos, rec.target) < Dist(r.old.pos, rec.target))
          BY <3>5, <4>4 DEF Nearer
        <5>2. Dist(r.new.pos, rec.target) \in Int /\ Dist(r.old.pos, rec.target) \in Int
          BY <1>0, <4>3 DEF Dist, Positions, NoPos
        <5> QED BY <4>1, <5>1, <5>2
      <4>6. CASE Moving(r.old)
        <5>1. ~Moving(r.new)
          BY <4>1, <4>6 DEF Moving
        <5> QED BY <3>1, <3>2, <3>3, <4>6, <5>1 DEF Paused
      <4>7. CASE ~Moving(r.old)
        <5>1. rec.clock <= Timeout
          BY <1>0, <3>1, Numeric
        <5> QED BY <4>1, <4>4, <4>5, <4>7, <5>1 DEF Starting
      <4> QED BY <4>6, <4>7
    <3>6. CASE Nearer(r)
      BY <3>6
    <3> QED BY <3>4, <3>5, <3>6
  <2>2. rec' = rec \/ rec' = [rec EXCEPT !.clock = 0]
    BY <1>5, <2>1 DEF Classify
  <2>3. 0 < Timeout
    BY Numeric
  <2> QED BY <1>1, <1>3, <1>5, <2>2, <2>3
<1> QED BY <1>2, <1>4, <1>5

LEMMA ReportsOwn ==
  ASSUME TypeOK, Own, ~excused, NEW r, Reports(r), ~excused' PROVE Own'
<1>0. /\ r \in Report /\ CoverReports(r) /\ motor' = motor /\ r.old = shown
      /\ r.user => motor.by = "ui"
      /\ \/ grace > 0
         \/ r.new.pos = motor.pos /\ (r.new.st = "stopped" => motor.by = "hand")
         \/ r.new.pos = NoPos
  BY ReportsWhat
<1>1. /\ judging = <<>> /\ judging' = judging /\ override' = override /\ resetting' = resetting
      /\ shown' = r.new /\ motor.by = "us"
      /\ ~(rec.waiting /\ grace = 0 /\ NoProgress(r)) /\ ~StillShort(r)
  BY <1>0 DEF CoverReports, Quiet, Own, Untouched
<1>2. ~r.user /\ (r.new.st = "stopped" => grace > 0 \/ r.new.pos = NoPos)
  BY <1>0, <1>1
<1>3. r.new \in Shown /\ r.old \in Shown /\ motor.pos \in Positions
      /\ queue \in Seq(Report) /\ grace \in 0..Grace
  BY <1>0 DEF Report, TypeOK
<1>4. r.new.st = "stopped" => r.new.pos # NoPos
  BY <1>3, Numeric DEF Shown
<1>5. r.new.st = "stopped" => grace > 0
  BY <1>2, <1>4
<1>6. rec.target = NoPos => grace = 0 /\ (Known(r.new) => r.new.pos = motor.pos)
  <2>1. grace = 0 \/ grace > 0
    BY <1>3, Numeric
  <2> QED BY <1>0, <2>1 DEF Own, Driven, Known
<1>7. Len(judging') <= 1 /\ Innocent(judging)' /\ Unmarked(judging)' /\ Alone'
  <2>1. Len(judging') # 1
    BY <1>1
  <2> QED BY <1>1, <2>1 DEF Innocent, Unmarked, Alone
<1>8. CASE r.old.st = "unavailable"
  <2>1. rec' = rec /\ grace' = grace /\ queue' = queue /\ mark' = mark
    BY <1>0, <1>8 DEF CoverReports
  <2>2. Driven'
    BY <1>0, <1>1, <1>6, <2>1 DEF Own, Driven, Settled
  <2>3. Innocent(queue)' /\ Unmarked(queue)'
    BY <2>1 DEF Own, Innocent, Harmless, Untouched, Unmarked
  <2> QED BY <1>0, <1>1, <1>7, <2>2, <2>3 DEF Own, Untouched
<1>9. CASE r.old.st # "unavailable"
  <2>0. Classify(r) /\ queue' = Append(queue, r)
    BY <1>0, <1>9 DEF CoverReports
  <2>1. /\ rec'.target = rec.target
        /\ rec'.waiting => rec.waiting /\ rec'.clock < Timeout
        /\ grace' > 0 => rec'.waiting
        /\ rec.waiting /\ ~rec'.waiting =>
             grace = 0 /\ Known(r.new) /\ Near(r.new.pos, rec.target) /\ mark'
    BY <1>0, <1>1, <1>5, <1>9, <2>0, ClassifyOwn DEF Own
  <2>2. ASSUME ~rec'.waiting, rec.target # NoPos
        PROVE  /\ Near(motor.pos, rec.target)
               /\ Known(r.new) => mark' \/ Dist(r.new.pos, rec.target) <= Threshold
    <3>1. CASE rec.waiting
      <4>1. r.new.pos = motor.pos
        BY <1>0, <2>1, <2>2, <3>1, <1>3, Numeric DEF Known
      <4> QED BY <2>1, <2>2, <3>1, <4>1
    <3>2. CASE ~rec.waiting
      <4>1. Near(motor.pos, rec.target) /\ ~(grace > 0)
        BY <2>2, <3>2 DEF Own, Driven
      <4>2. Known(r.new) => Dist(r.new.pos, rec.target) <= Tolerance
        BY <1>0, <4>1 DEF Known, Near
      <4>3. Known(r.new) => Dist(r.new.pos, rec.target) \notin Threshold+1..Tolerance
        BY <1>1, <1>9, <2>2, <3>2 DEF StillShort
      <4>4. Dist(r.new.pos, rec.target) \in Int
        BY <1>3, Numeric DEF Dist, Shown, Positions, NoPos, TypeOK, Record
      <4> QED BY <4>1, <4>2, <4>3, <4>4, Numeric
    <3> QED BY <3>1, <3>2
  <2>3. Driven'
    BY <1>0, <1>1, <1>6, <2>1, <2>2 DEF Own, Driven, Settled
  <2>4. Unmarked(queue)'
    <3>1. \A i \in 1..Len(queue') : queue'[i] = r \/ (i \in 1..Len(queue) /\ queue'[i] = queue[i])
      BY <1>0, <1>3, <2>0, AppendProperties
    <3> QED BY <1>2, <3>1 DEF Own, Untouched, Unmarked
  <2>5. Innocent(queue)'
    <3>1. Len(queue') = 1 => queue'[1] = r
      BY <1>0, <1>3, <2>0, AppendProperties
    <3>2. ~rec'.waiting => Harmless(r)' \/ mark'
      <4>1. CASE rec.target = NoPos
        <5>1. Known(r.old) /\ Known(r.new) => r.old.pos = r.new.pos
          BY <1>0, <1>6, <4>1 DEF Own, Driven
        <5> QED BY <2>1, <4>1, <5>1 DEF Harmless
      <4>2. CASE rec.target # NoPos
        BY <2>1, <2>2, <4>2 DEF Harmless
      <4> QED BY <4>1, <4>2
    <3> QED BY <3>1, <3>2 DEF Innocent, Harmless
  <2> QED BY <1>0, <1>1, <1>7, <2>3, <2>4, <2>5 DEF Own, Untouched
<1> QED BY <1>8, <1>9

(* A harmless report moves no cover in the eyes of the delta detector.      *)
LEMMA HarmlessUndetected ==
  ASSUME TypeOK, Detector = "delta", NEW r \in Report, Harmless(r), NEW state
  PROVE  ~Detected(r, state)
<1>1. r.old.pos \in Positions \cup {NoPos} /\ r.new.pos \in Positions \cup {NoPos}
  BY DEF Report, Shown
<1>2. rec.target \in Positions \cup {NoPos}
  BY DEF TypeOK, Record
<1>3. CASE rec.target = NoPos
  BY <1>1, <1>3, Numeric DEF Detected, MovedByDelta, Harmless, Dist, Positions, NoPos
<1>4. CASE rec.target # NoPos
  <2>1. Known(r.new) => Dist(r.new.pos, rec.target) <= Threshold
    BY <1>4 DEF Harmless
  <2>2. Dist(rec.target, r.new.pos) = Dist(r.new.pos, rec.target)
        /\ Dist(r.new.pos, rec.target) \in Int
    BY <1>1, <1>2 DEF Dist, Positions, NoPos
  <2> QED BY <1>4, <2>1, <2>2, Numeric DEF Detected, MovedByDelta
<1> QED BY <1>3, <1>4

LEMMA JudgeOwn ==
  ASSUME TypeOK, Own, Detector = "delta", NEW state, Judge(state) PROVE Own'
<1>1. judging \in Seq(Report) /\ judging # <<>> /\ Len(judging) <= 1
  BY DEF Judge, TypeOK, Own
<1>2. Len(judging) = 1 /\ Head(judging) = judging[1] /\ judging[1] \in Report
      /\ judging' = Tail(judging) /\ Len(judging') = 0
  <2>1. judging' = Tail(judging)
    BY DEF Judge
  <2>2. Len(judging) \in Nat /\ Len(judging) # 0
    BY <1>1, EmptySeq, LenProperties
  <2>3. \A n \in Nat : n # 0 /\ n <= 1 => n = 1
    OBVIOUS
  <2>4. Len(judging) = 1
    BY <1>1, <2>2, <2>3, Zenon
  <2>5. judging[1] \in Report
    BY <1>1, <2>4, ElementOfSeq
  <2> QED BY <1>1, <2>1, <2>4, <2>5, HeadTailProperties
<1>3. ~judging[1].user
  BY <1>2 DEF Own, Untouched, Unmarked
<1>4. Spared \/ Explained \/ ~Detected(judging[1], state)
  <2>1. CASE rec.waiting
    BY <2>1 DEF Explained
  <2>2. CASE mark
    BY <2>2 DEF Spared
  <2>3. CASE ~rec.waiting /\ ~mark
    <3>1. Harmless(judging[1])
      BY <1>2, <2>3 DEF Own, Innocent
    <3> QED BY <1>2, <3>1, HarmlessUndetected
  <2> QED BY <2>1, <2>2, <2>3
<1>5. UNCHANGED <<override, rec>>
  <2>1. ~(~Spared /\ ~Explained /\ Detected(Head(judging), state))
    BY <1>2, <1>4
  <2>2. ~Head(judging).user
    BY <1>2, <1>3
  <2> QED BY <2>1, <2>2, Zenon DEF Judge
<1>6. UNCHANGED <<motor, shown, grace, queue, resetting>>
  BY DEF Judge
<1>7. Len(judging') <= 1 /\ Unmarked(judging)' /\ Innocent(judging)'
  <2>1. Len(judging') = 0
    BY <1>2
  <2>2. 1..Len(judging') = {}
    BY <2>1
  <2>3. Unmarked(judging)'
    BY <2>2 DEF Unmarked
  <2>4. Innocent(judging)'
    BY <2>1 DEF Innocent
  <2> QED BY <2>1, <2>3, <2>4
<1>8. Driven' /\ Innocent(queue)' /\ Unmarked(queue)' /\ Alone'
  <2>1. queue = <<>> /\ queue' = <<>>
    BY <1>1, <1>6 DEF Own, Alone
  <2>2. Len(queue') # 1
    BY <2>1
  <2> QED BY <1>5, <1>6, <2>1, <2>2 DEF Own, Driven, Settled, Innocent, Untouched, Unmarked, Alone
<1> QED BY <1>5, <1>6, <1>7, <1>8 DEF Own, Untouched

LEMMA ResumeOwn ==
  ASSUME TypeOK, Own, NEW b \in BOOLEAN, NEW p \in Positions, Resume(b, p), ~excused'
  PROVE  Own'
<1>1. override' = override /\ resetting' = resetting /\ shown' = shown
  BY DEF Resume, Expired, Own, Untouched
<1>2. judging = <<>> /\ queue \in Seq(Report)
  BY DEF Resume, Quiet, TypeOK
<1>3. queue' \in {queue, <<>>}
  BY DEF Resume
<1>4. judging' = judging \/ (judging' = queue /\ ~(Len(queue) > 1))
  BY DEF Resume
<1>5. Len(judging') <= 1 /\ Unmarked(queue)' /\ Unmarked(judging)' /\ Alone'
  <2>1. judging' = <<>> \/ queue' = <<>>
    BY <1>2 DEF Resume
  <2>2. Len(judging') <= 1 /\ Unmarked(queue)' /\ Unmarked(judging)'
    BY <1>2, <1>3, <1>4 DEF Own, Untouched, Unmarked
  <2> QED BY <2>1, <2>2 DEF Alone
<1>6. mark' = mark \/ (queue' = <<>> /\ judging' = <<>>)
  <2>1. CASE change /\ gates.toggle /\ startup = 0 /\ gates.external
    BY <2>1 DEF Resume
  <2>2. CASE ~(change /\ gates.toggle /\ startup = 0 /\ gates.external)
    <3>1. /\ mark' = (mark /\ ~(change /\ gates.toggle /\ startup = 0 /\ queue # <<>>))
          /\ judging' = judging /\ (change => queue' = <<>>) /\ mark \in BOOLEAN
      BY <2>2 DEF Resume, TypeOK
    <3> QED BY <1>2, <3>1, Zenon
  <2> QED BY <2>1, <2>2
<1>7. CASE b
  <2>1. rec' = Commanded(p) /\ motor' = [motor EXCEPT !.goal = p, !.by = "us"]
    BY <1>7 DEF Resume
  <2>2. motor'.goal = p /\ motor'.by = "us"
    BY <2>1 DEF TypeOK
  <2>3. /\ rec'.target = p /\ rec'.waiting /\ rec'.clock < Timeout
    BY <2>1, CommandedType, Numeric
  <2>4. Driven'
    BY <2>2, <2>3, Numeric DEF Driven
  <2>5. Innocent(queue)' /\ Innocent(judging)'
    BY <2>3 DEF Innocent
  <2> QED BY <1>1, <1>5, <2>2, <2>4, <2>5 DEF Own, Untouched
<1>8. CASE ~b
  <2>1. UNCHANGED <<rec, grace, motor>>
    BY <1>8 DEF Resume
  <2>2. Driven'
    BY <1>1, <2>1 DEF Own, Driven, Settled
  <2>3. Innocent(queue)' /\ Innocent(judging)'
    <3>1. CASE mark' = mark
      BY <1>3, <1>4, <2>1, <3>1 DEF Own, Innocent, Harmless
    <3>2. CASE queue' = <<>> /\ judging' = <<>>
      <4>1. Len(queue') # 1 /\ Len(judging') # 1
        BY <3>2
      <4> QED BY <4>1 DEF Innocent
    <3> QED BY <1>6, <3>1, <3>2
  <2> QED BY <1>1, <1>5, <2>1, <2>2, <2>3 DEF Own, Untouched
<1> QED BY <1>7, <1>8

LEMMA TickOwn ==
  ASSUME TypeOK, Own, Tick, ~excused' PROVE Own'
<1>1. /\ rec \in Record /\ rec.clock \in 0..Timeout+1 /\ grace \in 0..Grace
      /\ ~(rec.waiting /\ rec.clock + 1 >= Timeout)
  BY DEF TypeOK, Record, Tick
<1>2. rec' = [rec EXCEPT !.clock = IF rec.waiting THEN Older(rec.clock, Timeout + 1) ELSE rec.clock]
  BY DEF Tick
<1>3. rec'.target = rec.target /\ rec'.waiting = rec.waiting
  BY <1>1, <1>2 DEF Record
<1>4. rec.waiting => rec'.clock < Timeout
  <2>1. rec.waiting => rec'.clock = Older(rec.clock, Timeout + 1)
    BY <1>1, <1>2 DEF Record
  <2> QED BY <1>1, <2>1, Numeric DEF Older, Least
<1>5. grace' > 0 => grace > 0
  <2>1. grace' = Younger(grace)
    BY DEF Tick
  <2> QED BY <1>1, <2>1, Numeric DEF Younger
<1>6. UNCHANGED <<motor, shown, queue, judging, mark, resetting>> /\ override'.on = override.on
  BY DEF Tick, TypeOK
<1>7. Driven'
  BY <1>3, <1>4, <1>5, <1>6 DEF Own, Driven, Settled
<1>8. Innocent(queue)' /\ Innocent(judging)'
  BY <1>3, <1>6 DEF Own, Innocent, Harmless
<1> QED BY <1>6, <1>7, <1>8 DEF Own, Untouched, Unmarked, Alone

LEMMA RunsOwn ==
  ASSUME TypeOK, Own, Runs PROVE Own'
<1>1. /\ motor.pos \in 0..Top /\ motor.goal \in 0..Top /\ motor.pos # motor.goal
      /\ motor' = [motor EXCEPT !.pos = IF motor.pos < motor.goal THEN motor.pos + 1
                                        ELSE motor.pos - 1]
  BY DEF Runs, Settled, TypeOK, Positions
<1>2. /\ motor'.goal = motor.goal /\ motor'.by = motor.by
      /\ motor'.pos = IF motor.pos < motor.goal THEN motor.pos + 1 ELSE motor.pos - 1
  BY <1>1 DEF TypeOK
<1>3. UNCHANGED <<shown, rec, grace, queue, judging, mark, override, resetting>>
  BY DEF Runs
<1>4. rec.target # NoPos /\ motor.goal = rec.target
  BY <1>1 DEF Own, Driven, Settled
<1>5. Near(motor.pos, rec.target) => Near(motor'.pos, rec.target)
  BY <1>1, <1>2, <1>4, Numeric DEF Near, Dist
<1>6. Driven'
  BY <1>2, <1>3, <1>4, <1>5 DEF Own, Driven
<1> QED BY <1>2, <1>3, <1>6 DEF Own, Untouched, Unmarked, Innocent, Harmless, Alone

LEMMA NextOwn ==
  ASSUME Detector = "delta", TypeOK, OwnTravel, [Next]_vars PROVE OwnTravel'
<1> SUFFICES ASSUME ~excused' PROVE Own'
  BY DEF OwnTravel, Own
<1>0. ~excused => Own
  BY DEF OwnTravel, Own
<1>1. CASE UNCHANGED vars
  <2>1. Own /\ UNCHANGED <<motor, shown, rec, grace, queue, judging, mark, override, resetting>>
    BY <1>0, <1>1 DEF vars
  <2> QED BY <2>1 DEF Own, Untouched, Unmarked, Driven, Settled, Innocent, Harmless, Alone
<1>2. ASSUME NEW r, Reports(r) PROVE Own'
  <2>1. ~excused
    BY <1>2, ReportsWhat DEF CoverReports
  <2> QED BY <1>0, <1>2, <2>1, ReportsOwn
<1>3. ASSUME NEW p \in Positions, Judge(p) PROVE Own'
  <2>1. ~excused
    BY <1>3 DEF Judge
  <2> QED BY <1>0, <1>3, <2>1, JudgeOwn
<1>4. ASSUME NEW p \in Positions, NEW b \in BOOLEAN, Resume(b, p) PROVE Own'
  <2>1. ~excused
    BY <1>4 DEF Resume
  <2> QED BY <1>0, <1>4, <2>1, ResumeOwn
<1>5. CASE Tick
  <2>1. ~excused
    BY <1>5 DEF Tick
  <2> QED BY <1>0, <1>5, <2>1, TickOwn
<1>6. CASE Interferes
  BY <1>6, InterferesType
<1>7. CASE Resets
  <2>1. ~excused
    BY <1>7 DEF Resets, PressReset, ResetEnds
  <2>2. ~override.on /\ resetting = 0
    BY <1>0, <2>1 DEF Own, Untouched
  <2> QED BY <1>7, <2>2 DEF Resets, PressReset, ResetEnds
<1>8. CASE Runs
  <2>1. ~excused
    BY <1>8 DEF Runs, ghosts
  <2> QED BY <1>0, <1>8, <2>1, RunsOwn
<1>9. CASE Trigger \/ \E gate \in {"toggle", "external"} : Toggle(gate)
  <2>1. Own /\ UNCHANGED <<motor, shown, rec, grace, queue, judging, mark, override, resetting>>
    BY <1>0, <1>9 DEF Trigger, Toggle, ghosts
  <2> QED BY <2>1 DEF Own, Untouched, Unmarked, Driven, Settled, Innocent, Harmless, Alone
<1> QED BY <1>1, <1>2, <1>3, <1>4, <1>5, <1>6, <1>7, <1>8, <1>9, NextSplit DEF Rest

(* With the "delta" strategy the integration never takes its own travel for *)
(* a move of the user, unless a report of the travel showed no progress,    *)
(* the travel was overdue, several reports were judged in one cycle, or the *)
(* cover counted as arrived farther from its target than the threshold and  *)
(* sent one more report from there; for every tolerance and threshold       *)
(* (classify, handle_state_change).                                         *)
THEOREM OwnTravelNeverMarked ==
  ASSUME Detector = "delta" PROVE Spec => []OwnTravelUnmarked
<1>1. Init => OwnTravel
  <2> SUFFICES ASSUME Init PROVE Own
    BY DEF OwnTravel, Own
  <2>1. PICK p \in Positions : /\ motor = [pos |-> p, goal |-> p, by |-> "us"]
                               /\ shown = [pos |-> p, st |-> "open"]
    BY DEF Init
  <2>2. queue = <<>> /\ judging = <<>> /\ Len(<<>>) = 0
    BY DEF Init
  <2>3. Driven
    BY <2>1 DEF Init, Driven, NoRec, Settled
  <2> QED BY <2>1, <2>2, <2>3 DEF Init, Own, Untouched, Unmarked, Innocent, Never, Alone
<1>2. TypeOK /\ OwnTravel /\ [Next]_vars => OwnTravel'
  BY NextOwn
<1>3. TypeOK /\ OwnTravel => OwnTravelUnmarked
  BY DEF OwnTravel, Untouched, OwnTravelUnmarked
<1> QED BY <1>1, <1>2, <1>3, TypeCorrect, PTL DEF Spec
-----------------------------------------------------------------------------
(* The user's own move.                                                     *)

(* What has not been judged yet, and the report that came last.             *)
Remaining == Len(judging) + Len(queue)
Latest    == IF queue # <<>> THEN queue[Len(queue)] ELSE judging[Len(judging)]

(* While a move by hand is to be noticed the classifier waits for nothing,  *)
(* and the cover has not come to rest where it is shown, or the report of   *)
(* that is still to be judged, or there is nothing to notice.  A mark that  *)
(* no drain has outlived meets an earlier report than the one that counts.  *)
Free    == ~rec.waiting /\ grace = 0 /\ startup = 0 /\ Known(shown)
Awaited == \/ shown.pos # motor.goal
           \/ Moving(shown)
           \/ Remaining > 0 /\ Latest.new = shown
           \/ rec.target # NoPos => Dist(rec.target, shown.pos) <= Threshold
MarkMeetsReport == mark /\ ~stale => Remaining > 0
HandWatched ==
  hand = "judged" =>
    /\ Free
    /\ ~override.on => Awaited
    /\ mark /\ ~stale => shown.pos # motor.goal \/ Remaining > 1

LEMMA Lengths ==
  ASSUME TypeOK
  PROVE  /\ Len(judging) \in Nat /\ Len(queue) \in Nat
         /\ (Len(queue) = 0 <=> queue = <<>>) /\ (Len(judging) = 0 <=> judging = <<>>)
  BY EmptySeq, LenProperties DEF TypeOK

LEMMA HandReports ==
  ASSUME TypeOK, NEW r, Reports(r), hand' = "judged"
  PROVE  hand = "judged" /\ (grace > 0 \/ r.new.pos = motor.pos)
<1>1. CASE \E st \in {"open", "moving", "stopped"}, user \in BOOLEAN :
             Says(st, user) /\ r = [old |-> shown, new |-> [pos |-> motor.pos, st |-> st], user |-> user]
  BY <1>1 DEF Says
<1>2. CASE SaysEarly
  BY <1>2 DEF SaysEarly
<1>3. CASE GoesSilent
  BY <1>3 DEF GoesSilent
<1> QED BY <1>1, <1>2, <1>3 DEF Reports

LEMMA ReportsWatched ==
  ASSUME TypeOK, MarkMeetsReport, HandWatched, NEW r, Reports(r)
  PROVE  MarkMeetsReport' /\ HandWatched'
<1>1. /\ r \in Report /\ CoverReports(r) /\ motor' = motor /\ r.old = shown
      /\ shown' = r.new /\ UNCHANGED <<startup, judging, override>>
  BY ReportsWhat DEF CoverReports
<1>2. queue \in Seq(Report) /\ Len(judging) \in Nat /\ Len(queue) \in Nat
  BY Lengths DEF TypeOK
<1>3. CASE r.old.st = "unavailable"
  <2>1. UNCHANGED <<mark, stale, queue>>
    BY <1>1, <1>3 DEF CoverReports
  <2>2. hand' # "judged"
    <3>1. shown.pos = NoPos
      BY <1>1, <1>3 DEF TypeOK, Shown
    <3> QED BY <3>1, HandReports DEF HandWatched, Free, Known
  <2> QED BY <1>1, <2>1, <2>2 DEF MarkMeetsReport, HandWatched, Remaining
<1>4. CASE r.old.st # "unavailable"
  <2>1. Classify(r) /\ queue' = Append(queue, r) /\ stale' = (stale /\ mark)
    BY <1>1, <1>4 DEF CoverReports
  <2>2. /\ Len(queue') = Len(queue) + 1 /\ queue'[Len(queue')] = r /\ queue' # <<>>
    BY <1>1, <1>2, <2>1, AppendProperties
  <2>3. Remaining' = Remaining + 1 /\ Remaining \in Nat /\ Latest' = r
    BY <1>1, <1>2, <2>2 DEF Remaining, Latest
  <2>4. MarkMeetsReport'
    BY <2>3 DEF MarkMeetsReport
  <2>5. ASSUME hand' = "judged" PROVE HandWatched'
    <3>1. hand = "judged" /\ Free /\ r.new.pos = motor.pos
      <4>1. hand = "judged" /\ (grace > 0 \/ r.new.pos = motor.pos)
        BY <2>5, HandReports
      <4> QED BY <4>1 DEF HandWatched, Free
    <3>2. UNCHANGED <<rec, grace, mark>>
      BY <2>1, <3>1 DEF Classify, Free
    <3>3. Known(shown')
      BY <1>1, <3>1, Numeric DEF TypeOK, Known
    <3>4. Free'
      BY <1>1, <3>1, <3>2, <3>3 DEF Free, Known
    <3>5. Awaited'
      BY <1>1, <2>3 DEF Awaited
    <3>6. mark' /\ ~stale' => Remaining' > 1
      <4>1. mark' /\ ~stale' => mark /\ ~stale
        BY <2>1, <3>2
      <4> QED BY <2>3, <4>1 DEF MarkMeetsReport
    <3> QED BY <3>4, <3>5, <3>6 DEF HandWatched
  <2> QED BY <2>4, <2>5 DEF HandWatched
<1> QED BY <1>3, <1>4

LEMMA ResumeWatched ==
  ASSUME TypeOK, MarkMeetsReport, HandWatched, NEW b \in BOOLEAN, NEW p \in Positions, Resume(b, p)
  PROVE  MarkMeetsReport' /\ HandWatched'
<1> DEFINE judges == change /\ gates.toggle /\ startup = 0 /\ gates.external
<1>1. judging = <<>> /\ Len(judging) = 0 /\ Len(queue) \in Nat /\ Len(<<>>) = 0
      /\ queue' = (IF change THEN <<>> ELSE queue) /\ shown' = shown /\ startup' = startup
  BY Lengths DEF Resume, Quiet
<1>2. CASE judges
  <2>1. judging' = queue /\ queue' = <<>> /\ mark' = mark /\ stale' = stale
    BY <1>1, <1>2 DEF Resume
  <2>2. Remaining' = Remaining
    BY <1>1, <2>1 DEF Remaining
  <2>3. Remaining > 0 => Latest' = Latest
    BY <1>1, <2>1, Lengths DEF Latest, Remaining
  <2>4. hand' = "judged" => UNCHANGED <<rec, grace, motor, override, hand>>
    BY DEF Resume
  <2>5. HandWatched'
    <3> SUFFICES ASSUME hand' = "judged" PROVE HandWatched'
      BY DEF HandWatched
    <3>1. UNCHANGED <<rec, grace, motor, override, hand>>
      BY <2>4
    <3>2. Free /\ Free'
      BY <1>1, <3>1 DEF HandWatched, Free, Known
    <3>3. ~override.on => Awaited'
      BY <1>1, <2>2, <2>3, <3>1 DEF HandWatched, Awaited, Moving
    <3> QED BY <1>1, <2>1, <2>2, <3>1, <3>2, <3>3 DEF HandWatched
  <2> QED BY <2>1, <2>2, <2>5 DEF MarkMeetsReport
<1>3. CASE ~judges
  <2>1. judging' = judging /\ stale' = (stale \/ (change /\ mark))
        /\ mark' = (mark /\ ~(change /\ gates.toggle /\ startup = 0 /\ queue # <<>>))
    BY <1>3 DEF Resume
  <2>2. MarkMeetsReport'
    <3>1. mark' /\ ~stale' => mark /\ ~stale /\ ~change
      BY <2>1 DEF TypeOK
    <3> QED BY <1>1, <2>1, <3>1 DEF MarkMeetsReport, Remaining
  <2>3. HandWatched'
    <3> SUFFICES ASSUME hand' = "judged" PROVE HandWatched'
      BY DEF HandWatched
    <3>1. /\ UNCHANGED <<rec, grace, motor, override, hand>>
          /\ ~(change /\ ~(gates.toggle /\ startup = 0 /\ gates.external))
      BY DEF Resume
    <3>2. ~change
      BY <1>3, <3>1
    <3>3. UNCHANGED <<queue, judging, mark, stale>>
      BY <1>1, <2>1, <3>2 DEF TypeOK
    <3> QED BY <1>1, <3>1, <3>3
            DEF HandWatched, Free, Known, Awaited, Moving, Remaining, Latest
  <2> QED BY <2>2, <2>3
<1> QED BY <1>2, <1>3

(* A report far from the recorded target, of a cover at rest that nothing   *)
(* waits for, is detected.                                                  *)
LEMMA FarDetected ==
  ASSUME TypeOK, Detector = "delta", NEW r, NEW state, r.new = shown,
         Known(shown), ~Moving(shown), rec.target # NoPos,
         ~(Dist(rec.target, shown.pos) <= Threshold)
  PROVE  Detected(r, state)
<1>1. shown.pos \in Positions \cup {NoPos} /\ rec.target \in Positions \cup {NoPos}
  BY DEF TypeOK, Shown, Record
<1>2. Dist(rec.target, shown.pos) \in Int
  BY <1>1 DEF Dist, Positions, NoPos
<1> QED BY <1>2, Numeric DEF Detected, MovedByDelta

LEMMA JudgeWatched ==
  ASSUME TypeOK, Detector = "delta", MarkMeetsReport, HandWatched, NEW state, Judge(state)
  PROVE  MarkMeetsReport' /\ HandWatched'
<1>1. /\ judging \in Seq(Report) /\ judging # <<>> /\ judging' = Tail(judging)
      /\ mark' = FALSE /\ stale' = FALSE /\ UNCHANGED <<motor, shown, grace, startup, queue>>
  BY DEF Judge, TypeOK
<1>2. /\ Len(judging) \in Nat \ {0} /\ Len(judging') = Len(judging) - 1
      /\ Head(judging) = judging[1] /\ Len(queue) \in Nat
      /\ \A i \in 1..Len(judging') : judging'[i] = judging[i + 1]
  BY <1>1, HeadTailProperties, EmptySeq, Lengths
<1>3. MarkMeetsReport'
  BY <1>1 DEF MarkMeetsReport
<1>4. ASSUME hand' = "judged" PROVE HandWatched'
  <2>1. hand = "judged" /\ ~(stale /\ mark)
    BY <1>4 DEF Judge
  <2>2. Free
    BY <2>1 DEF HandWatched
  <2>3. CASE Engage(AllowReset)
    <3>1. override'.on /\ ~rec'.waiting
      BY <2>2, <2>3 DEF Engage, Engaged, Free, NoRec
    <3> QED BY <1>1, <2>2, <3>1 DEF HandWatched, Free, Known
  <2>4. CASE ~Engage(AllowReset)
    <3>1. /\ UNCHANGED <<override, rec>>
          /\ ~(~mark /\ ~Explained /\ Detected(Head(judging), state))
      BY <2>4 DEF Judge, Spared
    <3>2. Free'
      BY <1>1, <2>2, <3>1 DEF Free, Known
    <3>3. ASSUME ~override'.on PROVE Awaited'
      <4>1. Awaited
        BY <2>1, <3>1, <3>3 DEF HandWatched
      <4>2. CASE Remaining > 1
        <5>1. Remaining' > 0
          BY <1>1, <1>2, <4>2 DEF Remaining
        <5>2. Latest' = Latest
          <6>1. CASE queue # <<>>
            BY <1>1, <6>1 DEF Latest
          <6>2. CASE queue = <<>>
            <7>1. Len(judging') > 0
              BY <1>2, <4>2, <6>2, Lengths DEF Remaining
            <7>2. judging'[Len(judging')] = judging[Len(judging)]
              BY <1>2, <7>1
            <7> QED BY <1>1, <6>2, <7>2 DEF Latest
          <6> QED BY <6>1, <6>2
        <5> QED BY <1>1, <3>1, <4>1, <5>1, <5>2 DEF Awaited, Moving
      <4>3. CASE ~(Remaining > 1)
        <5>1. Len(judging) = 1 /\ queue = <<>> /\ Latest = Head(judging)
          BY <1>2, <4>3, Lengths DEF Remaining, Latest
        <5>2. ~mark \/ shown.pos # motor.goal
          BY <2>1, <4>3 DEF HandWatched
        <5>3. ~Explained
          BY <2>2 DEF Explained, Free
        <5>4. CASE shown.pos # motor.goal
          BY <1>1, <5>4 DEF Awaited
        <5>5. CASE shown.pos = motor.goal
          <6>1. ~Detected(Head(judging), state)
            BY <3>1, <5>2, <5>3, <5>5
          <6>2. \/ Moving(shown)
                \/ rec.target # NoPos => Dist(rec.target, shown.pos) <= Threshold
            BY <2>2, <4>1, <5>1, <5>5, <6>1, FarDetected DEF Awaited, Free
          <6> QED BY <1>1, <3>1, <6>2 DEF Awaited, Moving
        <5> QED BY <5>4, <5>5
      <4> QED BY <4>2, <4>3
    <3> QED BY <1>1, <3>2, <3>3 DEF HandWatched
  <2> QED BY <2>3, <2>4
<1> QED BY <1>3, <1>4 DEF HandWatched

LEMMA DriveWatched ==
  ASSUME TypeOK, MarkMeetsReport, HandWatched,
         NEW goal \in Positions, NEW by \in {"hand", "ui"}, UserDrives(goal, by)
  PROVE  MarkMeetsReport' /\ HandWatched'
<1>1. /\ UNCHANGED <<shown, rec, grace, startup, queue, mark, judging, override, stale>>
      /\ goal # motor.goal /\ motor' = [motor EXCEPT !.goal = goal, !.by = by]
      /\ hand' = "judged" =>
           Settled /\ ~rec.waiting /\ grace = 0 /\ startup = 0 /\ shown.pos = motor.pos
  BY DEF UserDrives
<1>2. MarkMeetsReport'
  BY <1>1 DEF MarkMeetsReport, Remaining
<1>3. motor'.goal = goal /\ motor.pos \in Positions
  BY <1>1 DEF TypeOK
<1>4. hand' = "judged" => shown'.pos # motor'.goal /\ Free'
  BY <1>1, <1>3, Numeric DEF Settled, Free, Known
<1> QED BY <1>2, <1>4 DEF HandWatched, Awaited

(* The other steps touch no report and no mark.  Those that send a command, *)
(* reset or stop the cover end what was to be noticed.                      *)
LEMMA OthersWatched ==
  ASSUME TypeOK, MarkMeetsReport, HandWatched,
         UNCHANGED <<queue, judging, mark, stale>>,
         \/ hand' = "no"
         \/ /\ UNCHANGED <<shown, hand>> /\ rec'.target = rec.target /\ motor'.goal = motor.goal
            /\ override'.on = override.on /\ (Free => Free')
  PROVE  MarkMeetsReport' /\ HandWatched'
<1>1. MarkMeetsReport' /\ Remaining' = Remaining /\ Latest' = Latest
  BY DEF MarkMeetsReport, Remaining, Latest
<1> QED BY <1>1 DEF HandWatched, Awaited, Moving

LEMMA NextWatched ==
  ASSUME Detector = "delta", TypeOK, MarkMeetsReport /\ HandWatched, [Next]_vars
  PROVE  MarkMeetsReport' /\ HandWatched'
<1>0. /\ rec \in Record /\ motor \in [pos : Positions, goal : Positions, by : {"us", "hand", "ui"}]
      /\ override \in [on : BOOLEAN, timed : BOOLEAN, age : 0..Duration+1]
  BY DEF TypeOK
<1>1. CASE UNCHANGED vars
  BY <1>1, OthersWatched DEF vars, Free, Known
<1>2. ASSUME NEW r, Reports(r) PROVE MarkMeetsReport' /\ HandWatched'
  BY <1>2, ReportsWatched
<1>3. ASSUME NEW p \in Positions, Judge(p) PROVE MarkMeetsReport' /\ HandWatched'
  BY <1>3, JudgeWatched
<1>4. ASSUME NEW p \in Positions, NEW b \in BOOLEAN, Resume(b, p)
      PROVE  MarkMeetsReport' /\ HandWatched'
  BY <1>4, ResumeWatched
<1>5. CASE Tick
  <2>1. UNCHANGED <<queue, judging, mark, stale, shown, hand, motor>>
    BY <1>5 DEF Tick
  <2>2. /\ rec'.target = rec.target /\ rec'.waiting = rec.waiting /\ override'.on = override.on
    BY <1>0, <1>5 DEF Tick, Record
  <2>3. (grace = 0 => grace' = 0) /\ (startup = 0 => startup' = 0)
    BY <1>5 DEF Tick, Younger
  <2> QED BY <2>1, <2>2, <2>3, OthersWatched DEF Free, Known
<1>6. CASE Interferes
  <2>1. CASE InputEdge
    BY <2>1, OthersWatched DEF InputEdge
  <2>2. CASE Overdue
    <3>1. /\ UNCHANGED <<queue, judging, mark, stale, shown, hand, motor, override>> /\ ~Free
      BY <2>2 DEF Overdue, Free
    <3>2. rec'.target = rec.target
      BY <1>0, <2>2 DEF Overdue, Record
    <3> QED BY <3>1, <3>2, OthersWatched
  <2>3. ASSUME NEW my \in Presets, StopPressed(my) PROVE MarkMeetsReport' /\ HandWatched'
    BY <2>3, OthersWatched DEF StopPressed
  <2>4. ASSUME NEW p \in Positions, NEW by \in {"hand", "ui"}, UserDrives(p, by)
        PROVE  MarkMeetsReport' /\ HandWatched'
    BY <2>4, DriveWatched
  <2>5. ASSUME NEW p \in Positions, ProxyCommand(p) PROVE MarkMeetsReport' /\ HandWatched'
    BY <2>5, OthersWatched DEF ProxyCommand
  <2> QED BY <1>6, <2>1, <2>2, <2>3, <2>4, <2>5 DEF Interferes
<1>7. CASE Resets
  BY <1>7, OthersWatched DEF Resets, PressReset, ResetEnds
<1>8. CASE Runs
  <2>1. UNCHANGED <<queue, judging, mark, stale, shown, hand, rec, grace, startup, override>>
    BY <1>8 DEF Runs, ghosts
  <2>2. motor'.goal = motor.goal
    BY <1>0, <1>8 DEF Runs
  <2> QED BY <2>1, <2>2, OthersWatched DEF Free, Known
<1>9. CASE Trigger
  BY <1>9, OthersWatched DEF Trigger, ghosts, Free, Known
<1>10. ASSUME NEW gate \in {"toggle", "external"}, Toggle(gate)
       PROVE  MarkMeetsReport' /\ HandWatched'
  BY <1>10, OthersWatched DEF Toggle
<1> QED BY <1>1, <1>2, <1>3, <1>4, <1>5, <1>6, <1>7, <1>8, <1>9, <1>10, NextSplit DEF Rest

(* With the "delta" strategy a cover the user has driven away from a        *)
(* recorded target, at rest where it is shown, is under an override once    *)
(* its reports are judged, unless a mark that an earlier drain had left     *)
(* swallowed the report (classify, _target_just_reached, the drain of       *)
(* _pending_cover_events).                                                  *)
THEOREM MoveAlwaysSeen ==
  ASSUME Detector = "delta" PROVE Spec => []MoveNoticed
<1>1. Init => MarkMeetsReport /\ HandWatched
  BY DEF Init, MarkMeetsReport, HandWatched
<1>2. TypeOK /\ (MarkMeetsReport /\ HandWatched) /\ [Next]_vars => (MarkMeetsReport /\ HandWatched)'
  BY NextWatched
<1>3. TypeOK /\ HandWatched => MoveNoticed
  <2> SUFFICES ASSUME TypeOK, HandWatched, Unnoticed, hand = "judged" PROVE FALSE
    BY DEF MoveNoticed
  <2>1. /\ motor.pos = motor.goal /\ shown = [pos |-> motor.pos, st |-> "open"]
        /\ judging = <<>> /\ queue = <<>> /\ ~override.on
        /\ rec.target # NoPos /\ Dist(rec.target, motor.pos) > Threshold
    BY DEF Unnoticed, AtRest, Settled
  <2>2. Awaited
    BY <2>1 DEF HandWatched
  <2>3. Remaining = 0
    BY <2>1, Lengths DEF Remaining
  <2>4. Dist(rec.target, motor.pos) \in Int
    <3>1. motor.pos \in Positions /\ rec.target \in Positions \cup {NoPos}
      BY DEF TypeOK, Record
    <3> QED BY <3>1 DEF Dist, Positions, NoPos
  <2>5. shown.pos = motor.goal /\ ~Moving(shown)
    BY <2>1 DEF Moving
  <2> QED BY <2>1, <2>2, <2>3, <2>4, <2>5, Numeric DEF Awaited
<1> QED BY <1>1, <1>2, <1>3, TypeCorrect, PTL DEF Spec
=============================================================================
