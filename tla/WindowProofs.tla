----------------------------- MODULE WindowProofs -----------------------------
(* Proofs about Window, for every day, every grace period and every set of  *)
(* events, and about Forecast, for every grid, almanac and configuration.   *)
EXTENDS Window, Forecast, FunctionTheorems, FiniteSetTheorems, WellFoundedInduction, TLAPS

HoldType == [known : Verdicts, age : 0..Off]

(* A verdict ends the silence; a hold that has not begun is about to, and   *)
(* one that has begun is no younger than the silence.                       *)
HoldFollowsSilence ==
  /\ verdict # "none" => silent = 0
  /\ hold.known # "none" /\ hold.age = Off /\ verdict = "none" => silent = 0 /\ pending
  /\ hold.age < Grace => silent <= hold.age

(* While a cycle went by a held verdict, the wake comes no later than the   *)
(* end of the grace period.                                                 *)
WakeInTime ==
  ~pending /\ used # "none" /\ verdict = "none" =>
    hold.age <= Grace /\ wake + hold.age <= Grace

GateKnown == ~Gate => hold.known = "none"

SilenceInv ==
  TypeOK /\ GateKnown /\ HoldFollowsSilence /\ WakeInTime /\ HoldHasWake /\ SilenceEnds

(* What a daytime target tells of the window.                               *)
DayTargetSeen == Track /\ cover.target = "day" => unseen \/ opened = "yes"

(* What the remembered night tells of the cover.                            *)
NightKept ==
  /\ flags.edited => pending /\ ~checked
  /\ dark = "yes" /\ ~excused => cover.pos = "night"
  /\ checked /\ EffectiveDefault(hold).sunset /\ ~excused => dark = "yes"

-----------------------------------------------------------------------------
(* The hold.                                                                *)

LEMMA Numbers ==
  /\ Grace \in Nat /\ Grace > 0 /\ Spacing \in Nat /\ Day \in Nat /\ Day > 0
  /\ Off = Grace + 1 /\ Off \in 0..Off /\ 0 \in 0..Grace+1
  /\ 0 \in 0..Spacing /\ Spacing \in 0..Spacing
  BY Phases, Delays DEF Off

LEMMA ObserveType ==
  ASSUME verdict \in Verdicts, NEW h \in HoldType
  PROVE  Observe(h) \in HoldType
<1>1. Off \in 0..Off /\ 0 \in 0..Off
  BY Numbers
<1>2. CASE ~Gate
  BY <1>2 DEF Observe
<1>3. CASE Gate /\ verdict # "none"
  BY <1>1, <1>3 DEF Observe, HoldType
<1>4. CASE Gate /\ verdict = "none" /\ h.known = "none"
  BY <1>4 DEF Observe
<1>5. CASE Gate /\ verdict = "none" /\ h.known # "none"
  BY <1>1, <1>5 DEF Observe, HoldType
<1> QED BY <1>2, <1>3, <1>4, <1>5

LEMMA NeverSeenType == NeverSeen \in HoldType
  BY Numbers DEF NeverSeen, HoldType, Verdicts

(* Without a verdict a hold keeps what it knows and runs on, or begins.     *)
LEMMA ObserveSilent ==
  ASSUME Gate, verdict = "none", NEW h \in HoldType, h.known # "none"
  PROVE  /\ Observe(h).known = h.known
         /\ Observe(h).age = IF h.age = Off THEN 0 ELSE h.age
  BY DEF Observe, HoldType

LEMMA ObserveUnknown ==
  ASSUME NEW h \in HoldType, ~Gate \/ (verdict = "none" /\ h.known = "none")
  PROVE  Observe(h) = h
  BY DEF Observe

LEMMA ObserveVerdict ==
  ASSUME Gate, verdict # "none", NEW h \in HoldType
  PROVE  Observe(h).known = verdict /\ Observe(h).age = Off
  BY DEF Observe

LEMMA GateOfType ==
  ASSUME verdict \in Verdicts, NEW h \in HoldType
  PROVE  GateOf(h) \in Verdicts
<1>1. Observe(h).known \in Verdicts
  BY ObserveType DEF HoldType
<1> QED BY <1>1 DEF GateOf, Verdicts

(* Observing twice in a step is observing once.                             *)
LEMMA ObserveTwice ==
  ASSUME verdict \in Verdicts, NEW h \in HoldType
  PROVE  Observe(Observe(h)) = Observe(h)
<1>1. CASE ~Gate \/ (verdict = "none" /\ h.known = "none")
  BY <1>1, ObserveUnknown
<1>2. CASE Gate /\ verdict # "none"
  BY <1>2 DEF Observe
<1>3. CASE Gate /\ verdict = "none" /\ h.known # "none"
  <2>1. Observe(h) \in HoldType /\ Observe(h).known # "none" /\ Observe(h).age # Off
    BY <1>3, ObserveType, ObserveSilent, Numbers
  <2>2. ASSUME NEW x \in HoldType, x.age # Off
        PROVE  [x EXCEPT !.age = IF @ = Off THEN 0 ELSE @] = x
    BY <2>2 DEF HoldType
  <2>3. Observe(Observe(h)) = [Observe(h) EXCEPT !.age = IF @ = Off THEN 0 ELSE @]
    BY <1>3, <2>1 DEF Observe
  <2> QED BY <2>1, <2>2, <2>3
<1> QED BY <1>1, <1>2, <1>3

LEMMA GateOfObserved ==
  ASSUME verdict \in Verdicts, NEW h \in HoldType
  PROVE  GateOf(Observe(h)) = GateOf(h)
  BY ObserveTwice DEF GateOf

-----------------------------------------------------------------------------
(* Types.                                                                   *)

LEMMA PositionType ==
  ASSUME NEW h PROVE EffectiveDefault(h).pos \in Positions \ {"day"}
                     /\ EffectiveDefault(h).sunset \in BOOLEAN
  BY DEF EffectiveDefault, Positions

LEMMA CoverType ==
  ASSUME TypeOK, NEW c \in [pos : Positions, target : Positions, still : 0..Spacing],
         NEW p \in Positions
  PROVE  /\ Apply(c, p) \in [pos : Positions, target : Positions, still : 0..Spacing]
         /\ Apply(c, p).target \in {c.target, p}
         /\ Apply(c, p).pos \in {c.pos, p}
  BY Numbers DEF Apply

LEMMA ForgetType ==
  ASSUME NEW c \in [pos : Positions, target : Positions, still : 0..Spacing]
  PROVE  /\ ForgetTarget(c) \in [pos : Positions, target : Positions, still : 0..Spacing]
         /\ ForgetTarget(c).target = "none" /\ ForgetTarget(c).pos = c.pos
  BY DEF ForgetTarget, Positions

LEMMA InitType == Init => TypeOK
<1> SUFFICES ASSUME Init PROVE TypeOK
  OBVIOUS
<1>1. hold \in HoldType
  BY NeverSeenType DEF Init, Started
<1>2. cover \in [pos : Positions, target : Positions, still : 0..Spacing]
  BY Numbers DEF Init, Positions
<1>3. {auto, manual, pending, excused, unseen, checked} \subseteq BOOLEAN
  BY DEF Init, Started
<1>4. silent \in 0..Grace+1 /\ wake \in 0..Off
  BY Numbers DEF Init, Started
<1> QED BY <1>1, <1>2, <1>3, <1>4 DEF Init, Started, TypeOK, HoldType, Verdicts, Seen

LEMMA CycleType == TypeOK /\ Cycle => TypeOK'
<1> SUFFICES ASSUME TypeOK, Cycle PROVE TypeOK'
  OBVIOUS
<1> DEFINE h == IF flags.edited THEN NeverSeen ELSE hold
<1>1. h \in HoldType
  BY NeverSeenType DEF TypeOK, HoldType
<1>2. Observe(h) \in HoldType /\ GateOf(h) \in Verdicts
  BY <1>1, ObserveType, GateOfType DEF TypeOK
<1>3. hold' \in HoldType /\ used' \in Verdicts
  BY <1>2 DEF Cycle
<1>4. Rearm(h) \in 0..Off
  <2>1. Observe(h).age \in 0..Off
    BY <1>2 DEF HoldType
  <2> QED BY <2>1, Numbers DEF Rearm, Remaining
<1>5. cover' \in [pos : Positions, target : Positions, still : 0..Spacing]
  <2>1. PICK sun \in {FALSE, Sunrise <= phase /\ phase < Sunset} :
          LET p == IF sun /\ IsActive(h) THEN "day" ELSE EffectiveDefault(h).pos
          IN  cover' = IF Dispatches(h) THEN Apply(cover, p) ELSE cover
    BY DEF Cycle
  <2>2. (IF sun /\ IsActive(h) THEN "day" ELSE EffectiveDefault(h).pos) \in Positions
    BY PositionType DEF Positions
  <2> QED BY <2>1, <2>2, CoverType DEF TypeOK
<1>6. excused' \in BOOLEAN /\ unseen' \in BOOLEAN
  BY DEF Cycle, TypeOK
<1> QED BY <1>3, <1>4, <1>5, <1>6, Numbers DEF Cycle, TypeOK, HoldType

LEMMA CheckTransitionType == TypeOK /\ CheckTransition => TypeOK'
<1> SUFFICES ASSUME TypeOK, CheckTransition PROVE TypeOK'
  OBVIOUS
<1>1. hold' \in HoldType
  <2>1. hold \in HoldType /\ Observe(hold) \in HoldType
    BY ObserveType DEF TypeOK, HoldType
  <2> QED BY <2>1 DEF CheckTransition, OnWindowClosed, OnWindowOpen, Noticed
<1>2. cover' \in [pos : Positions, target : Positions, still : 0..Spacing]
  <2>1. EffectiveDefault(hold).pos \in Positions
    BY PositionType
  <2>2. Returned(ForgetTarget(cover)) \in [pos : Positions, target : Positions, still : 0..Spacing]
    BY <2>1, CoverType, ForgetType DEF TypeOK, Returned
  <2> QED BY <2>2 DEF CheckTransition, OnWindowClosed, OnWindowOpen, TypeOK
<1>3. flags' \in [change : BOOLEAN, first : BOOLEAN, edited : BOOLEAN] /\ pending' \in BOOLEAN
  BY DEF CheckTransition, OnWindowClosed, OnWindowOpen, Flagged, TypeOK
<1>4. opened' \in Seen /\ unseen' \in BOOLEAN /\ excused' \in BOOLEAN
  BY DEF CheckTransition, Seen, Yes, TypeOK
<1> QED BY <1>1, <1>2, <1>3, <1>4 DEF CheckTransition, TypeOK, HoldType

LEMMA CheckSunsetType == TypeOK /\ CheckSunset => TypeOK'
<1> SUFFICES ASSUME TypeOK, CheckSunset PROVE TypeOK'
  OBVIOUS
<1>1. hold' \in HoldType
  BY ObserveType DEF CheckSunset, TypeOK, HoldType
<1>2. cover' \in [pos : Positions, target : Positions, still : 0..Spacing]
  BY CoverType DEF CheckSunset, TypeOK, Positions
<1>3. dark' \in Seen /\ pending' \in BOOLEAN
  BY DEF CheckSunset, TypeOK, Seen, Yes
<1>4. excused' \in BOOLEAN
  BY DEF CheckSunset, Excuses, TypeOK
<1> QED BY <1>1, <1>2, <1>3, <1>4 DEF CheckSunset, TypeOK, HoldType

LEMMA TickType == TypeOK /\ Tick => TypeOK'
<1> SUFFICES ASSUME TypeOK, Tick PROVE TypeOK'
  OBVIOUS
<1>1. phase' \in 0..Day-1
  BY Numbers DEF Tick, TypeOK
<1>2. hold' \in HoldType
  <2>1. (IF hold.age = Off THEN hold.age ELSE Younger(hold.age, Grace)) \in 0..Off
    BY Numbers DEF TypeOK, Younger
  <2> QED BY <2>1 DEF Tick, TypeOK, HoldType
<1>3. wake' \in 0..Off
  BY Numbers DEF Tick, Quiet, TypeOK
<1>4. cover' \in [pos : Positions, target : Positions, still : 0..Spacing]
  <2>1. Younger(cover.still, Spacing) \in 0..Spacing
    BY Numbers DEF TypeOK, Younger
  <2> QED BY <2>1 DEF Tick, TypeOK
<1>5. silent' \in 0..Grace+1
  BY Numbers DEF Tick, TypeOK, Younger
<1> QED BY <1>1, <1>2, <1>3, <1>4, <1>5 DEF Tick, TypeOK, HoldType

LEMMA EventType ==
  ASSUME TypeOK,
         GateChanges \/ ClockChanges \/ Hand \/ HandEnds \/ Switch \/ Edit \/ Restart
  PROVE  TypeOK'
<1>1. CASE GateChanges
  BY <1>1, Numbers DEF GateChanges, Happens, Flagged, TypeOK
<1>2. CASE ClockChanges
  BY <1>2 DEF ClockChanges, Happens, Flagged, TypeOK
<1>3. CASE Hand
  BY <1>3, Numbers DEF Hand, Happens, TypeOK, Positions
<1>4. CASE HandEnds
  BY <1>4 DEF HandEnds, Happens, Flagged, TypeOK
<1>5. CASE Switch
  BY <1>5 DEF Switch, Happens, TypeOK
<1>6. CASE Edit
  BY <1>6 DEF Edit, Happens, TypeOK
<1>7. CASE Restart
  <2>1. hold' \in HoldType
    BY <1>7, NeverSeenType DEF Restart
  <2>2. cover' \in [pos : Positions, target : Positions, still : 0..Spacing]
    BY <1>7, ForgetType DEF Restart, TypeOK
  <2> QED BY <1>7, <2>1, <2>2, Numbers
         DEF Restart, Happens, TypeOK, HoldType, Verdicts, Seen
<1> QED BY <1>1, <1>2, <1>3, <1>4, <1>5, <1>6, <1>7

LEMMA StutterType == TypeOK /\ UNCHANGED vars => TypeOK'
  BY DEF vars, TypeOK

LEMMA NextType == TypeOK /\ [Next]_vars => TypeOK'
<1> SUFFICES ASSUME TypeOK, [Next]_vars PROVE TypeOK'
  OBVIOUS
<1>1. CASE WakeFires
  BY <1>1, Numbers DEF WakeFires, TypeOK
<1> QED BY <1>1, CycleType, CheckTransitionType, CheckSunsetType, TickType, EventType,
           StutterType DEF Next, Works

(* Every variable keeps its type.                                           *)
THEOREM TypeCorrect == Spec => []TypeOK
<1> QED BY InitType, NextType, PTL DEF Spec

-----------------------------------------------------------------------------
(* The end of a silence.                                                    *)

LEMMA InitSilence == Init => SilenceInv
<1> SUFFICES ASSUME Init PROVE SilenceInv
  OBVIOUS
<1>1. hold = NeverSeen /\ silent = 0 /\ pending /\ used = "none" /\ verdict = "none"
  BY DEF Init, Started
<1>2. NeverSeen.known = "none" /\ NeverSeen.age = Off
  BY DEF NeverSeen
<1>3. GateKnown /\ HoldFollowsSilence /\ WakeInTime /\ HoldHasWake /\ SilenceEnds
  BY <1>1, <1>2, Numbers
     DEF GateKnown, HoldFollowsSilence, WakeInTime, HoldHasWake, Holding, SilenceEnds
<1> QED BY <1>3, InitType DEF SilenceInv

(* What one look at the gate leaves of the hold.                            *)
LEMMA ObserveFollows ==
  ASSUME TypeOK, NEW h \in HoldType, ~Gate => h.known = "none",
         verdict # "none" => silent = 0,
         h.known # "none" /\ h.age = Off /\ verdict = "none" => silent = 0,
         h.age < Grace => silent <= h.age
  PROVE  LET o == Observe(h) IN
         /\ ~Gate => o.known = "none"
         /\ ~(o.known # "none" /\ o.age = Off /\ verdict = "none")
         /\ o.age < Grace => silent <= o.age
         /\ GateOf(h) # "none" /\ verdict = "none" => o.known # "none" /\ o.age < Grace
<1>1. CASE ~Gate \/ (verdict = "none" /\ h.known = "none")
  <2>1. Observe(h) = h
    BY <1>1, ObserveUnknown
  <2> QED BY <1>1, <2>1 DEF GateOf
<1>2. CASE Gate /\ verdict # "none"
  BY <1>2, ObserveVerdict, Numbers
<1>3. CASE Gate /\ verdict = "none" /\ h.known # "none"
  <2>1. Observe(h).known = h.known /\ Observe(h).age = IF h.age = Off THEN 0 ELSE h.age
    BY <1>3, ObserveSilent
  <2>2. h.age \in 0..Off /\ silent \in 0..Grace+1
    BY DEF HoldType, TypeOK
  <2> QED BY <1>3, <2>1, <2>2, Numbers DEF GateOf
<1> QED BY <1>1, <1>2, <1>3

(* A check of a hold nothing is waiting for.                                *)
LEMMA CheckSilence ==
  ASSUME SilenceInv, TypeOK', ~pending, hold' = hold \/ hold' = Observe(hold),
         UNCHANGED <<verdict, wake, used, silent>>
  PROVE  SilenceInv'
<1> USE DEF SilenceInv
<1>1. hold \in HoldType
  BY DEF TypeOK, HoldType
<1>2. LET o == Observe(hold) IN
      /\ ~Gate => o.known = "none"
      /\ ~(o.known # "none" /\ o.age = Off /\ verdict = "none")
      /\ o.age < Grace => silent <= o.age
  BY <1>1, ObserveFollows DEF GateKnown, HoldFollowsSilence
<1>3. GateKnown' /\ HoldFollowsSilence'
  BY <1>2 DEF GateKnown, HoldFollowsSilence
<1>4. verdict = "none" => hold' = hold
  <2>1. CASE ~Gate \/ (verdict = "none" /\ hold.known = "none")
    BY <1>1, <2>1, ObserveUnknown
  <2>2. CASE Gate /\ verdict = "none" /\ hold.known # "none"
    <3>1. hold.age # Off
      BY <2>2 DEF HoldFollowsSilence
    <3>2. [hold EXCEPT !.age = IF @ = Off THEN 0 ELSE @] = hold
      BY <1>1, <3>1 DEF HoldType
    <3> QED BY <2>2, <3>2 DEF Observe
  <2> QED BY <2>1, <2>2
<1>5. hold'.age < Grace => verdict = "none" \/ hold' = hold
  <2>1. CASE Gate /\ verdict # "none"
    BY <1>1, <2>1, ObserveVerdict, Numbers
  <2>2. CASE ~Gate
    BY <1>1, <2>2, ObserveUnknown
  <2> QED BY <2>1, <2>2
<1>6. HoldHasWake' /\ WakeInTime' /\ SilenceEnds'
  BY <1>4, <1>5, Numbers DEF HoldHasWake, Holding, WakeInTime, SilenceEnds, Off
<1> QED BY <1>3, <1>6 DEF GateKnown

LEMMA CycleSilence == SilenceInv /\ Cycle => SilenceInv'
<1> SUFFICES ASSUME SilenceInv, Cycle PROVE SilenceInv'
  OBVIOUS
<1> USE DEF SilenceInv
<1> DEFINE h == IF flags.edited THEN NeverSeen ELSE hold
           o == Observe(h)
<1>1. NeverSeen.known = "none" /\ NeverSeen.age = Off
  BY DEF NeverSeen
<1>2. /\ h \in HoldType
      /\ ~Gate => h.known = "none"
      /\ verdict # "none" => silent = 0
      /\ h.known # "none" /\ h.age = Off /\ verdict = "none" => silent = 0
      /\ h.age < Grace => silent <= h.age
  BY <1>1, NeverSeenType, Numbers DEF TypeOK, HoldType, GateKnown, HoldFollowsSilence
<1>3. hold' = o /\ wake' = Remaining(o) /\ used' = GateOf(h) /\ ~pending'
      /\ verdict' = verdict /\ silent' = silent
  BY DEF Cycle, Rearm
<1>4. /\ ~Gate => o.known = "none"
      /\ ~(o.known # "none" /\ o.age = Off /\ verdict = "none")
      /\ o.age < Grace => silent <= o.age
      /\ GateOf(h) # "none" /\ verdict = "none" => o.known # "none" /\ o.age < Grace
  BY <1>2, ObserveFollows
<1>5. o \in HoldType
  BY <1>2, ObserveType DEF TypeOK
<1> HIDE DEF h, o
<1>6. GateKnown' /\ HoldFollowsSilence'
  BY <1>2, <1>3, <1>4 DEF GateKnown, HoldFollowsSilence
<1>7. o.known # "none" /\ o.age < Grace =>
        wake' # Off /\ o.age <= Grace /\ wake' + o.age <= Grace
  BY <1>3, <1>5, Numbers DEF Remaining, HoldType
<1>8. HoldHasWake' /\ WakeInTime'
  BY <1>3, <1>4, <1>7, Numbers DEF HoldHasWake, Holding, WakeInTime, Off
<1>9. SilenceEnds'
  <2>1. silent > Grace => verdict = "none"
    BY <1>2, Numbers
  <2> QED BY <1>3, <1>4, <1>5, <2>1, Numbers DEF SilenceEnds, TypeOK, HoldType
<1> QED BY <1>6, <1>8, <1>9, CycleType

LEMMA TickSilence == SilenceInv /\ Tick => SilenceInv'
<1> SUFFICES ASSUME SilenceInv, Tick PROVE SilenceInv'
  OBVIOUS
<1> USE DEF SilenceInv
<1>1. ~pending /\ wake # 0 /\ pending' = pending /\ verdict' = verdict /\ used' = used
  BY DEF Tick, Quiet
<1>2. hold.known \in Verdicts /\ hold.age \in 0..Off /\ wake \in 0..Off /\ silent \in 0..Grace+1
  BY DEF TypeOK
<1>3. /\ hold'.known = hold.known
      /\ hold'.age = IF hold.age = Off THEN Off ELSE IF hold.age < Grace THEN hold.age + 1 ELSE hold.age
  BY DEF Tick, Younger, TypeOK
<1>4. /\ wake' = IF wake = Off THEN Off ELSE wake - 1
      /\ silent' = IF verdict = "none" THEN (IF silent < Grace + 1 THEN silent + 1 ELSE silent) ELSE 0
  BY DEF Tick, Younger
<1>5. GateKnown'
  BY <1>3 DEF GateKnown
<1>6. HoldFollowsSilence'
  BY <1>1, <1>2, <1>3, <1>4, Numbers DEF HoldFollowsSilence
<1>7. HoldHasWake'
  BY <1>1, <1>2, <1>3, <1>4, Numbers DEF HoldHasWake, Holding, Off
<1>8. WakeInTime'
  BY <1>1, <1>2, <1>3, <1>4, Numbers DEF WakeInTime, Off
<1>9. SilenceEnds'
  BY <1>1, <1>2, <1>3, <1>4, Numbers DEF SilenceEnds, WakeInTime, HoldFollowsSilence, Off
<1> QED BY <1>5, <1>6, <1>7, <1>8, <1>9, TickType

LEMMA EventSilence ==
  ASSUME SilenceInv,
         GateChanges \/ ClockChanges \/ Hand \/ HandEnds \/ Switch \/ Edit \/ Restart
  PROVE  SilenceInv'
<1> USE DEF SilenceInv
<1>1. TypeOK' /\ pending'
  BY EventType DEF GateChanges, ClockChanges, Hand, HandEnds, Switch, Edit, Restart, Flagged
<1>2. CASE GateChanges
  <2>1. silent' = 0 /\ hold' = hold /\ used' = used
    BY <1>2 DEF GateChanges
  <2>2. hold.age \in 0..Off
    BY DEF TypeOK
  <2> QED BY <1>1, <2>1, <2>2, Numbers
          DEF GateKnown, HoldFollowsSilence, WakeInTime, HoldHasWake, SilenceEnds
<1>3. CASE ClockChanges \/ Hand \/ HandEnds \/ Switch \/ Edit
  <2>1. silent' = silent /\ hold' = hold /\ used' = used /\ verdict' = verdict
    BY <1>3 DEF ClockChanges, Hand, HandEnds, Switch, Edit
  <2> QED BY <1>1, <2>1
          DEF GateKnown, HoldFollowsSilence, WakeInTime, HoldHasWake, SilenceEnds
<1>4. CASE Restart
  <2>1. /\ silent' = silent /\ verdict' = verdict /\ hold' = NeverSeen /\ used' = "none"
        /\ NeverSeen.known = "none" /\ NeverSeen.age = Off
    BY <1>4 DEF Restart, NeverSeen
  <2> QED BY <1>1, <2>1, Numbers
          DEF GateKnown, HoldFollowsSilence, WakeInTime, HoldHasWake, SilenceEnds
<1> QED BY <1>2, <1>3, <1>4

LEMMA NextSilence == SilenceInv /\ [Next]_vars => SilenceInv'
<1> SUFFICES ASSUME SilenceInv, [Next]_vars PROVE SilenceInv'
  OBVIOUS
<1>0. TypeOK'
  BY NextType DEF SilenceInv
<1>1. CASE Cycle
  BY <1>1, CycleSilence
<1>2. CASE WakeFires
  BY <1>0, <1>2 DEF WakeFires, SilenceInv, GateKnown, HoldFollowsSilence, WakeInTime,
                    HoldHasWake, Holding, SilenceEnds
<1>3. CASE CheckTransition
  BY <1>0, <1>3, CheckSilence
     DEF CheckTransition, OnWindowClosed, OnWindowOpen, Noticed
<1>4. CASE CheckSunset
  BY <1>0, <1>4, CheckSilence DEF CheckSunset
<1>5. CASE Tick
  BY <1>5, TickSilence
<1>6. CASE GateChanges \/ ClockChanges \/ Hand \/ HandEnds \/ Switch \/ Edit \/ Restart
  BY <1>6, EventSilence
<1>7. CASE UNCHANGED vars
  BY <1>0, <1>7 DEF vars, SilenceInv, GateKnown, HoldFollowsSilence, WakeInTime,
                    HoldHasWake, Holding, SilenceEnds
<1> QED BY <1>1, <1>2, <1>3, <1>4, <1>5, <1>6, <1>7 DEF Next, Works

(* No decision goes by a verdict older than the grace period.               *)
THEOREM SilenceEndsAlways == Spec => []SilenceEnds
<1>1. SilenceInv => SilenceEnds
  BY DEF SilenceInv
<1> QED BY <1>1, InitSilence, NextSilence, PTL DEF Spec

(* A hold is never left without what ends it, a wake or a cycle to come.    *)
THEOREM HoldAlwaysWakes == Spec => []HoldHasWake
<1>1. SilenceInv => HoldHasWake
  BY DEF SilenceInv
<1> QED BY <1>1, InitSilence, NextSilence, PTL DEF Spec

-----------------------------------------------------------------------------
(* The daytime target.                                                      *)

LEMMA NextDayTarget == TypeOK /\ DayTargetSeen /\ [Next]_vars => DayTargetSeen'
<1> SUFFICES ASSUME TypeOK, DayTargetSeen, [Next]_vars, Track, cover'.target = "day"
             PROVE  unseen' \/ opened' = "yes"
  BY DEF DayTargetSeen
<1> USE DEF DayTargetSeen
<1>0. /\ cover \in [pos : Positions, target : Positions, still : 0..Spacing]
      /\ Track /\ Track \in BOOLEAN
  BY Toggles DEF TypeOK
<1>1. CASE Cycle
  <2> DEFINE h == IF flags.edited THEN NeverSeen ELSE hold
             p(sun) == IF sun /\ IsActive(h) THEN "day" ELSE EffectiveDefault(h).pos
  <2>1. PICK sun \in {FALSE, Sunrise <= phase /\ phase < Sunset} :
          /\ cover' = IF Dispatches(h) THEN Apply(cover, p(sun)) ELSE cover
          /\ unseen' = (unseen \/ (Dispatches(h) /\ p(sun) = "day" /\ opened # "yes"))
    BY <1>1 DEF Cycle
  <2>2. opened' = opened
    BY <1>1 DEF Cycle
  <2>3. p(sun) \in Positions
    BY PositionType DEF Positions
  <2> HIDE DEF p, h
  <2>4. Dispatches(h) => cover'.target \in {cover.target, p(sun)}
    BY <1>0, <2>1, <2>3, CoverType
  <2> QED BY <1>0, <2>1, <2>2, <2>4
<1>2. CASE CheckTransition
  <2>1. opened' = Yes(IsActive(hold)) /\ unseen' = (unseen /\ ~IsActive(hold))
    BY <1>2 DEF CheckTransition
  <2>2. CASE IsActive(hold)
    BY <2>1, <2>2 DEF Yes
  <2>3. CASE ~IsActive(hold) /\ opened # "yes"
    <3>1. cover' = cover
      BY <1>2, <2>3 DEF CheckTransition, OnWindowClosed, OnWindowOpen, Closes
    <3> QED BY <1>0, <2>1, <2>3, <3>1
  <2>4. CASE ~IsActive(hold) /\ opened = "yes"
    <3>1. cover' = Returned(ForgetTarget(cover))
      BY <1>0, <1>2, <2>4 DEF CheckTransition, OnWindowClosed, OnWindowOpen, Opens, Closes
    <3>2. EffectiveDefault(hold).pos \in Positions \ {"day"}
      BY PositionType
    <3>3. cover'.target \in {"none", EffectiveDefault(hold).pos}
      BY <1>0, <3>1, <3>2, ForgetType, CoverType DEF Returned
    <3> QED BY <3>2, <3>3
  <2> QED BY <2>2, <2>3, <2>4
<1>3. CASE CheckSunset
  <2>1. cover'.target \in {cover.target, "night"}
    <3>1. "night" \in Positions
      BY DEF Positions
    <3> QED BY <1>0, <1>3, <3>1, CoverType DEF CheckSunset
  <2> QED BY <1>0, <1>3, <2>1 DEF CheckSunset
<1>4. CASE Tick
  BY <1>0, <1>4 DEF Tick
<1>5. CASE WakeFires \/ GateChanges \/ ClockChanges \/ HandEnds \/ Switch \/ Edit
  BY <1>0, <1>5 DEF WakeFires, GateChanges, ClockChanges, HandEnds, Switch, Edit
<1>6. CASE Hand
  BY <1>6 DEF Hand
<1>7. CASE Restart
  BY <1>0, <1>7, ForgetType DEF Restart
<1>8. CASE UNCHANGED vars
  BY <1>0, <1>8 DEF vars
<1> QED BY <1>1, <1>2, <1>3, <1>4, <1>5, <1>6, <1>7, <1>8 DEF Next, Works

(* No daytime target outlives a close of the window that a check has seen.  *)
THEOREM DayTargetsAlwaysCleared == Spec => []DayTargetsCleared
<1>1. Init => TypeOK /\ DayTargetSeen
  BY InitType DEF Init, DayTargetSeen
<1>2. TypeOK /\ DayTargetSeen /\ [Next]_vars => (TypeOK /\ DayTargetSeen)'
  BY NextType, NextDayTarget
<1>3. TypeOK /\ DayTargetSeen => DayTargetsCleared
  BY DEF DayTargetSeen, DayTargetsCleared
<1> QED BY <1>1, <1>2, <1>3, PTL DEF Spec

-----------------------------------------------------------------------------
(* The night position.                                                      *)

LEMMA SunsetOfObserved ==
  ASSUME verdict \in Verdicts, NEW h \in HoldType
  PROVE  EffectiveDefault(Observe(h)) = EffectiveDefault(h)
  BY GateOfObserved DEF EffectiveDefault

LEMMA NextNight == TypeOK /\ NightKept /\ [Next]_vars => NightKept'
<1> SUFFICES ASSUME TypeOK, NightKept, [Next]_vars PROVE NightKept'
  OBVIOUS
<1> USE DEF NightKept
<1>0. /\ cover \in [pos : Positions, target : Positions, still : 0..Spacing]
      /\ hold \in HoldType /\ verdict \in Verdicts
      /\ excused \in BOOLEAN /\ checked \in BOOLEAN /\ pending \in BOOLEAN
  BY DEF TypeOK, HoldType
<1>1. CASE Cycle
  <2>1. ~flags'.edited /\ dark' = dark /\ checked' = checked
        /\ excused' = (excused \/ DawnUnseen)
    BY <1>1 DEF Cycle
  <2>2. dark' = "yes" /\ ~excused' => cover'.pos = "night"
    BY <2>1 DEF DawnUnseen
  <2>3. checked' => EffectiveDefault(hold)' = EffectiveDefault(hold)
    <3>1. checked => hold' = Observe(hold)
      BY <1>1 DEF Cycle
    <3>2. UNCHANGED <<phase, verdict, lost>>
      BY <1>1 DEF Cycle
    <3>3. EffectiveDefault(hold)' = EffectiveDefault(hold')
      BY <3>2 DEF EffectiveDefault, GateOf, Observe, HoldsEvening, BeforeEnd, AfterSunset,
                  AstralNight, StartHasPassed
    <3> QED BY <1>0, <2>1, <3>1, <3>3, SunsetOfObserved
  <2> QED BY <2>1, <2>2, <2>3
<1>2. CASE CheckTransition
  <2>1. flags'.edited = flags.edited
    <3>1. CASE OnWindowClosed
      BY <3>1 DEF OnWindowClosed
    <3>2. CASE OnWindowOpen
      BY <3>2 DEF OnWindowOpen, Flagged, TypeOK
    <3>3. CASE flags' = flags
      BY <3>3
    <3> QED BY <1>2, <3>1, <3>2, <3>3 DEF CheckTransition
  <2>2. ~pending /\ ~checked' /\ dark' = dark /\ excused' = (excused \/ DawnUnseen)
    BY <1>2 DEF CheckTransition
  <2> QED BY <2>1, <2>2 DEF DawnUnseen
<1>3. CASE CheckSunset
  <2>1. ~pending /\ flags' = flags /\ excused' = Excuses
    BY <1>3 DEF CheckSunset
  <2>2. CASE ~(Track /\ auto /\ Night)
    BY <2>1, <2>2 DEF Excuses
  <2>3. CASE Track /\ auto /\ Night
    <3>1. /\ hold' = Observe(hold) /\ UNCHANGED <<phase, verdict, lost>>
          /\ dark' = Yes(EffectiveDefault(hold).sunset)
      BY <1>3, <2>3 DEF CheckSunset
    <3>2. EffectiveDefault(hold)' = EffectiveDefault(hold)
      <4>1. EffectiveDefault(hold)' = EffectiveDefault(hold')
        BY <3>1 DEF EffectiveDefault, GateOf, Observe, HoldsEvening, BeforeEnd, AfterSunset,
                    AstralNight, StartHasPassed
      <4> QED BY <1>0, <3>1, <4>1, SunsetOfObserved
    <3>3. EffectiveDefault(hold).sunset => dark' = "yes"
      BY <3>1 DEF Yes
    <3>4. ASSUME dark' = "yes", ~excused'
          PROVE  cover'.pos = "night"
      <4>1. EffectiveDefault(hold).sunset
        BY <3>1, <3>4 DEF Yes
      <4>2. dark # "none" /\ (dark = "no" => ~Refused("night")) /\ (dark = "yes" => ~excused)
        BY <2>1, <3>4, <4>1 DEF Excuses
      <4>3. CASE dark = "yes"
        <5>1. cover' = cover
          BY <1>3, <2>3, <4>3 DEF CheckSunset, SunsetEdge
        <5> QED BY <4>2, <4>3, <5>1
      <4>4. CASE dark = "no"
        <5>1. cover' = Apply(cover, "night")
          BY <1>3, <2>3, <4>1, <4>4 DEF CheckSunset, SunsetEdge
        <5> QED BY <4>2, <4>4, <5>1 DEF Apply
      <4> QED BY <4>2, <4>3, <4>4 DEF TypeOK, Seen
    <3> QED BY <2>1, <3>2, <3>3, <3>4
  <2> QED BY <2>2, <2>3
<1>4. CASE Tick
  <2>1. ~checked' /\ cover'.pos = cover.pos /\ UNCHANGED <<flags, dark, excused, pending>>
    BY <1>0, <1>4 DEF Tick
  <2> QED BY <1>4, <2>1 DEF Tick, Quiet
<1>5. CASE WakeFires
  BY <1>5 DEF WakeFires
<1>6. CASE GateChanges \/ ClockChanges
  <2>1. flags'.edited = flags.edited
    BY <1>6 DEF GateChanges, ClockChanges, Flagged, TypeOK
  <2> QED BY <1>6, <2>1 DEF GateChanges, ClockChanges, Happens, Flagged
<1>7. CASE Hand \/ HandEnds \/ Switch \/ Restart
  BY <1>7 DEF Hand, HandEnds, Switch, Restart, Happens, Flagged
<1>8. CASE Edit
  BY <1>8 DEF Edit, Happens
<1>9. CASE UNCHANGED vars
  <2>1. EffectiveDefault(hold)' = EffectiveDefault(hold)
    BY <1>9 DEF vars, EffectiveDefault, GateOf, Observe, HoldsEvening, BeforeEnd, AfterSunset,
                AstralNight, StartHasPassed
  <2> QED BY <1>9, <2>1 DEF vars
<1> QED BY <1>1, <1>2, <1>3, <1>4, <1>5, <1>6, <1>7, <1>8, <1>9 DEF Next, Works

(* After a check in the dark the cover is at the night position, unless one *)
(* of the things that excuse it has happened since the last edge.           *)
THEOREM NightAlwaysReached == Spec => []NightReached
<1>1. Init => TypeOK /\ NightKept
  BY InitType DEF Init, Started, NightKept
<1>2. TypeOK /\ NightKept /\ [Next]_vars => (TypeOK /\ NightKept)'
  BY NextType, NextNight
<1>3. NightKept => NightReached
  BY DEF NightKept, NightReached
<1> QED BY <1>1, <1>2, <1>3, PTL DEF Spec
-----------------------------------------------------------------------------
(* The forecast of a day, for every grid, almanac and configuration, and    *)
(* any number of jobs.                                                      *)

Pcs  == {"look", "key", "fill", "done"}
Job  == [pc : Pcs, read : Nat, began : Int, today : Int \cup {None}, key : Int \cup {None},
         held : Int \cup {None}, table : Int \cup {None}, got : Seq(Int)]

(* A table that a job begun on day b may have on day d: of one of its days, *)
(* or of the day before when that was left under a key of a race.           *)
Mixed(b, d, races, table) == table \in b..d \/ (b \in races /\ table = b - 1)

(* A job lives through at most one midnight; what it has read and what it   *)
(* holds are such tables, and the key it fills is of today or of a race.    *)
JobSound(job, d, races) ==
  /\ job \in Job /\ job.began \in 0..d /\ d <= job.began + 1
  /\ job.held # None => job.held \in job.began..d /\ Mixed(job.began, d, races, job.table)
  /\ job.pc \in {"key", "fill"} => job.today \in job.began..d
  /\ job.pc = "fill" => job.key \in job.today..d /\ (job.key # job.today => job.key \in races)
  /\ job.read \in 1..5 /\ Len(job.got) = job.read - 1
  /\ job.pc = "done" => job.read = 5 /\ job.held # None
  /\ job.pc # "done" => job.read < 5
  /\ \A i \in 1..Len(job.got) : Mixed(job.began, d, races, job.got[i])

(* A key holds its own day's table, or one that a race has left.            *)
Keyed(k, races, table) == table = k \/ (k \in races /\ table = k - 1)
Two(S)     == \E a, b : S \subseteq {a, b}
CacheSound == /\ DOMAIN cache \subseteq 0..Date /\ Two(DOMAIN cache)
              /\ \A k \in DOMAIN cache : Keyed(k, raced, cache[k])

ClockSound == clock \in Setup..Horizon /\ raced \subseteq 1..Date
JobsSound  == /\ jobs = [j \in Jobs |-> jobs[j]]
              /\ \A j \in Jobs : jobs[j] # Idle => JobSound(jobs[j], Date, raced)
DayInv     == ClockSound /\ CacheSound /\ JobsSound

-----------------------------------------------------------------------------
(* Days.                                                                    *)

LEMMA Divided ==
  ASSUME NEW n \in Nat, NEW g \in Nat \ {0}
  PROVE  /\ n \div g \in Nat /\ g * (n \div g) <= n /\ n < g * (n \div g) + g
  OBVIOUS

LEMMA DivisionGrows ==
  ASSUME NEW m \in Nat, NEW n \in Nat, m <= n, NEW g \in Nat \ {0}
  PROVE  m \div g <= n \div g
<1> DEFINE p == m \div g
           q == n \div g
<1>1. /\ p \in Nat /\ g * p <= m /\ q \in Nat /\ n < g * q + g
  BY Divided
<1> HIDE DEF p, q
<1>2. ASSUME p > q PROVE FALSE
  <2>1. p >= q + 1
    BY <1>1, <1>2
  <2>2. g * p >= g * (q + 1)
    BY <1>1, <2>1
  <2>3. g * (q + 1) = g * q + g
    BY <1>1
  <2> QED BY <1>1, <2>2, <2>3
<1>3. p <= q
  BY <1>1, <1>2
<1> QED BY <1>3 DEF p, q

LEMMA AssumedNumbers ==
  /\ Grid \in Nat \ {0} /\ Step \in Nat \ {0} /\ None \notin Int
  /\ Horizon \in Nat /\ Setup \in 0..Horizon
  BY GridStep, NoValue, Clock

LEMMA DayType ==
  ASSUME ClockSound
  PROVE  Date \in Nat /\ Date <= Horizon \div Grid /\ Horizon \div Grid \in Nat
<1>1. clock \in Nat /\ clock <= Horizon /\ Horizon \in Nat /\ Grid \in Nat \ {0}
  BY AssumedNumbers DEF ClockSound
<1> QED BY <1>1, Divided, DivisionGrows DEF Date

-----------------------------------------------------------------------------
(* The jobs.                                                                *)

LEMMA MixedGrows ==
  ASSUME NEW b \in Int, NEW d \in Int, NEW e \in Int, d <= e, NEW R, NEW S, R \subseteq S,
         NEW table, Mixed(b, d, R, table)
  PROVE  Mixed(b, e, S, table)
  BY DEF Mixed

LEMMA JobGrows ==
  ASSUME NEW d \in Int, NEW e \in Int, NEW R, NEW S, NEW job, JobSound(job, d, R),
         d <= e, R \subseteq S, e <= job.began + 1
  PROVE  JobSound(job, e, S)
<1>1. job.began \in Int /\ job.began \in 0..e /\ job \in Job
  BY DEF JobSound, Job
<1>2. job.held # None => job.held \in job.began..e /\ Mixed(job.began, e, S, job.table)
  BY <1>1, MixedGrows DEF JobSound
<1>3. job.pc \in {"key", "fill"} => job.today \in job.began..e
  BY <1>1 DEF JobSound
<1>4. job.pc = "fill" => job.key \in job.today..e /\ (job.key # job.today => job.key \in S)
  BY <1>1 DEF JobSound
<1>5. \A i \in 1..Len(job.got) : Mixed(job.began, e, S, job.got[i])
  BY <1>1, MixedGrows DEF JobSound
<1> QED BY <1>1, <1>2, <1>3, <1>4, <1>5 DEF JobSound

LEMMA NotIdle == ASSUME NEW job \in Job PROVE job # Idle
<1>1. job.pc \in Pcs
  BY DEF Job
<1> QED BY <1>1 DEF Idle, Pcs

LEMMA FreshSound ==
  ASSUME NEW d \in Nat, Date = d, NEW R, None \notin Int
  PROVE  JobSound(Fresh, d, R)
<1>1. /\ Fresh.pc = "look" /\ Fresh.read = 1 /\ Fresh.began = d /\ Fresh.held = None
      /\ Fresh.got = <<>> /\ Fresh \in Job
  BY DEF Fresh, Job, Pcs
<1> QED BY <1>1 DEF JobSound

LEMMA TookSound ==
  ASSUME NEW d \in Nat, NEW R, NEW job, JobSound(job, d, R), job.pc # "done", None \notin Int,
         NEW today \in job.began..d, NEW table, Mixed(job.began, d, R, table)
  PROVE  JobSound(Took(job, today, table), d, R)
<1> DEFINE n == Took(job, today, table)
<1>0. /\ job \in Job /\ job.read \in 1..4 /\ job.got \in Seq(Int) /\ Len(job.got) = job.read - 1
      /\ job.began \in 0..d /\ d <= job.began + 1 /\ today \in Int
      /\ \A i \in 1..Len(job.got) : Mixed(job.began, d, R, job.got[i])
  BY DEF JobSound, Job
<1>1. table \in Int
  BY <1>0 DEF Mixed
<1>2. Len(Reads) = 4
  BY DEF Reads
<1>3. /\ n.pc = (IF job.read = 4 THEN "done" ELSE "look") /\ n.read = job.read + 1
      /\ n.began = job.began /\ n.held = today /\ n.table = table /\ n.got = Append(job.got, table)
  BY <1>0, <1>2 DEF Took, Job
<1>4. n \in Job
  <2> DEFINE got == Append(job.got, table)
             pc  == IF job.read = 4 THEN "done" ELSE "look"
  <2>1. got \in Seq(Int) /\ pc \in Pcs /\ job.read + 1 \in Nat
    BY <1>0, <1>1 DEF Pcs
  <2>2. n = [job EXCEPT !.held = today, !.table = table, !.got = got, !.read = job.read + 1,
                        !.pc = pc]
    BY <1>2 DEF Took
  <2> HIDE DEF got, pc, n
  <2> QED BY <1>0, <1>1, <2>1, <2>2 DEF Job
<1> HIDE DEF n
<1>5. /\ Len(n.got) = job.read
      /\ \A i \in 1..job.read : n.got[i] = IF i = job.read THEN table ELSE job.got[i]
  BY <1>0, <1>1, <1>3
<1>6. \A i \in 1..Len(n.got) : Mixed(n.began, d, R, n.got[i])
  BY <1>0, <1>3, <1>5
<1>7. n.pc \notin {"key", "fill"} /\ n.read \in 1..5
  BY <1>0, <1>3
<1>8. n.held \in n.began..d /\ n.held # None /\ n.began \in 0..d /\ d <= n.began + 1
  BY <1>0, <1>3
<1>9. Mixed(n.began, d, R, n.table) /\ Len(n.got) = n.read - 1
  BY <1>0, <1>3, <1>5
<1>10. (n.pc = "done" => n.read = 5) /\ (n.pc # "done" => n.read < 5)
  BY <1>0, <1>3
<1>11. JobSound(n, d, R)
  BY <1>4, <1>6, <1>7, <1>8, <1>9, <1>10 DEF JobSound
<1> QED BY <1>11 DEF n

(* What a step does to one job, and to what the others hold.                *)
LEMMA JobsAfter ==
  ASSUME JobsSound, ClockSound, NEW R, raced \subseteq R,
         NEW j \in Jobs, NEW new, new = Idle \/ JobSound(new, Date, R),
         jobs' = [jobs EXCEPT ![j] = new], clock' = clock, raced' = R
  PROVE  JobsSound'
<1> DEFINE d == Date
<1>1. d \in Nat /\ d' = d
  BY DayType DEF Date
<1>2. jobs' = [i \in Jobs |-> IF i = j THEN new ELSE jobs[i]]
  BY DEF JobsSound
<1>3. \A i \in Jobs : jobs'[i] = IF i = j THEN new ELSE jobs[i]
  BY <1>2
<1>4. jobs' = [i \in Jobs |-> jobs'[i]]
  BY <1>2, <1>3
<1>5. ASSUME NEW i \in Jobs, jobs'[i] # Idle PROVE JobSound(jobs'[i], d, R)
  <2>1. CASE i = j
    BY <1>3, <1>5, <2>1
  <2>2. CASE i # j
    <3>1. JobSound(jobs[i], d, raced) /\ jobs'[i] = jobs[i]
      BY <1>3, <1>5, <2>2 DEF JobsSound
    <3>2. d <= jobs[i].began + 1
      BY <3>1 DEF JobSound
    <3> HIDE DEF d
    <3>3. JobSound(jobs[i], d, R)
      BY <1>1, <3>1, <3>2, JobGrows
    <3> QED BY <3>1, <3>3
  <2> QED BY <2>1, <2>2
<1>6. Idle' = Idle
  BY DEF Idle
<1> QED BY <1>1, <1>4, <1>5, <1>6 DEF JobsSound

LEMMA CacheKept ==
  ASSUME CacheSound, cache' = cache, NEW R, raced' = R, raced \subseteq R,
         Date \in Int, Date' \in Int, Date <= Date'
  PROVE  CacheSound'
<1>1. \A k \in DOMAIN cache : Keyed(k, R, cache[k])
  BY DEF CacheSound, Keyed
<1>2. DOMAIN cache \subseteq 0..Date'
  BY DEF CacheSound
<1> QED BY <1>1, <1>2 DEF CacheSound, Keyed

(* A step within the day.                                                   *)
LEMMA SameDay ==
  ASSUME DayInv, clock' = clock, NEW R, raced' = R, raced \subseteq R, R \subseteq 1..Date
  PROVE  ClockSound' /\ (cache' = cache => CacheSound')
<1>1. Date' = Date /\ Date \in Nat
  BY DayType DEF Date, DayInv
<1>2. ClockSound'
  BY <1>1 DEF DayInv, ClockSound
<1>3. ASSUME cache' = cache PROVE CacheSound'
  BY <1>1, <1>3, CacheKept DEF DayInv
<1> QED BY <1>2, <1>3

LEMMA DayInit == ASSUME ForecastInit PROVE DayInv
<1>1. ClockSound
  BY AssumedNumbers DEF ForecastInit, ClockSound
<1>2. cache = <<>> /\ DOMAIN cache = {}
  BY DEF ForecastInit
<1>3. CacheSound
  BY <1>2 DEF CacheSound, Two
<1>4. JobsSound
  BY DEF ForecastInit, JobsSound
<1> QED BY <1>1, <1>3, <1>4 DEF DayInv

LEMMA TickKeeps == ASSUME DayInv, ClockTicks PROVE DayInv'
<1> USE DEF DayInv
<1> DEFINE d == Date
           e == Date'
<1>1. clock \in Nat /\ Horizon \in Nat /\ clock < Horizon /\ clock' = clock + 1
      /\ Grid \in Nat \ {0} /\ cache' = cache /\ jobs' = jobs /\ raced' = raced
  BY AssumedNumbers DEF ClockTicks, ClockSound
<1>4. e = (clock + 1) \div Grid /\ d = clock \div Grid
  BY <1>1 DEF Date
<1>5. d \in Nat /\ e \in Nat /\ d <= e
  BY <1>1, <1>4, Divided, DivisionGrows
<1>2. ClockSound'
  BY <1>1, <1>5, AssumedNumbers DEF ClockSound
<1>3. CacheSound'
  BY <1>1, <1>5, CacheKept
<1> HIDE DEF d, e
<1>6. ASSUME NEW j \in Jobs, jobs[j] # Idle PROVE JobSound(jobs[j], e, raced)
  <2>1. JobSound(jobs[j], d, raced)
    BY <1>6 DEF JobsSound, d
  <2>2. e <= jobs[j].began + 1
    BY <1>4, <1>6 DEF ClockTicks
  <2> QED BY <1>5, <2>1, <2>2, JobGrows
<1>7. JobsSound'
  BY <1>1, <1>6 DEF JobsSound, Idle, e
<1> QED BY <1>2, <1>3, <1>7

LEMMA RecomputeKeeps == ASSUME DayInv, NEW j \in Jobs, Recompute(j) PROVE DayInv'
<1> USE DEF DayInv
<1> DEFINE new == Fresh
<1>1. JobSound(new, Date, raced)
  BY DayType, AssumedNumbers, FreshSound
<1>2. jobs' = [jobs EXCEPT ![j] = new] /\ clock' = clock /\ cache' = cache /\ raced' = raced
  BY DEF Recompute
<1> HIDE DEF new
<1>3. JobsSound'
  BY <1>1, <1>2, JobsAfter
<1>4. raced \subseteq 1..Date
  BY DEF ClockSound
<1> QED BY <1>2, <1>3, <1>4, SameDay

LEMMA JobAsks ==
  ASSUME NEW job \in Job, NEW d \in Int
  PROVE  /\ [job EXCEPT !.pc = "key", !.today = d] \in Job
         /\ [job EXCEPT !.pc = "fill", !.key = d] \in Job
BY DEF Job, Pcs

LEMMA LookKeeps == ASSUME DayInv, NEW j \in Jobs, Look(j) PROVE DayInv'
<1> USE DEF DayInv
<1> DEFINE d   == Date
           job == jobs[j]
           asks == [job EXCEPT !.pc = "key", !.today = d]
           took == Took(job, d, job.table)
           new == IF Holds(job, d) THEN took ELSE asks
<1>1. job # Idle /\ job.pc = "look"
  BY DEF Look, Idle
<1>2. JobSound(job, d, raced)
  BY <1>1 DEF JobsSound
<1>3. d \in Nat /\ None \notin Int
  BY DayType, AssumedNumbers
<1>4. jobs' = [jobs EXCEPT ![j] = new] /\ clock' = clock /\ cache' = cache /\ raced' = raced
  BY DEF Look, JobsSound
<1> HIDE DEF d
<1>5. job.began \in 0..d /\ d \in job.began..d /\ job \in Job
  BY <1>2, <1>3 DEF JobSound
<1>6. ASSUME Holds(job, d) PROVE JobSound(new, d, raced)
  <2>1. job.held = d /\ job.held # None
    BY <1>3, <1>6 DEF Holds
  <2>2. Mixed(job.began, d, raced, job.table)
    BY <1>2, <2>1 DEF JobSound
  <2>3. JobSound(took, d, raced)
    <3> HIDE DEF took, job
    <3>1. JobSound(Took(job, d, job.table), d, raced)
      BY <1>1, <1>2, <1>3, <1>5, <2>2, TookSound
    <3> QED BY <3>1 DEF took
  <2> QED BY <1>6, <2>3
<1>7. ASSUME ~Holds(job, d) PROVE JobSound(new, d, raced)
  <2>1. asks \in Job
    <3> HIDE DEF job
    <3>1. job \in Job /\ d \in Int
      BY <1>3, <1>5
    <3> QED BY <3>1, JobAsks
  <2>2. /\ asks.pc = "key" /\ asks.today = d /\ asks.began = job.began /\ asks.held = job.held
        /\ asks.table = job.table /\ asks.read = job.read /\ asks.got = job.got
    BY <1>5 DEF Job
  <2> HIDE DEF asks
  <2>3. JobSound(asks, d, raced)
    BY <1>1, <1>2, <1>5, <2>1, <2>2 DEF JobSound
  <2> QED BY <1>7, <2>3
<1>8. JobSound(new, d, raced)
  BY <1>6, <1>7
<1> HIDE DEF new
<1>9. JobsSound'
  BY <1>4, <1>8, JobsAfter DEF d
<1>10. raced \subseteq 1..Date
  BY DEF ClockSound
<1> QED BY <1>4, <1>9, <1>10, SameDay

(* A table found under a key of today or of an earlier day of the job.      *)
LEMMA KeyedMixed ==
  ASSUME NEW b \in Int, NEW d \in Int, NEW k \in b..d, NEW R, NEW table, Keyed(k, R, table)
  PROVE  Mixed(b, d, R, table)
BY DEF Keyed, Mixed

LEMMA KeyKeeps == ASSUME DayInv, NEW j \in Jobs, Key(j) PROVE DayInv'
<1> USE DEF DayInv
<1> DEFINE d    == Date
           job  == jobs[j]
           R    == IF job.today # d THEN raced \cup {d} ELSE raced
           fill == [job EXCEPT !.pc = "fill", !.key = d]
           took == Took(job, job.today, cache[d])
           new  == IF d \in DOMAIN cache THEN took ELSE fill
<1>1. job # Idle /\ job.pc = "key"
  BY DEF Key, Idle
<1>2. JobSound(job, d, raced)
  BY <1>1 DEF JobsSound
<1>3. d \in Nat /\ None \notin Int
  BY DayType, AssumedNumbers
<1>4. jobs' = [jobs EXCEPT ![j] = new] /\ clock' = clock /\ cache' = cache /\ raced' = R
  BY DEF Key, JobsSound, CacheKey
<1> HIDE DEF d
<1>5. job.began \in 0..d /\ d \in job.began..d /\ job \in Job /\ job.today \in job.began..d
      /\ d <= job.began + 1
  BY <1>1, <1>2, <1>3 DEF JobSound
<1>6. raced \subseteq R /\ R \subseteq 1..d /\ (job.today # d => d \in R)
  <2>1. job.today # d => d >= 1
    BY <1>3, <1>5
  <2>2. raced \subseteq 1..d
    BY DEF ClockSound, d
  <2> QED BY <1>3, <2>1, <2>2
<1> HIDE DEF R
<1>7. JobSound(job, d, R)
  <2> HIDE DEF job
  <2>1. d \in Int /\ d <= d
    BY <1>3
  <2> QED BY <2>1, <1>2, <1>5, <1>6, JobGrows
<1>8. ASSUME d \in DOMAIN cache PROVE JobSound(new, d, R)
  <2>1. Keyed(d, R, cache[d])
    BY <1>6, <1>8 DEF CacheSound, Keyed
  <2>2. Mixed(job.began, d, R, cache[d])
    <3>1. job.began \in Int
      BY <1>5
    <3> HIDE DEF job
    <3> QED BY <1>3, <1>5, <2>1, <3>1, KeyedMixed
  <2>3. JobSound(took, d, R)
    <3> DEFINE table == cache[d]
    <3>1. job.pc # "done" /\ job.today \in job.began..d /\ Mixed(job.began, d, R, table)
      BY <1>1, <1>5, <2>2
    <3> HIDE DEF job, table
    <3>2. JobSound(Took(job, job.today, table), d, R)
      BY <1>3, <1>7, <3>1, TookSound
    <3> QED BY <3>2 DEF took, table
  <2> QED BY <1>8, <2>3
<1>9. ASSUME d \notin DOMAIN cache PROVE JobSound(new, d, R)
  <2>1. fill \in Job
    <3> HIDE DEF job
    <3>1. job \in Job /\ d \in Int
      BY <1>3, <1>5
    <3> QED BY <3>1, JobAsks
  <2>2. /\ fill.pc = "fill" /\ fill.key = d /\ fill.began = job.began /\ fill.held = job.held
        /\ fill.table = job.table /\ fill.read = job.read /\ fill.got = job.got
        /\ fill.today = job.today
    BY <1>5 DEF Job
  <2> HIDE DEF fill
  <2>3. d \in job.today..d
    BY <1>3, <1>5
  <2>4. JobSound(fill, d, R)
    BY <1>1, <1>5, <1>6, <1>7, <2>1, <2>2, <2>3 DEF JobSound
  <2> QED BY <1>9, <2>4
<1>10. JobSound(new, d, R)
  BY <1>8, <1>9
<1> HIDE DEF new
<1>11. JobsSound'
  BY <1>4, <1>6, <1>10, JobsAfter DEF d
<1>12. CacheSound' /\ ClockSound'
  BY <1>4, <1>6, SameDay DEF d
<1> QED BY <1>11, <1>12

(* What a fill leaves of the cache.                                         *)
LEMMA FilledSound ==
  ASSUME CacheSound, NEW today \in Int, NEW key \in 0..Date,
         key = today \/ (key \in raced /\ today = key - 1),
         NEW new, new = Filled(today, key)
  PROVE  /\ DOMAIN new \subseteq 0..Date /\ Two(DOMAIN new) /\ key \in DOMAIN new
         /\ \A k \in DOMAIN new : Keyed(k, raced, new[k])
<1> DEFINE S == {e \in DOMAIN cache : e = today} \cup {key}
<1>1. DOMAIN new = S /\ \A k \in S : new[k] = IF k = key THEN today ELSE cache[k]
  BY DEF Filled
<1>2. S \subseteq {today, key} /\ S \subseteq 0..Date /\ key \in S
  BY DEF CacheSound
<1>3. \A k \in S : Keyed(k, raced, new[k])
  BY <1>1 DEF CacheSound, Keyed
<1> HIDE DEF S
<1>4. Two(S)
  BY <1>2 DEF Two
<1> QED BY <1>1, <1>2, <1>3, <1>4

LEMMA FillKeeps == ASSUME DayInv, NEW j \in Jobs, Fill(j) PROVE DayInv'
<1> USE DEF DayInv
<1> DEFINE d   == Date
           job == jobs[j]
           table == cache'[job.key]
           new == Took(job, job.today, table)
<1>1. job # Idle /\ job.pc = "fill"
  BY DEF Fill, Idle
<1>2. JobSound(job, d, raced)
  BY <1>1 DEF JobsSound
<1>3. d \in Nat /\ None \notin Int
  BY DayType, AssumedNumbers
<1>4. jobs' = [jobs EXCEPT ![j] = new] /\ clock' = clock /\ raced' = raced
      /\ cache' = IF job.key \in DOMAIN cache THEN cache ELSE Filled(job.today, job.key)
  BY DEF Fill, JobsSound
<1> HIDE DEF d
<1>5. job.began \in 0..d /\ job.today \in job.began..d /\ job.key \in job.today..d
      /\ d <= job.began + 1 /\ (job.key # job.today => job.key \in raced)
  BY <1>1, <1>2, <1>3 DEF JobSound
<1>6. job.key \in 0..d /\ job.key \in Int /\ job.today \in Int /\ job.began \in Int /\ job.key \in job.began..d
      /\ (job.key = job.today \/ (job.key \in raced /\ job.today = job.key - 1))
  BY <1>3, <1>5
<1>7. CacheSound' /\ job.key \in DOMAIN cache'
  <2>1. CASE job.key \in DOMAIN cache
    <3>1. cache' = cache /\ raced \subseteq 1..Date
      BY <1>4, <2>1 DEF ClockSound
    <3> QED BY <1>4, <2>1, <3>1, SameDay
  <2>2. CASE job.key \notin DOMAIN cache
    <3> HIDE DEF job
    <3>1. cache' = Filled(job.today, job.key)
      BY <1>4, <2>2
    <3>2. PICK c : c = Filled(job.today, job.key)
      OBVIOUS
    <3>3. /\ DOMAIN c \subseteq 0..Date /\ Two(DOMAIN c) /\ job.key \in DOMAIN c
          /\ \A k \in DOMAIN c : Keyed(k, raced, c[k])
      BY <1>6, <3>2, FilledSound DEF d
    <3>4. cache' = c
      BY <3>1, <3>2
    <3>5. DOMAIN cache' \subseteq 0..Date' /\ (\E a, b : DOMAIN cache' \subseteq {a, b})
      BY <1>4, <3>3, <3>4 DEF Two, Date
    <3>6. \A k \in DOMAIN cache' : cache'[k] = k \/ (k \in raced' /\ cache'[k] = k - 1)
      BY <1>4, <3>3, <3>4 DEF Keyed
    <3>7. job.key \in DOMAIN cache'
      BY <3>3, <3>4
    <3> QED BY <3>5, <3>6, <3>7 DEF CacheSound, Two, Keyed
  <2> QED BY <2>1, <2>2
<1>8. JobSound(new, d, raced)
  <2>1. Keyed(job.key, raced, table)
    BY <1>4, <1>7 DEF CacheSound, Keyed
  <2>2. job.pc # "done"
    BY <1>1
  <2> HIDE DEF job, table
  <2>3. Mixed(job.began, d, raced, table)
    <3> DEFINE k == job.key
    <3>1. k \in job.began..d /\ Keyed(k, raced, table)
      BY <1>6, <2>1
    <3> HIDE DEF k
    <3> QED BY <1>3, <1>6, <3>1, KeyedMixed
  <2> QED BY <1>2, <1>3, <1>5, <2>2, <2>3, TookSound
<1> HIDE DEF new
<1>9. JobsSound'
  BY <1>4, <1>8, JobsAfter DEF d
<1>10. ClockSound'
  <2>1. raced \subseteq 1..Date
    BY DEF ClockSound
  <2> QED BY <1>4, <2>1, SameDay
<1> QED BY <1>7, <1>9, <1>10

LEMMA EndKeeps == ASSUME DayInv, NEW j \in Jobs, Publish(j) \/ Fail(j) PROVE DayInv'
<1> USE DEF DayInv
<1>1. jobs' = [jobs EXCEPT ![j] = Idle] /\ clock' = clock /\ cache' = cache /\ raced' = raced
  BY DEF Publish, Fail
<1>2. JobsSound'
  BY <1>1, JobsAfter
<1>3. raced \subseteq 1..Date
  BY DEF ClockSound
<1> QED BY <1>1, <1>2, <1>3, SameDay

LEMMA DayStep == ASSUME DayInv, [ForecastNext]_forecastVars PROVE DayInv'
<1>1. CASE ClockTicks
  BY <1>1, TickKeeps
<1>2. ASSUME NEW j \in Jobs, Recompute(j) \/ Look(j) \/ Key(j) \/ Fill(j)
                             \/ Publish(j) \/ Fail(j)
      PROVE  DayInv'
  BY <1>2, RecomputeKeeps, LookKeeps, KeyKeeps, FillKeeps, EndKeeps
<1>3. CASE UNCHANGED forecastVars
  <2>1. clock' = clock /\ cache' = cache /\ jobs' = jobs /\ raced' = raced
    BY <1>3 DEF forecastVars
  <2>2. Date' = Date /\ Idle' = Idle
    BY <2>1 DEF Date, Idle
  <2>3. raced \subseteq 1..Date
    BY DEF DayInv, ClockSound
  <2>4. ClockSound' /\ CacheSound'
    BY <2>1, <2>3, SameDay
  <2> QED BY <2>1, <2>2, <2>4 DEF DayInv, JobsSound
<1> QED BY <1>1, <1>2, <1>3 DEF ForecastNext

LEMMA DayKept == ForecastSpec => []DayInv
<1>1. ForecastInit => DayInv
  BY DayInit
<1>2. DayInv /\ [ForecastNext]_forecastVars => DayInv'
  BY DayStep
<1> QED BY <1>1, <1>2, PTL DEF ForecastSpec

(* At most two days' tables are kept.                                       *)
LEMMA TwoAtMost == ASSUME NEW S, Two(S) PROVE Cardinality(S) <= 2
<1>1. PICK a, b : S \subseteq {a, b}
  BY DEF Two
<1>2. IsFiniteSet({a}) /\ IsFiniteSet({b}) /\ Cardinality({a}) = 1 /\ Cardinality({b}) = 1
  BY FS_Singleton
<1>3. {a, b} = {a} \cup {b}
  OBVIOUS
<1>4. IsFiniteSet({a, b}) /\ Cardinality({a, b}) = 1 + 1 - Cardinality({a} \cap {b})
  BY <1>2, <1>3, FS_Union
<1>5. Cardinality({a} \cap {b}) \in Nat
  BY <1>2, FS_Intersection, FS_CardinalityType
<1>6. Cardinality({a, b}) <= 2
  BY <1>4, <1>5
<1>7. Cardinality(S) \in Nat /\ Cardinality(S) <= Cardinality({a, b})
      /\ Cardinality({a, b}) \in Nat
  BY <1>1, <1>4, FS_Subset, FS_CardinalityType
<1> QED BY <1>6, <1>7

(* Only a race across midnight leaves the table of the day before under a   *)
(* day's key or in a strip (sun.py, _ensure_today), and at most two days'   *)
(* tables are kept.                                                         *)
THEOREM OnlyMidnightEverMixes == ForecastSpec => []OnlyMidnightMixes
<1>1. ASSUME DayInv PROVE OnlyMidnightMixes
  <2>1. \A k \in DOMAIN cache : cache[k] = k \/ (k \in raced /\ cache[k] = k - 1)
    BY <1>1 DEF DayInv, CacheSound, Keyed
  <2>2. ASSUME NEW j \in Jobs, jobs[j] # Idle, NEW i \in 1..Len(jobs[j].got)
        PROVE  \/ jobs[j].got[i] \in jobs[j].began..Date
               \/ jobs[j].began \in raced /\ jobs[j].got[i] = jobs[j].began - 1
    BY <1>1, <2>2 DEF DayInv, JobsSound, JobSound, Mixed
  <2>3. Cardinality(DOMAIN cache) <= 2
    BY <1>1, TwoAtMost DEF DayInv, CacheSound
  <2> QED BY <2>1, <2>2, <2>3 DEF OnlyMidnightMixes
<1> QED BY <1>1, DayKept, PTL

-----------------------------------------------------------------------------
(* The strip: what is shown is what was computed for one configuration from *)
(* tables of real days.                                                     *)

Reading == [times : Int, azi : Int, ele : Int, again : Int, alm : Int]
Strip(c, r) == [read |-> r, samples |-> Samples(c, r), events |-> Events(c, r)]
RealDays(r, d) == {r.times, r.azi, r.ele, r.again, r.alm} \subseteq 0..d
ShownSound  == shown # None => \E r \in Reading : /\ RealDays(r, Date)
                                                  /\ shown = Strip(config, r)
ShownInv == DayInv /\ ShownSound

LEMMA LeastNat == ASSUME NEW T \in SUBSET Nat, T # {} PROVE \E x \in T : \A y \in T : x <= y
<1>1. PICK x \in T : \A y \in T : ~ (<<y, x>> \in OpToRel(<, Nat))
  BY NatLessThanWellFounded, WFMin
<1>2. \A y \in T : ~(y < x)
  BY <1>1 DEF OpToRel
<1> QED BY <1>2

(* A set of times that is bounded below has a first one.                    *)
LEMMA FirstExists ==
  ASSUME NEW S \in SUBSET Int, S # {}, NEW low \in Int, \A t \in S : low <= t
  PROVE  \E t \in S : \A u \in S : t <= u
<1> DEFINE past == {t - low : t \in S}
<1>1. past \in SUBSET Nat /\ past # {} /\ \A t \in S : t - low \in past
  OBVIOUS
<1>2. \A n \in past : \E t \in S : n = t - low
  OBVIOUS
<1> HIDE DEF past
<1>3. PICK n \in past : \A m \in past : n <= m
  BY <1>1, LeastNat
<1>4. PICK t \in S : n = t - low
  BY <1>2
<1>5. \A u \in S : t - low <= u - low
  BY <1>1, <1>3, <1>4
<1> QED BY <1>5

LEMMA DayNumbers ==
  ASSUME NEW d \in 0..(Horizon \div Grid)
  PROVE  /\ Midnight(d) + Rise(d) \in Int /\ Midnight(d) + SunsetAt(d) \in Int
         /\ Midnight(d + 1) + Rise(d + 1) \in Int
<1>1. Grid \in Nat \ {0} /\ Horizon \in Nat /\ Horizon \div Grid \in Nat
  BY AssumedNumbers, Divided
<1>2. d \in 0..(Horizon \div Grid) + 1 /\ d + 1 \in 0..(Horizon \div Grid) + 1
  BY <1>1
<1>3. Rise(d) \in Int /\ SunsetAt(d) \in Int /\ Rise(d + 1) \in Int
  BY <1>2, Suns
<1>4. Midnight(d) \in Int /\ Midnight(d + 1) \in Int
  BY <1>1 DEF Midnight
<1> QED BY <1>3, <1>4

LEMMA TimesInt ==
  ASSUME NEW r \in Reading, NEW t \in Times(r)
  PROVE  t \in Int /\ Before(t) \in Int /\ Midnight(r.times) \in Int
<1>1. Grid \in Nat \ {0} /\ Step \in Nat \ {0} /\ r.times \in Int
  BY AssumedNumbers DEF Reading
<1>2. Midnight(r.times) \in Int
  BY <1>1 DEF Midnight
<1>3. PICK i \in {k \in 0..Grid : k % Step = 0} : t = Midnight(r.times) + i
  BY DEF Times
<1>4. i \in Int
  BY <1>1, <1>3
<1> QED BY <1>1, <1>2, <1>3, <1>4 DEF Before

LEMMA NearestType ==
  ASSUME Grid \in Nat \ {0}, NEW d \in Int, NEW t \in Int
  PROVE  Nearest(d, t) \in 0..Grid
<1>1. Midnight(d) \in Int
  BY DEF Midnight
<1> QED BY <1>1 DEF Nearest

(* The point at which a crossing is found is the first that matches.        *)
Found(r, t, valid) == {i \in Nearest(r.again, Before(t))..Nearest(r.again, t)
                         : Matches(r, i, valid)}

LEMMA CrossingFound ==
  ASSUME NEW r \in Reading, NEW t \in Times(r), NEW valid
  PROVE  /\ Found(r, t, valid) = {} => Crossing(r, t, valid) = t
         /\ Found(r, t, valid) # {} =>
              \E i \in Found(r, t, valid) :
                 /\ Crossing(r, t, valid) = Midnight(r.again) + i
                 /\ \A k \in Found(r, t, valid) : i <= k
<1> DEFINE found == Found(r, t, valid)
           low   == Nearest(r.again, Before(t))
           high  == Nearest(r.again, t)
<1>1. low \in 0..Grid /\ high \in 0..Grid /\ Grid \in Nat \ {0}
  BY AssumedNumbers, TimesInt, NearestType DEF Reading
<1>2. Crossing(r, t, valid) =
        IF found = {} THEN t
        ELSE Midnight(r.again) + (CHOOSE i \in found : \A k \in found : i <= k)
  BY DEF Crossing, Found
<1>3. found \in SUBSET Int /\ \A i \in found : low <= i
  <2> HIDE DEF low, high
  <2>1. found = {i \in low..high : Matches(r, i, valid)}
    BY DEF Found, low, high
  <2> HIDE DEF found
  <2> QED BY <1>1, <2>1
<1> HIDE DEF found, low, high
<1>4. ASSUME found # {}
      PROVE  \E i \in found : /\ Crossing(r, t, valid) = Midnight(r.again) + i
                              /\ \A k \in found : i <= k
  <2>1. low \in Int
    BY <1>1
  <2>2. \E i \in found : \A k \in found : i <= k
    BY <1>3, <1>4, <2>1, FirstExists
  <2> DEFINE first == CHOOSE i \in found : \A k \in found : i <= k
  <2>3. first \in found /\ \A k \in found : first <= k
    BY <2>2
  <2>4. Crossing(r, t, valid) = Midnight(r.again) + first
    BY <1>2, <1>4
  <2> HIDE DEF first
  <2> QED BY <2>3, <2>4
<1> QED BY <1>2, <1>4 DEF found

LEMMA CrossingInt ==
  ASSUME NEW r \in Reading, NEW t \in Times(r), NEW valid
  PROVE  Crossing(r, t, valid) \in Int
<1>1. t \in Int /\ Grid \in Nat \ {0} /\ r.again \in Int /\ Before(t) \in Int
  BY TimesInt, AssumedNumbers DEF Reading
<1>2. Midnight(r.again) \in Int
  BY <1>1 DEF Midnight
<1>3. \A i \in Found(r, t, valid) : i \in Int
  <2>1. Nearest(r.again, Before(t)) \in 0..Grid /\ Nearest(r.again, t) \in 0..Grid
    BY <1>1, NearestType
  <2>2. Nearest(r.again, Before(t)) \in Int /\ Nearest(r.again, t) \in Int
    BY <1>1, <2>1
  <2> QED BY <2>2 DEF Found
<1>4. CASE Found(r, t, valid) = {}
  BY <1>1, <1>4, CrossingFound
<1>5. CASE Found(r, t, valid) # {}
  <2>1. PICK i \in Found(r, t, valid) : Crossing(r, t, valid) = Midnight(r.again) + i
    BY <1>5, CrossingFound
  <2> QED BY <1>2, <1>3, <2>1
<1> QED BY <1>4, <1>5

LEMMA EventTimes ==
  ASSUME NEW r \in Reading, r.alm \in 0..(Horizon \div Grid), NEW c
  PROVE  /\ \A e \in Events(c, r) : e.t \in Int
         /\ \E e \in Events(c, r) : e.t = Midnight(r.alm + 1) + Rise(r.alm + 1)
<1>1. \A e \in Almanac(r.alm) : e.t \in Int
  BY DayNumbers DEF Almanac
<1>2. ASSUME NEW e \in Transitions(c, r) PROVE e.t \in Int
  <2>1. PICK t \in Changes(c, r) :
          e = [t |-> Crossing(r, t, Sample(c, r, t).handler = "solar"),
               kind |-> IF Sample(c, r, t).handler = "solar" THEN "enter" ELSE "exit"]
    BY <1>2 DEF Transitions
  <2>2. t \in Times(r)
    BY DEF Changes
  <2>3. Crossing(r, t, Sample(c, r, t).handler = "solar") \in Int
    BY <2>2, CrossingInt
  <2> QED BY <2>1, <2>3
<1>3. [t |-> Midnight(r.alm + 1) + Rise(r.alm + 1), kind |-> "sunrise"] \in Almanac(r.alm)
  BY DEF Almanac
<1> QED BY <1>1, <1>2, <1>3 DEF Events

LEMMA ReadingFinished ==
  ASSUME NEW job, NEW d \in Nat, NEW R, R \subseteq 1..d, JobSound(job, d, R), job.pc = "done",
         NEW r, r = [times |-> job.got[1], azi |-> job.got[2], ele |-> job.got[3],
                     again |-> job.got[4], alm |-> job.held]
  PROVE  r \in Reading /\ RealDays(r, d)
<1>1. Len(job.got) = 4 /\ job.got \in Seq(Int) /\ job.began \in Int
  BY DEF JobSound, Job
<1>2. job.held \in job.began..d /\ job.began \in 0..d
  BY DEF JobSound
<1>3. job.held \in 0..d
  BY <1>1, <1>2
<1>4. ASSUME NEW i \in 1..4 PROVE job.got[i] \in 0..d
  <2>1. Mixed(job.began, d, R, job.got[i])
    BY <1>1 DEF JobSound
  <2> DEFINE b == job.began
             g == job.got[i]
  <2>2. b \in 0..d /\ (g \in b..d \/ (b \in R /\ g = b - 1)) /\ \A x \in R : x \in 1..d
    BY <1>2, <2>1 DEF Mixed
  <2> HIDE DEF b, g
  <2>3. g \in 0..d
    BY <2>2
  <2> QED BY <2>3 DEF g
<1>5. job.got[1] \in 0..d /\ job.got[2] \in 0..d /\ job.got[3] \in 0..d /\ job.got[4] \in 0..d
  BY <1>4
<1> HIDE DEF Reading
<1>6. RealDays(r, d)
  BY <1>3, <1>5 DEF RealDays
<1>7. r \in Reading
  BY <1>3, <1>5 DEF Reading
<1> QED BY <1>6, <1>7

LEMMA PublishShows ==
  ASSUME DayInv, NEW j \in Jobs, Publish(j)
  PROVE  \E r \in Reading : RealDays(r, Date) /\ shown' = Strip(config, r)
<1> DEFINE job == jobs[j]
           r   == [times |-> job.got[1], azi |-> job.got[2], ele |-> job.got[3],
                   again |-> job.got[4], alm |-> job.held]
<1>1. job.pc = "done" /\ job # Idle /\ shown' = Strip(config, r)
  BY DEF Publish, Idle, Strip
<1>2. JobSound(job, Date, raced) /\ raced \subseteq 1..Date /\ Date \in Nat
  BY <1>1, DayType DEF DayInv, JobsSound, ClockSound
<1> HIDE DEF r, job
<1>3. r \in Reading /\ RealDays(r, Date)
  BY <1>1, <1>2, ReadingFinished DEF r
<1> QED BY <1>1, <1>3

LEMMA StripKept ==
  ASSUME ShownInv, [ForecastNext]_forecastVars, shown' = shown
  PROVE  ShownSound'
<1>1. DayInv'
  BY DayStep DEF ShownInv
<1>2. config' = config /\ clock' >= clock
  <2>1. clock \in Int
    BY DEF ShownInv, DayInv, ClockSound
  <2>2. CASE ClockTicks
    BY <2>1, <2>2 DEF ClockTicks
  <2>3. CASE UNCHANGED forecastVars
    BY <2>1, <2>3 DEF forecastVars
  <2>4. ASSUME NEW j \in Jobs, Recompute(j) \/ Look(j) \/ Key(j) \/ Fill(j)
                               \/ Publish(j) \/ Fail(j)
        PROVE  config' = config /\ clock' = clock
    BY <2>4, Zenon DEF Recompute, Look, Key, Fill, Publish, Fail
  <2>5. CASE ClockTicks \/ UNCHANGED forecastVars
    BY <2>2, <2>3, <2>5
  <2> QED BY <2>1, <2>4, <2>5 DEF ForecastNext
<1>3. Date \in Nat /\ Date' \in Nat /\ Date <= Date'
  <2>1. clock \in Nat /\ clock' \in Nat /\ Grid \in Nat \ {0}
    BY <1>1, AssumedNumbers DEF ShownInv, DayInv, ClockSound
  <2> QED BY <1>2, <2>1, Divided, DivisionGrows DEF Date
<1>4. CASE shown = None
  BY <1>4 DEF ShownSound
<1>5. CASE shown # None
  <2>1. PICK r \in Reading : RealDays(r, Date) /\ shown = Strip(config, r)
    BY <1>5 DEF ShownInv, ShownSound
  <2>2. RealDays(r, Date')
    BY <1>3, <2>1 DEF RealDays
  <2>3. shown' = Strip(config', r)
    BY <1>2, <2>1
  <2> QED BY <2>2, <2>3 DEF ShownSound, Strip, RealDays
<1> QED BY <1>4, <1>5

(* What a step makes of the strip.                                          *)
LEMMA StripSteps ==
  ASSUME [ForecastNext]_forecastVars
  PROVE  \/ shown' = shown \/ shown' = None
         \/ \E j \in Jobs : Publish(j)
<1>1. CASE ClockTicks \/ UNCHANGED forecastVars
  BY <1>1 DEF ClockTicks, forecastVars
<1>2. ASSUME NEW j \in Jobs, Recompute(j) \/ Look(j) \/ Key(j) \/ Fill(j)
      PROVE  shown' = shown
  BY <1>2, Zenon DEF Recompute, Look, Key, Fill
<1>3. ASSUME NEW j \in Jobs, Fail(j) PROVE shown' = None
  BY <1>3 DEF Fail
<1> QED BY <1>1, <1>2, <1>3 DEF ForecastNext

LEMMA ShownStep == ASSUME ShownInv, [ForecastNext]_forecastVars PROVE ShownInv'
<1>1. DayInv'
  BY DayStep DEF ShownInv
<1>2. CASE shown' = shown
  BY <1>1, <1>2, StripKept DEF ShownInv
<1>3. CASE shown' = None
  BY <1>1, <1>3 DEF ShownInv, ShownSound
<1>4. ASSUME NEW j \in Jobs, Publish(j) PROVE ShownInv'
  <2>1. PICK r \in Reading : RealDays(r, Date) /\ shown' = Strip(config, r)
    BY <1>4, PublishShows DEF ShownInv
  <2>2. config' = config /\ clock' = clock
    BY <1>4 DEF Publish
  <2>3. Date' = Date /\ shown' = Strip(config', r)
    BY <2>1, <2>2 DEF Date
  <2> QED BY <1>1, <2>1, <2>3 DEF ShownInv, ShownSound, Strip, RealDays
<1> QED BY <1>2, <1>3, <1>4, StripSteps

LEMMA ShownKept == ForecastSpec => []ShownInv
<1>1. ForecastInit => ShownInv
  BY DayInit DEF ShownInv, ShownSound, ForecastInit
<1>2. ShownInv /\ [ForecastNext]_forecastVars => ShownInv'
  BY ShownStep
<1> QED BY <1>1, <1>2, PTL DEF ForecastSpec

THEOREM ForecastTypeCorrect == ForecastSpec => []ForecastTypeOK
<1>1. ASSUME ShownInv PROVE ForecastTypeOK
  <2>1. clock \in Setup..Horizon /\ DOMAIN cache \subseteq 0..Date
        /\ raced \subseteq 1..Date /\ Date \in Nat
    BY <1>1, DayType DEF ShownInv, DayInv, ClockSound, CacheSound
  <2>2. ASSUME NEW k \in DOMAIN cache PROVE cache[k] \in 0..Date
    <3>1. Keyed(k, raced, cache[k])
      BY <1>1 DEF ShownInv, DayInv, CacheSound
    <3> QED BY <2>1, <3>1 DEF Keyed
  <2>3. ASSUME shown # None, NEW f \in DOMAIN shown.read PROVE shown.read[f] \in 0..Date
    <3>1. PICK r \in Reading : RealDays(r, Date) /\ shown = Strip(config, r)
      BY <1>1, <2>3 DEF ShownInv, ShownSound
    <3>2. shown.read = r /\ f \in {"times", "azi", "ele", "again", "alm"}
      BY <2>3, <3>1 DEF Strip, Reading
    <3> QED BY <3>1, <3>2 DEF RealDays
  <2>4. ASSUME NEW j \in Jobs
        PROVE  jobs[j] = Idle \/ jobs[j].pc \in {"look", "key", "fill", "done"}
    BY <1>1 DEF ShownInv, DayInv, JobsSound, JobSound, Job, Pcs
  <2> QED BY <2>1, <2>2, <2>3, <2>4 DEF ForecastTypeOK
<1> QED BY <1>1, ShownKept, PTL

(* Until the sunrise of the day after its own, a published forecast always  *)
(* has a next event, at a real time that is neither past nor later than     *)
(* that sunrise (forecast.py, issue #516; sensor.py).                       *)
THEOREM NextEventAlwaysReal == ForecastSpec => []NextEventReal
<1>1. ASSUME ShownInv PROVE NextEventReal
  <2>1. SUFFICES ASSUME shown # None,
                        clock <= Midnight(shown.read.alm + 1) + Rise(shown.read.alm + 1)
                 PROVE  Upcoming(shown.events) \in
                          clock..(Midnight(shown.read.alm + 1) + Rise(shown.read.alm + 1))
    BY DEF NextEventReal
  <2>2. PICK r \in Reading : RealDays(r, Date) /\ shown = Strip(config, r)
    BY <1>1, <2>1 DEF ShownInv, ShownSound
  <2>3. shown.read = r /\ shown.events = Events(config, r)
    BY <2>2 DEF Strip
  <2>4. /\ Date \in Nat /\ Date <= Horizon \div Grid
        /\ Horizon \div Grid \in Nat /\ clock \in Int
    BY <1>1, DayType DEF ShownInv, DayInv, ClockSound
  <2>5. r.alm \in 0..(Horizon \div Grid)
    BY <2>2, <2>4 DEF RealDays
  <2> DEFINE sunrise == Midnight(r.alm + 1) + Rise(r.alm + 1)
             events  == Events(config, r)
             ahead   == {e.t : e \in {x \in events : x.t >= clock}}
  <2>6. (\A e \in events : e.t \in Int) /\ (\E e \in events : e.t = sunrise)
    BY <2>4, <2>5, EventTimes
  <2>7. Upcoming(events) = IF ahead = {} THEN None
                             ELSE CHOOSE t \in ahead : \A u \in ahead : t <= u
    BY DEF Upcoming
  <2>8. clock <= sunrise /\ sunrise \in Int
    BY <2>1, <2>3, <2>6
  <2> HIDE DEF sunrise, events
  <2>9. ahead \in SUBSET Int /\ sunrise \in ahead /\ \A t \in ahead : clock <= t
    BY <2>4, <2>6, <2>8
  <2> HIDE DEF ahead
  <2>10. \E t \in ahead : \A u \in ahead : t <= u
    BY <2>4, <2>9, FirstExists
  <2>11. Upcoming(events) \in ahead /\ \A u \in ahead : Upcoming(events) <= u
    BY <2>7, <2>9, <2>10
  <2>12. Upcoming(events) \in clock..sunrise
    <3> DEFINE next == Upcoming(events)
    <3>1. next \in ahead /\ \A u \in ahead : next <= u
      BY <2>11
    <3> HIDE DEF next
    <3>2. next \in Int /\ clock <= next /\ next <= sunrise
      BY <2>9, <3>1
    <3>3. next \in clock..sunrise
      BY <2>4, <2>8, <3>2
    <3> QED BY <3>3 DEF next
  <2> QED BY <2>3, <2>12 DEF sunrise, events
<1> QED BY <1>1, ShownKept, PTL

-----------------------------------------------------------------------------
(* The strip and the live decision.                                         *)

(* Within its day the nearest point of the table is the time's own.         *)
LEMMA NearestOwn ==
  ASSUME NEW r \in Reading, NEW t \in Times(r)
  PROVE  Nearest(r.times, t) = t - Midnight(r.times) /\ t - Midnight(r.times) \in 0..Grid
<1>1. Grid \in Nat \ {0} /\ Midnight(r.times) \in Int
  BY AssumedNumbers, TimesInt
<1>2. PICK i \in {k \in 0..Grid : k % Step = 0} : t = Midnight(r.times) + i
  BY DEF Times
<1>3. i \in 0..Grid
  BY <1>2
<1> QED BY <1>1, <1>2, <1>3 DEF Nearest

(* Outside the cases of Differs, a sample is the live decision of its time. *)
LEMMA SampleIsLive ==
  ASSUME NEW c \in Configs, NEW r \in Reading, OneDay(r), NEW t \in Times(r),
         ~Differs(c, r.times, t)
  PROVE  [handler |-> Sample(c, r, t).handler, pos |-> Sample(c, r, t).pos]
           = Live(c, r.times, t)
<1> DEFINE d == r.times
           start == WindowStart(c, d)
           morning == MorningActive(c, d, start, t)
           sun == SunInView(d, t)
           closed == Closed(c, d, t)
           started == HasStarted(c, d, t)
           before == t < Midnight(d) + Rise(d)
           default(s, e) == ForecastDefault(c, d, t, s, e)
<1>1. r.alm = d /\ r.azi = d
  BY DEF OneDay
<1>2. MorningActive(c, d, At(d, c.start), t) = morning
  BY Zenon DEF Differs
<1>3. Nearest(d, t) = t - Midnight(d)
  BY NearestOwn
<1>4. DirectSun(r.azi, r.ele, r.alm, Nearest(d, t), t) = sun
  <2>1. r.ele = d
    BY DEF OneDay
  <2> QED BY <1>1, <1>3, <2>1 DEF SunInView
<1>5. t \in Int /\ Midnight(d) \in Int /\ c.end \in Int \cup {None}
  BY TimesInt, Hours
<1>6. Open(c, d, t) <=> ~closed /\ InStarted(c, d, t)
  <2>1. c.end # None => WindowEnd(c, d) \in Int
    BY <1>5 DEF WindowEnd, At
  <2> QED BY <1>5, <2>1 DEF Open, Closed, InStarted
<1>7. /\ ~(closed /\ (sun \/ ~c.returns)) /\ ~(closed /\ morning /\ ~c.morning)
      /\ ~(started /\ before)
  BY DEF Differs
<1>8. PastEnd(c, d, t) <=> closed
  BY <1>7 DEF PastEnd, Closed
<1>9. ASSUME NEW e \in BOOLEAN PROVE default(FALSE, e) = default(started, e)
  BY <1>7 DEF ForecastDefault
<1>10. CASE morning
  <2>1. Sample(c, r, t) = [t |-> t, handler |-> "morning",
                             pos |-> MorningPosition(c, default(FALSE, FALSE))]
    BY <1>1, <1>2, <1>10 DEF Sample
  <2>2. Live(c, d, t) = [handler |-> "morning",
                           pos |-> MorningPosition(c, LiveDefault(c, d, t))]
    BY <1>10 DEF Live
  <2>3. MorningPosition(c, default(FALSE, FALSE)) = MorningPosition(c, LiveDefault(c, d, t))
    <3>1. CASE c.morning
      BY <3>1 DEF MorningPosition
    <3>2. CASE ~c.morning
      <4>1. closed = FALSE
        BY <1>7, <1>10, <3>2 DEF Closed
      <4>2. LiveDefault(c, d, t) = default(started, FALSE)
        BY <4>1 DEF LiveDefault
      <4>3. default(FALSE, FALSE) = default(started, FALSE)
        BY <1>9
      <4> QED BY <4>2, <4>3
    <3> QED BY <3>1, <3>2
  <2>4. Sample(c, r, t) = [t |-> t, handler |-> "morning",
                             pos |-> MorningPosition(c, LiveDefault(c, d, t))]
    BY <2>1, <2>3, Zenon
  <2> HIDE DEF default, d
  <2> QED BY <2>2, <2>4 DEF d
<1>11. CASE ~morning /\ Open(c, d, t) /\ sun
  <2>1. Sample(c, r, t) = [t |-> t, handler |-> "solar", pos |-> <<"solar", "limited">>]
    <3>1. /\ ~MorningActive(c, r.alm, At(r.alm, c.start), t)
          /\ InStarted(c, r.alm, t) /\ DirectSun(r.azi, r.ele, r.alm, Nearest(r.times, t), t)
      BY <1>1, <1>2, <1>4, <1>6, <1>11
    <3> QED BY <3>1 DEF Sample
  <2>2. Live(c, d, t) = [handler |-> "solar", pos |-> <<"solar", "limited">>]
    BY <1>11 DEF Live
  <2> QED BY <2>1, <2>2
<1>12. CASE ~morning /\ ~(Open(c, d, t) /\ sun)
  <2>1. Sample(c, r, t) = [t |-> t, handler |-> "default",
                             pos |-> ForecastDefault(c, r.alm, t, FALSE, PastEnd(c, r.alm, t))]
    <3>1. /\ ~MorningActive(c, r.alm, At(r.alm, c.start), t)
          /\ ~(InStarted(c, r.alm, t) /\ DirectSun(r.azi, r.ele, r.alm, Nearest(r.times, t), t))
      BY <1>1, <1>2, <1>4, <1>6, <1>7, <1>12
    <3> QED BY <3>1 DEF Sample
  <2>2. Live(c, d, t) = [handler |-> "default", pos |-> default(started, closed)]
    BY <1>12 DEF Live, LiveDefault
  <2>3. PastEnd(c, r.alm, t) = closed /\ closed \in BOOLEAN
    <3>1. PastEnd(c, d, t) \in BOOLEAN /\ closed \in BOOLEAN
      BY DEF PastEnd, Closed
    <3> QED BY <1>1, <1>8, <3>1
  <2>4. default(FALSE, closed) = default(started, closed)
    BY <1>9, <2>3
  <2>5. ForecastDefault(c, r.alm, t, FALSE, PastEnd(c, r.alm, t)) = default(FALSE, closed)
    BY <1>1, <2>3
  <2>6. Sample(c, r, t) = [t |-> t, handler |-> "default", pos |-> default(started, closed)]
    BY <2>1, <2>4, <2>5, Zenon
  <2> HIDE DEF default, closed
  <2> QED BY <2>2, <2>6
<1> QED BY <1>10, <1>11, <1>12

(* Where no published strip is known to differ, it names what the cover is  *)
(* commanded to (forecast.py, build_forecast).                              *)
THEOREM StripAlwaysFollows == ForecastSpec => StripFollowsLive
<1>1. ForecastInit => ShownInv /\ config \in Configs
  BY DayInit DEF ShownInv, ShownSound, ForecastInit
<1>2. ShownInv /\ config \in Configs /\ [ForecastNext]_forecastVars => (ShownInv /\ config \in Configs)'
  <2>1. ASSUME [ForecastNext]_forecastVars PROVE config' = config
    <3>1. CASE ClockTicks \/ UNCHANGED forecastVars
      BY <3>1 DEF ClockTicks, forecastVars
    <3>2. ASSUME NEW j \in Jobs, Recompute(j) \/ Look(j) \/ Key(j) \/ Fill(j)
                                 \/ Publish(j) \/ Fail(j)
          PROVE  config' = config
      BY <3>2, Zenon DEF Recompute, Look, Key, Fill, Publish, Fail
    <3> QED BY <2>1, <3>1, <3>2 DEF ForecastNext
  <2> QED BY <2>1, ShownStep
<1>3. ShownInv /\ config \in Configs /\ [ForecastNext]_forecastVars =>
        [shown' # None /\ OneDay(shown'.read)
           => Follows(shown'.read.times, shown'.samples)]_shown
  <2>1. SUFFICES ASSUME ShownInv, config \in Configs, NEW j \in Jobs, Publish(j),
                        OneDay(shown'.read)
                 PROVE  Follows(shown'.read.times, shown'.samples)
    BY StripSteps
  <2>2. PICK r \in Reading : shown' = Strip(config, r)
    BY <2>1, PublishShows DEF ShownInv
  <2>3. shown'.read = r /\ shown'.samples = [t \in Times(r) |-> Sample(config, r, t)]
    BY <2>2 DEF Strip, Samples
  <2>4. ASSUME NEW t \in Times(r), ~Differs(config, r.times, t)
        PROVE  [handler |-> shown'.samples[t].handler, pos |-> shown'.samples[t].pos]
                 = Live(config, r.times, t)
    <3>1. [handler |-> Sample(config, r, t).handler, pos |-> Sample(config, r, t).pos]
            = Live(config, r.times, t)
      BY <2>1, <2>3, <2>4, SampleIsLive
    <3>2. shown'.samples[t] = Sample(config, r, t)
      BY <2>3
    <3> QED BY <3>1, <3>2
  <2>5. DOMAIN shown'.samples = Times(r)
    BY <2>3
  <2> QED BY <2>3, <2>4, <2>5 DEF Follows
<1> QED BY <1>1, <1>2, <1>3, PTL DEF ForecastSpec, StripFollowsLive

-----------------------------------------------------------------------------
(* The events that frame the tracking.                                      *)

LEMMA SolarInView ==
  ASSUME NEW r \in Reading, OneDay(r), NEW c, NEW t \in Times(r),
         Sample(c, r, t).handler = "solar"
  PROVE  SunInView(r.times, t)
<1>1. DirectSun(r.azi, r.ele, r.alm, Nearest(r.times, t), t)
  BY DEF Sample
<1>2. r.azi = r.times /\ r.ele = r.times /\ r.alm = r.times
  BY DEF OneDay
<1> QED BY <1>1, <1>2, NearestOwn DEF SunInView

(* On one day, the points searched for a crossing are those from one sample *)
(* to the next, and they are compared with the sun in view.                 *)
LEMMA FoundOneDay ==
  ASSUME NEW r \in Reading, OneDay(r), NEW valid,
         NEW t \in Times(r), Before(t) \in Times(r)
  PROVE  Found(r, t, valid) =
           {i \in (Before(t) - Midnight(r.times))..(t - Midnight(r.times))
              : SunInView(r.times, Midnight(r.times) + i) = valid}
<1> DEFINE d == r.times
           low == Before(t) - Midnight(d)
           high == t - Midnight(d)
<1>1. r.again = d /\ r.alm = d
  BY DEF OneDay
<1>2. Nearest(d, t) = high /\ Nearest(d, Before(t)) = low
  BY NearestOwn
<1>3. Midnight(d) \in Int /\ low \in Int /\ high \in Int
  BY TimesInt
<1>4. Found(r, t, valid) = {i \in low..high : Matches(r, i, valid)}
  BY <1>1, <1>2 DEF Found
<1>5. ASSUME NEW i \in Int PROVE Matches(r, i, valid) = (SunInView(d, Midnight(d) + i) = valid)
  <2>1. PICK x \in Int : x = Midnight(d) + i
    BY <1>3
  <2>2. PICK k : k = x - Midnight(d)
    OBVIOUS
  <2>3. k = i
    BY <1>3, <2>1, <2>2
  <2>4. SunInView(d, x) = DirectSun(d, d, d, k, x)
    BY <2>2, Zenon DEF SunInView
  <2>5. SunInView(d, Midnight(d) + i) = DirectSun(d, d, d, i, Midnight(d) + i)
    BY <2>1, <2>3, <2>4
  <2>6. Matches(r, i, valid) = (DirectSun(d, d, d, i, Midnight(d) + i) = valid)
    BY <1>1, Zenon DEF Matches
  <2> QED BY <2>5, <2>6, Zenon
<1>6. \A i \in low..high : i \in Int
  BY <1>3
<1> HIDE DEF low, high, d
<1>7. {i \in low..high : Matches(r, i, valid)}
        = {i \in low..high : SunInView(d, Midnight(d) + i) = valid}
  BY <1>5, <1>6
<1> QED BY <1>4, <1>7 DEF low, high, d

(* An enter event lies between its two samples, at the first point with the *)
(* sun in view.                                                             *)
LEMMA EnterFound ==
  ASSUME NEW r \in Reading, OneDay(r), NEW c,
         NEW t \in Times(r), Before(t) \in Times(r), Sample(c, r, t).handler = "solar"
  PROVE  LET e == Crossing(r, t, TRUE)
         IN  /\ e \in Before(t)..t /\ SunInView(r.times, e)
             /\ \A before \in Before(t)..(e - 1) : ~SunInView(r.times, before)
<1> DEFINE d == r.times
           m == Midnight(d)
           e == Crossing(r, t, TRUE)
           b == Before(t)
           found == Found(r, t, TRUE)
           sun(x) == SunInView(d, x)
<1>1. /\ m \in Int /\ t \in Int /\ b \in Int /\ b <= t
  BY TimesInt, AssumedNumbers DEF Before
<1>2. sun(t)
  BY SolarInView
<1>3. found = {i \in (b - m)..(t - m) : sun(m + i) = TRUE}
  BY FoundOneDay
<1>4. r.again = d
  BY DEF OneDay
<1>5. \A x : sun(x) \in BOOLEAN
  BY DEF SunInView, DirectSun
<1>6. found # {} =>
        \E i \in found : e = m + i /\ \A k \in found : i <= k
  BY <1>4, CrossingFound
<1> HIDE DEF m, e, b, found, sun, d
<1>7. t - m \in found
  <2>1. m + (t - m) = t /\ t - m \in (b - m)..(t - m)
    BY <1>1
  <2> QED BY <1>2, <1>3, <2>1, <1>5
<1>8. PICK i \in found : e = m + i /\ \A k \in found : i <= k
  BY <1>6, <1>7
<1>9. i \in (b - m)..(t - m) /\ sun(m + i)
  BY <1>3, <1>5, <1>8
<1>10. e \in b..t /\ sun(e)
  BY <1>1, <1>8, <1>9
<1>11. ASSUME NEW x \in b..(e - 1) PROVE ~sun(x)
  <2>1. x - m \in (b - m)..(t - m) /\ m + (x - m) = x /\ x - m < i
    BY <1>1, <1>8, <1>9
  <2>2. x - m \notin found
    BY <1>8, <1>9, <2>1, <1>1
  <2> QED BY <1>3, <1>5, <2>1, <2>2
<1> QED BY <1>10, <1>11 DEF e, b, sun, d

(* An exit event lies after the last sample with the sun in view.           *)
LEMMA ExitFound ==
  ASSUME NEW r \in Reading, OneDay(r), NEW c,
         NEW t \in Times(r), Before(t) \in Times(r),
         Sample(c, r, Before(t)).handler = "solar"
  PROVE  Crossing(r, t, FALSE) \in (Before(t) + 1)..t
<1> DEFINE d == r.times
           m == Midnight(d)
           e == Crossing(r, t, FALSE)
           b == Before(t)
           found == Found(r, t, FALSE)
           sun(x) == SunInView(d, x)
<1>1. /\ m \in Int /\ t \in Int /\ b \in Int /\ b + 1 <= t
  BY TimesInt, AssumedNumbers DEF Before
<1>2. sun(b)
  BY SolarInView
<1>3. found = {i \in (b - m)..(t - m) : sun(m + i) = FALSE}
  BY FoundOneDay
<1>4. r.again = d
  BY DEF OneDay
<1>5. /\ found = {} => e = t
      /\ found # {} => \E i \in found : e = m + i
  BY <1>4, CrossingFound
<1> HIDE DEF m, e, b, found, sun, d
<1>6. ASSUME found = {} PROVE e \in (b + 1)..t
  BY <1>1, <1>5, <1>6
<1>7. ASSUME found # {} PROVE e \in (b + 1)..t
  <2>1. PICK i \in found : e = m + i
    BY <1>5, <1>7
  <2>2. i \in (b - m)..(t - m) /\ ~sun(m + i)
    BY <1>3, <2>1
  <2>3. i # b - m
    <3>1. m + (b - m) = b
      BY <1>1
    <3> QED BY <1>2, <2>2, <3>1
  <2> QED BY <1>1, <2>1, <2>2, <2>3
<1>8. e \in (b + 1)..t
  BY <1>6, <1>7
<1> QED BY <1>8 DEF e, b

(* Samples lie a whole number of steps apart.                               *)
LEMMA StepsApart ==
  ASSUME NEW r \in Reading, NEW t \in Times(r), NEW u \in Times(r), t < u
  PROVE  t <= Before(u)
<1> DEFINE m == Midnight(r.times)
<1>1. m \in Int /\ Grid \in Nat \ {0} /\ Step \in Nat \ {0}
  BY TimesInt, AssumedNumbers
<1>2. PICK i \in {k \in 0..Grid : k % Step = 0} : t = m + i
  BY DEF Times
<1>3. PICK k \in {k \in 0..Grid : k % Step = 0} : u = m + k
  BY DEF Times
<1> DEFINE p == i \div Step
           q == k \div Step
<1>4. i \in Nat /\ k \in Nat /\ (i % Step) = 0 /\ (k % Step) = 0 /\ i < k
  BY <1>1, <1>2, <1>3
<1>5. p \in Nat /\ i = Step * p /\ q \in Nat /\ k = Step * q
  BY <1>1, <1>4
<1> HIDE DEF p, q
<1>6. ASSUME q <= p PROVE FALSE
  <2>1. Step * q <= Step * p
    BY <1>1, <1>5, <1>6
  <2> QED BY <1>4, <1>5, <2>1
<1>7. q >= p + 1
  BY <1>5, <1>6
<1>8. Step * q >= Step * (p + 1) /\ Step * (p + 1) = Step * p + Step
  BY <1>1, <1>5, <1>7
<1>9. k >= i + Step
  BY <1>5, <1>8
<1> HIDE DEF m
<1> QED BY <1>1, <1>2, <1>3, <1>4, <1>9 DEF Before, m

(* Each stretch of tracking begins with an enter event of its own.          *)
Enters(c, r) == {t \in Changes(c, r) : Sample(c, r, t).handler = "solar"}

LEMMA EntersType ==
  ASSUME NEW c, NEW r, NEW t
  PROVE  t \in Enters(c, r) <=>
           /\ t \in Times(r) /\ Before(t) \in Times(r)
           /\ Sample(c, r, t).handler = "solar" /\ Sample(c, r, Before(t)).handler # "solar"
<1>1. ASSUME t \in Times(r), Before(t) \in Times(r)
      PROVE  /\ Samples(c, r)[t] = Sample(c, r, t)
             /\ Samples(c, r)[Before(t)] = Sample(c, r, Before(t))
  BY <1>1 DEF Samples
<1>2. t \in Changes(c, r) <=>
        /\ t \in Times(r) /\ Before(t) \in Times(r)
        /\ Samples(c, r)[t].handler # Samples(c, r)[Before(t)].handler
  BY DEF Changes
<1> QED BY <1>1, <1>2 DEF Enters

LEMMA CrossingsDiffer ==
  ASSUME NEW r \in Reading, OneDay(r), NEW c,
         NEW t \in Enters(c, r), NEW u \in Enters(c, r), t < u
  PROVE  Crossing(r, t, TRUE) < Crossing(r, u, TRUE)
<1>1. /\ t \in Times(r) /\ Before(t) \in Times(r) /\ Sample(c, r, t).handler = "solar"
      /\ u \in Times(r) /\ Before(u) \in Times(r) /\ Sample(c, r, u).handler = "solar"
      /\ Sample(c, r, Before(u)).handler # "solar"
  BY EntersType
<1>2. t <= Before(u) /\ t # Before(u)
  BY <1>1, StepsApart
<1>3. Crossing(r, t, TRUE) \in Before(t)..t /\ Crossing(r, u, TRUE) \in Before(u)..u
  BY <1>1, EnterFound
<1>4. /\ t \in Int /\ u \in Int /\ Before(t) \in Int /\ Before(u) \in Int
      /\ Crossing(r, t, TRUE) \in Int /\ Crossing(r, u, TRUE) \in Int
  BY <1>1, TimesInt, CrossingInt
<1> DEFINE e == Crossing(r, t, TRUE)
           g == Crossing(r, u, TRUE)
<1> HIDE DEF e, g
<1>5. e \in Before(t)..t /\ g \in Before(u)..u /\ e \in Int /\ g \in Int
  BY <1>3, <1>4 DEF e, g
<1>6. e < g
  BY <1>2, <1>4, <1>5
<1> QED BY <1>6 DEF e, g

Enter(r, t) == [t |-> Crossing(r, t, TRUE), kind |-> "enter"]
Exit(r, t)  == [t |-> Crossing(r, t, FALSE), kind |-> "exit"]

LEMMA TransitionsOf ==
  ASSUME NEW c, NEW r
  PROVE  Transitions(c, r) = {Enter(r, t) : t \in Enters(c, r)}
                                 \cup {Exit(r, t) : t \in Changes(c, r) \ Enters(c, r)}
<1> DEFINE solar(t) == Sample(c, r, t).handler = "solar"
           event(t) == [t |-> Crossing(r, t, solar(t)), kind |-> IF solar(t) THEN "enter" ELSE "exit"]
<1>1. Transitions(c, r) = {event(t) : t \in Changes(c, r)}
  BY DEF Transitions
<1>2. ASSUME NEW t, solar(t) PROVE event(t) = Enter(r, t)
  <2>1. solar(t) = TRUE
    BY <1>2
  <2>2. Crossing(r, t, solar(t)) = Crossing(r, t, TRUE)
    BY <2>1, Zenon
  <2>3. (IF solar(t) THEN "enter" ELSE "exit") = "enter"
    BY <1>2
  <2> HIDE DEF solar
  <2> QED BY <2>2, <2>3, Zenon DEF Enter
<1>3. ASSUME NEW t, ~solar(t) PROVE event(t) = Exit(r, t)
  <2>1. solar(t) = FALSE
    BY <1>3
  <2>2. Crossing(r, t, solar(t)) = Crossing(r, t, FALSE)
    BY <2>1, Zenon
  <2>3. (IF solar(t) THEN "enter" ELSE "exit") = "exit"
    BY <1>3
  <2> HIDE DEF solar
  <2> QED BY <2>2, <2>3, Zenon DEF Exit
<1>4. Enters(c, r) = {t \in Changes(c, r) : solar(t)}
  BY DEF Enters
<1> HIDE DEF solar, event
<1> QED BY <1>1, <1>2, <1>3, <1>4

(* The enter events of a strip are as many as its stretches of tracking.    *)
LEMMA EntersCounted ==
  ASSUME NEW r \in Reading, OneDay(r), NEW c
  PROVE  Cardinality({e \in Events(c, r) : e.kind = "enter"}) = Cardinality(Enters(c, r))
<1> DEFINE S == Enters(c, r)
           T == {e \in Events(c, r) : e.kind = "enter"}
           f == [t \in S |-> Enter(r, t)]
<1>1. \A e \in Almanac(r.alm) : e.kind # "enter"
  BY DEF Almanac
<1>2. \A t : Enter(r, t).kind = "enter" /\ Exit(r, t).kind # "enter"
  BY DEF Enter, Exit
<1>3. T = {Enter(r, t) : t \in S}
  <2>1. Events(c, r) = Almanac(r.alm) \cup Transitions(c, r)
    BY DEF Events
  <2> QED BY <1>1, <1>2, <2>1, TransitionsOf
<1>4. IsFiniteSet(S)
  <2> DEFINE m == Midnight(r.times)
  <2>1. m \in Int /\ Grid \in Nat
    <3>1. Grid \in Nat
      BY AssumedNumbers
    <3> QED BY <3>1 DEF Midnight, Reading
  <2>2. \A t \in S : t \in Times(r)
    BY EntersType
  <2>3. S \in SUBSET (m..(m + Grid))
    BY <2>1, <2>2 DEF Times
  <2> HIDE DEF m
  <2>4. IsFiniteSet(m..(m + Grid))
    BY <2>1, FS_Interval
  <2> QED BY <2>3, <2>4, FS_Subset
<1>5. \A t \in S : t \in Int
  BY EntersType, TimesInt
<1>6. ASSUME NEW t \in S, NEW u \in S, f[t] = f[u] PROVE t = u
  <2>1. Enter(r, t) = Enter(r, u)
    BY <1>6
  <2>2. Crossing(r, t, TRUE) = Crossing(r, u, TRUE)
    BY <2>1, Zenon DEF Enter
  <2>3. t \in Times(r) /\ u \in Times(r)
    BY EntersType
  <2> DEFINE e == Crossing(r, t, TRUE)
             g == Crossing(r, u, TRUE)
  <2>4. (t < u => e < g) /\ (u < t => g < e)
    BY CrossingsDiffer
  <2>5. e \in Int /\ g \in Int /\ e = g
    BY <2>2, <2>3, CrossingInt
  <2> HIDE DEF e, g
  <2> QED BY <1>5, <2>4, <2>5
<1> HIDE DEF S, T
<1>7. f \in [S -> T] /\ \A e \in T : \E t \in S : f[t] = e
  BY <1>3
<1>8. f \in Bijection(S, T)
  <2>1. \A t, u \in S : f[t] = f[u] => t = u
    BY <1>6
  <2> HIDE DEF f
  <2> QED BY <1>7, <2>1, Fun_IsBij
<1>9. ExistsBijection(S, T)
  BY <1>8, Fun_ExistsBij
<1>10. Cardinality(T) = Cardinality(S)
  BY <1>4, <1>9, FS_Bijection
<1> QED BY <1>10 DEF S, T

LEMMA StripFramed ==
  ASSUME NEW r \in Reading, OneDay(r), NEW c
  PROVE  Framed(r.times, Samples(c, r), Events(c, r))
<1> DEFINE d == r.times
           s == Samples(c, r)
           events == Events(c, r)
           of(kind, t) == {e.t : e \in {x \in events : x.kind = kind /\ x.t \in Before(t)..t}}
           changes == {t \in DOMAIN s : Before(t) \in DOMAIN s
                                        /\ s[t].handler # s[Before(t)].handler}
           enters == {t \in changes : s[t].handler = "solar"}
           exits  == {t \in changes : s[Before(t)].handler = "solar"}
<1>1. DOMAIN s = Times(r) /\ \A t \in Times(r) : s[t] = Sample(c, r, t)
  BY DEF Samples
<1>2. changes = Changes(c, r)
  BY <1>1 DEF Changes
<1>3. enters = Enters(c, r)
  <2>1. \A t \in changes : s[t] = Sample(c, r, t)
    BY <1>1
  <2> QED BY <1>2, <2>1 DEF Enters
<1>4. exits \subseteq Changes(c, r) \ Enters(c, r)
  <2>1. ASSUME NEW t \in exits PROVE t \in Changes(c, r) \ Enters(c, r)
    <3>1. t \in changes /\ s[t].handler # "solar"
      OBVIOUS
    <3>2. s[t] = Sample(c, r, t)
      BY <1>1
    <3> QED BY <1>2, <3>1, <3>2 DEF Enters
  <2> QED BY <2>1
<1>5. \A e \in Transitions(c, r) : e \in events
  BY DEF Events
<1>6. ASSUME NEW t \in enters
      PROVE  \E e \in of("enter", t) : /\ SunInView(d, e)
                                      /\ \A before \in Before(t)..(e - 1) : ~SunInView(d, before)
  <2>1. t \in Enters(c, r)
    BY <1>3
  <2>2. /\ t \in Times(r) /\ Before(t) \in Times(r)
        /\ Sample(c, r, t).handler = "solar"
    BY <2>1, EntersType
  <2> DEFINE e == Crossing(r, t, TRUE)
  <2>3. /\ e \in Before(t)..t /\ SunInView(d, e)
        /\ \A before \in Before(t)..(e - 1) : ~SunInView(d, before)
    BY <2>2, EnterFound
  <2>4. Enter(r, t) \in events
    BY <1>5, <2>1, TransitionsOf
  <2>5. Enter(r, t) = [t |-> e, kind |-> "enter"]
    BY Zenon DEF Enter
  <2> HIDE DEF e, events
  <2>6. e \in of("enter", t)
    <3>1. Enter(r, t).t = e /\ Enter(r, t).kind = "enter"
      BY <2>5
    <3> QED BY <2>3, <2>4, <3>1
  <2> QED BY <2>3, <2>6
<1>7. ASSUME NEW t \in exits PROVE \E e \in of("exit", t) : e > Before(t)
  <2>1. t \in Changes(c, r) \ Enters(c, r)
    BY <1>4
  <2>2. /\ t \in Times(r) /\ Before(t) \in Times(r)
        /\ Sample(c, r, Before(t)).handler = "solar"
    <3>1. t \in DOMAIN s /\ Before(t) \in DOMAIN s /\ s[Before(t)].handler = "solar"
      OBVIOUS
    <3> QED BY <1>1, <3>1
  <2> DEFINE e == Crossing(r, t, FALSE)
  <2>3. e \in (Before(t) + 1)..t
    BY <2>2, ExitFound
  <2>4. Exit(r, t) \in events
    BY <1>5, <2>1, TransitionsOf
  <2>5. Exit(r, t) = [t |-> e, kind |-> "exit"]
    BY Zenon DEF Exit
  <2>6. t \in Int /\ Before(t) \in Int
    BY <2>2, TimesInt
  <2> HIDE DEF e, events
  <2>7. e \in Before(t)..t /\ e > Before(t)
    BY <2>3, <2>6
  <2>8. e \in of("exit", t)
    <3>1. Exit(r, t).t = e /\ Exit(r, t).kind = "exit"
      BY <2>5
    <3> QED BY <2>4, <2>7, <3>1
  <2> QED BY <2>7, <2>8
<1>8. Cardinality({e \in events : e.kind = "enter"}) = Cardinality(enters)
  BY <1>3, EntersCounted
<1> HIDE DEF of, enters, exits
<1>9. Framed(d, s, events) <=>
        /\ \A t \in enters : \E e \in of("enter", t) :
             SunInView(d, e) /\ \A before \in Before(t)..(e - 1) : ~SunInView(d, before)
        /\ \A t \in exits : \E e \in of("exit", t) : e > Before(t)
        /\ Cardinality({e \in events : e.kind = "enter"}) = Cardinality(enters)
  BY DEF Framed, of, enters, exits
<1> QED BY <1>6, <1>7, <1>8, <1>9

(* Every stretch of tracking of a published strip is framed by its own      *)
(* enter and exit events, on the finer grid (forecast.py,                   *)
(* _refine_fov_crossing).                                                   *)
THEOREM EventsAlwaysFrame == ForecastSpec => EventsFrameSolar
<1>1. ShownInv /\ [ForecastNext]_forecastVars =>
        [shown' # None /\ OneDay(shown'.read)
           => Framed(shown'.read.times, shown'.samples, shown'.events)]_shown
  <2>1. SUFFICES ASSUME ShownInv, NEW j \in Jobs, Publish(j), OneDay(shown'.read)
                 PROVE  Framed(shown'.read.times, shown'.samples, shown'.events)
    BY StripSteps
  <2>2. PICK r \in Reading : shown' = Strip(config, r)
    BY <2>1, PublishShows DEF ShownInv
  <2>3. shown'.read = r /\ shown'.samples = Samples(config, r)
        /\ shown'.events = Events(config, r)
    BY <2>2 DEF Strip
  <2>4. Framed(r.times, Samples(config, r), Events(config, r))
    BY <2>1, <2>3, StripFramed
  <2> QED BY <2>3, <2>4
<1> QED BY <1>1, ShownKept, PTL DEF ForecastSpec, EventsFrameSolar
=============================================================================
