------------------------------ MODULE Window ------------------------------
(***************************************************************************)
(* The operating window and the night position: the clock window and the   *)
(* daytime gate (managers/time_window.py over                              *)
(* managers/common/graceful_source.py), the default that is in effect      *)
(* (helpers.py, compute_effective_default), the once-a-minute check of     *)
(* both edges (coordinator.py, _check_time_window_transition, and          *)
(* state/window_transition_tracker.py) and the wake that ends a hold.      *)
(*                                                                         *)
(* One cover.  A day is Day ticks, repeated; the minute check runs once    *)
(* per tick, in two steps because it awaits a cycle in between.            *)
(***************************************************************************)
EXTENDS Integers

CONSTANTS
  Day,        \* ticks in a day
  Start,      \* configured start, 0 for BLANK_TIME
  End,        \* configured end, Day for midnight
  Sunrise,    \* astral bounds of the day, their offsets applied
  Sunset,
  Grace,      \* DEFAULT_DAYTIME_GATE_GRACE_SECONDS, in ticks
  Spacing,    \* time_threshold, in ticks
  Gate,       \* a daytime gate is configured
  Track,      \* CONF_RETURN_SUNSET
  Night,      \* CONF_SUNSET_POS is set
  Evening,    \* CONF_END_OF_WINDOW_POS is set
  Env         \* the events of the instance

ASSUME Phases  == /\ Day \in Nat \ {0} /\ Start \in 0..Day-1 /\ End \in 1..Day
                  /\ Sunrise \in 0..Day /\ Sunset \in 0..Day
ASSUME Delays  == Grace \in Nat \ {0} /\ Spacing \in Nat
ASSUME Toggles == {Gate, Track, Night, Evening} \subseteq BOOLEAN
ASSUME EnvKind == Env \subseteq {"gate", "clock", "hand", "auto", "edit", "restart"}

VARIABLES
  phase,     \* the time of day
  verdict,   \* what the gate's sensors and template say together
  lost,      \* the start and end entities that report no time
  hold,      \* GracefulSource: the last verdict, and for how long without one
  wake,      \* ticks until _on_gate_fallback_due, or Off
  opened,    \* _last_time_window_state
  dark,      \* _prev_sunset_active
  auto,      \* the automatic control switch
  manual,    \* the cover is under a manual override
  flags,     \* state_change, first_refresh, and whether the gate was edited
  pending,   \* a cycle has been asked for
  minute,    \* how far this tick's check has come
  cover,     \* the cover's position, its target, and ticks since it moved
  used,      \* ghost: the gate the latest cycle went by
  silent,    \* ghost: ticks the gate has had no verdict
  excused,   \* ghost: the night position may be missing, as NightReached says
  unseen,    \* ghost: tracked the sun in a window no check has seen open
  checked    \* ghost: nothing but cycles has happened since the check

vars == <<phase, verdict, lost, hold, wake, opened, dark, auto, manual, flags,
          pending, minute, cover, used, silent, excused, unseen, checked>>

-----------------------------------------------------------------------------

Verdicts  == {"day", "dark", "none"}
Seen      == {"none", "yes", "no"}
Positions == {"day", "default", "evening", "night", "hand", "none"}
Off       == Grace + 1
Yes(b)    == IF b THEN "yes" ELSE "no"
Younger(n, limit) == IF n < limit THEN n + 1 ELSE n

NeverSeen == [known |-> "none", age |-> Off]

(* GracefulSource.observe: a verdict is remembered and ends a hold; its    *)
(* absence starts one, unless nothing was ever seen.                       *)
Observe(h) ==
  IF ~Gate \/ (verdict = "none" /\ h.known = "none") THEN h
  ELSE IF verdict # "none" THEN [known |-> verdict, age |-> Off]
  ELSE [h EXCEPT !.age = IF @ = Off THEN 0 ELSE @]

(* mutant: the last verdict holds for good *)
GateNeverFallsBack(h) == IF Gate THEN Observe(h).known ELSE "none"

(* effective_daytime_gate: "none" is the fallback to the astral bounds.    *)
GateOf(h) ==
  LET o == Observe(h)
  IN  IF Gate /\ (verdict # "none" \/ o.age < Grace) THEN o.known ELSE "none"

(* seconds_until_gate_fallback.                                            *)
Remaining(h) == IF h.known = "none" \/ h.age >= Grace THEN Off ELSE Grace - h.age

(* The clock window.  A lost entity leaves its side open; only a start     *)
(* that is configured and has passed counts as an explicit one.            *)
BeforeEnd       == "end" \in lost \/ phase < End
StartHasPassed  == Start # 0 /\ "start" \notin lost /\ phase >= Start
AfterStart      == Start = 0 \/ "start" \in lost \/ phase >= Start
ClockOpen       == BeforeEnd /\ AfterStart
IsActive(h)     == ClockOpen /\ GateOf(h) # "dark"

(* compute_effective_default: the position and whether it counts as        *)
(* sunset.                                                                 *)
AfterSunset == phase > Sunset
AstralNight == AfterSunset \/ (phase < Sunrise /\ ~StartHasPassed)
HoldsEvening == Evening /\ ~BeforeEnd
EffectiveDefault(h) ==
  LET gate == GateOf(h)
      dusk == gate = "none" /\ ~AfterSunset
      at(p, s) == [pos |-> p, sunset |-> s]
  IN  IF HoldsEvening /\ (~Night \/ dusk)                  THEN at("evening", TRUE)
      ELSE IF Night /\ (gate = "dark" \/ (gate = "none" /\ AstralNight))
                                                           THEN at("night", TRUE)
      ELSE at("default", FALSE)

(* apply_position without force: the automatic-control, same-position,     *)
(* time and manual gates.                                                  *)
Refused(p)  == ~auto \/ manual \/ (cover.pos # p /\ cover.still < Spacing)
Apply(c, p) == IF Refused(p) \/ c.pos = p THEN c
               ELSE [pos |-> p, target |-> p, still |-> 0]
(* The cover leaves the night position before a check has seen the night   *)
(* end; if it falls again before the next one, no check sees an edge.      *)
DawnUnseen == dark = "yes" /\ cover' # cover /\ cover'.pos # "night"

ForgetTarget(c) == [c EXCEPT !.target = "none"]

-----------------------------------------------------------------------------
Started == /\ hold = NeverSeen /\ wake = Off
           /\ opened = "none" /\ dark = "none"
           /\ manual = FALSE
           /\ flags = [change |-> FALSE, first |-> TRUE, edited |-> FALSE]
           /\ pending = TRUE /\ minute = "done"
           /\ used = "none" /\ excused = FALSE /\ unseen = FALSE /\ checked = FALSE

Init ==
  /\ phase \in 0..Day-1
  /\ verdict = "none" /\ lost = {} /\ silent = 0
  /\ auto = TRUE
  /\ cover = [pos |-> "default", target |-> "none", still |-> Spacing]
  /\ Started

(* async_check_entity_state_change and the gate template's listener.       *)
Flagged == /\ flags' = [flags EXCEPT !.change = TRUE]
           /\ pending' = TRUE

-----------------------------------------------------------------------------
(* _async_update_data: edited gate options start a new hold; the pipeline  *)
(* tracks the sun inside the window and takes the effective default        *)
(* otherwise; a flagged cycle dispatches inside the clock window, the      *)
(* first one inside the whole window; the wake is armed anew.              *)
Dispatches(h) == \/ flags.change /\ ClockOpen
                 \/ flags.first /\ IsActive(h)
Rearm(h) == Remaining(Observe(h))

Cycle ==
  LET h == IF flags.edited THEN NeverSeen ELSE hold
  IN  /\ pending
      /\ hold' = Observe(h)
      /\ wake' = Rearm(h)
      /\ used' = GateOf(h)
      /\ flags' = [change |-> FALSE, first |-> FALSE, edited |-> FALSE]
      /\ pending' = FALSE
      /\ \E sun \in {FALSE, Sunrise <= phase /\ phase < Sunset} :
           LET p == IF sun /\ IsActive(h) THEN "day" ELSE EffectiveDefault(h).pos
           IN  /\ cover' = IF Dispatches(h) THEN Apply(cover, p) ELSE cover
               /\ excused' = (excused \/ DawnUnseen)
               /\ unseen' = (unseen \/ (Dispatches(h) /\ p = "day" /\ opened # "yes"))
      /\ UNCHANGED <<phase, verdict, lost, opened, dark, auto, manual, minute,
                     silent, checked>>

(* _on_gate_fallback_due.                                                  *)
WakeFires ==
  /\ wake = 0
  /\ wake' = Off /\ pending' = TRUE
  /\ checked' = FALSE
  /\ UNCHANGED <<phase, verdict, lost, hold, opened, dark, auto, manual, flags,
                 minute, cover, used, silent, excused, unseen>>

-----------------------------------------------------------------------------
(* The minute check.                                                       *)

(* check_transition with _on_window_closed and _on_window_open.  The gate  *)
(* is looked at only when the clock window is open, or for the default.    *)
Noticed     == hold' = IF ClockOpen THEN Observe(hold) ELSE hold
Closes      == opened = "yes" /\ ~IsActive(hold)
Opens       == opened = "no" /\ IsActive(hold)
Returned(c) == IF auto THEN Apply(c, EffectiveDefault(hold).pos) ELSE c

ClosedKeepingTarget ==                                    \* mutant: no clearing
  /\ Closes /\ Track
  /\ cover' = Returned(cover)
  /\ hold' = IF auto THEN Observe(hold) ELSE hold
  /\ pending' = (pending \/ auto)
  /\ UNCHANGED flags
OnWindowClosed ==
  /\ Closes /\ Track
  /\ cover' = Returned(ForgetTarget(cover))
  /\ hold' = IF auto THEN Observe(hold) ELSE hold
  /\ pending' = (pending \/ auto)
  /\ UNCHANGED flags
OnWindowOpen == Opens /\ Noticed /\ Flagged /\ UNCHANGED cover

CheckTransition ==
  /\ minute = "due" /\ ~pending
  /\ minute' = "tracker"
  /\ opened' = Yes(IsActive(hold))
  /\ \/ OnWindowClosed
     \/ OnWindowOpen
     \/ /\ ~(Closes /\ Track) /\ ~Opens
        /\ Noticed /\ UNCHANGED <<cover, pending, flags>>
  /\ unseen' = (unseen /\ ~IsActive(hold))
  /\ excused' = (excused \/ DawnUnseen)
  /\ checked' = FALSE
  /\ UNCHANGED <<phase, verdict, lost, wake, dark, auto, manual, used, silent>>

(* check_sunset_window: the edge is remembered, and so spent, before the   *)
(* position is sent, whether the gates let it through or not.              *)
SunsetEdgeReversed == dark = "yes" /\ ~EffectiveDefault(hold).sunset  \* mutant
SunsetEdge == dark = "no" /\ EffectiveDefault(hold).sunset
Excuses == \/ ~auto \/ ~Track \/ ~Night
           \/ /\ EffectiveDefault(hold).sunset
              /\ \/ dark = "none"
                 \/ dark = "no"  /\ Refused("night")
                 \/ dark = "yes" /\ excused
CheckSunset ==
  /\ minute = "tracker" /\ ~pending
  /\ minute' = "done"
  /\ checked' = TRUE
  /\ excused' = Excuses
  /\ IF Track /\ auto /\ Night
       THEN /\ hold' = Observe(hold)
            /\ dark' = Yes(EffectiveDefault(hold).sunset)
            /\ IF SunsetEdge
                 THEN cover' = Apply(cover, "night") /\ pending' = TRUE
                 ELSE UNCHANGED <<cover, pending>>
       ELSE UNCHANGED <<hold, dark, cover, pending>>
  /\ UNCHANGED <<phase, verdict, lost, wake, opened, auto, manual, flags, used, silent,
                 unseen>>

-----------------------------------------------------------------------------
(* The environment.                                                        *)

(* Time passes when the loop has nothing due.                              *)
Quiet == ~pending /\ minute = "done" /\ wake # 0
Tick ==
  /\ Quiet
  /\ phase' = (phase + 1) % Day
  /\ minute' = "due"
  /\ hold' = [hold EXCEPT !.age = IF @ = Off THEN @ ELSE Younger(@, Grace)]
  /\ wake' = IF wake = Off THEN Off ELSE wake - 1
  /\ cover' = [cover EXCEPT !.still = Younger(@, Spacing)]
  /\ silent' = IF verdict = "none" THEN Younger(silent, Grace + 1) ELSE 0
  /\ checked' = FALSE
  /\ UNCHANGED <<verdict, lost, opened, dark, auto, manual, flags, pending, used,
                 excused, unseen>>

Happens(kind) == kind \in Env /\ checked' = FALSE

(* The gate's entities or template change their verdict.                   *)
GateChanges ==
  /\ Happens("gate") /\ Gate
  /\ verdict' \in Verdicts \ {verdict}
  /\ silent' = 0
  /\ Flagged
  /\ UNCHANGED <<phase, lost, hold, wake, opened, dark, auto, manual, minute, cover,
                 used, excused, unseen>>

(* The start or the end entity goes or comes back.                         *)
ClockChanges ==
  /\ Happens("clock")
  /\ \E side \in {"start", "end"} :
       lost' = IF side \in lost THEN lost \ {side} ELSE lost \cup {side}
  /\ Flagged
  /\ UNCHANGED <<phase, verdict, hold, wake, opened, dark, auto, manual, minute, cover,
                 used, silent, excused, unseen>>

(* The user moves the cover: the override drops the target.                *)
Hand ==
  /\ Happens("hand") /\ ~manual
  /\ manual' = TRUE /\ excused' = TRUE
  /\ cover' = [pos |-> "hand", target |-> "none", still |-> 0]
  /\ pending' = TRUE
  /\ UNCHANGED <<phase, verdict, lost, hold, wake, opened, dark, auto, flags, minute,
                 used, silent, unseen>>

(* The override runs out.  Its resend is left to a flagged cycle here.     *)
HandEnds ==
  /\ Happens("hand") /\ manual
  /\ manual' = FALSE /\ excused' = TRUE
  /\ Flagged
  /\ UNCHANGED <<phase, verdict, lost, hold, wake, opened, dark, auto, minute, cover,
                 used, silent, unseen>>

(* The automatic control switch.                                           *)
Switch ==
  /\ Happens("auto")
  /\ auto' = ~auto /\ excused' = TRUE
  /\ flags' = [flags EXCEPT !.change = @ \/ ~auto]
  /\ manual' = (manual /\ ~auto)
  /\ pending' = TRUE
  /\ UNCHANGED <<phase, verdict, lost, hold, wake, opened, dark, minute, cover, used,
                 silent, unseen>>

(* The gate's options are edited; the next cycle hands them over.          *)
Edit ==
  /\ Happens("edit") /\ Gate
  /\ flags' = [flags EXCEPT !.edited = TRUE, !.change = TRUE]
  /\ pending' = TRUE
  /\ UNCHANGED <<phase, verdict, lost, hold, wake, opened, dark, auto, manual, minute,
                 cover, used, silent, excused, unseen>>

(* Home Assistant restarts; the switch restores its state.                 *)
Restart ==
  /\ Happens("restart")
  /\ hold' = NeverSeen /\ wake' = Off
  /\ opened' = "none" /\ dark' = "none"
  /\ manual' = FALSE
  /\ flags' = [change |-> FALSE, first |-> TRUE, edited |-> FALSE]
  /\ pending' = TRUE /\ minute' = "done"
  /\ cover' = ForgetTarget(cover)
  /\ used' = "none" /\ excused' = TRUE /\ unseen' = FALSE
  /\ UNCHANGED <<phase, verdict, lost, auto, silent>>

Works == Cycle \/ WakeFires \/ CheckTransition \/ CheckSunset
Next == \/ Works \/ Tick
        \/ GateChanges \/ ClockChanges \/ Hand \/ HandEnds \/ Switch \/ Edit \/ Restart

Spec == Init /\ [][Next]_vars

-----------------------------------------------------------------------------
(* Properties.                                                             *)

TypeOK ==
  /\ phase \in 0..Day-1
  /\ verdict \in Verdicts /\ lost \subseteq {"start", "end"}
  /\ hold \in [known : Verdicts, age : 0..Off]
  /\ wake \in 0..Off
  /\ opened \in Seen /\ dark \in Seen
  /\ {auto, manual, pending, excused, unseen, checked} \subseteq BOOLEAN
  /\ flags \in [change : BOOLEAN, first : BOOLEAN, edited : BOOLEAN]
  /\ minute \in {"due", "tracker", "done"}
  /\ cover \in [pos : Positions, target : Positions, still : 0..Spacing]
  /\ used \in Verdicts /\ silent \in 0..Grace+1

(* A hold always has what ends it: while the gate is bridged with its last *)
(* verdict a wake is armed or a cycle is coming.                           *)
Holding == hold.known # "none" /\ hold.age < Grace
HoldHasWake == Holding => wake # Off \/ pending

(* No decision goes by a verdict older than the grace period: once the     *)
(* gate has been silent for longer, the latest cycle used the fallback.    *)
SilenceEnds == silent > Grace => used = "none"

(* After the minute check in the dark the cover is at the night position,  *)
(* unless it was moved by hand, automatic control was off, the time gate   *)
(* refused the one command of the edge, or the edge passed unseen.         *)
NightReached ==
  checked /\ EffectiveDefault(hold).sunset /\ ~excused => cover.pos = "night"

(* Once a check has seen the window close, no daytime target is left for   *)
(* reconciliation to send again.  A window that opens and closes between   *)
(* two checks, or before the first one after a start, closes unseen.       *)
DayTargetsCleared ==
  Track /\ checked /\ opened = "no" /\ ~ClockOpen /\ ~unseen => cover.target # "day"

(* The two phases of the end-of-window position: it holds from the end of  *)
(* the window until sunset, when the night position takes over.            *)
EveningHandsOver ==
  Evening /\ Night /\ checked /\ ~BeforeEnd /\ GateOf(hold) = "none"
    => /\ phase < Sunset => cover.pos # "night"
       /\ AfterSunset    => cover.pos # "evening"
=============================================================================
