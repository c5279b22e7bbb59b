--------------------------- MODULE UpdateCycleProofs ---------------------------
(* Proofs about UpdateCycle, for any number of covers, slots, overlapping   *)
(* cycles and events.                                                       *)
EXTENDS UpdateCycle, TLAPS

(* What the waiting cycles took from the map of slots when they began.      *)
Waiting == UNION {tasks[k].prev : k \in {j \in Tasks : tasks[j].at = "priming"}}

(* A slot that is off but still on in the map has a cycle waiting for it.   *)
EdgeAwaited == prevOn \ SlotsOn \subseteq Waiting

(* The loop that is about to clear the flag has let no event pass, except   *)
(* during a detour.                                                         *)
Clears(k) == tasks[k].at = "dispatch" /\ tasks[k].why \in {"state", "released"}
LoopUpToDate == running # "none" /\ Clears(running) /\ unseen => overtaken

(* Until the first cycle of a reloaded coordinator has settled it knows     *)
(* that it was reloaded, and only safety starts its startup loop.           *)
ReloadKnown ==
  reloaded =>
    /\ flags.first \/ flags.restoring => flags.reload
    /\ \A k \in Tasks : tasks[k].why = "startup" => tasks[k].safety

(* While the platforms restore, no startup loop is due or under way.        *)
StartupLater ==
  flags.restoring => ~flags.first /\ \A k \in Tasks : tasks[k].why # "startup"

(* No cycle has popped the latches while a release was owed.                *)
ReadyKnown ==
  /\ flags.ready => offline = {} /\ ~flags.restoring
  /\ offline \subseteq Safety

-----------------------------------------------------------------------------
(* Tasks.                                                                   *)

LEMMA Kinds == /\ Safety \subseteq Slots /\ Floors \subseteq Slots /\ Latched \subseteq Slots
               /\ N \in Nat /\ 1 \in 1..N+1 /\ "none" \notin Tasks /\ MaxEvents \in Nat
  BY SlotKinds, CoverCount, TasksNamed, EventBound

LEMMA IdleType == Idle \in Task /\ Idle.at = "idle" /\ Idle.prev = {} /\ Idle.why = "none"
  BY Kinds DEF Idle, Task, Winners

LEMMA CycleTaskType ==
  ASSUME TypeOK, NEW S \in SUBSET Covers
  PROVE  /\ Cycle(S) \in Task /\ Cycle(S).at = "priming" /\ Cycle(S).prev = prevOn
         /\ Cycle(S).why = "none"
  BY IdleType DEF TypeOK, Cycle, Task

LEMMA DispatchingType ==
  ASSUME NEW t \in Task, NEW goal \in Winners \cup {"default height"},
         NEW why \in {"released", "state", "manual_override_cleared", "manual_reset", "startup"},
         NEW force \in BOOLEAN, NEW safety \in BOOLEAN, NEW targets \in SUBSET Covers
  PROVE  LET d == Dispatching(t, goal, why, force, safety, targets) IN
         /\ d \in Task /\ d.at = "dispatch" /\ d.prev = t.prev
         /\ d.why = why /\ d.safety = safety
  BY Kinds DEF Dispatching, Task

LEMMA AdvancedType ==
  ASSUME TypeOK, NEW k \in Tasks, tasks[k].next \in Covers
  PROVE  /\ Advanced(k) \in Task /\ Advanced(k).at = "dispatch"
         /\ Advanced(k).prev = tasks[k].prev
         /\ Advanced(k).why = tasks[k].why /\ Advanced(k).safety = tasks[k].safety
<1>1. tasks[k] \in Task
  BY DEF TypeOK
<1>2. tasks[k].next + 1 \in 1..N+1
  BY Kinds DEF Covers
<1> QED BY <1>1, <1>2 DEF Advanced, Task

LEMMA GoesType ==
  ASSUME TypeOK, NEW k \in Tasks, NEW t \in Task, Goes(k, t)
  PROVE  /\ tasks' \in [Tasks -> Task] /\ tasks'[k] = t
         /\ \A j \in Tasks \ {k} : tasks'[j] = tasks[j]
  BY DEF Goes, TypeOK

LEMMA StartType ==
  ASSUME TypeOK, NEW k \in Tasks, NEW t \in Task, Start(k, t)
  PROVE  /\ tasks' \in [Tasks -> Task] /\ tasks'[k] = t /\ tasks[k].at = "idle"
         /\ \A j \in Tasks \ {k} : tasks'[j] = tasks[j]
  BY DEF Start, TypeOK

LEMMA WaitingHas ==
  \A s : s \in Waiting <=> \E k \in Tasks : tasks[k].at = "priming" /\ s \in tasks[k].prev
  BY DEF Waiting

(* A waiting cycle that is not started anew goes on waiting.                *)
LEMMA WaitingKept ==
  ASSUME NEW k \in Tasks, tasks[k].at # "priming",
         \A j \in Tasks \ {k} : tasks'[j] = tasks[j]
  PROVE  Waiting \subseteq Waiting'
<1> SUFFICES ASSUME NEW s \in Waiting PROVE s \in Waiting'
  OBVIOUS
<1>1. PICK j \in Tasks : tasks[j].at = "priming" /\ s \in tasks[j].prev
  BY WaitingHas
<1>2. tasks'[j] = tasks[j]
  BY <1>1
<1> QED BY <1>1, <1>2 DEF Waiting

-----------------------------------------------------------------------------
(* The latches.                                                             *)

LEMMA EvaluateType ==
  ASSUME TypeOK
  PROVE  /\ Evaluate \in Latch
         /\ Evaluate.active = {s \in Latched : LatchOn(s)}
         /\ Evaluate.released = (latch.released \ Evaluate.active) \cup (latch.active \ Evaluate.active)
         /\ Evaluate.stored = latch.stored
         /\ Evaluate.due = (latch.due \/ Evaluate.active # latch.active)
         /\ SlotsOn \in SUBSET Slots /\ SlotsOn \cap Latched = Evaluate.active
<1> DEFINE on == {s \in Latched : LatchOn(s)}
<1>1. latch \in Latch /\ world \in World
  BY DEF TypeOK
<1>2. /\ Tabled \in Latch /\ Tabled.active = on
      /\ Tabled.released = (latch.released \ on) \cup (latch.active \ on)
      /\ Tabled.stored = latch.stored /\ Tabled.due = latch.due
  BY <1>1 DEF Tabled, Latch
<1>3. /\ Evaluate \in Latch /\ Evaluate.active = on
      /\ Evaluate.released = (latch.released \ on) \cup (latch.active \ on)
      /\ Evaluate.stored = latch.stored
      /\ Evaluate.due = (latch.due \/ on # latch.active)
  BY <1>1, <1>2 DEF Evaluate, Latch
<1>4. SlotsOn = on \cup (world.on \ Latched)
  BY <1>3 DEF SlotsOn
<1>5. SlotsOn \in SUBSET Slots
  BY <1>1, <1>4, Kinds DEF World
<1> QED BY <1>3, <1>4, <1>5

LEMMA PoppedType ==
  ASSUME NEW l \in Latch
  PROVE  /\ Popped(l) \in Latch /\ Popped(l).active = l.active /\ Popped(l).released = {}
         /\ Popped(l).stored = l.stored /\ Popped(l).due = l.due
  BY DEF Popped, Latch

LEMMA WinnerType == \A on, o : Winner(on, o) \in Winners
  BY DEF Winner, Winners

LEMMA ReleasedType ==
  ASSUME TypeOK, NEW k \in Tasks
  PROVE  \A r \in BOOLEAN : Released(k, SlotsOn, r) \in SUBSET Slots
  BY EvaluateType, Kinds DEF Released, TypeOK, Latch, Task

(* What one evaluation leaves on the next one finds on.                     *)
LEMMA EvaluateStable ==
  ASSUME TypeOK, world' = world, latch' \in {Evaluate, Popped(Evaluate)}
  PROVE  SlotsOn' = SlotsOn
<1>1. latch'.active = Evaluate.active
  BY EvaluateType, PoppedType
<1>2. latch' \in Latch
  BY EvaluateType, PoppedType
<1>3. SlotsOn = {s \in Latched : LatchOn(s)} \cup (world.on \ Latched)
  BY EvaluateType DEF SlotsOn
<1>4. SlotsOn' = {s \in Latched : LatchOn(s)'} \cup (world.on \ Latched)
  <2>1. Tabled'.active = {s \in Latched : LatchOn(s)'}
    BY <1>2 DEF Tabled, Latch
  <2>2. Tabled' \in Latch
    BY <1>2 DEF Tabled, Latch
  <2>3. Evaluate'.active = Tabled'.active
    BY <2>2 DEF Evaluate, Latch
  <2> QED BY <2>1, <2>3 DEF SlotsOn
<1>5. \A s \in Latched : LatchOn(s)' <=> LatchOn(s)
  BY <1>1, EvaluateType DEF LatchOn
<1> QED BY <1>3, <1>4, <1>5

-----------------------------------------------------------------------------
(* What a resumed cycle does, apart from which branch it takes.             *)

LEMMA ComputeTasks ==
  ASSUME TypeOK, NEW k \in Tasks, NEW raised \in BOOLEAN, Compute(k, raised)
  PROVE  /\ tasks' \in [Tasks -> Task] /\ \A j \in Tasks \ {k} : tasks'[j] = tasks[j]
         /\ flags' \in Flags /\ tasks[k].at = "priming"
         /\ tasks'[k].at \in {"settle", "dispatch"} /\ running = "none" /\ running' = k
         /\ tasks'[k].why = "startup" => tasks[k].why = "startup" /\ tasks'[k].safety = tasks[k].safety
         /\ Clears(k)' => ChangeFlag(Released(k, SlotsOn, ReadyAt(flags)))
         /\ flags'.first = flags.first /\ flags'.restoring = flags.restoring
         /\ flags'.reload = flags.reload /\ flags'.ready = ReadyAt(flags)
         /\ ~ChangeFlag(Released(k, SlotsOn, ReadyAt(flags))) => flags'.change = flags.change
<1> DEFINE w        == Winner(SlotsOn, manual \ due)
           ready    == ReadyAt(flags)
           released == Released(k, SlotsOn, ready)
           change   == ChangeFlag(released)
           trigger  == TriggerReleased(w, released)
           task     == [tasks[k] EXCEPT !.at = "settle", !.prev = {}, !.goal = w]
           forced   == \/ w = "safety" \/ SlotTriggered(w) \/ trigger \/ raised
                       \/ released \cap Safety # {}
           why      == IF trigger \/ released \cap Safety # {} THEN "released" ELSE "state"
           freed    == manual \cap due
<1>1. /\ running = "none" /\ tasks[k].at = "priming" /\ running' = k
      /\ \/ /\ change /\ OutsideWindow(w, released)
            /\ flags' = [Handled(flags) EXCEPT !.ready = ready]
            /\ Goes(k, task)
         \/ /\ change /\ ~OutsideWindow(w, released)
            /\ flags' = [flags EXCEPT !.ready = ready, !.change = TRUE]
            /\ Goes(k, Dispatching(task, w, why, forced, w = "safety", Covers))
         \/ /\ ~change
            /\ flags' = [flags EXCEPT !.ready = ready]
            /\ Goes(k, IF freed # {} /\ world.open /\ flags.auto
                       THEN Dispatching(task, w, "manual_override_cleared", TRUE, FALSE, Covers)
                       ELSE task)
  BY DEF Compute
<1>2. flags \in Flags /\ tasks[k] \in Task /\ ready \in BOOLEAN
  BY DEF TypeOK, ReadyAt, Flags
<1>3. w \in Winners
  BY WinnerType
<1>4. /\ task \in Task /\ task.at = "settle" /\ task.why = tasks[k].why
      /\ task.safety = tasks[k].safety
  BY <1>2, <1>3 DEF Task
<1>5. /\ forced \in BOOLEAN /\ (w = "safety") \in BOOLEAN /\ why \in {"released", "state"}
      /\ Covers \in SUBSET Covers
  <2>1. trigger \in BOOLEAN /\ SlotTriggered(w) \in BOOLEAN
    BY DEF TriggerReleased, SlotTriggered
  <2> QED BY <2>1
<1> HIDE DEF w, ready, released, change, trigger, task, forced, why, freed
<1>6. CASE change /\ OutsideWindow(w, released)
  <2>1. /\ flags' \in Flags /\ flags'.first = flags.first /\ flags'.restoring = flags.restoring
        /\ flags'.reload = flags.reload /\ flags'.ready = ready
    BY <1>1, <1>2, <1>6 DEF Handled, Flags, Sources
  <2>2. Goes(k, task)
    BY <1>1, <1>6
  <2> QED BY <1>1, <1>2, <1>4, <1>6, <2>1, <2>2, GoesType DEF Clears, ready, released, change
<1>7. CASE change /\ ~OutsideWindow(w, released)
  <2>1. /\ flags' \in Flags /\ flags'.first = flags.first /\ flags'.restoring = flags.restoring
        /\ flags'.reload = flags.reload /\ flags'.ready = ready
    BY <1>1, <1>2, <1>7 DEF Flags
  <2>2. Goes(k, Dispatching(task, w, why, forced, w = "safety", Covers))
    BY <1>1, <1>7
  <2>3. /\ Dispatching(task, w, why, forced, w = "safety", Covers) \in Task
        /\ Dispatching(task, w, why, forced, w = "safety", Covers).at = "dispatch"
        /\ Dispatching(task, w, why, forced, w = "safety", Covers).why = why
    BY <1>3, <1>4, <1>5, Kinds DEF Dispatching, Task
  <2>4. why # "startup"
    BY <1>5
  <2> QED BY <1>1, <1>7, <2>1, <2>2, <2>3, <2>4, GoesType DEF ready, released, change
<1>8. CASE ~change
  <2>1. /\ flags' \in Flags /\ flags'.first = flags.first /\ flags'.restoring = flags.restoring
        /\ flags'.reload = flags.reload /\ flags'.ready = ready /\ flags'.change = flags.change
    BY <1>1, <1>2, <1>8 DEF Flags
  <2>2. CASE freed # {} /\ world.open /\ flags.auto
    <3> DEFINE d == Dispatching(task, w, "manual_override_cleared", TRUE, FALSE, Covers)
    <3>1. Goes(k, d)
      BY <1>1, <1>8, <2>2
    <3>2. d \in Task /\ d.at = "dispatch" /\ d.why = "manual_override_cleared"
      BY <1>3, <1>4, <1>5, Kinds DEF Dispatching, Task
    <3> QED BY <1>1, <1>8, <2>1, <3>1, <3>2, GoesType DEF Clears, ready, released, change
  <2>3. CASE ~(freed # {} /\ world.open /\ flags.auto)
    <3>1. Goes(k, task)
      BY <1>1, <1>8, <2>3
    <3> QED BY <1>1, <1>4, <1>8, <2>1, <3>1, GoesType DEF Clears, ready, released, change
  <2> QED BY <2>2, <2>3
<1> QED BY <1>6, <1>7, <1>8

LEMMA ComputeRest ==
  ASSUME TypeOK, NEW k \in Tasks, NEW raised \in BOOLEAN, Compute(k, raised)
  PROVE  LET ready    == ReadyAt(flags)
             released == Released(k, SlotsOn, ready)
             change   == ChangeFlag(released)
             w        == Winner(SlotsOn, manual \ due)
         IN
         /\ latch' = IF ready THEN Popped(Evaluate) ELSE Evaluate
         /\ prevOn' = SlotsOn /\ result' = w /\ out' = NoOut
         /\ manual' = manual \ due /\ due' = {}
         /\ owed' = ((owed \cup (prevOn \ SlotsOn)) \ released) \ SlotsOn
         /\ offline' = (offline \cup (IF flags.restoring THEN (latch.active \ SlotsOn) \cap Safety
                                      ELSE {}))
                        \ (SlotsOn \cup (IF change /\ ~OutsideWindow(w, released) THEN released ELSE {}))
         /\ unseen' = (unseen /\ ~change) /\ overtaken' = (overtaken /\ unseen')
         /\ UNCHANGED <<world, events, reloaded>>
  BY DEF Compute

-----------------------------------------------------------------------------
(* Types.                                                                   *)

StartsCycle(k) ==
  \/ \E s \in Slots : SensorFlips(k, s)
  \/ \E s \in Latched : ReleaseFlips(k, s)
  \/ EntityChanges(k) \/ OnWindowOpen(k) \/ PlainRefresh(k) \/ PressReset(k)
  \/ TurnOn(k) \/ FirstRefresh(k) \/ TurnOff(k, FALSE)

(* A cycle that is started waits with the map of the slots it found.        *)
LEMMA StartsCycleTasks ==
  ASSUME TypeOK, NEW k \in Tasks, StartsCycle(k)
  PROVE  \E reset \in SUBSET Covers :
           /\ Start(k, Cycle(reset)) /\ tasks' \in [Tasks -> Task]
           /\ tasks'[k] = Cycle(reset) /\ tasks[k].at = "idle"
           /\ \A j \in Tasks \ {k} : tasks'[j] = tasks[j]
<1>1. {} \in SUBSET Covers /\ manual \in SUBSET Covers
  BY DEF TypeOK
<1>2. Start(k, Cycle({})) \/ Start(k, Cycle(manual))
  BY DEF StartsCycle, SensorFlips, ReleaseFlips, EntityChanges, OnWindowOpen, PlainRefresh,
         PressReset, TurnOn, FirstRefresh, TurnOff
<1>3. PICK reset \in SUBSET Covers : Start(k, Cycle(reset))
  BY <1>1, <1>2
<1> QED BY <1>3, CycleTaskType, StartType

LEMMA EventCount ==
  ASSUME TypeOK, NEW kind, Event(kind) PROVE events' \in 0..MaxEvents /\ out' = NoOut /\ running = "none"
  BY Kinds DEF Event, TypeOK

LEMMA StartsCycleType ==
  ASSUME TypeOK, NEW k \in Tasks, StartsCycle(k) PROVE TypeOK'
<1>1. tasks' \in [Tasks -> Task]
  BY StartsCycleTasks
<1>2. /\ latch' = latch /\ prevOn' = prevOn /\ result' = result /\ running' = running
      /\ UNCHANGED <<owed, offline, overtaken, reloaded>> /\ unseen' \in BOOLEAN
  BY DEF StartsCycle, SensorFlips, ReleaseFlips, EntityChanges, OnWindowOpen, PlainRefresh,
         PressReset, TurnOn, FirstRefresh, TurnOff, ghosts, TypeOK
<1>3. events' \in 0..MaxEvents
  BY EventCount
     DEF StartsCycle, SensorFlips, ReleaseFlips, EntityChanges, OnWindowOpen, PlainRefresh,
         PressReset, TurnOn, FirstRefresh, TurnOff, TypeOK
<1>4. manual' \subseteq Covers /\ due' \subseteq manual'
  BY DEF StartsCycle, SensorFlips, ReleaseFlips, EntityChanges, OnWindowOpen, PlainRefresh,
         PressReset, TurnOn, FirstRefresh, TurnOff, TypeOK
<1>5. world' \in World /\ flags' \in Flags
  <2>0. world \in World /\ flags \in Flags
    BY DEF TypeOK
  <2>1. ASSUME NEW s \in Slots, SensorFlips(k, s) PROVE world' \in World /\ flags' \in Flags
    BY <2>0, <2>1 DEF SensorFlips, Flagged, World, Flags, Sources
  <2>2. ASSUME NEW s \in Latched, ReleaseFlips(k, s) PROVE world' \in World /\ flags' \in Flags
    BY <2>0, <2>2 DEF ReleaseFlips, Flagged, World, Flags, Sources
  <2>3. CASE EntityChanges(k)
    BY <2>0, <2>3 DEF EntityChanges, Flagged, World, Flags, Sources
  <2>4. CASE OnWindowOpen(k)
    BY <2>0, <2>4 DEF OnWindowOpen, World, Flags
  <2>5. CASE PlainRefresh(k) \/ PressReset(k)
    BY <2>0, <2>5 DEF PlainRefresh, PressReset
  <2>6. CASE TurnOn(k) \/ FirstRefresh(k) \/ TurnOff(k, FALSE)
    BY <2>0, <2>6 DEF TurnOn, FirstRefresh, TurnOff, Flags
  <2> QED BY <2>1, <2>2, <2>3, <2>4, <2>5, <2>6 DEF StartsCycle
<1> QED BY <1>1, <1>2, <1>3, <1>4, <1>5 DEF TypeOK

LEMMA ReturnHeight ==
  ASSUME TypeOK, NEW k \in Tasks, TurnOff(k, TRUE)
  PROVE  /\ tasks' \in [Tasks -> Task] /\ tasks[k].at = "idle"
         /\ tasks'[k].at = "dispatch" /\ tasks'[k].why = "auto_control_off"
         /\ \A j \in Tasks \ {k} : tasks'[j] = tasks[j]
<1> DEFINE t == [Idle EXCEPT !.at = "dispatch", !.goal = "default height",
                             !.why = "auto_control_off", !.force = TRUE, !.targets = Covers]
<1>1. t \in Task /\ t.at = "dispatch" /\ t.why = "auto_control_off"
  BY IdleType DEF Task
<1>2. Start(k, t)
  BY DEF TurnOff
<1> HIDE DEF t
<1> QED BY <1>1, <1>2, StartType

LEMMA TurnOffType ==
  ASSUME TypeOK, NEW k \in Tasks, TurnOff(k, TRUE) PROVE TypeOK'
<1>1. tasks' \in [Tasks -> Task]
  BY ReturnHeight
<1>2. flags' \in Flags
  BY DEF TurnOff, TypeOK, Flags
<1>3. events' \in 0..MaxEvents
  BY EventCount DEF TurnOff
<1> QED BY <1>1, <1>2, <1>3 DEF TurnOff, TypeOK, ghosts

LEMMA ComputeType ==
  ASSUME TypeOK, NEW k \in Tasks, NEW raised \in BOOLEAN, Compute(k, raised) PROVE TypeOK'
<1>1. latch' \in Latch
  BY ComputeRest, EvaluateType, PoppedType
<1>2. prevOn' \subseteq Slots /\ result' \in Winners
  BY ComputeRest, EvaluateType, WinnerType
<1>3. owed' \subseteq Slots /\ offline' \subseteq Latched
  BY ComputeRest DEF TypeOK, Latch
<1>4. unseen' \in BOOLEAN /\ overtaken' \in BOOLEAN
  BY ComputeRest DEF TypeOK
<1>5. tasks' \in [Tasks -> Task] /\ flags' \in Flags /\ running' \in Tasks
  BY ComputeTasks
<1>6. manual' \subseteq Covers /\ due' \subseteq manual'
  BY ComputeRest DEF TypeOK
<1> QED BY <1>1, <1>2, <1>3, <1>4, <1>5, <1>6, ComputeRest DEF TypeOK

Loops(k) == SkipCover(k) \/ SendCover(k) \/ TakeDetour(k) \/ EndDetour(k)

LEMMA LoopTasks ==
  ASSUME TypeOK, NEW k \in Tasks, Loops(k), ~EndDetour(k) \/ tasks[k].next \in Covers
  PROVE  /\ tasks' \in [Tasks -> Task] /\ \A j \in Tasks \ {k} : tasks'[j] = tasks[j]
         /\ tasks[k].at \in {"dispatch", "detour"} /\ tasks'[k].at \in {"dispatch", "detour"}
         /\ tasks'[k].why = tasks[k].why /\ tasks'[k].safety = tasks[k].safety
<1>1. tasks[k] \in Task
  BY DEF TypeOK
<1>2. CASE SkipCover(k) \/ SendCover(k) \/ EndDetour(k)
  BY <1>2, AdvancedType, GoesType DEF SkipCover, SendCover, EndDetour
<1>3. CASE TakeDetour(k)
  <2>1. /\ [tasks[k] EXCEPT !.at = "detour"] \in Task
        /\ [tasks[k] EXCEPT !.at = "detour"].at = "detour"
        /\ [tasks[k] EXCEPT !.at = "detour"].why = tasks[k].why
        /\ [tasks[k] EXCEPT !.at = "detour"].safety = tasks[k].safety
    BY <1>1 DEF Task
  <2> QED BY <1>3, <2>1, GoesType DEF TakeDetour
<1> QED BY <1>2, <1>3 DEF Loops

(* A detour is under way to a cover.                                        *)
DetourHasCover == \A k \in Tasks : tasks[k].at = "detour" => tasks[k].next \in Covers
Typed == TypeOK /\ DetourHasCover

LEMMA LoopTyped ==
  ASSUME Typed, NEW k \in Tasks, Loops(k) PROVE Typed'
<1>1. ~EndDetour(k) \/ tasks[k].next \in Covers
  BY DEF Typed, DetourHasCover, EndDetour
<1>2. tasks' \in [Tasks -> Task] /\ \A j \in Tasks \ {k} : tasks'[j] = tasks[j]
  BY <1>1, LoopTasks DEF Typed
<1>3. TypeOK'
  BY <1>2 DEF Typed, TypeOK, Loops, SkipCover, SendCover, TakeDetour, EndDetour, ghosts
<1>4. tasks'[k].at = "detour" => tasks'[k].next \in Covers
  <2>1. CASE SkipCover(k) \/ SendCover(k) \/ EndDetour(k)
    BY <1>1, <2>1, AdvancedType, GoesType DEF SkipCover, SendCover, EndDetour, Typed
  <2>2. CASE TakeDetour(k)
    <3>1. tasks'[k] = [tasks[k] EXCEPT !.at = "detour"] /\ tasks[k].next \in Covers
      BY <2>2 DEF TakeDetour, Goes, Typed, TypeOK
    <3>2. tasks[k] \in Task
      BY DEF Typed, TypeOK
    <3>3. [tasks[k] EXCEPT !.at = "detour"].next = tasks[k].next
      BY <3>2 DEF Task
    <3> QED BY <3>1, <3>3
  <2> QED BY <2>1, <2>2 DEF Loops
<1> QED BY <1>2, <1>3, <1>4 DEF Typed, DetourHasCover

(* The end of a loop or of a cycle: the task is idle, waits for a cycle of  *)
(* its own, settles, or begins a loop that clears no flag.                  *)
Ends(k) == EndDispatch(k) \/ Settle(k)
StartsUp(k) == flags.first /\ ~SkipsStartup

LEMMA AfterCycleTask ==
  ASSUME TypeOK, NEW k \in Tasks, AfterCycle(k)
  PROVE  /\ tasks' \in [Tasks -> Task] /\ \A j \in Tasks \ {k} : tasks'[j] = tasks[j]
         /\ tasks'[k].at \in {"idle", "dispatch"} /\ tasks'[k].why \in {"none", "manual_reset"}
         /\ running' \in {k, "none"}
<1> DEFINE t == [tasks[k] EXCEPT !.resetting = {}]
           d == Dispatching(t, result, "manual_reset", TRUE, FALSE, tasks[k].resetting)
<1>1. t \in Task /\ tasks[k].resetting \in SUBSET Covers /\ result \in Winners
  BY DEF TypeOK, Task
<1>2. d \in Task /\ d.at = "dispatch" /\ d.why = "manual_reset"
  BY <1>1, Kinds DEF Dispatching, Task
<1>3. Goes(k, d) \/ Goes(k, Idle)
  BY DEF AfterCycle
<1>4. running' \in {k, "none"}
  BY DEF AfterCycle
<1> HIDE DEF d
<1> QED BY <1>2, <1>3, <1>4, GoesType, IdleType

LEMMA EndTasks ==
  ASSUME TypeOK, NEW k \in Tasks, Ends(k)
  PROVE  /\ tasks' \in [Tasks -> Task] /\ \A j \in Tasks \ {k} : tasks'[j] = tasks[j]
         /\ running = k /\ running' \in {k, "none"}
         /\ tasks[k].at # "priming" /\ tasks'[k].at # "detour" /\ ~Clears(k)'
         /\ tasks'[k].why = "startup" =>
              \/ tasks[k].why = "startup" /\ tasks'[k].safety = tasks[k].safety
              \/ StartsUp(k) /\ tasks'[k].safety = (result = "safety")
<1>0. tasks[k] \in Task
  BY DEF TypeOK
<1>1. CASE EndDispatch(k)
  <2>1. /\ [tasks[k] EXCEPT !.at = "settle"] \in Task
        /\ [tasks[k] EXCEPT !.at = "settle"].at = "settle"
        /\ [tasks[k] EXCEPT !.at = "settle"].why = tasks[k].why
    BY <1>0 DEF Task
  <2>2. CASE Goes(k, [tasks[k] EXCEPT !.at = "settle"]) /\ UNCHANGED running
             /\ tasks[k].why # "startup"
    BY <1>1, <2>1, <2>2, GoesType DEF Clears, EndDispatch
  <2>3. CASE AfterCycle(k)
    BY <1>1, <2>3, AfterCycleTask DEF Clears, EndDispatch
  <2>4. CASE Goes(k, Cycle({})) /\ running' = "none"
    <3>1. Cycle({}) \in Task /\ Cycle({}).at = "priming" /\ Cycle({}).why = "none"
      BY CycleTaskType
    <3> QED BY <1>1, <2>4, <3>1, GoesType DEF Clears, EndDispatch
  <2>5. CASE Goes(k, Idle) /\ running' = "none"
    BY <1>1, <2>5, IdleType, GoesType DEF Clears, EndDispatch
  <2> QED BY <1>1, <2>2, <2>3, <2>4, <2>5 DEF EndDispatch
<1>2. CASE Settle(k) /\ AfterCycle(k)
  BY <1>2, AfterCycleTask DEF Clears, Settle
<1>3. CASE Settle(k) /\ ~AfterCycle(k)
  <2> DEFINE d == Dispatching(tasks[k], tasks[k].goal, "startup", result = "safety",
                              result = "safety", Covers)
  <2>1. Goes(k, d) /\ UNCHANGED running /\ StartsUp(k) /\ running = k /\ tasks[k].at = "settle"
    BY <1>3 DEF Settle, StartsUp
  <2>2. /\ d \in Task /\ d.at = "dispatch" /\ d.why = "startup"
        /\ d.safety = (result = "safety")
    BY <1>0, Kinds DEF Dispatching, Task
  <2> HIDE DEF d
  <2> QED BY <2>1, <2>2, GoesType DEF Clears
<1> QED BY <1>1, <1>2, <1>3 DEF Ends

LEMMA EndFlags ==
  ASSUME TypeOK, NEW k \in Tasks, Ends(k)
  PROVE  /\ flags' \in Flags /\ flags'.restoring = flags.restoring /\ flags'.ready = flags.ready
         /\ flags'.first => flags.first /\ flags'.reload = flags.reload
         /\ flags'.change # flags.change => Clears(k)
<1>1. flags \in Flags
  BY DEF TypeOK
<1>2. CASE flags' = Handled(flags) /\ EndDispatch(k) /\ tasks[k].why \in {"state", "released"}
  BY <1>1, <1>2 DEF Handled, Flags, Sources, Clears, EndDispatch
<1>3. CASE flags' = flags
  BY <1>1, <1>3
<1>4. CASE flags' = Started(flags)
  BY <1>1, <1>4 DEF Started, Flags
<1>5. CASE flags' = [flags EXCEPT !.first = FALSE, !.reload = @ /\ ~world.open]
  BY <1>1, <1>5 DEF Flags
<1> QED BY <1>2, <1>3, <1>4, <1>5 DEF Ends, EndDispatch, Settle

LEMMA EndType ==
  ASSUME Typed, NEW k \in Tasks, Ends(k) PROVE Typed'
<1>1. /\ tasks' \in [Tasks -> Task] /\ running' \in Tasks \cup {"none"}
      /\ DetourHasCover'
  BY EndTasks DEF Typed, DetourHasCover
<1>2. flags' \in Flags
  BY EndFlags DEF Typed
<1> QED BY <1>1, <1>2 DEF Ends, EndDispatch, Settle, Typed, TypeOK, ghosts

-----------------------------------------------------------------------------
(* The other events.                                                        *)

Others == \/ \E c \in Covers : UserMoves(c) \/ OverrideRunsOut(c)
          \/ WindowCloses \/ Save
Boots  == Crash \/ Reload

LEMMA OthersType == TypeOK /\ Others => TypeOK' /\ tasks' = tasks
<1> SUFFICES ASSUME TypeOK, Others PROVE TypeOK' /\ tasks' = tasks
  OBVIOUS
<1>1. ASSUME NEW c \in Covers, UserMoves(c) \/ OverrideRunsOut(c) PROVE TypeOK'
  <2>1. events' \in 0..MaxEvents
    BY <1>1, EventCount DEF UserMoves, OverrideRunsOut
  <2> QED BY <1>1, <2>1 DEF UserMoves, OverrideRunsOut, TypeOK, ghosts
<1>2. CASE WindowCloses
  <2>1. events' \in 0..MaxEvents
    BY <1>2, EventCount DEF WindowCloses
  <2>2. world' \in World
    BY <1>2 DEF WindowCloses, TypeOK, World
  <2> QED BY <1>2, <2>1, <2>2 DEF WindowCloses, TypeOK, ghosts
<1>3. CASE Save
  <2>1. latch' \in Latch
    BY <1>3 DEF Save, TypeOK, Latch
  <2> QED BY <1>3, <2>1 DEF Save, TypeOK, ghosts
<1>4. tasks' = tasks
  BY DEF Others, UserMoves, OverrideRunsOut, WindowCloses, Save
<1> QED BY <1>1, <1>2, <1>3, <1>4 DEF Others

(* A new coordinator: no task, no flag, an empty map.                       *)
LEMMA BootsFresh ==
  ASSUME TypeOK, Boots
  PROVE  /\ TypeOK' /\ prevOn' = {} /\ owed' = {} /\ offline' = {} /\ unseen' = FALSE
         /\ running' = "none" /\ out' = NoOut
         /\ \A k \in Tasks : tasks'[k] = Idle
         /\ ~flags'.first /\ ~flags'.ready /\ (reloaded' => flags'.reload)
         /\ latch'.stored = latch'.active
<1>1. PICK reload \in BOOLEAN, stored \in SUBSET Latched : Boot(reload, stored)
  BY DEF Boots, Crash, Reload, TypeOK, Latch
<1>2. flags' \in Flags /\ ~flags'.first /\ ~flags'.ready /\ flags'.reload = reload
  BY <1>1 DEF Boot, Fresh, TypeOK, Flags, Sources
<1>3. latch' \in Latch /\ latch'.stored = latch'.active
  BY <1>1 DEF Boot, Loaded, Latch
<1>4. tasks' \in [Tasks -> Task] /\ \A k \in Tasks : tasks'[k] = Idle
  BY <1>1, IdleType DEF Boot
<1>5. world' \in World
  BY DEF Boots, Crash, Reload, TypeOK, World
<1>6. events' \in 0..MaxEvents /\ running = "none" /\ out' = NoOut
  BY EventCount DEF Boots, Crash, Reload
<1>7. /\ prevOn' = {} /\ owed' = {} /\ offline' = {} /\ unseen' = FALSE /\ overtaken' = FALSE
      /\ reloaded' = reload /\ running' = running /\ result' = "none"
      /\ manual' = manual /\ due' = due
  BY <1>1 DEF Boot
<1> QED BY <1>2, <1>3, <1>4, <1>5, <1>6, <1>7 DEF TypeOK, Winners

LEMMA InitTyped == Init => Typed
<1> SUFFICES ASSUME Init PROVE Typed
  OBVIOUS
<1>1. flags \in Flags
  BY DEF Init, Fresh, Flags, Sources
<1>2. tasks \in [Tasks -> Task] /\ DetourHasCover
  BY IdleType DEF Init, DetourHasCover
<1>3. latch \in Latch
  BY DEF Init, Latch
<1>4. result \in Winners /\ events \in 0..MaxEvents
  BY Kinds DEF Init, Winners
<1> QED BY <1>1, <1>2, <1>3, <1>4 DEF Init, Typed, TypeOK

(* The steps, as the proofs below take them.                                *)
LEMMA NextSplit ==
  Next => \/ \E k \in Tasks : \/ \E raised \in BOOLEAN : Compute(k, raised)
                             \/ StartsCycle(k) \/ TurnOff(k, TRUE) \/ Loops(k) \/ Ends(k)
          \/ Others \/ Boots
  BY DEF Next, Advance, Triggers, StartsCycle, Loops, Ends, Others, Boots

LEMMA NextTyped == Typed /\ [Next]_vars => Typed'
<1> SUFFICES ASSUME Typed, [Next]_vars PROVE Typed'
  OBVIOUS
<1> USE DEF Typed
<1>1. ASSUME NEW k \in Tasks, NEW raised \in BOOLEAN, Compute(k, raised) PROVE Typed'
  BY <1>1, ComputeType, ComputeTasks DEF DetourHasCover
<1>2. ASSUME NEW k \in Tasks, StartsCycle(k) PROVE Typed'
  BY <1>2, StartsCycleType, StartsCycleTasks, CycleTaskType DEF DetourHasCover
<1>3. ASSUME NEW k \in Tasks, TurnOff(k, TRUE) PROVE Typed'
  BY <1>3, TurnOffType, ReturnHeight DEF DetourHasCover
<1>4. ASSUME NEW k \in Tasks, Loops(k) PROVE Typed'
  BY <1>4, LoopTyped
<1>5. ASSUME NEW k \in Tasks, Ends(k) PROVE Typed'
  BY <1>5, EndType
<1>6. CASE Others
  BY <1>6, OthersType DEF DetourHasCover
<1>7. CASE Boots
  BY <1>7, BootsFresh, IdleType DEF DetourHasCover
<1>8. CASE UNCHANGED vars
  BY <1>8 DEF vars, TypeOK, DetourHasCover
<1> QED BY <1>1, <1>2, <1>3, <1>4, <1>5, <1>6, <1>7, <1>8, NextSplit

LEMMA TypedInvariant == Spec => []Typed
<1> QED BY InitTyped, NextTyped, PTL DEF Spec

(* Every variable keeps its type.                                           *)
THEOREM TypeCorrect == Spec => []TypeOK
<1>1. Typed => TypeOK
  BY DEF Typed
<1> QED BY <1>1, TypedInvariant, PTL

-----------------------------------------------------------------------------
(* The release edge.                                                        *)

(* The slots that are on depend on the sensors and the latches only.        *)
LEMMA SlotsKept ==
  ASSUME TypeOK, TypeOK', world'.on = world.on, world'.rel = world.rel,
         latch'.active = latch.active
  PROVE  SlotsOn' = SlotsOn
<1>1. SlotsOn = {s \in Latched : LatchOn(s)} \cup (world.on \ Latched)
  BY EvaluateType DEF SlotsOn
<1>2. SlotsOn' = {s \in Latched : LatchOn(s)'} \cup (world'.on \ Latched)
  <2>1. latch' \in Latch
    BY DEF TypeOK
  <2>2. Tabled' \in Latch /\ Tabled'.active = {s \in Latched : LatchOn(s)'}
    BY <2>1 DEF Tabled, Latch
  <2>3. Evaluate'.active = Tabled'.active
    BY <2>2 DEF Evaluate, Latch
  <2> QED BY <2>2, <2>3 DEF SlotsOn
<1>3. \A s \in Latched : LatchOn(s)' <=> LatchOn(s)
  BY DEF LatchOn
<1> QED BY <1>1, <1>2, <1>3

Edges == Typed /\ EdgeAwaited /\ ReleaseNoticed

(* A step that leaves the map, the ghost and the slots alone, and ends no   *)
(* wait.                                                                    *)
LEMMA EdgesKept ==
  ASSUME Edges, Typed', prevOn' = prevOn, owed' = owed, SlotsOn' = SlotsOn,
         Waiting \subseteq Waiting'
  PROVE  Edges'
<1>1. EdgeAwaited'
  BY DEF Edges, EdgeAwaited
<1>2. ReleaseNoticed'
  BY DEF Edges, ReleaseNoticed, Waiting
<1> QED BY <1>1, <1>2 DEF Edges

LEMMA ComputeEdges ==
  ASSUME Edges, NEW k \in Tasks, NEW raised \in BOOLEAN, Compute(k, raised), Typed'
  PROVE  Edges'
<1> DEFINE released == Released(k, SlotsOn, ReadyAt(flags))
<1>0. TypeOK /\ tasks[k].prev \ SlotsOn \subseteq released
  BY DEF Edges, Typed, Released
<1>1. SlotsOn' = SlotsOn /\ prevOn' = SlotsOn
  BY <1>0, ComputeRest, EvaluateStable
<1>2. owed' = ((owed \cup (prevOn \ SlotsOn)) \ released) \ SlotsOn
  BY <1>0, ComputeRest
<1>3. EdgeAwaited'
  BY <1>1 DEF EdgeAwaited
<1>4. ASSUME NEW s \in owed' PROVE s \in Waiting'
  <2>1. s \in Waiting /\ s \notin SlotsOn /\ s \notin released
    BY <1>2, <1>4 DEF Edges, EdgeAwaited, ReleaseNoticed, Waiting
  <2>2. PICK j \in Tasks : tasks[j].at = "priming" /\ s \in tasks[j].prev
    BY <2>1, WaitingHas
  <2>3. j # k
    BY <1>0, <2>1, <2>2
  <2>4. tasks'[j] = tasks[j]
    BY <1>0, <2>3, ComputeTasks
  <2> QED BY <2>2, <2>4 DEF Waiting
<1>5. ReleaseNoticed'
  BY <1>4 DEF ReleaseNoticed, Waiting
<1> QED BY <1>3, <1>5 DEF Edges

LEMMA StartsCycleEdges ==
  ASSUME Edges, NEW k \in Tasks, StartsCycle(k), Typed' PROVE Edges'
<1>0. TypeOK
  BY DEF Edges, Typed
<1>1. PICK reset \in SUBSET Covers :
        /\ tasks'[k] = Cycle(reset) /\ tasks[k].at = "idle"
        /\ \A j \in Tasks \ {k} : tasks'[j] = tasks[j]
  BY <1>0, StartsCycleTasks
<1>2. tasks'[k].at = "priming" /\ tasks'[k].prev = prevOn
  BY <1>0, <1>1, CycleTaskType
<1>3. Waiting \subseteq Waiting'
  BY <1>1, WaitingKept
<1>4. prevOn \subseteq Waiting'
  BY <1>2 DEF Waiting
<1>5. prevOn' = prevOn /\ owed' = owed
  BY DEF StartsCycle, SensorFlips, ReleaseFlips, EntityChanges, OnWindowOpen, PlainRefresh,
         PressReset, TurnOn, FirstRefresh, TurnOff, ghosts
<1>6. EdgeAwaited'
  BY <1>4, <1>5 DEF EdgeAwaited
<1>7. ReleaseNoticed'
  BY <1>3, <1>5 DEF Edges, ReleaseNoticed, Waiting
<1> QED BY <1>6, <1>7 DEF Edges

LEMMA NextEdges == Edges /\ [Next]_vars => Edges'
<1> SUFFICES ASSUME Edges, [Next]_vars PROVE Edges'
  OBVIOUS
<1>0. Typed /\ Typed' /\ TypeOK /\ TypeOK'
  BY NextTyped DEF Edges, Typed
<1>1. ASSUME NEW k \in Tasks, NEW raised \in BOOLEAN, Compute(k, raised) PROVE Edges'
  BY <1>0, <1>1, ComputeEdges
<1>2. ASSUME NEW k \in Tasks, StartsCycle(k) PROVE Edges'
  BY <1>0, <1>2, StartsCycleEdges
<1>3. ASSUME NEW k \in Tasks, TurnOff(k, TRUE) PROVE Edges'
  <2>1. Waiting \subseteq Waiting'
    BY <1>0, <1>3, ReturnHeight, WaitingKept
  <2>2. /\ prevOn' = prevOn /\ owed' = owed /\ world' = world /\ latch' = latch
    BY <1>3 DEF TurnOff, ghosts
  <2> QED BY <1>0, <2>1, <2>2, SlotsKept, EdgesKept
<1>4. ASSUME NEW k \in Tasks, Loops(k) PROVE Edges'
  <2>1. ~EndDetour(k) \/ tasks[k].next \in Covers
    BY <1>0 DEF Typed, DetourHasCover, EndDetour
  <2>2. Waiting \subseteq Waiting'
    BY <1>0, <1>4, <2>1, LoopTasks, WaitingKept
  <2>3. /\ prevOn' = prevOn /\ owed' = owed /\ world' = world /\ latch' = latch
    BY <1>4 DEF Loops, SkipCover, SendCover, TakeDetour, EndDetour, ghosts
  <2> QED BY <1>0, <2>2, <2>3, SlotsKept, EdgesKept
<1>5. ASSUME NEW k \in Tasks, Ends(k) PROVE Edges'
  <2>1. Waiting \subseteq Waiting'
    BY <1>0, <1>5, EndTasks, WaitingKept
  <2>2. /\ prevOn' = prevOn /\ owed' = owed /\ world' = world /\ latch' = latch
    BY <1>5 DEF Ends, EndDispatch, Settle, ghosts
  <2> QED BY <1>0, <2>1, <2>2, SlotsKept, EdgesKept
<1>6. CASE Others
  <2>1. tasks' = tasks /\ Waiting' = Waiting
    BY <1>0, <1>6, OthersType DEF Waiting
  <2>2. prevOn' = prevOn /\ owed' = owed
    BY <1>6 DEF Others, UserMoves, OverrideRunsOut, WindowCloses, Save, ghosts
  <2>3. world'.on = world.on /\ world'.rel = world.rel
    <3>1. world \in World
      BY <1>0 DEF TypeOK
    <3> QED BY <1>6, <3>1 DEF Others, UserMoves, OverrideRunsOut, WindowCloses, Save, World
  <2>4. latch'.active = latch.active
    <3>1. latch \in Latch
      BY <1>0 DEF TypeOK
    <3> QED BY <1>6, <3>1 DEF Others, UserMoves, OverrideRunsOut, WindowCloses, Save, Latch
  <2> QED BY <1>0, <2>1, <2>2, <2>3, <2>4, SlotsKept, EdgesKept
<1>7. CASE Boots
  <2>1. prevOn' = {} /\ owed' = {}
    BY <1>0, <1>7, BootsFresh
  <2> QED BY <1>0, <2>1 DEF Edges, EdgeAwaited, ReleaseNoticed
<1>8. CASE UNCHANGED vars
  <2>1. prevOn' = prevOn /\ owed' = owed /\ world' = world /\ latch' = latch /\ tasks' = tasks
    BY <1>8 DEF vars
  <2>2. Waiting' = Waiting
    BY <2>1 DEF Waiting
  <2> QED BY <1>0, <2>1, <2>2, SlotsKept, EdgesKept
<1> QED BY <1>1, <1>2, <1>3, <1>4, <1>5, <1>6, <1>7, <1>8, NextSplit

(* Overlapping cycles never lose the release edge of a slot: whatever one   *)
(* stamped off without listing it is in the map of a cycle that still waits *)
(* (_read_prev_custom_position_states against its commit).                  *)
THEOREM ReleaseAlwaysNoticed == Spec => []ReleaseNoticed
<1>1. Init => Edges
  BY InitTyped DEF Init, Edges, EdgeAwaited, ReleaseNoticed
<1>2. Edges => ReleaseNoticed
  BY DEF Edges
<1> QED BY <1>1, <1>2, NextEdges, PTL DEF Spec

-----------------------------------------------------------------------------
(* Events stay flagged.                                                     *)

Flagging == Typed /\ EventStaysFlagged /\ LoopUpToDate

LEMMA NextFlagging == Flagging /\ [Next]_vars => Flagging'
<1> SUFFICES ASSUME Flagging, [Next]_vars PROVE EventStaysFlagged' /\ LoopUpToDate'
  BY NextTyped DEF Flagging
<1>0. Typed /\ TypeOK /\ EventStaysFlagged /\ LoopUpToDate
  BY DEF Flagging, Typed
<1>a. "none" \notin Tasks
  BY Kinds
<1>1. ASSUME NEW k \in Tasks, NEW raised \in BOOLEAN, Compute(k, raised)
      PROVE EventStaysFlagged' /\ LoopUpToDate'
  <2> DEFINE change == ChangeFlag(Released(k, SlotsOn, ReadyAt(flags)))
  <2>1. running' = k /\ (Clears(k)' => change) /\ (~change => flags'.change = flags.change)
    BY <1>0, <1>1, ComputeTasks
  <2>2. unseen' = (unseen /\ ~change) /\ overtaken' = (overtaken /\ unseen')
    BY <1>0, <1>1, ComputeRest
  <2>3. flags.change => change
    BY DEF ChangeFlag
  <2> HIDE DEF change
  <2> QED BY <1>0, <2>1, <2>2, <2>3 DEF EventStaysFlagged, LoopUpToDate, Clears
<1>2. ASSUME NEW k \in Tasks, StartsCycle(k) PROVE EventStaysFlagged' /\ LoopUpToDate'
  <2>1. running' = "none"
    BY <1>2 DEF StartsCycle, SensorFlips, ReleaseFlips, EntityChanges, OnWindowOpen,
       PlainRefresh, PressReset, TurnOn, FirstRefresh, TurnOff, Event
  <2>2. \/ flags'.change
        \/ /\ flags'.change = flags.change
           /\ unseen' = unseen /\ overtaken' = overtaken
    <3>1. flags \in Flags
      BY <1>0 DEF TypeOK
    <3>2. CASE \E s \in Slots : SensorFlips(k, s)
      BY <3>1, <3>2 DEF SensorFlips, Flagged, Flags
    <3>3. CASE \E s \in Latched : ReleaseFlips(k, s)
      BY <3>1, <3>3 DEF ReleaseFlips, Flagged, Flags
    <3>4. CASE EntityChanges(k) \/ OnWindowOpen(k) \/ TurnOn(k)
      BY <3>1, <3>4 DEF EntityChanges, OnWindowOpen, TurnOn, Flagged, Flags
    <3>5. CASE PlainRefresh(k) \/ PressReset(k) \/ FirstRefresh(k) \/ TurnOff(k, FALSE)
      BY <3>1, <3>5 DEF PlainRefresh, PressReset, FirstRefresh, TurnOff, Flags, ghosts
    <3> QED BY <1>2, <3>2, <3>3, <3>4, <3>5 DEF StartsCycle
  <2> QED BY <1>0, <2>1, <2>2 DEF EventStaysFlagged, LoopUpToDate
<1>3. ASSUME NEW k \in Tasks, TurnOff(k, TRUE) PROVE EventStaysFlagged' /\ LoopUpToDate'
  <2>1. /\ running' = k /\ flags'.change = flags.change
        /\ unseen' = unseen /\ overtaken' = overtaken
    BY <1>0, <1>3 DEF TurnOff, TypeOK, Flags, ghosts
  <2>2. tasks'[k].why = "auto_control_off"
    BY <1>0, <1>3, ReturnHeight
  <2> QED BY <1>0, <2>1, <2>2 DEF EventStaysFlagged, LoopUpToDate, Clears
<1>4. ASSUME NEW k \in Tasks, Loops(k) PROVE EventStaysFlagged' /\ LoopUpToDate'
  <2>1. flags' = flags /\ unseen' = unseen
    BY <1>4 DEF Loops, SkipCover, SendCover, TakeDetour, EndDetour, ghosts
  <2>2. CASE SkipCover(k) \/ SendCover(k)
    <3>1. tasks'[k].why = tasks[k].why
      BY <1>0, <1>4, <2>2, LoopTasks, Kinds DEF SkipCover, SendCover, EndDetour, Typed, DetourHasCover
    <3>2. running = k /\ running' = k /\ overtaken' = overtaken /\ tasks[k].at = "dispatch"
      BY <2>2 DEF SkipCover, SendCover, ghosts
    <3> QED BY <1>0, <1>a, <2>1, <3>1, <3>2 DEF EventStaysFlagged, LoopUpToDate, Clears
  <2>3. CASE TakeDetour(k)
    BY <1>0, <2>1, <2>3 DEF TakeDetour, ghosts, EventStaysFlagged, LoopUpToDate
  <2>4. CASE EndDetour(k)
    <3>1. overtaken' = (overtaken \/ unseen)
      BY <2>4 DEF EndDetour
    <3> QED BY <1>0, <2>1, <3>1 DEF EventStaysFlagged, LoopUpToDate
  <2> QED BY <1>4, <2>2, <2>3, <2>4 DEF Loops
<1>5. ASSUME NEW k \in Tasks, Ends(k) PROVE EventStaysFlagged' /\ LoopUpToDate'
  <2>1. running = k /\ running' \in {k, "none"} /\ ~Clears(k)'
    BY <1>0, <1>5, EndTasks
  <2>2. flags'.change # flags.change => Clears(k)
    BY <1>0, <1>5, EndFlags
  <2>3. unseen' = unseen /\ overtaken' = overtaken
    BY <1>5 DEF Ends, EndDispatch, Settle, ghosts
  <2> QED BY <1>0, <1>a, <2>1, <2>2, <2>3 DEF EventStaysFlagged, LoopUpToDate, Clears
<1>6. CASE Others
  <2>1. /\ running' = "none" /\ flags' = flags /\ unseen' = unseen /\ overtaken' = overtaken
    BY <1>6 DEF Others, UserMoves, OverrideRunsOut, WindowCloses, Save, Event, ghosts
  <2> QED BY <1>0, <2>1 DEF EventStaysFlagged, LoopUpToDate
<1>7. CASE Boots
  BY <1>0, <1>7, BootsFresh DEF EventStaysFlagged, LoopUpToDate
<1>8. CASE UNCHANGED vars
  BY <1>0, <1>8 DEF vars, EventStaysFlagged, LoopUpToDate, Clears
<1> QED BY <1>1, <1>2, <1>3, <1>4, <1>5, <1>6, <1>7, <1>8, NextSplit

(* A cycle that acts on a flag and clears it afterwards never swallows an   *)
(* event that came in between, except one that came during a detour         *)
(* (state_change, set by the listeners and cleared by                       *)
(* async_handle_state_change).                                              *)
THEOREM EventAlwaysFlagged == Spec => []EventStaysFlagged
<1>1. Init => Flagging
  BY InitTyped DEF Init, Flagging, EventStaysFlagged, LoopUpToDate
<1>2. Flagging => EventStaysFlagged
  BY DEF Flagging
<1> QED BY <1>1, <1>2, NextFlagging, PTL DEF Spec

-----------------------------------------------------------------------------
(* The startup of a reloaded coordinator.                                   *)

Startup == Typed /\ StartupLater /\ ReloadKnown /\ ReloadQuiet

(* A step that sends nothing and begins no startup loop.                    *)
LEMMA StartupKept ==
  ASSUME Startup, Typed', reloaded' = reloaded,
         out' = NoOut,
         flags'.restoring => flags.restoring /\ flags'.first = flags.first,
         flags'.first \/ flags'.restoring =>
           (flags.first \/ flags.restoring) /\ flags'.reload = flags.reload,
         \A k \in Tasks : tasks'[k].why = "startup" =>
           tasks[k].why = "startup" /\ tasks'[k].safety = tasks[k].safety
  PROVE  Startup'
<1>1. StartupLater'
  BY DEF Startup, StartupLater
<1>2. ReloadKnown'
  BY DEF Startup, ReloadKnown
<1>3. ReloadQuiet'
  BY DEF ReloadQuiet, NoOut
<1> QED BY <1>1, <1>2, <1>3 DEF Startup

LEMMA LoopStartup ==
  ASSUME Startup, Typed', NEW k \in Tasks, Loops(k) PROVE Startup'
<1>0. Typed /\ TypeOK
  BY DEF Startup, Typed
<1>1. ~EndDetour(k) \/ tasks[k].next \in Covers
  BY <1>0 DEF Typed, DetourHasCover, EndDetour
<1>2. /\ \A j \in Tasks \ {k} : tasks'[j] = tasks[j]
      /\ tasks'[k].why = tasks[k].why /\ tasks'[k].safety = tasks[k].safety
  BY <1>0, <1>1, LoopTasks
<1>3. flags' = flags /\ reloaded' = reloaded
  BY DEF Loops, SkipCover, SendCover, TakeDetour, EndDetour, ghosts
<1>4. \/ out' = NoOut
      \/ out'.why = tasks[k].why /\ out'.safety = tasks[k].safety
  BY DEF Loops, SkipCover, SendCover, TakeDetour, EndDetour, Message
<1>5. StartupLater'
  BY <1>2, <1>3 DEF Startup, StartupLater
<1>6. ReloadKnown'
  BY <1>2, <1>3 DEF Startup, ReloadKnown
<1>7. ReloadQuiet'
  BY <1>3, <1>4 DEF Startup, ReloadKnown, ReloadQuiet, NoOut
<1> QED BY <1>5, <1>6, <1>7 DEF Startup

LEMMA EndStartup ==
  ASSUME Startup, Typed', NEW k \in Tasks, Ends(k) PROVE Startup'
<1>0. Typed /\ TypeOK
  BY DEF Startup, Typed
<1>1. /\ \A j \in Tasks \ {k} : tasks'[j] = tasks[j]
      /\ tasks'[k].why = "startup" =>
           \/ tasks[k].why = "startup" /\ tasks'[k].safety = tasks[k].safety
           \/ StartsUp(k) /\ tasks'[k].safety = (result = "safety")
  BY <1>0, EndTasks
<1>2. flags'.restoring = flags.restoring
  BY <1>0, EndFlags
<1>3. flags'.first => flags.first /\ flags'.reload = flags.reload
  BY <1>0, EndFlags
<1>4. flags.restoring => flags'.reload = flags.reload
  <2>1. flags \in Flags
    BY <1>0 DEF TypeOK
  <2> QED BY <2>1 DEF Startup, StartupLater, Ends, EndDispatch, Settle, Handled, Flags
<1>5. reloaded' = reloaded /\ out' = NoOut
  BY DEF Ends, EndDispatch, Settle, ghosts
<1>6. StartsUp(k) => flags.first /\ (flags.reload => result = "safety")
  BY DEF StartsUp, SkipsStartup
<1>7. StartupLater'
  BY <1>1, <1>2, <1>3, <1>6 DEF Startup, StartupLater
<1>8. ReloadKnown'
  BY <1>1, <1>2, <1>3, <1>4, <1>5, <1>6 DEF Startup, ReloadKnown
<1>9. ReloadQuiet'
  BY <1>5 DEF ReloadQuiet, NoOut
<1> QED BY <1>7, <1>8, <1>9 DEF Startup

LEMMA NextStartup == Startup /\ [Next]_vars => Startup'
<1> SUFFICES ASSUME Startup, [Next]_vars PROVE Startup'
  OBVIOUS
<1>0. Typed /\ Typed' /\ TypeOK
  BY NextTyped DEF Startup, Typed
<1>1. ASSUME NEW k \in Tasks, NEW raised \in BOOLEAN, Compute(k, raised) PROVE Startup'
  <2>1. /\ \A j \in Tasks \ {k} : tasks'[j] = tasks[j]
        /\ tasks'[k].why = "startup" => tasks[k].why = "startup" /\ tasks'[k].safety = tasks[k].safety
        /\ flags'.first = flags.first /\ flags'.restoring = flags.restoring
        /\ flags'.reload = flags.reload
    BY <1>0, <1>1, ComputeTasks
  <2>2. out' = NoOut /\ reloaded' = reloaded
    BY <1>0, <1>1, ComputeRest
  <2> QED BY <1>0, <2>1, <2>2, StartupKept
<1>2. ASSUME NEW k \in Tasks, StartsCycle(k) PROVE Startup'
  <2>1. PICK reset \in SUBSET Covers :
          /\ tasks'[k] = Cycle(reset) /\ \A j \in Tasks \ {k} : tasks'[j] = tasks[j]
    BY <1>0, <1>2, StartsCycleTasks
  <2>2. \A j \in Tasks : tasks'[j].why = "startup" =>
          tasks[j].why = "startup" /\ tasks'[j].safety = tasks[j].safety
    BY <1>0, <2>1, CycleTaskType
  <2>3. out' = NoOut /\ reloaded' = reloaded
    BY <1>2 DEF StartsCycle, SensorFlips, ReleaseFlips, EntityChanges, OnWindowOpen,
       PlainRefresh, PressReset, TurnOn, FirstRefresh, TurnOff, Event, ghosts
  <2>4. /\ flags'.restoring => flags.restoring /\ flags'.first = flags.first
        /\ flags'.first \/ flags'.restoring =>
             (flags.first \/ flags.restoring) /\ flags'.reload = flags.reload
    <3>1. flags \in Flags
      BY <1>0 DEF TypeOK
    <3>2. CASE FirstRefresh(k)
      BY <3>1, <3>2 DEF FirstRefresh, Flags
    <3>3. CASE ~FirstRefresh(k)
      <4>1. flags'.restoring = flags.restoring /\ flags'.first = flags.first
            /\ flags'.reload = flags.reload
        BY <1>2, <3>1, <3>3 DEF StartsCycle, SensorFlips, ReleaseFlips, EntityChanges, OnWindowOpen,
           PlainRefresh, PressReset, TurnOn, TurnOff, Flagged, Flags
      <4> QED BY <4>1
    <3> QED BY <3>2, <3>3
  <2> QED BY <1>0, <2>2, <2>3, <2>4, StartupKept
<1>3. ASSUME NEW k \in Tasks, TurnOff(k, TRUE) PROVE Startup'
  <2>1. /\ flags'.restoring = flags.restoring /\ flags'.first = flags.first
        /\ flags'.reload = flags.reload /\ out' = NoOut /\ reloaded' = reloaded
    BY <1>0, <1>3 DEF TurnOff, Event, TypeOK, Flags, ghosts
  <2>2. tasks'[k].why # "startup" /\ \A j \in Tasks \ {k} : tasks'[j] = tasks[j]
    BY <1>0, <1>3, ReturnHeight
  <2> QED BY <1>0, <2>1, <2>2, StartupKept
<1>4. ASSUME NEW k \in Tasks, Loops(k) PROVE Startup'
  BY <1>0, <1>4, LoopStartup
<1>5. ASSUME NEW k \in Tasks, Ends(k) PROVE Startup'
  BY <1>0, <1>5, EndStartup
<1>6. CASE Others
  <2>1. flags' = flags /\ reloaded' = reloaded /\ out' = NoOut
    BY <1>6 DEF Others, UserMoves, OverrideRunsOut, WindowCloses, Save, Event, ghosts
  <2>2. tasks' = tasks
    BY <1>0, <1>6, OthersType
  <2> QED BY <1>0, <2>1, <2>2, StartupKept
<1>7. CASE Boots
  <2>1. /\ ~flags'.first /\ (reloaded' => flags'.reload) /\ out' = NoOut
        /\ \A k \in Tasks : tasks'[k].why = "none"
    BY <1>0, <1>7, BootsFresh, IdleType
  <2> QED BY <1>0, <2>1 DEF Startup, StartupLater, ReloadKnown, ReloadQuiet, NoOut
<1>8. CASE UNCHANGED vars
  <2>1. flags' = flags /\ reloaded' = reloaded /\ out' = out /\ tasks' = tasks
    BY <1>8 DEF vars
  <2> QED BY <1>0, <2>1 DEF Startup, StartupLater, ReloadKnown, ReloadQuiet
<1> QED BY <1>1, <1>2, <1>3, <1>4, <1>5, <1>6, <1>7, <1>8, NextSplit

LEMMA InitStartup == Init => Startup
<1> SUFFICES ASSUME Init PROVE Startup
  OBVIOUS
<1>1. ~flags.first /\ ~reloaded /\ out = NoOut
  BY DEF Init, Fresh
<1>2. \A k \in Tasks : tasks[k].why = "none"
  BY IdleType DEF Init
<1> QED BY <1>1, <1>2, InitTyped DEF Startup, StartupLater, ReloadKnown, ReloadQuiet, NoOut

(* A reloaded coordinator starts no cover from a startup loop, unless for   *)
(* safety, however many cycles overlap the first refresh                    *)
(* (async_handle_first_refresh).                                            *)
THEOREM ReloadAlwaysQuiet == Spec => []ReloadQuiet
<1>1. Startup => ReloadQuiet
  BY DEF Startup
<1> QED BY <1>1, InitStartup, NextStartup, PTL DEF Spec

-----------------------------------------------------------------------------
(* A safety release that dropped while the platforms were restoring.        *)

Offline == Startup /\ ReadyKnown /\ OfflineReleasePending

(* A step that leaves the latches' releases alone.                          *)
LEMMA OfflineKept ==
  ASSUME Offline, Startup', offline' = offline, latch'.released = latch.released,
         flags'.ready = flags.ready, flags'.restoring => flags.restoring
  PROVE  Offline'
  BY DEF Offline, ReadyKnown, OfflineReleasePending

LEMMA ComputeOffline ==
  ASSUME Offline, Startup', NEW k \in Tasks, NEW raised \in BOOLEAN, Compute(k, raised)
  PROVE  Offline'
<1> DEFINE on       == SlotsOn
           ready    == ReadyAt(flags)
           released == Released(k, on, ready)
           change   == ChangeFlag(released)
           w        == Winner(on, manual \ due)
           dropped  == IF flags.restoring THEN (latch.active \ on) \cap Safety ELSE {}
           sent     == IF change /\ ~OutsideWindow(w, released) THEN released ELSE {}
<1>0. Typed /\ TypeOK /\ offline \subseteq Safety /\ offline \subseteq latch.released
  BY DEF Offline, Startup, Typed, ReadyKnown, OfflineReleasePending
<1>1. /\ offline' = (offline \cup dropped) \ (on \cup sent)
      /\ latch' = IF ready THEN Popped(Evaluate) ELSE Evaluate
  BY <1>0, ComputeRest
<1>2. flags'.ready = ready /\ flags'.restoring = flags.restoring
  BY <1>0, ComputeTasks
<1>3. /\ Evaluate \in Latch
      /\ Evaluate.released = (latch.released \ Evaluate.active) \cup (latch.active \ Evaluate.active)
      /\ on \cap Latched = Evaluate.active
  BY <1>0, EvaluateType
<1>4. latch.released \subseteq Latched /\ latch.active \subseteq Latched
  BY <1>0 DEF TypeOK, Latch
<1>5. \A s \in offline \cup dropped : s \in Safety /\ (s \in on \/ s \in Evaluate.released)
  BY <1>0, <1>3, <1>4
<1>6. ready => ~flags.restoring
  BY DEF ReadyAt, Offline, Startup, StartupLater, ReadyKnown
<1>7. ready /\ ~flags.ready => flags.first
  BY DEF ReadyAt
<1>8. ASSUME ready PROVE offline' = {}
  <2>1. CASE flags.ready
    BY <1>1, <1>6, <1>8, <2>1 DEF Offline, ReadyKnown
  <2>2. CASE ~flags.ready
    <3>1. flags.first
      BY <1>7, <1>8, <2>2
    <3>2. Evaluate.released \subseteq released
      BY <1>8 DEF Released
    <3> HIDE DEF released, on
    <3> SUFFICES ASSUME NEW s \in offline' PROVE FALSE
      OBVIOUS
    <3>3. s \in Safety /\ s \in released /\ s \notin sent
      BY <1>1, <1>5, <3>2
    <3>4. change /\ ~OutsideWindow(w, released)
      BY <3>1, <3>3 DEF ChangeFlag, OutsideWindow
    <3> QED BY <3>3, <3>4
  <2> QED BY <2>1, <2>2
<1>9. offline' \subseteq latch'.released
  <2>1. CASE ready
    BY <1>8, <2>1
  <2>2. CASE ~ready
    BY <1>1, <1>5, <2>2
  <2> QED BY <2>1, <2>2
<1>10. offline' \subseteq Safety
  BY <1>1, <1>5
<1> QED BY <1>2, <1>6, <1>8, <1>9, <1>10 DEF Offline, ReadyKnown, OfflineReleasePending

LEMMA NextOffline == Offline /\ [Next]_vars => Offline'
<1> SUFFICES ASSUME Offline, [Next]_vars PROVE Offline'
  OBVIOUS
<1>0. Startup' /\ TypeOK
  BY NextStartup DEF Offline, Startup, Typed
<1>1. ASSUME NEW k \in Tasks, NEW raised \in BOOLEAN, Compute(k, raised) PROVE Offline'
  BY <1>0, <1>1, ComputeOffline
<1>2. ASSUME NEW k \in Tasks, StartsCycle(k) \/ TurnOff(k, TRUE) PROVE Offline'
  <2>1. offline' = offline /\ latch' = latch
    BY <1>2 DEF StartsCycle, SensorFlips, ReleaseFlips, EntityChanges, OnWindowOpen,
       PlainRefresh, PressReset, TurnOn, FirstRefresh, TurnOff, ghosts
  <2>2. flags'.ready = flags.ready /\ (flags'.restoring => flags.restoring)
    <3>1. flags \in Flags
      BY <1>0 DEF TypeOK
    <3>2. CASE \E s \in Slots : SensorFlips(k, s)
      BY <3>1, <3>2 DEF SensorFlips, Flagged, Flags
    <3>3. CASE \E s \in Latched : ReleaseFlips(k, s)
      BY <3>1, <3>3 DEF ReleaseFlips, Flagged, Flags
    <3>4. CASE EntityChanges(k) \/ OnWindowOpen(k) \/ TurnOn(k)
      BY <3>1, <3>4 DEF EntityChanges, OnWindowOpen, TurnOn, Flagged, Flags
    <3>5. CASE PlainRefresh(k) \/ PressReset(k) \/ FirstRefresh(k)
      BY <3>1, <3>5 DEF PlainRefresh, PressReset, FirstRefresh, Flags
    <3>6. CASE TurnOff(k, FALSE) \/ TurnOff(k, TRUE)
      BY <3>1, <3>6 DEF TurnOff, Flags
    <3> QED BY <1>2, <3>2, <3>3, <3>4, <3>5, <3>6 DEF StartsCycle
  <2> QED BY <1>0, <2>1, <2>2, OfflineKept
<1>3. ASSUME NEW k \in Tasks, Loops(k) PROVE Offline'
  <2>1. offline' = offline /\ latch' = latch /\ flags' = flags
    BY <1>3 DEF Loops, SkipCover, SendCover, TakeDetour, EndDetour, ghosts
  <2> QED BY <1>0, <2>1, OfflineKept
<1>4. ASSUME NEW k \in Tasks, Ends(k) PROVE Offline'
  <2>1. offline' = offline /\ latch' = latch
    BY <1>4 DEF Ends, EndDispatch, Settle, ghosts
  <2>2. flags'.restoring = flags.restoring /\ flags'.ready = flags.ready
    BY <1>0, <1>4, EndFlags
  <2> QED BY <1>0, <2>1, <2>2, OfflineKept
<1>5. CASE Others
  <2>1. offline' = offline /\ flags' = flags
    BY <1>5 DEF Others, UserMoves, OverrideRunsOut, WindowCloses, Save, ghosts
  <2>2. latch'.released = latch.released
    <3>1. latch \in Latch
      BY <1>0 DEF TypeOK
    <3> QED BY <1>5, <3>1 DEF Others, UserMoves, OverrideRunsOut, WindowCloses, Save, Latch
  <2> QED BY <1>0, <2>1, <2>2, OfflineKept
<1>6. CASE Boots
  <2>1. offline' = {} /\ ~flags'.ready
    BY <1>0, <1>6, BootsFresh
  <2> QED BY <1>0, <2>1 DEF Offline, ReadyKnown, OfflineReleasePending
<1>7. CASE UNCHANGED vars
  BY <1>0, <1>7, OfflineKept DEF vars
<1> QED BY <1>1, <1>2, <1>3, <1>4, <1>5, <1>6, <1>7, NextSplit

(* A safety slot whose latch dropped before the first refresh stays listed  *)
(* as released until a cycle sends its release, whichever cycle meets the   *)
(* first refresh (pop_released is not called before).                       *)
THEOREM OfflineReleaseAlwaysPending == Spec => []OfflineReleasePending
<1>1. Init => ReadyKnown /\ OfflineReleasePending
  BY DEF Init, Fresh, ReadyKnown, OfflineReleasePending
<1>2. Init => Offline
  BY <1>1, InitStartup DEF Offline
<1>3. Offline => OfflineReleasePending
  BY DEF Offline
<1> QED BY <1>2, <1>3, NextOffline, PTL DEF Spec

-----------------------------------------------------------------------------
(* The table of the latches.                                                *)

(* A step after which the latches differ from what is stored has scheduled  *)
(* the save that makes up for it (_schedule_save).                          *)
LEMMA NextStored == Typed /\ CrashLosesOnlyScheduled /\ [Next]_vars => CrashLosesOnlyScheduled'
<1> SUFFICES ASSUME Typed, CrashLosesOnlyScheduled, [Next]_vars PROVE CrashLosesOnlyScheduled'
  OBVIOUS
<1> USE DEF CrashLosesOnlyScheduled
<1>0. TypeOK /\ latch \in Latch
  BY DEF Typed, TypeOK
<1>1. ASSUME NEW k \in Tasks, NEW raised \in BOOLEAN, Compute(k, raised)
      PROVE CrashLosesOnlyScheduled'
  <2>1. latch' = Evaluate \/ latch' = Popped(Evaluate)
    BY <1>0, <1>1, ComputeRest
  <2>2. /\ latch'.active = Evaluate.active /\ latch'.stored = Evaluate.stored
        /\ latch'.due = Evaluate.due
    BY <1>0, <2>1, EvaluateType, PoppedType
  <2>3. /\ Evaluate.stored = latch.stored
        /\ Evaluate.due = (latch.due \/ Evaluate.active # latch.active)
    BY <1>0, EvaluateType
  <2> QED BY <2>2, <2>3
<1>2. ASSUME NEW k \in Tasks, StartsCycle(k) \/ TurnOff(k, TRUE) PROVE CrashLosesOnlyScheduled'
  <2>1. latch' = latch
    BY <1>2 DEF StartsCycle, SensorFlips, ReleaseFlips, EntityChanges, OnWindowOpen,
       PlainRefresh, PressReset, TurnOn, FirstRefresh, TurnOff
  <2> QED BY <2>1
<1>3. ASSUME NEW k \in Tasks, Loops(k) \/ Ends(k) PROVE CrashLosesOnlyScheduled'
  <2>1. latch' = latch
    BY <1>3 DEF Loops, SkipCover, SendCover, TakeDetour, EndDetour, Ends, EndDispatch, Settle
  <2> QED BY <2>1
<1>4. CASE Others
  BY <1>0, <1>4 DEF Others, UserMoves, OverrideRunsOut, WindowCloses, Save, Latch
<1>5. CASE Boots
  BY <1>0, <1>5, BootsFresh
<1>6. CASE UNCHANGED vars
  BY <1>6 DEF vars
<1> QED BY <1>1, <1>2, <1>3, <1>4, <1>5, <1>6, NextSplit

(* A crash loses at most a change of the latches whose delayed save was     *)
(* still pending.                                                           *)
THEOREM CrashLosesAtMostScheduled == Spec => []CrashLosesOnlyScheduled
<1>1. Init => CrashLosesOnlyScheduled
  BY DEF Init, CrashLosesOnlyScheduled
<1> QED BY <1>1, TypedInvariant, NextStored, PTL DEF Spec

=============================================================================
