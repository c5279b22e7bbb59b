------------------------- MODULE CoverCommandProofs -------------------------
(* Proofs about CoverCommand, for every set of covers and positions, every *)
(* limit and every choice of configuration flags.                          *)
EXTENDS CoverCommand, TLAPS

USE DEF Absent, EndStops, Causes, Clocks

-----------------------------------------------------------------------------
(* What the service writes into a record is again a record.                *)

LEMMA Counters ==
  /\ MaxRetries \in Nat /\ MoveCap \in Nat
  /\ 0 \in 0..MaxRetries /\ 0 \in 0..MoveCap
  /\ \A i \in 0..MaxRetries : i < MaxRetries => i + 1 \in 0..MaxRetries
  /\ \A i \in 0..MoveCap : i < MoveCap => i + 1 \in 0..MoveCap
  BY LimitAssumption

LEMMA NoEntryType == NoEntry \in Entry /\ Unborn \in Birth
  BY Counters DEF NoEntry, Entry, Unborn, Birth

LEMMA TrackType ==
  ASSUME NEW e \in Entry, NEW p \in Positions
  PROVE  /\ Track(e, p) \in Entry
         /\ Track(e, p).target = p /\ Track(e, p).clock = "recent"
         /\ Track(e, p).retries = e.retries
  BY DEF Track, Entry

LEMMA CommandType ==
  ASSUME NEW e \in Entry, NEW p \in Positions, NEW sf \in BOOLEAN
  PROVE  /\ Command(e, p, sf) \in Entry
         /\ Command(e, p, sf).target = p /\ Command(e, p, sf).clock = "recent"
<1>1. ASSUME NEW t \in Entry
      PROVE  [t EXCEPT !.retries = 0, !.gaveUp = FALSE, !.safety = sf] \in Entry
  BY Counters DEF Entry
<1>2. Track(e, p) \in Entry
  BY TrackType
<1>3. Command(e, p, sf) \in Entry
  BY <1>1, <1>2 DEF Command
<1>4. /\ Command(e, p, sf).target = Track(e, p).target
      /\ Command(e, p, sf).clock = Track(e, p).clock
  BY <1>2 DEF Command, Entry
<1> QED BY <1>3, <1>4, TrackType

LEMMA ResendType ==
  ASSUME NEW e \in Entry, NEW p \in Positions, e.retries < MaxRetries
  PROVE  /\ Resend(e, p) \in Entry
         /\ Resend(e, p).target = p /\ Resend(e, p).clock = "recent"
         /\ [e EXCEPT !.retries = @ + 1] \in Entry
<1>1. e.retries + 1 \in 0..MaxRetries
  BY Counters DEF Entry
<1>2. ASSUME NEW t \in Entry, t.retries = e.retries
      PROVE  /\ [t EXCEPT !.retries = @ + 1, !.safety = FALSE] \in Entry
             /\ [t EXCEPT !.retries = @ + 1] \in Entry
  BY <1>1, <1>2 DEF Entry
<1>3. Track(e, p) \in Entry /\ Track(e, p).retries = e.retries
  BY TrackType
<1>4. Resend(e, p) \in Entry
  BY <1>2, <1>3 DEF Resend
<1>5. /\ Resend(e, p).target = Track(e, p).target
      /\ Resend(e, p).clock = Track(e, p).clock
  BY <1>3 DEF Resend, Entry
<1> QED BY <1>2, <1>4, <1>5, TrackType

(* Accounting for a move touches the counter alone.                        *)
LEMMA CounterType ==
  ASSUME NEW e \in Entry, NEW c, NEW p, NEW origin
  PROVE  /\ \A r \in {Referenced(e), OneMoreMove(e), Accounted(e, c, p, origin), Manual(e, c)} :
              /\ r \in Entry
              /\ r.target = e.target /\ r.waiting = e.waiting
              /\ r.clock = e.clock
<1>1. /\ Referenced(e) \in Entry
      /\ Referenced(e).target = e.target /\ Referenced(e).waiting = e.waiting
      /\ Referenced(e).clock = e.clock
  BY Counters DEF Referenced, Entry
<1>2. OneMoreMove(e) \in Entry
  <2>1. ASSUME NEW m \in 0..MoveCap
        PROVE  [e EXCEPT !.moves = m] \in Entry
    BY DEF Entry
  <2>2. (IF e.moves < MoveCap THEN e.moves + 1 ELSE e.moves) \in 0..MoveCap
    BY Counters DEF Entry
  <2> QED BY <2>1, <2>2 DEF OneMoreMove
<1>3. /\ OneMoreMove(e).target = e.target /\ OneMoreMove(e).waiting = e.waiting
      /\ OneMoreMove(e).clock = e.clock
  BY DEF OneMoreMove, Entry
<1> QED BY <1>1, <1>2, <1>3 DEF Accounted, Manual

(* Clearing and stopping: a record stops waiting or stays as it is.        *)
LEMMA WithoutTargetType ==
  ASSUME NEW e \in Entry
  PROVE  WithoutTarget(e) \in Entry /\ ~WithoutTarget(e).waiting
  BY Counters DEF WithoutTarget, Entry

LEMMA StoppedType ==
  ASSUME NEW e \in Entry
  PROVE  Stopped(e) \in Entry /\ ~Stopped(e).waiting
  BY DEF Stopped, Entry

LEMMA UnflaggedType ==
  ASSUME NEW e \in Entry
  PROVE  /\ [e EXCEPT !.safety = FALSE] \in Entry
         /\ [e EXCEPT !.safety = FALSE].target = e.target
         /\ [e EXCEPT !.safety = FALSE].waiting = e.waiting
         /\ [e EXCEPT !.safety = FALSE].clock = e.clock
  BY DEF Entry

LEMMA RoutedType ==
  ASSUME NEW c \in Covers, NEW p \in Positions
  PROVE  Routed(c, p) \in Positions /\ EndStopFor(p) \in Positions
  BY PositionRange DEF Routed, EndStopFor

-----------------------------------------------------------------------------
(* The inductive invariant: every record is well typed and, if it waits    *)
(* for its cover, can be found and expired by the reconciliation pass.     *)

SoundEntry == {e \in Entry : e.waiting => e.target # Absent /\ e.clock # "none"}
Inv == TypeOK /\ st \in [Covers -> SoundEntry]

LEMMA InvMeaning == Inv => TypeOK /\ WaitingCanExpire
  BY DEF Inv, SoundEntry, WaitingCanExpire

LEMMA NoEntrySound == NoEntry \in SoundEntry
  BY NoEntryType DEF SoundEntry, NoEntry

LEMMA SentSound ==
  ASSUME NEW e \in Entry, NEW p \in Positions, NEW sf \in BOOLEAN
  PROVE  /\ Track(e, p) \in SoundEntry
         /\ Command(e, p, sf) \in SoundEntry
         /\ e.retries < MaxRetries => Resend(e, p) \in SoundEntry
<1>1. p # Absent
  BY PositionRange
<1>2. Track(e, p) \in SoundEntry
  BY <1>1, TrackType DEF SoundEntry
<1>3. Command(e, p, sf) \in SoundEntry
  BY <1>1, CommandType DEF SoundEntry
<1>4. e.retries < MaxRetries => Resend(e, p) \in SoundEntry
  BY <1>1, ResendType DEF SoundEntry
<1> QED BY <1>2, <1>3, <1>4

LEMMA CounterSound ==
  ASSUME NEW e \in SoundEntry, NEW c, NEW p, NEW origin
  PROVE  /\ {Referenced(e), OneMoreMove(e), Accounted(e, c, p, origin), Manual(e, c)} \subseteq SoundEntry
         /\ Accounted(e, c, p, origin).target = e.target
  BY CounterType DEF SoundEntry

LEMMA EndedSound ==
  ASSUME NEW e \in SoundEntry
  PROVE  /\ WithoutTarget(e) \in SoundEntry
         /\ Stopped(e) \in SoundEntry
         /\ [e EXCEPT !.safety = FALSE] \in SoundEntry
  BY WithoutTargetType, StoppedType, UnflaggedType DEF SoundEntry

LEMMA ClearedSound ==
  ASSUME NEW s \in [Covers -> SoundEntry], NEW done
  PROVE  /\ ClearNonSafety(s) \in [Covers -> SoundEntry]
         /\ ClearSafety(s) \in [Covers -> SoundEntry]
         /\ StopAll(s, done) \in [Covers -> SoundEntry]
  BY EndedSound DEF ClearNonSafety, ClearSafety, StopAll

LEMMA CallType ==
  ASSUME NEW k \in {"move", "detour", "retry", "stop"}, NEW c \in Covers,
         NEW p \in Positions \cup {Absent}, NEW b \in Birth
  PROVE  CallOf(k, c, p, b) \subseteq Call
  BY DEF CallOf, Call

LEMMA RevokeType ==
  ASSUME NEW b \in Birth, NEW cause \in Causes
  PROVE  Revoke(b, cause) \in Birth
  BY DEF Revoke, Birth

LEMMA RevokeDetoursType ==
  ASSUME NEW D \in SUBSET Detour, NEW cause \in Causes
  PROVE  RevokeDetours(D, cause) \in SUBSET Detour
<1> SUFFICES ASSUME NEW d \in D
             PROVE  [d EXCEPT !.born = Revoke(@, cause)] \in Detour
  BY DEF RevokeDetours
<1> QED BY RevokeType DEF Detour

-----------------------------------------------------------------------------
(* apply_position, from the gates to the call, and its second half.        *)

LEMMA SendSound ==
  ASSUME Inv, NEW c \in Covers, NEW p \in Positions, NEW e \in SoundEntry,
         e.target \in Positions, NEW origin, NEW b \in Birth, Send(c, p, e, origin, b)
  PROVE  st' \in [Covers -> SoundEntry] /\ out' \subseteq Call
<1>1. CASE /\ st' = [st EXCEPT ![c] = Accounted(e, c, p, origin)]
           /\ out' = CallOf("move", c, Routed(c, p), b)
  BY <1>1, CounterSound, RoutedType, CallType DEF Inv
<1>2. CASE st' = [st EXCEPT ![c] = e] /\ out' = {}
  BY <1>2 DEF Inv
<1> QED BY <1>1, <1>2 DEF Send

LEMMA ApplyInv ==
  ASSUME Inv, NEW c \in Covers, NEW p \in Positions, NEW o \in Origins,
         NEW sun \in BOOLEAN, ApplyPosition(c, p, o, sun)
  PROVE  Inv'
<1> DEFINE e == Command(st[c], Routed(c, p), o = "safety")
           b == [safety |-> o = "safety", revoked |-> {}]
           d == [cover |-> c, goal |-> p, generation |-> generation, born |-> b]
           t == Referenced(Track(e, EndStopFor(p)))
<1>1. e \in SoundEntry /\ e \in Entry /\ e.target \in Positions
  <2>1. (o = "safety") \in BOOLEAN /\ st[c] \in Entry /\ Routed(c, p) \in Positions
    BY RoutedType DEF Inv, TypeOK
  <2> QED BY <2>1, CommandType, SentSound
<1>2. b \in Birth /\ d \in Detour
  BY DEF Birth, Detour, Inv, TypeOK
<1>3. st' \in [Covers -> SoundEntry] /\ out' \subseteq Call /\ detours' \subseteq Detour
  <2>1. CASE SendDetour(c, p, e, b)
    <3>1. t \in SoundEntry
      BY <1>1, RoutedType, SentSound, CounterSound
    <3>2. CallOf("detour", c, EndStopFor(p), b) \subseteq Call
      BY <1>2, RoutedType, CallType
    <3> QED BY <2>1, <3>1, <3>2, <1>2 DEF SendDetour, Inv, TypeOK
  <2>2. CASE Send(c, p, e, Reported(c), b) /\ UNCHANGED detours
    BY <2>2, <1>1, <1>2, SendSound DEF Inv, TypeOK
  <2> QED BY <2>1, <2>2 DEF ApplyPosition
<1>4. st' \in [Covers -> Entry]
  BY <1>3 DEF SoundEntry
<1> QED BY <1>2, <1>3, <1>4 DEF ApplyPosition, Inv, TypeOK

LEMMA FinishInv ==
  ASSUME Inv, NEW d \in detours, FinishDetour(d)
  PROVE  Inv'
<1>1. d \in Detour /\ d.cover \in Covers /\ d.goal \in Positions /\ d.born \in Birth
  BY DEF Inv, TypeOK, Detour
<1>2. Track(st[d.cover], d.goal) \in SoundEntry /\ Track(st[d.cover], d.goal).target = d.goal
  BY <1>1, SentSound, TrackType DEF Inv, TypeOK
<1>3. /\ st' \in [Covers -> SoundEntry] /\ out' \subseteq Call
      /\ born' \in [Covers -> Birth]
  BY <1>1, <1>2, SendSound DEF FinishDetour, Inv, TypeOK
<1>4. st' \in [Covers -> Entry]
  BY <1>3 DEF SoundEntry
<1> QED BY <1>3, <1>4 DEF FinishDetour, Inv, TypeOK

-----------------------------------------------------------------------------
(* Reconciliation and state-change events write one record.                *)

LEMMA RecordInv ==
  ASSUME Inv, NEW c \in Covers, NEW e \in SoundEntry,
         st' = [st EXCEPT ![c] = e], out' \subseteq Call,
         UNCHANGED <<enabled, generation, automatic, override, svc, cover, detours,
                     shutdowns, born>>
  PROVE  Inv'
<1>1. st' \in [Covers -> SoundEntry]
  BY DEF Inv
<1>2. st' \in [Covers -> Entry]
  BY <1>1 DEF SoundEntry
<1> QED BY <1>1, <1>2 DEF Inv, TypeOK

LEMMA ReconcileInv ==
  ASSUME Inv, NEW c \in Covers, Reconcile(c)
  PROVE  Inv'
<1> DEFINE e == [st[c] EXCEPT !.waiting = FALSE]
           p == Routed(c, e.target)
<1>1. /\ e \in SoundEntry /\ e \in Entry /\ e.target \in Positions
      /\ [e EXCEPT !.retries = 0] \in SoundEntry
      /\ [e EXCEPT !.gaveUp = TRUE] \in SoundEntry
  BY Counters DEF Reconcile, Inv, SoundEntry, Entry
<1>2. /\ UNCHANGED <<enabled, generation, automatic, override, svc, cover, detours,
                     shutdowns, born>>
      /\ Retry(c, e) \/ GiveUp(c, e) \/ Leave(c, e) \/ Leave(c, [e EXCEPT !.retries = 0])
  BY DEF Reconcile
<1>3. CASE Leave(c, e) \/ Leave(c, [e EXCEPT !.retries = 0]) \/ GiveUp(c, e)
  BY <1>1, <1>2, <1>3, RecordInv DEF Leave, GiveUp
<1>4. CASE Retry(c, e)
  <2>1. p \in Positions /\ born[c] \in Birth
    BY <1>1, RoutedType DEF Inv, TypeOK
  <2>2. out' \subseteq Call
    BY <1>4, <2>1, CallType DEF Retry
  <2>3. e.retries < MaxRetries
    BY <1>4 DEF Retry
  <2>4. Resend(e, p) \in SoundEntry
    BY <1>1, <2>1, <2>3, SentSound
  <2>5. [e EXCEPT !.retries = @ + 1] \in SoundEntry
    <3>1. [e EXCEPT !.retries = @ + 1] \in Entry
      BY <1>1, <2>1, <2>3, ResendType
    <3> QED BY <1>1, <3>1 DEF SoundEntry, Entry
  <2> QED BY <1>2, <1>4, <2>2, <2>4, <2>5, RecordInv DEF Retry
<1> QED BY <1>2, <1>3, <1>4

LEMMA EventInv ==
  ASSUME Inv, NEW c \in Covers,
         CheckTargetReached(c) \/ ClearWaiting(c) \/ RecordProgress(c) \/ TransitTimeout(c)
  PROVE  Inv'
<1>1. /\ [st[c] EXCEPT !.waiting = FALSE, !.retries = 0] \in SoundEntry
      /\ [st[c] EXCEPT !.waiting = FALSE] \in SoundEntry
      /\ [st[c] EXCEPT !.clock = "recent", !.progressed = TRUE] \in SoundEntry
      /\ [st[c] EXCEPT !.clock = "late"] \in SoundEntry
  BY Counters DEF Inv, SoundEntry, Entry
<1>2. PICK e \in SoundEntry : OnRecord(c, e)
  BY <1>1 DEF CheckTargetReached, ClearWaiting, RecordProgress, TransitTimeout
<1> QED BY <1>2, RecordInv DEF OnRecord

-----------------------------------------------------------------------------
(* The user takes over.                                                    *)

LEMMA RevokedType ==
  ASSUME Inv, NEW c, NEW cause \in Causes
  PROVE  /\ Revoked(c, cause) \in [Covers -> Birth]
         /\ \A x \in Covers : Revoke(born[x], cause) \in Birth
  BY RevokeType DEF Inv, TypeOK, Revoked

LEMMA TakenOverType ==
  ASSUME Inv, NEW c
  PROVE  RevokeFor(c) \subseteq Detour /\ Detached(c) \subseteq Shutdown
<1>1. ASSUME NEW d \in detours
      PROVE  (IF d.cover = c THEN [d EXCEPT !.born = Revoke(@, "override")] ELSE d) \in Detour
  BY RevokeType DEF Inv, TypeOK, Detour
<1>2. ASSUME NEW d \in shutdowns
      PROVE  [d EXCEPT !.held = @ /\ d.stopping # c] \in Shutdown
  BY DEF Inv, TypeOK, Shutdown
<1> QED BY <1>1, <1>2 DEF RevokeFor, Detached

LEMMA ManualMoveInv ==
  ASSUME Inv, NEW c \in Covers, ManualMove(c)
  PROVE  Inv'
<1>1. Manual(st[c], c) \in SoundEntry
  BY CounterSound DEF Inv
<1>2. st' \in [Covers -> SoundEntry]
  BY <1>1, NoEntrySound DEF ManualMove, MarkManual, Inv
<1>3. st' \in [Covers -> Entry]
  BY <1>2 DEF SoundEntry
<1>4. /\ override' \subseteq Covers
      /\ detours' \subseteq Detour /\ shutdowns' \subseteq Shutdown
      /\ born' \in [Covers -> Birth]
  BY TakenOverType, RevokedType DEF ManualMove, MarkManual, Inv, TypeOK
<1> QED BY <1>2, <1>3, <1>4 DEF ManualMove, Inv, TypeOK

LEMMA UserStopInv ==
  ASSUME Inv, NEW c \in Covers, NEW my \in Positions, UserStop(c, my)
  PROVE  Inv'
<1>1. ASSUME NEW e \in SoundEntry
      PROVE  [e EXCEPT !.target = my] \in SoundEntry
  BY PositionRange DEF SoundEntry, Entry
<1>2. Manual(st[c], c) \in SoundEntry
  BY CounterSound DEF Inv
<1>3. st' \in [Covers -> SoundEntry]
  BY <1>1, <1>2, NoEntrySound DEF UserStop, MarkManual, Inv
<1>4. st' \in [Covers -> Entry]
  BY <1>3 DEF SoundEntry
<1>5. /\ override' \subseteq Covers
      /\ detours' \subseteq Detour /\ shutdowns' \subseteq Shutdown
  BY TakenOverType DEF UserStop, MarkManual, Inv, TypeOK
<1>6. born' \in [Covers -> Birth]
  BY NoEntryType DEF UserStop, Inv, TypeOK
<1> QED BY <1>3, <1>4, <1>5, <1>6 DEF UserStop, Inv, TypeOK

LEMMA OverrideInv ==
  ASSUME Inv, NEW c \in Covers, MarkUserCommand(c) \/ OverrideClears(c)
  PROVE  Inv'
  BY DEF MarkUserCommand, OverrideClears, OnCoordinator, Inv, TypeOK

-----------------------------------------------------------------------------
(* The coordinator and the master switch.                                  *)

LEMMA CoordinatorInv ==
  ASSUME Inv, ToggleAutomatic \/ (\E window \in BOOLEAN : SyncGates(window)) \/ Enable
  PROVE  Inv'
<1>1. CASE ToggleAutomatic
  BY <1>1 DEF ToggleAutomatic, OnCoordinator, Inv, TypeOK
<1>2. CASE \E window \in BOOLEAN : SyncGates(window)
  BY <1>2 DEF SyncGates, OnCoordinator, Inv, TypeOK
<1>3. CASE Enable
  BY <1>3 DEF Enable, Inv, TypeOK
<1> QED BY <1>1, <1>2, <1>3

LEMMA WindowClosesInv ==
  ASSUME Inv, WindowCloses
  PROVE  Inv'
<1>1. st' \in [Covers -> SoundEntry]
  BY ClearedSound DEF WindowCloses, Inv
<1>2. st' \in [Covers -> Entry]
  BY <1>1 DEF SoundEntry
<1>3. born' \in [Covers -> Birth]
  BY RevokedType DEF WindowCloses, Inv, TypeOK
<1>4. ASSUME NEW d \in detours
      PROVE  (IF d.born.safety THEN d ELSE [d EXCEPT !.born = Revoke(@, "window")]) \in Detour
  BY RevokeType DEF Inv, TypeOK, Detour
<1>5. detours' \subseteq Detour
  BY <1>4 DEF WindowCloses
<1> QED BY <1>1, <1>2, <1>3, <1>5 DEF WindowCloses, Inv, TypeOK

LEMMA RunStopsType ==
  ASSUME Inv, NEW s \in [Covers -> SoundEntry], NEW pending \in SUBSET Covers,
         NEW emergency \in BOOLEAN, NEW others \in SUBSET Shutdown,
         RunStops(s, pending, emergency, others)
  PROVE  /\ st' \in [Covers -> SoundEntry]
         /\ shutdowns' \subseteq Shutdown
         /\ out' \subseteq Call
<1>1. CASE \E c \in pending, done \in SUBSET pending :
             /\ st' = IF emergency THEN s ELSE StopAll(s, done)
             /\ shutdowns' = others \cup
                  {[pending |-> pending \ (done \cup {c}), stopping |-> c, held |-> TRUE,
                    emergency |-> emergency]}
             /\ out' = CallOf("stop", c, Absent, born[c])
  <2>1. PICK c \in pending, done \in SUBSET pending :
             /\ st' = IF emergency THEN s ELSE StopAll(s, done)
             /\ shutdowns' = others \cup
                  {[pending |-> pending \ (done \cup {c}), stopping |-> c, held |-> TRUE,
                    emergency |-> emergency]}
             /\ out' = CallOf("stop", c, Absent, born[c])
    BY <1>1
  <2>2. st' \in [Covers -> SoundEntry]
    BY <2>1, ClearedSound
  <2>3. shutdowns' \subseteq Shutdown
    <3>1. pending \ (done \cup {c}) \in SUBSET Covers /\ c \in Covers
      OBVIOUS
    <3>2. [pending |-> pending \ (done \cup {c}), stopping |-> c, held |-> TRUE,
           emergency |-> emergency] \in Shutdown
      BY <3>1 DEF Shutdown
    <3> QED BY <2>1, <3>2
  <2>4. out' \subseteq Call
    BY <2>1, CallType DEF Inv, TypeOK
  <2> QED BY <2>2, <2>3, <2>4
<1>2. CASE /\ st' = ClearSafety(ClearNonSafety(IF emergency THEN s ELSE StopAll(s, pending)))
           /\ shutdowns' = others
           /\ out' = {}
  BY <1>2, ClearedSound
<1> QED BY <1>1, <1>2 DEF RunStops

LEMMA DisableInv ==
  ASSUME Inv, NEW entities \in SUBSET Covers, NEW emergency \in BOOLEAN,
         Disable(entities, emergency)
  PROVE  Inv'
<1> DEFINE pending == {c \in entities : emergency \/ st[c].waiting}
<1>1. /\ pending \in SUBSET Covers
      /\ shutdowns \in SUBSET Shutdown /\ st \in [Covers -> SoundEntry]
  BY DEF Inv, TypeOK
<1>2. /\ st' \in [Covers -> SoundEntry] /\ shutdowns' \subseteq Shutdown /\ out' \subseteq Call
  <2>1. RunStops(st, pending, emergency, shutdowns)
    BY DEF Disable
  <2> HIDE DEF pending
  <2> QED BY <1>1, <2>1, RunStopsType
<1>3. st' \in [Covers -> Entry]
  BY <1>2 DEF SoundEntry
<1>4. born' \in [Covers -> Birth]
  BY RevokedType DEF Disable
<1>5. detours' \subseteq Detour
  BY RevokeDetoursType DEF Disable, Inv, TypeOK
<1>6. generation' \in Nat
  BY DEF Disable, Inv, TypeOK
<1> QED BY <1>2, <1>3, <1>4, <1>5, <1>6 DEF Disable, Inv, TypeOK

LEMMA StopReturnsInv ==
  ASSUME Inv, NEW d \in shutdowns, NEW accepted \in BOOLEAN, StopReturns(d, accepted)
  PROVE  Inv'
<1> DEFINE c == d.stopping
           s == IF d.held /\ ~d.emergency THEN [st EXCEPT ![c] = Stopped(@)] ELSE st
<1>1. /\ c \in Covers /\ d.pending \in SUBSET Covers /\ d.emergency \in BOOLEAN
      /\ shutdowns \ {d} \in SUBSET Shutdown
  BY DEF Inv, TypeOK, Shutdown
<1>2. s \in [Covers -> SoundEntry]
  BY <1>1, EndedSound DEF Inv
<1>3. /\ st' \in [Covers -> SoundEntry] /\ shutdowns' \subseteq Shutdown /\ out' \subseteq Call
  <2>1. RunStops(s, d.pending, d.emergency, shutdowns \ {d})
    BY DEF StopReturns
  <2> HIDE DEF s
  <2> QED BY <1>1, <1>2, <2>1, RunStopsType
<1>4. st' \in [Covers -> Entry]
  BY <1>3 DEF SoundEntry
<1>5. cover' \in [Covers -> [pos : Positions \cup {Absent},
                             state : {"idle", "moving", "unavailable"}]]
  BY <1>1 DEF StopReturns, Inv, TypeOK
<1> QED BY <1>3, <1>4, <1>5 DEF StopReturns, Inv, TypeOK

LEMMA CoverReportsInv ==
  ASSUME Inv, NEW c \in Covers, NEW p \in Positions \cup {Absent},
         NEW s \in {"idle", "moving", "unavailable"}, CoverReports(c, p, s)
  PROVE  Inv'
  BY DEF CoverReports, Inv, TypeOK

-----------------------------------------------------------------------------
LEMMA InitInv == Init => Inv
<1> SUFFICES ASSUME Init PROVE Inv
  OBVIOUS
<1>1. st \in [Covers -> SoundEntry] /\ st \in [Covers -> Entry]
  BY NoEntrySound, NoEntryType DEF Init
<1>2. born \in [Covers -> Birth]
  BY NoEntryType DEF Init
<1>3. cover \in [Covers -> [pos : Positions \cup {Absent},
                            state : {"idle", "moving", "unavailable"}]]
  BY DEF Init
<1> QED BY <1>1, <1>2, <1>3 DEF Init, Inv, TypeOK

LEMMA NextInv == Inv /\ [Next]_vars => Inv'
<1> SUFFICES ASSUME Inv, [Next]_vars PROVE Inv'
  OBVIOUS
<1>1. ASSUME NEW c \in Covers, CoverNext(c) PROVE Inv'
  BY <1>1, ApplyInv, ReconcileInv, EventInv, ManualMoveInv, OverrideInv, UserStopInv,
     CoverReportsInv DEF CoverNext
<1>2. ASSUME NEW d \in detours, FinishDetour(d) PROVE Inv'
  BY <1>2, FinishInv
<1>3. CASE ToggleAutomatic \/ (\E window \in BOOLEAN : SyncGates(window)) \/ Enable
  BY <1>3, CoordinatorInv
<1>4. CASE WindowCloses
  BY <1>4, WindowClosesInv
<1>5. ASSUME NEW entities \in SUBSET Covers \ {{}}, NEW emergency \in BOOLEAN,
             Disable(entities, emergency)
      PROVE  Inv'
  BY <1>5, DisableInv
<1>6. ASSUME NEW d \in shutdowns, NEW accepted \in BOOLEAN, StopReturns(d, accepted)
      PROVE  Inv'
  BY <1>6, StopReturnsInv
<1>7. CASE UNCHANGED vars
  BY <1>7 DEF vars, Inv, TypeOK
<1> QED BY <1>1, <1>2, <1>3, <1>4, <1>5, <1>6, <1>7 DEF Next

(* Every record, parked call and service call is well formed, whatever the *)
(* covers, limits and flags: the retry counter never passes its limit and  *)
(* every target is a position.                                             *)
THEOREM TypeCorrect == Spec => []TypeOK
<1>1. Spec => []Inv
  BY InitInv, NextInv, PTL DEF Spec
<1> QED BY <1>1, InvMeaning, PTL

(* No record ever waits for a cover without a target and a time, so the    *)
(* reconciliation pass and the transit timeout can always end the wait.    *)
THEOREM WaitsEnd == Spec => []WaitingCanExpire
<1>1. Spec => []Inv
  BY InitInv, NextInv, PTL DEF Spec
<1> QED BY <1>1, InvMeaning, PTL

-----------------------------------------------------------------------------
(* The kill switch.  KillSwitchFinal speaks of the calls of one step; what *)
(* carries it from step to step is that every parked call that a disable   *)
(* has overtaken holds an older generation.                                *)

LEMMA RevokedIn ==
  ASSUME NEW d \in Detour, NEW cause
  PROVE  LET r == [d EXCEPT !.born = Revoke(@, cause)]
         IN  /\ r.generation = d.generation /\ d.generation \in Nat
             /\ r.born.revoked = d.born.revoked \cup {cause}
  BY DEF Revoke, Detour, Birth

(* Parked calls keep their generation and their causes, and no new one     *)
(* appears: enough for every step but ApplyPosition and Disable.           *)
LEMMA OlderDetours ==
  ASSUME Inv, DetoursKnowDisable, generation' = generation, enabled' = enabled,
         \A d \in detours' : \E d0 \in detours :
            /\ d.generation = d0.generation
            /\ "disable" \in d.born.revoked => "disable" \in d0.born.revoked
  PROVE  DetoursKnowDisable'
  BY DEF DetoursKnowDisable

LEMMA RevokeForOlder ==
  ASSUME Inv, NEW c
  PROVE  \A d \in RevokeFor(c) : \E d0 \in detours :
            /\ d.generation = d0.generation
            /\ "disable" \in d.born.revoked => "disable" \in d0.born.revoked
<1>1. SUFFICES ASSUME NEW d0 \in detours
               PROVE  LET d == IF d0.cover = c THEN [d0 EXCEPT !.born = Revoke(@, "override")] ELSE d0
                      IN  /\ d.generation = d0.generation
                          /\ "disable" \in d.born.revoked => "disable" \in d0.born.revoked
  BY DEF RevokeFor
<1> QED BY RevokedIn DEF Inv, TypeOK

LEMMA NextDetours ==
  ASSUME Inv, DetoursKnowDisable, [Next]_vars
  PROVE  DetoursKnowDisable'
<1>1. ASSUME UNCHANGED <<enabled, generation, detours>> PROVE DetoursKnowDisable'
  BY <1>1 DEF DetoursKnowDisable
<1>2. ASSUME NEW c \in Covers, CoverNext(c) PROVE DetoursKnowDisable'
  <2>1. ASSUME NEW p \in Positions, NEW o \in Origins, NEW sun \in BOOLEAN,
               ApplyPosition(c, p, o, sun)
        PROVE  DetoursKnowDisable'
    <3> DEFINE b == [safety |-> o = "safety", revoked |-> {}]
               d == [cover |-> c, goal |-> p, generation |-> generation, born |-> b]
    <3>1. enabled /\ enabled' = enabled /\ generation' = generation /\ generation \in Nat
      BY <2>1 DEF ApplyPosition, Admitted, Inv, TypeOK
    <3>2. detours' \subseteq detours \cup {d}
      BY <2>1 DEF ApplyPosition, SendDetour
    <3>3. d.generation = generation /\ "disable" \notin d.born.revoked
      OBVIOUS
    <3> QED BY <3>1, <3>2, <3>3 DEF DetoursKnowDisable
  <2>2. CASE Reconcile(c)
    BY <1>1, <2>2 DEF Reconcile
  <2>3. CASE CheckTargetReached(c) \/ ClearWaiting(c) \/ RecordProgress(c) \/ TransitTimeout(c)
    BY <1>1, <2>3 DEF CheckTargetReached, ClearWaiting, RecordProgress, TransitTimeout, OnRecord
  <2>4. CASE ManualMove(c)
    <3>1. enabled' = enabled /\ generation' = generation
          /\ (detours' = detours \/ detours' = RevokeFor(c))
      BY <2>4 DEF ManualMove, MarkManual
    <3> QED BY <1>1, <3>1, RevokeForOlder, OlderDetours
  <2>5. ASSUME NEW my \in Positions, UserStop(c, my)
        PROVE  DetoursKnowDisable'
    <3>1. enabled' = enabled /\ generation' = generation
          /\ (detours' = detours \/ detours' = RevokeFor(c))
      BY <2>5 DEF UserStop, MarkManual
    <3> QED BY <1>1, <3>1, RevokeForOlder, OlderDetours
  <2>6. CASE MarkUserCommand(c) \/ OverrideClears(c)
    BY <1>1, <2>6 DEF MarkUserCommand, OverrideClears, OnCoordinator
  <2>7. ASSUME NEW p \in Positions \cup {Absent}, NEW s \in {"idle", "moving", "unavailable"},
               CoverReports(c, p, s)
        PROVE  DetoursKnowDisable'
    BY <1>1, <2>7 DEF CoverReports
  <2> QED BY <1>2, <2>1, <2>2, <2>3, <2>4, <2>5, <2>6, <2>7 DEF CoverNext
<1>3. ASSUME NEW d \in detours, FinishDetour(d) PROVE DetoursKnowDisable'
  BY <1>3, OlderDetours DEF FinishDetour
<1>4. CASE ToggleAutomatic \/ \E window \in BOOLEAN : SyncGates(window)
  BY <1>1, <1>4 DEF ToggleAutomatic, SyncGates, OnCoordinator
<1>5. CASE WindowCloses
  <2> DEFINE swept(d) == IF d.born.safety THEN d ELSE [d EXCEPT !.born = Revoke(@, "window")]
  <2>1. ASSUME NEW d0 \in detours
        PROVE  /\ swept(d0).generation = d0.generation
               /\ "disable" \in swept(d0).born.revoked => "disable" \in d0.born.revoked
    BY RevokedIn DEF Inv, TypeOK
  <2>2. detours' = {swept(d) : d \in detours}
    BY <1>5 DEF WindowCloses
  <2>3. generation' = generation /\ enabled' = enabled
    BY <1>5 DEF WindowCloses
  <2> HIDE DEF swept
  <2> QED BY <2>1, <2>2, <2>3, OlderDetours
<1>6. CASE Enable
  <2>1. ~enabled /\ generation' = generation /\ detours' = detours
    BY <1>6 DEF Enable
  <2>2. \A d \in detours : d.generation <= generation /\ d.generation < generation
    BY <2>1 DEF DetoursKnowDisable
  <2>3. \A d \in detours' : d.generation <= generation' /\ d.generation < generation'
    BY <2>1, <2>2
  <2> QED BY <2>3 DEF DetoursKnowDisable
<1>7. ASSUME NEW entities \in SUBSET Covers \ {{}}, NEW emergency \in BOOLEAN,
             Disable(entities, emergency)
      PROVE  DetoursKnowDisable'
  <2>1. /\ enabled' = FALSE /\ generation \in Nat
        /\ generation' = IF enabled THEN generation + 1 ELSE generation
        /\ detours' = RevokeDetours(detours, "disable")
    BY <1>7 DEF Disable, Inv, TypeOK
  <2>2. ASSUME NEW d \in detours PROVE d.generation \in Nat /\ d.generation < generation'
    BY <2>1 DEF DetoursKnowDisable, Inv, TypeOK, Detour
  <2>3. \A d \in detours' : d.generation \in Nat /\ d.generation < generation'
    <3>1. ASSUME NEW d0 \in detours
          PROVE  [d0 EXCEPT !.born = Revoke(@, "disable")].generation = d0.generation
      BY RevokedIn DEF Inv, TypeOK
    <3> QED BY <2>1, <2>2, <3>1 DEF RevokeDetours
  <2>4. generation' \in Nat
    BY <2>1
  <2> QED BY <2>1, <2>3, <2>4 DEF DetoursKnowDisable
<1>8. ASSUME NEW d \in shutdowns, NEW accepted \in BOOLEAN, StopReturns(d, accepted)
      PROVE  DetoursKnowDisable'
  BY <1>1, <1>8 DEF StopReturns
<1>9. CASE UNCHANGED vars
  BY <1>1, <1>9 DEF vars
<1> QED BY <1>2, <1>3, <1>4, <1>5, <1>6, <1>7, <1>8, <1>9 DEF Next

LEMMA DetoursKnow == Spec => []DetoursKnowDisable
<1>1. Spec => []Inv
  BY InitInv, NextInv, PTL DEF Spec
<1>2. Init => DetoursKnowDisable
  BY DEF Init, DetoursKnowDisable
<1>3. Inv /\ DetoursKnowDisable /\ [Next]_vars => DetoursKnowDisable'
  BY NextDetours
<1> QED BY <1>1, <1>2, <1>3, PTL DEF Spec

(* The calls a step makes, whatever step it is.                            *)
LEMMA SendAllowed ==
  ASSUME NEW c, NEW p, NEW e, NEW origin, NEW b, Send(c, p, e, origin, b),
         enabled', "disable" \notin b.revoked
  PROVE  KillSwitchFinal'
  BY DEF Send, CallOf, KillSwitchFinal

LEMMA RunStopsAllowed ==
  ASSUME NEW s, NEW pending, NEW emergency, NEW others,
         RunStops(s, pending, emergency, others)
  PROVE  KillSwitchFinal'
  BY DEF RunStops, CallOf, KillSwitchFinal

LEMMA NextAllowed ==
  ASSUME Inv, DetoursKnowDisable, KillSwitchFinal, [Next]_vars
  PROVE  KillSwitchFinal'
<1>1. ASSUME out' = {} PROVE KillSwitchFinal'
  BY <1>1 DEF KillSwitchFinal
<1>2. ASSUME NEW c \in Covers, CoverNext(c) PROVE KillSwitchFinal'
  <2>1. ASSUME NEW p \in Positions, NEW o \in Origins, NEW sun \in BOOLEAN,
               ApplyPosition(c, p, o, sun)
        PROVE  KillSwitchFinal'
    <3> DEFINE e == Command(st[c], Routed(c, p), o = "safety")
               b == [safety |-> o = "safety", revoked |-> {}]
    <3>1. enabled' /\ "disable" \notin b.revoked
      BY <2>1 DEF ApplyPosition, Admitted
    <3>2. SendDetour(c, p, e, b) \/ Send(c, p, e, Reported(c), b)
      BY <2>1 DEF ApplyPosition
    <3>3. CASE SendDetour(c, p, e, b)
      <4>1. out' = CallOf("detour", c, EndStopFor(p), b)
        BY <3>3 DEF SendDetour
      <4> QED BY <3>1, <4>1 DEF CallOf, KillSwitchFinal
    <3>4. CASE Send(c, p, e, Reported(c), b)
      BY <3>1, <3>4, SendAllowed
    <3> QED BY <3>2, <3>3, <3>4
  <2>2. CASE Reconcile(c)
    <3>1. enabled'
      BY <2>2 DEF Reconcile
    <3>2. \A k \in out' : k.kind = "retry"
      BY <2>2 DEF Reconcile, Retry, GiveUp, Leave, CallOf
    <3> QED BY <3>1, <3>2 DEF KillSwitchFinal
  <2>3. CASE \/ CheckTargetReached(c) \/ ClearWaiting(c) \/ RecordProgress(c)
             \/ TransitTimeout(c) \/ ManualMove(c) \/ MarkUserCommand(c)
             \/ OverrideClears(c) \/ (\E my \in Positions : UserStop(c, my))
             \/ \E p \in Positions \cup {Absent}, s \in {"idle", "moving", "unavailable"} :
                  CoverReports(c, p, s)
    BY <1>1, <2>3 DEF CheckTargetReached, ClearWaiting, RecordProgress, TransitTimeout,
       OnRecord, ManualMove, MarkUserCommand, OverrideClears, OnCoordinator, UserStop,
       CoverReports
  <2> QED BY <1>2, <2>1, <2>2, <2>3 DEF CoverNext
<1>3. ASSUME NEW d \in detours, FinishDetour(d) PROVE KillSwitchFinal'
  <2>1. CASE enabled /\ d.generation = generation
    <3>1. enabled' /\ d.generation \in Nat /\ generation \in Nat
      BY <1>3, <2>1 DEF FinishDetour, Inv, TypeOK, Detour
    <3>2. "disable" \notin d.born.revoked
      BY <2>1, <3>1 DEF DetoursKnowDisable
    <3> QED BY <1>3, <2>1, <3>1, <3>2, SendAllowed DEF FinishDetour
  <2>2. CASE ~(enabled /\ d.generation = generation)
    BY <1>1, <1>3, <2>2 DEF FinishDetour
  <2> QED BY <2>1, <2>2
<1>4. CASE \/ ToggleAutomatic \/ WindowCloses \/ Enable
           \/ \E window \in BOOLEAN : SyncGates(window)
  BY <1>1, <1>4 DEF ToggleAutomatic, WindowCloses, Enable, SyncGates, OnCoordinator
<1>5. ASSUME NEW entities \in SUBSET Covers \ {{}}, NEW emergency \in BOOLEAN,
             Disable(entities, emergency)
      PROVE  KillSwitchFinal'
  BY <1>5, RunStopsAllowed DEF Disable
<1>6. ASSUME NEW d \in shutdowns, NEW accepted \in BOOLEAN, StopReturns(d, accepted)
      PROVE  KillSwitchFinal'
  BY <1>6, RunStopsAllowed DEF StopReturns
<1>7. CASE UNCHANGED vars
  BY <1>7 DEF vars, KillSwitchFinal
<1> QED BY <1>2, <1>3, <1>4, <1>5, <1>6, <1>7 DEF Next

(* The kill switch is final: no positioning call is made while disabled,   *)
(* and a call parked in a detour when the switch was thrown never sends    *)
(* its final leg, however often the integration is re-enabled meanwhile.   *)
THEOREM KillSwitchIsFinal == Spec => []KillSwitchFinal
<1>1. Spec => []Inv
  BY InitInv, NextInv, PTL DEF Spec
<1>2. Init => KillSwitchFinal
  BY DEF Init, KillSwitchFinal
<1>3. Inv /\ DetoursKnowDisable /\ KillSwitchFinal /\ [Next]_vars => KillSwitchFinal'
  BY NextAllowed
<1> QED BY <1>1, <1>2, <1>3, DetoursKnow, PTL DEF Spec

-----------------------------------------------------------------------------
(* The record names the command.  A final leg records the position of the   *)
(* call itself: it is not routed, for only a cover that takes positions is  *)
(* sent on a detour.                                                        *)
Steered == \A d \in detours : Caps[d.cover] = "position"

LEMMA SendNames ==
  ASSUME Inv, NEW c \in Covers, NEW e \in SoundEntry, NEW p, e.target = Routed(c, p),
         NEW origin, NEW b, Send(c, p, e, origin, b)
  PROVE  RecordNamesCommand'
<1>1. Accounted(e, c, p, origin).target = e.target
  BY CounterSound
<1>2. CASE st' = [st EXCEPT ![c] = Accounted(e, c, p, origin)]
           /\ out' = CallOf("move", c, Routed(c, p), b)
  <2>1. st'[c].target = Routed(c, p)
    BY <1>1, <1>2 DEF Inv
  <2> QED BY <1>2, <2>1 DEF CallOf, RecordNamesCommand
<1>3. CASE out' = {}
  BY <1>3 DEF RecordNamesCommand
<1> QED BY <1>2, <1>3 DEF Send

LEMMA RevokedCover ==
  ASSUME Inv, NEW d \in detours, NEW cause
  PROVE  [d EXCEPT !.born = Revoke(@, cause)].cover = d.cover
  BY DEF Inv, TypeOK, Detour

LEMMA NextSteered == ASSUME Inv, Steered, [Next]_vars PROVE Steered'
<1>1. ASSUME \A d \in detours' : \E d0 \in detours : d.cover = d0.cover PROVE Steered'
  BY <1>1 DEF Steered
<1>2. ASSUME NEW c \in Covers, NEW p \in Positions, NEW o \in Origins, NEW sun \in BOOLEAN,
             ApplyPosition(c, p, o, sun)
      PROVE  Steered'
  <2> DEFINE b == [safety |-> o = "safety", revoked |-> {}]
             d == [cover |-> c, goal |-> p, generation |-> generation, born |-> b]
  <2>1. CASE detours' = detours \cup {d} /\ DetourDue(c, p)
    BY <2>1 DEF DetourDue, Steered
  <2>2. CASE detours' = detours
    BY <1>1, <2>2
  <2> QED BY <1>2, <2>1, <2>2 DEF ApplyPosition, SendDetour
<1>3. ASSUME NEW c, detours' = RevokeFor(c) PROVE Steered'
  BY <1>1, <1>3, RevokedCover DEF RevokeFor
<1>4. ASSUME NEW d \in detours, FinishDetour(d) PROVE Steered'
  BY <1>1, <1>4 DEF FinishDetour
<1>5. CASE WindowCloses
  <2>1. ASSUME NEW d0 \in detours
        PROVE (IF d0.born.safety THEN d0 ELSE [d0 EXCEPT !.born = Revoke(@, "window")]).cover
                = d0.cover
    BY RevokedCover
  <2> QED BY <1>1, <1>5, <2>1 DEF WindowCloses
<1>6. ASSUME NEW entities, NEW emergency, Disable(entities, emergency) PROVE Steered'
  <2>1. detours' = {[d EXCEPT !.born = Revoke(@, "disable")] : d \in detours}
    BY <1>6 DEF Disable, RevokeDetours
  <2>2. ASSUME NEW d \in detours'
        PROVE  \E d0 \in detours : d.cover = d0.cover
    <3>1. PICK d0 \in detours : d = [d0 EXCEPT !.born = Revoke(@, "disable")]
      BY <2>1
    <3> QED BY <3>1, RevokedCover
  <2> QED BY <1>1, <2>2
<1>7. CASE UNCHANGED detours
  BY <1>1, <1>7
<1>8. ASSUME NEW c \in Covers, ManualMove(c) \/ \E my \in Positions : UserStop(c, my)
      PROVE  Steered'
  BY <1>3, <1>7, <1>8 DEF ManualMove, UserStop, MarkManual
<1>9. ASSUME NEW c \in Covers,
             \/ Reconcile(c) \/ CheckTargetReached(c) \/ ClearWaiting(c) \/ RecordProgress(c)
             \/ TransitTimeout(c) \/ MarkUserCommand(c) \/ OverrideClears(c)
             \/ \E p \in Positions \cup {Absent}, s \in {"idle", "moving", "unavailable"} :
                  CoverReports(c, p, s)
      PROVE  Steered'
  BY <1>7, <1>9 DEF Reconcile, CheckTargetReached, ClearWaiting, RecordProgress, TransitTimeout,
     OnRecord, MarkUserCommand, OverrideClears, OnCoordinator, CoverReports
<1>10. CASE \/ ToggleAutomatic \/ Enable \/ UNCHANGED vars
            \/ \E window \in BOOLEAN : SyncGates(window)
            \/ \E d \in shutdowns, accepted \in BOOLEAN : StopReturns(d, accepted)
  BY <1>7, <1>10 DEF ToggleAutomatic, Enable, SyncGates, OnCoordinator, StopReturns, vars
<1> QED BY <1>2, <1>4, <1>5, <1>6, <1>8, <1>9, <1>10 DEF Next, CoverNext

LEMMA ReconcileNames ==
  ASSUME Inv, NEW c \in Covers, Reconcile(c) PROVE RecordNamesCommand'
<1> DEFINE e == [st[c] EXCEPT !.waiting = FALSE]
           p == Routed(c, e.target)
<1>1. e \in Entry
  <2>1. st[c] \in Entry
    BY DEF Inv, TypeOK
  <2> QED BY <2>1 DEF Entry
<1>2. CASE out' = {}
  BY <1>2 DEF RecordNamesCommand
<1>3. CASE st' = [st EXCEPT ![c] = Resend(e, p)] /\ out' = CallOf("retry", c, p, born[c])
  <2>1. Resend(e, p).target = p
    BY <1>1 DEF Resend, Track, Entry
  <2> HIDE DEF e, p
  <2>2. st'[c].target = p
    BY <1>3, <2>1 DEF Inv
  <2> QED BY <1>3, <2>2 DEF CallOf, RecordNamesCommand
<1> QED BY <1>2, <1>3 DEF Reconcile, Leave, GiveUp, Retry

LEMMA NextNames ==
  ASSUME Inv, Steered, RecordNamesCommand, [Next]_vars PROVE RecordNamesCommand'
<1>1. ASSUME \A k \in out' : k.kind = "stop" PROVE RecordNamesCommand'
  BY <1>1 DEF RecordNamesCommand
<1>2. ASSUME NEW c \in Covers, NEW p \in Positions, NEW o \in Origins, NEW sun \in BOOLEAN,
             ApplyPosition(c, p, o, sun)
      PROVE  RecordNamesCommand'
  <2> DEFINE e == Command(st[c], Routed(c, p), o = "safety")
             b == [safety |-> o = "safety", revoked |-> {}]
  <2>1. e \in SoundEntry /\ e.target = Routed(c, p) /\ e \in Entry
    <3>1. (o = "safety") \in BOOLEAN /\ st[c] \in Entry /\ Routed(c, p) \in Positions
      BY RoutedType DEF Inv, TypeOK
    <3> QED BY <3>1, CommandType, SentSound
  <2>2. CASE SendDetour(c, p, e, b)
    <3> DEFINE t == Track(e, EndStopFor(p))
    <3>1. t \in Entry /\ t.target = EndStopFor(p) /\ t \in SoundEntry
      BY <2>1, RoutedType, TrackType, SentSound
    <3>2. Referenced(t).target = EndStopFor(p)
      BY <3>1 DEF Referenced, Entry
    <3>3. st' = [st EXCEPT ![c] = Referenced(t)]
          /\ out' = CallOf("detour", c, EndStopFor(p), b)
      BY <2>2 DEF SendDetour
    <3> HIDE DEF t
    <3>4. st'[c].target = EndStopFor(p)
      BY <3>2, <3>3 DEF Inv
    <3> QED BY <3>3, <3>4 DEF CallOf, RecordNamesCommand
  <2>3. CASE Send(c, p, e, Reported(c), b)
    <3> HIDE DEF e, b
    <3> QED BY <2>1, <2>3, SendNames
  <2> QED BY <1>2, <2>2, <2>3 DEF ApplyPosition
<1>3. ASSUME NEW d \in detours, FinishDetour(d) PROVE RecordNamesCommand'
  <2> DEFINE e == Track(st[d.cover], d.goal)
  <2>1. d.cover \in Covers /\ d.goal \in Positions /\ Routed(d.cover, d.goal) = d.goal
    <3>1. d \in Detour /\ Caps[d.cover] = "position"
      BY DEF Inv, TypeOK, Steered
    <3>2. d.cover \in Covers /\ d.goal \in Positions
      BY <3>1 DEF Detour
    <3> QED BY <3>1, <3>2 DEF Routed
  <2>2. e \in SoundEntry /\ e.target = Routed(d.cover, d.goal)
    BY <2>1, SentSound, TrackType DEF Inv, TypeOK
  <2>3. CASE Send(d.cover, d.goal, e, EndStopFor(d.goal), d.born)
    <3> HIDE DEF e
    <3> QED BY <2>1, <2>2, <2>3, SendNames
  <2>4. CASE out' = {}
    BY <1>1, <2>4
  <2> QED BY <1>3, <2>3, <2>4 DEF FinishDetour
<1>4. ASSUME NEW c \in Covers,
             \/ CheckTargetReached(c) \/ ClearWaiting(c) \/ RecordProgress(c)
             \/ TransitTimeout(c) \/ ManualMove(c) \/ MarkUserCommand(c)
             \/ OverrideClears(c) \/ (\E my \in Positions : UserStop(c, my))
             \/ \E p \in Positions \cup {Absent}, s \in {"idle", "moving", "unavailable"} :
                  CoverReports(c, p, s)
      PROVE  RecordNamesCommand'
  <2>1. out' = {}
    BY <1>4 DEF CheckTargetReached, ClearWaiting, RecordProgress, TransitTimeout,
       OnRecord, ManualMove, MarkUserCommand, OverrideClears, OnCoordinator, UserStop,
       CoverReports
  <2> QED BY <1>1, <2>1
<1>5. CASE \/ ToggleAutomatic \/ WindowCloses \/ Enable
           \/ \E window \in BOOLEAN : SyncGates(window)
  <2>1. out' = {}
    BY <1>5 DEF ToggleAutomatic, WindowCloses, Enable, SyncGates, OnCoordinator
  <2> QED BY <1>1, <2>1
<1>6. ASSUME NEW entities \in SUBSET Covers \ {{}}, NEW emergency \in BOOLEAN,
             Disable(entities, emergency)
      PROVE  RecordNamesCommand'
  BY <1>1, <1>6 DEF Disable, RunStops, CallOf
<1>7. ASSUME NEW d \in shutdowns, NEW accepted \in BOOLEAN, StopReturns(d, accepted)
      PROVE  RecordNamesCommand'
  BY <1>1, <1>7 DEF StopReturns, RunStops, CallOf
<1>8. CASE UNCHANGED vars
  BY <1>8 DEF vars, RecordNamesCommand
<1> QED BY <1>2, <1>3, <1>4, <1>5, <1>6, <1>7, <1>8, ReconcileNames DEF Next, CoverNext

(* Whatever positioning call the service makes, the record names its        *)
(* position in the step of the call, also when a call parked in a detour    *)
(* puts back a record dropped meanwhile: reconciliation, the classifier and *)
(* override detection compare with what the cover was told.                 *)
THEOREM RecordAlwaysNames == Spec => []RecordNamesCommand
<1>1. Spec => []Inv
  BY InitInv, NextInv, PTL DEF Spec
<1>2. Init => Steered /\ RecordNamesCommand
  BY DEF Init, Steered, RecordNamesCommand
<1>3. Inv /\ Steered /\ RecordNamesCommand /\ [Next]_vars => Steered' /\ RecordNamesCommand'
  BY NextSteered, NextNames
<1> QED BY <1>1, <1>2, <1>3, PTL DEF Spec

-----------------------------------------------------------------------------
(* Targets and where they come from, without the detour.  A recorded target *)
(* is younger than the last event that dropped one, and, as long as nobody  *)
(* presses stop, a record flagged for safety was commanded for safety.      *)
Dropped    == {"override", "window"}
Owned(e, b) == /\ e.target # Absent => b.revoked \cap Dropped = {}
               /\ "stop" \notin Env /\ e.safety => b.safety
Traced == detours = {} /\ \A c \in Covers : Owned(st[c], born[c])

(* A record that has not gained a target or the flag.                       *)
Descends(f, e) == f.target \in {e.target, Absent} /\ (f.safety => e.safety)

LEMMA DescendsOwned ==
  ASSUME NEW e, NEW f, NEW b, Descends(f, e), Owned(e, b) PROVE Owned(f, b)
  BY DEF Descends, Owned

LEMMA DescendsOn ==
  ASSUME NEW e, NEW f, NEW g, Descends(f, e), Descends(g, f) PROVE Descends(g, e)
  BY DEF Descends

LEMMA Endings ==
  ASSUME NEW e \in Entry
  PROVE  /\ Descends(e, e) /\ Descends(NoEntry, e)
         /\ Descends(Stopped(e), e) /\ Descends(WithoutTarget(e), e)
         /\ Descends([e EXCEPT !.safety = FALSE], e)
         /\ Descends([e EXCEPT !.waiting = FALSE], e)
         /\ Descends([e EXCEPT !.waiting = FALSE, !.retries = 0], e)
         /\ Descends([e EXCEPT !.clock = "recent", !.progressed = TRUE], e)
         /\ Descends([e EXCEPT !.clock = "late"], e)
         /\ Descends([e EXCEPT !.gaveUp = TRUE], e) /\ Descends([e EXCEPT !.retries = 0], e)
         /\ Descends([e EXCEPT !.retries = @ + 1], e)
  BY DEF Descends, NoEntry, Stopped, WithoutTarget, Entry

LEMMA CountedSafety ==
  ASSUME NEW e \in Entry, NEW c, NEW p, NEW origin
  PROVE  /\ Accounted(e, c, p, origin).safety = e.safety
         /\ Descends(Manual(e, c), e)
<1>1. Referenced(e).safety = e.safety /\ OneMoreMove(e).safety = e.safety
  BY DEF Referenced, OneMoreMove, Entry
<1>2. Accounted(e, c, p, origin).safety = e.safety
  BY <1>1 DEF Accounted
<1>3. Manual(e, c).safety = e.safety /\ Manual(e, c).target = e.target
  BY <1>1, CounterType DEF Manual
<1> QED BY <1>2, <1>3 DEF Descends

(* Every record descends from its own, and its command has at most been     *)
(* overtaken by a disable.                                                  *)
LEMMA TracedFrom ==
  ASSUME Inv, Traced, detours' = {},
         \A c \in Covers : Descends(st'[c], st[c]) /\ born'[c] \in {born[c], Revoke(born[c], "disable")}
  PROVE  Traced'
<1> SUFFICES ASSUME NEW c \in Covers PROVE Owned(st'[c], born'[c])
  BY DEF Traced
<1>1. Owned(st'[c], born[c])
  BY DescendsOwned DEF Traced
<1>2. born[c] \in Birth
  BY DEF Inv, TypeOK
<1>3. Owned(st'[c], Revoke(born[c], "disable"))
  BY <1>1, <1>2 DEF Owned, Revoke, Birth, Dropped
<1> QED BY <1>1, <1>3

LEMMA ClearedDescends ==
  ASSUME NEW s \in [Covers -> SoundEntry], NEW done, NEW c \in Covers
  PROVE  /\ Descends(ClearNonSafety(s)[c], s[c]) /\ Descends(ClearSafety(s)[c], s[c])
         /\ Descends(StopAll(s, done)[c], s[c])
<1>1. s[c] \in Entry
  BY DEF SoundEntry
<1> QED BY <1>1, Endings DEF ClearNonSafety, ClearSafety, StopAll

LEMMA RunStopsDescends ==
  ASSUME NEW s \in [Covers -> SoundEntry], NEW pending, NEW emergency, NEW others,
         RunStops(s, pending, emergency, others)
  PROVE  /\ \A c \in Covers : Descends(st'[c], s[c])
         /\ \A k \in out' : k.kind = "stop"
<1>0. /\ \A k \in out' : k.kind = "stop"
      /\ \/ \E done : st' = IF emergency THEN s ELSE StopAll(s, done)
         \/ st' = ClearSafety(ClearNonSafety(IF emergency THEN s ELSE StopAll(s, pending)))
  BY DEF RunStops, CallOf
<1>1. \A done : (IF emergency THEN s ELSE StopAll(s, done)) \in [Covers -> SoundEntry]
  BY ClearedSound
<1>2. ASSUME NEW done, NEW c \in Covers
      PROVE  Descends((IF emergency THEN s ELSE StopAll(s, done))[c], s[c])
  <2>1. Descends(s[c], s[c])
    BY DEF Descends
  <2> QED BY <2>1, ClearedDescends
<1>3. CASE \E done : st' = IF emergency THEN s ELSE StopAll(s, done)
  BY <1>0, <1>2, <1>3
<1>4. CASE st' = ClearSafety(ClearNonSafety(IF emergency THEN s ELSE StopAll(s, pending)))
  <2> DEFINE t == IF emergency THEN s ELSE StopAll(s, pending)
  <2>1. t \in [Covers -> SoundEntry] /\ ClearNonSafety(t) \in [Covers -> SoundEntry]
    BY <1>1, ClearedSound
  <2>2. ASSUME NEW c \in Covers PROVE Descends(st'[c], s[c])
    <3>1. Descends(t[c], s[c])
      BY <1>2
    <3> HIDE DEF t
    <3>2. Descends(ClearNonSafety(t)[c], t[c])
      BY <2>1, ClearedDescends
    <3>3. Descends(ClearSafety(ClearNonSafety(t))[c], ClearNonSafety(t)[c])
      BY <2>1, ClearedDescends
    <3> QED BY <1>4, <3>1, <3>2, <3>3, DescendsOn DEF t
  <2> QED BY <1>0, <2>2
<1> QED BY <1>0, <1>3, <1>4

(* The one step that commands: the record and its birth are new together.   *)
LEMMA ApplyTraced ==
  ASSUME Inv, Traced, MoveThreshold = 0, NEW c \in Covers, NEW p \in Positions,
         NEW o \in Origins, NEW sun \in BOOLEAN, ApplyPosition(c, p, o, sun)
  PROVE  Traced' /\ \A k \in out' : k.kind # "retry"
<1> DEFINE e == Command(st[c], Routed(c, p), o = "safety")
           b == [safety |-> o = "safety", revoked |-> {}]
<1>1. born' = [born EXCEPT ![c] = b] /\ Send(c, p, e, Reported(c), b) /\ detours' = detours
  BY DEF ApplyPosition, SendDetour, DetourDue
<1>2. e \in Entry /\ e.safety = (o = "safety")
  <2>1. (o = "safety") \in BOOLEAN /\ st[c] \in Entry /\ Routed(c, p) \in Positions
    BY RoutedType DEF Inv, TypeOK
  <2>2. Track(st[c], Routed(c, p)) \in Entry
    BY <2>1, TrackType
  <2> QED BY <2>1, <2>2, CommandType DEF Command, Entry
<1> HIDE DEF e
<1>3. st'[c].safety = e.safety /\ \A x \in Covers \ {c} : st'[x] = st[x]
  BY <1>1, <1>2, CountedSafety DEF Send, Inv, TypeOK
<1>4. \A k \in out' : k.kind # "retry"
  BY <1>1 DEF Send, CallOf
<1>5. born'[c] = b /\ \A x \in Covers \ {c} : born'[x] = born[x]
  BY <1>1 DEF Inv, TypeOK
<1>6. Owned(st'[c], born'[c])
  BY <1>2, <1>3, <1>5 DEF Owned
<1> QED BY <1>1, <1>3, <1>4, <1>5, <1>6 DEF Traced

(* Reconciliation resends what is recorded.                                 *)
LEMMA ReconcileTraced ==
  ASSUME Inv, Traced, NEW c \in Covers, Reconcile(c)
  PROVE  Traced' /\ \A k \in out' : k.born.revoked \cap Dropped = {}
<1> DEFINE e == [st[c] EXCEPT !.waiting = FALSE]
           p == Routed(c, e.target)
<1>1. /\ st[c] \in Entry /\ e \in Entry /\ e.target = st[c].target /\ st[c].target # Absent
      /\ detours' = {} /\ born' = born /\ Owned(st[c], born[c])
  <2>1. st[c] \in Entry /\ Owned(st[c], born[c]) /\ detours = {}
    BY DEF Inv, TypeOK, Traced
  <2>2. e \in Entry /\ e.target = st[c].target
    BY <2>1 DEF Entry
  <2>3. st[c].target # Absent /\ detours' = detours /\ born' = born
    BY DEF Reconcile
  <2> QED BY <2>1, <2>2, <2>3
<1>2. \/ Leave(c, e) \/ Leave(c, [e EXCEPT !.retries = 0]) \/ GiveUp(c, e)
      \/ Retry(c, e)
  BY DEF Reconcile
<1>3. \E f : /\ st' = [st EXCEPT ![c] = f]
             /\ (Descends(f, e) \/ f = Resend(e, p))
  BY <1>1, <1>2, Endings DEF Leave, GiveUp, Retry
<1>4. PICK f : /\ st' = [st EXCEPT ![c] = f]
              /\ (Descends(f, e) \/ f = Resend(e, p))
  BY <1>3
<1>5. Owned(f, born[c])
  <2>1. Owned(e, born[c])
    BY <1>1, Endings, DescendsOwned
  <2>2. CASE Descends(f, e)
    BY <2>1, <2>2, DescendsOwned
  <2>3. CASE f = Resend(e, p)
    <3>1. ~Resend(e, p).safety
      <4>1. Track(e, p) = [e EXCEPT !.target = p, !.waiting = TRUE, !.clock = "recent",
                                    !.progressed = FALSE]
        BY DEF Track
      <4> QED BY <1>1, <4>1 DEF Resend, Entry
    <3> QED BY <1>1, <2>3, <3>1 DEF Owned
  <2> QED BY <1>4, <2>2, <2>3
<1>6. st'[c] = f /\ \A x \in Covers \ {c} : st'[x] = st[x]
  <2>1. st \in [Covers -> Entry] /\ st' = [st EXCEPT ![c] = f]
    BY <1>4 DEF Inv, TypeOK
  <2> HIDE DEF e, p
  <2> QED BY <2>1
<1>7. \A k \in out' : k.born = born[c]
  BY <1>2 DEF Leave, GiveUp, Retry, CallOf
<1> QED BY <1>1, <1>5, <1>6, <1>7 DEF Traced, Owned

(* The user takes the cover over.                                           *)
LEMMA TakenOverTraced ==
  ASSUME Inv, Traced, NEW c \in Covers,
         ManualMove(c) \/ \E my \in Positions : UserStop(c, my)
  PROVE  Traced'
<1>0. st[c] \in Entry /\ detours = {} /\ \A x \in Covers : Owned(st[x], born[x])
  BY DEF Inv, TypeOK, Traced
<1>1. CASE ManualMove(c)
  <2>1. CASE c \in override
    <3>1. st' = [st EXCEPT ![c] = Manual(st[c], c)] /\ born' = born /\ detours' = detours
      BY <1>1, <2>1 DEF ManualMove, MarkManual
    <3>2. Owned(Manual(st[c], c), born[c])
      BY <1>0, CountedSafety, DescendsOwned
    <3> QED BY <1>0, <3>1, <3>2 DEF Traced, Inv, TypeOK
  <2>2. CASE c \notin override
    <3>1. st' = [st EXCEPT ![c] = NoEntry] /\ born' = Revoked(c, "override")
          /\ detours' = RevokeFor(c)
      BY <1>1, <2>2 DEF ManualMove, MarkManual
    <3>2. detours' = {}
      BY <1>0, <3>1 DEF RevokeFor
    <3>3. \A x \in Covers \ {c} : st'[x] = st[x] /\ born'[x] = born[x]
      BY <3>1 DEF Revoked, Inv, TypeOK
    <3>4. Owned(st'[c], born'[c])
      BY <3>1 DEF Owned, NoEntry, Inv, TypeOK
    <3> QED BY <1>0, <3>2, <3>3, <3>4 DEF Traced
  <2> QED BY <2>1, <2>2
<1>2. ASSUME NEW my \in Positions, UserStop(c, my) PROVE Traced'
  <2>1. /\ "stop" \in Env /\ born' = [born EXCEPT ![c] = Unborn]
        /\ detours' \in {detours, RevokeFor(c)}
        /\ \E f : st' = [st EXCEPT ![c] = f]
    BY <1>2 DEF UserStop, MarkManual
  <2>2. detours' = {}
    BY <1>0, <2>1 DEF RevokeFor
  <2>3. \A x \in Covers \ {c} : st'[x] = st[x] /\ born'[x] = born[x]
    BY <2>1 DEF Inv, TypeOK
  <2>4. Owned(st'[c], born'[c])
    <3>1. born'[c] = Unborn
      BY <2>1 DEF Inv, TypeOK
    <3> QED BY <2>1, <3>1 DEF Owned, Unborn
  <2> QED BY <1>0, <2>2, <2>3, <2>4 DEF Traced
<1> QED BY <1>1, <1>2

LEMMA WindowClosesTraced ==
  ASSUME Inv, Traced, WindowCloses PROVE Traced'
<1>1. detours' = {}
  BY DEF WindowCloses, Traced
<1>2. ASSUME NEW c \in Covers PROVE Owned(st'[c], born'[c])
  <2>1. /\ st'[c] = IF Stale(st[c]) THEN WithoutTarget(st[c]) ELSE st[c]
        /\ born'[c] = IF Stale(st[c]) THEN Revoke(born[c], "window") ELSE born[c]
        /\ st[c] \in Entry /\ Owned(st[c], born[c])
    BY DEF WindowCloses, ClearNonSafety, Inv, TypeOK, Traced
  <2>2. Stale(st[c]) => WithoutTarget(st[c]).target = Absent /\ ~WithoutTarget(st[c]).safety
    BY <2>1 DEF Stale, WithoutTarget, Entry
  <2> QED BY <2>1, <2>2 DEF Owned
<1> QED BY <1>1, <1>2 DEF Traced

LEMMA NextTraced ==
  ASSUME Inv, Traced, MoveThreshold = 0, [Next]_vars
  PROVE  Traced' /\ (StaleNeverResent => StaleNeverResent')
<1>0. detours = {} /\ \A c \in Covers : st[c] \in Entry /\ st[c] \in SoundEntry
  BY DEF Inv, TypeOK, Traced
<1>a. ASSUME \A k \in out' : k.kind # "retry" PROVE StaleNeverResent'
  BY <1>a DEF StaleNeverResent
<1>b. \A c \in Covers : Descends(st[c], st[c])
  BY DEF Descends
<1>1. ASSUME NEW c \in Covers, NEW p \in Positions, NEW o \in Origins, NEW sun \in BOOLEAN,
             ApplyPosition(c, p, o, sun)
      PROVE  Traced' /\ StaleNeverResent'
  BY <1>1, <1>a, ApplyTraced
<1>2. ASSUME NEW c \in Covers, Reconcile(c) PROVE Traced' /\ StaleNeverResent'
  BY <1>2, ReconcileTraced DEF StaleNeverResent, Dropped
<1>3. ASSUME NEW c \in Covers,
             CheckTargetReached(c) \/ ClearWaiting(c) \/ RecordProgress(c) \/ TransitTimeout(c)
      PROVE  Traced' /\ StaleNeverResent'
  <2>1. PICK f : OnRecord(c, f) /\ Descends(f, st[c])
    BY <1>0, <1>3, Endings DEF CheckTargetReached, ClearWaiting, RecordProgress, TransitTimeout
  <2>2. \A x \in Covers : Descends(st'[x], st[x])
    BY <1>b, <2>1 DEF OnRecord, Inv, TypeOK
  <2>3. detours' = {} /\ born' = born /\ out' = {}
    BY <1>0, <2>1 DEF OnRecord
  <2> QED BY <1>a, <2>2, <2>3, TracedFrom
<1>4. ASSUME NEW c \in Covers, ManualMove(c) \/ \E my \in Positions : UserStop(c, my)
      PROVE  Traced' /\ StaleNeverResent'
  <2>1. out' = {}
    BY <1>4 DEF ManualMove, UserStop
  <2> QED BY <1>4, <1>a, <2>1, TakenOverTraced
<1>5. CASE WindowCloses
  <2>1. out' = {}
    BY <1>5 DEF WindowCloses
  <2> QED BY <1>5, <1>a, <2>1, WindowClosesTraced
<1>6. ASSUME NEW entities \in SUBSET Covers \ {{}}, NEW emergency \in BOOLEAN,
             Disable(entities, emergency)
      PROVE  Traced' /\ StaleNeverResent'
  <2>1. st \in [Covers -> SoundEntry]
    BY DEF Inv
  <2>2. /\ \A c \in Covers : Descends(st'[c], st[c]) /\ \A k \in out' : k.kind = "stop"
    BY <1>6, <2>1, RunStopsDescends DEF Disable
  <2>3. \A k \in out' : k.kind = "stop"
    BY <1>6, <2>1, RunStopsDescends DEF Disable
  <2>4. detours' = {} /\ \A c \in Covers : born'[c] = Revoke(born[c], "disable")
    BY <1>0, <1>6 DEF Disable, RevokeDetours
  <2> QED BY <1>a, <2>2, <2>3, <2>4, TracedFrom
<1>7. ASSUME NEW d \in shutdowns, NEW accepted \in BOOLEAN, StopReturns(d, accepted)
      PROVE  Traced' /\ StaleNeverResent'
  <2> DEFINE s == IF d.held /\ ~d.emergency THEN [st EXCEPT ![d.stopping] = Stopped(@)] ELSE st
  <2>1. d.stopping \in Covers
    BY DEF Inv, TypeOK, Shutdown
  <2>2. s \in [Covers -> SoundEntry]
    BY <2>1, EndedSound DEF Inv
  <2>3. \A c \in Covers : Descends(s[c], st[c])
    BY <1>0, <1>b, <2>1, Endings DEF Inv
  <2>4. RunStops(s, d.pending, d.emergency, shutdowns \ {d}) /\ detours' = {} /\ born' = born
    BY <1>0, <1>7 DEF StopReturns
  <2> HIDE DEF s
  <2>5. /\ \A c \in Covers : Descends(st'[c], s[c]) /\ \A k \in out' : k.kind = "stop"
    BY <2>2, <2>4, RunStopsDescends
  <2>6. \A c \in Covers : Descends(st'[c], st[c])
    BY <2>3, <2>5, DescendsOn
  <2>7. \A k \in out' : k.kind = "stop"
    BY <2>2, <2>4, RunStopsDescends
  <2> QED BY <1>a, <2>4, <2>6, <2>7, TracedFrom
<1>8. CASE /\ st' = st /\ born' = born /\ detours' = detours
           /\ out' = {} \/ out' = out
  <2>1. Traced'
    BY <1>8 DEF Traced
  <2> QED BY <1>8, <2>1 DEF StaleNeverResent
<1>9. CASE \/ ToggleAutomatic \/ Enable \/ UNCHANGED vars
           \/ \E window \in BOOLEAN : SyncGates(window)
  BY <1>8, <1>9 DEF ToggleAutomatic, Enable, SyncGates, OnCoordinator, vars
<1>10. ASSUME NEW c \in Covers,
              \/ MarkUserCommand(c) \/ OverrideClears(c)
              \/ \E p \in Positions \cup {Absent}, s \in {"idle", "moving", "unavailable"} :
                   CoverReports(c, p, s)
       PROVE  Traced' /\ (StaleNeverResent => StaleNeverResent')
  BY <1>8, <1>10 DEF MarkUserCommand, OverrideClears, OnCoordinator, CoverReports
<1> QED BY <1>0, <1>1, <1>2, <1>3, <1>4, <1>5, <1>6, <1>7, <1>9, <1>10 DEF Next, CoverNext

LEMMA InitTraced == Init => Traced /\ StaleNeverResent
<1> SUFFICES ASSUME Init PROVE Traced /\ StaleNeverResent
  OBVIOUS
<1>1. out = {} /\ detours = {}
  BY DEF Init
<1>2. \A c \in Covers : ~st[c].safety /\ st[c].target = Absent
  BY DEF Init, NoEntry
<1> QED BY <1>1, <1>2 DEF Traced, Owned, StaleNeverResent

(* Without the end-stop detour, a target dropped by a manual override or by *)
(* the closing of the window is never resent (discard_target,               *)
(* clear_non_safety_targets, run_reconciliation_pass).                      *)
THEOREM StaleIsNeverResent ==
  ASSUME MoveThreshold = 0 PROVE Spec => []StaleNeverResent
<1>1. Spec => []Inv
  BY InitInv, NextInv, PTL DEF Spec
<1>2. Inv /\ Traced /\ StaleNeverResent /\ [Next]_vars => Traced' /\ StaleNeverResent'
  BY NextTraced
<1> QED BY <1>1, <1>2, InitTraced, PTL DEF Spec

(* Without the detour, and without a press of stop that puts a preset in    *)
(* the place of a target, a record flagged for safety was commanded for     *)
(* safety (is_safety_target).                                               *)
THEOREM SafetyFlagIsTruthful ==
  ASSUME MoveThreshold = 0, "stop" \notin Env PROVE Spec => []SafetyFlagTruthful
<1>1. Spec => []Inv
  BY InitInv, NextInv, PTL DEF Spec
<1>2. Inv /\ Traced /\ [Next]_vars => Traced'
  BY NextTraced
<1>3. Traced => SafetyFlagTruthful
  BY DEF Traced, Owned, SafetyFlagTruthful
<1> QED BY <1>1, <1>2, <1>3, InitTraced, PTL DEF Spec

-----------------------------------------------------------------------------
(* What a disable drops.  When no shutdown is under way, a target from      *)
(* before a disable was commanded for safety.                               *)
Swept == shutdowns = {} =>
  \A c \in Covers : st[c].target # Absent /\ "disable" \in born[c].revoked => born[c].safety

(* A step that gives no record a target and revokes nothing by a disable.   *)
LEMMA SweptFrom ==
  ASSUME Swept, shutdowns' = {} => shutdowns = {},
         \A c \in Covers : \/ "disable" \notin born'[c].revoked
                           \/ /\ st'[c].target # Absent => st[c].target # Absent
                              /\ born'[c] \in {born[c], Revoke(born[c], "override"),
                                               Revoke(born[c], "window")},
         born \in [Covers -> Birth]
  PROVE  Swept'
<1> SUFFICES ASSUME shutdowns' = {}, NEW c \in Covers,
                    st'[c].target # Absent, "disable" \in born'[c].revoked
             PROVE  born'[c].safety
  BY DEF Swept
<1>1. born[c] \in Birth
  OBVIOUS
<1>2. /\ born'[c].safety = born[c].safety
      /\ "disable" \in born[c].revoked
  BY <1>1 DEF Revoke, Birth
<1> QED BY <1>2 DEF Swept

(* Whatever the last shutdown leaves was flagged for safety.                *)
LEMMA CleanedUp ==
  ASSUME NEW s \in [Covers -> SoundEntry], NEW c \in Covers,
         ClearSafety(ClearNonSafety(s))[c].target # Absent
  PROVE  s[c].safety
<1>1. s[c] \in Entry
  BY DEF SoundEntry
<1>2. ClearNonSafety(s)[c] = IF Stale(s[c]) THEN WithoutTarget(s[c]) ELSE s[c]
  BY DEF ClearNonSafety
<1>3. ClearNonSafety(s)[c].target = ClearSafety(ClearNonSafety(s))[c].target
  <2>1. ClearNonSafety(s)[c] \in Entry
    BY <1>1, <1>2, WithoutTargetType
  <2> HIDE DEF ClearNonSafety
  <2> QED BY <2>1 DEF ClearSafety, Entry
<1>4. ~Stale(s[c])
  BY <1>1, <1>2, <1>3 DEF WithoutTarget, Entry
<1> QED BY <1>2, <1>3, <1>4 DEF Stale

LEMMA RunStopsSwept ==
  ASSUME Traced, "stop" \notin Env, NEW s \in [Covers -> SoundEntry],
         \A c \in Covers : s[c].safety => st[c].safety,
         \A c \in Covers : born'[c].safety = born[c].safety,
         NEW pending, NEW emergency, NEW others, RunStops(s, pending, emergency, others)
  PROVE  Swept'
<1> DEFINE t == IF emergency THEN s ELSE StopAll(s, pending)
<1>1. CASE shutdowns' # {}
  BY <1>1 DEF Swept
<1>2. CASE st' = ClearSafety(ClearNonSafety(t))
  <2>1. t \in [Covers -> SoundEntry]
    BY ClearedSound
  <2>2. ASSUME NEW c \in Covers PROVE t[c].safety => s[c].safety
    <3>1. s[c] \in Entry
      BY DEF SoundEntry
    <3> QED BY <3>1, Endings DEF StopAll, Descends
  <2> HIDE DEF t
  <2>3. ASSUME NEW c \in Covers, st'[c].target # Absent PROVE born'[c].safety
    <3>1. t[c].safety
      BY <1>2, <2>1, <2>3, CleanedUp
    <3> QED BY <2>2, <3>1 DEF Traced, Owned
  <2> QED BY <2>3 DEF Swept
<1> QED BY <1>1, <1>2 DEF RunStops

LEMMA NextSwept ==
  ASSUME Inv, Traced, MoveThreshold = 0, "stop" \notin Env, Swept, [Next]_vars
  PROVE  Swept'
<1>0. /\ detours = {} /\ born \in [Covers -> Birth] /\ st \in [Covers -> SoundEntry]
      /\ \A c \in Covers : st[c] \in Entry
  BY DEF Inv, TypeOK, Traced
<1>1. ASSUME NEW c \in Covers, NEW p \in Positions, NEW o \in Origins, NEW sun \in BOOLEAN,
             ApplyPosition(c, p, o, sun)
      PROVE  Swept'
  <2> DEFINE b == [safety |-> o = "safety", revoked |-> {}]
  <2>1. /\ born' = [born EXCEPT ![c] = b] /\ shutdowns' = shutdowns
        /\ \E f : st' = [st EXCEPT ![c] = f]
    BY <1>1 DEF ApplyPosition, SendDetour, DetourDue, Send
  <2>2. born'[c] = b /\ \A x \in Covers \ {c} : born'[x] = born[x] /\ st'[x] = st[x]
    BY <1>0, <2>1
  <2> QED BY <1>0, <2>1, <2>2, SweptFrom
<1>2. ASSUME NEW c \in Covers, Reconcile(c) PROVE Swept'
  <2>1. /\ born' = born /\ shutdowns' = shutdowns /\ st[c].target # Absent
        /\ \E f : st' = [st EXCEPT ![c] = f]
    BY <1>2 DEF Reconcile, Leave, GiveUp, Retry
  <2>2. \A x \in Covers \ {c} : st'[x] = st[x]
    BY <1>0, <2>1
  <2> QED BY <1>0, <2>1, <2>2, SweptFrom
<1>3. ASSUME NEW c \in Covers,
             CheckTargetReached(c) \/ ClearWaiting(c) \/ RecordProgress(c) \/ TransitTimeout(c)
      PROVE  Swept'
  <2>1. PICK f : OnRecord(c, f) /\ Descends(f, st[c])
    BY <1>0, <1>3, Endings DEF CheckTargetReached, ClearWaiting, RecordProgress, TransitTimeout
  <2>2. \A x \in Covers : st'[x].target # Absent => st[x].target # Absent
    BY <1>0, <2>1 DEF OnRecord, Descends
  <2>3. born' = born /\ shutdowns' = shutdowns
    BY <2>1 DEF OnRecord
  <2> QED BY <1>0, <2>2, <2>3, SweptFrom
<1>4. ASSUME NEW c \in Covers, ManualMove(c) PROVE Swept'
  <2>1. shutdowns' = {} => shutdowns = {}
    <3>1. Detached(c) = {} => shutdowns = {}
      BY Zenon DEF Detached
    <3>2. shutdowns' \in {shutdowns, Detached(c)}
      BY <1>4 DEF ManualMove, MarkManual
    <3> QED BY <3>1, <3>2
  <2>2. /\ st' = [st EXCEPT ![c] = Manual(st[c], c)] \/ st' = [st EXCEPT ![c] = NoEntry]
        /\ born' = born \/ born' = Revoked(c, "override")
    BY <1>4 DEF ManualMove, MarkManual
  <2>3. Descends(Manual(st[c], c), st[c]) /\ NoEntry.target = Absent
    BY <1>0, CountedSafety DEF NoEntry
  <2>4. \A x \in Covers : st'[x].target # Absent => st[x].target # Absent
    BY <1>0, <2>2, <2>3 DEF Descends
  <2>5. \A x \in Covers : born'[x] \in {born[x], Revoke(born[x], "override")}
    BY <1>0, <2>2 DEF Revoked
  <2> QED BY <1>0, <2>1, <2>4, <2>5, SweptFrom
<1>5. CASE WindowCloses
  <2>1. shutdowns' = shutdowns /\ st' = ClearNonSafety(st)
        /\ \A c \in Covers : born'[c] \in {born[c], Revoke(born[c], "window")}
    BY <1>5 DEF WindowCloses
  <2>2. \A c \in Covers : st'[c].target # Absent => st[c].target # Absent
    BY <1>0, <2>1, ClearedDescends DEF Descends
  <2> QED BY <1>0, <2>1, <2>2, SweptFrom
<1>6. ASSUME NEW entities \in SUBSET Covers \ {{}}, NEW emergency \in BOOLEAN,
             Disable(entities, emergency)
      PROVE  Swept'
  <2>1. ASSUME NEW c \in Covers PROVE born'[c].safety = born[c].safety
    <3>1. born'[c] = Revoke(born[c], "disable") /\ born[c] \in Birth
      BY <1>0, <1>6 DEF Disable
    <3> QED BY <3>1 DEF Revoke, Birth
  <2>2. \A c \in Covers : st[c].safety => st[c].safety
    OBVIOUS
  <2>3. RunStops(st, {c \in entities : emergency \/ st[c].waiting}, emergency, shutdowns)
    BY <1>6 DEF Disable
  <2> QED BY <1>0, <2>1, <2>2, <2>3, RunStopsSwept
<1>7. ASSUME NEW d \in shutdowns, NEW accepted \in BOOLEAN, StopReturns(d, accepted)
      PROVE  Swept'
  <2> DEFINE s == IF d.held /\ ~d.emergency THEN [st EXCEPT ![d.stopping] = Stopped(@)] ELSE st
  <2>1. d.stopping \in Covers
    BY DEF Inv, TypeOK, Shutdown
  <2>2. s \in [Covers -> SoundEntry]
    BY <1>0, <2>1, EndedSound
  <2>3. \A c \in Covers : s[c].safety => st[c].safety
    BY <1>0, <2>1, Endings DEF Descends
  <2>4. RunStops(s, d.pending, d.emergency, shutdowns \ {d}) /\ born' = born
    BY <1>7 DEF StopReturns
  <2> HIDE DEF s
  <2> QED BY <2>2, <2>3, <2>4, RunStopsSwept
<1>8. CASE st' = st /\ born' = born /\ shutdowns' = shutdowns
  BY <1>8 DEF Swept
<1>9. CASE \/ ToggleAutomatic \/ Enable \/ UNCHANGED vars
           \/ \E window \in BOOLEAN : SyncGates(window)
  BY <1>8, <1>9 DEF ToggleAutomatic, Enable, SyncGates, OnCoordinator, vars
<1>10. ASSUME NEW c \in Covers,
              \/ MarkUserCommand(c) \/ OverrideClears(c)
              \/ \E p \in Positions \cup {Absent}, s \in {"idle", "moving", "unavailable"} :
                   CoverReports(c, p, s)
       PROVE  Swept'
  BY <1>8, <1>10 DEF MarkUserCommand, OverrideClears, OnCoordinator, CoverReports
<1>11. ASSUME NEW c \in Covers, NEW my \in Positions, UserStop(c, my) PROVE Swept'
  BY <1>11 DEF UserStop
<1> QED BY <1>0, <1>1, <1>2, <1>3, <1>4, <1>5, <1>6, <1>7, <1>9, <1>10, <1>11
   DEF Next, CoverNext

(* The only step that resends is reconciliation, and it leaves the births   *)
(* and the shutdowns alone.                                                 *)
LEMMA ResentBirth ==
  ASSUME Inv, Traced, MoveThreshold = 0, ShutdownDropsTracking, Swept, [Next]_vars
  PROVE  ShutdownDropsTracking'
<1>1. ASSUME \A k \in out' : k.kind # "retry" PROVE ShutdownDropsTracking'
  BY <1>1 DEF ShutdownDropsTracking
<1>2. ASSUME NEW c \in Covers, Reconcile(c) PROVE ShutdownDropsTracking'
  <2>1. /\ shutdowns' = shutdowns /\ st[c].target # Absent
        /\ \A k \in out' : k.born = born[c]
    BY <1>2 DEF Reconcile, Leave, GiveUp, Retry, CallOf
  <2> QED BY <2>1 DEF Swept, ShutdownDropsTracking
<1>3. ASSUME NEW c \in Covers, NEW p \in Positions, NEW o \in Origins, NEW sun \in BOOLEAN,
             ApplyPosition(c, p, o, sun)
      PROVE  ShutdownDropsTracking'
  BY <1>1, <1>3, ApplyTraced
<1>4. ASSUME NEW c \in Covers,
             \/ CheckTargetReached(c) \/ ClearWaiting(c) \/ RecordProgress(c)
             \/ TransitTimeout(c) \/ ManualMove(c) \/ MarkUserCommand(c)
             \/ OverrideClears(c) \/ (\E my \in Positions : UserStop(c, my))
             \/ \E p \in Positions \cup {Absent}, s \in {"idle", "moving", "unavailable"} :
                  CoverReports(c, p, s)
      PROVE  ShutdownDropsTracking'
  <2>1. out' = {}
    BY <1>4 DEF CheckTargetReached, ClearWaiting, RecordProgress, TransitTimeout,
       OnRecord, ManualMove, MarkUserCommand, OverrideClears, OnCoordinator, UserStop,
       CoverReports
  <2> QED BY <1>1, <2>1
<1>5. CASE \/ ToggleAutomatic \/ WindowCloses \/ Enable
           \/ \E window \in BOOLEAN : SyncGates(window)
  <2>1. out' = {}
    BY <1>5 DEF ToggleAutomatic, WindowCloses, Enable, SyncGates, OnCoordinator
  <2> QED BY <1>1, <2>1
<1>6. ASSUME NEW entities \in SUBSET Covers \ {{}}, NEW emergency \in BOOLEAN,
             Disable(entities, emergency)
      PROVE  ShutdownDropsTracking'
  BY <1>1, <1>6 DEF Disable, RunStops, CallOf
<1>7. ASSUME NEW d \in shutdowns, NEW accepted \in BOOLEAN, StopReturns(d, accepted)
      PROVE  ShutdownDropsTracking'
  BY <1>1, <1>7 DEF StopReturns, RunStops, CallOf
<1>8. CASE UNCHANGED vars
  BY <1>8 DEF vars, ShutdownDropsTracking
<1>9. ASSUME NEW d \in detours, FinishDetour(d) PROVE ShutdownDropsTracking'
  BY <1>9 DEF Traced
<1> QED BY <1>2, <1>3, <1>4, <1>5, <1>6, <1>7, <1>8, <1>9 DEF Next, CoverNext

(* Without the detour and without such a press of stop, reconciliation      *)
(* resends after the last shutdown no target from before it but one         *)
(* commanded for safety, however shutdowns, enables, overrides and commands *)
(* overlap (async_set_integration_enabled, clear_non_safety_targets).       *)
THEOREM ShutdownAlwaysDrops ==
  ASSUME MoveThreshold = 0, "stop" \notin Env PROVE Spec => []ShutdownDropsTracking
<1>1. Spec => []Inv
  BY InitInv, NextInv, PTL DEF Spec
<1>2. Inv /\ Traced /\ [Next]_vars => Traced'
  BY NextTraced
<1>3. Inv /\ Traced /\ Swept /\ [Next]_vars => Swept'
  BY NextSwept
<1>4. Inv /\ Traced /\ Swept /\ ShutdownDropsTracking /\ [Next]_vars => ShutdownDropsTracking'
  BY ResentBirth
<1>5. Init => Swept /\ ShutdownDropsTracking
  BY DEF Init, Swept, ShutdownDropsTracking, NoEntry
<1> QED BY <1>1, <1>2, <1>3, <1>4, <1>5, InitTraced, PTL DEF Spec

=============================================================================
