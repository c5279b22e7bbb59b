--------------------------- MODULE EntitiesProofs ---------------------------
(***************************************************************************)
(* What a call from before a shutdown still does, what a shutdown of any   *)
(* number of entries reaches, and what a proxy shows, proved for every     *)
(* value of the constants of Entities.tla.                                 *)
(*                                                                         *)
(* Most steps are alike to a shutdown: they leave its record and the gates *)
(* alone, and set out only a cover whose gate is open.  Modest says so, and *)
(* one lemma serves them all; the four steps of the master switch have     *)
(* each their own.                                                         *)
(***************************************************************************)
EXTENDS Entities, TLAPS

UserCalls == [kind : {"user"}, entry : Entries, cover : Covers,
              target : 0..Top, gen : Nat]

Shutdowns == [kind : {"shutdown"}, emergency : BOOLEAN, targets : SUBSET Entries,
              todo : SUBSET Entries, entry : Entries, stops : SUBSET Covers,
              must : SUBSET Covers, reopened : SUBSET Entries]

Resyncs == [kind : {"resync"}, entry : Entries, gen : Nat, todo : SUBSET Covers,
            cover : Covers \cup {None}, back : 0..Top \cup {None}]

CallSet == {Idle} \cup UserCalls \cup Shutdowns \cup Resyncs

CallsTyped ==
  /\ calls \in [Calls -> CallSet]
  /\ \A k \in Calls : calls[k].kind = "user" => calls[k].entry = Owner[calls[k].cover]

Typed ==
  /\ life \in [Entries -> {"off", "setup", "loaded", "unloading"}]
  /\ source \in [Covers -> Sources] /\ dest \in [Covers -> 0..Top \cup {None}]
  /\ waiting \in [Covers -> BOOLEAN] /\ gate \in [Entries -> BOOLEAN]
  /\ gen \in [Entries -> Nat]
  /\ CallsTyped

Down(k) == calls[k].kind = "shutdown"

LEMMA CallKinds ==
  ASSUME NEW x \in CallSet
  PROVE  /\ x.kind \in {"idle", "user", "shutdown", "resync"}
         /\ x.kind = "idle" <=> x = Idle
         /\ x.kind = "user" <=> x \in UserCalls
         /\ x.kind = "shutdown" <=> x \in Shutdowns
         /\ x.kind = "resync" <=> x \in Resyncs
<1>1. CASE x = Idle
  BY <1>1 DEF Idle, UserCalls, Shutdowns, Resyncs
<1>2. CASE x \in UserCalls
  BY <1>2 DEF Idle, UserCalls, Shutdowns, Resyncs
<1>3. CASE x \in Shutdowns
  BY <1>3 DEF Idle, UserCalls, Shutdowns, Resyncs
<1>4. CASE x \in Resyncs
  BY <1>4 DEF Idle, UserCalls, Shutdowns, Resyncs
<1> QED BY <1>1, <1>2, <1>3, <1>4 DEF CallSet

LEMMA EndStopType == ASSUME NEW t PROVE EndStop(t) \in 0..Top
  BY ProxyConstants DEF EndStop

LEMMA SourceTypes ==
  ASSUME NEW t \in 0..Top
  PROVE  /\ Resting(t) \in Sources /\ Gone \in Sources
         /\ \A u : Travelling(t, u) \in Sources
  BY DEF Resting, Gone, Travelling, Sources

LEMMA TiltType ==
  ASSUME NEW s \in Sources
  PROVE  s.tilt \in 0..Top \cup {None} /\ (Available(s) <=> s.tilt # None)
  BY ProxyConstants DEF Sources, Available

-----------------------------------------------------------------------------
(* Types.                                                                   *)

LEMMA InitTyped == Init => Typed
  BY EntitiesConstants, SourceTypes DEF Init, Typed, CallsTyped, CallSet, Idle

LEMMA SentTyped ==
  ASSUME Typed, NEW c \in Covers, NEW t \in 0..Top, Sent(c, t) \/ Held
  PROVE  dest' \in [Covers -> 0..Top \cup {None}] /\ waiting' \in [Covers -> BOOLEAN]
  BY DEF Typed, Sent, Held

LEMMA ReportTyped ==
  ASSUME Typed, NEW c \in Covers, NEW s \in Sources, Reports(c, s)
  PROVE  source' \in [Covers -> Sources]
  BY DEF Typed, Reports

LEMMA HaltedTyped ==
  ASSUME Typed, NEW C, Halted(C)
  PROVE  /\ source' \in [Covers -> Sources]
         /\ dest' \in [Covers -> 0..Top \cup {None}]
<1>1. \A c \in Covers : Available(source[c]) => source[c].tilt \in 0..Top
  BY TiltType DEF Typed
<1>2. \A c \in Covers : Available(source[c]) => Resting(source[c].tilt) \in Sources
  BY <1>1, SourceTypes
<1> QED BY <1>2 DEF Halted, Typed

LEMMA ClosedTyped ==
  ASSUME Typed, NEW E, Closed(E)
  PROVE  gate' \in [Entries -> BOOLEAN] /\ gen' \in [Entries -> Nat]
  BY DEF Closed, Typed

(* The slot k is begun, given a new record or freed.                        *)
LEMMA SlotTyped ==
  ASSUME CallsTyped, NEW k \in Calls, NEW x \in CallSet,
         x.kind = "user" => x.entry = Owner[x.cover],
         calls' = [calls EXCEPT ![k] = x]
  PROVE  CallsTyped'
<1>1. calls' \in [Calls -> CallSet] /\ calls'[k] = x
  BY DEF CallsTyped
<1>2. \A j \in Calls : j # k => calls'[j] = calls[j]
  BY DEF CallsTyped
<1> QED BY <1>1, <1>2 DEF CallsTyped

LEMMA IdleTyped == Idle \in CallSet /\ Idle.kind # "user"
  BY DEF Idle, CallSet

LEMMA SetUpTyped ==
  ASSUME Typed, NEW e \in Entries, SetUp(e) \/ SetUpEnds(e) \/ Unload(e) \/ UnloadEnds(e)
  PROVE  Typed'
<1>1. life' \in [Entries -> {"off", "setup", "loaded", "unloading"}]
  BY DEF SetUp, SetUpEnds, Unload, UnloadEnds, Typed
<1>2. waiting' \in [Covers -> BOOLEAN]
  BY DEF SetUp, SetUpEnds, Unload, UnloadEnds, Typed
<1>3. UNCHANGED <<source, dest, gate, gen, calls>>
  BY DEF SetUp, SetUpEnds, Unload, UnloadEnds
<1> QED BY <1>1, <1>2, <1>3 DEF Typed, CallsTyped

LEMMA TravelsTyped ==
  ASSUME Typed, NEW c \in Covers, Travels(c) PROVE Typed'
<1> DEFINE t == source[c].tilt
           u == IF dest[c] > t THEN t + 1 ELSE t - 1
<1>1. dest[c] \in 0..Top /\ t \in 0..Top /\ t # dest[c]
  BY TiltType DEF Travels, Typed
<1>2. u \in 0..Top
  BY <1>1, ProxyConstants
<1>3. /\ Resting(u) \in Sources /\ Travelling(u, dest[c]) \in Sources
      /\ Travelling(t, dest[c]) \in Sources /\ Resting(dest[c]) \in Sources
  BY <1>1, <1>2, SourceTypes
<1>4. \/ Reports(c, Resting(u)) \/ Reports(c, Travelling(u, dest[c]))
      \/ Reports(c, Travelling(t, dest[c])) \/ Reports(c, Resting(dest[c]))
  BY DEF Travels
<1>5. source' \in [Covers -> Sources]
  BY <1>3, <1>4, ReportTyped
<1>6. \E arrived \in BOOLEAN :
         /\ dest' = [dest EXCEPT ![c] = IF arrived THEN None ELSE @]
         /\ waiting' = [waiting EXCEPT ![c] = @ /\ ~ arrived]
  BY DEF Travels
<1>7. UNCHANGED <<gate, gen, calls, life>>
  BY DEF Travels, system
<1>8. dest' \in [Covers -> 0..Top \cup {None}] /\ waiting' \in [Covers -> BOOLEAN]
  BY <1>6 DEF Typed
<1> QED BY <1>5, <1>7, <1>8 DEF Typed, CallsTyped

LEMMA CoverTyped ==
  ASSUME Typed, NEW c \in Covers,
         Drops(c) \/ Returns(c) \/ UserStops(c) \/ \E t \in 0..Top : UserMoves(c, t)
  PROVE  Typed'
<1>1. CASE Drops(c) \/ Returns(c)
  <2>1. source' \in [Covers -> Sources]
    BY <1>1, ReportTyped, SourceTypes, ProxyConstants DEF Drops, Returns
  <2>2. UNCHANGED <<dest, waiting, gate, gen, calls, life>>
    BY <1>1 DEF Drops, Returns, system
  <2> QED BY <2>1, <2>2 DEF Typed, CallsTyped
<1>2. CASE UserStops(c)
  <2>1. Halted({c}) /\ UNCHANGED <<waiting, gate, gen, calls, life>>
    BY <1>2 DEF UserStops, system
  <2> QED BY <2>1, HaltedTyped DEF Typed, CallsTyped
<1>3. ASSUME NEW t \in 0..Top, UserMoves(c, t) PROVE Typed'
  <2>1. (Sent(c, t) \/ Held) /\ UNCHANGED <<source, gate, gen, calls, life>>
    BY <1>3 DEF UserMoves, system
  <2> QED BY <2>1, SentTyped DEF Typed, CallsTyped
<1> QED BY <1>1, <1>2, <1>3

LEMMA StillTyped ==
  ASSUME Typed,
         (\E c \in Proxied : IndicatorTimesOut(c)) \/ (\E e \in Entries : Notifies(e))
           \/ UNCHANGED vars
  PROVE  Typed'
<1>1. UNCHANGED <<life, source, dest, waiting, gate, gen, calls>>
  BY DEF IndicatorTimesOut, Notifies, vars, system
<1> QED BY <1>1 DEF Typed, CallsTyped

(* The calls of a user and of the re-sync button.                           *)
LEMMA DetourTyped ==
  ASSUME Typed, NEW k \in Calls, NEW c \in Covers, NEW t \in 0..Top, UserDetours(k, c, t)
  PROVE  Typed'
<1> DEFINE x == [kind |-> "user", entry |-> Owner[c], cover |-> c, target |-> t,
                 gen |-> gen[Owner[c]]]
<1>1. x \in CallSet /\ x.entry = Owner[x.cover]
  BY EntitiesConstants DEF CallSet, UserCalls, Typed
<1>2. calls' = [calls EXCEPT ![k] = x] /\ UNCHANGED <<source, gate, gen, life>>
  BY DEF UserDetours, Begin, system
<1>3. \E stop \in {0, Top} : Sent(c, stop)
  BY DEF UserDetours
<1>4. 0 \in 0..Top /\ Top \in 0..Top
  BY ProxyConstants
<1>5. dest' \in [Covers -> 0..Top \cup {None}] /\ waiting' \in [Covers -> BOOLEAN]
  BY <1>3, <1>4, SentTyped
<1>6. CallsTyped'
  BY <1>1, <1>2, SlotTyped DEF Typed
<1> QED BY <1>2, <1>5, <1>6 DEF Typed

LEMMA DetourEndsTyped ==
  ASSUME Typed, NEW k \in Calls, DetourEnds(k) PROVE Typed'
<1>1. calls[k] \in UserCalls
  BY CallKinds DEF DetourEnds, Typed, CallsTyped
<1>2. /\ Sent(calls[k].cover, calls[k].target) \/ Held
      /\ calls' = [calls EXCEPT ![k] = Idle] /\ UNCHANGED <<source, gate, gen, life>>
  BY DEF DetourEnds, system
<1>3. dest' \in [Covers -> 0..Top \cup {None}] /\ waiting' \in [Covers -> BOOLEAN]
  BY <1>1, <1>2, SentTyped DEF UserCalls
<1>4. CallsTyped'
  BY <1>2, SlotTyped, IdleTyped DEF Typed
<1> QED BY <1>2, <1>3, <1>4 DEF Typed

LEMMA ResyncTyped ==
  ASSUME Typed, NEW k \in Calls,
         (\E e \in Entries : ResyncBegins(k, e)) \/ ResyncOut(k) \/ ResyncBack(k)
           \/ ResyncEnds(k)
  PROVE  Typed'
<1>1. ASSUME NEW e \in Entries, ResyncBegins(k, e) PROVE Typed'
  <2> DEFINE x == [kind |-> "resync", entry |-> e, gen |-> gen[e],
                   todo |-> Of({e}), cover |-> None, back |-> None]
  <2>1. x \in CallSet /\ x.kind # "user"
    BY DEF CallSet, Resyncs, Typed, Of
  <2>2. calls' = [calls EXCEPT ![k] = x]
        /\ UNCHANGED <<source, dest, waiting, gate, gen, life>>
    BY <1>1 DEF ResyncBegins, Begin, system
  <2>3. CallsTyped'
    BY <2>1, <2>2, SlotTyped DEF Typed
  <2> QED BY <2>2, <2>3 DEF Typed
<1>2. CASE ResyncEnds(k)
  <2>1. calls' = [calls EXCEPT ![k] = Idle]
        /\ UNCHANGED <<source, dest, waiting, gate, gen, life>>
    BY <1>2 DEF ResyncEnds, system
  <2>2. CallsTyped'
    BY <2>1, SlotTyped, IdleTyped DEF Typed
  <2> QED BY <2>1, <2>2 DEF Typed
<1>3. CASE ResyncOut(k)
  <2>1. calls[k] \in Resyncs
    BY <1>3, CallKinds DEF ResyncOut, Typed, CallsTyped
  <2>2. PICK c \in calls[k].todo :
           /\ Sent(c, EndStop(source[c].tilt)) \/ Held
           /\ calls' = [calls EXCEPT ![k].todo = @ \ {c}, ![k].cover = c,
                                     ![k].back = source[c].tilt]
              \/ calls' = [calls EXCEPT ![k].todo = @ \ {c}]
    BY <1>3 DEF ResyncOut
  <2>3. c \in Covers /\ source[c].tilt \in 0..Top \cup {None}
    BY <2>1, <2>2, TiltType DEF Resyncs, Typed
  <2>4. dest' \in [Covers -> 0..Top \cup {None}] /\ waiting' \in [Covers -> BOOLEAN]
    BY <2>2, <2>3, EndStopType, SentTyped
  <2>5. \E x \in Resyncs : calls' = [calls EXCEPT ![k] = x]
    <3> DEFINE out == [calls[k] EXCEPT !.todo = @ \ {c}, !.cover = c,
                                       !.back = source[c].tilt]
               past == [calls[k] EXCEPT !.todo = @ \ {c}]
    <3>1. out \in Resyncs /\ past \in Resyncs
      BY <2>1, <2>3 DEF Resyncs
    <3>2. calls' = [calls EXCEPT ![k] = out] \/ calls' = [calls EXCEPT ![k] = past]
      BY <2>2
    <3> QED BY <3>1, <3>2
  <2>6. CallsTyped'
    BY <2>5, SlotTyped, CallKinds DEF Typed, CallSet, Resyncs
  <2> QED BY <1>3, <2>4, <2>6 DEF ResyncOut, Typed, system
<1>4. CASE ResyncBack(k)
  <2>1. calls[k] \in Resyncs /\ calls[k].cover # None
    BY <1>4, CallKinds DEF ResyncBack, Typed, CallsTyped
  <2>2. /\ \/ Held
           \/ Sent(calls[k].cover, calls[k].back)
              /\ Sendable(calls[k].cover, calls[k].back)
        /\ dest[calls[k].cover] # None => source[calls[k].cover].tilt # calls[k].back
        /\ calls' = [calls EXCEPT ![k].cover = None, ![k].back = None]
    BY <1>4 DEF ResyncBack
  <2>3. calls[k].cover \in Covers /\ calls[k].back \in 0..Top \cup {None}
    BY <2>1 DEF Resyncs
  <2>4. dest' \in [Covers -> 0..Top \cup {None}] /\ waiting' \in [Covers -> BOOLEAN]
    BY <2>2, <2>3 DEF Sent, Held, Typed
  <2>5. \E x \in Resyncs : calls' = [calls EXCEPT ![k] = x]
    <3> DEFINE x == [calls[k] EXCEPT !.cover = None, !.back = None]
    <3>1. x \in Resyncs
      BY <2>1 DEF Resyncs
    <3> QED BY <2>2, <3>1
  <2>6. CallsTyped'
    BY <2>5, SlotTyped, CallKinds DEF Typed, CallSet, Resyncs
  <2> QED BY <1>4, <2>4, <2>6 DEF ResyncBack, Typed, system
<1> QED BY <1>1, <1>2, <1>3, <1>4

(* The master switch.                                                       *)
Raised(x, E) == [x EXCEPT !.reopened = @ \cup E]

LEMMA EnableSteps ==
  ASSUME Typed, NEW E \in SUBSET Entries, Enable(E)
  PROVE  /\ \A k \in Calls : Down(k) => calls'[k] = Raised(calls[k], E)
         /\ \A k \in Calls : ~ Down(k) => calls'[k] = calls[k]
         /\ \A k \in Calls : calls'[k] \in CallSet /\ calls'[k].kind = calls[k].kind
         /\ gate' = [e \in Entries |-> gate[e] \/ e \in E]
         /\ UNCHANGED <<life, source, dest, waiting, gen, deaf>>
<1>1. /\ calls' = [k \in Calls |-> IF Down(k) THEN Raised(calls[k], E) ELSE calls[k]]
      /\ gate' = [e \in Entries |-> gate[e] \/ e \in E]
      /\ UNCHANGED <<life, source, dest, waiting, gen, deaf>>
  BY DEF Enable, system, Down, Raised
<1>2. ASSUME NEW k \in Calls, Down(k)
      PROVE  Raised(calls[k], E) \in CallSet /\ Raised(calls[k], E).kind = calls[k].kind
  <2>1. calls[k] \in Shutdowns
    BY <1>2, CallKinds DEF Down, Typed, CallsTyped
  <2> QED BY <2>1 DEF Raised, Shutdowns, CallSet
<1> QED BY <1>1, <1>2 DEF Typed, CallsTyped

LEMMA EnableTyped ==
  ASSUME Typed, NEW E \in SUBSET Entries, Enable(E) PROVE Typed'
<1>1. calls' \in [Calls -> CallSet]
  BY EnableSteps DEF Enable, Typed, CallsTyped
<1>2. gate' \in [Entries -> BOOLEAN]
  BY EnableSteps DEF Typed
<1>3. CallsTyped'
  BY <1>1, EnableSteps DEF Typed, CallsTyped, Down
<1> QED BY <1>2, <1>3, EnableSteps DEF Typed

LEMMA ShutdownBeginsSteps ==
  ASSUME Typed, NEW k \in Calls, NEW E \in SUBSET Entries, NEW e \in Entries,
         NEW em \in BOOLEAN, ShutdownBegins(k, E, e, em)
  PROVE  /\ calls[k] = Idle /\ e \in E
         /\ calls'[k] \in Shutdowns /\ calls'[k].targets = E /\ calls'[k].entry = e
         /\ calls'[k].todo = E \ {e} /\ calls'[k].stops = ToStop(e, em)
         /\ calls'[k].emergency = em /\ calls'[k].reopened = {}
         /\ calls'[k].must = {c \in Of(E) : em \/ (waiting[c] /\ ~ Overtaken(Owner[c]))}
         /\ calls' \in [Calls -> CallSet]
         /\ \A j \in Calls \ {k} : calls'[j] = calls[j]
         /\ Closed(E)
         /\ UNCHANGED <<life, source, dest, waiting, deaf>>
<1> DEFINE x == [kind |-> "shutdown", emergency |-> em, targets |-> E,
                 todo |-> E \ {e}, entry |-> e, stops |-> ToStop(e, em),
                 must |-> {c \in Of(E) : em \/ (waiting[c] /\ ~ Overtaken(Owner[c]))},
                 reopened |-> {}]
<1>1. x \in Shutdowns
  BY DEF Shutdowns, Of, ToStop
<1>2. /\ calls[k] = Idle /\ calls' = [calls EXCEPT ![k] = x] /\ e \in E /\ Closed(E)
      /\ UNCHANGED <<life, source, dest, waiting, deaf>>
  BY DEF ShutdownBegins, Begin, GatesClosed, system
<1>3. calls'[k] = x /\ \A j \in Calls \ {k} : calls'[j] = calls[j]
  BY <1>2 DEF Typed, CallsTyped
<1>4. calls' \in [Calls -> CallSet]
  BY <1>1, <1>2 DEF Typed, CallsTyped, CallSet
<1> QED BY <1>1, <1>2, <1>3, <1>4

LEMMA ShutdownBeginsTyped ==
  ASSUME Typed, NEW k \in Calls, NEW E \in SUBSET Entries, NEW e \in Entries,
         NEW em \in BOOLEAN, ShutdownBegins(k, E, e, em)
  PROVE  Typed'
<1>1. /\ calls'[k].kind = "shutdown" /\ calls' \in [Calls -> CallSet] /\ Closed(E)
      /\ \A j \in Calls \ {k} : calls'[j] = calls[j]
      /\ UNCHANGED <<life, source, dest, waiting>>
  BY ShutdownBeginsSteps DEF Shutdowns
<1>2. gate' \in [Entries -> BOOLEAN] /\ gen' \in [Entries -> Nat]
  BY <1>1, ClosedTyped
<1>3. CallsTyped'
  BY <1>1 DEF Typed, CallsTyped
<1> QED BY <1>1, <1>2, <1>3 DEF Typed

(* One stop has been answered.                                              *)
StopsOne(k, c, ok) ==
  /\ Down(k) /\ c \in calls[k].stops /\ calls'[k] \in Shutdowns
  /\ calls'[k] = [calls[k] EXCEPT !.stops = @ \ {c}]
  /\ calls' \in [Calls -> CallSet]
  /\ \A j \in Calls \ {k} : calls'[j] = calls[j]
  /\ ok => dest'[c] = None /\ deaf' = deaf
  /\ ~ ok => dest' = dest /\ deaf' = deaf \cup {c}
  /\ \A x \in Covers \ {c} : dest'[x] = dest[x] /\ waiting'[x] = waiting[x]
  /\ waiting'[c] = (waiting[c] /\ calls[k].emergency)
  /\ Halted(IF ok THEN {c} ELSE {})
  /\ waiting' \in [Covers -> BOOLEAN]
  /\ UNCHANGED <<life, gate, gen>>

LEMMA ShutdownStopsSteps ==
  ASSUME Typed, NEW k \in Calls, NEW c \in Covers, NEW ok \in BOOLEAN,
         ShutdownStops(k, c, ok)
  PROVE  StopsOne(k, c, ok)
<1>1. calls[k] \in Shutdowns
  BY CallKinds DEF ShutdownStops, Typed, CallsTyped
<1>2. /\ calls' = [calls EXCEPT ![k] = [calls[k] EXCEPT !.stops = @ \ {c}]]
      /\ waiting' = [waiting EXCEPT ![c] = @ /\ calls[k].emergency]
      /\ UNCHANGED <<life, gate, gen>>
      /\ calls[k].kind = "shutdown" /\ c \in calls[k].stops
      /\ Halted(IF ok THEN {c} ELSE {})
      /\ deaf' = IF ok THEN deaf ELSE deaf \cup {c}
  BY DEF ShutdownStops, system
<1>3. [calls[k] EXCEPT !.stops = @ \ {c}] \in Shutdowns
  BY <1>1 DEF Shutdowns
<1>4. dest' = [x \in Covers |-> IF x \in (IF ok THEN {c} ELSE {}) THEN None ELSE dest[x]]
  BY <1>2 DEF Halted
<1>5. /\ ok => dest'[c] = None
      /\ ~ ok => dest' = dest
      /\ \A x \in Covers \ {c} : dest'[x] = dest[x]
  BY <1>4 DEF Typed
<1>6. calls[k].emergency \in BOOLEAN
  BY <1>1 DEF Shutdowns
<1>7. /\ \A x \in Covers \ {c} : waiting'[x] = waiting[x]
      /\ waiting'[c] = (waiting[c] /\ calls[k].emergency)
      /\ waiting' \in [Covers -> BOOLEAN]
  BY <1>2, <1>6 DEF Typed
<1>8. /\ calls'[k] = [calls[k] EXCEPT !.stops = @ \ {c}]
      /\ \A j \in Calls \ {k} : calls'[j] = calls[j]
      /\ calls' \in [Calls -> CallSet]
  BY <1>2, <1>3 DEF Typed, CallsTyped, CallSet
<1> QED BY <1>2, <1>3, <1>5, <1>7, <1>8 DEF Down, StopsOne

LEMMA ShutdownStopsTyped ==
  ASSUME Typed, NEW k \in Calls, NEW c \in Covers, NEW ok \in BOOLEAN,
         ShutdownStops(k, c, ok)
  PROVE  Typed'
<1>1. /\ calls'[k].kind = "shutdown" /\ calls' \in [Calls -> CallSet]
      /\ \A j \in Calls \ {k} : calls'[j] = calls[j]
      /\ waiting' \in [Covers -> BOOLEAN] /\ UNCHANGED <<life, gate, gen>>
      /\ Halted(IF ok THEN {c} ELSE {})
  <2>1. /\ calls'[k] \in Shutdowns /\ calls' \in [Calls -> CallSet]
        /\ \A j \in Calls \ {k} : calls'[j] = calls[j]
        /\ waiting' \in [Covers -> BOOLEAN] /\ UNCHANGED <<life, gate, gen>>
        /\ Halted(IF ok THEN {c} ELSE {})
    BY ShutdownStopsSteps DEF StopsOne
  <2> QED BY <2>1 DEF Shutdowns
<1>2. source' \in [Covers -> Sources] /\ dest' \in [Covers -> 0..Top \cup {None}]
  BY <1>1, HaltedTyped
<1>3. CallsTyped'
  BY <1>1 DEF Typed, CallsTyped
<1> QED BY <1>1, <1>2, <1>3 DEF Typed

(* The loop ends or goes on with the entry e.                               *)
NextEntry(k, e) ==
  [calls[k] EXCEPT !.entry = e, !.todo = @ \ {e}, !.stops = ToStop(e, calls[k].emergency)]

LEMMA ShutdownEntryEndsSteps ==
  ASSUME Typed, NEW k \in Calls, ShutdownEntryEnds(k)
  PROVE  /\ Down(k) /\ calls[k].stops = {}
         /\ \/ calls[k].todo = {} /\ calls'[k] = Idle /\ gate' = gate /\ gen' = gen
            \/ \E e \in calls[k].todo : /\ calls'[k] = NextEntry(k, e)
                                        /\ calls'[k] \in Shutdowns /\ Closed({e})
         /\ calls' \in [Calls -> CallSet]
         /\ \A j \in Calls \ {k} : calls'[j] = calls[j]
         /\ waiting' = [c \in Covers |-> waiting[c] /\ Owner[c] # calls[k].entry]
         /\ UNCHANGED <<life, source, dest, deaf>>
<1>1. calls[k] \in Shutdowns
  BY CallKinds DEF ShutdownEntryEnds, Typed, CallsTyped
<1>2. /\ Down(k) /\ calls[k].stops = {}
      /\ waiting' = [c \in Covers |-> waiting[c] /\ Owner[c] # calls[k].entry]
      /\ UNCHANGED <<life, source, dest, deaf>>
  BY DEF ShutdownEntryEnds, Down, system
<1>3. CASE calls[k].todo = {} /\ calls' = [calls EXCEPT ![k] = Idle]
            /\ UNCHANGED <<gate, gen>>
  BY <1>2, <1>3, IdleTyped DEF Typed, CallsTyped
<1>4. ASSUME NEW e \in calls[k].todo, Closed({e}),
             calls' = [calls EXCEPT ![k].entry = e, ![k].todo = @ \ {e},
                         ![k].stops = ToStop(e, calls[k].emergency)]
      PROVE  /\ calls'[k] = NextEntry(k, e) /\ calls'[k] \in Shutdowns
             /\ calls' \in [Calls -> CallSet] /\ \A j \in Calls \ {k} : calls'[j] = calls[j]
  <2>1. calls' = [calls EXCEPT ![k] = NextEntry(k, e)]
    BY <1>4 DEF NextEntry
  <2>2. NextEntry(k, e) \in Shutdowns
    BY <1>1 DEF NextEntry, Shutdowns, ToStop, Of
  <2> QED BY <2>1, <2>2 DEF Typed, CallsTyped, CallSet
<1>5. \/ /\ calls[k].todo = {} /\ UNCHANGED <<gate, gen>>
         /\ calls' = [calls EXCEPT ![k] = Idle]
      \/ \E e \in calls[k].todo :
           /\ Closed({e})
           /\ calls' = [calls EXCEPT ![k].entry = e, ![k].todo = @ \ {e},
                         ![k].stops = ToStop(e, calls[k].emergency)]
  BY DEF ShutdownEntryEnds
<1> QED BY <1>2, <1>3, <1>4, <1>5

LEMMA ShutdownEntryEndsTyped ==
  ASSUME Typed, NEW k \in Calls, ShutdownEntryEnds(k) PROVE Typed'
<1>1. /\ calls'[k].kind # "user" /\ calls' \in [Calls -> CallSet]
      /\ \A j \in Calls \ {k} : calls'[j] = calls[j]
      /\ waiting' = [c \in Covers |-> waiting[c] /\ Owner[c] # calls[k].entry]
      /\ UNCHANGED <<life, source, dest>>
  BY ShutdownEntryEndsSteps, IdleTyped DEF Shutdowns
<1>2. (gate' = gate /\ gen' = gen) \/ \E e : Closed({e})
  BY ShutdownEntryEndsSteps
<1>3. gate' \in [Entries -> BOOLEAN] /\ gen' \in [Entries -> Nat]
  BY <1>2, ClosedTyped DEF Typed
<1>4. CallsTyped'
  BY <1>1 DEF Typed, CallsTyped
<1>5. waiting' \in [Covers -> BOOLEAN]
  BY <1>1 DEF Typed
<1> QED BY <1>1, <1>3, <1>4, <1>5 DEF Typed

-----------------------------------------------------------------------------
(* The steps.                                                               *)

Rest ==
  \/ \E e \in Entries : SetUp(e) \/ SetUpEnds(e) \/ Unload(e) \/ UnloadEnds(e)
                          \/ Notifies(e)
  \/ \E c \in Covers : Travels(c) \/ Drops(c) \/ Returns(c) \/ UserStops(c)
                         \/ \E t \in 0..Top : UserMoves(c, t)
  \/ \E c \in Proxied : IndicatorTimesOut(c)

CallSteps ==
  \E k \in Calls :
    \/ \E e \in Entries : ResyncBegins(k, e)
    \/ ResyncOut(k) \/ ResyncBack(k) \/ ResyncEnds(k) \/ DetourEnds(k)
    \/ \E c \in Covers, t \in 0..Top : UserDetours(k, c, t)

Switch ==
  \/ \E E \in SUBSET Loaded : Enable(E)
  \/ \E k \in Calls :
       \/ \E E \in SUBSET Loaded, e \in Loaded, em \in BOOLEAN : ShutdownBegins(k, E, e, em)
       \/ ShutdownEntryEnds(k)
       \/ \E c \in Covers, ok \in BOOLEAN : ShutdownStops(k, c, ok)

LEMMA NextSplit == Next => Rest \/ CallSteps \/ Switch
  BY DEF Next, Rest, CallSteps, Switch

LEMMA NextTyped == Typed /\ [Next]_vars => Typed'
<1> SUFFICES ASSUME Typed, [Next]_vars PROVE Typed'
  OBVIOUS
<1>1. CASE UNCHANGED vars
  BY <1>1, StillTyped
<1>2. CASE Rest
  BY <1>2, SetUpTyped, StillTyped, TravelsTyped, CoverTyped DEF Rest
<1>3. CASE CallSteps
  BY <1>3, DetourTyped, DetourEndsTyped, ResyncTyped DEF CallSteps
<1>4. CASE Switch
  <2>1. Loaded \subseteq Entries
    BY DEF Loaded
  <2>2. ASSUME NEW E \in SUBSET Loaded, Enable(E) PROVE Typed'
    BY <2>1, <2>2, EnableTyped
  <2>3. ASSUME NEW k \in Calls, NEW E \in SUBSET Loaded, NEW e \in Loaded,
               NEW em \in BOOLEAN, ShutdownBegins(k, E, e, em)
        PROVE  Typed'
    BY <2>1, <2>3, ShutdownBeginsTyped
  <2> QED BY <1>4, <2>2, <2>3, ShutdownEntryEndsTyped, ShutdownStopsTyped DEF Switch
<1> QED BY <1>1, <1>2, <1>3, <1>4, NextSplit

LEMMA TypedInvariant == Spec => []Typed
<1> QED BY InitTyped, NextTyped, PTL DEF Spec

-----------------------------------------------------------------------------
(* Calls from before a disable.                                             *)

Stays(k) ==
  calls[k].kind \in {"user", "resync"} /\ calls'[k] # calls[k] =>
    dest' = dest \/ calls[k].gen = gen[calls[k].entry]

(* A call that is disturbed moves nothing: no action changes the record of  *)
(* another call, and the two that send compare the generation first.        *)
LEMMA NextStays ==
  ASSUME Typed, [Next]_vars, NEW k \in Calls PROVE Stays(k)
<1>1. CASE UNCHANGED vars \/ Rest
  <2>1. calls' = calls
    BY <1>1 DEF vars, Rest, SetUp, SetUpEnds, Unload, UnloadEnds, Notifies, Travels, Drops,
                Returns, UserStops, UserMoves, IndicatorTimesOut
  <2> QED BY <2>1 DEF Stays
<1>2. CASE CallSteps
  <2>1. ASSUME NEW j \in Calls, NEW x, calls' = [calls EXCEPT ![j] = x], calls[j] = Idle
        PROVE  Stays(k)
    BY <2>1 DEF Stays, Idle, Typed, CallsTyped
  <2>2. ASSUME NEW j \in Calls, NEW e \in Entries, ResyncBegins(j, e) PROVE Stays(k)
    BY <2>1, <2>2 DEF ResyncBegins, Begin
  <2>3. ASSUME NEW j \in Calls, NEW c \in Covers, NEW t \in 0..Top, UserDetours(j, c, t)
        PROVE  Stays(k)
    BY <2>1, <2>3 DEF UserDetours, Begin
  <2>4. ASSUME NEW j \in Calls, NEW x, calls' = [calls EXCEPT ![j] = x],
               dest' = dest \/ calls[j].gen = gen[calls[j].entry]
        PROVE  Stays(k)
    BY <2>4 DEF Stays, Typed, CallsTyped
  <2>5. ASSUME NEW j \in Calls, DetourEnds(j) PROVE Stays(k)
    <3>1. calls' = [calls EXCEPT ![j] = Idle]
          /\ (dest' = dest \/ calls[j].gen = gen[calls[j].entry])
      BY <2>5 DEF DetourEnds, GoesOn, Held
    <3> QED BY <2>4, <3>1
  <2>6. ASSUME NEW j \in Calls, ResyncOut(j) \/ ResyncBack(j) PROVE Stays(k)
    <3>1. calls[j].gen = gen[calls[j].entry]
      BY <2>6 DEF ResyncOut, ResyncBack, Undisturbed
    <3>2. \A i \in Calls \ {j} : calls'[i] = calls[i]
      BY <2>6 DEF ResyncOut, ResyncBack, Typed, CallsTyped
    <3> QED BY <3>1, <3>2 DEF Stays
  <2>7. ASSUME NEW j \in Calls, ResyncEnds(j) PROVE Stays(k)
    BY <2>7, <2>4 DEF ResyncEnds
  <2> QED BY <1>2, <2>2, <2>3, <2>5, <2>6, <2>7 DEF CallSteps
<1>3. CASE Switch
  <2>1. CASE calls[k].kind \in {"user", "resync"}
    <3>0. ~ Down(k) /\ calls[k] # Idle /\ Loaded \subseteq Entries
      BY <2>1 DEF Down, Idle, Loaded
    <3>1. ASSUME NEW E \in SUBSET Loaded, Enable(E) PROVE calls'[k] = calls[k]
      BY <3>0, <3>1, EnableSteps
    <3>2. ASSUME NEW j \in Calls, NEW E \in SUBSET Loaded, NEW e \in Loaded,
                 NEW em \in BOOLEAN, ShutdownBegins(j, E, e, em)
          PROVE  calls'[k] = calls[k]
      BY <3>0, <3>2, ShutdownBeginsSteps
    <3>3. ASSUME NEW j \in Calls, ShutdownEntryEnds(j) PROVE calls'[k] = calls[k]
      BY <3>0, <3>3, ShutdownEntryEndsSteps
    <3>4. ASSUME NEW j \in Calls, NEW c \in Covers, NEW ok \in BOOLEAN,
                 ShutdownStops(j, c, ok)
          PROVE  calls'[k] = calls[k]
      <4>1. StopsOne(j, c, ok)
        BY <3>4, ShutdownStopsSteps
      <4> QED BY <3>0, <4>1 DEF StopsOne
    <3> QED BY <1>3, <3>1, <3>2, <3>3, <3>4 DEF Switch, Stays
  <2> QED BY <2>1 DEF Stays
<1> QED BY <1>1, <1>2, <1>3, NextSplit

(* However long a call has been suspended and however often the switch was  *)
(* thrown: once its entry has been disabled it moves nothing any more       *)
(* (disable_generation, async_run_resync_cycle).                            *)
THEOREM StaleCallsStaySilent == Spec => StaleCallsSilent
<1>1. Typed /\ [Next]_vars =>
        [\A k \in Calls :
           /\ calls[k].kind \in {"user", "resync"} /\ calls'[k] # calls[k]
           /\ calls[k].gen # gen[calls[k].entry]
           => dest' = dest]_vars
  BY NextStays DEF Stays
<1> QED BY <1>1, TypedInvariant, PTL DEF Spec, StaleCallsSilent

-----------------------------------------------------------------------------
(* What a shutdown reaches.                                                 *)

Sound(k) == LET s == calls[k] IN
  /\ s.entry \in s.targets /\ s.todo \subseteq s.targets
  /\ s.must \subseteq Of(s.targets)
  /\ \A e \in s.targets : life[e] = "loaded"
  /\ \A e \in s.targets \ s.reopened : ~ gate[e]

\* A cover that must come to rest and has not is among the stops to come.
Pending(k) == LET s == calls[k] IN
  \A c \in s.must \ deaf :
    dest[c] # None /\ Owner[c] \notin s.reopened =>
      \/ c \in s.stops
      \/ Owner[c] \in s.todo /\ (s.emergency \/ waiting[c])

\* The entry a shutdown is at has nothing under way but what it will stop.
Swept(k) == LET s == calls[k] IN
  \A c \in Covers :
    Owner[c] = s.entry /\ s.entry \notin s.reopened /\ waiting[c] /\ dest[c] # None =>
      c \in s.stops \cup deaf

\* A cover counts on none of the shutdowns that an enable has overtaken.
Crossed(k) == \A j \in Calls : Down(j) =>
  \A c \in calls[k].must :
    Owner[c] \in calls[j].reopened => calls[k].emergency \/ Owner[c] \in calls[k].reopened

Reach == \A k \in Calls : Down(k) => Sound(k) /\ Pending(k) /\ Swept(k) /\ Crossed(k)

(* A step that leaves the switch alone.                                     *)
Unmoved(c)  == dest'[c] = dest[c] /\ (c \in deaf' <=> c \in deaf)

Modest ==
  /\ gate' = gate
  /\ \A k \in Calls : Down(k) \/ Down(k)' => calls'[k] = calls[k]
  /\ \A e \in Entries : life[e] = "loaded" /\ life'[e] # "loaded" => ~ Working(e)
  /\ \A c \in Covers : \/ Unmoved(c) /\ waiting'[c] = waiting[c]
                       \/ Unmoved(c) /\ life[Owner[c]] # "loaded"
                       \/ dest'[c] = None /\ (c \in deaf' <=> c \in deaf)
                       \/ gate[Owner[c]]

LEMMA ModestStep ==
  ASSUME Typed, Reach, Modest
  PROVE  /\ Reach'
         /\ \A k \in Calls : Down(k) =>
              /\ calls'[k] = calls[k]
              /\ \A c \in Of(calls[k].targets) :
                   dest'[c] \notin {None, dest[c]} => Owner[c] \in calls[k].reopened
<1> SUFFICES ASSUME NEW k \in Calls, Down(k) \/ Down(k)'
             PROVE  /\ Down(k) /\ calls'[k] = calls[k]
                    /\ Sound(k)' /\ Pending(k)' /\ Swept(k)' /\ Crossed(k)'
                    /\ \A c \in Of(calls[k].targets) :
                         dest'[c] \notin {None, dest[c]} => Owner[c] \in calls[k].reopened
  BY DEF Reach
<1>1. calls'[k] = calls[k] /\ Down(k) /\ Sound(k) /\ Pending(k) /\ Swept(k) /\ Crossed(k)
  BY DEF Modest, Down, Reach
<1>2. calls[k] \in Shutdowns
  BY <1>1, CallKinds DEF Typed, CallsTyped, Down
<1> DEFINE s == calls[k]
<1>3. \A e \in s.targets : life'[e] = "loaded"
  <2>1. \A e \in s.targets : e \in Entries /\ Working(e)
    BY <1>1, <1>2 DEF Shutdowns, Working, Down
  <2> QED BY <1>1, <2>1 DEF Sound, Modest
<1>4. Sound(k)'
  BY <1>1, <1>3 DEF Sound, Modest
<1>5. \A c \in Of(s.targets) :
         /\ c \in Covers /\ life[Owner[c]] = "loaded"
         /\ gate[Owner[c]] => Owner[c] \in s.reopened
  BY <1>1 DEF Sound, Of
<1>6. \A c \in Of(s.targets) :
         Owner[c] \notin s.reopened =>
           \/ Unmoved(c) /\ waiting'[c] = waiting[c]
           \/ dest'[c] = None /\ (c \in deaf' <=> c \in deaf)
  BY <1>5 DEF Modest
<1>7. Pending(k)'
  <2> SUFFICES ASSUME NEW c \in s.must, c \notin deaf', dest'[c] # None, Owner[c] \notin s.reopened
               PROVE  c \in s.stops \/ (Owner[c] \in s.todo /\ (s.emergency \/ waiting'[c]))
    BY <1>1 DEF Pending
  <2>1. c \in Of(s.targets)
    BY <1>1 DEF Sound
  <2>2. dest'[c] = dest[c] /\ c \notin deaf /\ waiting'[c] = waiting[c]
    BY <1>6, <2>1 DEF Unmoved
  <2> QED BY <1>1, <2>2 DEF Pending
<1>8. Swept(k)'
  <2> SUFFICES ASSUME NEW c \in Covers, Owner[c] = s.entry, s.entry \notin s.reopened,
                      waiting'[c], dest'[c] # None
               PROVE  c \in s.stops \cup deaf'
    BY <1>1 DEF Swept
  <2>1. c \in Of(s.targets)
    BY <1>1 DEF Sound, Of
  <2>2. dest'[c] = dest[c] /\ (c \in deaf' <=> c \in deaf) /\ waiting'[c] = waiting[c]
    BY <1>6, <2>1 DEF Unmoved
  <2> QED BY <1>1, <2>2 DEF Swept
<1>9. Crossed(k)'
  <2>1. \A j \in Calls : Down(j)' => Down(j) /\ calls'[j] = calls[j]
    BY DEF Modest, Down
  <2> QED BY <1>1, <2>1 DEF Crossed
<1>10. \A c \in Of(s.targets) : dest'[c] \notin {None, dest[c]} => Owner[c] \in s.reopened
  BY <1>6 DEF Unmoved
<1> QED BY <1>1, <1>4, <1>7, <1>8, <1>9, <1>10

LEMMA SentModest ==
  ASSUME Typed, NEW c \in Covers, NEW t, Held \/ (Sent(c, t) /\ gate[Owner[c]])
  PROVE  \A x \in Covers : \/ Unmoved(x) /\ waiting'[x] = waiting[x]
                           \/ gate[Owner[x]]
  BY DEF Sent, Held, Typed, Unmoved

LEMMA RestModest == ASSUME Typed, Rest \/ UNCHANGED vars PROVE Modest
<1>1. CASE \E e \in Entries : SetUp(e) \/ SetUpEnds(e) \/ Unload(e) \/ UnloadEnds(e)
                                \/ Notifies(e)
  <2> PICK e \in Entries : SetUp(e) \/ SetUpEnds(e) \/ Unload(e) \/ UnloadEnds(e)
                             \/ Notifies(e)
    BY <1>1
  <2>1. UNCHANGED <<gate, calls, dest, deaf>>
    BY DEF SetUp, SetUpEnds, Unload, UnloadEnds, Notifies
  <2>2. \A x \in Entries : life[x] = "loaded" /\ life'[x] # "loaded" => ~ Working(x)
    BY DEF SetUp, SetUpEnds, Unload, UnloadEnds, Notifies, system, Typed
  <2>3. \A c \in Covers : waiting'[c] = waiting[c] \/ life[Owner[c]] # "loaded"
    BY DEF SetUp, SetUpEnds, Unload, UnloadEnds, Notifies, Typed
  <2> QED BY <2>1, <2>2, <2>3 DEF Modest, Unmoved
<1>2. ASSUME NEW c \in Covers, Travels(c) \/ Drops(c) \/ Returns(c) PROVE Modest
  <2>1. UNCHANGED <<gate, calls, deaf, life>>
    BY <1>2 DEF Travels, Drops, Returns, system
  <2>2. \A x \in Covers : (dest'[x] = dest[x] /\ waiting'[x] = waiting[x]) \/ dest'[x] = None
    <3>1. CASE Travels(c)
      <4>1. \E arrived \in BOOLEAN :
               /\ dest' = [dest EXCEPT ![c] = IF arrived THEN None ELSE @]
               /\ waiting' = [waiting EXCEPT ![c] = @ /\ ~ arrived]
        BY <3>1 DEF Travels
      <4> QED BY <4>1 DEF Typed
    <3>2. CASE Drops(c) \/ Returns(c)
      BY <3>2 DEF Drops, Returns
    <3> QED BY <1>2, <3>1, <3>2
  <2> QED BY <2>1, <2>2 DEF Modest, Unmoved
<1>3. ASSUME NEW c \in Covers, UserStops(c) PROVE Modest
  <2>1. UNCHANGED <<gate, calls, deaf, life, waiting>> /\ Halted({c})
    BY <1>3 DEF UserStops, system
  <2>2. \A x \in Covers : dest'[x] = dest[x] \/ dest'[x] = None
    BY <2>1 DEF Halted
  <2> QED BY <2>1, <2>2 DEF Modest, Unmoved
<1>4. ASSUME NEW c \in Covers, NEW t \in 0..Top, UserMoves(c, t) PROVE Modest
  <2>1. UNCHANGED <<gate, calls, life>> /\ (Held \/ (Sent(c, t) /\ gate[Owner[c]]))
    BY <1>4 DEF UserMoves, system, Sendable
  <2> QED BY <2>1, SentModest DEF Modest
<1>5. CASE (\E c \in Proxied : IndicatorTimesOut(c)) \/ UNCHANGED vars
  <2>1. UNCHANGED <<gate, calls, dest, waiting, deaf, life>>
    BY <1>5 DEF IndicatorTimesOut, vars, system
  <2> QED BY <2>1 DEF Modest, Unmoved
<1> QED BY <1>1, <1>2, <1>3, <1>4, <1>5 DEF Rest

LEMMA CallModest == ASSUME Typed, CallSteps PROVE Modest
<1>1. ASSUME NEW k \in Calls, ~ Down(k), ~ Down(k)', UNCHANGED <<gate, life>>,
             \A j \in Calls \ {k} : calls'[j] = calls[j],
             \E c \in Covers : \E t : Held \/ (Sent(c, t) /\ gate[Owner[c]])
      PROVE  Modest
  <2>1. \A x \in Covers : (Unmoved(x) /\ waiting'[x] = waiting[x]) \/ gate[Owner[x]]
    BY <1>1, SentModest
  <2>2. \A j \in Calls : Down(j) \/ Down(j)' => calls'[j] = calls[j]
    BY <1>1
  <2> QED BY <1>1, <2>1, <2>2 DEF Modest
<1>2. ASSUME NEW k \in Calls, ~ Down(k), ~ Down(k)',
             UNCHANGED <<gate, life, dest, waiting, deaf>>,
             \A j \in Calls \ {k} : calls'[j] = calls[j]
      PROVE  Modest
  <2>1. \A j \in Calls : Down(j) \/ Down(j)' => calls'[j] = calls[j]
    BY <1>2
  <2> QED BY <1>2, <2>1 DEF Modest, Unmoved
<1>3. ASSUME NEW k \in Calls, NEW x, calls' = [calls EXCEPT ![k] = x], x.kind # "shutdown"
      PROVE  ~ Down(k)' /\ \A j \in Calls \ {k} : calls'[j] = calls[j]
  BY <1>3 DEF Down, Typed, CallsTyped
<1>4. ASSUME NEW k \in Calls, NEW e \in Entries, ResyncBegins(k, e) PROVE Modest
  <2> DEFINE x == [kind |-> "resync", entry |-> e, gen |-> gen[e],
                   todo |-> Of({e}), cover |-> None, back |-> None]
  <2>1. /\ ~ Down(k) /\ UNCHANGED <<gate, life, dest, waiting, deaf>>
        /\ calls' = [calls EXCEPT ![k] = x]
    BY <1>4 DEF ResyncBegins, Begin, Down, Idle, system
  <2>2. x.kind # "shutdown"
    OBVIOUS
  <2> HIDE DEF x
  <2> QED BY <1>2, <1>3, <2>1, <2>2
<1>5. ASSUME NEW k \in Calls, NEW c \in Covers, NEW t \in 0..Top, UserDetours(k, c, t)
      PROVE  Modest
  <2> DEFINE x == [kind |-> "user", entry |-> Owner[c], cover |-> c, target |-> t,
                   gen |-> gen[Owner[c]]]
  <2>1. /\ ~ Down(k) /\ UNCHANGED <<gate, life>>
        /\ calls' = [calls EXCEPT ![k] = x]
        /\ \E u : Sent(c, u) /\ gate[Owner[c]]
    BY <1>5 DEF UserDetours, Begin, Down, Idle, Sendable, system
  <2>2. x.kind # "shutdown"
    OBVIOUS
  <2> HIDE DEF x
  <2> QED BY <1>1, <1>3, <2>1, <2>2
<1>6. ASSUME NEW k \in Calls, ResyncEnds(k) PROVE Modest
  <2>1. /\ ~ Down(k) /\ UNCHANGED <<gate, life, dest, waiting, deaf>>
        /\ calls' = [calls EXCEPT ![k] = Idle] /\ Idle.kind # "shutdown"
    BY <1>6 DEF ResyncEnds, Down, Idle, system
  <2> QED BY <1>2, <1>3, <2>1
<1>7. ASSUME NEW k \in Calls, DetourEnds(k) PROVE Modest
  <2>1. calls[k] \in UserCalls /\ calls[k].entry = Owner[calls[k].cover]
    BY <1>7, CallKinds DEF DetourEnds, Typed, CallsTyped
  <2>2. /\ ~ Down(k) /\ UNCHANGED <<gate, life>>
        /\ calls' = [calls EXCEPT ![k] = Idle] /\ Idle.kind # "shutdown"
        /\ Held \/ (Sent(calls[k].cover, calls[k].target) /\ gate[calls[k].entry])
    BY <1>7 DEF DetourEnds, GoesOn, Down, Idle, system
  <2>3. calls[k].cover \in Covers
    BY <2>1 DEF UserCalls
  <2> QED BY <1>1, <1>3, <2>1, <2>2, <2>3
<1>8. ASSUME NEW k \in Calls, ResyncOut(k) \/ ResyncBack(k) PROVE Modest
  <2>1. calls[k] \in Resyncs /\ ~ Down(k) /\ UNCHANGED <<gate, life>>
    BY <1>8, CallKinds DEF ResyncOut, ResyncBack, Typed, CallsTyped, Down, system
  <2>2. calls'[k].kind = "resync" /\ \A j \in Calls \ {k} : calls'[j] = calls[j]
    <3>1. \E c, r : \/ calls' = [calls EXCEPT ![k].todo = @ \ {c}, ![k].cover = c, ![k].back = r]
                    \/ calls' = [calls EXCEPT ![k].todo = @ \ {c}]
                    \/ calls' = [calls EXCEPT ![k].cover = None, ![k].back = None]
      BY <1>8 DEF ResyncOut, ResyncBack
    <3> QED BY <2>1, <3>1 DEF Typed, CallsTyped, Resyncs
  <2>3. \E c \in Covers : \E t : Held \/ (Sent(c, t) /\ gate[Owner[c]])
    <3>1. CASE ResyncOut(k)
      BY <2>1, <3>1 DEF ResyncOut, Resyncs, Sendable
    <3>2. CASE ResyncBack(k)
      BY <2>1, <3>2 DEF ResyncBack, Resyncs, Sendable
    <3> QED BY <1>8, <3>1, <3>2
  <2> QED BY <1>1, <2>1, <2>2, <2>3 DEF Down
<1> QED BY <1>4, <1>5, <1>6, <1>7, <1>8 DEF CallSteps

(* The master switch.                                                       *)
LEMMA RaisedFields ==
  ASSUME NEW x \in Shutdowns, NEW E
  PROVE  LET y == Raised(x, E) IN
         /\ y.reopened = x.reopened \cup E /\ y.targets = x.targets /\ y.todo = x.todo
         /\ y.entry = x.entry /\ y.must = x.must /\ y.stops = x.stops
         /\ y.emergency = x.emergency
  BY DEF Raised, Shutdowns

LEMMA EnableReach ==
  ASSUME Typed, Reach, NEW E \in SUBSET Entries, Enable(E) PROVE Reach'
<1> SUFFICES ASSUME NEW k \in Calls, Down(k)'
             PROVE  Sound(k)' /\ Pending(k)' /\ Swept(k)' /\ Crossed(k)'
  BY DEF Reach
<1>1. /\ Down(k) /\ calls'[k] = Raised(calls[k], E)
      /\ \A j \in Calls : Down(j)' => Down(j) /\ calls'[j] = Raised(calls[j], E)
  BY EnableSteps DEF Down
<1>2. Sound(k) /\ Pending(k) /\ Swept(k) /\ Crossed(k)
  BY <1>1 DEF Reach
<1>3. \A j \in Calls : Down(j) => calls[j] \in Shutdowns
  BY CallKinds DEF Typed, CallsTyped, Down
<1>4. \A j \in Calls : Down(j)' =>
         /\ calls'[j].reopened = calls[j].reopened \cup E
         /\ calls'[j].targets = calls[j].targets /\ calls'[j].todo = calls[j].todo
         /\ calls'[j].entry = calls[j].entry /\ calls'[j].must = calls[j].must
         /\ calls'[j].stops = calls[j].stops /\ calls'[j].emergency = calls[j].emergency
  BY <1>1, <1>3, RaisedFields
<1>5. UNCHANGED <<life, dest, waiting, deaf>>
      /\ \A e \in Entries \ E : gate'[e] = gate[e]
  <2>1. /\ gate' = [e \in Entries |-> gate[e] \/ e \in E]
        /\ UNCHANGED <<life, dest, waiting, deaf>>
    BY EnableSteps
  <2> QED BY <2>1 DEF Typed
<1>6. calls[k].targets \subseteq Entries
  BY <1>1, <1>3 DEF Shutdowns
<1>7. Sound(k)'
  BY <1>2, <1>4, <1>5, <1>6 DEF Sound
<1>8. Pending(k)' /\ Swept(k)'
  BY <1>2, <1>4, <1>5 DEF Pending, Swept
<1>9. Crossed(k)'
  BY <1>1, <1>2, <1>4 DEF Crossed
<1> QED BY <1>7, <1>8, <1>9

LEMMA ShutdownBeginsReach ==
  ASSUME Typed, Reach, NEW k \in Calls, NEW E \in SUBSET Loaded, NEW e \in Loaded,
         NEW em \in BOOLEAN, ShutdownBegins(k, E, e, em)
  PROVE  Reach'
<1>0. E \in SUBSET Entries /\ e \in Entries /\ \A x \in E : life[x] = "loaded"
  BY DEF Loaded
<1>1. /\ calls[k] = Idle /\ e \in E
      /\ calls'[k] \in Shutdowns /\ calls'[k].targets = E /\ calls'[k].entry = e
      /\ calls'[k].todo = E \ {e} /\ calls'[k].stops = ToStop(e, em)
      /\ calls'[k].emergency = em /\ calls'[k].reopened = {}
      /\ calls'[k].must = {c \in Of(E) : em \/ (waiting[c] /\ ~ Overtaken(Owner[c]))}
      /\ \A j \in Calls \ {k} : calls'[j] = calls[j]
      /\ Closed(E)
      /\ UNCHANGED <<life, source, dest, waiting, deaf>>
  BY <1>0, ShutdownBeginsSteps
<1>2. \A x \in Entries : (gate'[x] => gate[x]) /\ (x \in E => ~ gate'[x])
  BY <1>1 DEF Closed
<1>3. ~ Down(k)
  BY <1>1 DEF Down, Idle
<1>4. ASSUME NEW j \in Calls \ {k}, Down(j)'
      PROVE  Sound(j)' /\ Pending(j)' /\ Swept(j)' /\ Crossed(j)'
  <2>1. calls'[j] = calls[j] /\ Down(j) /\ Sound(j) /\ Pending(j) /\ Swept(j) /\ Crossed(j)
    BY <1>1, <1>4 DEF Down, Reach
  <2>2. calls[j].targets \subseteq Entries
    BY <2>1, CallKinds DEF Typed, CallsTyped, Down, Shutdowns
  <2>3. Sound(j)' /\ Pending(j)' /\ Swept(j)'
    BY <1>1, <1>2, <2>1, <2>2 DEF Sound, Pending, Swept
  <2>4. Crossed(j)'
    BY <1>1, <2>1 DEF Crossed, Down
  <2> QED BY <2>3, <2>4
<1>5. Sound(k)'
  BY <1>0, <1>1, <1>2 DEF Sound, Of
<1>6. Pending(k)' /\ Swept(k)'
  BY <1>1 DEF Pending, Swept, ToStop, Of
<1>7. Crossed(k)'
  <2> SUFFICES ASSUME NEW j \in Calls, Down(j)', NEW c \in calls'[k].must,
                      Owner[c] \in calls'[j].reopened
               PROVE  em
    BY <1>1 DEF Crossed
  <2>1. j # k /\ Down(j) /\ calls'[j] = calls[j]
    BY <1>1 DEF Down
  <2>2. Overtaken(Owner[c])
    BY <2>1 DEF Overtaken, Down
  <2> QED BY <1>1, <2>2
<1> QED BY <1>4, <1>5, <1>6, <1>7 DEF Reach

LEMMA ShutdownStopsReach ==
  ASSUME Typed, Reach, NEW k \in Calls, NEW c \in Covers, NEW ok \in BOOLEAN,
         ShutdownStops(k, c, ok)
  PROVE  Reach'
<1>0. StopsOne(k, c, ok)
  BY ShutdownStopsSteps
<1>1. /\ Down(k) /\ calls'[k] = [calls[k] EXCEPT !.stops = @ \ {c}]
      /\ \A j \in Calls \ {k} : calls'[j] = calls[j]
      /\ ok => dest'[c] = None /\ deaf' = deaf
      /\ ~ ok => dest' = dest /\ deaf' = deaf \cup {c}
      /\ \A x \in Covers \ {c} : dest'[x] = dest[x] /\ waiting'[x] = waiting[x]
      /\ UNCHANGED <<life, gate>>
  BY <1>0 DEF StopsOne
<1>2. \A j \in Calls : Down(j) => calls[j] \in Shutdowns
  BY CallKinds DEF Typed, CallsTyped, Down
<1>3. \A j \in Calls : Down(j)' =>
         /\ Down(j) /\ calls'[j].stops \in {calls[j].stops, calls[j].stops \ {c}}
         /\ calls'[j].targets = calls[j].targets /\ calls'[j].todo = calls[j].todo
         /\ calls'[j].entry = calls[j].entry /\ calls'[j].must = calls[j].must
         /\ calls'[j].reopened = calls[j].reopened
         /\ calls'[j].emergency = calls[j].emergency
  BY <1>1, <1>2 DEF Down, Shutdowns
<1> SUFFICES ASSUME NEW j \in Calls, Down(j)'
             PROVE  Sound(j)' /\ Pending(j)' /\ Swept(j)' /\ Crossed(j)'
  BY DEF Reach
<1>4. Sound(j) /\ Pending(j) /\ Swept(j) /\ Crossed(j) /\ calls[j] \in Shutdowns
  BY <1>2, <1>3 DEF Reach
<1>5. Sound(j)' /\ Crossed(j)'
  BY <1>1, <1>3, <1>4 DEF Sound, Crossed
<1>6. \A x \in Covers : x \notin deaf' /\ dest'[x] # None =>
         x # c /\ x \notin deaf /\ dest[x] # None /\ waiting'[x] = waiting[x]
  BY <1>1
<1>7. Pending(j)'
  BY <1>3, <1>4, <1>6 DEF Pending, Shutdowns
<1>8. Swept(j)'
  BY <1>3, <1>4, <1>6 DEF Swept
<1> QED BY <1>5, <1>7, <1>8

LEMMA ShutdownEntryEndsReach ==
  ASSUME Typed, Reach, NEW k \in Calls, ShutdownEntryEnds(k) PROVE Reach'
<1>1. /\ Down(k) /\ calls[k].stops = {}
      /\ \/ calls[k].todo = {} /\ calls'[k] = Idle /\ gate' = gate
         \/ \E e \in calls[k].todo : calls'[k] = NextEntry(k, e) /\ Closed({e})
      /\ \A j \in Calls \ {k} : calls'[j] = calls[j]
      /\ waiting' = [c \in Covers |-> waiting[c] /\ Owner[c] # calls[k].entry]
      /\ UNCHANGED <<life, dest, deaf>>
  BY ShutdownEntryEndsSteps
<1>2. \A j \in Calls : Down(j) => calls[j] \in Shutdowns
  BY CallKinds DEF Typed, CallsTyped, Down
<1>3. \A x \in Entries : gate'[x] => gate[x]
  BY <1>1 DEF Closed
<1>4. \A c \in Covers : (waiting'[c] => waiting[c])
                        /\ (Owner[c] # calls[k].entry => waiting'[c] = waiting[c])
  BY <1>1 DEF Typed
<1>5. \A j \in Calls : Down(j)' =>
         /\ Down(j) /\ calls'[j].targets = calls[j].targets
         /\ calls'[j].must = calls[j].must /\ calls'[j].reopened = calls[j].reopened
         /\ calls'[j].emergency = calls[j].emergency
         /\ \/ calls'[j].entry = calls[j].entry /\ calls'[j].todo = calls[j].todo
               /\ calls'[j].stops = calls[j].stops
            \/ \E e \in calls[j].todo :
                 /\ calls'[j].entry = e /\ calls'[j].todo = calls[j].todo \ {e}
                 /\ calls'[j].stops = ToStop(e, calls[j].emergency)
                 /\ calls[j].stops = {}
  <2>1. ASSUME NEW j \in Calls \ {k}, Down(j)' PROVE Down(j) /\ calls'[j] = calls[j]
    BY <1>1, <2>1 DEF Down
  <2>2. CASE calls'[k] = Idle
    BY <2>1, <2>2 DEF Down, Idle
  <2>3. ASSUME NEW e \in calls[k].todo, calls'[k] = NextEntry(k, e)
        PROVE  /\ calls'[k].targets = calls[k].targets
               /\ calls'[k].must = calls[k].must /\ calls'[k].reopened = calls[k].reopened
               /\ calls'[k].emergency = calls[k].emergency
               /\ calls'[k].entry = e /\ calls'[k].todo = calls[k].todo \ {e}
               /\ calls'[k].stops = ToStop(e, calls[k].emergency)
    BY <1>1, <1>2, <2>3 DEF NextEntry, Shutdowns
  <2> QED BY <1>1, <2>1, <2>2, <2>3
<1> SUFFICES ASSUME NEW j \in Calls, Down(j)'
             PROVE  Sound(j)' /\ Pending(j)' /\ Swept(j)' /\ Crossed(j)'
  BY DEF Reach
<1>6. /\ Sound(j) /\ Pending(j) /\ Swept(j) /\ Crossed(j) /\ calls[j] \in Shutdowns
      /\ Swept(k) /\ Sound(k)
  BY <1>1, <1>2, <1>5 DEF Reach
<1>7. Sound(j)'
  BY <1>1, <1>3, <1>5, <1>6 DEF Sound, Shutdowns
<1>8. Crossed(j)'
  BY <1>5, <1>6 DEF Crossed
<1>9. ASSUME NEW c \in calls[j].must \ deaf, dest[c] # None,
             Owner[c] \notin calls[j].reopened
      PROVE  \/ c \in calls[j].stops
             \/ Owner[c] \in calls[j].todo /\ (calls[j].emergency \/ (waiting[c] /\ waiting'[c]))
  <2>1. c \in Covers
    BY <1>6, <1>9 DEF Shutdowns
  <2>2. \/ c \in calls[j].stops
        \/ Owner[c] \in calls[j].todo /\ (calls[j].emergency \/ waiting[c])
    BY <1>6, <1>9 DEF Pending
  <2>3. CASE waiting[c] /\ ~ waiting'[c] /\ ~ calls[j].emergency
    <3>1. Owner[c] = calls[k].entry
      BY <1>4, <2>1, <2>3
    <3>2. calls[k].entry \notin calls[k].reopened
      BY <1>1, <1>6, <1>9, <2>3, <3>1 DEF Crossed
    <3> QED BY <1>1, <1>6, <1>9, <2>1, <2>3, <3>1, <3>2 DEF Swept
  <2> QED BY <2>2, <2>3
<1>10. Pending(j)'
  <2> SUFFICES ASSUME NEW c \in calls'[j].must \ deaf', dest'[c] # None,
                      Owner[c] \notin calls'[j].reopened
               PROVE  \/ c \in calls'[j].stops
                      \/ Owner[c] \in calls'[j].todo /\ (calls'[j].emergency \/ waiting'[c])
    BY DEF Pending
  <2>1. /\ c \in Covers
        /\ \/ c \in calls[j].stops
           \/ Owner[c] \in calls[j].todo
              /\ (calls[j].emergency \/ (waiting[c] /\ waiting'[c]))
    BY <1>1, <1>5, <1>6, <1>9 DEF Shutdowns
  <2> QED BY <1>5, <2>1 DEF ToStop, Of
<1>11. Swept(j)'
  BY <1>1, <1>4, <1>5, <1>6 DEF Swept, ToStop, Of
<1> QED BY <1>7, <1>8, <1>10, <1>11

LEMMA InitReach == Init => Reach
  BY DEF Init, Reach, Down, Idle

LEMMA NextReach == Typed /\ Reach /\ [Next]_vars => Reach'
<1> SUFFICES ASSUME Typed, Reach, [Next]_vars PROVE Reach'
  OBVIOUS
<1>1. CASE Rest \/ CallSteps \/ UNCHANGED vars
  BY <1>1, RestModest, CallModest, ModestStep
<1>2. CASE Switch
  <2>1. ASSUME NEW E \in SUBSET Loaded, Enable(E) PROVE Reach'
    BY <2>1, EnableReach DEF Loaded
  <2> QED BY <1>2, <2>1, ShutdownBeginsReach, ShutdownStopsReach, ShutdownEntryEndsReach
          DEF Switch
<1> QED BY <1>1, <1>2, NextSplit

Over(k, c) == Owner[c] \in calls[k].reopened

(* One step of a shutdown under way.                                        *)
Reached(k) ==
  /\ \A c \in Of(calls[k].targets) : dest'[c] \notin {None, dest[c]} => Over(k, c)
  /\ calls'[k] = Idle =>
       /\ \A c \in calls[k].must \ deaf : dest[c] # None => Over(k, c)
       /\ \A e \in calls[k].targets \ calls[k].reopened : ~ gate[e]

LEMMA NextReached ==
  ASSUME Typed, Reach, [Next]_vars, NEW k \in Calls, Down(k) PROVE Reached(k)
<1>0. Sound(k) /\ Pending(k) /\ calls[k] \in Shutdowns /\ calls[k] # Idle
  BY CallKinds DEF Reach, Typed, CallsTyped, Down
<1>1. CASE Rest \/ CallSteps \/ UNCHANGED vars
  BY <1>0, <1>1, RestModest, CallModest, ModestStep DEF Reached, Over
<1>2. CASE Switch
  <2>1. ASSUME NEW E \in SUBSET Loaded, Enable(E) PROVE Reached(k)
    <3>1. E \in SUBSET Entries
      BY DEF Loaded
    <3>2. dest' = dest /\ calls'[k] \in CallSet /\ calls'[k].kind = calls[k].kind
      BY <2>1, <3>1, EnableSteps
    <3> QED BY <3>2 DEF Reached, Down, Idle, Of
  <2>2. ASSUME NEW j \in Calls, NEW E \in SUBSET Loaded, NEW e \in Loaded,
               NEW em \in BOOLEAN, ShutdownBegins(j, E, e, em)
        PROVE  Reached(k)
    <3>1. E \in SUBSET Entries /\ e \in Entries
      BY DEF Loaded
    <3>2. dest' = dest /\ calls[j] = Idle /\ \A i \in Calls \ {j} : calls'[i] = calls[i]
      BY <2>2, <3>1, ShutdownBeginsSteps
    <3> QED BY <1>0, <3>2 DEF Reached, Of
  <2>3. ASSUME NEW j \in Calls, ShutdownEntryEnds(j) PROVE Reached(k)
    <3>1. /\ dest' = dest /\ \A i \in Calls \ {j} : calls'[i] = calls[i]
          /\ calls[j].stops = {}
          /\ calls[j].todo = {} \/ calls'[j] \in Shutdowns
      BY <2>3, ShutdownEntryEndsSteps
    <3>2. calls'[k] = Idle => calls[k].stops = {} /\ calls[k].todo = {}
      BY <1>0, <3>1 DEF Shutdowns, Idle
    <3> QED BY <1>0, <3>1, <3>2 DEF Reached, Over, Pending, Sound, Of
  <2>4. ASSUME NEW j \in Calls, NEW c \in Covers, NEW ok \in BOOLEAN,
               ShutdownStops(j, c, ok)
        PROVE  Reached(k)
    <3>0. StopsOne(j, c, ok)
      BY <2>4, ShutdownStopsSteps
    <3>1. calls'[j] \in Shutdowns /\ \A i \in Calls \ {j} : calls'[i] = calls[i]
      BY <3>0 DEF StopsOne
    <3>2. \A x \in Covers \ {c} : dest'[x] = dest[x]
      BY <3>0 DEF StopsOne
    <3>3. (ok => dest'[c] = None) /\ (~ ok => dest' = dest)
      BY <3>0 DEF StopsOne
    <3>4. calls'[k] # Idle
      BY <1>0, <3>1 DEF Shutdowns, Idle
    <3> QED BY <3>2, <3>3, <3>4 DEF Reached, Of
  <2> QED BY <1>2, <2>1, <2>2, <2>3, <2>4 DEF Switch
<1> QED BY <1>1, <1>2, NextSplit

(* However many shutdowns, enables and commands overlap: from its call on   *)
(* none of the covers of a shutdown sets out, and at its end those it had   *)
(* to bring to rest are at rest, but for failed stops and for entries that  *)
(* somebody has enabled meanwhile (_shutdown, async_set_integration_enabled).*)
THEOREM ShutdownAlwaysReaches == Spec => ShutdownReaches
<1>1. Typed /\ Reach /\ [Next]_vars =>
        [\A k \in Calls : calls[k].kind = "shutdown" =>
           LET over(c) == Owner[c] \in calls[k].reopened IN
           /\ \A c \in Of(calls[k].targets) :
                dest'[c] \notin {None, dest[c]} => over(c)
           /\ calls'[k] = Idle =>
                /\ \A c \in calls[k].must \ deaf : dest[c] # None => over(c)
                /\ \A e \in calls[k].targets \ calls[k].reopened : ~ gate[e]]_vars
  BY NextReached DEF Reached, Over, Down
<1>2. Spec => []Reach
  BY TypedInvariant, InitReach, NextReach, PTL DEF Spec
<1> QED BY <1>1, <1>2, TypedInvariant, PTL DEF Spec, ShutdownReaches

-----------------------------------------------------------------------------
(* What the proxies show.                                                   *)

Dirs   == {None, "opening", "closing"}
Tilts  == 0..Top \cup {None}
States == {"unavailable", "opening", "closing", "closed", "open"}

ProxySet ==
  [dir : Dirs, target : Tilts, start : Tilts, timer : BOOLEAN,
   sig : {None} \cup Signatures,
   acp : {None} \cup States, shown : [state : States, tilt : Tilts]]

Good(p) ==
  /\ p \in ProxySet
  /\ p.dir # None => p.timer /\ p.target \in 0..Top /\ p.start \in 0..Top

\* The signature is that of the last report, with the direction of then.
SigKnown(p, s) ==
  p.sig # None =>
    \E d \in Dirs : p.sig = <<Available(s), d = "opening" \/ s.state = "opening",
                              d = "closing" \/ s.state = "closing", s.tilt, d>>

Current(p, s) == p.shown = Rendered(p, s) /\ SigKnown(p, s)

LEMMA RenderedType ==
  ASSUME NEW p, NEW s \in Sources PROVE Rendered(p, s) \in [state : States, tilt : Tilts]
  BY DEF Rendered, States, Tilts, Sources

LEMMA RenderedByDir ==
  ASSUME NEW p, NEW q, NEW s, p.dir = q.dir PROVE Rendered(p, s) = Rendered(q, s)
  BY DEF Rendered, IsOpening, IsClosing

LEMMA WrittenGood ==
  ASSUME NEW p, Good(p), NEW s \in Sources
  PROVE  /\ Good(Written(p, s)) /\ Written(p, s).dir = p.dir
         /\ Written(p, s).sig = p.sig
         /\ Written(p, s).shown = Rendered(Written(p, s), s)
<1> DEFINE w == Written(p, s)
<1>1. w = [p EXCEPT !.shown = Rendered(p, s)]
  BY DEF Written
<1>2. Rendered(p, s) \in [state : States, tilt : Tilts]
  BY RenderedType
<1>3. Good(w) /\ w.dir = p.dir /\ w.sig = p.sig /\ w.shown = Rendered(p, s)
  BY <1>1, <1>2 DEF Good, ProxySet
<1>4. Rendered(p, s) = Rendered(w, s)
  BY <1>3, RenderedByDir
<1> QED BY <1>3, <1>4

LEMMA AddedGood ==
  ASSUME NEW s \in Sources PROVE Good(Added(s)) /\ Current(Added(s), s)
<1> DEFINE p == [dir |-> None, target |-> None, start |-> None, timer |-> FALSE,
                 sig |-> None, acp |-> None, shown |-> None]
<1>1. Rendered(p, s) \in [state : States, tilt : Tilts]
  BY RenderedType
<1>2. Added(s) = [p EXCEPT !.shown = Rendered(p, s)]
  BY DEF Added, Written
<1>3. Good(Added(s)) /\ Added(s).dir = p.dir /\ Added(s).sig = None
      /\ Added(s).shown = Rendered(p, s)
  BY <1>1, <1>2 DEF Good, ProxySet, Dirs, Tilts
<1>4. Rendered(p, s) = Rendered(Added(s), s)
  BY <1>3, RenderedByDir
<1> QED BY <1>3, <1>4 DEF Current, SigKnown

LEMMA BeginMoveGood ==
  ASSUME NEW p, Good(p), NEW s \in Sources, NEW t \in 0..Top
  PROVE  /\ Good(BeginMove(p, s, t))
         /\ Current(p, s) => Current(BeginMove(p, s, t), s)
<1> DEFINE q == [p EXCEPT !.dir = IF t > s.tilt THEN "opening" ELSE "closing",
                          !.target = t, !.start = s.tilt, !.timer = TRUE]
<1>1. CASE s.tilt \in {None, t}
  BY <1>1 DEF BeginMove
<1>2. CASE s.tilt \notin {None, t}
  <2>1. s.tilt \in 0..Top
    BY <1>2, TiltType
  <2>2. Good(q) /\ q.sig = p.sig
    BY <2>1 DEF Good, ProxySet, Dirs, Tilts
  <2>3. BeginMove(p, s, t) = Written(q, s)
    BY <1>2 DEF BeginMove
  <2> HIDE DEF q
  <2> QED BY <2>2, <2>3, WrittenGood DEF Current, SigKnown
<1> QED BY <1>1, <1>2

LEMMA EndMoveGood ==
  ASSUME NEW p, Good(p), NEW s \in Sources
  PROVE  /\ Good(EndMove(p, s)) /\ EndMove(p, s).dir = None /\ EndMove(p, s).sig = p.sig
         /\ p.dir # None => EndMove(p, s).shown = Rendered(EndMove(p, s), s)
         /\ Current(p, s) => Current(EndMove(p, s), s)
<1> DEFINE q == [p EXCEPT !.dir = None, !.target = None, !.start = None, !.timer = FALSE]
<1>1. Good(q) /\ q.sig = p.sig /\ q.dir = None /\ q.shown = p.shown
  BY DEF Good, ProxySet, Dirs, Tilts
<1>2. EndMove(p, s) = IF p.dir = None THEN q ELSE Written(q, s)
  BY DEF EndMove
<1> HIDE DEF q
<1>3. CASE p.dir = None
  <2>1. Rendered(q, s) = Rendered(p, s)
    BY <1>1, <1>3, RenderedByDir
  <2> QED BY <1>1, <1>2, <1>3, <2>1 DEF Current, SigKnown
<1>4. CASE p.dir # None
  BY <1>1, <1>2, <1>4, WrittenGood DEF Current, SigKnown
<1> QED BY <1>3, <1>4

LEMMA SignatureType ==
  ASSUME NEW p, Good(p), NEW s \in Sources
  PROVE  /\ Signature(p, s) \in Signatures
         /\ Signature(p, s) =
              <<Available(s), p.dir = "opening" \/ s.state = "opening",
                p.dir = "closing" \/ s.state = "closing", s.tilt, p.dir>>
         /\ p.dir \in Dirs
<1>1. p.dir \in Dirs /\ s.tilt \in Tilts
  BY TiltType DEF Good, ProxySet, Tilts
<1> QED BY <1>1 DEF Signature, Signatures, Dirs, Tilts, IsOpening, IsClosing, Available

(* A report whose signature is known shows what is shown already.           *)
LEMMA SameSignature ==
  ASSUME NEW p, Good(p), NEW s \in Sources, NEW r \in Sources, Current(p, r),
         Signature(p, s) = p.sig
  PROVE  Rendered(p, s) = p.shown
<1>1. p.sig # None
  <2>1. Signature(p, s) \in Signatures
    BY SignatureType
  <2> QED BY <2>1, ProxyConstants
<1>2. PICK d \in Dirs :
         p.sig = <<Available(r), d = "opening" \/ r.state = "opening",
                   d = "closing" \/ r.state = "closing", r.tilt, d>>
  BY <1>1 DEF Current, SigKnown
<1>3. /\ d = p.dir /\ s.tilt = r.tilt /\ (Available(s) <=> Available(r))
      /\ (IsOpening(p, s) <=> IsOpening(p, r)) /\ (IsClosing(p, s) <=> IsClosing(p, r))
  BY <1>2 DEF Signature, IsOpening, IsClosing, Available
<1>4. Rendered(p, s) = Rendered(p, r)
  BY <1>3 DEF Rendered
<1> QED BY <1>4 DEF Current

LEMMA SourceEventGood ==
  ASSUME NEW p, Good(p), NEW s \in Sources
  PROVE  /\ Good(SourceEvent(p, s))
         /\ \A r \in Sources : Current(p, r) => Current(SourceEvent(p, s), s)
<1> DEFINE q == MaybeFinish(p, s)
           n == [q EXCEPT !.sig = Signature(q, s)]
<1>1. q = p \/ (q = EndMove(p, s) /\ p.dir # None)
  BY DEF MaybeFinish
<1>2. Good(q) /\ \A r \in Sources : Current(p, r) /\ Signature(q, s) = q.sig
                                     => q.shown = Rendered(q, s)
  BY <1>1, EndMoveGood, SameSignature
<1>3. SourceEvent(p, s) = IF Signature(q, s) = q.sig THEN q ELSE Written(n, s)
  BY DEF SourceEvent
<1> HIDE DEF q
<1>4. CASE Signature(q, s) = q.sig
  BY <1>2, <1>3, <1>4, SignatureType DEF Current, SigKnown
<1>5. CASE Signature(q, s) # q.sig
  <2>1. Good(n) /\ n.sig = Signature(q, s) /\ n.dir = q.dir
    BY <1>2, SignatureType DEF Good, ProxySet
  <2> HIDE DEF n
  <2>2. /\ Good(Written(n, s)) /\ Written(n, s).shown = Rendered(Written(n, s), s)
        /\ Written(n, s).sig = Signature(q, s)
    BY <2>1, WrittenGood
  <2> QED BY <1>2, <1>3, <1>5, <2>2, SignatureType DEF Current, SigKnown
<1> QED BY <1>4, <1>5

LEMMA CoordinatorUpdateGood ==
  ASSUME NEW p, Good(p), NEW s \in Sources
  PROVE  /\ Good(CoordinatorUpdate(p, s))
         /\ Current(p, s) => Current(CoordinatorUpdate(p, s), s)
<1> DEFINE n == [p EXCEPT !.acp = Rendered(p, s).state]
<1>1. Good(n) /\ n.sig = p.sig
  BY RenderedType DEF Good, ProxySet
<1>2. CoordinatorUpdate(p, s) = IF Rendered(p, s).state = p.acp THEN p ELSE Written(n, s)
  BY DEF CoordinatorUpdate
<1> HIDE DEF n
<1> QED BY <1>1, <1>2, WrittenGood DEF Current, SigKnown

ProxiesKept ==
  \A c \in Proxied :
    /\ Good(proxy[c])
    /\ life[Owner[c]] = "loaded" => Current(proxy[c], source[c])

LEMMA Entered ==
  ASSUME Typed, NEW c \in Proxied
  PROVE  c \in Covers /\ Owner[c] \in Entries /\ source[c] \in Sources
  BY EntitiesConstants DEF Typed

(* A step that concerns one proxy, or one cover without a proxy.            *)
LEMMA OneProxy ==
  ASSUME Typed, ProxiesKept, NEW c, UNCHANGED life,
         \A x \in Covers \ {c} : source'[x] = source[x],
         \A x \in Proxied \ {c} : proxy'[x] = proxy[x],
         c \in Proxied => /\ Good(proxy'[c])
                          /\ life[Owner[c]] = "loaded" => Current(proxy'[c], source'[c])
  PROVE  ProxiesKept'
  BY Entered DEF ProxiesKept

LEMMA UnmovedProxies ==
  ASSUME ProxiesKept, UNCHANGED <<proxy, source>>,
         \A c \in Proxied : life'[Owner[c]] = "loaded" => life[Owner[c]] = "loaded"
  PROVE  ProxiesKept'
  BY DEF ProxiesKept

LEMMA SetUpProxies ==
  ASSUME Typed, ProxiesKept, NEW e \in Entries,
         SetUp(e) \/ SetUpEnds(e) \/ Unload(e) \/ UnloadEnds(e)
  PROVE  ProxiesKept'
<1>1. CASE SetUp(e) \/ UnloadEnds(e)
  <2>1. UNCHANGED <<proxy, source>>
    BY <1>1 DEF SetUp, UnloadEnds
  <2>2. \A x \in Entries : life'[x] = "loaded" => life[x] = "loaded"
    BY <1>1 DEF SetUp, UnloadEnds, Typed
  <2> QED BY <2>1, <2>2, Entered, UnmovedProxies
<1>2. CASE SetUpEnds(e) \/ Unload(e)
  <2>1. /\ source' = source
        /\ proxy' = [c \in Proxied |-> IF Owner[c] = e THEN Added(source[c]) ELSE proxy[c]]
    BY <1>2 DEF SetUpEnds, Unload
  <2>2. \A x \in Entries \ {e} : life'[x] = life[x]
    BY <1>2 DEF SetUpEnds, Unload, Typed
  <2> QED BY <2>1, <2>2, Entered, AddedGood DEF ProxiesKept
<1> QED BY <1>1, <1>2

LEMMA ReportProxies ==
  ASSUME Typed, ProxiesKept, NEW c \in Covers, NEW s \in Sources, Reports(c, s),
         UNCHANGED life
  PROVE  ProxiesKept'
<1>1. source'[c] = s /\ \A x \in Covers \ {c} : source'[x] = source[x]
  BY DEF Reports, Typed
<1>2. \A x \in Proxied \ {c} : proxy'[x] = proxy[x]
  BY DEF Reports, Proxies
<1>3. ASSUME c \in Proxied
      PROVE  /\ Good(proxy'[c])
             /\ life[Owner[c]] = "loaded" => Current(proxy'[c], source'[c])
  <2>1. Good(proxy[c]) /\ source[c] \in Sources
        /\ (life[Owner[c]] = "loaded" => Current(proxy[c], source[c]))
    BY <1>3, Entered DEF ProxiesKept
  <2>2. CASE life[Owner[c]] = "loaded"
    <3>1. proxy'[c] = SourceEvent(proxy[c], s)
      BY <1>3, <2>2 DEF Reports, Proxies
    <3> QED BY <1>1, <2>1, <2>2, <3>1, SourceEventGood
  <2>3. CASE life[Owner[c]] # "loaded"
    BY <2>1, <2>3 DEF Reports
  <2> QED BY <2>2, <2>3
<1> QED BY <1>1, <1>2, <1>3, OneProxy

LEMMA TravelProxies ==
  ASSUME Typed, Typed', ProxiesKept, NEW c \in Covers, Travels(c) \/ Drops(c) \/ Returns(c)
  PROVE  ProxiesKept'
<1>1. \E s : Reports(c, s)
  BY DEF Travels, Drops, Returns
<1>2. PICK s : Reports(c, s)
  BY <1>1
<1>3. source' \in [Covers -> Sources]
  BY DEF Typed
<1>4. s \in Sources
  BY <1>2, <1>3 DEF Reports, Typed
<1>5. UNCHANGED life
  BY DEF Travels, Drops, Returns, system
<1> QED BY <1>2, <1>4, <1>5, ReportProxies

LEMMA IndicatorProxies ==
  ASSUME Typed, ProxiesKept, NEW c \in Proxied, IndicatorTimesOut(c) PROVE ProxiesKept'
<1>1. /\ UNCHANGED <<life, source>> /\ proxy'[c] = EndMove(proxy[c], source[c])
      /\ \A x \in Proxied \ {c} : proxy'[x] = proxy[x]
  BY DEF IndicatorTimesOut, Proxies, system
<1>2. /\ Good(EndMove(proxy[c], source[c]))
      /\ Current(proxy[c], source[c]) => Current(EndMove(proxy[c], source[c]), source[c])
  BY Entered, EndMoveGood DEF ProxiesKept
<1> QED BY <1>1, <1>2, OneProxy DEF ProxiesKept

(* async_update_listeners, at an update and at the end of a shutdown.       *)
LEMMA NotifyProxies ==
  ASSUME Typed, ProxiesKept, NEW e, UNCHANGED <<life, source>>,
         proxy' = [c \in Proxied |-> IF Owner[c] = e
                                     THEN CoordinatorUpdate(proxy[c], source[c])
                                     ELSE proxy[c]]
  PROVE  ProxiesKept'
  BY Entered, CoordinatorUpdateGood DEF ProxiesKept

LEMMA MoveProxies ==
  ASSUME Typed, ProxiesKept, NEW c \in Covers, NEW t \in 0..Top,
         UserMoves(c, t) \/ \E k \in Calls : UserDetours(k, c, t)
  PROVE  ProxiesKept'
<1> DEFINE m == BeginMove(proxy[c], source[c], t)
<1>1. /\ UNCHANGED <<life, source>>
      /\ \/ proxy' = proxy
         \/ c \in Proxied /\ proxy' = Proxies(c, m)
         \/ c \in Proxied /\ proxy' = Proxies(c, EndMove(m, source[c]))
  <2>1. CASE UserMoves(c, t)
    <3>1. PICK through \in BOOLEAN, preempted \in BOOLEAN :
            /\ through => c \in Proxied
            /\ proxy' = IF ~ through THEN proxy
                        ELSE Proxies(c, IF ~ preempted /\ Sendable(c, t)
                                        THEN IF through THEN m ELSE proxy[c]
                                        ELSE EndMove(IF through THEN m ELSE proxy[c],
                                                     source[c]))
      BY <2>1 DEF UserMoves
    <3>2. UNCHANGED <<life, source>>
      BY <2>1 DEF UserMoves, system
    <3> HIDE DEF m
    <3> QED BY <3>1, <3>2
  <2>2. CASE \E k \in Calls : UserDetours(k, c, t)
    BY <2>2 DEF UserDetours, system
  <2> QED BY <2>1, <2>2
<1>2. CASE proxy' = proxy
  BY <1>1, <1>2, UnmovedProxies
<1>3. ASSUME c \in Proxied
      PROVE  /\ Good(m) /\ Good(EndMove(m, source[c]))
             /\ Current(proxy[c], source[c]) =>
                  Current(m, source[c]) /\ Current(EndMove(m, source[c]), source[c])
  <2>1. Good(proxy[c]) /\ source[c] \in Sources
    BY <1>3, Entered DEF ProxiesKept
  <2>2. Good(m) /\ (Current(proxy[c], source[c]) => Current(m, source[c]))
    BY <2>1, BeginMoveGood
  <2> HIDE DEF m
  <2> QED BY <2>1, <2>2, EndMoveGood
<1> HIDE DEF m
<1>4. ASSUME c \in Proxied,
             proxy' = Proxies(c, m) \/ proxy' = Proxies(c, EndMove(m, source[c]))
      PROVE  ProxiesKept'
  <2>1. /\ \A x \in Proxied \ {c} : proxy'[x] = proxy[x]
        /\ proxy'[c] = m \/ proxy'[c] = EndMove(m, source[c])
    BY <1>4 DEF Proxies
  <2>2. Good(proxy'[c]) /\ (life[Owner[c]] = "loaded" => Current(proxy'[c], source'[c]))
    BY <1>1, <1>3, <1>4, <2>1 DEF ProxiesKept
  <2> QED BY <1>1, <2>1, <2>2, OneProxy
<1> QED BY <1>1, <1>2, <1>4

LEMMA DetourProxies ==
  ASSUME Typed, ProxiesKept, NEW k \in Calls, DetourEnds(k) PROVE ProxiesKept'
<1> DEFINE c == calls[k].cover
<1>1. /\ UNCHANGED <<life, source>>
      /\ proxy' = proxy \/ proxy' = Proxies(c, EndMove(proxy[c], source[c]))
  BY DEF DetourEnds, system
<1> HIDE DEF c
<1>2. CASE proxy' = proxy
  BY <1>1, <1>2, UnmovedProxies
<1>3. CASE proxy' = Proxies(c, EndMove(proxy[c], source[c]))
  <2>1. \A x \in Proxied \ {c} : proxy'[x] = proxy[x]
    BY <1>3 DEF Proxies
  <2>2. ASSUME c \in Proxied
        PROVE  /\ Good(proxy'[c])
               /\ life[Owner[c]] = "loaded" => Current(proxy'[c], source'[c])
    <3>1. proxy'[c] = EndMove(proxy[c], source[c])
      BY <1>3, <2>2 DEF Proxies
    <3> QED BY <1>1, <2>2, <3>1, Entered, EndMoveGood DEF ProxiesKept
  <2> QED BY <1>1, <2>1, <2>2, OneProxy
<1> QED BY <1>1, <1>2, <1>3

(* A stop by the user or by a shutdown, with the report that follows it.    *)
LEMMA HaltProxies ==
  ASSUME Typed, Typed', ProxiesKept, NEW c \in Covers, NEW C \in SUBSET {c}, Halted(C),
         UNCHANGED life,
         NEW p, c \in Proxied => p \in {proxy[c], EndMove(proxy[c], source[c])},
         proxy' = IF c \in Proxied THEN Proxies(c, HaltedProxy(p, c)) ELSE proxy
  PROVE  ProxiesKept'
<1>1. \A x \in Covers \ {c} : source'[x] = source[x]
  BY DEF Halted
<1>2. \A x \in Proxied \ {c} : proxy'[x] = proxy[x]
  BY DEF Proxies
<1>3. ASSUME c \in Proxied
      PROVE  /\ Good(proxy'[c])
             /\ life[Owner[c]] = "loaded" => Current(proxy'[c], source'[c])
  <2>1. source[c] \in Sources /\ source'[c] \in Sources /\ Good(proxy[c])
        /\ (life[Owner[c]] = "loaded" => Current(proxy[c], source[c]))
    BY <1>3 DEF Typed, ProxiesKept
  <2>2. Good(p) /\ (life[Owner[c]] = "loaded" => Current(p, source[c]))
    BY <1>3, <2>1, EndMoveGood
  <2>3. proxy'[c] = HaltedProxy(p, c)
    BY <1>3 DEF Proxies
  <2>4. CASE life[Owner[c]] = "loaded" /\ source'[c] # source[c]
    BY <2>1, <2>2, <2>3, <2>4, SourceEventGood DEF HaltedProxy
  <2>5. CASE ~ (life[Owner[c]] = "loaded" /\ source'[c] # source[c])
    BY <2>2, <2>3, <2>5 DEF HaltedProxy
  <2> QED BY <2>4, <2>5
<1> QED BY <1>1, <1>2, <1>3, OneProxy

LEMMA NextProxies == Typed /\ Typed' /\ ProxiesKept /\ [Next]_vars => ProxiesKept'
<1> SUFFICES ASSUME Typed, Typed', ProxiesKept, [Next]_vars PROVE ProxiesKept'
  OBVIOUS
<1>1. CASE UNCHANGED vars
  BY <1>1, UnmovedProxies DEF vars
<1>2. CASE Rest
  <2>1. ASSUME NEW e \in Entries, Notifies(e) PROVE ProxiesKept'
    BY <2>1, NotifyProxies DEF Notifies, system
  <2>2. ASSUME NEW c \in Covers, UserStops(c) PROVE ProxiesKept'
    <3>1. /\ Halted({c}) /\ UNCHANGED life
          /\ proxy' = IF c \in Proxied
                      THEN Proxies(c, HaltedProxy(EndMove(proxy[c], source[c]), c))
                      ELSE proxy
      BY <2>2 DEF UserStops, system
    <3> QED BY <3>1, HaltProxies
  <2> QED BY <1>2, <2>1, <2>2, SetUpProxies, TravelProxies, MoveProxies, IndicatorProxies
          DEF Rest
<1>3. CASE CallSteps
  <2>1. ASSUME NEW k \in Calls,
               (\E e \in Entries : ResyncBegins(k, e)) \/ ResyncOut(k) \/ ResyncBack(k)
                 \/ ResyncEnds(k)
        PROVE  ProxiesKept'
    <3>1. UNCHANGED <<proxy, source, life>>
      BY <2>1 DEF ResyncBegins, ResyncOut, ResyncBack, ResyncEnds, system
    <3> QED BY <3>1, UnmovedProxies
  <2> QED BY <1>3, <2>1, MoveProxies, DetourProxies DEF CallSteps
<1>4. CASE Switch
  <2>1. ASSUME NEW k \in Calls, NEW E, NEW e, NEW em,
               ShutdownBegins(k, E, e, em)
        PROVE  ProxiesKept'
    <3>1. UNCHANGED <<proxy, source, life>>
      BY <2>1 DEF ShutdownBegins, system
    <3> QED BY <3>1, UnmovedProxies
  <2>2. ASSUME NEW E, Enable(E) PROVE ProxiesKept'
    <3>1. UNCHANGED <<proxy, source, life>>
      BY <2>2 DEF Enable, system
    <3> QED BY <3>1, UnmovedProxies
  <2>3. ASSUME NEW k \in Calls, ShutdownEntryEnds(k) PROVE ProxiesKept'
    BY <2>3, NotifyProxies DEF ShutdownEntryEnds, system
  <2>4. ASSUME NEW k \in Calls, NEW c \in Covers, NEW ok \in BOOLEAN, ShutdownStops(k, c, ok)
        PROVE  ProxiesKept'
    <3>1. /\ Halted(IF ok THEN {c} ELSE {}) /\ UNCHANGED life
          /\ proxy' = IF c \in Proxied THEN Proxies(c, HaltedProxy(proxy[c], c)) ELSE proxy
      BY <2>4 DEF ShutdownStops, system
    <3>2. (IF ok THEN {c} ELSE {}) \in SUBSET {c}
      OBVIOUS
    <3> QED BY <3>1, <3>2, HaltProxies
  <2> QED BY <1>4, <2>1, <2>2, <2>3, <2>4 DEF Switch
<1> QED BY <1>1, <1>2, <1>3, <1>4, NextSplit

LEMMA ProxiesInvariant == Spec => []ProxiesKept
<1>1. Init => ProxiesKept
  BY InitTyped, Entered, AddedGood DEF Init, ProxiesKept
<1>2. Typed /\ [Next]_vars => Typed'
  BY NextTyped
<1> QED BY <1>1, <1>2, NextProxies, InitTyped, PTL DEF Spec

(* What is shown of a proxy is what it would render now: none of the three  *)
(* filters ever keeps a write back that would change it                     *)
(* (_handle_source_event, _end_move, _handle_coordinator_update).           *)
THEOREM ShownAlwaysCurrent == Spec => []ShownIsCurrent
<1>1. ProxiesKept => ShownIsCurrent
  BY DEF ProxiesKept, Current, ShownIsCurrent
<1> QED BY <1>1, ProxiesInvariant, PTL

-----------------------------------------------------------------------------
(* The services.                                                            *)

(* Without them, whatever is set up or being set up was so when they went.  *)
Registered == services \/ \A e \in Entries : life[e] \in {"setup", "loaded"} => e \in orphans

LEMMA NextRegistered == ASSUME Typed, Registered, [Next]_vars PROVE Registered'
<1>1. CASE UNCHANGED <<life, services, orphans>>
  BY <1>1 DEF Registered
<1>2. ASSUME NEW e \in Entries, SetUp(e) PROVE Registered'
  BY <1>2 DEF SetUp, Registered
<1>3. ASSUME NEW e \in Entries, SetUpEnds(e) \/ Unload(e) PROVE Registered'
  <2>1. /\ services' = services /\ orphans' = orphans
        /\ \A x \in Entries : life'[x] \in {"setup", "loaded"} => life[x] \in {"setup", "loaded"}
    BY <1>3 DEF SetUpEnds, Unload, Typed
  <2> QED BY <2>1 DEF Registered
<1>4. ASSUME NEW e \in Entries, UnloadEnds(e) PROVE Registered'
  <2>1. /\ services' = (services /\ Loaded # {})
        /\ orphans' = IF Loaded = {} THEN {x \in Entries : life[x] = "setup"} ELSE orphans
        /\ \A x \in Entries : life'[x] \in {"setup", "loaded"} => life'[x] = life[x]
    BY <1>4 DEF UnloadEnds, Typed
  <2>2. CASE Loaded = {}
    BY <2>1, <2>2 DEF Loaded, Registered
  <2>3. CASE Loaded # {}
    BY <2>1, <2>3 DEF Registered
  <2> QED BY <2>2, <2>3
<1>5. CASE Rest
  BY <1>1, <1>2, <1>3, <1>4, <1>5 DEF Rest, Notifies, Travels, Drops, Returns, UserStops, UserMoves,
     IndicatorTimesOut, system
<1>6. CASE CallSteps \/ Switch
  BY <1>1, <1>6 DEF CallSteps, Switch, ResyncBegins, ResyncOut, ResyncBack, ResyncEnds, DetourEnds,
     UserDetours, Enable, ShutdownBegins, ShutdownEntryEnds, ShutdownStops, system
<1>7. CASE UNCHANGED vars
  BY <1>1, <1>7 DEF vars
<1> QED BY <1>5, <1>6, <1>7, NextSplit

(* A loaded entry has its services, unless it was in set-up when the last   *)
(* loaded one was unloaded (async_setup_services, async_unload_services).   *)
THEOREM ServicesAlwaysKept == Spec => []ServicesKept
<1>1. Init => Registered
  BY DEF Init, Registered
<1>2. Typed /\ Registered /\ [Next]_vars => Registered'
  BY NextRegistered
<1>3. Registered => ServicesKept
  BY DEF Registered, ServicesKept, Loaded
<1> QED BY <1>1, <1>2, <1>3, TypedInvariant, PTL DEF Spec
=============================================================================
