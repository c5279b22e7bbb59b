------------------------------ MODULE Entities ------------------------------
(***************************************************************************)
(* Entries, their services and what users do to their covers:              *)
(* services/__init__.py, the positioning, tilt and stop services, the      *)
(* re-sync button, the proxy covers and the calls of the coordinator       *)
(* behind them.  A call goes on over several steps while others run.       *)
(*                                                                         *)
(* The command service is reduced to its gates for a user's command: an    *)
(* available cover, the kill switch, a target other than the position; its *)
(* records are in CoverCommand.tla.  An entry is not unloaded while a call *)
(* works on it.                                                            *)
(***************************************************************************)
EXTENDS Proxy, FiniteSets

CONSTANTS
  Entries, Covers,
  Owner,      \* the entry of each cover
  Proxied,    \* the covers with a proxy
  Starts,     \* tilts at the start
  Calls,      \* calls that may be under way together
  MaxCalls,   \* bound on what is counted: one for a throw of the master switch,
              \* two for any other call and for a drop-out
  MaxThrows,  \* bound on throws of the master switch
  MaxLoads    \* bound on set-ups

ASSUME EntitiesConstants ==
  /\ Owner \in [Covers -> Entries] /\ Proxied \subseteq Covers
  /\ Starts \subseteq 0..Top
  /\ MaxCalls \in Nat /\ MaxThrows \in Nat /\ MaxLoads \in Nat
  /\ None \notin Covers \cup Entries

VARIABLES
  life,      \* ConfigEntryState of each entry
  services,  \* the services of the domain are registered
  source,    \* the reports of the covers
  dest,      \* where a cover is going
  waiting,   \* wait_for_target of each cover
  gate,      \* enabled_toggle of each entry's coordinator
  gen,       \* disable_generation of each entry's command service
  proxy,     \* the proxies
  calls,     \* what is under way
  begun,     \* what MaxCalls counts
  throws,    \* what MaxThrows counts
  loads,     \* set-ups begun
  deaf,      \* ghost: covers whose last command outlived a failed stop
  orphans    \* ghost: entries in set-up when the services were removed

vars == <<life, services, source, dest, waiting, gate, gen, proxy, calls,
          begun, throws, loads, deaf, orphans>>

counted == <<begun, throws>>

system == <<life, services, loads, orphans>>

Of(E) == {c \in Covers : Owner[c] \in E}

Loaded == {e \in Entries : life[e] = "loaded"}

Idle == [kind |-> "idle"]

\* The proxies of c after a call, an event or a write.
Proxies(c, p) == [x \in Proxied |-> IF x = c THEN p ELSE proxy[x]]

Working(e) ==
  \E k \in Calls :
    CASE calls[k].kind = "idle"     -> FALSE
      [] calls[k].kind = "shutdown" -> e \in calls[k].targets
      [] OTHER                      -> e = calls[k].entry

Begin(k, call) == calls[k] = Idle /\ calls' = [calls EXCEPT ![k] = call]

Counts == begun + 2 <= MaxCalls /\ begun' = begun + 2 /\ UNCHANGED throws
Throws ==
  /\ begun < MaxCalls /\ begun' = begun + 1
  /\ throws < MaxThrows /\ throws' = throws + 1

-----------------------------------------------------------------------------
(* Entries.                                                                *)

\* async_setup_services, early in the set-up; it returns when they exist.
SetUp(e) ==
  /\ life[e] = "off" /\ loads < MaxLoads
  /\ life' = [life EXCEPT ![e] = "setup"] /\ loads' = loads + 1
  /\ services' = TRUE
  /\ UNCHANGED <<deaf, source, dest, waiting, gate, gen, proxy, calls,
                 counted, orphans>>

\* The platforms, the first refresh and the rest of the set-up.
SetUpEnds(e) ==
  /\ life[e] = "setup"
  /\ life' = [life EXCEPT ![e] = "loaded"]
  /\ proxy' = [c \in Proxied |-> IF Owner[c] = e THEN Added(source[c])
                                                 ELSE proxy[c]]
  /\ UNCHANGED <<deaf, services, source, dest, waiting, gate, gen, calls,
                 counted, loads, orphans>>

\* Removing the proxies cancels their timers.
Unload(e) ==
  /\ life[e] = "loaded" /\ ~ Working(e)
  /\ life' = [life EXCEPT ![e] = "unloading"]
  /\ proxy' = [c \in Proxied |-> IF Owner[c] = e THEN Added(source[c])
                                                 ELSE proxy[c]]
  /\ UNCHANGED <<deaf, services, source, dest, waiting, gate, gen, calls,
                 counted, loads, orphans>>

\* async_unload_services, when no entry is loaded.
UnloadEnds(e) ==
  /\ life[e] = "unloading"
  /\ life' = [life EXCEPT ![e] = "off"]
  /\ waiting' = [c \in Covers |-> waiting[c] /\ Owner[c] # e]
  /\ services' = (services /\ Loaded # {})
  /\ orphans' = IF Loaded = {} THEN {x \in Entries : life[x] = "setup"}
                ELSE orphans
  /\ UNCHANGED <<deaf, source, dest, gate, gen, proxy, calls, counted, loads>>

-----------------------------------------------------------------------------
(* Covers.                                                                 *)

\* A report, with the event that the proxy listens to.
Reports(c, s) ==
  /\ source' = [source EXCEPT ![c] = s]
  /\ proxy' = IF c \in Proxied /\ life[Owner[c]] = "loaded"
              THEN Proxies(c, SourceEvent(proxy[c], s)) ELSE proxy

\* One step of a move, or the rest of it without a report on the way.
Travels(c) ==
  /\ dest[c] # None /\ Available(source[c]) /\ source[c].tilt # dest[c]
  /\ LET t == source[c].tilt
         u == IF dest[c] > t THEN t + 1 ELSE t - 1 IN
     Reports(c, IF u = dest[c] THEN Resting(u) ELSE Travelling(u, dest[c]))
       \/ Reports(c, Travelling(t, dest[c])) \/ Reports(c, Resting(dest[c]))
  /\ LET arrived == source'[c] = Resting(dest[c]) IN
     /\ dest' = [dest EXCEPT ![c] = IF arrived THEN None ELSE @]
     /\ waiting' = [waiting EXCEPT ![c] = @ /\ ~ arrived]
  /\ UNCHANGED <<deaf, gate, gen, calls, counted, system>>

\* A cover drops out, standing still, and comes back.
Drops(c) ==
  /\ dest[c] = None /\ Available(source[c])
  /\ Counts
  /\ Reports(c, Gone)
  /\ UNCHANGED <<deaf, dest, waiting, gate, gen, calls, system>>

Returns(c) ==
  /\ ~ Available(source[c])
  /\ \E t \in 0..Top : Reports(c, Resting(t))
  /\ UNCHANGED <<deaf, dest, waiting, gate, gen, calls, counted, system>>

\* Covers at rest where they are.
Halted(C) ==
  /\ source' = [c \in Covers |-> IF c \in C /\ Available(source[c])
                                 THEN Resting(source[c].tilt) ELSE source[c]]
  /\ dest' = [c \in Covers |-> IF c \in C THEN None ELSE dest[c]]

\* Proxies of covers that are halted; p(c) is the proxy before the report.
HaltedProxy(p, c) ==
  IF life[Owner[c]] = "loaded" /\ source'[c] # source[c]
  THEN SourceEvent(p, source'[c]) ELSE p

IndicatorTimesOut(c) ==
  /\ proxy[c].timer
  /\ proxy' = Proxies(c, EndMove(proxy[c], source[c]))
  /\ UNCHANGED <<deaf, source, dest, waiting, gate, gen, calls, counted,
                 system>>

\* async_update_listeners: every update cycle of the entry.
Notifies(e) ==
  /\ life[e] = "loaded"
  /\ proxy' = [c \in Proxied |-> IF Owner[c] = e
                                 THEN CoordinatorUpdate(proxy[c], source[c])
                                 ELSE proxy[c]]
  /\ UNCHANGED <<deaf, source, dest, waiting, gate, gen, calls, counted,
                 system>>

-----------------------------------------------------------------------------
(* A user's command.                                                       *)

\* The gates of apply_position for a forced command.
Sendable(c, t) ==
  /\ Available(source[c]) /\ gate[Owner[c]] /\ source[c].tilt # t

Sent(c, t) ==
  /\ dest' = [dest EXCEPT ![c] = t]
  /\ waiting' = [waiting EXCEPT ![c] = TRUE]
  /\ deaf' = deaf \ {c}

Held == UNCHANGED <<dest, waiting, deaf>>

\* async_open_cover, async_close_cover and async_set_cover_tilt_position of a
\* proxy, or a positioning service: async_apply_user_position.  A handler
\* above the manual override preempts the command.
UserMoves(c, t) ==
  /\ life[Owner[c]] = "loaded" /\ Counts /\ services
  /\ \E through, preempted \in BOOLEAN :
       LET moving == IF through THEN BeginMove(proxy[c], source[c], t)
                                ELSE proxy[c]
           sent   == ~ preempted /\ Sendable(c, t) IN
       /\ through => c \in Proxied /\ Available(source[c])
       /\ IF sent THEN Sent(c, t) ELSE Held
       /\ proxy' = IF ~ through THEN proxy
                   ELSE Proxies(c, IF sent THEN moving
                                           ELSE EndMove(moving, source[c]))
  /\ UNCHANGED <<source, gate, gen, calls, system>>

\* The command waits for a detour by an end stop (_maybe_resync_at_endstop).
UserDetours(k, c, t) ==
  /\ life[Owner[c]] = "loaded" /\ c \in Proxied /\ Sendable(c, t)
  /\ t \in 1..(Top - 1)
  /\ Counts
  /\ Begin(k, [kind |-> "user", entry |-> Owner[c], cover |-> c, target |-> t,
               gen |-> gen[Owner[c]]])
  /\ \E stop \in {0, Top} : Sent(c, stop)
  /\ proxy' = Proxies(c, BeginMove(proxy[c], source[c], t))
  /\ UNCHANGED <<source, gate, gen, system>>

\* Asked again after a wait: only whether the switch is on.
GoesOnWhenEnabled(k) == gate[calls[k].entry]

\* Not disabled meanwhile, even if it is enabled again.
GoesOn(k) == gate[calls[k].entry] /\ gen[calls[k].entry] = calls[k].gen

DetourEnds(k) ==
  /\ calls[k].kind = "user"
  /\ LET c == calls[k].cover IN
     IF GoesOn(k) /\ Available(source[c])
     THEN Sent(c, calls[k].target) /\ UNCHANGED proxy
     ELSE Held /\ proxy' = Proxies(c, EndMove(proxy[c], source[c]))
  /\ calls' = [calls EXCEPT ![k] = Idle]
  /\ UNCHANGED <<source, gate, gen, counted, system>>

\* async_stop_cover of a proxy, or the stop service: no gate is asked.
UserStops(c) ==
  /\ life[Owner[c]] = "loaded" /\ Counts /\ Available(source[c])
  /\ Halted({c})
  /\ proxy' = IF c \in Proxied
              THEN Proxies(c, HaltedProxy(EndMove(proxy[c], source[c]), c))
              ELSE proxy
  /\ UNCHANGED <<deaf, waiting, gate, gen, calls, system>>

-----------------------------------------------------------------------------
(* The kill switch: integration_enable, integration_disable and            *)
(* emergency_stop.                                                         *)

\* enabled_toggle = False of the entries in E.
Closed(E) ==
  /\ gate' = [e \in Entries |-> gate[e] /\ e \notin E]
  /\ gen' = [e \in Entries |-> IF e \in E /\ gate[e] THEN gen[e] + 1 ELSE gen[e]]

\* Covers that the shutdown of an entry stops.
ToStop(e, emergency) == {c \in Of({e}) : emergency \/ waiting[c]}

\* Where every gate is open it changes nothing but the diagnostics.
Enable(E) ==
  /\ \E e \in E : ~ gate[e]
  /\ Throws
  /\ gate' = [e \in Entries |-> gate[e] \/ e \in E]
  /\ calls' = [k \in Calls |-> IF calls[k].kind = "shutdown"
                               THEN [calls[k] EXCEPT !.reopened = @ \cup E]
                               ELSE calls[k]]
  /\ UNCHANGED <<deaf, source, dest, waiting, gen, proxy, system>>

\* Every gate is closed before the first stop is awaited; the one-by-one form
\* leaves it to async_set_integration_enabled of the first entry, e.
GatesClosedOneByOne(E, e) == Closed({e})
GatesClosed(E, e)         == Closed(E)

\* An earlier shutdown of the entry still awaits a stop and has been overtaken
\* by an enable: when it ends it drops what is tracked since.
Overtaken(e) ==
  \E j \in Calls : calls[j].kind = "shutdown" /\ e \in calls[j].reopened

\* async_set_integration_enabled of every coordinator in turn, of e first.
\* must and reopened are ghosts: the covers that must come to rest and the
\* entries enabled meanwhile.
ShutdownBegins(k, E, e, emergency) ==
  /\ e \in E /\ GatesClosed(E, e)
  /\ Throws
  /\ Begin(k, [kind |-> "shutdown", emergency |-> emergency, targets |-> E,
               todo |-> E \ {e}, entry |-> e, stops |-> ToStop(e, emergency),
               must |-> {c \in Of(E) : \/ emergency
                                       \/ waiting[c] /\ ~ Overtaken(Owner[c])},
               reopened |-> {}])
  /\ UNCHANGED <<deaf, source, dest, waiting, proxy, system>>

\* try_stop_one, awaited; a failure is collected and raised at the end.
ShutdownStops(k, c, ok) ==
  /\ calls[k].kind = "shutdown" /\ c \in calls[k].stops
  /\ calls' = [calls EXCEPT ![k].stops = @ \ {c}]
  /\ deaf' = IF ok THEN deaf ELSE deaf \cup {c}
  /\ Halted(IF ok THEN {c} ELSE {})
  /\ waiting' = [waiting EXCEPT ![c] = @ /\ calls[k].emergency]
  /\ proxy' = IF c \in Proxied THEN Proxies(c, HaltedProxy(proxy[c], c))
                               ELSE proxy
  /\ UNCHANGED <<gate, gen, counted, system>>

\* The finally clause: what was tracked is dropped, the entry notified.  The
\* next entry follows in the same step.
ShutdownEntryEnds(k) ==
  /\ calls[k].kind = "shutdown" /\ calls[k].stops = {}
  /\ waiting' = [c \in Covers |-> waiting[c] /\ Owner[c] # calls[k].entry]
  /\ proxy' = [c \in Proxied |-> IF Owner[c] = calls[k].entry
                                 THEN CoordinatorUpdate(proxy[c], source[c])
                                 ELSE proxy[c]]
  /\ \/ /\ calls[k].todo = {}
        /\ calls' = [calls EXCEPT ![k] = Idle] /\ UNCHANGED <<gate, gen>>
     \/ \E e \in calls[k].todo :
          /\ Closed({e})
          /\ calls' = [calls EXCEPT ![k].entry = e, ![k].todo = @ \ {e},
                         ![k].stops = ToStop(e, calls[k].emergency)]
  /\ UNCHANGED <<deaf, source, dest, counted, system>>

-----------------------------------------------------------------------------
(* The re-sync button: async_run_resync_cycle.                             *)

\* resolve_resync_endstop, mode "nearest".
EndStop(t) == IF 2 * t < Top THEN 0 ELSE Top

ResyncBegins(k, e) ==
  /\ life[e] = "loaded"
  /\ Counts
  /\ Begin(k, [kind |-> "resync", entry |-> e, gen |-> gen[e],
               todo |-> Of({e}), cover |-> None, back |-> None])
  /\ UNCHANGED <<deaf, source, dest, waiting, gate, gen, proxy, system>>

Undisturbed(k) == gen[calls[k].entry] = calls[k].gen

\* The next cover: the end stop, unless it is not readable or refused.
ResyncOut(k) ==
  /\ calls[k].kind = "resync" /\ calls[k].cover = None
  /\ Undisturbed(k)
  /\ \E c \in calls[k].todo :
       LET t == source[c].tilt IN
       IF t # None /\ Sendable(c, EndStop(t))
       THEN /\ Sent(c, EndStop(t))
            /\ calls' = [calls EXCEPT ![k].todo = @ \ {c}, ![k].cover = c,
                                      ![k].back = t]
       ELSE /\ Held
            /\ calls' = [calls EXCEPT ![k].todo = @ \ {c}]
  /\ UNCHANGED <<source, gate, gen, proxy, counted, system>>

\* Arrived, or the wait ran out; back to the captured tilt.
ResyncBack(k) ==
  /\ calls[k].kind = "resync" /\ calls[k].cover # None
  /\ Undisturbed(k)
  /\ LET c == calls[k].cover IN
     /\ dest[c] # None => source[c].tilt # calls[k].back
     /\ IF Sendable(c, calls[k].back) THEN Sent(c, calls[k].back) ELSE Held
  /\ calls' = [calls EXCEPT ![k].cover = None, ![k].back = None]
  /\ UNCHANGED <<source, gate, gen, proxy, counted, system>>

ResyncEnds(k) ==
  /\ calls[k].kind = "resync"
  /\ \/ ~ Undisturbed(k)
     \/ calls[k].cover = None /\ calls[k].todo = {}
  /\ calls' = [calls EXCEPT ![k] = Idle]
  /\ UNCHANGED <<deaf, source, dest, waiting, gate, gen, proxy, counted,
                 system>>

-----------------------------------------------------------------------------
Init ==
  /\ life = [e \in Entries |-> "off"] /\ services = FALSE
  /\ source \in [Covers -> {Resting(t) : t \in Starts}]
  /\ dest = [c \in Covers |-> None] /\ waiting = [c \in Covers |-> FALSE]
  /\ gate = [e \in Entries |-> TRUE] /\ gen = [e \in Entries |-> 0]
  /\ proxy = [c \in Proxied |-> Added(source[c])]
  /\ calls = [k \in Calls |-> Idle] /\ begun = 0 /\ throws = 0
  /\ loads = 0
  /\ orphans = {} /\ deaf = {}

Next ==
  \/ \E e \in Entries : SetUp(e) \/ SetUpEnds(e) \/ Unload(e) \/ UnloadEnds(e)
                          \/ Notifies(e)
  \/ \E c \in Covers : Travels(c) \/ Drops(c) \/ Returns(c) \/ UserStops(c)
                         \/ \E t \in 0..Top : UserMoves(c, t)
  \/ \E c \in Proxied : IndicatorTimesOut(c)
  \/ services /\ \E E \in SUBSET Loaded \ {{}} : Enable(E)
  \/ \E k \in Calls :
       \/ services /\ \E E \in SUBSET Loaded, e \in Loaded, emergency \in BOOLEAN :
                        ShutdownBegins(k, E, e, emergency)
       \/ ShutdownEntryEnds(k)
       \/ \E c \in Covers, ok \in BOOLEAN : ShutdownStops(k, c, ok)
       \/ \E e \in Entries : ResyncBegins(k, e)
       \/ ResyncOut(k) \/ ResyncBack(k) \/ ResyncEnds(k) \/ DetourEnds(k)
       \/ \E c \in Covers, t \in 0..Top : UserDetours(k, c, t)

Spec == Init /\ [][Next]_vars

\* The event loop runs the timer of an indicator.
FairSpec == Spec /\ \A c \in Proxied : WF_vars(IndicatorTimesOut(c))

-----------------------------------------------------------------------------
(* Properties.                                                             *)

\* Types; a direction is shown with a target, a start and a timer.
TypeOK ==
  /\ life \in [Entries -> {"off", "setup", "loaded", "unloading"}]
  /\ services \in BOOLEAN
  /\ source \in [Covers -> Sources] /\ dest \in [Covers -> 0..Top \cup {None}]
  /\ waiting \in [Covers -> BOOLEAN] /\ gate \in [Entries -> BOOLEAN]
  /\ gen \in [Entries -> Nat]
  /\ \A c \in Proxied : LET p == proxy[c] IN
       p.dir # None => p.timer /\ p.target \in 0..Top /\ p.start \in 0..Top
  /\ \A k \in Calls : calls[k].kind \in {"idle", "user", "shutdown", "resync"}
  /\ begun \in 0..MaxCalls /\ throws \in 0..MaxThrows
  /\ loads \in 0..MaxLoads /\ orphans \subseteq Entries

\* What Home Assistant shows of a proxy is what the proxy would render now:
\* none of its writes is missed, although reports, the end of a move and the
\* updates of the coordinator are each filtered by a signature of their own.
ShownIsCurrent ==
  \A c \in Proxied : life[Owner[c]] = "loaded" =>
    proxy[c].shown = Rendered(proxy[c], source[c])

\* A proxy does not show a move for ever.
IndicatorEnds ==
  \A c \in Proxied : proxy[c].dir # None ~> proxy[c].dir = None

\* From the moment a shutdown is called none of its covers sets out, and when
\* it is over each cover it had to bring to rest is at rest, the ones after a
\* failed stop too, and its entries are off; unless the stop of the cover
\* failed or somebody enabled the entry meanwhile, or, but for an emergency, an
\* enable has overtaken an earlier shutdown (Overtaken).
ShutdownReaches ==
  [][\A k \in Calls : calls[k].kind = "shutdown" =>
       LET over(c) == Owner[c] \in calls[k].reopened IN
       /\ \A c \in Of(calls[k].targets) :
            dest'[c] \notin {None, dest[c]} => over(c)
       /\ calls'[k] = Idle =>
            /\ \A c \in calls[k].must \ deaf : dest[c] # None => over(c)
            /\ \A e \in calls[k].targets \ calls[k].reopened : ~ gate[e]]_vars

\* A call that was under way when its entry was disabled moves nothing any
\* more, even when the entry has been enabled again.
StaleCallsSilent ==
  [][\A k \in Calls :
       /\ calls[k].kind \in {"user", "resync"} /\ calls'[k] # calls[k]
       /\ calls[k].gen # gen[calls[k].entry]
       => dest' = dest]_vars

\* The services are there for every loaded entry, unless it was in set-up when
\* the last loaded one went.
ServicesKept == \A e \in Loaded : services \/ e \in orphans

\* Without the exception: not kept by the code.
ServicesPresent == Loaded # {} => services
=============================================================================
