----------------------------- MODULE GpsManager -----------------------------
(***************************************************************************)
(* The gps-manager daemon around its core: the poll loop of main.c, which  *)
(* turns child exits, step results, client requests and clock ticks into   *)
(* calls of GpsCore, its crash and respawn, its orderly exit, and the modem*)
(* it drives (the QMUX bridge and its owner, modelled from what the code   *)
(* asks of them).                                                          *)
(*                                                                         *)
(*   g      the daemon's memory and DIR/state (GpsCore)                    *)
(*   modem  the bridge: its generation, socket, readiness, the LOC client  *)
(*          ids it has given to this daemon and those with a session       *)
(*   step   the qmicli in flight: the bridge it reached, what it has done  *)
(*   mode   "serving", or "stopping" after SIGTERM                         *)
(*   crashes, lost: how often the daemon died, and how many client ids it  *)
(*          may have lost that way or by counted failures before (history) *)
(***************************************************************************)
EXTENDS GpsCore

CONSTANTS
    MaxCrashes,   \* deaths of the daemon in a behaviour
    Drops,        \* the broadcasts at which a watcher may be dropped
    NoForkSets    \* the sets of fork points that may fail together

ASSUME ChoicesAssumption ==
    /\ MaxCrashes \in Nat
    /\ Drops \subseteq DropPoints
    /\ NoForkSets \subseteq SUBSET ForkPoints

VARIABLES g, modem, step, mode, crashes, lost

vars == <<g, modem, step, mode, crashes, lost>>

-----------------------------------------------------------------------------
(* What a handler meets.                                                    *)

NoStep == [on |-> NoOwner, did |-> FALSE, got |-> NoCid]

\* gm_owner_check: the ready marker, the QMUX socket and a live owner.
ReadyOwner == IF modem.bridge /\ modem.ready THEN modem.gen ELSE NoOwner

\* Once the server is closed nobody is dropped.  While nobody holds a lease a dropped
\* watcher changes no count; dropped during its own first lease, it is Lease and Unlease.
DropsNow ==
    CASE mode = "serving" /\ g.held > 0 -> Drops \cup {"none"}
      [] OTHER -> {"none"}

HandlingNow ==
    {[bridge |-> modem.bridge, owner |-> ReadyOwner, nofork |-> nf, drop |-> d] :
        nf \in NoForkSets, d \in DropsNow}

\* A handler leaves the struct at h; a qmicli it forked connects to the bridge there is.
Handled(h) ==
    /\ g' = h
    /\ step' = CASE "step" \notin h.alive -> NoStep
                 [] "step" \in h.alive /\ ("step" \notin g.alive \/ h.phase # g.phase) ->
                        [NoStep EXCEPT !.on = IF modem.bridge THEN modem.gen ELSE NoOwner]
                 [] OTHER -> step

-----------------------------------------------------------------------------
(* The poll loop: clients, clocks, children.                                *)

\* `lease`: refused while the switch is known to be off.
Lease ==
    /\ mode = "serving"
    /\ g.held < MaxHeld
    /\ ~(g.loaded /\ ~g.enabled)
    /\ \E e \in HandlingNow : Handled(Sync([g EXCEPT !.held = @ + 1], e))
    /\ UNCHANGED <<modem, mode, crashes, lost>>

\* `release`, or a connection that ends with its leases (on_close).
Unlease ==
    /\ mode = "serving"
    /\ \E left \in 0 .. g.held - 1, e \in HandlingNow :
            Handled(Sync([g EXCEPT !.held = left], e))
    /\ UNCHANGED <<modem, mode, crashes, lost>>

\* `enable` and `disable`.
Switch ==
    /\ mode = "serving"
    /\ \E on \in BOOLEAN, e \in HandlingNow : Handled(SetEnabled(g, e, on))
    /\ UNCHANGED <<modem, mode, crashes, lost>>

\* The saved switch has been read, or the loader failed or timed out (on).
\* A client's enable or disable since start wins.
Loaded ==
    /\ ~g.loaded
    /\ \E on \in BOOLEAN, e \in HandlingNow : Handled(SetEnabled(g, e, on))
    /\ UNCHANGED <<modem, mode, crashes, lost>>

RetryRequest ==
    /\ mode = "serving"
    /\ g.state = "FAILED" /\ g.phase = "IDLE"
    /\ Handled(Retry(g))
    /\ UNCHANGED <<modem, mode, crashes, lost>>

\* The timers that can run out now: only an armed one, and a fix or steady NMEA only in UP.
TimersNow ==
    {t \in Timers : /\ t.grace => g.grace
                    /\ (t.steady \/ t.fix) => g.phase = "UP" /\ ~t.due}

TickWith(timers) ==
    /\ \E t \in timers, e \in HandlingNow : Handled(Tick(g, e, t))
    /\ UNCHANGED <<modem, mode, crashes, lost>>

GmTick == TickWith(TimersNow)

\* The owner check is older than GM_OWNER_POLL_MS.
OwnerCheckAges ==
    /\ g.ownerFresh
    /\ g' = [g EXCEPT !.ownerFresh = FALSE]
    /\ UNCHANGED <<modem, step, mode, crashes, lost>>

\* qmicli acts on the bridge it reached, once, some time before it exits.
StepActs ==
    /\ "step" \in g.alive
    /\ modem.bridge /\ step.on = modem.gen /\ ~step.did
    /\ LET own == {IF g.phase \in {"STALE_STOP", "STALE_RELEASE"} THEN g.staleCid ELSE g.cid}
                    \cap modem.cids
       IN  CASE g.phase = "ALLOC" ->
                    \E c \in Cids \ modem.cids :
                        /\ modem' = [modem EXCEPT !.cids = @ \cup {c}]
                        /\ step' = [step EXCEPT !.did = TRUE, !.got = c]
             [] g.phase = "START" ->
                    /\ modem' = [modem EXCEPT !.loc = @ \cup own]
                    /\ step' = [step EXCEPT !.did = TRUE]
             [] g.phase \in {"LOCSTOP", "STALE_STOP"} ->
                    /\ modem' = [modem EXCEPT !.loc = @ \ own]
                    /\ step' = [step EXCEPT !.did = TRUE]
             [] g.phase \in {"RELEASE", "STALE_RELEASE"} ->
                    /\ modem' = [modem EXCEPT !.cids = @ \ own, !.loc = @ \ own]
                    /\ step' = [step EXCEPT !.did = TRUE]
             [] OTHER -> modem' = modem /\ step' = [step EXCEPT !.did = TRUE]
    /\ UNCHANGED <<g, mode, crashes, lost>>

\* The step has exited and its pipe is at EOF.  0 means it did its work; an allocation
\* that did its work prints the client id unless it was killed.
StepExits ==
    /\ "step" \in g.alive
    /\ \E ok \in BOOLEAN, e \in HandlingNow :
            /\ ok => step.did
            /\ ~ok /\ step.got # NoCid => g.stepKilled
            /\ Handled(StepDone(g, e, ok, step.got))
    /\ UNCHANGED <<modem, mode, crashes, lost>>

ChildExits(c) ==
    /\ c \in g.alive
    /\ \E e \in HandlingNow : Handled(ChildExited(g, e, c))
    /\ UNCHANGED <<modem, mode, crashes, lost>>

-----------------------------------------------------------------------------
(* Death, respawn, exit.                                                    *)

Count(P) == IF P THEN 1 ELSE 0

\* What a death of the daemon may leave behind uncounted: its own counter, and the
\* client id of an allocation in flight.
LostAtDeath ==
    LET n == lost + g.leaked + Count(g.phase = "ALLOC")
    IN  IF n < LeakCap THEN n ELSE LeakCap

\* The supervisor starts a new instance: shell_cleanup_previous has killed what was
\* left running, and the record is all it knows.  `rec` is the record it finds.
Respawn(rec) ==
    /\ \E loaded \in BOOLEAN : g' = Boot(rec, loaded)
    /\ step' = NoStep
    /\ mode' = "serving"
    /\ crashes' = crashes + 1
    /\ lost' = LostAtDeath
    /\ UNCHANGED modem

Crash == crashes < MaxCrashes /\ Respawn(g.rec)

\* SIGTERM: the clients are closed without a sync, then everything comes down.
Stop ==
    /\ mode = "serving"
    /\ mode' = "stopping"
    /\ \E e \in HandlingNow :
            Handled(Teardown([g EXCEPT !.held = 0, !.leases = 0, !.grace = FALSE, !.failing = FALSE],
                             [e EXCEPT !.drop = "none"]))
    /\ UNCHANGED <<modem, crashes, lost>>

\* The end of main: down, or out of time.  The record goes only with nothing in it.
Exit ==
    /\ mode = "stopping" /\ crashes < MaxCrashes
    /\ LET clean == g.phase = "IDLE" /\ g.staleCid = NoCid /\ g.cid = NoCid
       IN  Respawn(IF clean THEN NoRecord ELSE g.rec)

-----------------------------------------------------------------------------
(* The modem's side.                                                        *)

\* The bridge dies with everything it had given out.
BridgeDies ==
    /\ modem.bridge
    /\ modem' = [modem EXCEPT !.bridge = FALSE, !.ready = FALSE, !.cids = {}, !.loc = {}]
    /\ UNCHANGED <<g, step, mode, crashes, lost>>

\* A new owner starts its bridge.  Assumed: it takes longer than GM_OWNER_POLL_MS, so a
\* positive check of the old one is no longer fresh.
BridgeStarts ==
    /\ ~modem.bridge /\ modem.gen < MaxGen
    /\ ~(g.ownerFresh /\ g.ownerOk)
    /\ modem' = [modem EXCEPT !.gen = @ + 1, !.bridge = TRUE]
    /\ UNCHANGED <<g, step, mode, crashes, lost>>

OwnerReady ==
    /\ modem.bridge /\ ~modem.ready
    /\ modem' = [modem EXCEPT !.ready = TRUE]
    /\ UNCHANGED <<g, step, mode, crashes, lost>>

-----------------------------------------------------------------------------
Init ==
    /\ \E loaded \in BOOLEAN : g = Boot(NoRecord, loaded)
    /\ modem = [gen |-> NoOwner, bridge |-> FALSE, ready |-> FALSE, cids |-> {}, loc |-> {}]
    /\ step = NoStep
    /\ mode = "serving"
    /\ crashes = 0
    /\ lost = 0

Next ==
    \/ Lease \/ Unlease \/ Switch \/ Loaded \/ RetryRequest
    \/ GmTick \/ OwnerCheckAges
    \/ StepActs \/ StepExits
    \/ \E c \in Children \ {"step"} : ChildExits(c)
    \/ Crash \/ Stop \/ Exit
    \/ BridgeDies \/ BridgeStarts \/ OwnerReady

Spec == Init /\ [][Next]_vars

-----------------------------------------------------------------------------
(* Fairness.  The loop ticks every GM_TICK_MS, so a clock that has run out  *)
(* is acted on; silence, which NMEA can prevent for ever, is not forced.    *)
(* A child sent KILL is gone and reaped; a step that was not killed need    *)
(* not end.  Clients, the modem and the daemon's death are never forced.    *)

TimersOut == {[grace |-> TRUE, due |-> g.phase # "UP", steady |-> FALSE, fix |-> FALSE]}
Killed(c) ==
    \/ c = "step" /\ g.escalation = 1
    \/ c \in Pipeline /\ g.phase = "STOP_PIPE" /\ g.escalation = 2
    \/ c = "gpsd" /\ g.phase = "STOP_GPSD" /\ g.escalation = 1

Fairness ==
    /\ WF_vars(TickWith(TimersOut))
    /\ WF_vars(OwnerCheckAges)
    /\ WF_vars(Killed("step") /\ StepExits)
    /\ \A c \in Children \ {"step"} : WF_vars(Killed(c) /\ ChildExits(c))

FairSpec == Spec /\ Fairness

-----------------------------------------------------------------------------
(* Safety.                                                                  *)

Modems == [gen : OwnerOrNone, bridge : BOOLEAN, ready : BOOLEAN,
           cids : SUBSET Cids, loc : SUBSET Cids]
Steps == [on : OwnerOrNone, did : BOOLEAN, got : CidOrNone]

\* Every field keeps its type; the counters stay within their caps.
TypeOK ==
    /\ g \in Gm
    /\ modem \in Modems
    /\ step \in Steps
    /\ mode \in {"serving", "stopping"}
    /\ crashes \in 0 .. MaxCrashes
    /\ lost \in 0 .. LeakCap

\* The phase and the qmicli in flight agree: a step phase without a step would wait for
\* ever for a gm_step_done, a step outside one would have its result thrown away.
StepMatchesPhase == "step" \in g.alive <=> g.phase \in StepPhases

\* Idle, or about to start again, the daemon owns nothing: no client id, no session, no
\* child, no teardown pending.  A teardown that skipped one of its parts would show here.
NothingOwnedAtRest ==
    g.phase \in {"IDLE", "OWNER"} =>
        g.cid = NoCid /\ ~g.session /\ g.alive = {} /\ ~g.tearing

\* DIR/state has one slot for a client id and the owner that served it.  Whichever id the
\* daemon is responsible for is in it, in every state a crash can meet.
RecordCoversCid ==
    /\ g.cid # NoCid => g.staleCid = NoCid /\ g.rec = [cid |-> g.cid, owner |-> g.cidOwner]
    /\ g.staleCid # NoCid => g.rec = [cid |-> g.staleCid, owner |-> g.staleOwner]

\* Every client id the bridge has given out is known to the daemon (in use, recorded by
\* its predecessor, or in the output of the allocation in flight), or was counted: a
\* failed release, a timed out allocation, an allocation the daemon died in.
NoUncountedLeak ==
    Cardinality(modem.cids \ {g.cid, g.staleCid, step.got}) <= g.leaked + lost

\* GNSS never runs behind the daemon's back: a session at the modem belongs to a client id
\* the daemon will still send loc-stop or a release for, or to a counted leak.
NoOrphanSession ==
    g.leaked + lost = 0 =>
        \A c \in modem.loc : \/ c = g.staleCid
                             \/ c = g.cid /\ (g.session \/ g.phase = "RELEASE")

\* Between them: nothing of the daemon's stays at the modem unknown to it.
NothingLeftBehind == NoUncountedLeak /\ NoOrphanSession

\* Nobody's lease is forgotten: with leases counting, a daemon at rest has failed and has
\* a way on: an owner to wait for, a retry to come, or it is parked for a client to see.
LeaseIsServed ==
    mode = "serving" /\ g.leases > 0 /\ g.phase = "IDLE" =>
        g.state = "FAILED" /\ (g.ownerLost \/ g.retry \/ g.parked)

\* GNSS is up, or coming up, only for a lease or its grace period, or until the step in
\* flight lets the teardown go on; and never with the switch off.
EngagedForAReason ==
    g.phase \in Engaged =>
        /\ g.leases > 0 \/ g.grace \/ g.tearing
        /\ ~g.enabled => g.tearing

\* Parked means parked: no tick, no owner and no second lease starts a bring-up; only the
\* last release or a client's retry ends it.
ParkedUntilAsked ==
    [][g.parked /\ mode' = "serving" /\ crashes' = crashes =>
            \/ g'.parked /\ g'.phase = "IDLE"
            \/ g'.leases = 0
            \/ RetryRequest]_vars

-----------------------------------------------------------------------------
(* Liveness.                                                                *)

\* Without a lease everything comes down, whatever the children and the modem do; and a
\* previous instance's client id is dealt with once an owner stays ready.
ComesToRest ==
    /\ g.leases = 0 ~> (g.phase = "IDLE" \/ g.leases > 0)
    /\ <>[](ReadyOwner # NoOwner) => <>[](g.staleCid = NoCid)

\* With a lease and a modem that stays, the daemon never settles for FAILED or for waiting:
\* it keeps bringing GNSS up (or is parked, until a client asks for more).
LeaseKeepsTrying ==
    <>[](g.leases > 0 /\ ReadyOwner # NoOwner) =>
        []<>(g.phase \in BringUpSteps \cup {"UP"} \/ g.parked)

-----------------------------------------------------------------------------
\* The client id and the record, seen as the ledger.
Ledger == INSTANCE ClientLedger
            WITH Ids <- Cids, None <- NoCid, own <- g.cid, note <- g.rec.cid,
                 engaged <- g.session

KeepsLedger == Ledger!Spec

=============================================================================
