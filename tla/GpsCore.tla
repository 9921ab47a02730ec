------------------------------ MODULE GpsCore ------------------------------
(***************************************************************************)
(* gps-manager's state machine (src/tools/gps-manager/core.c) together     *)
(* with the two pieces of code that call it back while it runs: the lease  *)
(* server's count (server.c) and the crash record (shell_save in main.c).  *)
(*                                                                         *)
(* Every C function is one operator from the struct before the call to the *)
(* struct after it, so a handler that calls six others is their            *)
(* composition and one step of the specification in GpsManager.            *)
(*                                                                         *)
(*   g  struct gm, plus `held` (the sum of the leases of the connected     *)
(*      clients, kept by server.c) and `rec` (what DIR/state holds).       *)
(*   e  what a handler meets outside the struct while it runs: the QMUX    *)
(*      socket, the ready modem owner, the forks that fail, and the        *)
(*      broadcast at which a watcher that cannot take its line is dropped. *)
(*                                                                         *)
(* Clocks are abstracted: an armed timer is a flag and a handler that      *)
(* compares clocks is told the outcome.  NoCid/NoOwner stand for -1 and    *)
(* for a zeroed struct gm_owner.                                           *)
(***************************************************************************)
EXTENDS Integers, FiniteSets

CONSTANTS
    Cids,       \* the LOC client ids the bridge may hand out
    MaxGen,     \* owner generations (pid and start time): 1..MaxGen
    MaxHeld,    \* leases held at once, over all clients
    MaxFast,    \* GM_MAX_FAST: fast failures in a row before parking
    LeakCap     \* where the model stops counting `leaked`

ASSUME CidsAssumption == Cids \subseteq Nat \ {0} /\ IsFiniteSet(Cids)
ASSUME BoundsAssumption ==
    /\ MaxGen \in Nat
    /\ MaxHeld \in Nat
    /\ MaxFast \in Nat \ {0}
    /\ LeakCap \in Nat

NoCid == 0
NoOwner == 0
NoRecord == [cid |-> NoCid, owner |-> NoOwner]

States == {"OFF", "STARTING", "ACQUIRING", "RUNNING", "STOPPING", "FAILED", "DISABLED"}
StepPhases == {"STALE_STOP", "STALE_RELEASE", "ALLOC", "NMEA", "START", "LOCSTOP", "RELEASE"}
BringUpSteps == {"ALLOC", "NMEA", "START"}
\* The phases in which GNSS is coming up or is up: a lease or its grace keeps it there.
Engaged == {"OWNER", "UP"} \cup BringUpSteps
Phases == {"IDLE", "OWNER", "UP", "STOP_PIPE", "STOP_GPSD"} \cup StepPhases
Pipeline == {"follow", "broker"}
Children == Pipeline \cup {"gpsd", "step"}
\* Where fork() is tried: a qmicli step of a phase, or one of the children.
ForkPoints == StepPhases \cup Pipeline \cup {"gpsd"}
\* Where a watcher may be dropped: at the broadcast of a state, or of the switch.
DropPoints == States \cup {"SWITCH"}

CidOrNone == Cids \cup {NoCid}
OwnerOrNone == 0 .. MaxGen
Records == [cid : CidOrNone, owner : OwnerOrNone]
Handling == [bridge : BOOLEAN, owner : OwnerOrNone, nofork : SUBSET ForkPoints,
             drop : DropPoints \cup {"none"}]

Gm == [state : States, phase : Phases, escalation : 0 .. 2, stepKilled : BOOLEAN,
       held : 0 .. MaxHeld, leases : 0 .. MaxHeld, enabled : BOOLEAN, loaded : BOOLEAN,
       cid : CidOrNone, cidOwner : OwnerOrNone,
       staleCid : CidOrNone, staleOwner : OwnerOrNone, staleFromOwner : BOOLEAN,
       session : BOOLEAN, alive : SUBSET Children, tearing : BOOLEAN,
       failing : BOOLEAN, failFast : BOOLEAN, ownerLost : BOOLEAN, parked : BOOLEAN,
       healthy : BOOLEAN, ownerOk : BOOLEAN, ownerFresh : BOOLEAN, ownerSeen : OwnerOrNone,
       streak : Nat, grace : BOOLEAN, retry : BOOLEAN, startAt : BOOLEAN,
       leaked : 0 .. LeakCap, rec : Records]

\* gm_init, then shell_cleanup_previous: a recorded CID becomes the stale one.
\* `loaded` is FALSE while chef-state gps-load runs, TRUE if it could not be run.
Boot(rec, loaded) ==
    [state |-> "OFF", phase |-> "IDLE", escalation |-> 0, stepKilled |-> FALSE,
     held |-> 0, leases |-> 0, enabled |-> TRUE, loaded |-> loaded,
     cid |-> NoCid, cidOwner |-> NoOwner,
     staleCid |-> rec.cid, staleOwner |-> rec.owner, staleFromOwner |-> FALSE,
     session |-> FALSE, alive |-> {}, tearing |-> FALSE,
     failing |-> FALSE, failFast |-> FALSE, ownerLost |-> FALSE, parked |-> FALSE,
     healthy |-> FALSE, ownerOk |-> FALSE, ownerFresh |-> FALSE, ownerSeen |-> NoOwner,
     streak |-> 0, grace |-> FALSE, retry |-> FALSE, startAt |-> FALSE,
     leaked |-> 0, rec |-> rec]

-----------------------------------------------------------------------------
(* The record, the state shown to clients, the phase.                       *)

\* Only an id with a session on it is written down.
SaveSessions(g) ==
    [g EXCEPT !.rec =
        CASE g.staleCid # NoCid -> [cid |-> g.staleCid, owner |-> g.staleOwner]
          [] g.staleCid = NoCid /\ g.cid # NoCid /\ g.session ->
                [cid |-> g.cid, owner |-> g.cidOwner]
          [] OTHER -> NoRecord]

\* shell_save: one slot, a pending stale CID has it until it is handled.
Save(g) ==
    [g EXCEPT !.rec =
        CASE g.staleCid # NoCid -> [cid |-> g.staleCid, owner |-> g.staleOwner]
          [] g.staleCid = NoCid /\ g.cid # NoCid -> [cid |-> g.cid, owner |-> g.cidOwner]
          [] OTHER -> NoRecord]

\* gm_set's exception: idle with the switch off reads DISABLED.
Shown(g, st) == IF st = "OFF" /\ ~g.enabled THEN "DISABLED" ELSE st

\* gm_set_leases(0), its switched-off teardown apart: the grace period, or OFF at
\* once when nothing is owned (FAILED).
LastLeaseGone(g) ==
    CASE g.phase = "IDLE" ->
            [g EXCEPT !.leases = 0, !.retry = FALSE, !.parked = FALSE, !.streak = 0,
                      !.failing = FALSE, !.state = Shown(g, "OFF")]
      [] g.phase \in Engaged -> [g EXCEPT !.leases = 0, !.grace = TRUE]
      [] OTHER -> [g EXCEPT !.leases = 0]

\* gm_set: show a state and broadcast it.  The broadcast may drop the watcher
\* that holds the last leases, and then the count is synced inside this call.
Set(g, e, st) ==
    LET h == [g EXCEPT !.state = Shown(g, st)]
    IN  IF e.drop = h.state /\ h.leases > 0
        THEN LastLeaseGone([h EXCEPT !.held = 0])
        ELSE h

Phase(g, ph) == [g EXCEPT !.phase = ph, !.escalation = 0, !.stepKilled = FALSE]
StepStarts(g, ph) == [Phase(g, ph) EXCEPT !.alive = @ \cup {"step"}]
StepEnds(g) == [g EXCEPT !.alive = @ \ {"step"}]
Leak(g) == [g EXCEPT !.leaked = IF @ < LeakCap THEN @ + 1 ELSE @]

\* gm_owner: the cached answer while it is fresh, else a new check.
CheckOwner(g, e) ==
    IF g.ownerFresh THEN g
    ELSE [g EXCEPT !.ownerOk = (e.owner # NoOwner), !.ownerSeen = e.owner, !.ownerFresh = TRUE]

-----------------------------------------------------------------------------
(* Bring-up and teardown.  A step whose fork fails is done at once, as one  *)
(* that exited 127.                                                         *)

Bringup(g, e) ==
    Set([Phase(g, "OWNER") EXCEPT
            !.failing = FALSE, !.failFast = FALSE, !.ownerLost = FALSE, !.healthy = FALSE,
            !.retry = FALSE, !.startAt = TRUE],
        e, "STARTING")

\* The retry is never armed.
FinishFailedForGood(g, e) ==
    LET streak == IF g.failFast THEN g.streak + 1 ELSE 0
    IN  CASE g.ownerLost -> Set(g, e, "FAILED")
          [] ~g.ownerLost /\ streak >= MaxFast ->
                Set([g EXCEPT !.streak = streak, !.parked = TRUE], e, "FAILED")
          [] OTHER -> Set([g EXCEPT !.streak = streak], e, "FAILED")

\* gm_finish, the failed half: a lease is left, so wait, park or retry later.
FinishFailed(g, e) ==
    LET streak == IF g.failFast THEN g.streak + 1 ELSE 0
    IN  CASE g.ownerLost -> Set(g, e, "FAILED")
          [] ~g.ownerLost /\ streak >= MaxFast ->
                Set([g EXCEPT !.streak = streak, !.parked = TRUE], e, "FAILED")
          [] OTHER -> Set([g EXCEPT !.streak = streak, !.retry = TRUE], e, "FAILED")

\* A lease taken while the teardown ran is forgotten.
FinishForgets(g, e) ==
    LET h == [Phase(g, "IDLE") EXCEPT !.session = FALSE, !.startAt = FALSE, !.tearing = FALSE]
    IN  CASE h.leases > 0 /\ h.failing -> FinishFailed(h, e)
          [] ~h.failing -> Set(h, e, "OFF")
          [] OTHER -> Set([h EXCEPT !.streak = 0, !.failing = FALSE], e, "OFF")

Finish(g, e) ==
    LET h == [Phase(g, "IDLE") EXCEPT !.session = FALSE, !.startAt = FALSE, !.tearing = FALSE]
    IN  CASE h.leases > 0 /\ ~h.failing -> Bringup(h, e)
          [] h.leases > 0 /\ h.failing -> FinishFailed(h, e)
          [] h.leases = 0 /\ ~h.failing -> Set(h, e, "OFF")
          [] OTHER -> Set([h EXCEPT !.streak = 0, !.failing = FALSE], e, "OFF")

StopGpsd(g, e) ==
    LET h == Phase(g, "STOP_GPSD")
    IN  IF "gpsd" \in h.alive THEN h ELSE Finish(h, e)

\* The record is not rewritten.
DropCidUnsaved(g) == [g EXCEPT !.cid = NoCid, !.session = FALSE]

DropCid(g) == Save([g EXCEPT !.cid = NoCid, !.session = FALSE])

ReleaseDone(g, e, ok) == StopGpsd(DropCid(IF ok THEN g ELSE Leak(g)), e)

Release(g, e) ==
    LET h == StepStarts(g, "RELEASE")
    IN  IF "RELEASE" \in e.nofork THEN ReleaseDone(StepEnds(h), e, FALSE) ELSE h

LocStopDone(g, e) == Release([g EXCEPT !.session = FALSE], e)

LocStop(g, e) ==
    LET h == StepStarts(g, "LOCSTOP")
    IN  IF "LOCSTOP" \in e.nofork THEN LocStopDone(StepEnds(h), e) ELSE h

\* A client id without a session is not released.
AfterPipeKeeps(g, e) ==
    LET h == IF g.cid # NoCid /\ ~e.bridge THEN DropCid(g) ELSE g
    IN  IF h.cid # NoCid /\ h.session THEN LocStop(h, e) ELSE StopGpsd(h, e)

\* gm_after_pipe: no pipeline any more.  Without the socket the CID is gone too.
AfterPipe(g, e) ==
    LET h == IF g.cid # NoCid /\ ~e.bridge THEN DropCid(g) ELSE g
    IN  CASE h.cid # NoCid /\ h.session -> LocStop(h, e)
          [] h.cid # NoCid /\ ~h.session -> Release(h, e)
          [] OTHER -> StopGpsd(h, e)

Teardown(g, e) ==
    LET h == [g EXCEPT !.grace = FALSE]
        pipe == Phase(Set(h, e, "STOPPING"), "STOP_PIPE")
    IN  CASE h.phase = "OWNER" -> Finish(Set(h, e, "STOPPING"), e)
          [] h.phase \in BringUpSteps -> Set([h EXCEPT !.tearing = TRUE], e, "STOPPING")
          [] h.phase = "UP" -> IF pipe.alive \cap Pipeline = {} THEN AfterPipe(pipe, e) ELSE pipe
          [] OTHER -> h

Fail(g, e, lost) ==
    IF g.failing THEN g
    ELSE Teardown([g EXCEPT !.failing = TRUE, !.ownerLost = lost, !.failFast = ~g.healthy], e)

-----------------------------------------------------------------------------
(* Steps and their results.                                                 *)

\* A bring-up step failed: PH_UP with nothing spawned, then one full teardown.
SetupFailed(g, e) == Fail(Phase(g, "UP"), e, FALSE)

\* A fork that fails is not noticed.
SetupUnforked(g, e, ph) ==
    LET h == StepStarts(g, ph)
    IN  IF ph \in e.nofork THEN StepEnds(h) ELSE h

Setup(g, e, ph) ==
    LET h == StepStarts(g, ph)
    IN  IF ph \in e.nofork THEN SetupFailed(StepEnds(h), e) ELSE h

\* loc-start has returned: gpsd, then the broker and the follower.
SpawnPipeline(g, e) ==
    LET up == Phase(g, "UP")
        with(kids) == [up EXCEPT !.alive = @ \cup kids]
    IN  CASE "gpsd" \in e.nofork -> Fail(up, e, FALSE)
          [] "gpsd" \notin e.nofork /\ "broker" \in e.nofork -> Fail(with({"gpsd"}), e, FALSE)
          [] {"gpsd", "broker"} \cap e.nofork = {} /\ "follow" \in e.nofork ->
                Fail(with({"gpsd", "broker"}), e, FALSE)
          [] OTHER -> Set(with({"gpsd", "broker", "follow"}), e, "ACQUIRING")

\* loc-start may begin a session even when it then fails: marked before it runs.
LocStart(g, e) == Setup([Set(g, e, "STARTING") EXCEPT !.session = TRUE], e, "START")

SetupDone(g, e, ok) ==
    CASE g.tearing -> AfterPipe(Phase([g EXCEPT !.tearing = FALSE], "UP"), e)
      [] ~g.tearing /\ ~ok -> SetupFailed(g, e)
      [] ~g.tearing /\ ok /\ g.phase = "ALLOC" -> Setup(Set(g, e, "STARTING"), e, "NMEA")
      [] ~g.tearing /\ ok /\ g.phase = "NMEA" -> LocStart(g, e)
      [] OTHER -> SpawnPipeline(g, e)

\* The stale id stays.
StaleDoneKeeps(g, e) ==
    LET h == Save(g)
    IN  CASE h.leases > 0 /\ h.staleFromOwner -> Set(Phase(h, "OWNER"), e, "STARTING")
          [] h.leases > 0 /\ ~h.staleFromOwner -> Bringup(h, e)
          [] OTHER -> Set(Phase(h, "IDLE"), e, "OFF")

\* gm_stale_done: the previous instance's CID is handled.
StaleDone(g, e) ==
    LET h == Save([g EXCEPT !.staleCid = NoCid])
    IN  CASE h.leases > 0 /\ h.staleFromOwner -> Set(Phase(h, "OWNER"), e, "STARTING")
          [] h.leases > 0 /\ ~h.staleFromOwner -> Bringup(h, e)
          [] OTHER -> Set(Phase(h, "IDLE"), e, "OFF")

StaleRelease(g, e) ==
    LET h == StepStarts(g, "STALE_RELEASE")
    IN  IF "STALE_RELEASE" \in e.nofork THEN StaleDone(Leak(StepEnds(h)), e) ELSE h

StaleStop(g, e) ==
    LET h == StepStarts(g, "STALE_STOP")
    IN  IF "STALE_STOP" \in e.nofork THEN StaleRelease(StepEnds(h), e) ELSE h

\* gm_stale_check past its early return: an owner is ready and a CID is stale.
StaleCheck(g, e) ==
    IF g.ownerSeen # g.staleOwner \/ ~e.bridge
    THEN StaleDone(g, e)
    ELSE StaleStop(Set([g EXCEPT !.staleFromOwner = (g.phase = "OWNER")], e,
                       IF g.state = "OFF" THEN "OFF" ELSE "STARTING"), e)

\* gm_step_done: the step has exited (ok: with 0) and its output is read; cid is
\* what gm_parse_cid found in it.
StepDone(g, e, ok, cid) ==
    LET h == StepEnds(g)
        named == Save([h EXCEPT !.cid = cid, !.cidOwner = h.ownerSeen])
    IN  CASE h.phase = "STALE_STOP" -> StaleRelease(h, e)
          [] h.phase = "STALE_RELEASE" -> StaleDone(IF ok THEN h ELSE Leak(h), e)
          [] h.phase = "LOCSTOP" -> LocStopDone(h, e)
          [] h.phase = "RELEASE" -> ReleaseDone(h, e, ok)
          [] h.phase = "ALLOC" ->
                IF ok /\ cid # NoCid THEN SetupDone(named, e, TRUE) ELSE SetupDone(h, e, FALSE)
          [] h.phase \in {"NMEA", "START"} -> SetupDone(h, e, ok)
          [] OTHER -> h

ChildExited(g, e, c) ==
    LET h == [g EXCEPT !.alive = @ \ {c}]
    IN  CASE h.phase = "UP" -> Fail(h, e, FALSE)
          [] h.phase = "STOP_PIPE" /\ h.alive \cap Pipeline = {} -> AfterPipe(h, e)
          [] h.phase = "STOP_GPSD" /\ c = "gpsd" -> Finish(h, e)
          [] OTHER -> h

-----------------------------------------------------------------------------
(* Leases, the switch, retry.                                               *)

SetLeases(g, e, n) ==
    LET h == [g EXCEPT !.leases = n]
        kept == [h EXCEPT !.grace = FALSE]
    IN  CASE n > 0 /\ g.leases = 0 /\ g.phase = "IDLE" /\ g.state = "OFF" -> Bringup(kept, e)
          [] n > 0 /\ ~(g.leases = 0 /\ g.phase = "IDLE" /\ g.state = "OFF") -> kept
          [] n = 0 /\ g.leases = 0 -> h
          [] n = 0 /\ g.leases > 0 /\ ~g.enabled /\ g.phase \in Engaged -> Teardown(h, e)
          [] OTHER -> LastLeaseGone(h)

\* gm_server_sync: held leases count while the switch is on and has been read.
Sync(g, e) ==
    LET n == IF g.enabled /\ g.loaded THEN g.held ELSE 0
    IN  IF n # g.leases THEN SetLeases(g, e, n) ELSE g

\* Switched off during the grace period, GNSS stays up until it ends.
SetEnabledGrace(g, e, on) ==
    LET told == [g EXCEPT !.loaded = TRUE, !.enabled = on]
        b == IF g.enabled # on /\ e.drop = "SWITCH" THEN Sync(told, e) ELSE told
        down == Sync(b, e)
        idle(h) == h.phase = "IDLE" /\ h.state = "OFF"
    IN  IF on
        THEN Sync(IF b.state = "DISABLED" \/ idle(b) THEN Set(b, e, "OFF") ELSE b, e)
        ELSE IF idle(down) THEN Set(down, e, "OFF") ELSE down

\* gm_server_set_enabled.  A watcher dropped by the switch line has the count
\* synced right after the loop over the watchers, before anything below it.
SetEnabled(g, e, on) ==
    LET told == [g EXCEPT !.loaded = TRUE, !.enabled = on]
        b == IF g.enabled # on /\ e.drop = "SWITCH" THEN Sync(told, e) ELSE told
        down == Sync(b, e)
        stopped == IF down.grace THEN Teardown(down, e) ELSE down
        idle(h) == h.phase = "IDLE" /\ h.state = "OFF"
    IN  IF on
        THEN Sync(IF b.state = "DISABLED" \/ idle(b) THEN Set(b, e, "OFF") ELSE b, e)
        ELSE IF idle(stopped) THEN Set(stopped, e, "OFF") ELSE stopped

\* gm_retry, past its refusal: only in FAILED.
Retry(g) ==
    [g EXCEPT !.parked = FALSE, !.streak = 0, !.ownerFresh = FALSE,
              !.retry = IF g.ownerLost THEN @ ELSE TRUE]

-----------------------------------------------------------------------------
(* gm_tick.  `t` says which clocks have run out: t.grace the grace period,  *)
(* t.due the one deadline of the phase (retry, owner wait, step, silence,   *)
(* escalation), t.steady that NMEA has flowed for GM_HEALTHY_MS, t.fix that *)
(* a fix is younger than GM_FIX_HOLD_MS.                                    *)

Timers == [grace : BOOLEAN, due : BOOLEAN, steady : BOOLEAN, fix : BOOLEAN]

GraceTick(g, e, t) ==
    CASE g.grace /\ t.grace /\ g.leases = 0 -> Teardown([g EXCEPT !.failing = FALSE], e)
      [] g.grace /\ t.grace /\ g.leases > 0 -> [g EXCEPT !.grace = FALSE]
      [] OTHER -> g

\* The retry's deadline alone counts: neither armed nor parked is asked.
IdleTickEager(g, e, due) ==
    LET s == IF g.staleCid # NoCid THEN CheckOwner(g, e) ELSE g
        waiting == s.leases > 0 /\ s.state = "FAILED"
        o == CheckOwner(s, e)
    IN  CASE s.staleCid # NoCid /\ s.ownerOk -> StaleCheck(s, e)
          [] ~(s.staleCid # NoCid /\ s.ownerOk) /\ waiting /\ s.ownerLost ->
                IF o.ownerOk THEN Bringup(o, e) ELSE o
          [] ~(s.staleCid # NoCid /\ s.ownerOk) /\ waiting /\ ~s.ownerLost /\ due ->
                Bringup(s, e)
          [] OTHER -> s

IdleTick(g, e, due) ==
    LET s == IF g.staleCid # NoCid THEN CheckOwner(g, e) ELSE g
        waiting == s.leases > 0 /\ s.state = "FAILED"
        o == CheckOwner(s, e)
    IN  CASE s.staleCid # NoCid /\ s.ownerOk -> StaleCheck(s, e)
          [] ~(s.staleCid # NoCid /\ s.ownerOk) /\ waiting /\ s.ownerLost ->
                IF o.ownerOk THEN Bringup(o, e) ELSE o
          [] ~(s.staleCid # NoCid /\ s.ownerOk) /\ waiting /\ ~s.ownerLost
                /\ ~s.parked /\ s.retry /\ due -> Bringup(s, e)
          [] OTHER -> s

OwnerTick(g, e, due) ==
    LET o == CheckOwner(g, e)
    IN  CASE o.ownerOk /\ o.staleCid # NoCid -> StaleCheck(o, e)
          [] o.ownerOk /\ o.staleCid = NoCid -> Setup(Set(o, e, "STARTING"), e, "ALLOC")
          [] ~o.ownerOk /\ due -> Fail(o, e, TRUE)
          [] OTHER -> o

\* The allocation that timed out is not counted.
StepTickUncounted(g, due) ==
    CASE due /\ "step" \in g.alive /\ ~g.stepKilled -> [g EXCEPT !.stepKilled = TRUE]
      [] due /\ "step" \in g.alive /\ g.stepKilled /\ g.escalation = 0 ->
            [g EXCEPT !.escalation = 1]
      [] OTHER -> g

\* TERM at the step's bound, KILL later; a timed out allocation may have leaked.
StepTick(g, due) ==
    CASE due /\ "step" \in g.alive /\ ~g.stepKilled ->
            [(IF g.phase = "ALLOC" THEN Leak(g) ELSE g) EXCEPT !.stepKilled = TRUE]
      [] due /\ "step" \in g.alive /\ g.stepKilled /\ g.escalation = 0 ->
            [g EXCEPT !.escalation = 1]
      [] OTHER -> g

UpTick(g, e, t) ==
    LET o == CheckOwner(g, e)
        h == IF t.steady /\ ~o.healthy THEN [o EXCEPT !.healthy = TRUE, !.streak = 0] ELSE o
    IN  CASE ~o.ownerOk \/ o.ownerSeen # o.cidOwner -> Fail(o, e, TRUE)
          [] o.ownerOk /\ o.ownerSeen = o.cidOwner /\ t.due -> Fail(o, e, FALSE)
          [] OTHER -> Set(h, e, IF t.fix THEN "RUNNING" ELSE "ACQUIRING")

\* No ceiling on the escalation.
StopTickEndless(g, due) == IF due THEN [g EXCEPT !.escalation = @ + 1] ELSE g

\* The stop phases: INT, then TERM, then KILL to what is still there.
StopTick(g, due) ==
    IF due /\ g.escalation < (IF g.phase = "STOP_PIPE" THEN 2 ELSE 1)
    THEN [g EXCEPT !.escalation = @ + 1]
    ELSE g

\* The phase that GraceTick has just entered has not run out of time yet.
Tick(g, e, t) ==
    LET h == GraceTick(g, e, t)
        due == t.due /\ h.phase = g.phase
    IN  CASE h.phase = "IDLE" -> IdleTick(h, e, due)
          [] h.phase = "OWNER" -> OwnerTick(h, e, due)
          [] h.phase \in StepPhases -> StepTick(h, due)
          [] h.phase = "UP" -> UpTick(h, e, [t EXCEPT !.due = due])
          [] OTHER -> StopTick(h, due)

=============================================================================
