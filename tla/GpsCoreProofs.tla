--------------------------- MODULE GpsCoreProofs ---------------------------
(***************************************************************************)
(* What the operators of GpsCore do to the ownership part of the struct:   *)
(* its phase, children, client ids, record and count of leaks.  The lemmas *)
(* say that a handler leaves the struct Sound, the inductive invariant,    *)
(* and what it may have given up on the way (LetsGo inside a handler, Runs *)
(* for one that leaves a step in flight alone); a helper that is called in *)
(* the middle of a handler asks for what its callers have established.     *)
(***************************************************************************)
EXTENDS GpsCore, TLAPS

\* The owned things, the leaks counted and what is known of the owner are the same in both
\* structs: all of them, all but the children, or also in the same phase.
SameOwned(g, h) ==
    /\ h.tearing = g.tearing /\ h.session = g.session
    /\ h.cid = g.cid /\ h.cidOwner = g.cidOwner
    /\ h.staleCid = g.staleCid /\ h.staleOwner = g.staleOwner /\ h.rec = g.rec
    /\ h.leaked = g.leaked
    /\ h.ownerOk = g.ownerOk /\ h.ownerSeen = g.ownerSeen /\ h.ownerFresh = g.ownerFresh
Kept(g, h) == SameOwned(g, h) /\ h.alive = g.alive
SameHold(g, h) == Kept(g, h) /\ h.phase = g.phase /\ h.stepKilled = g.stepKilled

\* The owned things are, in the same phase; a leak may have been counted, the owner
\* checked, a step sent a signal.
Holds(g, h) ==
    /\ h.tearing = g.tearing /\ h.session = g.session
    /\ h.cid = g.cid /\ h.cidOwner = g.cidOwner
    /\ h.staleCid = g.staleCid /\ h.staleOwner = g.staleOwner /\ h.rec = g.rec
    /\ h.alive = g.alive /\ h.phase = g.phase

\* What is known of the owner is the same, or what the last check has found.
SameOwner(g, h) ==
    h.ownerOk = g.ownerOk /\ h.ownerSeen = g.ownerSeen /\ h.ownerFresh = g.ownerFresh
Knows(g, h, e) ==
    \/ ~h.ownerFresh
    \/ SameOwner(g, h)
    \/ h.ownerSeen = e.owner /\ (h.ownerOk <=> e.owner # NoOwner)

\* One more leak is counted, or as many as are ever counted.
OneMore(g, h) == g.leaked < h.leaked \/ LeakCap <= h.leaked

\* The literals the structs are built with are in the ranges of their fields.
LEMMA Zero == /\ 0 \in 0 .. 2 /\ 1 \in 0 .. 2 /\ 0 \in Nat /\ 0 \in 0 .. MaxHeld
              /\ NoCid \in CidOrNone /\ NoOwner \in OwnerOrNone
              /\ NoRecord \in Records /\ NoRecord.cid = NoCid /\ NoRecord.owner = NoOwner
<1>1. 0 \in 0 .. 2 /\ 1 \in 0 .. 2 /\ 0 \in Nat /\ 0 \in 0 .. MaxHeld
  BY BoundsAssumption
<1>2. NoCid \in CidOrNone
  BY DEF CidOrNone
<1>3. NoOwner \in OwnerOrNone
  BY BoundsAssumption DEF OwnerOrNone, NoOwner
<1>4. NoRecord \in Records /\ NoRecord.cid = NoCid /\ NoRecord.owner = NoOwner
  BY <1>2, <1>3 DEF NoRecord, Records
<1> QED
  BY <1>1, <1>2, <1>3, <1>4

\* gm_phase changes the phase, and nothing that is owned.
LEMMA PhaseIs ==
    ASSUME NEW g \in Gm, NEW ph \in Phases
    PROVE  /\ Phase(g, ph) \in Gm /\ Kept(g, Phase(g, ph)) /\ Phase(g, ph).phase = ph
           /\ ~Phase(g, ph).stepKilled
<1>1. Phase(g, ph) \in Gm
  BY Zero, ZenonT(60) DEF Phase, Gm
<1> QED
  BY <1>1 DEF Phase, Gm, Kept, SameOwned

\* A step that starts is the child "step" in its phase.
LEMMA StepStartsIs ==
    ASSUME NEW g \in Gm, NEW ph \in StepPhases
    PROVE  LET h == StepStarts(g, ph)
           IN  /\ h \in Gm /\ SameOwned(g, h) /\ h.phase = ph
               /\ h.alive = g.alive \cup {"step"} /\ ~h.stepKilled
<1> DEFINE f == Phase(g, ph)
<1>1. f \in Gm /\ Kept(g, f) /\ f.phase = ph /\ ~f.stepKilled
  BY PhaseIs DEF Phases
<1> HIDE DEF f
<1>2. f.alive \cup {"step"} \in SUBSET Children
  BY <1>1 DEF Gm, Children
<1>3. [f EXCEPT !.alive = f.alive \cup {"step"}] \in Gm
  BY <1>1, <1>2, ZenonT(60) DEF Gm
<1> QED
  BY <1>1, <1>3 DEF StepStarts, f, Gm, Kept, SameOwned

\* A step that ends is no child any more.
LEMMA StepEndsIs ==
    ASSUME NEW g \in Gm
    PROVE  LET h == StepEnds(g)
           IN  /\ h \in Gm /\ SameOwned(g, h) /\ h.phase = g.phase
               /\ h.alive = g.alive \ {"step"}
BY DEF StepEnds, Gm, SameOwned

\* Counting a leak changes nothing that is owned; it is one more.
LEMMA LeakKeeps ==
    ASSUME NEW g \in Gm
    PROVE  /\ Leak(g) \in Gm /\ Holds(g, Leak(g))
           /\ OneMore(g, Leak(g)) /\ g.leaked <= Leak(g).leaked /\ SameOwner(g, Leak(g))
<1> DEFINE n == IF g.leaked < LeakCap THEN g.leaked + 1 ELSE g.leaked
<1>1. n \in 0 .. LeakCap /\ (g.leaked < n \/ LeakCap <= n) /\ g.leaked <= n
  BY BoundsAssumption DEF Gm
<1> HIDE DEF n
<1>2. Leak(g) = [g EXCEPT !.leaked = n]
  BY DEF Leak, n
<1> QED
  BY <1>1, <1>2 DEF Gm, Holds, OneMore, SameOwner

\* Neither does an owner check, which is as fresh as can be.
LEMMA CheckOwnerKeeps ==
    ASSUME NEW g \in Gm, NEW e \in Handling
    PROVE  LET h == CheckOwner(g, e)
           IN  /\ h \in Gm /\ Holds(g, h) /\ h.ownerFresh
               /\ h.leaked = g.leaked /\ h.stepKilled = g.stepKilled
               /\ Knows(g, h, e)
<1>1. e.owner \in OwnerOrNone /\ (e.owner # NoOwner) \in BOOLEAN
  BY DEF Handling
<1> DEFINE up == e.owner # NoOwner
<1> DEFINE f == [g EXCEPT !.ownerOk = up, !.ownerSeen = e.owner, !.ownerFresh = TRUE]
<1>2. CheckOwner(g, e) = IF g.ownerFresh THEN g ELSE f
  BY DEF CheckOwner
<1>3. up \in BOOLEAN /\ (up <=> e.owner # NoOwner)
  OBVIOUS
<1> HIDE DEF up
<1>4. f \in Gm
  BY <1>1, <1>3, ZenonT(60) DEF Gm
<1>5. Holds(g, f) /\ f.leaked = g.leaked /\ f.stepKilled = g.stepKilled
      /\ f.ownerFresh = TRUE /\ f.ownerOk = up /\ f.ownerSeen = e.owner
  BY DEF Gm, Holds
<1> HIDE DEF f
<1>6. Knows(g, f, e)
  BY <1>3, <1>5, ZenonT(30) DEF Knows
<1>7. Holds(g, g) /\ Knows(g, g, e)
  BY DEF Holds, Knows, SameOwner
<1> QED
  BY <1>2, <1>4, <1>5, <1>6, <1>7

\* gm_set_leases(0) without its teardown changes nothing that is owned.
LEMMA LastLeaseGoneKeeps ==
    ASSUME NEW g \in Gm
    PROVE  LastLeaseGone(g) \in Gm /\ SameHold(g, LastLeaseGone(g))
<1> DEFINE off == [g EXCEPT !.leases = 0, !.retry = FALSE, !.parked = FALSE, !.streak = 0,
                            !.failing = FALSE, !.state = Shown(g, "OFF")]
<1> DEFINE late == [g EXCEPT !.leases = 0, !.grace = TRUE]
<1> DEFINE none == [g EXCEPT !.leases = 0]
<1>1. Shown(g, "OFF") \in States
  BY DEF Shown, States
<1>2. off \in Gm
  BY <1>1, Zero, ZenonT(60) DEF Gm
<1>3. late \in Gm
  BY Zero, ZenonT(60) DEF Gm
<1>4. none \in Gm
  BY Zero, ZenonT(60) DEF Gm
<1>5. SameHold(g, off) /\ SameHold(g, late) /\ SameHold(g, none)
  BY DEF Gm, SameHold, Kept, SameOwned
<1>6. LastLeaseGone(g) \in {off, late, none}
  BY DEF LastLeaseGone
<1> HIDE DEF off, late, none
<1> QED
  BY <1>2, <1>3, <1>4, <1>5, <1>6

\* Nor does gm_set, even when its broadcast drops the watcher with the last lease and the
\* count is synced in the middle of the caller's handler.
LEMMA SetKeeps ==
    ASSUME NEW g \in Gm, NEW e \in Handling, NEW st \in States
    PROVE  Set(g, e, st) \in Gm /\ SameHold(g, Set(g, e, st))
<1> DEFINE h == [g EXCEPT !.state = Shown(g, st)]
<1> DEFINE f == [h EXCEPT !.held = 0]
<1>1. Shown(g, st) \in States
  BY DEF Shown, States
<1>3. h \in Gm /\ SameHold(g, h)
  BY <1>1 DEF Gm, SameHold, Kept, SameOwned
<1>4. f \in Gm /\ SameHold(g, f)
  BY <1>1, Zero DEF Gm, SameHold, Kept, SameOwned
<1>5. LastLeaseGone(f) \in Gm /\ SameHold(f, LastLeaseGone(f))
  BY <1>4, LastLeaseGoneKeeps
<1>6. SameHold(g, LastLeaseGone(f))
  BY <1>4, <1>5 DEF SameHold, Kept, SameOwned
<1>7. Set(g, e, st) \in {h, LastLeaseGone(f)}
  BY DEF Set
<1> QED
  BY <1>3, <1>5, <1>6, <1>7

-----------------------------------------------------------------------------
(* The inductive invariant of the struct, between handlers.                 *)

RecordOk(g) ==
    /\ g.cid # NoCid => g.staleCid = NoCid /\ g.rec = [cid |-> g.cid, owner |-> g.cidOwner]
    /\ g.staleCid # NoCid => g.rec = [cid |-> g.staleCid, owner |-> g.staleOwner]
    /\ g.cid = NoCid /\ g.staleCid = NoCid => g.rec.cid = NoCid

\* True at every call between the functions of core.c, not only between handlers.
Base(g) == g \in Gm /\ RecordOk(g) /\ (g.session => g.cid # NoCid)

\* Nothing runs but perhaps gpsd, and no client id of a previous instance is left.
Cleared(g) == g.staleCid = NoCid /\ g.alive \subseteq {"gpsd"} /\ ~g.tearing

\* Nothing is owned.
Bare(g) == g.cid = NoCid /\ g.alive = {} /\ ~g.tearing

StalePhases == {"STALE_STOP", "STALE_RELEASE"}

Sound(g) ==
    /\ Base(g)
    /\ "step" \in g.alive <=> g.phase \in StepPhases
    /\ g.tearing => g.phase \in BringUpSteps
    /\ g.phase \in {"IDLE", "OWNER", "ALLOC"} \cup StalePhases =>
            g.cid = NoCid /\ g.alive \subseteq {"step"}
    /\ g.phase \in BringUpSteps => g.alive = {"step"}
    /\ g.phase \in {"NMEA", "START", "LOCSTOP", "RELEASE"} => g.cid # NoCid
    /\ g.phase = "START" => g.session
    /\ g.phase \in {"LOCSTOP", "RELEASE"} => g.alive \subseteq {"step", "gpsd"}
    /\ g.phase = "STOP_GPSD" => g.cid = NoCid /\ g.alive = {"gpsd"}
    /\ g.staleCid # NoCid => g.phase \in {"IDLE", "OWNER"} \cup StalePhases

\* Soundness looks at the owned things and the phase only.
LEMMA HoldIsSound ==
    ASSUME NEW g, NEW h \in Gm, Sound(g), SameHold(g, h)
    PROVE  Sound(h)
BY DEF Sound, Base, RecordOk, SameHold, Kept, SameOwned

\* And so does Base, at the owned things only.
LEMMA OwnedIsBase ==
    ASSUME NEW g, NEW h \in Gm, Base(g), SameOwned(g, h)
    PROVE  Base(h)
BY DEF Base, RecordOk, SameOwned

\* Neither looks at the leaks, the owner or the signals a step was sent.
LEMMA HoldsIsSound ==
    ASSUME NEW g, NEW h \in Gm, Holds(g, h)
    PROVE  (Sound(g) => Sound(h)) /\ (Base(g) => Base(h))
BY DEF Sound, Base, RecordOk, Holds

-----------------------------------------------------------------------------
(* What a handler may give up.                                              *)

\* The client ids stay, with their owners, or are given up; leaks are counted up only.
Yields(g, h) ==
    /\ h.cid \in {g.cid, NoCid} /\ h.cidOwner = g.cidOwner
    /\ h.staleCid \in {g.staleCid, NoCid} /\ h.staleOwner = g.staleOwner
    /\ g.leaked <= h.leaked

\* If one was given up, the bridge had gone or one more leak is counted.
Counts(g, h, e) ==
    \/ g.cid # NoCid /\ h.cid = NoCid
    \/ g.staleCid # NoCid /\ h.staleCid = NoCid
    => ~e.bridge \/ OneMore(g, h)

\* No session begins; one that ends has a client id whose release runs, or none.
Hushed(g, h) == h.session => g.session
Guards(g, h) == g.session /\ h.cid # NoCid => h.session \/ h.phase = "RELEASE"

\* All of it, for a function that is called inside a handler.
LetsGo(g, h, e) ==
    /\ Yields(g, h) /\ Counts(g, h, e) /\ Guards(g, h) /\ SameOwner(g, h)
    /\ h.phase # "ALLOC"

\* For a handler that leaves a step in flight, and what it works on, alone.
Runs(g, h, e) ==
    /\ Yields(g, h) /\ Counts(g, h, e) /\ Hushed(g, h) /\ Guards(g, h) /\ SameOwner(g, h)
    /\ g.phase \in StepPhases =>
            /\ h.phase = g.phase /\ h.cid = g.cid /\ h.staleCid = g.staleCid
            /\ h.session = g.session /\ h.leaked = g.leaked /\ h.stepKilled = g.stepKilled
    /\ h.phase = "ALLOC" => g.phase = "ALLOC"

\* What keeps the owned things lets none of them go.
LEMMA KeptLetsGo ==
    ASSUME NEW g \in Gm, NEW h, NEW e, SameOwned(g, h)
    PROVE  /\ Hushed(g, h) /\ (h.phase # "ALLOC" => LetsGo(g, h, e))
           /\ Yields(g, h) /\ Counts(g, h, e) /\ Guards(g, h) /\ SameOwner(g, h)
BY BoundsAssumption DEF Gm, SameOwned, LetsGo, Yields, Counts, Guards, Hushed, SameOwner

\* One thing after another, the first of which keeps them all.
LEMMA KeptGoesOn ==
    ASSUME NEW g, NEW f, NEW h, NEW e, SameOwned(g, f), LetsGo(f, h, e)
    PROVE  LetsGo(g, h, e) /\ (Hushed(f, h) => Hushed(g, h))
BY DEF SameOwned, LetsGo, Yields, Counts, Guards, Hushed, SameOwner, OneMore

\* One thing after another, the first of which may give up the client id.
LEMMA GoesOn ==
    ASSUME NEW g \in Gm, NEW f \in Gm, NEW h \in Gm, NEW e,
           Yields(g, f), Counts(g, f, e), SameOwner(g, f),
           f.cid = NoCid \/ f.session = g.session, LetsGo(f, h, e)
    PROVE  LetsGo(g, h, e)
<1>1. g.leaked <= h.leaked /\ (OneMore(g, f) \/ OneMore(f, h) => OneMore(g, h))
  BY BoundsAssumption DEF Gm, LetsGo, Yields, OneMore
<1> QED
  BY <1>1 DEF LetsGo, Yields, Counts, Guards, SameOwner

\* A handler that keeps everything leaves the step alone.
LEMMA HoldRuns ==
    ASSUME NEW g \in Gm, NEW h, NEW e, SameHold(g, h)
    PROVE  Runs(g, h, e)
BY KeptLetsGo DEF Runs, SameHold, Kept, SameOwned

\* Two handlers in one.
LEMMA RunsOn ==
    ASSUME NEW g \in Gm, NEW f \in Gm, NEW h \in Gm, NEW e, Runs(g, f, e), Runs(f, h, e)
    PROVE  Runs(g, h, e)
<1>1. g.leaked <= h.leaked /\ (OneMore(g, f) \/ OneMore(f, h) => OneMore(g, h))
  BY BoundsAssumption DEF Gm, Runs, Yields, OneMore
<1>2. Yields(g, h) /\ Counts(g, h, e) /\ Hushed(g, h) /\ SameOwner(g, h)
  BY <1>1 DEF Runs, Yields, Counts, Hushed, SameOwner
<1>3. Guards(g, h)
  BY <1>2 DEF Runs, Guards, Yields, StepPhases
<1> QED
  BY <1>2, <1>3 DEF Runs

\* Outside the step phases there is no step to leave alone.
LEMMA LetsGoRuns ==
    ASSUME NEW g, NEW h, NEW e, g.phase \notin StepPhases, LetsGo(g, h, e), Hushed(g, h)
    PROVE  Runs(g, h, e)
BY DEF Runs, LetsGo

\* And a handler outside ALLOC does not get there.
LEMMA RunsLetsGo ==
    ASSUME NEW g, NEW h, NEW e, g.phase # "ALLOC", Runs(g, h, e)
    PROVE  LetsGo(g, h, e) /\ Hushed(g, h)
BY DEF Runs, LetsGo

-----------------------------------------------------------------------------
(* Bring-up and teardown.                                                   *)

\* gm_set at the end of a handler.
LEMMA SetSound ==
    ASSUME NEW g, NEW e \in Handling, NEW st \in States, Sound(g)
    PROVE  Sound(Set(g, e, st)) /\ SameHold(g, Set(g, e, st))
<1>1. g \in Gm
  BY DEF Sound, Base
<1> QED
  BY <1>1, SetKeeps, HoldIsSound

\* gm_bringup from nothing owned: PH_OWNER with nothing owned.
LEMMA BringupSound ==
    ASSUME NEW g, NEW e \in Handling, Base(g), Bare(g)
    PROVE  Sound(Bringup(g, e)) /\ Kept(g, Bringup(g, e)) /\ Bringup(g, e).phase = "OWNER"
<1> DEFINE f == Phase(g, "OWNER")
<1> DEFINE k == [f EXCEPT !.failing = FALSE, !.failFast = FALSE, !.ownerLost = FALSE]
<1> DEFINE h == [k EXCEPT !.healthy = FALSE, !.retry = FALSE, !.startAt = TRUE]
<1>1. f \in Gm /\ Kept(g, f) /\ f.phase = "OWNER"
  BY PhaseIs DEF Base, Phases
<1>2. Bringup(g, e) = Set(h, e, "STARTING")
  BY DEF Bringup
<1> HIDE DEF f
<1>3. k \in Gm /\ SameHold(f, k)
  <2>1. k \in Gm
    BY <1>1, ZenonT(60) DEF Gm
  <2> QED
    BY <1>1, <2>1 DEF Gm, SameHold, Kept, SameOwned
<1> HIDE DEF k
<1>4. h \in Gm /\ SameHold(f, h)
  <2>1. h \in Gm
    BY <1>3, ZenonT(60) DEF Gm
  <2>2. SameHold(k, h)
    BY <1>3, <2>1 DEF Gm, SameHold, Kept, SameOwned
  <2> QED
    BY <1>3, <2>1, <2>2 DEF SameHold, Kept, SameOwned
<1> HIDE DEF h
<1>5. Sound(f)
  BY <1>1 DEF Sound, Base, Bare, RecordOk, Kept, SameOwned, StepPhases, BringUpSteps, StalePhases
<1>6. Sound(Bringup(g, e)) /\ SameHold(h, Bringup(g, e))
  BY <1>2, <1>4, <1>5, HoldIsSound, SetSound DEF States
<1> QED
  BY <1>1, <1>4, <1>6 DEF SameHold, Kept, SameOwned

\* The failed half of gm_finish waits, parks or retries: it owns what it owned.
LEMMA FinishFailedSound ==
    ASSUME NEW g, NEW e \in Handling, Sound(g)
    PROVE  Sound(FinishFailed(g, e)) /\ SameHold(g, FinishFailed(g, e))
<1> DEFINE streak == IF g.failFast THEN g.streak + 1 ELSE 0
<1> DEFINE p == [g EXCEPT !.streak = streak, !.parked = TRUE]
<1> DEFINE r == [g EXCEPT !.streak = streak, !.retry = TRUE]
<1>1. g \in Gm /\ streak \in Nat
  BY DEF Sound, Base, Gm
<1> HIDE DEF streak
<1>2. p \in Gm /\ r \in Gm
  BY <1>1, ZenonT(60) DEF Gm
<1>3. SameHold(g, p) /\ SameHold(g, r)
  BY <1>1 DEF Gm, SameHold, Kept, SameOwned
<1>4. Sound(p) /\ Sound(r)
  BY <1>2, <1>3, HoldIsSound
<1>5. FinishFailed(g, e) \in {Set(g, e, "FAILED"), Set(p, e, "FAILED"), Set(r, e, "FAILED")}
  BY DEF FinishFailed, streak
<1> HIDE DEF p, r
<1>6. /\ Sound(FinishFailed(g, e))
      /\ \E x \in {g, p, r} : SameHold(x, FinishFailed(g, e))
  BY <1>4, <1>5, SetSound DEF States
<1> QED
  BY <1>3, <1>6 DEF SameHold, Kept, SameOwned

\* gm_finish from nothing owned, whatever it goes on to.
LEMMA FinishSound ==
    ASSUME NEW g, NEW e \in Handling, Base(g), Bare(g)
    PROVE  /\ Sound(Finish(g, e)) /\ Kept(g, Finish(g, e))
           /\ Finish(g, e).phase \in {"IDLE", "OWNER"}
<1> DEFINE f == Phase(g, "IDLE")
<1> DEFINE h == [f EXCEPT !.session = FALSE, !.startAt = FALSE, !.tearing = FALSE]
<1>1. f \in Gm /\ Kept(g, f) /\ f.phase = "IDLE"
  BY PhaseIs DEF Base, Phases
<1> HIDE DEF f
<1>2. h \in Gm
  BY <1>1, ZenonT(60) DEF Gm
<1>3. SameHold(f, h)
  BY <1>1 DEF Gm, SameHold, Kept, SameOwned, Bare, Base
<1> HIDE DEF h
<1> DEFINE k == [h EXCEPT !.streak = 0, !.failing = FALSE]
<1>4. Sound(f)
  BY <1>1 DEF Sound, Base, Bare, RecordOk, Kept, SameOwned, StepPhases, BringUpSteps, StalePhases
<1>5. Sound(h) /\ Base(h) /\ Bare(h)
  BY <1>1, <1>2, <1>3, <1>4, HoldIsSound DEF Sound, Bare, SameHold, Kept, SameOwned
<1>6. k \in Gm
  BY <1>2, Zero, ZenonT(60) DEF Gm
<1>7. SameHold(h, k)
  BY <1>2 DEF Gm, SameHold, Kept, SameOwned
<1>8. Sound(k)
  BY <1>5, <1>6, <1>7, HoldIsSound
<1>9. Finish(g, e) \in {Bringup(h, e), FinishFailed(h, e), Set(h, e, "OFF"), Set(k, e, "OFF")}
  BY DEF Finish, f, h
<1> HIDE DEF k
<1>10. /\ Sound(Finish(g, e)) /\ Finish(g, e).phase \in {"IDLE", "OWNER"}
       /\ Kept(h, Finish(g, e)) \/ Kept(k, Finish(g, e))
  BY <1>1, <1>3, <1>5, <1>7, <1>8, <1>9, BringupSound, FinishFailedSound, SetSound
     DEF States, SameHold
<1> QED
  BY <1>1, <1>3, <1>7, <1>10 DEF SameHold, Kept, SameOwned

\* gm_stop_gpsd once the client id is gone.
LEMMA StopGpsdSound ==
    ASSUME NEW g, NEW e \in Handling, Base(g), Cleared(g), g.cid = NoCid
    PROVE  /\ Sound(StopGpsd(g, e)) /\ SameOwned(g, StopGpsd(g, e))
           /\ StopGpsd(g, e).phase \notin StepPhases
<1> DEFINE h == Phase(g, "STOP_GPSD")
<1>1. h \in Gm /\ Kept(g, h) /\ h.phase = "STOP_GPSD"
  BY PhaseIs DEF Base, Phases
<1> HIDE DEF h
<1>2. CASE "gpsd" \in h.alive
  <2>1. Sound(h)
    BY <1>1, <1>2 DEF Sound, Base, Cleared, RecordOk, Kept, SameOwned, StepPhases, BringUpSteps,
                      StalePhases
  <2> QED
    BY <1>1, <1>2, <2>1 DEF StopGpsd, h, Kept, StepPhases
<1>3. CASE "gpsd" \notin h.alive
  <2>1. Base(h) /\ Bare(h)
    BY <1>1, <1>3, OwnedIsBase DEF Cleared, Bare, Kept, SameOwned
  <2>2. Sound(Finish(h, e)) /\ Kept(h, Finish(h, e)) /\ Finish(h, e).phase \in {"IDLE", "OWNER"}
    BY <2>1, FinishSound
  <2>3. StopGpsd(g, e) = Finish(h, e)
    BY <1>3 DEF StopGpsd, h
  <2> QED
    BY <1>1, <2>2, <2>3 DEF Kept, SameOwned, StepPhases
<1> QED
  BY <1>2, <1>3

\* shell_save writes the id of either kind; with one kind at most it records all there is.
LEMMA SaveBase ==
    ASSUME NEW g \in Gm, g.session => g.cid # NoCid, g.cid = NoCid \/ g.staleCid = NoCid
    PROVE  LET h == Save(g)
           IN  /\ Base(h) /\ h.cid = g.cid /\ h.staleCid = g.staleCid /\ h.session = g.session
               /\ h.alive = g.alive /\ h.tearing = g.tearing /\ h.phase = g.phase
               /\ h.cidOwner = g.cidOwner /\ h.staleOwner = g.staleOwner
               /\ h.leaked = g.leaked /\ SameOwner(g, h)
<1> DEFINE r == CASE g.staleCid # NoCid -> [cid |-> g.staleCid, owner |-> g.staleOwner]
                  [] g.staleCid = NoCid /\ g.cid # NoCid -> [cid |-> g.cid, owner |-> g.cidOwner]
                  [] OTHER -> NoRecord
<1>1. r \in Records
  BY Zero DEF Gm, Records
<1>2. /\ g.cid # NoCid => r = [cid |-> g.cid, owner |-> g.cidOwner]
      /\ g.staleCid # NoCid => r = [cid |-> g.staleCid, owner |-> g.staleOwner]
      /\ g.cid = NoCid /\ g.staleCid = NoCid => r.cid = NoCid
  BY Zero
<1>3. Save(g) = [g EXCEPT !.rec = r]
  BY DEF Save
<1> HIDE DEF r
<1>4. Save(g) \in Gm
  BY <1>1, <1>3 DEF Gm
<1> QED
  BY <1>2, <1>3, <1>4 DEF Base, RecordOk, Gm, SameOwner

\* gm_drop_cid: the id, its session and its record go together.
LEMMA DropCidIs ==
    ASSUME NEW g \in Gm
    PROVE  LET h == DropCid(g)
           IN  /\ Base(h) /\ h.cid = NoCid /\ h.staleCid = g.staleCid
               /\ h.alive = g.alive /\ h.tearing = g.tearing /\ h.phase = g.phase
               /\ Yields(g, h) /\ SameOwner(g, h)
<1> DEFINE f == [g EXCEPT !.cid = NoCid, !.session = FALSE]
<1>1. f \in Gm /\ f.cid = NoCid /\ ~f.session /\ f.staleCid = g.staleCid
      /\ f.alive = g.alive /\ f.tearing = g.tearing /\ f.phase = g.phase
      /\ f.cidOwner = g.cidOwner /\ f.staleOwner = g.staleOwner
      /\ f.leaked = g.leaked /\ SameOwner(g, f)
  BY Zero DEF Gm, SameOwner
<1> HIDE DEF f
<1>2. DropCid(g) = Save(f)
  BY DEF DropCid, f
<1>3. g.leaked <= g.leaked
  BY BoundsAssumption DEF Gm
<1> QED
  BY <1>1, <1>2, <1>3, SaveBase DEF Yields, SameOwner

\* The release of the client id has ended, well or not.
LEMMA ReleaseDoneSound ==
    ASSUME NEW g \in Gm, NEW e \in Handling, NEW ok \in BOOLEAN, Cleared(g)
    PROVE  LET h == ReleaseDone(g, e, ok)
           IN  /\ Sound(h) /\ h.cid = NoCid /\ h.phase \notin StepPhases
               /\ Yields(g, h) /\ SameOwner(g, h) /\ (~ok => Counts(g, h, e)) /\ ~h.session
<1> DEFINE f == IF ok THEN g ELSE Leak(g)
<1> DEFINE d == DropCid(f)
<1> DEFINE h == StopGpsd(d, e)
<1>1. f \in Gm /\ Cleared(f) /\ Yields(g, f) /\ SameOwner(g, f) /\ (~ok => OneMore(g, f))
  BY LeakKeeps, KeptLetsGo DEF Cleared, Holds, Yields, SameOwned, SameOwner
<1>2. ReleaseDone(g, e, ok) = h
  BY DEF ReleaseDone
<1> HIDE DEF f
<1>3. /\ Base(d) /\ Cleared(d) /\ d.cid = NoCid
      /\ Yields(f, d) /\ SameOwner(f, d)
  BY <1>1, DropCidIs DEF Cleared
<1> HIDE DEF d
<1>4. Sound(h) /\ SameOwned(d, h) /\ h.phase \notin StepPhases
  BY <1>3, StopGpsdSound
<1> HIDE DEF h
<1>5. g.leaked <= h.leaked /\ (~ok => OneMore(g, h))
  <2>1. f.leaked <= h.leaked
    BY <1>3, <1>4 DEF Yields, SameOwned
  <2>2. g.leaked \in Nat /\ f.leaked \in Nat /\ h.leaked \in Nat /\ LeakCap \in Nat
    BY <1>1, <1>4, BoundsAssumption DEF Sound, Base, Gm
  <2> QED
    BY <1>1, <2>1, <2>2 DEF Yields, OneMore
<1>6. Yields(g, h) /\ SameOwner(g, h) /\ h.cid = NoCid
  BY <1>1, <1>3, <1>4, <1>5 DEF Yields, SameOwner, SameOwned
<1> QED
  BY <1>2, <1>4, <1>5, <1>6 DEF Counts, Sound, Base

\* gm_release_cid, the session gone: the step runs, or could not be forked.
LEMMA ReleaseSound ==
    ASSUME NEW g, NEW e \in Handling, Base(g), Cleared(g), g.cid # NoCid
    PROVE  LET h == Release(g, e)
           IN  /\ Sound(h) /\ LetsGo(g, h, e) /\ Hushed(g, h)
               /\ h.cid # NoCid => h.phase = "RELEASE"
<1> DEFINE h == StepStarts(g, "RELEASE")
<1>1. h \in Gm /\ SameOwned(g, h) /\ h.phase = "RELEASE" /\ h.alive = g.alive \cup {"step"}
  BY StepStartsIs DEF Base, StepPhases
<1> HIDE DEF h
<1>2. Sound(h)
  BY <1>1, OwnedIsBase DEF Sound, Cleared, SameOwned, StepPhases, BringUpSteps, StalePhases
<1> DEFINE f == StepEnds(h)
<1> DEFINE d == ReleaseDone(f, e, FALSE)
<1>3. f \in Gm /\ Cleared(f) /\ SameOwned(g, f)
  BY <1>1, StepEndsIs DEF Cleared, SameOwned
<1>4. Release(g, e) \in {h, d}
  BY DEF Release, h
<1> HIDE DEF f
<1>5. Sound(d) /\ d.cid = NoCid /\ LetsGo(f, d, e) /\ ~d.session
  BY <1>3, ReleaseDoneSound DEF LetsGo, Guards, StepPhases
<1> HIDE DEF d
<1>6. LetsGo(g, d, e) /\ Hushed(g, d)
  BY <1>3, <1>5, KeptGoesOn DEF Hushed
<1>7. LetsGo(g, h, e) /\ Hushed(g, h)
  BY <1>1, KeptLetsGo DEF Base
<1> QED
  BY <1>1, <1>2, <1>4, <1>5, <1>6, <1>7

\* loc-stop has ended: the session is over, the client id goes next.
LEMMA LocStopDoneSound ==
    ASSUME NEW g, NEW e \in Handling, Base(g), Cleared(g), g.cid # NoCid
    PROVE  LET h == LocStopDone(g, e)
           IN  /\ Sound(h) /\ LetsGo(g, h, e) /\ Hushed(g, h)
               /\ h.cid # NoCid => h.phase = "RELEASE"
<1> DEFINE f == [g EXCEPT !.session = FALSE]
<1> DEFINE h == Release(f, e)
<1>1. f \in Gm /\ Cleared(f) /\ f.cid # NoCid /\ RecordOk(f) /\ ~f.session
      /\ f.cid = g.cid /\ f.cidOwner = g.cidOwner /\ f.leaked = g.leaked
      /\ f.staleCid = g.staleCid /\ f.staleOwner = g.staleOwner /\ SameOwner(g, f)
  BY DEF Base, Gm, Cleared, RecordOk, SameOwner
<1>2. LocStopDone(g, e) = h
  BY DEF LocStopDone
<1> HIDE DEF f
<1>3. Base(f)
  BY <1>1 DEF Base
<1>4. Sound(h) /\ LetsGo(f, h, e) /\ Hushed(f, h) /\ (h.cid # NoCid => h.phase = "RELEASE")
  BY <1>1, <1>3, ReleaseSound
<1> HIDE DEF h
<1>5. LetsGo(g, h, e) /\ Hushed(g, h)
  BY <1>1, <1>4 DEF LetsGo, Yields, Counts, OneMore, Guards, Hushed, SameOwner
<1> QED
  BY <1>2, <1>4, <1>5

\* loc-stop runs, or could not be forked.
LEMMA LocStopSound ==
    ASSUME NEW g, NEW e \in Handling, Base(g), Cleared(g), g.cid # NoCid
    PROVE  LET h == LocStop(g, e)
           IN  Sound(h) /\ LetsGo(g, h, e) /\ Hushed(g, h)
<1> DEFINE h == StepStarts(g, "LOCSTOP")
<1>1. h \in Gm /\ SameOwned(g, h) /\ h.phase = "LOCSTOP" /\ h.alive = g.alive \cup {"step"}
  BY StepStartsIs DEF Base, StepPhases
<1> HIDE DEF h
<1>2. Sound(h)
  BY <1>1, OwnedIsBase DEF Sound, Cleared, SameOwned, StepPhases, BringUpSteps, StalePhases
<1>3. StepEnds(h) \in Gm /\ SameOwned(h, StepEnds(h)) /\ Cleared(StepEnds(h))
  BY <1>1, StepEndsIs DEF Cleared, SameOwned
<1>4. Base(StepEnds(h)) /\ StepEnds(h).cid # NoCid
  BY <1>1, <1>2, <1>3, OwnedIsBase DEF Sound, SameOwned
<1>5. LocStop(g, e) \in {h, LocStopDone(StepEnds(h), e)}
  BY DEF LocStop, h
<1>6. LetsGo(g, h, e) /\ Hushed(g, h)
  BY <1>1, KeptLetsGo DEF Base
<1> DEFINE f == StepEnds(h)
<1> DEFINE d == LocStopDone(f, e)
<1> HIDE DEF f
<1>7. SameOwned(g, f)
  BY <1>1, <1>3 DEF SameOwned, f
<1>8. Sound(d) /\ LetsGo(f, d, e) /\ Hushed(f, d)
  BY <1>3, <1>4, LocStopDoneSound DEF f
<1> HIDE DEF d
<1>9. LetsGo(g, d, e) /\ Hushed(g, d)
  BY <1>7, <1>8, KeptGoesOn
<1> QED
  BY <1>2, <1>5, <1>6, <1>8, <1>9 DEF d, f

\* gm_after_pipe: whichever of loc-stop, the release and gpsd is next, bridge or not.
LEMMA AfterPipeSound ==
    ASSUME NEW g, NEW e \in Handling, Base(g), Cleared(g)
    PROVE  LET h == AfterPipe(g, e)
           IN  Sound(h) /\ LetsGo(g, h, e) /\ Hushed(g, h)
<1> DEFINE h == IF g.cid # NoCid /\ ~e.bridge THEN DropCid(g) ELSE g
<1> DEFINE end == AfterPipe(g, e)
<1>1. /\ Base(h) /\ Cleared(h) /\ (h.session => g.session)
      /\ Yields(g, h) /\ SameOwner(g, h) /\ Counts(g, h, e)
      /\ h.cid = NoCid \/ h.session = g.session
  BY DropCidIs, KeptLetsGo DEF Base, Cleared, Counts, SameOwned, Yields, SameOwner
<1> HIDE DEF h
<1>2. AfterPipe(g, e) = CASE h.cid # NoCid /\ h.session -> LocStop(h, e)
                          [] h.cid # NoCid /\ ~h.session -> Release(h, e)
                          [] OTHER -> StopGpsd(h, e)
  BY DEF AfterPipe, h
<1>3. h.session \in BOOLEAN
  BY <1>1 DEF Base, Gm
<1> HIDE DEF end
<1>4. Sound(end) /\ LetsGo(h, end, e) /\ Hushed(h, end)
  <2>1. CASE h.cid # NoCid /\ h.session
    BY <1>1, <1>2, <2>1, LocStopSound DEF end
  <2>2. CASE h.cid # NoCid /\ ~h.session
    BY <1>1, <1>2, <2>2, ReleaseSound DEF end
  <2>3. CASE h.cid = NoCid
    BY <1>1, <1>2, <2>3, StopGpsdSound, KeptLetsGo DEF end, Base, StepPhases
  <2> QED
    BY <1>3, <2>1, <2>2, <2>3
<1>5. LetsGo(g, end, e)
  BY <1>1, <1>4, GoesOn DEF Base, Sound
<1> QED
  BY <1>1, <1>4, <1>5 DEF Hushed, end

\* gm_teardown, entered in any phase.
LEMMA TeardownSound ==
    ASSUME NEW g, NEW e \in Handling, Sound(g)
    PROVE  Sound(Teardown(g, e)) /\ Runs(g, Teardown(g, e), e)
<1> DEFINE h == [g EXCEPT !.grace = FALSE]
<1> DEFINE k == [h EXCEPT !.tearing = TRUE]
<1> DEFINE end == Teardown(g, e)
<1>1. h \in Gm /\ SameHold(g, h)
  BY DEF Sound, Base, Gm, SameHold, Kept, SameOwned
<1> HIDE DEF h
<1> DEFINE s == Set(h, e, "STOPPING")
<1> DEFINE pipe == Phase(s, "STOP_PIPE")
<1>2. Sound(h)
  BY <1>1, HoldIsSound
<1>3. Sound(s) /\ SameHold(h, s)
  BY <1>2, SetSound DEF States
<1>4. pipe \in Gm /\ Kept(s, pipe) /\ pipe.phase = "STOP_PIPE"
  BY <1>3, PhaseIs DEF Sound, Base, Phases
<1>5. k \in Gm /\ k.tearing = TRUE /\ k.phase = h.phase /\ k.alive = h.alive /\ k.cid = h.cid
      /\ k.cidOwner = h.cidOwner /\ k.staleCid = h.staleCid /\ k.staleOwner = h.staleOwner
      /\ k.rec = h.rec /\ k.session = h.session
      /\ k.leaked = h.leaked /\ k.stepKilled = h.stepKilled /\ SameOwner(h, k)
  BY <1>1 DEF Gm, SameOwner
<1>6. end = CASE h.phase = "OWNER" -> Finish(s, e)
              [] h.phase \in BringUpSteps -> Set(k, e, "STOPPING")
              [] h.phase = "UP" -> IF pipe.alive \cap Pipeline = {} THEN AfterPipe(pipe, e) ELSE pipe
              [] OTHER -> h
  BY DEF Teardown, h
<1> HIDE DEF k, s, pipe, end
<1> SUFFICES Sound(end) /\ Runs(h, end, e)
  <2>1. g \in Gm /\ Runs(g, h, e)
    BY <1>1, HoldRuns DEF Sound, Base
  <2> QED
    BY <1>1, <2>1, RunsOn DEF Sound, Base, end
<1>7. CASE h.phase = "OWNER"
  <2>1. Base(s) /\ Bare(s)
    BY <1>3, <1>7 DEF Sound, Bare, SameHold, StepPhases, BringUpSteps
  <2>2. end = Finish(s, e)
    BY <1>6, <1>7 DEF BringUpSteps
  <2>3. Sound(end) /\ SameOwned(h, end) /\ end.phase \in {"IDLE", "OWNER"}
    BY <1>3, <2>1, <2>2, FinishSound DEF SameHold, Kept, SameOwned
  <2> QED
    BY <1>1, <1>7, <2>3, KeptLetsGo, LetsGoRuns DEF StepPhases
<1>8. CASE h.phase \in BringUpSteps
  <2>1. Sound(k)
    BY <1>2, <1>5, <1>8 DEF Sound, Base, RecordOk
  <2>2. end = Set(k, e, "STOPPING")
    BY <1>6, <1>8 DEF BringUpSteps
  <2>3. Sound(end) /\ Runs(k, end, e)
    BY <1>5, <2>1, <2>2, SetSound, HoldRuns DEF States
  <2> QED
    BY <1>5, <2>3 DEF Runs, Yields, Counts, Hushed, Guards, SameOwner, OneMore
<1>9. CASE h.phase = "UP"
  <2>1. Base(pipe)
    BY <1>3, <1>4, OwnedIsBase DEF Sound, Kept
  <2>2. "step" \notin pipe.alive /\ pipe.staleCid = NoCid /\ ~pipe.tearing
    BY <1>3, <1>4, <1>9 DEF Sound, SameHold, Kept, SameOwned, StepPhases, BringUpSteps, StalePhases
  <2>3. Sound(pipe)
    BY <1>4, <2>1, <2>2 DEF Sound, StepPhases, BringUpSteps, StalePhases
  <2>4. pipe.alive \cap Pipeline = {} => Cleared(pipe)
    BY <1>4, <2>2 DEF Gm, Cleared, Children, Pipeline
  <2>5. end = IF pipe.alive \cap Pipeline = {} THEN AfterPipe(pipe, e) ELSE pipe
    BY <1>6, <1>9 DEF BringUpSteps
  <2>6. Sound(end) /\ LetsGo(pipe, end, e) /\ Hushed(pipe, end)
    <3>1. LetsGo(pipe, pipe, e) /\ Hushed(pipe, pipe)
      BY <1>4, KeptLetsGo DEF SameOwned
    <3> QED
      BY <2>1, <2>3, <2>4, <2>5, <3>1, AfterPipeSound
  <2>7. SameOwned(h, pipe)
    BY <1>3, <1>4 DEF SameHold, Kept, SameOwned
  <2> QED
    BY <1>9, <2>6, <2>7, KeptGoesOn, LetsGoRuns DEF StepPhases
<1>10. CASE h.phase \notin {"OWNER", "UP"} \cup BringUpSteps
  <2>1. end = h
    BY <1>6, <1>10
  <2> QED
    BY <1>1, <1>2, <2>1, HoldRuns DEF SameHold, Kept, SameOwned
<1> QED
  BY <1>7, <1>8, <1>9, <1>10

\* gm_fail is a teardown, unless one is failing already.
LEMMA FailSound ==
    ASSUME NEW g, NEW e \in Handling, NEW lost \in BOOLEAN, Sound(g)
    PROVE  Sound(Fail(g, e, lost)) /\ Runs(g, Fail(g, e, lost), e)
<1> DEFINE fast == ~g.healthy
<1> DEFINE h == [g EXCEPT !.failing = TRUE, !.ownerLost = lost, !.failFast = fast]
<1>1. g \in Gm /\ fast \in BOOLEAN
  BY DEF Sound, Base
<1> HIDE DEF fast
<1>2. h \in Gm
  BY <1>1, ZenonT(60) DEF Gm
<1>3. SameHold(g, h)
  BY <1>1 DEF Gm, SameHold, Kept, SameOwned
<1>4. Sound(h)
  BY <1>2, <1>3, HoldIsSound
<1>5. Fail(g, e, lost) = IF g.failing THEN g ELSE Teardown(h, e)
  BY DEF Fail, fast
<1> HIDE DEF h
<1>6. Runs(g, g, e) /\ Runs(g, h, e)
  BY <1>1, <1>3, HoldRuns DEF SameHold, Kept, SameOwned
<1>7. Sound(Teardown(h, e)) /\ Runs(g, Teardown(h, e), e)
  BY <1>1, <1>2, <1>4, <1>6, TeardownSound, RunsOn DEF Sound, Base
<1> QED
  BY <1>5, <1>6, <1>7

-----------------------------------------------------------------------------
(* Steps and their results.                                                 *)

\* A bring-up step that failed: PH_UP with no child, and one full teardown.
LEMMA SetupFailedSound ==
    ASSUME NEW g, NEW e \in Handling, Base(g), Cleared(g), g.alive = {}
    PROVE  LET h == SetupFailed(g, e)
           IN  Sound(h) /\ LetsGo(g, h, e) /\ Hushed(g, h)
<1> DEFINE h == Phase(g, "UP")
<1>1. h \in Gm /\ Kept(g, h) /\ h.phase = "UP"
  BY PhaseIs DEF Base, Phases
<1> HIDE DEF h
<1>2. Sound(h)
  BY <1>1 DEF Sound, Base, Cleared, RecordOk, Kept, SameOwned, StepPhases, BringUpSteps, StalePhases
<1> DEFINE d == Fail(h, e, FALSE)
<1>3. Sound(d) /\ LetsGo(h, d, e) /\ Hushed(h, d)
  BY <1>1, <1>2, FailSound, RunsLetsGo
<1>4. SetupFailed(g, e) = d
  BY DEF SetupFailed, h
<1> HIDE DEF d
<1> QED
  BY <1>1, <1>3, <1>4, KeptGoesOn DEF Kept

\* gm_setup: the next bring-up step runs, or could not be forked.
LEMMA SetupSound ==
    ASSUME NEW g, NEW e \in Handling, NEW ph \in BringUpSteps, Base(g), Cleared(g), g.alive = {},
           g.cid = NoCid <=> ph = "ALLOC", ph = "START" => g.session
    PROVE  LET h == Setup(g, e, ph)
           IN  /\ Sound(h) /\ Yields(g, h) /\ Counts(g, h, e) /\ Hushed(g, h) /\ Guards(g, h)
               /\ SameOwner(g, h)
               /\ h.phase = "ALLOC" => ph = "ALLOC" /\ ~h.stepKilled
<1> DEFINE h == StepStarts(g, ph)
<1>1. /\ h \in Gm /\ SameOwned(g, h) /\ h.phase = ph /\ h.alive = {"step"}
      /\ ~h.stepKilled
  BY StepStartsIs DEF Base, StepPhases, BringUpSteps
<1> HIDE DEF h
<1>2. Sound(h)
  BY <1>1, OwnedIsBase DEF Sound, Cleared, SameOwned, StepPhases, BringUpSteps, StalePhases
<1>3. StepEnds(h) \in Gm /\ SameOwned(h, StepEnds(h)) /\ StepEnds(h).alive = {}
  BY <1>1, StepEndsIs
<1>4. Base(StepEnds(h)) /\ Cleared(StepEnds(h))
  BY <1>1, <1>2, <1>3, OwnedIsBase DEF Sound, Cleared, SameOwned
<1> DEFINE f == StepEnds(h)
<1> DEFINE d == SetupFailed(f, e)
<1>5. Setup(g, e, ph) \in {h, d}
  BY DEF Setup, h
<1>6. SameOwned(g, f)
  BY <1>1, <1>3 DEF SameOwned
<1>7. Sound(d) /\ LetsGo(f, d, e) /\ Hushed(f, d)
  BY <1>3, <1>4, SetupFailedSound
<1> HIDE DEF f, d
<1>8. LetsGo(g, d, e) /\ Hushed(g, d)
  BY <1>6, <1>7, KeptGoesOn
<1>9. Yields(g, h) /\ Counts(g, h, e) /\ Hushed(g, h) /\ Guards(g, h) /\ SameOwner(g, h)
  BY <1>1, KeptLetsGo DEF Base
<1> QED
  BY <1>1, <1>2, <1>5, <1>7, <1>8, <1>9 DEF LetsGo

\* The pipeline, all of it or as far as its forks worked.
LEMMA SpawnPipelineSound ==
    ASSUME NEW g, NEW e \in Handling, Base(g), Cleared(g), g.alive = {}
    PROVE  LET h == SpawnPipeline(g, e)
           IN  Sound(h) /\ LetsGo(g, h, e) /\ Hushed(g, h)
<1> DEFINE up == Phase(g, "UP")
<1> DEFINE with(kids) == [up EXCEPT !.alive = @ \cup kids]
<1> DEFINE Piped(f) == Sound(f) /\ SameOwned(g, f) /\ f.phase = "UP"
<1>1. up \in Gm /\ Kept(g, up) /\ up.phase = "UP"
  BY PhaseIs DEF Base, Phases
<1>2. SpawnPipeline(g, e) \in {Fail(up, e, FALSE), Fail(with({"gpsd"}), e, FALSE),
                               Fail(with({"gpsd", "broker"}), e, FALSE),
                               Set(with({"gpsd", "broker", "follow"}), e, "ACQUIRING")}
  BY DEF SpawnPipeline
<1> HIDE DEF up, Piped
<1>3. ASSUME NEW kids \in SUBSET {"gpsd", "broker", "follow"}
      PROVE  Piped(with(kids))
  <2>1. up.alive \cup kids \in SUBSET Children
    BY <1>1 DEF Gm, Children, Pipeline
  <2>2. with(kids) \in Gm /\ SameOwned(up, with(kids)) /\ with(kids).phase = "UP"
        /\ with(kids).alive = kids
    BY <1>1, <2>1 DEF Gm, SameOwned, Kept
  <2> HIDE DEF with
  <2>3. Base(up) /\ Base(with(kids))
    BY <1>1, <2>2, OwnedIsBase DEF Kept
  <2>4. with(kids).staleCid = NoCid /\ ~with(kids).tearing
    BY <1>1, <2>2 DEF Cleared, Kept, SameOwned
  <2>5. Sound(with(kids))
    BY <2>2, <2>3, <2>4 DEF Sound, StepPhases, BringUpSteps, StalePhases
  <2>6. SameOwned(g, with(kids))
    BY <1>1, <2>2 DEF Kept, SameOwned
  <2> QED
    BY <2>2, <2>5, <2>6 DEF Piped
<1>4. Piped(up)
  BY <1>1 DEF Sound, Base, Cleared, RecordOk, Kept, SameOwned, StepPhases, BringUpSteps, StalePhases,
              Piped
<1>5. /\ Piped(with({"gpsd"})) /\ Piped(with({"gpsd", "broker"}))
      /\ Piped(with({"gpsd", "broker", "follow"}))
  <2>1. /\ {"gpsd"} \in SUBSET {"gpsd", "broker", "follow"}
        /\ {"gpsd", "broker"} \in SUBSET {"gpsd", "broker", "follow"}
        /\ {"gpsd", "broker", "follow"} \in SUBSET {"gpsd", "broker", "follow"}
    OBVIOUS
  <2> HIDE DEF with
  <2> QED
    BY <1>3, <2>1
<1> HIDE DEF with
<1> DEFINE end == SpawnPipeline(g, e)
<1>6. PICK f \in {up, with({"gpsd"}), with({"gpsd", "broker"}), with({"gpsd", "broker", "follow"})} :
            end = Fail(f, e, FALSE) \/ end = Set(f, e, "ACQUIRING")
  BY <1>2
<1> HIDE DEF end
<1>7. Piped(f) /\ f \in Gm
  BY <1>4, <1>5 DEF Piped, Sound, Base
<1>8. Sound(end) /\ Runs(f, end, e)
  BY <1>6, <1>7, FailSound, SetSound, HoldRuns DEF States, Piped
<1>9. LetsGo(f, end, e) /\ Hushed(f, end)
  BY <1>7, <1>8, RunsLetsGo DEF Piped
<1>10. LetsGo(g, end, e) /\ Hushed(g, end)
  BY <1>7, <1>9, KeptGoesOn DEF Piped
<1> QED
  BY <1>8, <1>10 DEF end

\* A bring-up step has ended and its client id, if it was the allocation, is in.
LEMMA SetupDoneSound ==
    ASSUME NEW g, NEW e \in Handling, NEW ok \in BOOLEAN,
           Base(g), g.phase \in BringUpSteps, g.alive = {}, g.staleCid = NoCid,
           ok \/ g.phase # "ALLOC" => g.cid # NoCid, g.phase = "START" => g.session
    PROVE  LET h == SetupDone(g, e, ok)
           IN  Sound(h) /\ LetsGo(g, h, e) /\ (g.phase # "NMEA" => Hushed(g, h))
<1> DEFINE end == SetupDone(g, e, ok)
<1>1. g \in Gm /\ g.tearing \in BOOLEAN
  BY DEF Base, Gm
<1>2. CASE g.tearing
  <2> DEFINE f == [g EXCEPT !.tearing = FALSE]
  <2> DEFINE h == Phase(f, "UP")
  <2>1. f \in Gm /\ f.tearing = FALSE /\ f.session = g.session /\ f.cid = g.cid
        /\ f.cidOwner = g.cidOwner /\ f.staleCid = g.staleCid /\ f.staleOwner = g.staleOwner
        /\ f.rec = g.rec /\ f.alive = g.alive /\ f.leaked = g.leaked /\ SameOwner(g, f)
    BY <1>1 DEF Gm, SameOwner
  <2> HIDE DEF f
  <2>2. h \in Gm /\ Kept(f, h)
    BY <2>1, PhaseIs DEF Phases
  <2> HIDE DEF h
  <2>3. Base(h) /\ Cleared(h)
    BY <2>1, <2>2 DEF Base, RecordOk, Cleared, Kept, SameOwned
  <2>4. end = AfterPipe(h, e)
    BY <1>2 DEF SetupDone, h, f
  <2> HIDE DEF end
  <2>5. Sound(end) /\ LetsGo(h, end, e) /\ Hushed(h, end)
    BY <2>3, <2>4, AfterPipeSound
  <2>6. LetsGo(g, end, e) /\ Hushed(g, end)
    BY <2>1, <2>2, <2>5 DEF LetsGo, Yields, Counts, Guards, Hushed, SameOwner, OneMore, Kept, SameOwned
  <2> QED
    BY <2>5, <2>6 DEF end
<1>3. CASE ~g.tearing
  <2> DEFINE s == Set(g, e, "STARTING")
  <2> DEFINE k == [s EXCEPT !.session = TRUE]
  <2>1. s \in Gm /\ SameHold(g, s)
    BY <1>1, SetKeeps DEF States
  <2> HIDE DEF s
  <2>2. Base(s) /\ Cleared(s) /\ s.alive = {} /\ Cleared(g)
    BY <1>3, <2>1, OwnedIsBase DEF Cleared, SameHold, Kept, SameOwned
  <2>3. k \in Gm /\ k.tearing = s.tearing /\ k.cid = s.cid /\ k.alive = s.alive
        /\ k.cidOwner = s.cidOwner /\ k.staleCid = s.staleCid /\ k.staleOwner = s.staleOwner
        /\ k.rec = s.rec /\ k.session = TRUE /\ k.leaked = s.leaked /\ SameOwner(s, k)
    BY <2>1 DEF Gm, SameOwner
  <2> HIDE DEF k
  <2>4. CASE ~ok
    BY <1>3, <2>2, <2>4, SetupFailedSound DEF SetupDone
  <2>5. CASE ok /\ g.phase = "ALLOC"
    <3>1. s.cid # NoCid /\ SameOwned(g, s)
      BY <2>1, <2>5 DEF SameHold, Kept, SameOwned
    <3>2. end = Setup(s, e, "NMEA")
      BY <1>3, <2>5 DEF SetupDone, s
    <3> HIDE DEF end
    <3>3. Sound(end) /\ LetsGo(s, end, e) /\ Hushed(s, end)
      BY <2>2, <3>1, <3>2, SetupSound DEF BringUpSteps, LetsGo
    <3>4. LetsGo(g, end, e) /\ Hushed(g, end)
      BY <3>1, <3>3, KeptGoesOn
    <3> QED
      BY <3>3, <3>4 DEF end
  <2>6. CASE ok /\ g.phase = "NMEA"
    <3>1. Base(k) /\ Cleared(k) /\ k.alive = {} /\ k.cid # NoCid
      BY <2>1, <2>2, <2>3, <2>6 DEF Base, RecordOk, Cleared, SameHold, Kept, SameOwned
    <3>2. end = Setup(k, e, "START")
      BY <1>3, <2>6 DEF SetupDone, LocStart, k, s
    <3> HIDE DEF end
    <3>3. Sound(end) /\ LetsGo(k, end, e)
      BY <2>3, <3>1, <3>2, SetupSound DEF BringUpSteps, LetsGo
    <3>4. LetsGo(g, end, e)
      BY <2>1, <2>3, <3>3 DEF LetsGo, Yields, Counts, Guards, SameOwner, OneMore, SameHold, Kept,
                              SameOwned
    <3> QED
      BY <2>6, <3>3, <3>4 DEF end
  <2>7. CASE ok /\ g.phase \notin {"ALLOC", "NMEA"}
    BY <1>3, <2>2, <2>7, SpawnPipelineSound DEF SetupDone
  <2> QED
    BY <2>4, <2>5, <2>6, <2>7
<1> QED
  BY <1>1, <1>2, <1>3

\* gm_stale_done: the record is settled, and what was wanted meanwhile goes on.
LEMMA StaleDoneSound ==
    ASSUME NEW g, NEW e \in Handling, Base(g), Bare(g)
    PROVE  LET h == StaleDone(g, e)
           IN  /\ Sound(h) /\ Yields(g, h) /\ Hushed(g, h) /\ SameOwner(g, h)
               /\ h.leaked = g.leaked /\ h.cid = NoCid
               /\ h.phase \in {"IDLE", "OWNER"}
<1> DEFINE end == StaleDone(g, e)
<1> DEFINE f == [g EXCEPT !.staleCid = NoCid]
<1> DEFINE h == Save(f)
<1> DEFINE own == Phase(h, "OWNER")
<1> DEFINE idle == Phase(h, "IDLE")
<1>1. f \in Gm /\ f.cid = g.cid /\ f.alive = g.alive /\ f.tearing = g.tearing
      /\ f.session = g.session /\ f.staleCid = NoCid
      /\ f.cidOwner = g.cidOwner /\ f.staleOwner = g.staleOwner
      /\ f.leaked = g.leaked /\ SameOwner(g, f)
  BY Zero DEF Base, Gm, SameOwner
<1>2. end \in {Set(own, e, "STARTING"), Bringup(h, e), Set(idle, e, "OFF")}
  BY DEF StaleDone
<1> HIDE DEF f
<1>3. /\ Base(h) /\ Bare(h) /\ h.session = g.session
      /\ Yields(g, h) /\ SameOwner(g, h) /\ h.leaked = g.leaked
  <2>1. g.leaked <= g.leaked
    BY BoundsAssumption DEF Base, Gm
  <2> QED
    BY <1>1, <2>1, SaveBase DEF Base, Bare, Yields, SameOwner
<1> HIDE DEF h, end
<1>4. /\ own \in Gm /\ Kept(h, own) /\ own.phase = "OWNER"
      /\ idle \in Gm /\ Kept(h, idle) /\ idle.phase = "IDLE"
  BY <1>3, PhaseIs DEF Base, Phases
<1> HIDE DEF own, idle
<1>5. Sound(own)
  BY <1>3, <1>4, OwnedIsBase DEF Sound, Bare, Kept, SameOwned, StepPhases, BringUpSteps, StalePhases
<1>6. Sound(idle)
  BY <1>3, <1>4, OwnedIsBase DEF Sound, Bare, Kept, SameOwned, StepPhases, BringUpSteps, StalePhases
<1>7. Sound(end) /\ SameOwned(h, end) /\ end.phase \in {"IDLE", "OWNER"}
  <2>1. CASE end = Bringup(h, e)
    BY <1>3, <2>1, BringupSound DEF Kept
  <2>2. CASE end \in {Set(own, e, "STARTING"), Set(idle, e, "OFF")}
    BY <1>4, <1>5, <1>6, <2>2, SetSound DEF States, SameHold, Kept, SameOwned
  <2> QED
    BY <1>2, <2>1, <2>2
<1> QED
  BY <1>3, <1>7 DEF Bare, Yields, SameOwner, SameOwned, Hushed, end

\* A step of the stale cleanup starts from nothing owned, and owns nothing but itself.
LEMMA StaleStepSound ==
    ASSUME NEW g, NEW ph \in StalePhases, Base(g), Bare(g)
    PROVE  LET h == StepStarts(g, ph)
           IN  /\ Sound(h) /\ SameOwned(g, h) /\ h.phase = ph
               /\ Base(StepEnds(h)) /\ Bare(StepEnds(h)) /\ SameOwned(g, StepEnds(h))
<1> DEFINE h == StepStarts(g, ph)
<1>1. h \in Gm /\ SameOwned(g, h) /\ h.phase = ph /\ h.alive = {"step"}
  BY StepStartsIs DEF Base, Bare, StalePhases, StepPhases
<1> HIDE DEF h
<1>2. Sound(h)
  BY <1>1, OwnedIsBase DEF Sound, Bare, SameOwned, StepPhases, BringUpSteps, StalePhases
<1>3. StepEnds(h) \in Gm /\ SameOwned(h, StepEnds(h)) /\ StepEnds(h).alive = {}
  BY <1>1, StepEndsIs
<1>4. Base(StepEnds(h)) /\ Bare(StepEnds(h))
  BY <1>1, <1>2, <1>3, OwnedIsBase DEF Sound, Bare, SameOwned
<1> QED
  BY <1>1, <1>2, <1>3, <1>4 DEF h, SameOwned

\* gm_stale_release, run or not.
LEMMA StaleReleaseSound ==
    ASSUME NEW g, NEW e \in Handling, Base(g), Bare(g)
    PROVE  LET h == StaleRelease(g, e)
           IN  Sound(h) /\ LetsGo(g, h, e) /\ Hushed(g, h) /\ h.cid = NoCid
<1> DEFINE end == StaleRelease(g, e)
<1> DEFINE h == StepStarts(g, "STALE_RELEASE")
<1> DEFINE f == StepEnds(h)
<1> DEFINE l == Leak(f)
<1> DEFINE d == StaleDone(l, e)
<1>1. /\ Sound(h) /\ SameOwned(g, h) /\ h.phase = "STALE_RELEASE"
      /\ Base(f) /\ Bare(f) /\ SameOwned(g, f)
  BY StaleStepSound DEF StalePhases
<1>2. end \in {h, d}
  BY DEF StaleRelease
<1> HIDE DEF h, f, end
<1>3. l \in Gm /\ Holds(f, l) /\ OneMore(f, l) /\ f.leaked <= l.leaked /\ SameOwner(f, l)
  BY <1>1, LeakKeeps DEF Base
<1> HIDE DEF l
<1>4. Base(l) /\ Bare(l)
  BY <1>1, <1>3, HoldsIsSound DEF Holds, Bare
<1>5. /\ Sound(d) /\ Yields(l, d) /\ Hushed(l, d) /\ SameOwner(l, d)
      /\ d.leaked = l.leaked /\ d.phase \in {"IDLE", "OWNER"} /\ d.cid = NoCid
  BY <1>4, StaleDoneSound
<1> HIDE DEF d
<1>6. LetsGo(g, d, e) /\ Hushed(g, d)
  BY <1>1, <1>3, <1>5 DEF LetsGo, Yields, Counts, Guards, Hushed, SameOwner, OneMore, Holds, SameOwned
<1>7. LetsGo(g, h, e) /\ Hushed(g, h) /\ h.cid = NoCid
  BY <1>1, KeptLetsGo DEF Base, Bare, SameOwned
<1> QED
  BY <1>1, <1>2, <1>5, <1>6, <1>7 DEF end

\* gm_stale_stop, run or not.
LEMMA StaleStopSound ==
    ASSUME NEW g, NEW e \in Handling, Base(g), Bare(g)
    PROVE  LET h == StaleStop(g, e)
           IN  Sound(h) /\ LetsGo(g, h, e) /\ Hushed(g, h) /\ h.cid = NoCid
<1> DEFINE end == StaleStop(g, e)
<1> DEFINE h == StepStarts(g, "STALE_STOP")
<1> DEFINE f == StepEnds(h)
<1> DEFINE d == StaleRelease(f, e)
<1>1. /\ Sound(h) /\ SameOwned(g, h) /\ h.phase = "STALE_STOP"
      /\ Base(f) /\ Bare(f) /\ SameOwned(g, f)
  BY StaleStepSound DEF StalePhases
<1>2. end \in {h, d}
  BY DEF StaleStop
<1> HIDE DEF h, f, end
<1>3. Sound(d) /\ LetsGo(f, d, e) /\ Hushed(f, d) /\ d.cid = NoCid
  BY <1>1, StaleReleaseSound
<1> HIDE DEF d
<1>4. LetsGo(g, d, e) /\ Hushed(g, d)
  BY <1>1, <1>3, KeptGoesOn
<1>5. LetsGo(g, h, e) /\ Hushed(g, h) /\ h.cid = NoCid
  BY <1>1, KeptLetsGo DEF Base, Bare, SameOwned
<1> QED
  BY <1>1, <1>2, <1>3, <1>4, <1>5 DEF end

\* gm_stale_check, from rest or from PH_OWNER: an id of the owner there is now is not
\* given up uncounted.
LEMMA StaleCheckSound ==
    ASSUME NEW g, NEW e \in Handling, Base(g), Bare(g)
    PROVE  LET h == StaleCheck(g, e)
           IN  /\ Sound(h) /\ Yields(g, h) /\ Hushed(g, h) /\ SameOwner(g, h)
               /\ h.cid = NoCid /\ h.phase # "ALLOC"
               /\ g.ownerSeen = g.staleOwner => Counts(g, h, e)
<1> DEFINE end == StaleCheck(g, e)
<1> DEFINE from == (g.phase = "OWNER")
<1> DEFINE f == [g EXCEPT !.staleFromOwner = from]
<1> DEFINE st == IF g.state = "OFF" THEN "OFF" ELSE "STARTING"
<1> DEFINE s == Set(f, e, st)
<1>1. from \in BOOLEAN /\ st \in States
  BY DEF States
<1>2. \/ end = StaleDone(g, e) /\ (g.ownerSeen # g.staleOwner \/ ~e.bridge)
      \/ end = StaleStop(s, e)
  BY DEF StaleCheck
<1> HIDE DEF from, st, end
<1>3. f \in Gm /\ SameHold(g, f)
  BY <1>1 DEF Base, Gm, SameHold, Kept, SameOwned
<1> HIDE DEF f
<1>4. s \in Gm /\ SameHold(f, s)
  BY <1>1, <1>3, SetKeeps
<1> HIDE DEF s
<1>5. SameOwned(g, s) /\ Base(s) /\ Bare(s)
  BY <1>3, <1>4, OwnedIsBase DEF Bare, SameHold, Kept, SameOwned
<1>6. CASE end = StaleStop(s, e)
  <2>1. Sound(end) /\ LetsGo(s, end, e) /\ Hushed(s, end) /\ end.cid = NoCid
    BY <1>5, <1>6, StaleStopSound
  <2>2. LetsGo(g, end, e) /\ Hushed(g, end)
    BY <1>5, <2>1, KeptGoesOn
  <2> QED
    BY <2>1, <2>2 DEF LetsGo, end
<1>7. CASE end = StaleDone(g, e) /\ (g.ownerSeen # g.staleOwner \/ ~e.bridge)
  <2>1. /\ Sound(end) /\ Yields(g, end) /\ Hushed(g, end) /\ SameOwner(g, end)
        /\ end.cid = NoCid /\ end.phase \in {"IDLE", "OWNER"}
    BY <1>7, StaleDoneSound
  <2> QED
    BY <1>7, <2>1 DEF Counts, end
<1> QED
  BY <1>2, <1>6, <1>7

\* The struct whose ids gm_step_done may give up: with the new one, if it read one.
Named(g, ok, cid) ==
    IF g.phase = "ALLOC" /\ ok /\ cid # NoCid
    THEN [g EXCEPT !.cid = cid, !.cidOwner = g.ownerSeen]
    ELSE g

\* gm_step_done: whatever the step was and however it ended.  A release that went well is
\* the one way to give up a client id that the bridge still has without a count.
LEMMA StepDoneSound ==
    ASSUME NEW g, NEW e \in Handling, NEW ok \in BOOLEAN, NEW cid \in CidOrNone,
           Sound(g), "step" \in g.alive
    PROVE  LET h == StepDone(g, e, ok, cid)
               n == Named(g, ok, cid)
           IN  /\ Sound(h) /\ Yields(n, h) /\ Guards(n, h) /\ SameOwner(g, h)
               /\ h.phase # "ALLOC" /\ (g.phase # "NMEA" => Hushed(g, h))
               /\ Counts(n, h, e) \/ (ok /\ g.phase \in {"RELEASE", "STALE_RELEASE"})
               /\ g.phase \in {"RELEASE", "STALE_RELEASE"} =>
                        h.phase \notin StepPhases /\ h.cid = NoCid
<1> DEFINE end == StepDone(g, e, ok, cid)
<1> DEFINE h == StepEnds(g)
<1> DEFINE f == [h EXCEPT !.cid = cid, !.cidOwner = h.ownerSeen]
<1>1. h \in Gm /\ SameOwned(g, h) /\ h.phase = g.phase /\ h.alive = g.alive \ {"step"}
  BY StepEndsIs DEF Sound, Base
<1>2. Base(h) /\ h.phase \in StepPhases
  BY <1>1, OwnedIsBase DEF Sound
<1>3. end =
        CASE h.phase = "STALE_STOP" -> StaleRelease(h, e)
          [] h.phase = "STALE_RELEASE" -> StaleDone(IF ok THEN h ELSE Leak(h), e)
          [] h.phase = "LOCSTOP" -> LocStopDone(h, e)
          [] h.phase = "RELEASE" -> ReleaseDone(h, e, ok)
          [] h.phase = "ALLOC" -> IF ok /\ cid # NoCid THEN SetupDone(Save(f), e, TRUE)
                                                       ELSE SetupDone(h, e, FALSE)
          [] h.phase \in {"NMEA", "START"} -> SetupDone(h, e, ok)
          [] OTHER -> h
  BY DEF StepDone
<1> HIDE DEF h, end
<1>4. CASE h.phase = "STALE_STOP"
  <2>1. Bare(h)
    BY <1>1, <1>4 DEF Sound, Bare, SameOwned, StalePhases, BringUpSteps
  <2>2. Sound(end) /\ LetsGo(h, end, e) /\ Hushed(h, end)
    BY <1>2, <1>3, <1>4, <2>1, StaleReleaseSound
  <2>3. LetsGo(g, end, e) /\ Hushed(g, end)
    BY <1>1, <2>2, KeptGoesOn
  <2> QED
    BY <1>1, <1>4, <2>2, <2>3 DEF LetsGo, Named, end
<1>5. CASE h.phase = "STALE_RELEASE"
  <2> DEFINE l == IF ok THEN h ELSE Leak(h)
  <2>1. Bare(h)
    BY <1>1, <1>5 DEF Sound, Bare, SameOwned, StalePhases, BringUpSteps
  <2>2. end = StaleDone(l, e)
    BY <1>3, <1>5
  <2>3. /\ l \in Gm /\ Holds(h, l) /\ h.leaked <= l.leaked /\ SameOwner(h, l)
        /\ ~ok => OneMore(h, l)
    BY <1>1, LeakKeeps, BoundsAssumption DEF Gm, Holds, SameOwner
  <2> HIDE DEF l
  <2>4. Base(l) /\ Bare(l)
    BY <1>2, <2>1, <2>3, HoldsIsSound DEF Holds, Bare
  <2>5. /\ Sound(end) /\ Yields(l, end) /\ Hushed(l, end) /\ SameOwner(l, end)
        /\ end.leaked = l.leaked /\ end.cid = NoCid /\ end.phase \in {"IDLE", "OWNER"}
    BY <2>2, <2>4, StaleDoneSound
  <2>6. Yields(g, end) /\ Hushed(g, end) /\ SameOwner(g, end) /\ (~ok => Counts(g, end, e))
    BY <1>1, <2>3, <2>5 DEF Yields, Counts, Hushed, SameOwner, OneMore, Holds, SameOwned
  <2> QED
    BY <1>1, <1>5, <2>5, <2>6 DEF Named, Guards, StepPhases, end
<1>6. CASE h.phase \in {"LOCSTOP", "RELEASE"}
  <2>1. Cleared(h) /\ h.cid # NoCid
    BY <1>1, <1>6 DEF Sound, Cleared, SameOwned, StalePhases, BringUpSteps
  <2>2. CASE h.phase = "LOCSTOP"
    <3>1. Sound(end) /\ LetsGo(h, end, e) /\ Hushed(h, end)
      BY <1>2, <1>3, <2>1, <2>2, LocStopDoneSound
    <3>2. LetsGo(g, end, e) /\ Hushed(g, end)
      BY <1>1, <3>1, KeptGoesOn
    <3> QED
      BY <1>1, <2>2, <3>1, <3>2 DEF LetsGo, Named, end
  <2>3. CASE h.phase = "RELEASE"
    <3>1. /\ Sound(end) /\ end.cid = NoCid /\ end.phase \notin StepPhases
          /\ Yields(h, end) /\ SameOwner(h, end) /\ (~ok => Counts(h, end, e)) /\ ~end.session
      BY <1>1, <1>3, <2>1, <2>3, ReleaseDoneSound
    <3>2. Yields(g, end) /\ SameOwner(g, end) /\ (~ok => Counts(g, end, e))
      BY <1>1, <3>1 DEF Yields, Counts, SameOwner, OneMore, SameOwned
    <3> QED
      BY <1>1, <2>3, <3>1, <3>2 DEF Named, Guards, Hushed, StepPhases, end
  <2> QED
    BY <1>6, <2>2, <2>3
<1>7. CASE h.phase = "ALLOC"
  <2>1. h.cid = NoCid /\ h.staleCid = NoCid /\ h.alive = {} /\ ~h.session
    BY <1>1, <1>2, <1>7 DEF Sound, Base, SameOwned, StalePhases, BringUpSteps
  <2>2. CASE ~(ok /\ cid # NoCid)
    <3>1. FALSE \/ h.phase # "ALLOC" => h.cid # NoCid
      BY <1>7
    <3>2. end = SetupDone(h, e, FALSE)
      BY <1>3, <1>7, <2>2
    <3>3. Sound(end) /\ LetsGo(h, end, e) /\ Hushed(h, end)
      BY <1>2, <1>7, <2>1, <3>1, <3>2, SetupDoneSound DEF BringUpSteps
    <3>4. LetsGo(g, end, e) /\ Hushed(g, end)
      BY <1>1, <3>3, KeptGoesOn
    <3> QED
      BY <1>1, <1>7, <2>2, <3>3, <3>4 DEF LetsGo, Named, end
  <2>3. CASE ok /\ cid # NoCid
    <3> DEFINE s == Save(f)
    <3> DEFINE n == [g EXCEPT !.cid = cid, !.cidOwner = g.ownerSeen]
    <3>1. h.ownerSeen \in OwnerOrNone
      BY <1>1 DEF Gm
    <3>2. f \in Gm /\ f.cid = cid /\ f.phase = "ALLOC" /\ f.alive = {} /\ f.staleCid = NoCid
          /\ f.session = h.session /\ f.cidOwner = h.ownerSeen /\ f.staleOwner = h.staleOwner
          /\ f.leaked = h.leaked /\ SameOwner(h, f)
      BY <1>1, <1>7, <2>1, <3>1 DEF Gm, SameOwner
    <3>3. end = SetupDone(s, e, TRUE)
      BY <1>3, <1>7, <2>3
    <3> HIDE DEF f
    <3>4. /\ Base(s) /\ s.phase = "ALLOC" /\ s.alive = {} /\ ~s.session
          /\ s.staleCid = NoCid /\ s.cid = cid /\ s.cidOwner = h.ownerSeen
          /\ s.staleOwner = h.staleOwner /\ s.leaked = h.leaked /\ SameOwner(h, s)
      BY <2>1, <2>3, <3>2, SaveBase DEF SameOwner
    <3> HIDE DEF s
    <3>5. Sound(end) /\ LetsGo(s, end, e) /\ Hushed(s, end)
      BY <2>3, <3>3, <3>4, SetupDoneSound DEF BringUpSteps
    <3>6. /\ n.cid = s.cid /\ n.cidOwner = s.cidOwner /\ n.staleCid = s.staleCid
          /\ n.staleOwner = s.staleOwner /\ n.leaked = s.leaked /\ n.session = s.session
      <4>1. g \in Gm
        BY DEF Sound, Base
      <4> QED
        BY <1>1, <2>1, <3>4, <4>1 DEF SameOwned, Base, Gm
    <3>7. n = Named(g, ok, cid)
      BY <1>1, <1>7, <2>3 DEF Named
    <3> HIDE DEF n
    <3>8. Yields(n, end) /\ Guards(n, end) /\ Counts(n, end, e)
      BY <3>5, <3>6 DEF LetsGo, Yields, Guards, Counts, OneMore
    <3>9. SameOwner(g, end) /\ Hushed(g, end) /\ end.phase # "ALLOC"
      BY <1>1, <3>4, <3>5 DEF LetsGo, SameOwner, SameOwned, Hushed
    <3> QED
      BY <1>1, <1>7, <3>5, <3>7, <3>8, <3>9 DEF end
  <2> QED
    BY <2>2, <2>3
<1>8. CASE h.phase \in {"NMEA", "START"}
  <2>1. h.cid # NoCid /\ h.staleCid = NoCid /\ h.alive = {} /\ (h.phase = "START" => h.session)
    BY <1>1, <1>8 DEF Sound, SameOwned, StalePhases, BringUpSteps
  <2>2. end = SetupDone(h, e, ok)
    BY <1>3, <1>8
  <2>3. Sound(end) /\ LetsGo(h, end, e) /\ (h.phase # "NMEA" => Hushed(h, end))
    BY <1>2, <1>8, <2>1, <2>2, SetupDoneSound DEF BringUpSteps
  <2>4. LetsGo(g, end, e) /\ (h.phase # "NMEA" => Hushed(g, end))
    BY <1>1, <2>3, KeptGoesOn
  <2> QED
    BY <1>1, <1>8, <2>3, <2>4 DEF LetsGo, Named, end
<1> QED
  BY <1>2, <1>4, <1>5, <1>6, <1>7, <1>8 DEF StepPhases

\* gm_child_exited, for the follower, the broker and gpsd.
LEMMA ChildExitedSound ==
    ASSUME NEW g, NEW e \in Handling, NEW c \in Children \ {"step"}, Sound(g), c \in g.alive
    PROVE  LET h == ChildExited(g, e, c)
           IN  Sound(h) /\ Runs(g, h, e)
<1> DEFINE end == ChildExited(g, e, c)
<1> DEFINE h == [g EXCEPT !.alive = @ \ {c}]
<1>1. /\ h \in Gm /\ SameOwned(g, h) /\ h.phase = g.phase /\ h.alive = g.alive \ {c}
      /\ h.stepKilled = g.stepKilled
  BY DEF Sound, Base, Gm, SameOwned
<1>2. end =
        CASE h.phase = "UP" -> Fail(h, e, FALSE)
          [] h.phase = "STOP_PIPE" /\ h.alive \cap Pipeline = {} -> AfterPipe(h, e)
          [] h.phase = "STOP_GPSD" /\ c = "gpsd" -> Finish(h, e)
          [] OTHER -> h
  BY DEF ChildExited
<1> HIDE DEF h, end
<1> SUFFICES Sound(end) /\ Runs(h, end, e)
  <2>1. Runs(g, h, e)
    BY <1>1, KeptLetsGo DEF Runs, SameOwned, Sound, Base
  <2> QED
    BY <1>1, <2>1, RunsOn DEF Sound, Base, end
<1>3. Base(h)
  BY <1>1, OwnedIsBase DEF Sound
<1>4. CASE h.phase = "STOP_GPSD"
  <2>1. c = "gpsd" /\ Bare(h)
    BY <1>1, <1>4 DEF Sound, Bare, SameOwned, BringUpSteps
  <2>2. end = Finish(h, e)
    BY <1>2, <1>4, <2>1
  <2>3. Sound(end) /\ SameOwned(h, end) /\ end.phase \in {"IDLE", "OWNER"}
    BY <1>3, <2>1, <2>2, FinishSound DEF Kept
  <2> QED
    BY <1>1, <1>4, <2>3, KeptLetsGo, LetsGoRuns DEF StepPhases
<1>5. CASE h.phase # "STOP_GPSD"
  <2>1. Sound(h)
    BY <1>1, <1>3, <1>5 DEF Sound, SameOwned, Children, Pipeline
  <2>2. CASE h.phase = "STOP_PIPE" /\ h.alive \cap Pipeline = {}
    <3>1. Cleared(h)
      BY <1>1, <2>1, <2>2 DEF Sound, Base, Gm, Cleared, Children, Pipeline, StepPhases, StalePhases,
                              BringUpSteps
    <3>2. Sound(end) /\ LetsGo(h, end, e) /\ Hushed(h, end)
      BY <1>2, <1>3, <2>2, <3>1, AfterPipeSound
    <3> QED
      BY <2>2, <3>2, LetsGoRuns DEF StepPhases
  <2>3. CASE h.phase = "UP"
    BY <1>2, <2>1, <2>3, FailSound
  <2>4. Runs(h, h, e)
    BY <1>1, HoldRuns DEF SameHold, Kept, SameOwned
  <2> QED
    BY <1>2, <1>5, <2>1, <2>2, <2>3, <2>4
<1> QED
  BY <1>4, <1>5

-----------------------------------------------------------------------------
(* Leases, the switch, retry, the clock.                                    *)

CidCounts(g, h, e) == g.cid # NoCid /\ h.cid = NoCid => ~e.bridge \/ OneMore(g, h)

\* Every handler but the end of a step.  Beyond Runs, an owner check may have been made
\* (a client id of another owner is given up without a count), a step killed (an
\* allocation that is killed is counted), and an allocation begun with a fresh check.
Handles(g, h, e) ==
    /\ Yields(g, h) /\ Hushed(g, h) /\ Guards(g, h) /\ Knows(g, h, e)
    /\ CidCounts(g, h, e)
    /\ Counts(g, h, e) \/ (h.ownerOk /\ h.ownerFresh /\ h.ownerSeen # g.staleOwner)
    /\ g.phase \in StepPhases =>
            /\ h.phase = g.phase /\ h.cid = g.cid /\ h.staleCid = g.staleCid
            /\ h.session = g.session /\ h.ownerSeen = g.ownerSeen
            /\ g.phase = "ALLOC" /\ h.stepKilled => g.stepKilled \/ OneMore(g, h)
    /\ h.phase = "ALLOC" /\ g.phase # "ALLOC" => h.ownerOk /\ h.ownerFresh /\ ~h.stepKilled

\* A handler without an owner check.
LEMMA RunsHandles ==
    ASSUME NEW g, NEW h, NEW e, Runs(g, h, e)
    PROVE  Handles(g, h, e)
BY DEF Runs, Handles, Counts, CidCounts, Knows, SameOwner

\* One of each.
LEMMA RunsThenHandles ==
    ASSUME NEW g \in Gm, NEW f \in Gm, NEW h \in Gm, NEW e, Runs(g, f, e), Handles(f, h, e)
    PROVE  Handles(g, h, e)
<1>1. g.leaked <= h.leaked /\ (OneMore(g, f) \/ OneMore(f, h) => OneMore(g, h))
  BY BoundsAssumption DEF Gm, Runs, Handles, Yields, OneMore
<1>2. Yields(g, h) /\ Hushed(g, h) /\ CidCounts(g, h, e)
  BY <1>1 DEF Runs, Handles, Yields, Counts, CidCounts, Hushed
<1>3. Counts(g, h, e) \/ (h.ownerOk /\ h.ownerFresh /\ h.ownerSeen # g.staleOwner)
  BY <1>1 DEF Runs, Handles, Yields, Counts
<1>4. Knows(g, h, e)
  BY DEF Runs, Handles, Knows, SameOwner
<1>5. Guards(g, h)
  BY <1>2 DEF Runs, Handles, Guards, Yields, StepPhases
<1>6. g.phase \in StepPhases =>
            /\ h.phase = g.phase /\ h.cid = g.cid /\ h.staleCid = g.staleCid
            /\ h.session = g.session /\ h.ownerSeen = g.ownerSeen
            /\ g.phase = "ALLOC" /\ h.stepKilled => g.stepKilled \/ OneMore(g, h)
  BY <1>1 DEF Runs, Handles, SameOwner
<1>7. h.phase = "ALLOC" /\ g.phase # "ALLOC" => h.ownerOk /\ h.ownerFresh /\ ~h.stepKilled
  BY DEF Runs, Handles
<1> QED
  BY <1>2, <1>3, <1>4, <1>5, <1>6, <1>7 DEF Handles

\* An owner check, and what is done about it.
LEMMA CheckThenHandles ==
    ASSUME NEW g, NEW f, NEW h, NEW e, g.phase \notin StepPhases,
           Holds(g, f), f.leaked = g.leaked, Knows(g, f, e), Handles(f, h, e)
    PROVE  Handles(g, h, e)
<1>1. Knows(g, h, e)
  BY DEF Handles, Knows, SameOwner
<1>2. g.phase # "ALLOC"
  BY DEF StepPhases
<1> QED
  BY <1>1, <1>2 DEF Handles, Holds, Yields, Hushed, Guards, Counts, CidCounts, OneMore

\* At rest nothing is owned.
LEMMA RestIsBare ==
    ASSUME NEW g, Sound(g), g.phase \in {"IDLE", "OWNER"}
    PROVE  Base(g) /\ Bare(g)
BY DEF Sound, Bare, StepPhases, BringUpSteps

\* gm_set_leases, in any phase.
LEMMA SetLeasesSound ==
    ASSUME NEW g, NEW e \in Handling, NEW n \in 0 .. MaxHeld, Sound(g)
    PROVE  Sound(SetLeases(g, e, n)) /\ Runs(g, SetLeases(g, e, n), e)
<1> DEFINE end == SetLeases(g, e, n)
<1> DEFINE h == [g EXCEPT !.leases = n]
<1> DEFINE kept == [h EXCEPT !.grace = FALSE]
<1>1. h \in Gm /\ SameHold(g, h)
  BY DEF Sound, Base, Gm, SameHold, Kept, SameOwned
<1>2. kept \in Gm /\ SameHold(g, kept)
  BY DEF Sound, Base, Gm, SameHold, Kept, SameOwned
<1>3. end =
        CASE n > 0 /\ g.leases = 0 /\ g.phase = "IDLE" /\ g.state = "OFF" -> Bringup(kept, e)
          [] n > 0 /\ ~(g.leases = 0 /\ g.phase = "IDLE" /\ g.state = "OFF") -> kept
          [] n = 0 /\ g.leases = 0 -> h
          [] n = 0 /\ g.leases > 0 /\ ~g.enabled /\ g.phase \in Engaged -> Teardown(h, e)
          [] OTHER -> LastLeaseGone(h)
  BY DEF SetLeases
<1> HIDE DEF h, kept, end
<1>4. Sound(h) /\ Sound(kept) /\ g \in Gm
  BY <1>1, <1>2, HoldIsSound DEF Sound, Base
<1>5. Runs(g, h, e) /\ Runs(g, kept, e)
  BY <1>1, <1>2, <1>4, HoldRuns
<1>6. Sound(LastLeaseGone(h)) /\ Runs(h, LastLeaseGone(h), e)
  BY <1>1, <1>4, LastLeaseGoneKeeps, HoldIsSound, HoldRuns
<1>7. Sound(Teardown(h, e)) /\ Runs(h, Teardown(h, e), e)
  BY <1>4, TeardownSound
<1>8. CASE end = Bringup(kept, e) /\ g.phase = "IDLE"
  <2>1. Sound(end) /\ SameOwned(kept, end) /\ end.phase = "OWNER"
    BY <1>2, <1>4, <1>8, RestIsBare, BringupSound DEF SameHold, Kept
  <2>2. Runs(kept, end, e)
    BY <1>2, <1>8, <2>1, KeptLetsGo, LetsGoRuns DEF SameHold, StepPhases
  <2> QED
    BY <1>2, <1>4, <1>5, <2>1, <2>2, RunsOn DEF Sound, Base, end
<1>9. CASE end \in {h, kept}
  BY <1>4, <1>5, <1>9 DEF end
<1>10. CASE end \in {LastLeaseGone(h), Teardown(h, e)}
  <2>1. Sound(end) /\ Runs(h, end, e)
    BY <1>6, <1>7, <1>10
  <2> QED
    BY <1>1, <1>4, <1>5, <2>1, RunsOn DEF Sound, Base, end
<1> QED
  BY <1>3, <1>8, <1>9, <1>10

\* gm_server_sync.
LEMMA SyncSound ==
    ASSUME NEW g, NEW e \in Handling, Sound(g)
    PROVE  Sound(Sync(g, e)) /\ Runs(g, Sync(g, e), e)
<1>1. g.held \in 0 .. MaxHeld /\ g \in Gm
  BY DEF Sound, Base, Gm
<1>2. Runs(g, g, e)
  BY <1>1, HoldRuns DEF SameHold, Kept, SameOwned
<1> QED
  BY <1>1, <1>2, Zero, SetLeasesSound DEF Sync

\* gm_server_set_enabled, with the count synced inside its broadcast or not.
LEMMA SetEnabledSound ==
    ASSUME NEW g, NEW e \in Handling, NEW on \in BOOLEAN, Sound(g)
    PROVE  Sound(SetEnabled(g, e, on)) /\ Runs(g, SetEnabled(g, e, on), e)
<1> DEFINE end == SetEnabled(g, e, on)
<1> DEFINE told == [g EXCEPT !.loaded = TRUE, !.enabled = on]
<1> DEFINE b == IF g.enabled # on /\ e.drop = "SWITCH" THEN Sync(told, e) ELSE told
<1> DEFINE down == Sync(b, e)
<1> DEFINE stopped == IF down.grace THEN Teardown(down, e) ELSE down
<1>1. told \in Gm /\ SameHold(g, told)
  BY DEF Sound, Base, Gm, SameHold, Kept, SameOwned
<1>2. end \in {Sync(Set(b, e, "OFF"), e), Sync(b, e), Set(stopped, e, "OFF"), stopped}
  BY DEF SetEnabled
<1> HIDE DEF told, end
<1>3. Sound(told) /\ Runs(g, told, e) /\ g \in Gm
  BY <1>1, HoldIsSound, HoldRuns DEF Sound, Base
<1>4. Sound(b) /\ Runs(g, b, e)
  BY <1>3, SyncSound, RunsOn DEF Sound, Base
<1> HIDE DEF b
<1>5. Sound(down) /\ Runs(g, down, e)
  BY <1>3, <1>4, SyncSound, RunsOn DEF Sound, Base
<1> HIDE DEF down
<1>6. Sound(stopped) /\ Runs(g, stopped, e)
  BY <1>3, <1>5, TeardownSound, RunsOn DEF Sound, Base
<1> HIDE DEF stopped
<1>7. ASSUME NEW f, Sound(f), Runs(g, f, e)
      PROVE  Sound(Set(f, e, "OFF")) /\ Runs(g, Set(f, e, "OFF"), e)
  <2>1. Sound(Set(f, e, "OFF")) /\ SameHold(f, Set(f, e, "OFF"))
    BY <1>7, SetSound DEF States
  <2> QED
    BY <1>3, <1>7, <2>1, HoldRuns, RunsOn DEF Sound, Base
<1>8. ASSUME NEW f, Sound(f), Runs(g, f, e)
      PROVE  Sound(Sync(f, e)) /\ Runs(g, Sync(f, e), e)
  BY <1>3, <1>8, SyncSound, RunsOn DEF Sound, Base
<1> QED
  BY <1>2, <1>4, <1>6, <1>7, <1>8 DEF end

\* gm_retry.
LEMMA RetrySound ==
    ASSUME NEW g, Sound(g)
    PROVE  Sound(Retry(g)) /\ \A e : Handles(g, Retry(g), e)
<1> DEFINE again == IF g.ownerLost THEN g.retry ELSE TRUE
<1>1. g \in Gm /\ again \in BOOLEAN
  BY DEF Sound, Base, Gm
<1> HIDE DEF again
<1> DEFINE h == [g EXCEPT !.parked = FALSE, !.streak = 0, !.ownerFresh = FALSE, !.retry = again]
<1>2. h \in Gm
  BY <1>1, Zero, ZenonT(60) DEF Gm
<1>3. Holds(g, h) /\ h.leaked = g.leaked /\ h.stepKilled = g.stepKilled
      /\ h.ownerSeen = g.ownerSeen /\ h.ownerFresh = FALSE
  BY <1>1 DEF Gm, Holds
<1>4. Retry(g) = h
  BY DEF Retry, again
<1> HIDE DEF h
<1>5. g.leaked <= h.leaked
  BY <1>1, <1>3, BoundsAssumption DEF Gm
<1>6. \A e : Handles(g, h, e)
  BY <1>3, <1>5 DEF Handles, Holds, Yields, Hushed, Guards, Knows, Counts, CidCounts
<1> QED
  BY <1>2, <1>3, <1>4, <1>6, HoldsIsSound

-----------------------------------------------------------------------------
(* gm_tick.                                                                 *)

\* The end of the grace period.
LEMMA GraceTickSound ==
    ASSUME NEW g, NEW e \in Handling, NEW t \in Timers, Sound(g)
    PROVE  Sound(GraceTick(g, e, t)) /\ Runs(g, GraceTick(g, e, t), e)
<1> DEFINE f == [g EXCEPT !.failing = FALSE]
<1> DEFINE k == [g EXCEPT !.grace = FALSE]
<1>1. f \in Gm /\ SameHold(g, f) /\ k \in Gm /\ SameHold(g, k) /\ g \in Gm /\ SameHold(g, g)
  BY DEF Sound, Base, Gm, SameHold, Kept, SameOwned
<1>2. GraceTick(g, e, t) \in {g, k, Teardown(f, e)}
  BY DEF GraceTick
<1> HIDE DEF f, k
<1>3. Sound(f) /\ Sound(k) /\ Runs(g, g, e) /\ Runs(g, k, e) /\ Runs(g, f, e)
  BY <1>1, HoldIsSound, HoldRuns
<1>4. Sound(Teardown(f, e)) /\ Runs(g, Teardown(f, e), e)
  BY <1>1, <1>3, TeardownSound, RunsOn DEF Sound, Base
<1> QED
  BY <1>2, <1>3, <1>4

\* An owner check in any phase.
LEMMA CheckOwnerSound ==
    ASSUME NEW g, NEW e \in Handling, Sound(g)
    PROVE  LET h == CheckOwner(g, e)
           IN  /\ Sound(h) /\ Holds(g, h) /\ h.ownerFresh /\ h.phase = g.phase
               /\ h.leaked = g.leaked /\ Knows(g, h, e)
BY CheckOwnerKeeps, HoldsIsSound DEF Sound, Base, Holds

\* The check of the stale client id, right after a check of the owner.
LEMMA StaleCheckHandles ==
    ASSUME NEW g, NEW e \in Handling, Sound(g), g.phase \in {"IDLE", "OWNER"},
           g.ownerOk, g.ownerFresh
    PROVE  Sound(StaleCheck(g, e)) /\ Handles(g, StaleCheck(g, e), e)
<1> DEFINE h == StaleCheck(g, e)
<1>1. Base(g) /\ Bare(g)
  BY RestIsBare
<1>2. /\ Sound(h) /\ Yields(g, h) /\ Hushed(g, h) /\ SameOwner(g, h)
      /\ h.cid = NoCid /\ h.phase # "ALLOC"
      /\ g.ownerSeen = g.staleOwner => Counts(g, h, e)
  BY <1>1, StaleCheckSound
<1> HIDE DEF h
<1>3. Guards(g, h) /\ Knows(g, h, e) /\ CidCounts(g, h, e) /\ g.phase \notin StepPhases
  BY <1>1, <1>2 DEF Guards, Knows, CidCounts, Bare, StepPhases
<1>4. h.ownerOk /\ h.ownerFresh /\ h.ownerSeen = g.ownerSeen
  BY <1>2 DEF SameOwner
<1>5. Handles(g, h, e)
  BY <1>2, <1>3, <1>4 DEF Handles
<1> QED
  BY <1>2, <1>5 DEF h

\* A bring-up from PH_IDLE.
LEMMA BringupHandles ==
    ASSUME NEW g, NEW e \in Handling, Sound(g), g.phase = "IDLE"
    PROVE  Sound(Bringup(g, e)) /\ Handles(g, Bringup(g, e), e)
<1> DEFINE h == Bringup(g, e)
<1>1. Sound(h) /\ SameOwned(g, h) /\ h.phase = "OWNER" /\ g \in Gm
  BY RestIsBare, BringupSound DEF Kept, Sound, Base
<1> HIDE DEF h
<1>2. Runs(g, h, e)
  BY <1>1, KeptLetsGo, LetsGoRuns DEF StepPhases
<1> QED
  BY <1>1, <1>2, RunsHandles DEF h

\* PH_IDLE: the stale client id, the lost owner, the retry.
LEMMA IdleTickSound ==
    ASSUME NEW g, NEW e \in Handling, NEW due \in BOOLEAN, Sound(g), g.phase = "IDLE"
    PROVE  Sound(IdleTick(g, e, due)) /\ Handles(g, IdleTick(g, e, due), e)
<1> DEFINE end == IdleTick(g, e, due)
<1> DEFINE s == IF g.staleCid # NoCid THEN CheckOwner(g, e) ELSE g
<1> DEFINE o == CheckOwner(s, e)
<1>1. \/ end = StaleCheck(s, e) /\ g.staleCid # NoCid /\ s.ownerOk
      \/ end \in {Bringup(o, e), o, Bringup(s, e), s}
  <2>1. g.staleCid = NoCid => s = g
    OBVIOUS
  <2> QED
    BY <2>1 DEF IdleTick
<1>2. /\ Sound(s) /\ Holds(g, s) /\ s.phase = "IDLE" /\ (g.staleCid # NoCid => s.ownerFresh)
      /\ s.leaked = g.leaked /\ Knows(g, s, e)
  <2>1. Holds(g, g) /\ Knows(g, g, e)
    BY DEF Holds, Knows, SameOwner
  <2> QED
    BY <2>1, CheckOwnerSound
<1> HIDE DEF s, end
<1>3. /\ Sound(o) /\ Holds(s, o) /\ o.phase = "IDLE" /\ o.leaked = s.leaked /\ Knows(s, o, e)
  BY <1>2, CheckOwnerSound
<1> HIDE DEF o
<1>4. ASSUME NEW h, Handles(s, h, e)
      PROVE  Handles(g, h, e)
  BY <1>2, <1>4, CheckThenHandles DEF StepPhases
<1>5. ASSUME NEW h, Handles(o, h, e)
      PROVE  Handles(g, h, e)
  BY <1>2, <1>3, <1>4, <1>5, CheckThenHandles DEF StepPhases
<1>6. CASE end = StaleCheck(s, e) /\ g.staleCid # NoCid /\ s.ownerOk
  BY <1>2, <1>4, <1>6, StaleCheckHandles DEF end
<1>7. CASE end \in {Bringup(o, e), Bringup(s, e)}
  BY <1>2, <1>3, <1>4, <1>5, <1>7, BringupHandles DEF end
<1>8. CASE end \in {o, s}
  <2>1. Handles(s, s, e) /\ Handles(o, o, e)
    BY <1>2, <1>3, HoldRuns, RunsHandles DEF SameHold, Kept, SameOwned, Sound, Base
  <2> QED
    BY <1>2, <1>3, <1>4, <1>5, <1>8, <2>1 DEF end
<1> QED
  BY <1>1, <1>6, <1>7, <1>8

\* PH_OWNER: the stale client id first, then the allocation; or the owner stays away.
LEMMA OwnerTickSound ==
    ASSUME NEW g, NEW e \in Handling, NEW due \in BOOLEAN, Sound(g), g.phase = "OWNER"
    PROVE  Sound(OwnerTick(g, e, due)) /\ Handles(g, OwnerTick(g, e, due), e)
<1> DEFINE end == OwnerTick(g, e, due)
<1> DEFINE o == CheckOwner(g, e)
<1> DEFINE s == Set(o, e, "STARTING")
<1>1. /\ Sound(o) /\ Holds(g, o) /\ o.ownerFresh /\ o.phase = "OWNER"
      /\ o.leaked = g.leaked /\ Knows(g, o, e)
  BY CheckOwnerSound
<1>2. \/ end = StaleCheck(o, e) /\ o.ownerOk
      \/ end = Setup(s, e, "ALLOC") /\ o.ownerOk /\ o.staleCid = NoCid
      \/ end \in {Fail(o, e, TRUE), o}
  BY DEF OwnerTick
<1> HIDE DEF o, end
<1>3. Sound(s) /\ SameHold(o, s)
  BY <1>1, SetSound DEF States
<1> HIDE DEF s
<1> SUFFICES Sound(end) /\ Handles(o, end, e)
  <2>1. Handles(g, end, e)
    BY <1>1, CheckThenHandles DEF StepPhases
  <2> QED
    BY <2>1 DEF end
<1>4. CASE end = StaleCheck(o, e) /\ o.ownerOk
  BY <1>1, <1>4, StaleCheckHandles
<1>5. CASE end = Setup(s, e, "ALLOC") /\ o.ownerOk /\ o.staleCid = NoCid
  <2>1. Base(s) /\ Bare(s) /\ s.staleCid = NoCid
    BY <1>1, <1>3, <1>5, RestIsBare DEF SameHold, Kept, SameOwned
  <2>2. /\ Sound(end) /\ Yields(s, end) /\ Counts(s, end, e) /\ Hushed(s, end) /\ Guards(s, end)
        /\ SameOwner(s, end) /\ (end.phase = "ALLOC" => ~end.stepKilled)
    BY <1>5, <2>1, SetupSound DEF BringUpSteps, Cleared, Bare
  <2>3. SameOwner(o, end) /\ end.ownerOk /\ end.ownerFresh
    BY <1>1, <1>3, <1>5, <2>2 DEF SameOwner, SameHold, Kept, SameOwned
  <2>4. Yields(o, end) /\ Counts(o, end, e) /\ Hushed(o, end) /\ Guards(o, end)
    BY <1>3, <2>2 DEF Yields, Counts, OneMore, Hushed, Guards, SameHold, Kept, SameOwned
  <2> QED
    BY <1>1, <2>2, <2>3, <2>4 DEF Handles, Knows, Counts, CidCounts, StepPhases
<1>6. CASE end \in {Fail(o, e, TRUE), o}
  <2>1. Runs(o, o, e)
    BY <1>1, HoldRuns DEF SameHold, Kept, SameOwned, Sound, Base
  <2> QED
    BY <1>1, <1>6, <2>1, FailSound, RunsHandles
<1> QED
  BY <1>2, <1>4, <1>5, <1>6

\* A step phase: TERM, KILL, and perhaps a counted leak.
LEMMA StepTickSound ==
    ASSUME NEW g, NEW e, NEW due \in BOOLEAN, Sound(g)
    PROVE  Sound(StepTick(g, due)) /\ Handles(g, StepTick(g, due), e)
<1> DEFINE f == IF g.phase = "ALLOC" THEN Leak(g) ELSE g
<1> DEFINE term == [f EXCEPT !.stepKilled = TRUE]
<1> DEFINE kill == [g EXCEPT !.escalation = 1]
<1>1. /\ g \in Gm /\ f \in Gm /\ Holds(g, f) /\ g.leaked <= f.leaked /\ SameOwner(g, f)
      /\ g.phase = "ALLOC" => OneMore(g, f)
  BY LeakKeeps, BoundsAssumption DEF Sound, Base, Gm, Holds, SameOwner
<1>2. StepTick(g, due) \in {g, term, kill}
  BY DEF StepTick
<1> HIDE DEF f
<1>3. term \in Gm /\ Holds(g, term) /\ term.leaked = f.leaked /\ SameOwner(g, term)
  BY <1>1 DEF Gm, Holds, SameOwner
<1>4. kill \in Gm /\ SameHold(g, kill) /\ SameHold(g, g)
  BY Zero DEF Sound, Base, Gm, SameHold, Kept, SameOwned
<1> HIDE DEF term, kill
<1>5. Handles(g, term, e)
  BY <1>1, <1>3 DEF Handles, Holds, Yields, Hushed, Guards, Knows, SameOwner, Counts, CidCounts,
                    OneMore
<1>6. Handles(g, g, e) /\ Handles(g, kill, e)
  BY <1>1, <1>4, HoldRuns, RunsHandles
<1> QED
  BY <1>1, <1>2, <1>3, <1>4, <1>5, <1>6, HoldIsSound, HoldsIsSound

\* PH_UP: the owner, silence, the fix.
LEMMA UpTickSound ==
    ASSUME NEW g, NEW e \in Handling, NEW t \in Timers, Sound(g), g.phase = "UP"
    PROVE  Sound(UpTick(g, e, t)) /\ Handles(g, UpTick(g, e, t), e)
<1> DEFINE end == UpTick(g, e, t)
<1> DEFINE o == CheckOwner(g, e)
<1> DEFINE well == [o EXCEPT !.healthy = TRUE, !.streak = 0]
<1> DEFINE h == IF t.steady /\ ~o.healthy THEN well ELSE o
<1> DEFINE st == IF t.fix THEN "RUNNING" ELSE "ACQUIRING"
<1>1. /\ Sound(o) /\ Holds(g, o) /\ o.phase = "UP" /\ o.leaked = g.leaked /\ Knows(g, o, e)
      /\ st \in States
  BY CheckOwnerSound DEF States
<1>2. end \in {Fail(o, e, TRUE), Fail(o, e, FALSE), Set(h, e, st)}
  BY DEF UpTick
<1> HIDE DEF o, st, end
<1>3. well \in Gm /\ SameHold(o, well) /\ SameHold(o, o) /\ o \in Gm
  BY <1>1, Zero DEF Sound, Base, Gm, SameHold, Kept, SameOwned
<1>4. Sound(h) /\ Runs(o, h, e)
  BY <1>1, <1>3, HoldIsSound, HoldRuns
<1> HIDE DEF h
<1>5. Sound(Set(h, e, st)) /\ Runs(o, Set(h, e, st), e)
  <2>1. Sound(Set(h, e, st)) /\ Runs(h, Set(h, e, st), e)
    BY <1>1, <1>4, SetSound, HoldRuns DEF Sound, Base
  <2> QED
    BY <1>3, <1>4, <2>1, RunsOn DEF Sound, Base
<1>6. Sound(end) /\ Handles(o, end, e)
  BY <1>1, <1>2, <1>5, FailSound, RunsHandles
<1>7. Handles(g, end, e)
  BY <1>1, <1>6, CheckThenHandles DEF StepPhases
<1> QED
  BY <1>6, <1>7 DEF end

\* The stop phases only escalate, and not past KILL.
LEMMA StopTickSound ==
    ASSUME NEW g, NEW e, NEW due \in BOOLEAN, Sound(g)
    PROVE  Sound(StopTick(g, due)) /\ Handles(g, StopTick(g, due), e)
<1> DEFINE h == [g EXCEPT !.escalation = g.escalation + 1]
<1> DEFINE last == IF g.phase = "STOP_PIPE" THEN 2 ELSE 1
<1>1. g.escalation < last => g.escalation + 1 \in 0 .. 2
  BY DEF Sound, Base, Gm
<1>2. g.escalation < last => h \in Gm /\ SameHold(g, h)
  BY <1>1 DEF Sound, Base, Gm, SameHold, Kept, SameOwned
<1>3. g \in Gm /\ SameHold(g, g)
  BY DEF Sound, Base, SameHold, Kept, SameOwned
<1>4. StopTick(g, due) = IF due /\ g.escalation < last THEN h ELSE g
  BY DEF StopTick
<1> HIDE DEF h, last
<1> QED
  BY <1>2, <1>3, <1>4, HoldIsSound, HoldRuns, RunsHandles

\* The tick: the grace period, then what the phase waits for.
LEMMA TickSound ==
    ASSUME NEW g, NEW e \in Handling, NEW t \in Timers, Sound(g)
    PROVE  Sound(Tick(g, e, t)) /\ Handles(g, Tick(g, e, t), e)
<1> DEFINE end == Tick(g, e, t)
<1> DEFINE h == GraceTick(g, e, t)
<1> DEFINE due == t.due /\ h.phase = g.phase
<1> DEFINE up == [t EXCEPT !.due = due]
<1>1. Sound(h) /\ Runs(g, h, e)
  BY GraceTickSound
<1>2. end =
        CASE h.phase = "IDLE" -> IdleTick(h, e, due)
          [] h.phase = "OWNER" -> OwnerTick(h, e, due)
          [] h.phase \in StepPhases -> StepTick(h, due)
          [] h.phase = "UP" -> UpTick(h, e, up)
          [] OTHER -> StopTick(h, due)
  BY DEF Tick
<1>3. due \in BOOLEAN /\ up \in Timers
  BY DEF Timers
<1> HIDE DEF h, end
<1> HIDE DEF due, up
<1> SUFFICES Sound(end) /\ Handles(h, end, e)
  BY <1>1, RunsThenHandles DEF Sound, Base, end
<1>4. CASE h.phase = "IDLE"
  BY <1>1, <1>2, <1>3, <1>4, IdleTickSound DEF StepPhases
<1>5. CASE h.phase = "OWNER"
  BY <1>1, <1>2, <1>3, <1>5, OwnerTickSound DEF StepPhases
<1>6. CASE h.phase \in StepPhases
  BY <1>1, <1>2, <1>3, <1>6, StepTickSound DEF StepPhases
<1>7. CASE h.phase = "UP"
  BY <1>1, <1>2, <1>3, <1>7, UpTickSound DEF StepPhases
<1>8. CASE h.phase \notin {"IDLE", "OWNER", "UP"} \cup StepPhases
  BY <1>1, <1>2, <1>3, <1>8, StopTickSound
<1> QED
  BY <1>4, <1>5, <1>6, <1>7, <1>8

\* gm_init after a death: the record is the stale client id, and nothing else is owned.
LEMMA BootSound ==
    ASSUME NEW r \in Records, NEW loaded \in BOOLEAN
    PROVE  Sound(Boot(r, loaded))
<1> DEFINE h == Boot(r, loaded)
<1>1. r.cid \in CidOrNone /\ r.owner \in OwnerOrNone /\ 0 \in 0 .. LeakCap
      /\ r = [cid |-> r.cid, owner |-> r.owner]
  BY BoundsAssumption DEF Records
<1>2. h \in Gm
  BY <1>1, Zero DEF Boot, Gm, States, Phases
<1>3. /\ h.cid = NoCid /\ h.staleCid = r.cid /\ h.staleOwner = r.owner /\ h.rec = r
      /\ h.alive = {} /\ h.session = FALSE /\ h.tearing = FALSE /\ h.phase = "IDLE"
  BY DEF Boot
<1> HIDE DEF h
<1>4. RecordOk(h)
  BY <1>1, <1>3 DEF RecordOk
<1>5. Base(h)
  BY <1>2, <1>3, <1>4 DEF Base
<1>6. Sound(h)
  BY <1>3, <1>5 DEF Sound, StepPhases, BringUpSteps, StalePhases
<1> QED
  BY <1>6 DEF h

-----------------------------------------------------------------------------
(* The control part of the struct: the leases, the switch, the grace period, *)
(* failing and parking, and the state that is shown.  Again one lemma per    *)
(* operator says what it asks for and that it leaves the invariant (Control) *)
(* behind it; Served is apart, since a watcher dropped by the switch's own   *)
(* line breaks it.                                                           *)

\* What is wanted, and what has become of it, is the same in both structs.
SameDemand(g, h) ==
    /\ h.state = g.state /\ h.held = g.held /\ h.leases = g.leases
    /\ h.enabled = g.enabled /\ h.loaded = g.loaded /\ h.grace = g.grace
    /\ h.failing = g.failing /\ h.ownerLost = g.ownerLost
    /\ h.parked = g.parked /\ h.retry = g.retry /\ h.staleFromOwner = g.staleFromOwner

\* The held leases count exactly while the switch is on and has been read.
Counted(g) == g.leases = IF g.enabled /\ g.loaded THEN g.held ELSE 0

\* DISABLED is shown with the switch off only.
ShownOff(g) == g.state = "DISABLED" => ~g.enabled

\* A failure that is not the owner's comes after the stale client id has been handled.
FailsLate(g) == g.failing /\ ~g.ownerLost => g.staleCid = NoCid

\* A bring-up, or GNSS up, has a reason, and a failing one is on its way down.  The stale
\* client id is handled before OWNER goes on, and parked is failed for good.
Reasoned(g) ==
    /\ g.phase \in Engaged =>
            /\ g.leases > 0 \/ g.grace \/ g.tearing
            /\ g.failing => g.tearing
    /\ g.staleFromOwner => g.staleCid = NoCid \/ g.phase \in StalePhases
    /\ g.staleFromOwner /\ g.phase \in StalePhases => ~g.failing
    /\ g.parked => g.phase = "IDLE" /\ g.state = "FAILED" /\ ~g.ownerLost /\ g.staleCid = NoCid

\* What is left of it while the count, the switch or what is shown has yet to follow.
Loose(g) == g \in Gm /\ FailsLate(g) /\ Reasoned(g)
Obeys(g) == g.phase \in Engaged /\ ~g.enabled => g.tearing

\* The inductive invariant of the struct's control, between handlers.
Control(g) ==
    /\ g \in Gm /\ Counted(g) /\ ShownOff(g) /\ FailsLate(g) /\ Reasoned(g)
    /\ g.phase \in Engaged /\ ~g.enabled => g.tearing

\* At rest either nobody has a lease and OFF is shown, or what failed has a way on.
Served(g) ==
    g.phase = "IDLE" =>
        \/ g.state = "FAILED" /\ (g.ownerLost \/ g.retry \/ g.parked)
        \/ g.state \in {"OFF", "DISABLED"} /\ g.leases = 0

\* True at every call between the functions of core.c: while everything comes down, while
\* the stale client id is handled, and while it comes up.
Ambient(g) == g \in Gm /\ Counted(g) /\ ShownOff(g) /\ FailsLate(g)
Down(g) == Ambient(g) /\ ~g.parked /\ (g.staleFromOwner => g.staleCid = NoCid)
Stale(g) == Ambient(g) /\ ~g.parked /\ (g.staleFromOwner => ~g.failing)
Live(g) == Down(g) /\ ~g.failing /\ (g.leases > 0 \/ g.grace) /\ g.enabled

\* Where a handler leaves off.
Settled(g) == Control(g) /\ Served(g)

-----------------------------------------------------------------------------
(* The small operators.                                                     *)

\* The same demand, and no new stale client id.
LEMMA DemandKeeps ==
    ASSUME NEW g, NEW h \in Gm, SameDemand(g, h), h.staleCid \in {g.staleCid, NoCid}
    PROVE  /\ Ambient(g) => Ambient(h)
           /\ Down(g) => Down(h)
           /\ Stale(g) => Stale(h)
           /\ Live(g) => Live(h)
<1>1. Ambient(g) => Ambient(h)
  BY DEF SameDemand, Ambient, Counted, ShownOff, FailsLate
<1>2. Down(g) => Down(h)
  BY <1>1 DEF SameDemand, Down
<1>3. Stale(g) => Stale(h)
  BY <1>1 DEF SameDemand, Stale
<1>4. Live(g) => Live(h)
  BY <1>2 DEF SameDemand, Live
<1> QED
  BY <1>1, <1>2, <1>3, <1>4

\* The same demand in the same phase.
LEMMA SameIsControl ==
    ASSUME NEW g, NEW h \in Gm, SameDemand(g, h),
           h.phase = g.phase, h.tearing = g.tearing, h.staleCid = g.staleCid
    PROVE  (Control(g) => Control(h)) /\ (Served(g) => Served(h))
BY DEF SameDemand, Control, Served, Counted, ShownOff, FailsLate, Reasoned

\* A phase is entered.
LEMMA PhaseDemand ==
    ASSUME NEW g \in Gm, NEW ph \in Phases
    PROVE  LET h == Phase(g, ph)
           IN  h \in Gm /\ SameDemand(g, h) /\ h.staleCid = g.staleCid /\ h.phase = ph
<1>1. Phase(g, ph) \in Gm
  BY PhaseIs
<1> QED
  BY <1>1 DEF Phase, Gm, SameDemand

\* A step starts: its phase is entered and its child runs.
LEMMA StepStartsDemand ==
    ASSUME NEW g \in Gm, NEW ph \in StepPhases
    PROVE  LET h == StepStarts(g, ph)
           IN  h \in Gm /\ SameDemand(g, h) /\ h.staleCid = g.staleCid /\ h.phase = ph
<1> DEFINE f == Phase(g, ph)
<1>1. f \in Gm /\ SameDemand(g, f) /\ f.phase = ph
  BY PhaseDemand DEF Phases
<1>2. StepStarts(g, ph) \in Gm /\ StepStarts(g, ph).staleCid = g.staleCid
      /\ StepStarts(g, ph).phase = ph
  BY StepStartsIs DEF SameOwned
<1> HIDE DEF f
<1>3. SameDemand(f, [f EXCEPT !.alive = f.alive \cup {"step"}])
  BY <1>1 DEF Gm, SameDemand
<1> QED
  BY <1>1, <1>2, <1>3 DEF StepStarts, SameDemand, f

\* A step ends.
LEMMA StepEndsDemand ==
    ASSUME NEW g \in Gm
    PROVE  LET h == StepEnds(g)
           IN  h \in Gm /\ SameDemand(g, h) /\ h.staleCid = g.staleCid /\ h.phase = g.phase
BY StepEndsIs DEF StepEnds, Gm, SameDemand, SameOwned

\* A client id is counted as leaked.
LEMMA LeakDemand ==
    ASSUME NEW g \in Gm
    PROVE  Leak(g) \in Gm /\ SameDemand(g, Leak(g)) /\ Holds(g, Leak(g))
<1>1. Leak(g) \in Gm /\ Holds(g, Leak(g))
  BY LeakKeeps
<1> QED
  BY <1>1 DEF Leak, Gm, SameDemand

\* The owner of the modem is looked up again.
LEMMA CheckOwnerDemand ==
    ASSUME NEW g \in Gm, NEW e \in Handling
    PROVE  LET h == CheckOwner(g, e)
           IN  h \in Gm /\ SameDemand(g, h) /\ Holds(g, h)
<1>1. CheckOwner(g, e) \in Gm /\ Holds(g, CheckOwner(g, e))
  BY CheckOwnerKeeps
<1> QED
  BY <1>1 DEF CheckOwner, Gm, SameDemand

\* The record is written.
LEMMA SaveDemand ==
    ASSUME NEW g \in Gm
    PROVE  LET h == Save(g)
           IN  h \in Gm /\ SameDemand(g, h) /\ h.staleCid = g.staleCid /\ h.phase = g.phase
               /\ h.tearing = g.tearing
<1> DEFINE r == CASE g.staleCid # NoCid -> [cid |-> g.staleCid, owner |-> g.staleOwner]
                  [] g.staleCid = NoCid /\ g.cid # NoCid -> [cid |-> g.cid, owner |-> g.cidOwner]
                  [] OTHER -> NoRecord
<1>1. r \in Records
  BY Zero DEF Gm, Records
<1>2. Save(g) = [g EXCEPT !.rec = r]
  BY DEF Save
<1> HIDE DEF r
<1> QED
  BY <1>1, <1>2 DEF Gm, SameDemand

\* The client id is dropped, and the record written.
LEMMA DropCidDemand ==
    ASSUME NEW g \in Gm
    PROVE  LET h == DropCid(g)
           IN  h \in Gm /\ SameDemand(g, h) /\ h.staleCid = g.staleCid /\ h.phase = g.phase
<1> DEFINE f == [g EXCEPT !.cid = NoCid, !.session = FALSE]
<1>1. f \in Gm /\ SameDemand(g, f) /\ f.staleCid = g.staleCid /\ f.phase = g.phase
  BY Zero DEF Gm, SameDemand
<1> HIDE DEF f
<1>2. Save(f) \in Gm /\ SameDemand(f, Save(f)) /\ Save(f).staleCid = f.staleCid
      /\ Save(f).phase = f.phase
  BY <1>1, SaveDemand
<1> QED
  BY <1>1, <1>2 DEF DropCid, f, SameDemand

\* Control in its two halves.
LEMMA ControlIs ==
    ASSUME NEW g
    PROVE  Control(g) <=> Loose(g) /\ Counted(g) /\ ShownOff(g) /\ Obeys(g)
BY DEF Control, Loose, Obeys

\* Coming down, in a phase where that is all that is asked.
LEMMA DownIsControl ==
    ASSUME NEW g, Down(g), g.phase \in {"STOP_PIPE", "STOP_GPSD", "LOCSTOP", "RELEASE"}
    PROVE  Control(g) /\ Served(g)
BY DEF Down, Ambient, Control, Served, Reasoned, Engaged, BringUpSteps, StalePhases

\* Up or coming up, with the switch on, nothing failed, and a lease or its grace period.
LEMMA LiveIsControl ==
    ASSUME NEW g, Live(g), g.phase \in Engaged
    PROVE  Control(g) /\ Served(g)
BY DEF Live, Down, Ambient, Control, Served, Reasoned, Engaged, BringUpSteps, StalePhases

\* A step of the stale cleanup runs.
LEMMA StaleIsControl ==
    ASSUME NEW g, Stale(g), g.phase \in StalePhases
    PROVE  Control(g) /\ Served(g)
BY DEF Stale, Ambient, Control, Served, Reasoned, Engaged, BringUpSteps, StalePhases

\* gm_set_leases(0) without its teardown: the grace period, or OFF when nothing is owned.
LEMMA LastLeaseGoneIs ==
    ASSUME NEW g \in Gm
    PROVE  LET h == LastLeaseGone(g)
           IN  /\ h \in Gm /\ h.phase = g.phase /\ h.tearing = g.tearing
               /\ h.staleCid = g.staleCid /\ h.staleFromOwner = g.staleFromOwner
               /\ h.ownerLost = g.ownerLost /\ h.enabled = g.enabled /\ h.loaded = g.loaded
               /\ h.held = g.held /\ h.leases = 0
               /\ h.state = g.state \/ h.state = Shown(g, "OFF")
               /\ g.phase = "IDLE" => h.state = Shown(g, "OFF") /\ ~h.parked /\ ~h.failing
               /\ g.phase # "IDLE" =>
                        h.state = g.state /\ h.parked = g.parked /\ h.failing = g.failing
               /\ g.phase \in Engaged => h.grace
<1> DEFINE off == [g EXCEPT !.leases = 0, !.retry = FALSE, !.parked = FALSE, !.streak = 0,
                            !.failing = FALSE, !.state = Shown(g, "OFF")]
<1> DEFINE late == [g EXCEPT !.leases = 0, !.grace = TRUE]
<1> DEFINE none == [g EXCEPT !.leases = 0]
<1>1. LastLeaseGone(g) \in Gm
  BY LastLeaseGoneKeeps
<1>2. CASE g.phase = "IDLE"
  <2>1. LastLeaseGone(g) = off
    BY <1>2 DEF LastLeaseGone, Engaged, BringUpSteps
  <2>2. /\ off.phase = g.phase /\ off.tearing = g.tearing /\ off.staleCid = g.staleCid
        /\ off.staleFromOwner = g.staleFromOwner /\ off.ownerLost = g.ownerLost
        /\ off.enabled = g.enabled /\ off.loaded = g.loaded /\ off.held = g.held
    BY DEF Gm
  <2>3. /\ off.leases = 0 /\ off.state = Shown(g, "OFF")
        /\ off.parked = FALSE /\ off.failing = FALSE
    BY DEF Gm
  <2> HIDE DEF off
  <2> QED
    BY <1>1, <1>2, <2>1, <2>2, <2>3 DEF Engaged, BringUpSteps
<1>3. CASE g.phase # "IDLE"
  <2>1. LastLeaseGone(g) = IF g.phase \in Engaged THEN late ELSE none
    BY <1>3 DEF LastLeaseGone
  <2> QED
    BY <1>1, <1>3, <2>1 DEF Gm
<1> QED
  BY <1>2, <1>3

\* gm_set: either the state is shown, or the broadcast has taken the last lease with it.
LEMMA SetIs ==
    ASSUME NEW g \in Gm, NEW e \in Handling, NEW st \in States \ {"DISABLED"}
    PROVE  LET h == Set(g, e, st)
           IN  /\ h \in Gm /\ (Counted(g) => Counted(h)) /\ ShownOff(h)
               /\ h.phase = g.phase /\ h.tearing = g.tearing
               /\ h.staleCid = g.staleCid /\ h.staleFromOwner = g.staleFromOwner
               /\ h.ownerLost = g.ownerLost /\ h.enabled = g.enabled /\ h.loaded = g.loaded
               /\ \/ /\ h.state = Shown(g, st) /\ h.leases = g.leases /\ h.grace = g.grace
                     /\ h.retry = g.retry /\ h.parked = g.parked /\ h.failing = g.failing
                     /\ h.held = g.held
                  \/ /\ g.leases > 0 /\ h.leases = 0
                     /\ g.phase = "IDLE" =>
                            h.state \in {"OFF", "DISABLED"} /\ ~h.parked /\ ~h.failing
                     /\ g.phase # "IDLE" => h.parked = g.parked /\ h.failing = g.failing
                     /\ g.phase \in Engaged => h.grace
<1> DEFINE h == [g EXCEPT !.state = Shown(g, st)]
<1> DEFINE f == [h EXCEPT !.held = 0]
<1> DEFINE l == LastLeaseGone(f)
<1>1. Shown(g, st) \in States /\ (Shown(g, st) = "DISABLED" => ~g.enabled)
  BY DEF Shown, States
<1>2. /\ h \in Gm /\ h.state = Shown(g, st) /\ h.leases = g.leases /\ h.held = g.held
      /\ h.phase = g.phase /\ h.tearing = g.tearing /\ h.staleCid = g.staleCid
      /\ h.staleFromOwner = g.staleFromOwner /\ h.ownerLost = g.ownerLost
      /\ h.enabled = g.enabled /\ h.loaded = g.loaded /\ h.grace = g.grace
      /\ h.retry = g.retry /\ h.parked = g.parked /\ h.failing = g.failing
  BY <1>1 DEF Gm
<1>3. (Counted(g) => Counted(h)) /\ ShownOff(h)
  BY <1>1, <1>2 DEF Counted, ShownOff
<1>4. /\ f \in Gm /\ f.state = Shown(g, st) /\ f.held = 0
      /\ f.phase = g.phase /\ f.tearing = g.tearing /\ f.staleCid = g.staleCid
      /\ f.staleFromOwner = g.staleFromOwner /\ f.ownerLost = g.ownerLost
      /\ f.enabled = g.enabled /\ f.loaded = g.loaded
      /\ f.parked = g.parked /\ f.failing = g.failing
  BY <1>2, Zero DEF Gm
<1>5. Set(g, e, st) = IF e.drop = h.state /\ h.leases > 0 THEN l ELSE h
  BY DEF Set
<1> HIDE DEF h, f
<1>6. Shown(f, "OFF") \in {"OFF", "DISABLED"} /\ (Shown(f, "OFF") = "DISABLED" => ~g.enabled)
  BY <1>4 DEF Shown
<1>7. /\ l \in Gm /\ l.phase = g.phase /\ l.tearing = g.tearing
      /\ l.staleCid = g.staleCid /\ l.staleFromOwner = g.staleFromOwner
      /\ l.ownerLost = g.ownerLost /\ l.enabled = g.enabled /\ l.loaded = g.loaded
      /\ l.held = 0 /\ l.leases = 0
      /\ l.state = Shown(g, st) \/ l.state = Shown(f, "OFF")
      /\ g.phase = "IDLE" => l.state = Shown(f, "OFF") /\ ~l.parked /\ ~l.failing
      /\ g.phase # "IDLE" => l.parked = g.parked /\ l.failing = g.failing
      /\ g.phase \in Engaged => l.grace
  BY <1>4, LastLeaseGoneIs
<1> HIDE DEF l
<1>8. Counted(l) /\ ShownOff(l)
  BY <1>1, <1>6, <1>7 DEF Counted, ShownOff
<1>9. CASE e.drop = h.state /\ h.leases > 0
  BY <1>2, <1>5, <1>6, <1>7, <1>8, <1>9
<1>10. CASE ~(e.drop = h.state /\ h.leases > 0)
  BY <1>2, <1>3, <1>5, <1>10
<1> QED
  BY <1>9, <1>10

\* What gm_set leaves of a demand that is coming down, or coming up.
LEMMA SetControls ==
    ASSUME NEW g, NEW e \in Handling, NEW st \in States \ {"DISABLED"}
    PROVE  LET h == Set(g, e, st)
           IN  /\ Down(g) => Down(h) /\ h.phase = g.phase
               /\ Live(g) /\ g.phase \in Engaged => Live(h) /\ h.phase = g.phase
               /\ Control(g) /\ g.phase # "IDLE" => Control(h) /\ h.phase = g.phase
<1> DEFINE h == Set(g, e, st)
<1>1. ASSUME Ambient(g), g.phase # "IDLE" \/ ~g.parked
      PROVE  /\ Ambient(h) /\ h.phase = g.phase /\ h.tearing = g.tearing
             /\ h.staleCid = g.staleCid /\ h.staleFromOwner = g.staleFromOwner
             /\ h.enabled = g.enabled
             /\ h.failing => g.failing
             /\ h.parked => g.parked
             /\ g.phase \in Engaged => h.grace \/ (h.leases = g.leases /\ h.grace = g.grace)
  BY <1>1, SetIs DEF Ambient, FailsLate
<1> HIDE DEF h
<1>2. Down(g) => Down(h) /\ h.phase = g.phase
  BY <1>1 DEF Down
<1>3. Live(g) /\ g.phase \in Engaged => Live(h) /\ h.phase = g.phase
  <2>1. Live(g) => Down(g) /\ Down(h)
    BY <1>2 DEF Live
  <2> QED
    BY <1>1, <2>1 DEF Live, Down
<1>4. Control(g) /\ g.phase # "IDLE" => Control(h) /\ h.phase = g.phase
  <2> SUFFICES ASSUME Control(g), g.phase # "IDLE" PROVE Control(h) /\ h.phase = g.phase
    OBVIOUS
  <2>1. Ambient(g) /\ ~g.parked
    BY DEF Control, Ambient, Reasoned
  <2>2. Reasoned(h)
    BY <1>1, <2>1 DEF Control, Reasoned
  <2> QED
    BY <1>1, <2>1, <2>2 DEF Control, Ambient
<1> QED
  BY <1>2, <1>3, <1>4 DEF h

-----------------------------------------------------------------------------
(* Bring-up and teardown.                                                   *)

\* gm_bringup, with a lease: a clean demand in OWNER.
LEMMA BringupControl ==
    ASSUME NEW g \in Gm, NEW e \in Handling, g.leases > 0, Counted(g), ~g.parked,
           g.staleFromOwner => g.staleCid = NoCid
    PROVE  Control(Bringup(g, e)) /\ Served(Bringup(g, e)) /\ Bringup(g, e).phase = "OWNER"
<1> DEFINE f == Phase(g, "OWNER")
<1> DEFINE k == [f EXCEPT !.failing = FALSE, !.failFast = FALSE, !.ownerLost = FALSE]
<1> DEFINE h == [f EXCEPT !.failing = FALSE, !.failFast = FALSE, !.ownerLost = FALSE,
                          !.healthy = FALSE, !.retry = FALSE, !.startAt = TRUE]
<1>1. f \in Gm /\ SameDemand(g, f) /\ f.staleCid = g.staleCid /\ f.phase = "OWNER"
  BY PhaseDemand DEF Phases
<1> HIDE DEF f
<1>2. h \in Gm
  <2>1. k \in Gm
    BY <1>1 DEF Gm
  <2>2. h = [k EXCEPT !.healthy = FALSE, !.retry = FALSE, !.startAt = TRUE]
    BY <1>1 DEF Gm
  <2> HIDE DEF k, h
  <2>3. [k EXCEPT !.healthy = FALSE, !.retry = FALSE, !.startAt = TRUE] \in Gm
    BY <2>1 DEF Gm
  <2> QED
    BY <2>2, <2>3
<1>3. /\ h.held = f.held /\ h.leases = f.leases /\ h.enabled = f.enabled /\ h.loaded = f.loaded
      /\ h.grace = f.grace /\ h.parked = f.parked /\ h.staleFromOwner = f.staleFromOwner
      /\ h.staleCid = f.staleCid /\ h.phase = f.phase /\ h.failing = FALSE
  BY <1>1 DEF Gm
<1>4. Bringup(g, e) = Set(h, e, "STARTING")
  BY DEF Bringup, f
<1> HIDE DEF h
<1> DEFINE end == Set(h, e, "STARTING")
<1>5. Counted(h) /\ h.leases > 0 /\ h.enabled /\ h.phase = "OWNER" /\ ~h.parked
  <2>1. h.leases = g.leases /\ h.enabled = g.enabled /\ h.loaded = g.loaded /\ h.held = g.held
        /\ h.parked = g.parked /\ h.phase = "OWNER"
    BY <1>1, <1>3 DEF SameDemand
  <2>2. g.enabled
    BY DEF Counted
  <2> QED
    BY <2>1, <2>2 DEF Counted
<1>6. /\ end \in Gm /\ Counted(end) /\ ShownOff(end) /\ end.phase = "OWNER"
      /\ end.staleCid = g.staleCid /\ end.staleFromOwner = g.staleFromOwner
      /\ end.enabled /\ ~end.failing /\ ~end.parked
      /\ end.grace \/ end.leases = h.leases
  BY <1>1, <1>2, <1>3, <1>5, SetIs DEF SameDemand, States, Engaged
<1> HIDE DEF end
<1>7. Live(end)
  BY <1>5, <1>6 DEF Live, Down, Ambient, FailsLate
<1> QED
  BY <1>4, <1>6, <1>7, LiveIsControl DEF end, Engaged

\* gm_set to FAILED or OFF, the last thing that is done at rest.
LEMMA RestControl ==
    ASSUME NEW g, NEW e \in Handling, NEW st \in {"FAILED", "OFF"},
           g \in Gm, Counted(g), FailsLate(g), g.phase = "IDLE",
           g.staleFromOwner => g.staleCid = NoCid,
           g.parked => st = "FAILED" /\ ~g.ownerLost /\ g.staleCid = NoCid
    PROVE  /\ Control(Set(g, e, st)) /\ Set(g, e, st).phase = "IDLE"
           /\ (IF st = "OFF" THEN g.leases = 0 ELSE g.ownerLost \/ g.retry \/ g.parked) =>
                    Served(Set(g, e, st))
<1> DEFINE h == Set(g, e, st)
<1>1. /\ h \in Gm /\ Counted(h) /\ ShownOff(h) /\ h.phase = "IDLE"
      /\ h.staleCid = g.staleCid /\ h.staleFromOwner = g.staleFromOwner
      /\ h.ownerLost = g.ownerLost
      /\ \/ /\ h.state = Shown(g, st) /\ h.leases = g.leases
            /\ h.retry = g.retry /\ h.parked = g.parked /\ h.failing = g.failing
         \/ /\ h.leases = 0 /\ h.state \in {"OFF", "DISABLED"} /\ ~h.parked /\ ~h.failing
  BY SetIs DEF States
<1>2. Shown(g, st) = IF st = "OFF" THEN Shown(g, "OFF") ELSE "FAILED"
  BY DEF Shown
<1>3. Shown(g, "OFF") \in {"OFF", "DISABLED"}
  BY DEF Shown
<1> HIDE DEF h
<1>4. FailsLate(h)
  BY <1>1 DEF FailsLate
<1>5. Reasoned(h)
  BY <1>1, <1>2 DEF Reasoned, Engaged, BringUpSteps, StalePhases
<1>6. (IF st = "OFF" THEN g.leases = 0 ELSE g.ownerLost \/ g.retry \/ g.parked) => Served(h)
  BY <1>1, <1>2, <1>3 DEF Served
<1>7. Control(h)
  BY <1>1, <1>4, <1>5 DEF Control, Engaged, BringUpSteps
<1> QED
  BY <1>1, <1>6, <1>7 DEF h


\* The failed half of gm_finish: the owner is waited for, or it is parked, or retried.
LEMMA FinishFailedControl ==
    ASSUME NEW g, NEW e \in Handling,
           g \in Gm, Counted(g), FailsLate(g), g.phase = "IDLE", ~g.parked, g.failing,
           g.staleFromOwner => g.staleCid = NoCid
    PROVE  Settled(FinishFailed(g, e))
<1> DEFINE streak == IF g.failFast THEN g.streak + 1 ELSE 0
<1> DEFINE p == [g EXCEPT !.streak = streak, !.parked = TRUE]
<1> DEFINE r == [g EXCEPT !.streak = streak, !.retry = TRUE]
<1>1. streak \in Nat
  BY DEF Gm
<1> HIDE DEF streak
<1>2. p \in Gm /\ r \in Gm
  BY <1>1, ZenonT(60) DEF Gm
<1>3. /\ p.held = g.held /\ p.leases = g.leases /\ p.enabled = g.enabled /\ p.loaded = g.loaded
      /\ p.phase = g.phase /\ p.failing = g.failing /\ p.ownerLost = g.ownerLost
      /\ p.staleCid = g.staleCid /\ p.staleFromOwner = g.staleFromOwner /\ p.parked = TRUE
  BY DEF Gm
<1>4. /\ r.held = g.held /\ r.leases = g.leases /\ r.enabled = g.enabled /\ r.loaded = g.loaded
      /\ r.phase = g.phase /\ r.failing = g.failing /\ r.ownerLost = g.ownerLost
      /\ r.staleCid = g.staleCid /\ r.staleFromOwner = g.staleFromOwner
      /\ r.parked = g.parked /\ r.retry = TRUE
  BY DEF Gm
<1>5. FinishFailed(g, e) = CASE g.ownerLost -> Set(g, e, "FAILED")
                             [] ~g.ownerLost /\ streak >= MaxFast -> Set(p, e, "FAILED")
                             [] OTHER -> Set(r, e, "FAILED")
  BY DEF FinishFailed, streak
<1> HIDE DEF p, r
<1>6. CASE g.ownerLost
  BY <1>5, <1>6, RestControl DEF Settled
<1>7. CASE ~g.ownerLost
  <2>1. Counted(p) /\ FailsLate(p) /\ p.staleCid = NoCid
    BY <1>3, <1>7 DEF Counted, FailsLate
  <2>2. Settled(Set(p, e, "FAILED"))
    BY <1>2, <1>3, <1>7, <2>1, RestControl DEF Settled
  <2>3. Counted(r) /\ FailsLate(r)
    BY <1>4 DEF Counted, FailsLate
  <2>4. Settled(Set(r, e, "FAILED"))
    BY <1>2, <1>4, <2>3, RestControl DEF Settled
  <2> QED
    BY <1>5, <1>7, <2>2, <2>4
<1> QED
  BY <1>6, <1>7

\* gm_finish, everything down: up again for a lease, or a failure that has a way on, or OFF.
LEMMA FinishControl ==
    ASSUME NEW g, NEW e \in Handling, Down(g)
    PROVE  Settled(Finish(g, e))
<1> DEFINE f == Phase(g, "IDLE")
<1> DEFINE h == [f EXCEPT !.session = FALSE, !.startAt = FALSE, !.tearing = FALSE]
<1> DEFINE k == [h EXCEPT !.streak = 0, !.failing = FALSE]
<1>1. f \in Gm /\ Down(f) /\ f.phase = "IDLE"
  BY PhaseDemand, DemandKeeps DEF Down, Ambient, Phases
<1>2. Finish(g, e) = CASE h.leases > 0 /\ ~h.failing -> Bringup(h, e)
                       [] h.leases > 0 /\ h.failing -> FinishFailed(h, e)
                       [] h.leases = 0 /\ ~h.failing -> Set(h, e, "OFF")
                       [] OTHER -> Set(k, e, "OFF")
  BY DEF Finish
<1> HIDE DEF f
<1>3. h \in Gm
  BY <1>1, ZenonT(60) DEF Gm
<1>4. SameDemand(f, h) /\ h.staleCid = f.staleCid /\ h.phase = f.phase
  BY <1>1 DEF Gm, SameDemand
<1> HIDE DEF h
<1>5. Down(h) /\ h.phase = "IDLE"
  BY <1>1, <1>3, <1>4, DemandKeeps
<1>6. k \in Gm
  BY <1>3, Zero, ZenonT(60) DEF Gm
<1>7. /\ k.held = h.held /\ k.leases = h.leases /\ k.enabled = h.enabled /\ k.loaded = h.loaded
      /\ k.phase = h.phase /\ k.failing = FALSE /\ k.parked = h.parked
      /\ k.staleCid = h.staleCid /\ k.staleFromOwner = h.staleFromOwner
  BY <1>3 DEF Gm
<1> HIDE DEF k
<1>8. h.leases \in Nat /\ h.failing \in BOOLEAN
  BY <1>3, BoundsAssumption DEF Gm
<1>9. CASE h.leases > 0 /\ ~h.failing
  BY <1>2, <1>3, <1>5, <1>9, BringupControl DEF Down, Ambient, Settled
<1>10. CASE h.leases > 0 /\ h.failing
  BY <1>2, <1>3, <1>5, <1>10, FinishFailedControl DEF Down, Ambient
<1>11. CASE h.leases = 0 /\ ~h.failing
  <2>1. Finish(g, e) = Set(h, e, "OFF")
    BY <1>2, <1>11
  <2> QED
    BY <1>3, <1>5, <1>11, <2>1, RestControl DEF Down, Ambient, Settled
<1>12. CASE h.leases = 0 /\ h.failing
  <2>1. Finish(g, e) = Set(k, e, "OFF")
    BY <1>2, <1>12
  <2>2. Counted(k) /\ FailsLate(k)
    BY <1>5, <1>7 DEF Down, Ambient, Counted, FailsLate
  <2> QED
    BY <1>5, <1>6, <1>7, <1>12, <2>1, <2>2, RestControl DEF Down, Settled
<1> QED
  BY <1>8, <1>9, <1>10, <1>11, <1>12

\* gm_stop_gpsd.
LEMMA StopGpsdControl ==
    ASSUME NEW g, NEW e \in Handling, Down(g)
    PROVE  Settled(StopGpsd(g, e))
<1>1. Down(Phase(g, "STOP_GPSD")) /\ Phase(g, "STOP_GPSD").phase = "STOP_GPSD"
  BY PhaseDemand, DemandKeeps DEF Down, Ambient, Phases
<1>2. Settled(Phase(g, "STOP_GPSD"))
  BY <1>1, DownIsControl DEF Settled
<1>3. Settled(Finish(Phase(g, "STOP_GPSD"), e))
  BY <1>1, FinishControl
<1> QED
  BY <1>2, <1>3 DEF StopGpsd

\* The release has ended, and with it the client id.
LEMMA ReleaseDoneControl ==
    ASSUME NEW g, NEW e \in Handling, NEW ok \in BOOLEAN, Down(g)
    PROVE  Settled(ReleaseDone(g, e, ok))
<1> DEFINE f == IF ok THEN g ELSE Leak(g)
<1>1. Down(f)
  BY LeakDemand, DemandKeeps DEF Down, Ambient, Holds
<1> HIDE DEF f
<1>2. Down(DropCid(f))
  BY <1>1, DropCidDemand, DemandKeeps DEF Down, Ambient
<1>3. Settled(StopGpsd(DropCid(f), e))
  BY <1>2, StopGpsdControl
<1> QED
  BY <1>3 DEF ReleaseDone, f

\* The release of the client id, which may not fork.
LEMMA ReleaseControl ==
    ASSUME NEW g, NEW e \in Handling, Down(g)
    PROVE  Settled(Release(g, e))
<1> DEFINE h == StepStarts(g, "RELEASE")
<1>1. Down(h) /\ h.phase = "RELEASE"
  BY StepStartsDemand, DemandKeeps DEF Down, Ambient, StepPhases
<1> HIDE DEF h
<1>2. Settled(h)
  BY <1>1, DownIsControl DEF Settled
<1>3. Down(StepEnds(h))
  BY <1>1, StepEndsDemand, DemandKeeps DEF Down, Ambient
<1>4. Settled(ReleaseDone(StepEnds(h), e, FALSE))
  BY <1>3, ReleaseDoneControl
<1> QED
  BY <1>2, <1>4 DEF Release, h

\* loc-stop has ended.
LEMMA LocStopDoneControl ==
    ASSUME NEW g, NEW e \in Handling, Down(g)
    PROVE  Settled(LocStopDone(g, e))
<1> DEFINE f == [g EXCEPT !.session = FALSE]
<1>1. g \in Gm
  BY DEF Down, Ambient
<1>2. f \in Gm /\ SameDemand(g, f) /\ f.staleCid = g.staleCid
  BY <1>1 DEF Gm, SameDemand
<1> HIDE DEF f
<1>3. Settled(Release(f, e))
  BY <1>2, DemandKeeps, ReleaseControl
<1> QED
  BY <1>3 DEF LocStopDone, f

\* loc-stop, which may not fork.
LEMMA LocStopControl ==
    ASSUME NEW g, NEW e \in Handling, Down(g)
    PROVE  Settled(LocStop(g, e))
<1> DEFINE h == StepStarts(g, "LOCSTOP")
<1>1. Down(h) /\ h.phase = "LOCSTOP"
  BY StepStartsDemand, DemandKeeps DEF Down, Ambient, StepPhases
<1> HIDE DEF h
<1>2. Settled(h)
  BY <1>1, DownIsControl DEF Settled
<1>3. Down(StepEnds(h))
  BY <1>1, StepEndsDemand, DemandKeeps DEF Down, Ambient
<1>4. Settled(LocStopDone(StepEnds(h), e))
  BY <1>3, LocStopDoneControl
<1> QED
  BY <1>2, <1>4 DEF LocStop, h

\* gm_after_pipe, whatever is left to let go.
LEMMA AfterPipeControl ==
    ASSUME NEW g, NEW e \in Handling, Down(g)
    PROVE  Settled(AfterPipe(g, e))
<1> DEFINE h == IF g.cid # NoCid /\ ~e.bridge THEN DropCid(g) ELSE g
<1>1. Down(h)
  BY DropCidDemand, DemandKeeps DEF Down, Ambient
<1> HIDE DEF h
<1>2. Settled(LocStop(h, e)) /\ Settled(Release(h, e)) /\ Settled(StopGpsd(h, e))
  BY <1>1, LocStopControl, ReleaseControl, StopGpsdControl
<1>3. AfterPipe(g, e) = CASE h.cid # NoCid /\ h.session -> LocStop(h, e)
                          [] h.cid # NoCid /\ ~h.session -> Release(h, e)
                          [] OTHER -> StopGpsd(h, e)
  BY DEF AfterPipe, h
<1> QED
  BY <1>2, <1>3

\* gm_teardown of what comes up or is up; in any other phase it ends the grace period.
LEMMA TeardownControl ==
    ASSUME NEW g, NEW e \in Handling, g \in Gm, g.phase \in Engaged => Down(g)
    PROVE  /\ g.phase \in Engaged => Settled(Teardown(g, e))
           /\ g.phase \notin Engaged => Teardown(g, e) = [g EXCEPT !.grace = FALSE]
<1> DEFINE h == [g EXCEPT !.grace = FALSE]
<1> DEFINE s == Set(h, e, "STOPPING")
<1> DEFINE pipe == Phase(s, "STOP_PIPE")
<1> DEFINE k == [h EXCEPT !.tearing = TRUE]
<1> DEFINE end == Teardown(g, e)
<1>1. /\ h \in Gm /\ h.phase = g.phase /\ h.state = g.state /\ h.held = g.held
      /\ h.leases = g.leases /\ h.enabled = g.enabled /\ h.loaded = g.loaded
      /\ h.failing = g.failing /\ h.ownerLost = g.ownerLost /\ h.parked = g.parked
      /\ h.staleCid = g.staleCid /\ h.staleFromOwner = g.staleFromOwner
  BY DEF Gm
<1>2. end = CASE h.phase = "OWNER" -> Finish(s, e)
              [] h.phase \in BringUpSteps -> Set(k, e, "STOPPING")
              [] h.phase = "UP" -> IF pipe.alive \cap Pipeline = {} THEN AfterPipe(pipe, e) ELSE pipe
              [] OTHER -> h
  BY DEF Teardown
<1>3. CASE g.phase \notin Engaged
  BY <1>1, <1>2, <1>3 DEF Engaged, BringUpSteps
<1> HIDE DEF h
<1>4. CASE g.phase \in Engaged
  <2>1. Down(h)
    BY <1>1, <1>4 DEF Down, Ambient, Counted, ShownOff, FailsLate
  <2>2. Down(s) /\ s \in Gm
    BY <2>1, SetControls DEF States, Down, Ambient
  <2>3. Down(pipe) /\ pipe.phase = "STOP_PIPE"
    <3> HIDE DEF s
    <3> QED
      BY <2>2, PhaseDemand, DemandKeeps DEF Phases
  <2>4. CASE h.phase = "OWNER"
    <3>1. end = Finish(s, e)
      <4> HIDE DEF s, pipe, k
      <4> QED
        BY <1>2, <2>4 DEF BringUpSteps
    <3> HIDE DEF s, end
    <3>2. Settled(end)
      BY <2>2, <3>1, FinishControl
    <3> QED
      BY <1>1, <1>4, <3>2 DEF end
  <2>5. CASE h.phase \in BringUpSteps
    <3>1. k \in Gm /\ SameDemand(h, k) /\ k.staleCid = h.staleCid /\ k.phase = h.phase /\ k.tearing = TRUE
      BY <1>1 DEF Gm, SameDemand
    <3> HIDE DEF k
    <3>2. Down(k)
      BY <2>1, <3>1, DemandKeeps
    <3> DEFINE z == Set(k, e, "STOPPING")
    <3>3. Down(z) /\ z.phase = h.phase /\ z.tearing = TRUE
      BY <3>1, <3>2, SetControls, SetIs DEF States, Down, Ambient
    <3>4. end = z
      BY <1>2, <2>5 DEF BringUpSteps
    <3> HIDE DEF z
    <3>5. Control(z) /\ Served(z)
      <4>1. z.phase \in BringUpSteps /\ z.phase # "IDLE" /\ z.phase \notin StalePhases /\ z.tearing
        BY <2>5, <3>3 DEF BringUpSteps, StalePhases
      <4>2. Reasoned(z)
        BY <3>3, <4>1 DEF Down, Reasoned
      <4> QED
        BY <3>3, <4>1, <4>2 DEF Down, Ambient, Control, Served
    <3> QED
      BY <1>1, <1>4, <3>4, <3>5 DEF Settled
  <2>6. CASE h.phase = "UP"
    <3> HIDE DEF pipe, s, k
    <3>1. Settled(pipe) /\ Settled(AfterPipe(pipe, e))
      BY <2>3, DownIsControl, AfterPipeControl DEF Settled
    <3>2. end \in {pipe, AfterPipe(pipe, e)}
      BY <1>2, <2>6 DEF BringUpSteps
    <3> QED
      BY <1>1, <1>4, <3>1, <3>2
  <2> QED
    BY <1>1, <1>4, <2>4, <2>5, <2>6 DEF Engaged
<1> QED
  BY <1>3, <1>4

\* gm_fail of what is not failing already: the first failure takes everything down.
LEMMA FailControl ==
    ASSUME NEW g, NEW e \in Handling, NEW lost \in BOOLEAN, Down(g), ~g.failing,
           g.phase \in Engaged, lost \/ g.staleCid = NoCid
    PROVE  Settled(Fail(g, e, lost))
<1> DEFINE fast == ~g.healthy
<1> DEFINE h == [g EXCEPT !.failing = TRUE, !.ownerLost = lost, !.failFast = fast]
<1>1. g \in Gm /\ fast \in BOOLEAN
  BY DEF Down, Ambient
<1>2. Fail(g, e, lost) = Teardown(h, e)
  BY DEF Fail
<1> HIDE DEF fast
<1>3. h \in Gm
  BY <1>1, ZenonT(60) DEF Gm
<1>4. /\ h.phase = g.phase /\ h.state = g.state /\ h.held = g.held
      /\ h.leases = g.leases /\ h.enabled = g.enabled /\ h.loaded = g.loaded
      /\ h.failing = TRUE /\ h.ownerLost = lost /\ h.parked = g.parked
      /\ h.staleCid = g.staleCid /\ h.staleFromOwner = g.staleFromOwner
  BY <1>1 DEF Gm
<1> HIDE DEF h
<1>5. Down(h)
  BY <1>3, <1>4 DEF Down, Ambient, Counted, ShownOff, FailsLate
<1> QED
  BY <1>2, <1>3, <1>4, <1>5, TeardownControl

-----------------------------------------------------------------------------
(* Steps and their results.                                                 *)

\* A bring-up step failed.
LEMMA SetupFailedControl ==
    ASSUME NEW g, NEW e \in Handling, Down(g), ~g.failing, g.staleCid = NoCid
    PROVE  Settled(SetupFailed(g, e))
<1> DEFINE h == Phase(g, "UP")
<1>1. Down(h) /\ ~h.failing /\ h.staleCid = NoCid /\ h.phase = "UP"
  BY PhaseDemand, DemandKeeps DEF Down, Ambient, Phases, SameDemand
<1> HIDE DEF h
<1>2. Settled(Fail(h, e, FALSE))
  BY <1>1, FailControl DEF Engaged
<1> QED
  BY <1>2 DEF SetupFailed, h

\* A bring-up step starts, or could not be forked.
LEMMA SetupControl ==
    ASSUME NEW g, NEW e \in Handling, NEW ph \in BringUpSteps, Live(g), g.staleCid = NoCid
    PROVE  Settled(Setup(g, e, ph))
<1> DEFINE h == StepStarts(g, ph)
<1>1. Live(h) /\ h.phase = ph /\ h.staleCid = NoCid /\ h \in Gm
  BY StepStartsDemand, DemandKeeps DEF Live, Down, Ambient, StepPhases, BringUpSteps
<1> HIDE DEF h
<1>2. Settled(h)
  BY <1>1, LiveIsControl DEF Settled, Engaged
<1>3. Live(StepEnds(h)) /\ StepEnds(h).staleCid = NoCid
  BY <1>1, StepEndsDemand, DemandKeeps
<1>4. Settled(SetupFailed(StepEnds(h), e))
  BY <1>3, SetupFailedControl DEF Live
<1> QED
  BY <1>2, <1>4 DEF Setup, h

\* loc-start has returned: UP with the children, or a fork that fails takes it down.
LEMMA SpawnPipelineControl ==
    ASSUME NEW g, NEW e \in Handling, Live(g), g.staleCid = NoCid
    PROVE  Settled(SpawnPipeline(g, e))
<1> DEFINE up == Phase(g, "UP")
<1> DEFINE with(kids) == [up EXCEPT !.alive = @ \cup kids]
<1> DEFINE Piped(f) == Live(f) /\ f.staleCid = NoCid /\ f.phase = "UP"
<1>1. up \in Gm /\ Piped(up)
  BY PhaseDemand, DemandKeeps DEF Live, Down, Ambient, Phases
<1>2. SpawnPipeline(g, e) \in {Fail(up, e, FALSE), Fail(with({"gpsd"}), e, FALSE),
                               Fail(with({"gpsd", "broker"}), e, FALSE),
                               Set(with({"gpsd", "broker", "follow"}), e, "ACQUIRING")}
  BY DEF SpawnPipeline
<1> HIDE DEF up
<1>3. ASSUME NEW kids \in SUBSET {"gpsd", "broker", "follow"}
      PROVE  Piped(with(kids))
  <2>1. up.alive \cup kids \in SUBSET Children
    BY <1>1 DEF Gm, Children, Pipeline
  <2>2. with(kids) \in Gm /\ SameDemand(up, with(kids)) /\ with(kids).phase = up.phase
        /\ with(kids).staleCid = up.staleCid
    BY <1>1, <2>1 DEF Gm, SameDemand
  <2> HIDE DEF with
  <2> QED
    BY <1>1, <2>2, DemandKeeps
<1>4. /\ Piped(with({"gpsd"})) /\ Piped(with({"gpsd", "broker"}))
      /\ Piped(with({"gpsd", "broker", "follow"}))
  <2>1. /\ {"gpsd"} \in SUBSET {"gpsd", "broker", "follow"}
        /\ {"gpsd", "broker"} \in SUBSET {"gpsd", "broker", "follow"}
        /\ {"gpsd", "broker", "follow"} \in SUBSET {"gpsd", "broker", "follow"}
    OBVIOUS
  <2> HIDE DEF with, Piped
  <2> QED
    BY <1>3, <2>1
<1> HIDE DEF with
<1> DEFINE end == SpawnPipeline(g, e)
<1>5. PICK f \in {up, with({"gpsd"}), with({"gpsd", "broker"}), with({"gpsd", "broker", "follow"})} :
            end = Fail(f, e, FALSE) \/ end = Set(f, e, "ACQUIRING")
  BY <1>2
<1> HIDE DEF end
<1>6. Piped(f)
  <2> HIDE DEF Piped
  <2> QED
    BY <1>1, <1>4, <1>5
<1>7. CASE end = Fail(f, e, FALSE)
  BY <1>6, <1>7, FailControl DEF Live, Engaged, end
<1>8. CASE end = Set(f, e, "ACQUIRING")
  <2>1. Live(Set(f, e, "ACQUIRING")) /\ Set(f, e, "ACQUIRING").phase = "UP"
    BY <1>6, SetControls DEF States, Engaged
  <2> QED
    BY <1>8, <2>1, LiveIsControl DEF Settled, Engaged, end
<1> QED
  BY <1>5, <1>7, <1>8

\* A bring-up step has ended: on with the next, or down when it failed or was to come down.
LEMMA SetupDoneControl ==
    ASSUME NEW g, NEW e \in Handling, NEW ok \in BOOLEAN, Control(g), g.phase \in BringUpSteps,
           g.staleCid = NoCid
    PROVE  Settled(SetupDone(g, e, ok))
<1>1. Down(g) /\ g \in Gm
  BY DEF Control, Down, Ambient, Reasoned, BringUpSteps
<1>2. CASE g.tearing
  <2> DEFINE f == [g EXCEPT !.tearing = FALSE]
  <2> DEFINE h == Phase(f, "UP")
  <2>1. f \in Gm /\ SameDemand(g, f) /\ f.staleCid = g.staleCid
    BY <1>1 DEF Gm, SameDemand
  <2> HIDE DEF f
  <2>2. Down(f)
    BY <1>1, <2>1, DemandKeeps
  <2>3. Down(h)
    BY <2>1, <2>2, PhaseDemand, DemandKeeps DEF Phases
  <2>4. SetupDone(g, e, ok) = AfterPipe(h, e)
    BY <1>2 DEF SetupDone, f
  <2> QED
    BY <2>3, <2>4, AfterPipeControl
<1>3. CASE ~g.tearing
  <2> DEFINE s == Set(g, e, "STARTING")
  <2> DEFINE k == [s EXCEPT !.session = TRUE]
  <2>1. Live(g) /\ g.phase \in Engaged
    BY <1>1, <1>3 DEF Control, Reasoned, Live, Engaged
  <2>2. Live(s) /\ s.staleCid = NoCid /\ s \in Gm
    BY <1>1, <2>1, SetControls, SetIs DEF States, Live, Down, Ambient
  <2> HIDE DEF s
  <2>3. k \in Gm /\ SameDemand(s, k) /\ k.staleCid = s.staleCid
    BY <2>2 DEF Gm, SameDemand
  <2> HIDE DEF k
  <2>4. Live(k)
    BY <2>2, <2>3, DemandKeeps
  <2>5. /\ Settled(SetupFailed(g, e)) /\ Settled(SpawnPipeline(g, e))
        /\ Settled(Setup(s, e, "NMEA")) /\ Settled(Setup(k, e, "START"))
    BY <2>1, <2>2, <2>3, <2>4, SetupFailedControl, SpawnPipelineControl, SetupControl
       DEF Live, BringUpSteps
  <2>6. SetupDone(g, e, ok) \in {SetupFailed(g, e), Setup(s, e, "NMEA"), Setup(k, e, "START"),
                                 SpawnPipeline(g, e)}
    BY <1>3 DEF SetupDone, LocStart, s, k
  <2> QED
    BY <2>5, <2>6
<1> QED
  BY <1>1, <1>2, <1>3 DEF Gm

\* gm_stale_done: on with what was wanted meanwhile, from OWNER or from rest.
LEMMA StaleDoneControl ==
    ASSUME NEW g, NEW e \in Handling, Stale(g)
    PROVE  Settled(StaleDone(g, e))
<1> DEFINE f == [g EXCEPT !.staleCid = NoCid]
<1> DEFINE h == Save(f)
<1> DEFINE own == Phase(h, "OWNER")
<1> DEFINE idle == Phase(h, "IDLE")
<1>1. g \in Gm
  BY DEF Stale, Ambient
<1>2. f \in Gm /\ SameDemand(g, f) /\ f.staleCid = NoCid
  BY <1>1, Zero DEF Gm, SameDemand
<1> HIDE DEF f
<1>3. h \in Gm /\ SameDemand(f, h) /\ h.staleCid = NoCid
  BY <1>2, SaveDemand
<1>4. StaleDone(g, e) = CASE h.leases > 0 /\ h.staleFromOwner -> Set(own, e, "STARTING")
                          [] h.leases > 0 /\ ~h.staleFromOwner -> Bringup(h, e)
                          [] OTHER -> Set(idle, e, "OFF")
  BY DEF StaleDone, f
<1> HIDE DEF h
<1>5. Stale(h) /\ Down(h)
  <2>1. Stale(h)
    BY <1>2, <1>3, DemandKeeps
  <2> QED
    BY <1>3, <2>1 DEF Stale, Down
<1>6. /\ own \in Gm /\ SameDemand(h, own) /\ own.staleCid = NoCid /\ own.phase = "OWNER"
      /\ idle \in Gm /\ SameDemand(h, idle) /\ idle.staleCid = NoCid /\ idle.phase = "IDLE"
  BY <1>3, PhaseDemand DEF Phases
<1> HIDE DEF own, idle
<1>7. h.leases \in Nat /\ h.staleFromOwner \in BOOLEAN
  BY <1>3, BoundsAssumption DEF Gm
<1>8. CASE h.leases > 0 /\ h.staleFromOwner
  <2>1. h.enabled
    BY <1>5, <1>8 DEF Down, Ambient, Counted
  <2>2. Live(h)
    BY <1>5, <1>8, <2>1 DEF Live, Stale
  <2>3. Live(own)
    BY <1>3, <1>6, <2>2, DemandKeeps
  <2>4. Live(Set(own, e, "STARTING")) /\ Set(own, e, "STARTING").phase = "OWNER"
    BY <1>6, <2>3, SetControls DEF States, Engaged
  <2> QED
    BY <1>4, <1>8, <2>4, LiveIsControl DEF Settled, Engaged
<1>9. CASE h.leases > 0 /\ ~h.staleFromOwner
  BY <1>3, <1>4, <1>5, <1>9, BringupControl DEF Down, Ambient, Settled
<1>10. CASE h.leases = 0
  <2>1. Down(idle) /\ idle.leases = 0
    BY <1>3, <1>5, <1>6, <1>10, DemandKeeps DEF SameDemand
  <2>2. StaleDone(g, e) = Set(idle, e, "OFF")
    BY <1>4, <1>10
  <2> QED
    BY <1>6, <2>1, <2>2, RestControl DEF Down, Ambient, Settled
<1> QED
  BY <1>7, <1>8, <1>9, <1>10

\* gm_stale_release, run or not.
LEMMA StaleReleaseControl ==
    ASSUME NEW g, NEW e \in Handling, Stale(g)
    PROVE  Settled(StaleRelease(g, e))
<1> DEFINE h == StepStarts(g, "STALE_RELEASE")
<1>1. Stale(h) /\ h.phase = "STALE_RELEASE" /\ h \in Gm
  BY StepStartsDemand, DemandKeeps DEF Stale, Ambient, StepPhases
<1> HIDE DEF h
<1>2. Settled(h)
  BY <1>1, StaleIsControl DEF Settled, StalePhases
<1>3. Stale(StepEnds(h)) /\ StepEnds(h) \in Gm
  BY <1>1, StepEndsDemand, DemandKeeps
<1>4. Stale(Leak(StepEnds(h)))
  BY <1>3, LeakDemand, DemandKeeps DEF Holds
<1>5. Settled(StaleDone(Leak(StepEnds(h)), e))
  BY <1>4, StaleDoneControl
<1> QED
  BY <1>2, <1>5 DEF StaleRelease, h

\* gm_stale_stop, run or not.
LEMMA StaleStopControl ==
    ASSUME NEW g, NEW e \in Handling, Stale(g)
    PROVE  Settled(StaleStop(g, e))
<1> DEFINE h == StepStarts(g, "STALE_STOP")
<1>1. Stale(h) /\ h.phase = "STALE_STOP" /\ h \in Gm
  BY StepStartsDemand, DemandKeeps DEF Stale, Ambient, StepPhases
<1> HIDE DEF h
<1>2. Settled(h)
  BY <1>1, StaleIsControl DEF Settled, StalePhases
<1>3. Stale(StepEnds(h))
  BY <1>1, StepEndsDemand, DemandKeeps
<1>4. Settled(StaleRelease(StepEnds(h), e))
  BY <1>3, StaleReleaseControl
<1> QED
  BY <1>2, <1>4 DEF StaleStop, h

\* gm_stale_check, from rest or from OWNER.
LEMMA StaleCheckControl ==
    ASSUME NEW g, NEW e \in Handling, Control(g), g.phase \in {"IDLE", "OWNER"},
           g.phase = "OWNER" => ~g.tearing, g.staleCid # NoCid
    PROVE  Settled(StaleCheck(g, e))
<1> DEFINE from == (g.phase = "OWNER")
<1> DEFINE f == [g EXCEPT !.staleFromOwner = from]
<1> DEFINE st == IF g.state = "OFF" THEN "OFF" ELSE "STARTING"
<1> DEFINE s == Set(f, e, st)
<1>1. from \in BOOLEAN /\ st \in States \ {"DISABLED"}
  BY DEF States
<1>2. StaleCheck(g, e) \in {StaleDone(g, e), StaleStop(s, e)}
  BY DEF StaleCheck
<1>3. g \in Gm /\ ~g.parked /\ ~g.staleFromOwner /\ (g.phase = "OWNER" => ~g.failing)
  BY DEF Control, Reasoned, StalePhases, Engaged
<1>4. Stale(g)
  BY <1>3 DEF Control, Stale, Ambient
<1>5. from => g.phase = "OWNER"
  OBVIOUS
<1> HIDE DEF from, st
<1>6. /\ f \in Gm /\ f.staleFromOwner = from /\ f.phase = g.phase /\ f.held = g.held
      /\ f.leases = g.leases /\ f.enabled = g.enabled /\ f.loaded = g.loaded
      /\ f.failing = g.failing /\ f.ownerLost = g.ownerLost /\ f.parked = g.parked
      /\ f.staleCid = g.staleCid
  BY <1>1, <1>3 DEF Gm
<1> HIDE DEF f
<1>7. Counted(f)
  BY <1>6 DEF Control, Counted
<1>8. /\ s \in Gm /\ Counted(s) /\ ShownOff(s) /\ s.staleFromOwner = from
      /\ s.ownerLost = g.ownerLost /\ s.staleCid = g.staleCid
      /\ (s.failing => g.failing) /\ (s.parked => g.parked)
  BY <1>1, <1>6, <1>7, SetIs
<1> HIDE DEF s
<1>9. Stale(s)
  BY <1>3, <1>4, <1>5, <1>8 DEF Stale, Ambient, FailsLate
<1> QED
  BY <1>2, <1>4, <1>9, StaleDoneControl, StaleStopControl

\* gm_step_done: whatever the step was and however it ended.
LEMMA StepDoneControl ==
    ASSUME NEW g, NEW e \in Handling, NEW ok \in BOOLEAN, NEW cid \in CidOrNone,
           Control(g), Sound(g), "step" \in g.alive
    PROVE  Settled(StepDone(g, e, ok, cid))
<1> DEFINE end == StepDone(g, e, ok, cid)
<1> DEFINE h == StepEnds(g)
<1> DEFINE f == [h EXCEPT !.cid = cid, !.cidOwner = h.ownerSeen]
<1>1. h \in Gm /\ SameDemand(g, h) /\ h.staleCid = g.staleCid /\ h.phase = g.phase
      /\ h.tearing = g.tearing
  BY StepEndsDemand, StepEndsIs DEF Control, SameOwned
<1>2. h.phase \in StepPhases /\ (h.phase \in BringUpSteps => h.staleCid = NoCid)
  BY <1>1 DEF Sound, StalePhases, BringUpSteps
<1>3. end =
        CASE h.phase = "STALE_STOP" -> StaleRelease(h, e)
          [] h.phase = "STALE_RELEASE" -> StaleDone(IF ok THEN h ELSE Leak(h), e)
          [] h.phase = "LOCSTOP" -> LocStopDone(h, e)
          [] h.phase = "RELEASE" -> ReleaseDone(h, e, ok)
          [] h.phase = "ALLOC" -> IF ok /\ cid # NoCid THEN SetupDone(Save(f), e, TRUE)
                                                       ELSE SetupDone(h, e, FALSE)
          [] h.phase \in {"NMEA", "START"} -> SetupDone(h, e, ok)
          [] OTHER -> h
  BY DEF StepDone
<1>4. Control(h)
  BY <1>1, SameIsControl
<1> HIDE DEF h, end
<1>5. CASE h.phase \in StalePhases
  <2>1. Stale(h)
    BY <1>4, <1>5 DEF Control, Reasoned, Stale, Ambient, StalePhases
  <2>2. Stale(Leak(h))
    BY <1>1, <2>1, LeakDemand, DemandKeeps DEF Holds
  <2>3. end \in {StaleRelease(h, e), StaleDone(h, e), StaleDone(Leak(h), e)}
    BY <1>3, <1>5 DEF StalePhases
  <2> QED
    BY <2>1, <2>2, <2>3, StaleReleaseControl, StaleDoneControl DEF end
<1>6. CASE h.phase \in {"LOCSTOP", "RELEASE"}
  <2>1. Down(h)
    BY <1>4, <1>6 DEF Control, Reasoned, Down, Ambient, StalePhases
  <2>2. end \in {LocStopDone(h, e), ReleaseDone(h, e, ok)}
    BY <1>3, <1>6
  <2> QED
    BY <2>1, <2>2, LocStopDoneControl, ReleaseDoneControl DEF end
<1>7. CASE h.phase \in BringUpSteps
  <2> DEFINE s == Save(f)
  <2>1. f \in Gm /\ SameDemand(h, f) /\ f.staleCid = h.staleCid /\ f.phase = h.phase
        /\ f.tearing = h.tearing
    BY <1>1 DEF Gm, SameDemand
  <2> HIDE DEF f
  <2>2. s \in Gm /\ SameDemand(f, s) /\ s.staleCid = f.staleCid /\ s.phase = f.phase
        /\ s.tearing = f.tearing
    BY <2>1, SaveDemand
  <2>3. Control(f) /\ Control(s)
    BY <1>4, <2>1, <2>2, SameIsControl
  <2>4. end \in {SetupDone(s, e, TRUE), SetupDone(h, e, FALSE), SetupDone(h, e, ok)}
    BY <1>3, <1>7 DEF BringUpSteps, f
  <2> HIDE DEF s
  <2>5. Settled(SetupDone(s, e, TRUE))
    BY <1>2, <1>7, <2>1, <2>2, <2>3, SetupDoneControl
  <2>6. Settled(SetupDone(h, e, FALSE)) /\ Settled(SetupDone(h, e, ok))
    BY <1>2, <1>4, <1>7, SetupDoneControl
  <2> QED
    BY <2>4, <2>5, <2>6 DEF end
<1> QED
  BY <1>2, <1>5, <1>6, <1>7 DEF StepPhases, StalePhases, BringUpSteps

\* gm_child_exited, for the follower, the broker and gpsd.
LEMMA ChildExitedControl ==
    ASSUME NEW g, NEW e \in Handling, NEW c \in Children \ {"step"}, Control(g), Sound(g),
           c \in g.alive
    PROVE  Settled(ChildExited(g, e, c))
<1> DEFINE h == [g EXCEPT !.alive = @ \ {c}]
<1> DEFINE end == ChildExited(g, e, c)
<1>1. h \in Gm /\ SameDemand(g, h) /\ h.staleCid = g.staleCid /\ h.phase = g.phase
      /\ h.tearing = g.tearing
  BY DEF Control, Gm, SameDemand
<1>2. end =
        CASE h.phase = "UP" -> Fail(h, e, FALSE)
          [] h.phase = "STOP_PIPE" /\ h.alive \cap Pipeline = {} -> AfterPipe(h, e)
          [] h.phase = "STOP_GPSD" /\ c = "gpsd" -> Finish(h, e)
          [] OTHER -> h
  BY DEF ChildExited
<1>3. Control(h)
  BY <1>1, SameIsControl
<1>4. /\ g.phase # "IDLE"
      /\ g.phase = "UP" => ~g.tearing /\ g.staleCid = NoCid
      /\ g.phase \in {"STOP_PIPE", "STOP_GPSD"} => g.staleCid = NoCid
  BY DEF Sound, BringUpSteps, StalePhases
<1> HIDE DEF h, end
<1>5. CASE h.phase = "UP"
  <2>1. Down(h) /\ ~h.failing /\ h.staleCid = NoCid
    BY <1>1, <1>3, <1>4, <1>5 DEF Control, Reasoned, Down, Ambient, Engaged
  <2> QED
    BY <1>2, <1>5, <2>1, FailControl DEF Engaged, end
<1>6. CASE h.phase \in {"STOP_PIPE", "STOP_GPSD"}
  <2>1. Down(h)
    BY <1>1, <1>3, <1>4, <1>6 DEF Control, Reasoned, Down, Ambient
  <2>2. Settled(h) /\ Settled(AfterPipe(h, e)) /\ Settled(Finish(h, e))
    BY <1>6, <2>1, DownIsControl, AfterPipeControl, FinishControl DEF Settled
  <2>3. end \in {h, AfterPipe(h, e), Finish(h, e)}
    BY <1>2, <1>6
  <2> QED
    BY <2>2, <2>3 DEF end
<1>7. CASE h.phase \notin {"UP", "STOP_PIPE", "STOP_GPSD"}
  <2>1. end = h
    BY <1>2, <1>7
  <2> QED
    BY <1>1, <1>3, <1>4, <2>1 DEF Settled, Served, end
<1> QED
  BY <1>5, <1>6, <1>7

-----------------------------------------------------------------------------
(* Leases, the switch, retry.                                               *)

\* What one handler does to the struct's control.
Controls(g, h, e) == Control(h) /\ (Served(g) /\ e.drop # "SWITCH" => Served(h))

\* The leases the struct should count.
Wanted(g) == IF g.enabled /\ g.loaded THEN g.held ELSE 0

\* gm_set_leases of what is wanted, when that is news.
LEMMA SetLeasesControl ==
    ASSUME NEW g, NEW e \in Handling, Loose(g), Wanted(g) # g.leases
    PROVE  LET h == SetLeases(g, e, Wanted(g))
           IN  /\ Loose(h) /\ Counted(h) /\ Obeys(h)
               /\ ShownOff(g) => ShownOff(h) /\ (Served(g) => Served(h))
<1> DEFINE n == Wanted(g)
<1> DEFINE h == [g EXCEPT !.leases = n]
<1> DEFINE kept == [h EXCEPT !.grace = FALSE]
<1> DEFINE end == SetLeases(g, e, n)
<1>1. g \in Gm /\ n \in 0 .. MaxHeld /\ g.leases \in Nat /\ n \in Nat
  BY Zero, BoundsAssumption DEF Loose, Gm, Wanted
<1>2. end =
        CASE n > 0 /\ g.leases = 0 /\ g.phase = "IDLE" /\ g.state = "OFF" -> Bringup(kept, e)
          [] n > 0 /\ ~(g.leases = 0 /\ g.phase = "IDLE" /\ g.state = "OFF") -> kept
          [] n = 0 /\ g.leases = 0 -> h
          [] n = 0 /\ g.leases > 0 /\ ~g.enabled /\ g.phase \in Engaged -> Teardown(h, e)
          [] OTHER -> LastLeaseGone(h)
  BY DEF SetLeases
<1>3. n = IF g.enabled /\ g.loaded THEN g.held ELSE 0
  BY DEF Wanted
<1> HIDE DEF n, end
<1>4. /\ h \in Gm /\ h.leases = n /\ h.held = g.held /\ h.enabled = g.enabled
      /\ h.loaded = g.loaded /\ h.phase = g.phase /\ h.state = g.state /\ h.tearing = g.tearing
      /\ h.failing = g.failing /\ h.ownerLost = g.ownerLost /\ h.parked = g.parked
      /\ h.staleCid = g.staleCid /\ h.staleFromOwner = g.staleFromOwner /\ h.retry = g.retry
  BY <1>1 DEF Gm
<1> HIDE DEF h
<1>5. /\ kept \in Gm /\ kept.leases = n /\ kept.held = g.held /\ kept.enabled = g.enabled
      /\ kept.loaded = g.loaded /\ kept.phase = g.phase /\ kept.state = g.state
      /\ kept.failing = g.failing /\ kept.ownerLost = g.ownerLost /\ kept.parked = g.parked
      /\ kept.staleCid = g.staleCid /\ kept.staleFromOwner = g.staleFromOwner
      /\ kept.retry = g.retry /\ kept.tearing = g.tearing
  BY <1>1, <1>4 DEF Gm
<1> HIDE DEF kept
<1>6. Counted(h) /\ Counted(kept) /\ FailsLate(h) /\ FailsLate(kept)
  BY <1>3, <1>4, <1>5 DEF Counted, Loose, FailsLate
<1> DEFINE rises == g.leases = 0 /\ g.phase = "IDLE" /\ g.state = "OFF"
<1>7. CASE n > 0 /\ rises
  <2>1. end = Bringup(kept, e)
    BY <1>2, <1>7
  <2>2. ~kept.parked /\ (kept.staleFromOwner => kept.staleCid = NoCid)
    BY <1>5, <1>7 DEF Loose, Reasoned, StalePhases
  <2>3. Control(end) /\ Served(end)
    BY <1>5, <1>6, <1>7, <2>1, <2>2, BringupControl
  <2> QED
    BY <2>3, ControlIs DEF end, n
<1>8. CASE n > 0 /\ ~rises
  <2>1. end = kept
    BY <1>2, <1>8
  <2>2. kept.enabled /\ kept.leases > 0
    BY <1>3, <1>5, <1>8
  <2>3. Reasoned(kept)
    BY <1>5, <2>2 DEF Loose, Reasoned
  <2>4. ShownOff(g) => ShownOff(kept)
    BY <1>5 DEF ShownOff
  <2>5. ShownOff(g) /\ Served(g) => Served(kept)
    BY <1>5, <1>8, <2>2 DEF ShownOff, Served
  <2> QED
    BY <1>5, <1>6, <2>1, <2>2, <2>3, <2>4, <2>5 DEF Loose, Obeys, end, n
<1>9. CASE n = 0 /\ ~g.enabled /\ g.phase \in Engaged
  <2>1. g.leases > 0 /\ ~(n > 0)
    BY <1>1, <1>9 DEF n
  <2>2. end = Teardown(h, e)
    BY <1>2, <1>9, <2>1
  <2>3. Down(h)
    BY <1>4, <1>6, <1>9 DEF Loose, Reasoned, Down, Ambient, ShownOff, Engaged, BringUpSteps, StalePhases
  <2>4. Control(end) /\ Served(end)
    BY <1>4, <1>9, <2>2, <2>3, TeardownControl DEF Settled
  <2> QED
    BY <2>4, ControlIs DEF end, n
<1>10. CASE n = 0 /\ ~(~g.enabled /\ g.phase \in Engaged)
  <2> DEFINE l == LastLeaseGone(h)
  <2>1. g.leases > 0 /\ ~(n > 0)
    BY <1>1, <1>10 DEF n
  <2>2. end = l
    BY <1>2, <1>10, <2>1
  <2>3. /\ l \in Gm /\ l.phase = g.phase /\ l.tearing = g.tearing
        /\ l.staleCid = g.staleCid /\ l.staleFromOwner = g.staleFromOwner
        /\ l.ownerLost = g.ownerLost /\ l.enabled = g.enabled /\ l.loaded = g.loaded
        /\ l.held = g.held /\ l.leases = 0
        /\ l.state = g.state \/ l.state = Shown(h, "OFF")
        /\ g.phase = "IDLE" => l.state = Shown(h, "OFF") /\ ~l.parked /\ ~l.failing
        /\ g.phase # "IDLE" => l.parked = g.parked /\ l.failing = g.failing
        /\ g.phase \in Engaged => l.grace
    BY <1>4, LastLeaseGoneIs
  <2>4. Shown(h, "OFF") \in {"OFF", "DISABLED"} /\ (Shown(h, "OFF") = "DISABLED" => ~g.enabled)
    BY <1>4 DEF Shown
  <2> HIDE DEF l
  <2>5. Counted(l) /\ FailsLate(l)
    BY <1>3, <1>10, <2>3 DEF Counted, Loose, FailsLate
  <2>6. Reasoned(l)
    BY <2>3 DEF Loose, Reasoned
  <2>7. Obeys(l)
    BY <1>10, <2>3 DEF Obeys
  <2>8. ShownOff(g) => ShownOff(l)
    BY <2>3, <2>4 DEF ShownOff
  <2>9. Served(l)
    BY <2>3, <2>4 DEF Served
  <2> QED
    BY <2>2, <2>3, <2>5, <2>6, <2>7, <2>8, <2>9 DEF Loose, end, n
<1>11. n = 0 \/ n > 0
  BY <1>1
<1> QED
  BY <1>7, <1>8, <1>9, <1>10, <1>11 DEF n

\* gm_server_sync: after it the count is right, and GNSS up with the switch off has its
\* grace period at most.
LEMMA SyncControl ==
    ASSUME NEW g, NEW e \in Handling, Loose(g)
    PROVE  LET h == Sync(g, e)
           IN  /\ Loose(h) /\ Counted(h) /\ (Obeys(h) \/ h.grace) /\ (Obeys(g) => Obeys(h))
               /\ ShownOff(g) => ShownOff(h) /\ (Served(g) => Served(h))
<1>1. Sync(g, e) = IF Wanted(g) # g.leases THEN SetLeases(g, e, Wanted(g)) ELSE g
  BY DEF Sync, Wanted
<1>2. CASE Wanted(g) = g.leases
  <2>1. Counted(g)
    BY <1>2 DEF Wanted, Counted
  <2>2. Obeys(g) \/ g.grace
    <3>1. ~g.enabled => ~(g.leases > 0)
      BY <2>1 DEF Counted
    <3> QED
      BY <3>1 DEF Loose, Reasoned, Obeys
  <2> QED
    BY <1>1, <1>2, <2>1, <2>2
<1>3. CASE Wanted(g) # g.leases
  BY <1>1, <1>3, SetLeasesControl
<1> QED
  BY <1>2, <1>3

\* The number of held leases has changed, and is synced.
LEMMA HeldControls ==
    ASSUME NEW g, NEW e \in Handling, NEW n \in 0 .. MaxHeld, Control(g)
    PROVE  Controls(g, Sync([g EXCEPT !.held = n], e), e)
<1> DEFINE f == [g EXCEPT !.held = n]
<1>1. g \in Gm
  BY DEF Control
<1>2. /\ f \in Gm /\ f.leases = g.leases /\ f.enabled = g.enabled /\ f.phase = g.phase
      /\ f.state = g.state /\ f.tearing = g.tearing /\ f.failing = g.failing
      /\ f.ownerLost = g.ownerLost /\ f.parked = g.parked /\ f.staleCid = g.staleCid
      /\ f.staleFromOwner = g.staleFromOwner /\ f.retry = g.retry /\ f.grace = g.grace
  BY <1>1 DEF Gm
<1> HIDE DEF f
<1>3. Loose(f)
  BY <1>2 DEF Control, Loose, FailsLate, Reasoned
<1>4. ShownOff(f) /\ Obeys(f) /\ (Served(g) => Served(f))
  BY <1>2 DEF Control, ShownOff, Obeys, Served
<1>5. Controls(g, Sync(f, e), e)
  BY <1>3, <1>4, SyncControl, ControlIs DEF Controls
<1> QED
  BY <1>5 DEF f

\* OFF is shown again once the switch is on, by a struct whose count has yet to follow.
LEMMA OffIsShown ==
    ASSUME NEW g, NEW e \in Handling, Loose(g), Obeys(g),
           g.state = "DISABLED" \/ (g.phase = "IDLE" /\ g.state = "OFF")
    PROVE  LET h == Set(g, e, "OFF")
           IN  Loose(h) /\ ShownOff(h) /\ Obeys(h) /\ (Served(g) => Served(h))
<1> DEFINE h == Set(g, e, "OFF")
<1>1. /\ h \in Gm /\ ShownOff(h) /\ h.phase = g.phase /\ h.tearing = g.tearing
      /\ h.staleCid = g.staleCid /\ h.staleFromOwner = g.staleFromOwner
      /\ h.ownerLost = g.ownerLost /\ h.enabled = g.enabled
      /\ \/ /\ h.state = Shown(g, "OFF") /\ h.leases = g.leases /\ h.grace = g.grace
            /\ h.parked = g.parked /\ h.failing = g.failing
         \/ /\ h.leases = 0
            /\ g.phase = "IDLE" => h.state \in {"OFF", "DISABLED"} /\ ~h.parked /\ ~h.failing
            /\ g.phase # "IDLE" => h.parked = g.parked /\ h.failing = g.failing
            /\ g.phase \in Engaged => h.grace
  BY SetIs DEF Loose, States
<1>2. Shown(g, "OFF") \in {"OFF", "DISABLED"}
  BY DEF Shown
<1>3. ~g.parked
  BY DEF Loose, Reasoned
<1> HIDE DEF h
<1>4. FailsLate(h)
  BY <1>1 DEF Loose, FailsLate, Engaged, BringUpSteps
<1>5. Reasoned(h)
  BY <1>1, <1>3 DEF Loose, Reasoned, Engaged, BringUpSteps
<1>6. Obeys(h)
  BY <1>1 DEF Obeys
<1>7. Served(g) => Served(h)
  BY <1>1, <1>2 DEF Served
<1> QED
  BY <1>1, <1>4, <1>5, <1>6, <1>7 DEF Loose, h

\* gm_server_set_enabled.  A watcher that the switch's own line drops has the count synced
\* before OFF is shown, and a lease that comes to count there is not served.
LEMMA SetEnabledControl ==
    ASSUME NEW g, NEW e \in Handling, NEW on \in BOOLEAN, Control(g)
    PROVE  Controls(g, SetEnabled(g, e, on), e)
<1> DEFINE end == SetEnabled(g, e, on)
<1> DEFINE told == [g EXCEPT !.loaded = TRUE, !.enabled = on]
<1> DEFINE b == IF g.enabled # on /\ e.drop = "SWITCH" THEN Sync(told, e) ELSE told
<1> DEFINE down == Sync(b, e)
<1> DEFINE stopped == IF down.grace THEN Teardown(down, e) ELSE down
<1> DEFINE idle(h) == h.phase = "IDLE" /\ h.state = "OFF"
<1> DEFINE shown == IF b.state = "DISABLED" \/ idle(b) THEN Set(b, e, "OFF") ELSE b
<1>1. g \in Gm
  BY DEF Control
<1>2. /\ told \in Gm /\ told.leases = g.leases /\ told.enabled = on /\ told.phase = g.phase
      /\ told.state = g.state /\ told.tearing = g.tearing /\ told.failing = g.failing
      /\ told.ownerLost = g.ownerLost /\ told.parked = g.parked /\ told.staleCid = g.staleCid
      /\ told.staleFromOwner = g.staleFromOwner /\ told.retry = g.retry /\ told.grace = g.grace
  BY <1>1 DEF Gm
<1>3. end = IF on THEN Sync(shown, e) ELSE IF idle(stopped) THEN Set(stopped, e, "OFF") ELSE stopped
  BY DEF SetEnabled
<1> HIDE DEF told, end
<1>4. Loose(told) /\ (Served(g) => Served(told))
  BY <1>2 DEF Control, Loose, FailsLate, Reasoned, Served
<1>5. /\ Loose(b) /\ (Obeys(told) => Obeys(b)) /\ (ShownOff(told) => ShownOff(b))
      /\ ShownOff(told) \/ e.drop # "SWITCH" => (Served(told) => Served(b))
  BY <1>4, SyncControl
<1>6. on => Obeys(told)
  BY <1>2 DEF Obeys
<1>7. ~on => ShownOff(told)
  BY <1>2 DEF ShownOff
<1> HIDE DEF b
<1>8. CASE on
  <2>1. Loose(shown) /\ ShownOff(shown) /\ Obeys(shown) /\ (Served(b) => Served(shown))
    <3>1. CASE b.state = "DISABLED" \/ idle(b)
      BY <1>5, <1>6, <1>8, <3>1, OffIsShown
    <3>2. CASE ~(b.state = "DISABLED" \/ idle(b))
      BY <1>5, <1>6, <1>8, <3>2 DEF ShownOff
    <3> QED
      BY <3>1, <3>2
  <2>2. Served(g) /\ e.drop # "SWITCH" => Served(b)
    BY <1>4, <1>5
  <2> HIDE DEF shown
  <2>3. Control(Sync(shown, e)) /\ (Served(shown) => Served(Sync(shown, e)))
    BY <2>1, SyncControl, ControlIs
  <2>4. end = Sync(shown, e)
    BY <1>3, <1>8
  <2> QED
    BY <2>1, <2>2, <2>3, <2>4 DEF Controls, end
<1>9. CASE ~on
  <2>1. Loose(b) /\ ShownOff(b) /\ (Served(g) => Served(b))
    BY <1>4, <1>5, <1>7, <1>9
  <2>2. /\ Loose(down) /\ Counted(down) /\ ShownOff(down) /\ (Obeys(down) \/ down.grace)
        /\ Served(g) => Served(down)
    BY <2>1, SyncControl
  <2> HIDE DEF down
  <2>3. Control(stopped) /\ (Served(g) => Served(stopped))
    <3>1. CASE ~down.grace
      BY <2>2, <3>1, ControlIs
    <3>2. CASE down.grace /\ down.phase \in Engaged
      <4>1. Down(down) /\ down \in Gm
        BY <2>2, <3>2 DEF Loose, Reasoned, Down, Ambient, Engaged, BringUpSteps, StalePhases
      <4> QED
        BY <3>2, <4>1, TeardownControl DEF Settled
    <3>3. CASE down.grace /\ down.phase \notin Engaged
      <4> DEFINE k == [down EXCEPT !.grace = FALSE]
      <4>1. down \in Gm
        BY <2>2 DEF Loose
      <4>2. stopped = k
        BY <3>3, <4>1, TeardownControl
      <4>3. /\ k \in Gm /\ k.leases = down.leases /\ k.enabled = down.enabled
            /\ k.phase = down.phase /\ k.state = down.state /\ k.tearing = down.tearing
            /\ k.failing = down.failing /\ k.ownerLost = down.ownerLost
            /\ k.parked = down.parked /\ k.staleCid = down.staleCid
            /\ k.staleFromOwner = down.staleFromOwner /\ k.retry = down.retry
            /\ k.held = down.held /\ k.loaded = down.loaded
        BY <4>1 DEF Gm
      <4> HIDE DEF k, stopped
      <4>4. Control(k) /\ (Served(down) => Served(k))
        BY <2>2, <3>3, <4>3 DEF Loose, Control, Counted, ShownOff, FailsLate, Reasoned, Served
      <4> QED
        BY <2>2, <4>2, <4>4
    <3> QED
      BY <3>1, <3>2, <3>3
  <2> HIDE DEF stopped
  <2>4. end = IF idle(stopped) THEN Set(stopped, e, "OFF") ELSE stopped
    BY <1>3, <1>9
  <2>5. CASE ~idle(stopped)
    BY <2>3, <2>4, <2>5 DEF Controls, end
  <2>6. CASE idle(stopped)
    <3>1. ~stopped.parked /\ (stopped.staleFromOwner => stopped.staleCid = NoCid)
      BY <2>3, <2>6 DEF Control, Reasoned, StalePhases
    <3>2. Served(g) => stopped.leases = 0
      BY <2>3, <2>6 DEF Served
    <3>3. Control(Set(stopped, e, "OFF"))
          /\ (stopped.leases = 0 => Served(Set(stopped, e, "OFF")))
      BY <2>3, <2>6, <3>1, RestControl DEF Control
    <3> QED
      BY <2>4, <2>6, <3>2, <3>3 DEF Controls, end
  <2> QED
    BY <2>5, <2>6
<1> QED
  BY <1>8, <1>9

\* gm_retry, of what has failed.
LEMMA RetryControl ==
    ASSUME NEW g, NEW e, Control(g), g.phase = "IDLE", g.state = "FAILED"
    PROVE  Controls(g, Retry(g), e)
<1> DEFINE again == IF g.ownerLost THEN g.retry ELSE TRUE
<1> DEFINE h == [g EXCEPT !.parked = FALSE, !.streak = 0, !.ownerFresh = FALSE, !.retry = again]
<1>1. g \in Gm /\ again \in BOOLEAN
  BY DEF Control, Gm
<1>2. Retry(g) = h
  BY DEF Retry
<1>3. g.ownerLost \/ again
  OBVIOUS
<1> HIDE DEF again
<1>4. h \in Gm
  BY <1>1, Zero, ZenonT(60) DEF Gm
<1>5. /\ h.leases = g.leases /\ h.enabled = g.enabled
      /\ h.phase = g.phase /\ h.state = g.state /\ h.tearing = g.tearing
      /\ h.failing = g.failing /\ h.ownerLost = g.ownerLost
      /\ h.parked = FALSE /\ h.staleCid = g.staleCid /\ h.grace = g.grace
      /\ h.staleFromOwner = g.staleFromOwner /\ h.retry = again
      /\ h.held = g.held /\ h.loaded = g.loaded
  BY <1>1 DEF Gm
<1> HIDE DEF h
<1>6. Control(h)
  BY <1>4, <1>5 DEF Control, Counted, ShownOff, FailsLate, Reasoned, Engaged, BringUpSteps
<1>7. Served(h)
  BY <1>3, <1>5 DEF Served
<1> QED
  BY <1>2, <1>6, <1>7 DEF Controls

-----------------------------------------------------------------------------
(* gm_tick.                                                                 *)

\* The end of the grace period.  Nothing is parked or unparked by it at rest.
LEMMA GraceTickControl ==
    ASSUME NEW g, NEW e \in Handling, NEW t \in Timers, Control(g)
    PROVE  LET h == GraceTick(g, e, t)
           IN  /\ Control(h) /\ (Served(g) => Served(h))
               /\ g.parked => h.parked /\ h.phase = "IDLE"
<1> DEFINE f == [g EXCEPT !.failing = FALSE]
<1> DEFINE k == [g EXCEPT !.grace = FALSE]
<1> DEFINE end == GraceTick(g, e, t)
<1>1. g \in Gm
  BY DEF Control
<1>2. /\ f \in Gm /\ f.leases = g.leases /\ f.enabled = g.enabled /\ f.held = g.held
      /\ f.loaded = g.loaded /\ f.phase = g.phase /\ f.state = g.state /\ f.tearing = g.tearing
      /\ f.failing = FALSE /\ f.ownerLost = g.ownerLost /\ f.parked = g.parked
      /\ f.staleCid = g.staleCid /\ f.staleFromOwner = g.staleFromOwner
      /\ f.retry = g.retry /\ f.grace = g.grace
  BY <1>1 DEF Gm
<1>3. /\ k \in Gm /\ k.leases = g.leases /\ k.enabled = g.enabled /\ k.held = g.held
      /\ k.loaded = g.loaded /\ k.phase = g.phase /\ k.state = g.state /\ k.tearing = g.tearing
      /\ k.failing = g.failing /\ k.ownerLost = g.ownerLost /\ k.parked = g.parked
      /\ k.staleCid = g.staleCid /\ k.staleFromOwner = g.staleFromOwner
      /\ k.retry = g.retry /\ k.grace = FALSE
  BY <1>1 DEF Gm
<1>4. \/ end = Teardown(f, e)
      \/ end = k /\ g.leases > 0
      \/ end = g
  BY DEF GraceTick
<1> HIDE DEF f, k, end
<1>5. CASE end = g
  BY <1>5 DEF Control, Reasoned, end
<1>6. CASE end = k /\ g.leases > 0
  <2>1. Control(k)
    BY <1>3, <1>6 DEF Control, Counted, ShownOff, FailsLate, Reasoned
  <2>2. Served(g) => Served(k)
    BY <1>3 DEF Served
  <2> QED
    BY <1>3, <1>6, <2>1, <2>2 DEF Control, Reasoned, end
<1>7. CASE end = Teardown(f, e) /\ g.phase \in Engaged
  <2>1. Down(f)
    BY <1>2, <1>7 DEF Control, Reasoned, Down, Ambient, Counted, ShownOff, FailsLate, Engaged,
                      BringUpSteps, StalePhases
  <2>2. Control(end) /\ Served(end)
    BY <1>2, <1>7, <2>1, TeardownControl DEF Settled
  <2>3. ~g.parked
    BY <1>7 DEF Control, Reasoned, Engaged, BringUpSteps
  <2> QED
    BY <2>2, <2>3 DEF end
<1>8. CASE end = Teardown(f, e) /\ g.phase \notin Engaged
  <2> DEFINE z == [f EXCEPT !.grace = FALSE]
  <2>1. end = z
    BY <1>2, <1>8, TeardownControl
  <2>2. /\ z \in Gm /\ z.leases = g.leases /\ z.enabled = g.enabled /\ z.held = g.held
        /\ z.loaded = g.loaded /\ z.phase = g.phase /\ z.state = g.state /\ z.tearing = g.tearing
        /\ z.failing = FALSE /\ z.ownerLost = g.ownerLost /\ z.parked = g.parked
        /\ z.staleCid = g.staleCid /\ z.staleFromOwner = g.staleFromOwner /\ z.retry = g.retry
    BY <1>2 DEF Gm
  <2> HIDE DEF z
  <2>3. Control(z)
    BY <1>8, <2>2 DEF Control, Counted, ShownOff, FailsLate, Reasoned
  <2>4. Served(g) => Served(z)
    BY <2>2 DEF Served
  <2> QED
    BY <2>1, <2>2, <2>3, <2>4 DEF Control, Reasoned, end
<1> QED
  BY <1>4, <1>5, <1>6, <1>7, <1>8

\* An owner check changes nothing that is wanted.
LEMMA CheckOwnerControl ==
    ASSUME NEW g, NEW e \in Handling, Control(g)
    PROVE  LET h == CheckOwner(g, e)
           IN  /\ Control(h) /\ (Served(g) => Served(h)) /\ SameDemand(g, h)
               /\ h.phase = g.phase /\ h.tearing = g.tearing /\ h.staleCid = g.staleCid
BY CheckOwnerDemand, SameIsControl DEF Control, Holds

\* PH_IDLE: the stale client id, the lost owner, the retry; and never from parked.
LEMMA IdleTickControl ==
    ASSUME NEW g, NEW e \in Handling, NEW due \in BOOLEAN, Control(g), g.phase = "IDLE"
    PROVE  LET h == IdleTick(g, e, due)
           IN  /\ Control(h) /\ (Served(g) => Served(h))
               /\ g.parked => h = g
<1> DEFINE end == IdleTick(g, e, due)
<1> DEFINE s == IF g.staleCid # NoCid THEN CheckOwner(g, e) ELSE g
<1> DEFINE waiting == s.leases > 0 /\ s.state = "FAILED"
<1> DEFINE o == CheckOwner(s, e)
<1>1. end =
        CASE s.staleCid # NoCid /\ s.ownerOk -> StaleCheck(s, e)
          [] ~(s.staleCid # NoCid /\ s.ownerOk) /\ waiting /\ s.ownerLost ->
                IF o.ownerOk THEN Bringup(o, e) ELSE o
          [] ~(s.staleCid # NoCid /\ s.ownerOk) /\ waiting /\ ~s.ownerLost
                /\ ~s.parked /\ s.retry /\ due -> Bringup(s, e)
          [] OTHER -> s
  BY DEF IdleTick
<1>2. /\ Control(s) /\ (Served(g) => Served(s)) /\ s.phase = "IDLE" /\ s.staleCid = g.staleCid
      /\ s.parked = g.parked
  BY CheckOwnerControl DEF SameDemand
<1>3. g.parked => s = g
  BY DEF Control, Reasoned
<1> HIDE DEF s, end
<1>4. /\ Control(o) /\ (Served(s) => Served(o)) /\ o.phase = "IDLE" /\ SameDemand(s, o)
  BY <1>2, CheckOwnerControl
<1> HIDE DEF o
<1>5. s.parked => s.staleCid = NoCid /\ ~s.ownerLost
  BY <1>2 DEF Control, Reasoned
<1>6. ASSUME NEW f, Control(f), f.phase = "IDLE", f.leases > 0, ~f.parked
      PROVE  Control(Bringup(f, e)) /\ Served(Bringup(f, e))
  BY <1>6, BringupControl DEF Control, Reasoned, StalePhases
<1>7. CASE s.staleCid # NoCid /\ s.ownerOk
  <2>1. end = StaleCheck(s, e)
    BY <1>1, <1>7
  <2> QED
    BY <1>2, <1>5, <1>7, <2>1, StaleCheckControl DEF Settled, end
<1>8. CASE ~(s.staleCid # NoCid /\ s.ownerOk) /\ waiting /\ s.ownerLost
  <2>1. end = IF o.ownerOk THEN Bringup(o, e) ELSE o
    BY <1>1, <1>8
  <2>2. ~s.parked /\ ~o.parked /\ o.leases > 0
    BY <1>4, <1>5, <1>8 DEF SameDemand
  <2> QED
    BY <1>2, <1>4, <1>6, <2>1, <2>2 DEF end
<1>9. CASE ~(s.staleCid # NoCid /\ s.ownerOk) /\ waiting /\ ~s.ownerLost
                /\ ~s.parked /\ s.retry /\ due
  <2>1. end = Bringup(s, e)
    BY <1>1, <1>9
  <2> QED
    BY <1>2, <1>6, <1>9, <2>1 DEF end
<1>10. CASE end = s
  BY <1>2, <1>3, <1>10 DEF end
<1> QED
  BY <1>1, <1>7, <1>8, <1>9, <1>10

\* PH_OWNER: the stale client id first, then the allocation; or the owner stays away.
LEMMA OwnerTickControl ==
    ASSUME NEW g, NEW e \in Handling, NEW due \in BOOLEAN, Control(g), Sound(g),
           g.phase = "OWNER"
    PROVE  Settled(OwnerTick(g, e, due))
<1> DEFINE o == CheckOwner(g, e)
<1> DEFINE s == Set(o, e, "STARTING")
<1> DEFINE end == OwnerTick(g, e, due)
<1>1. /\ Control(o) /\ o.phase = "OWNER" /\ ~o.tearing
  BY CheckOwnerControl DEF Sound, BringUpSteps
<1>2. \/ end = StaleCheck(o, e) /\ o.staleCid # NoCid
      \/ end = Setup(s, e, "ALLOC") /\ o.staleCid = NoCid
      \/ end \in {Fail(o, e, TRUE), o}
  BY DEF OwnerTick
<1> HIDE DEF o, end
<1>3. Live(o) /\ o \in Gm
  <2>1. o.phase \in Engaged /\ o.phase \notin StalePhases
    BY <1>1 DEF Engaged, StalePhases
  <2>2. /\ ~o.failing /\ o.enabled /\ ~o.parked /\ (o.leases > 0 \/ o.grace)
        /\ o.staleFromOwner => o.staleCid = NoCid
    BY <1>1, <2>1 DEF Control, Reasoned
  <2> QED
    BY <1>1, <2>2 DEF Control, Live, Down, Ambient
<1>4. Live(s) /\ s.staleCid = o.staleCid
  <2>1. "STARTING" \in States \ {"DISABLED"} /\ o.phase \in Engaged
    BY <1>1 DEF States, Engaged
  <2>2. Live(s)
    BY <1>3, <2>1, SetControls
  <2>3. s.staleCid = o.staleCid
    BY <1>3, <2>1, SetIs
  <2> QED
    BY <2>2, <2>3
<1> HIDE DEF s
<1>5. CASE end = StaleCheck(o, e) /\ o.staleCid # NoCid
  BY <1>1, <1>5, StaleCheckControl DEF end
<1>6. CASE end = Setup(s, e, "ALLOC") /\ o.staleCid = NoCid
  BY <1>4, <1>6, SetupControl DEF BringUpSteps, end
<1>7. CASE end = Fail(o, e, TRUE)
  BY <1>1, <1>3, <1>7, FailControl DEF Live, Engaged, end
<1>8. CASE end = o
  BY <1>1, <1>3, <1>8, LiveIsControl DEF Settled, Engaged, end
<1> QED
  BY <1>2, <1>5, <1>6, <1>7, <1>8

\* A step phase: TERM, KILL, and perhaps a counted leak.
LEMMA StepTickControl ==
    ASSUME NEW g, NEW due \in BOOLEAN, Control(g)
    PROVE  Control(StepTick(g, due)) /\ (Served(g) => Served(StepTick(g, due)))
<1> DEFINE f == IF g.phase = "ALLOC" THEN Leak(g) ELSE g
<1> DEFINE term == [f EXCEPT !.stepKilled = TRUE]
<1> DEFINE kill == [g EXCEPT !.escalation = 1]
<1> DEFINE Same(h) == /\ h \in Gm /\ SameDemand(g, h) /\ h.phase = g.phase
                      /\ h.tearing = g.tearing /\ h.staleCid = g.staleCid
<1>1. g \in Gm
  BY DEF Control
<1>2. Same(g) /\ Same(f)
  BY <1>1, LeakDemand DEF SameDemand, Holds
<1>3. StepTick(g, due) \in {g, term, kill}
  BY DEF StepTick
<1> HIDE DEF f
<1>4. Same(term)
  BY <1>2 DEF Gm, SameDemand
<1>5. Same(kill)
  BY <1>1, Zero DEF Gm, SameDemand
<1> HIDE DEF term, kill
<1>6. ASSUME NEW h, Same(h)
      PROVE  Control(h) /\ (Served(g) => Served(h))
  BY <1>6, SameIsControl
<1> HIDE DEF Same
<1> QED
  BY <1>2, <1>3, <1>4, <1>5, <1>6

\* PH_UP: the owner, silence, the fix.
LEMMA UpTickControl ==
    ASSUME NEW g, NEW e \in Handling, NEW t \in Timers, Control(g), Sound(g), g.phase = "UP"
    PROVE  Settled(UpTick(g, e, t))
<1> DEFINE o == CheckOwner(g, e)
<1> DEFINE well == [o EXCEPT !.healthy = TRUE, !.streak = 0]
<1> DEFINE h == IF t.steady /\ ~o.healthy THEN well ELSE o
<1> DEFINE st == IF t.fix THEN "RUNNING" ELSE "ACQUIRING"
<1> DEFINE end == UpTick(g, e, t)
<1>1. Control(o) /\ o.phase = "UP" /\ ~o.tearing /\ o.staleCid = NoCid
  BY CheckOwnerControl DEF Sound, BringUpSteps, StalePhases
<1>2. end \in {Fail(o, e, TRUE), Fail(o, e, FALSE), Set(h, e, st)}
  BY DEF UpTick
<1>3. st \in States \ {"DISABLED"}
  BY DEF States
<1> HIDE DEF o, st, end
<1>4. Live(o) /\ o \in Gm
  BY <1>1 DEF Control, Reasoned, Live, Down, Ambient, Engaged
<1>5. well \in Gm /\ SameDemand(o, well) /\ well.staleCid = NoCid /\ well.phase = "UP"
  BY <1>1, <1>4, Zero DEF Gm, SameDemand
<1> HIDE DEF well
<1>6. Live(h) /\ h.phase = "UP"
  BY <1>1, <1>4, <1>5, DemandKeeps
<1> HIDE DEF h
<1>7. Live(Set(h, e, st)) /\ Set(h, e, st).phase = "UP"
  BY <1>3, <1>6, SetControls DEF Engaged
<1>8. Settled(Set(h, e, st))
  BY <1>7, LiveIsControl DEF Settled, Engaged
<1>9. Settled(Fail(o, e, TRUE)) /\ Settled(Fail(o, e, FALSE))
  BY <1>1, <1>4, FailControl DEF Live, Engaged
<1> QED
  BY <1>2, <1>8, <1>9 DEF end

\* The stop phases only escalate.
LEMMA StopTickControl ==
    ASSUME NEW g, NEW due \in BOOLEAN, Control(g)
    PROVE  Control(StopTick(g, due)) /\ (Served(g) => Served(StopTick(g, due)))
<1> DEFINE h == [g EXCEPT !.escalation = g.escalation + 1]
<1> DEFINE last == IF g.phase = "STOP_PIPE" THEN 2 ELSE 1
<1>1. g \in Gm
  BY DEF Control
<1>2. g.escalation < last => g.escalation + 1 \in 0 .. 2
  BY <1>1 DEF Gm
<1>3. g.escalation < last =>
        /\ h \in Gm /\ SameDemand(g, h) /\ h.phase = g.phase
        /\ h.tearing = g.tearing /\ h.staleCid = g.staleCid
  BY <1>1, <1>2 DEF Gm, SameDemand
<1>4. StopTick(g, due) = IF due /\ g.escalation < last THEN h ELSE g
  BY DEF StopTick
<1> HIDE DEF h, last
<1>5. g.escalation < last => Control(h) /\ (Served(g) => Served(h))
  BY <1>3, SameIsControl
<1> QED
  BY <1>4, <1>5

\* The tick: the grace period, then what the phase waits for.
LEMMA TickControl ==
    ASSUME NEW g, NEW e \in Handling, NEW t \in Timers, Control(g), Sound(g)
    PROVE  LET h == Tick(g, e, t)
           IN  /\ Controls(g, h, e)
               /\ g.parked => h.parked /\ h.phase = "IDLE"
<1> DEFINE end == Tick(g, e, t)
<1> DEFINE h == GraceTick(g, e, t)
<1> DEFINE due == t.due /\ h.phase = g.phase
<1> DEFINE up == [t EXCEPT !.due = due]
<1>1. /\ Sound(h) /\ Control(h) /\ (Served(g) => Served(h))
      /\ g.parked => h.parked /\ h.phase = "IDLE"
  BY GraceTickSound, GraceTickControl
<1>2. end =
        CASE h.phase = "IDLE" -> IdleTick(h, e, due)
          [] h.phase = "OWNER" -> OwnerTick(h, e, due)
          [] h.phase \in StepPhases -> StepTick(h, due)
          [] h.phase = "UP" -> UpTick(h, e, up)
          [] OTHER -> StopTick(h, due)
  BY DEF Tick
<1>3. due \in BOOLEAN /\ up \in Timers
  BY DEF Timers
<1> HIDE DEF h, end
<1> HIDE DEF due, up
<1> SUFFICES /\ Control(end) /\ (Served(h) => Served(end))
             /\ h.phase = "IDLE" /\ h.parked => end = h
  BY <1>1 DEF Controls, end
<1>4. CASE h.phase = "IDLE"
  BY <1>1, <1>2, <1>3, <1>4, IdleTickControl DEF StepPhases
<1>5. CASE h.phase = "OWNER"
  BY <1>1, <1>2, <1>3, <1>5, OwnerTickControl DEF Settled, StepPhases
<1>6. CASE h.phase \in StepPhases
  BY <1>1, <1>2, <1>3, <1>6, StepTickControl DEF StepPhases
<1>7. CASE h.phase = "UP"
  BY <1>1, <1>2, <1>3, <1>7, UpTickControl DEF Settled, StepPhases
<1>8. CASE h.phase \notin {"IDLE", "OWNER", "UP"} \cup StepPhases
  BY <1>1, <1>2, <1>3, <1>8, StopTickControl
<1> QED
  BY <1>4, <1>5, <1>6, <1>7, <1>8

-----------------------------------------------------------------------------
(* The shell.                                                               *)

\* gm_init: nothing is wanted yet, and OFF is shown.
LEMMA BootControl ==
    ASSUME NEW r \in Records, NEW loaded \in BOOLEAN
    PROVE  Settled(Boot(r, loaded))
<1> DEFINE h == Boot(r, loaded)
<1>1. h \in Gm
  BY BootSound DEF Sound, Base
<1>2. /\ h.phase = "IDLE" /\ h.state = "OFF" /\ h.held = 0 /\ h.leases = 0 /\ h.failing = FALSE
      /\ h.parked = FALSE /\ h.staleFromOwner = FALSE
  BY DEF Boot
<1> HIDE DEF h
<1>3. Settled(h)
  BY <1>1, <1>2 DEF Settled, Control, Served, Counted, ShownOff, FailsLate, Reasoned, Engaged,
                    BringUpSteps
<1> QED
  BY <1>3 DEF h

\* SIGTERM: no lease counts any more, and what is engaged comes down.
LEMMA StopControl ==
    ASSUME NEW g, NEW e \in Handling, Control(g)
    PROVE  LET h == Teardown([g EXCEPT !.held = 0, !.leases = 0, !.grace = FALSE,
                                       !.failing = FALSE], e)
           IN  Control(h) /\ (Served(g) => Served(h))
<1> DEFINE f == [g EXCEPT !.held = 0, !.leases = 0, !.grace = FALSE, !.failing = FALSE]
<1> DEFINE z == [f EXCEPT !.grace = FALSE]
<1>1. g \in Gm
  BY DEF Control
<1>2. f \in Gm
  BY <1>1, Zero, ZenonT(60) DEF Gm
<1>3. /\ f.leases = 0 /\ f.held = 0 /\ f.failing = FALSE
      /\ f.enabled = g.enabled /\ f.loaded = g.loaded /\ f.phase = g.phase /\ f.state = g.state
      /\ f.tearing = g.tearing /\ f.ownerLost = g.ownerLost /\ f.parked = g.parked
      /\ f.staleCid = g.staleCid /\ f.staleFromOwner = g.staleFromOwner /\ f.retry = g.retry
  BY <1>1 DEF Gm
<1> HIDE DEF f
<1>4. CASE g.phase \in Engaged
  <2>1. Down(f)
    BY <1>2, <1>3, <1>4 DEF Control, Reasoned, Down, Ambient, Counted, ShownOff, FailsLate,
                            Engaged, BringUpSteps, StalePhases
  <2> QED
    BY <1>2, <1>3, <1>4, <2>1, TeardownControl DEF Settled, f
<1>5. CASE g.phase \notin Engaged
  <2>1. Teardown(f, e) = z
    BY <1>2, <1>3, <1>5, TeardownControl
  <2>2. /\ z \in Gm /\ z.leases = 0 /\ z.held = 0 /\ z.failing = FALSE
        /\ z.enabled = g.enabled /\ z.loaded = g.loaded /\ z.phase = g.phase /\ z.state = g.state
        /\ z.tearing = g.tearing /\ z.ownerLost = g.ownerLost /\ z.parked = g.parked
        /\ z.staleCid = g.staleCid /\ z.staleFromOwner = g.staleFromOwner /\ z.retry = g.retry
    BY <1>2, <1>3 DEF Gm
  <2> HIDE DEF z
  <2>3. Control(z)
    BY <1>5, <2>2 DEF Control, Counted, ShownOff, FailsLate, Reasoned
  <2>4. Served(g) => Served(z)
    BY <2>2 DEF Served
  <2> QED
    BY <2>1, <2>3, <2>4 DEF f
<1> QED
  BY <1>4, <1>5

-----------------------------------------------------------------------------
(* Parked.                                                                  *)

\* Failed for good, until a client asks.
Parked(g) == g \in Gm /\ g.parked /\ g.phase = "IDLE" /\ g.state = "FAILED"

\* A count that changes leaves it parked, or was the last release.
LEMMA SyncParked ==
    ASSUME NEW g, NEW e, Parked(g)
    PROVE  LET h == Sync(g, e)
           IN  \/ Parked(h)
               \/ h \in Gm /\ h.phase = "IDLE" /\ h.leases = 0 /\ h.held = g.held /\ Wanted(g) = 0
<1> DEFINE n == Wanted(g)
<1> DEFINE h == [g EXCEPT !.leases = n]
<1> DEFINE kept == [h EXCEPT !.grace = FALSE]
<1>1. g \in Gm /\ n \in 0 .. MaxHeld /\ n \in Nat
  BY Zero, BoundsAssumption DEF Parked, Gm, Wanted
<1>2. Sync(g, e) = IF n # g.leases THEN SetLeases(g, e, n) ELSE g
  BY DEF Sync, Wanted
<1>3. SetLeases(g, e, n) =
        CASE n > 0 /\ g.leases = 0 /\ g.phase = "IDLE" /\ g.state = "OFF" -> Bringup(kept, e)
          [] n > 0 /\ ~(g.leases = 0 /\ g.phase = "IDLE" /\ g.state = "OFF") -> kept
          [] n = 0 /\ g.leases = 0 -> h
          [] n = 0 /\ g.leases > 0 /\ ~g.enabled /\ g.phase \in Engaged -> Teardown(h, e)
          [] OTHER -> LastLeaseGone(h)
  BY DEF SetLeases
<1> HIDE DEF n
<1>4. h \in Gm /\ h.leases = n /\ h.held = g.held /\ h.phase = g.phase
  BY <1>1 DEF Gm
<1>5. kept \in Gm /\ kept.phase = g.phase /\ kept.state = g.state /\ kept.parked = g.parked
  BY <1>1 DEF Gm
<1> HIDE DEF h, kept
<1>6. g.phase \notin Engaged /\ g.state # "OFF"
  BY DEF Parked, Engaged, BringUpSteps
<1>7. CASE n = g.leases
  BY <1>2, <1>7
<1>8. CASE n # g.leases /\ n > 0
  <2>1. Sync(g, e) = kept
    BY <1>2, <1>3, <1>6, <1>8
  <2> QED
    BY <1>5, <2>1 DEF Parked
<1>9. CASE n # g.leases /\ n = 0
  <2>1. Sync(g, e) \in {h, LastLeaseGone(h)}
    BY <1>2, <1>3, <1>6, <1>9
  <2>2. /\ LastLeaseGone(h) \in Gm /\ LastLeaseGone(h).phase = h.phase
        /\ LastLeaseGone(h).held = h.held /\ LastLeaseGone(h).leases = 0
    BY <1>4, LastLeaseGoneIs
  <2> QED
    BY <1>4, <1>9, <2>1, <2>2 DEF Parked, n
<1> QED
  BY <1>1, <1>7, <1>8, <1>9

\* And so does a lease or a release.
LEMMA HeldParked ==
    ASSUME NEW g, NEW e, NEW k \in 0 .. MaxHeld, Parked(g)
    PROVE  LET h == Sync([g EXCEPT !.held = k], e)
           IN  Parked(h) \/ h.leases = 0
<1> DEFINE f == [g EXCEPT !.held = k]
<1>1. Parked(f)
  BY DEF Parked, Gm
<1> HIDE DEF f
<1> QED
  BY <1>1, SyncParked DEF f

\* With the switch off nothing counts.
LEMMA SyncOff ==
    ASSUME NEW g \in Gm, NEW e, ~g.enabled, g.phase = "IDLE"
    PROVE  LET h == Sync(g, e)
           IN  h \in Gm /\ h.leases = 0 /\ h.phase = "IDLE" /\ ~h.enabled
<1> DEFINE h == [g EXCEPT !.leases = 0]
<1>1. g.phase \notin Engaged
  BY DEF Engaged, BringUpSteps
<1>2. Sync(g, e) = IF 0 # g.leases THEN SetLeases(g, e, 0) ELSE g
  BY DEF Sync
<1>3. g.leases # 0 => SetLeases(g, e, 0) = LastLeaseGone(h)
  BY <1>1, Zero DEF SetLeases, Gm
<1>4. h \in Gm /\ h.phase = "IDLE" /\ h.enabled = g.enabled
  BY Zero DEF Gm
<1> HIDE DEF h
<1>5. LET k == LastLeaseGone(h)
      IN  k \in Gm /\ k.leases = 0 /\ k.phase = "IDLE" /\ k.enabled = h.enabled
  BY <1>4, LastLeaseGoneIs
<1>6. CASE g.leases = 0
  BY <1>2, <1>6
<1>7. CASE g.leases # 0
  BY <1>2, <1>3, <1>4, <1>5, <1>7
<1> QED
  BY <1>6, <1>7

\* The grace period ended.
LEMMA GraceGone ==
    ASSUME NEW g \in Gm
    PROVE  LET h == [g EXCEPT !.grace = FALSE]
           IN  h \in Gm /\ h.leases = g.leases
BY DEF Gm

\* Switched on it stays parked, unless no lease is left; switched off none counts.
LEMMA SwitchParked ==
    ASSUME NEW g, NEW e \in Handling, NEW on \in BOOLEAN, Parked(g)
    PROVE  LET h == SetEnabled(g, e, on)
           IN  Parked(h) \/ h.leases = 0
<1> DEFINE end == SetEnabled(g, e, on)
<1> DEFINE told == [g EXCEPT !.loaded = TRUE, !.enabled = on]
<1> DEFINE b == IF g.enabled # on /\ e.drop = "SWITCH" THEN Sync(told, e) ELSE told
<1> DEFINE down == Sync(b, e)
<1> DEFINE stopped == IF down.grace THEN Teardown(down, e) ELSE down
<1> DEFINE idle(h) == h.phase = "IDLE" /\ h.state = "OFF"
<1> DEFINE shown == IF b.state = "DISABLED" \/ idle(b) THEN Set(b, e, "OFF") ELSE b
<1>1. Parked(told) /\ told.enabled = on /\ told.loaded = TRUE /\ told \in Gm
  BY DEF Parked, Gm
<1>2. end = IF on THEN Sync(shown, e) ELSE IF idle(stopped) THEN Set(stopped, e, "OFF") ELSE stopped
  BY DEF SetEnabled
<1> HIDE DEF told, end
<1>3. \/ b = told
      \/ b = Sync(told, e)
  OBVIOUS
<1>4. CASE on
  <2>1. \/ Parked(b)
        \/ b \in Gm /\ b.leases = 0 /\ b.held = 0
    BY <1>1, <1>3, <1>4, SyncParked DEF Wanted
  <2> HIDE DEF b
  <2>2. CASE Parked(b)
    <3>1. shown = b
      BY <2>2 DEF Parked
    <3> QED
      BY <1>2, <1>4, <2>2, <3>1, SyncParked DEF end
  <2>3. CASE b \in Gm /\ b.leases = 0 /\ b.held = 0
    <3>1. shown.leases = 0 /\ shown.held = 0
      BY <2>3, SetIs DEF States
    <3> HIDE DEF shown
    <3>2. Sync(shown, e) = shown
      BY <3>1 DEF Sync
    <3> QED
      BY <1>2, <1>4, <3>1, <3>2 DEF end
  <2> QED
    BY <2>1, <2>2, <2>3
<1>5. CASE ~on
  <2>1. told.phase = "IDLE" /\ ~told.enabled
    BY <1>1, <1>5 DEF Parked
  <2>2. b \in Gm /\ b.phase = "IDLE" /\ ~b.enabled
    BY <1>1, <1>3, <2>1, SyncOff
  <2> HIDE DEF b
  <2>3. down \in Gm /\ down.leases = 0 /\ down.phase = "IDLE"
    BY <2>2, SyncOff
  <2> HIDE DEF down
  <2>4. down.phase \notin Engaged
    BY <2>3 DEF Engaged, BringUpSteps
  <2> DEFINE w == [down EXCEPT !.grace = FALSE]
  <2>5. Teardown(down, e) = w
    BY <2>3, <2>4, TeardownControl
  <2>8. w \in Gm /\ w.leases = 0
    BY <2>3, GraceGone
  <2> HIDE DEF w
  <2>6. stopped \in Gm /\ stopped.leases = 0
    BY <2>3, <2>5, <2>8
  <2> HIDE DEF stopped
  <2>7. Set(stopped, e, "OFF").leases = 0
    BY <2>6, SetIs DEF States
  <2> QED
    BY <1>2, <1>5, <2>6, <2>7 DEF end
<1> QED
  BY <1>4, <1>5
=============================================================================
