-------------------------- MODULE GpsManagerProofs --------------------------
(***************************************************************************)
(* What holds of gps-manager for every set of client ids, every bound and  *)
(* every choice of failing forks and dropped watchers.  The struct is Sound*)
(* in every state; the modem's side is Traced to what the struct knows of  *)
(* it; and each client id at the modem that the struct knows nothing of is *)
(* Covered by a count.  With that nothing is left behind, and the client id*)
(* and the record are used as the ledger of ClientLedger promises.         *)
(***************************************************************************)
EXTENDS GpsManager, GpsCoreProofs, FiniteSetTheorems

\* The client ids the bridge has given out that neither the daemon nor the output of the
\* allocation in flight names.
Forgotten == modem.cids \ {g.cid, g.staleCid, step.got}

\* What the modem holds and what the struct says of it.  An id the bridge has is the
\* present owner's; a fresh positive owner check is right while the bridge is up; and what
\* a step in flight has already done shows at the modem.
Traced ==
    /\ modem.bridge => modem.gen # NoOwner
    /\ ~modem.bridge => modem.cids = {}
    /\ modem.loc \subseteq modem.cids
    /\ g.ownerFresh /\ g.ownerOk /\ modem.bridge => g.ownerSeen = modem.gen
    /\ g.cid \in modem.cids => g.cidOwner = modem.gen
    /\ g.staleCid \in modem.cids => g.staleOwner = modem.gen
    /\ step.got # NoCid => g.phase = "ALLOC" /\ step.did
    /\ g.phase = "ALLOC" =>
            /\ step.on # NoOwner => step.on = g.ownerSeen
            /\ step.got \in modem.cids => g.ownerSeen = modem.gen
    /\ g.phase = "RELEASE" /\ step.did => g.cid \notin modem.cids
    /\ g.phase = "STALE_RELEASE" /\ step.did => g.staleCid \notin modem.cids

\* A forgotten id was counted; a killed allocation has been counted in advance.  Beyond
\* LeakCap the model no longer counts.
Reserved == Count(g.phase = "ALLOC" /\ g.stepKilled)
Covered ==
    \/ Cardinality(Forgotten) + Reserved <= g.leaked + lost
    \/ LeakCap <= g.leaked + lost

\* A model that never counts a leak cannot tell an orphan from a counted one.
Orphans == LeakCap > 0 => NoOrphanSession

IInv == TypeOK /\ Sound(g) /\ Traced /\ Covered /\ Orphans

-----------------------------------------------------------------------------
(* Counting.                                                                *)

\* The ids at the modem are finitely many, and so are those among them it forgot.
LEMMA CidsAreFinite ==
    ASSUME NEW S \in SUBSET Cids
    PROVE  IsFiniteSet(S) /\ Cardinality(S) \in Nat
<1>1. IsFiniteSet(S)
  BY CidsAssumption, FS_Subset
<1> QED
  BY <1>1, FS_CardinalityType

\* One id more at most is one more at most.
LEMMA AtMostOneMore ==
    ASSUME NEW S \in SUBSET Cids, NEW T \in SUBSET Cids, NEW x
    PROVE  /\ T \subseteq S => Cardinality(T) <= Cardinality(S)
           /\ T \subseteq S \cup {x} => Cardinality(T) <= Cardinality(S) + 1
<1>1. IsFiniteSet(S) /\ Cardinality(S) \in Nat /\ Cardinality(T) \in Nat
  BY CidsAreFinite
<1>2. T \subseteq S => Cardinality(T) <= Cardinality(S)
  BY <1>1, FS_Subset
<1>3. ASSUME T \subseteq S \cup {x}
      PROVE  Cardinality(T) <= Cardinality(S) + 1
  <2>1. IsFiniteSet(S \cup {x}) /\ Cardinality(S \cup {x}) <= Cardinality(S) + 1
        /\ Cardinality(S \cup {x}) \in Nat
    <3>1. /\ IsFiniteSet(S \cup {x})
          /\ Cardinality(S \cup {x}) = IF x \in S THEN Cardinality(S) ELSE Cardinality(S) + 1
      BY <1>1, FS_AddElement, ZenonT(30)
    <3> QED
      BY <1>1, <3>1
  <2>2. Cardinality(T) <= Cardinality(S \cup {x})
    BY <1>3, <2>1, FS_Subset
  <2> QED
    BY <1>1, <2>1, <2>2
<1> QED
  BY <1>2, <1>3

\* NoCid is no client id.
LEMMA NoCidIsNone == NoCid \notin Cids
BY CidsAssumption DEF NoCid

-----------------------------------------------------------------------------
(* What a handler meets, and what becomes of the step.                      *)

\* What a handler meets is typed, and is what the modem is at that time.
Meets(e) == e \in Handling /\ e.bridge = modem.bridge /\ e.owner = ReadyOwner

\* It is so of everything in HandlingNow, and for Stop, whose broadcast has no listener.
LEMMA HandlingNowIs ==
    ASSUME TypeOK
    PROVE  /\ \A e \in HandlingNow : Meets(e) /\ e \in Handling
           /\ \A e \in HandlingNow : LET quiet == [e EXCEPT !.drop = "none"]
                                     IN  Meets(quiet) /\ quiet \in Handling
<1>1. ReadyOwner \in OwnerOrNone /\ modem.bridge \in BOOLEAN
  BY Zero DEF TypeOK, Modems, ReadyOwner
<1>2. DropsNow \subseteq DropPoints \cup {"none"}
  BY ChoicesAssumption DEF DropsNow
<1>3. ASSUME NEW e \in HandlingNow
      PROVE  Meets(e)
  <2>1. PICK nf \in NoForkSets, d \in DropsNow :
          e = [bridge |-> modem.bridge, owner |-> ReadyOwner, nofork |-> nf, drop |-> d]
    BY DEF HandlingNow
  <2>2. nf \in SUBSET ForkPoints /\ d \in DropPoints \cup {"none"}
    BY <1>2, ChoicesAssumption
  <2> QED
    BY <1>1, <2>1, <2>2 DEF Handling, Meets
<1>4. \A e : Meets(e) => Meets([e EXCEPT !.drop = "none"])
  BY DEF Handling, Meets
<1> QED
  BY <1>3, <1>4 DEF Meets

\* A step that starts has done nothing and is on the bridge there is; one that goes on is
\* the same.
LEMMA HandledIs ==
    ASSUME TypeOK, NEW h, Sound(h), Handled(h)
    PROVE  /\ g' = h /\ step' \in Steps
           /\ \/ step' = step /\ h.phase = g.phase /\ "step" \in g.alive
              \/ /\ step'.did = FALSE /\ step'.got = NoCid
                 /\ step'.on = NoOwner \/ (modem.bridge /\ step'.on = modem.gen)
           /\ h.phase = g.phase /\ "step" \in g.alive /\ h.phase \in StepPhases => step' = step
<1> DEFINE fresh == [NoStep EXCEPT !.on = IF modem.bridge THEN modem.gen ELSE NoOwner]
<1>1. NoStep \in Steps /\ NoStep.did = FALSE /\ NoStep.got = NoCid /\ NoStep.on = NoOwner
  BY Zero DEF NoStep, Steps
<1>2. (IF modem.bridge THEN modem.gen ELSE NoOwner) \in OwnerOrNone
  BY Zero DEF TypeOK, Modems
<1>3. /\ fresh \in Steps /\ fresh.did = FALSE /\ fresh.got = NoCid
      /\ fresh.on = NoOwner \/ (modem.bridge /\ fresh.on = modem.gen)
  BY <1>1, <1>2 DEF Steps
<1>4. \/ "step" \notin h.alive /\ step' = NoStep
      \/ "step" \in h.alive /\ ("step" \notin g.alive \/ h.phase # g.phase) /\ step' = fresh
      \/ "step" \in g.alive /\ h.phase = g.phase /\ step' = step
  BY DEF Handled
<1>5. "step" \in h.alive <=> h.phase \in StepPhases
  BY DEF Sound
<1> HIDE DEF fresh
<1> QED
  BY <1>1, <1>3, <1>4, <1>5 DEF Handled, TypeOK

-----------------------------------------------------------------------------
(* Every handler but the end of a step.                                     *)

\* The struct that a handler leaves is traced to the modem as before: what it knows of the
\* owner it has found out now, and the step in flight is the same or has not begun.
LEMMA HandlerTraces ==
    ASSUME IInv, NEW h, NEW e, Sound(h), Handles(g, h, e), Meets(e), Handled(h), modem' = modem
    PROVE  /\ Traced' /\ step'.got = step.got
           /\ g.phase \in StepPhases => step' = step
<1>1. g \in Gm /\ modem \in Modems /\ g' = h /\ NoCid \notin Cids
  BY HandledIs, NoCidIsNone DEF IInv, TypeOK
<1>2. "step" \in g.alive <=> g.phase \in StepPhases
  BY DEF IInv, Sound
<1>3. g.phase \in StepPhases => step' = step /\ h.phase = g.phase
  BY <1>2, HandledIs DEF IInv, Handles
<1>4. g.phase \notin StepPhases =>
        /\ step'.did = FALSE /\ step'.got = NoCid /\ step.got = NoCid
        /\ step'.on = NoOwner \/ (modem.bridge /\ step'.on = modem.gen)
  BY <1>2, HandledIs DEF IInv, Traced, StepPhases
<1>5. /\ modem.bridge => modem.gen # NoOwner
      /\ ~modem.bridge => modem.cids = {}
      /\ modem.loc \subseteq modem.cids
  BY DEF IInv, Traced
<1>6. h.ownerFresh /\ h.ownerOk /\ modem.bridge => h.ownerSeen = modem.gen
  BY DEF IInv, Traced, Handles, Knows, SameOwner, Meets, ReadyOwner
<1>7. NoCid \notin modem.cids
  BY <1>1 DEF Modems
<1>8. /\ h.cid \in modem.cids => h.cidOwner = modem.gen
      /\ h.staleCid \in modem.cids => h.staleOwner = modem.gen
  BY <1>7 DEF IInv, Traced, Handles, Yields
<1>9. step'.got # NoCid => h.phase = "ALLOC" /\ step'.did
  BY <1>3, <1>4 DEF IInv, Traced
<1>10. h.phase = "ALLOC" =>
            /\ step'.on # NoOwner => step'.on = h.ownerSeen
            /\ step'.got \in modem.cids => h.ownerSeen = modem.gen
  <2>1. CASE g.phase \in StepPhases
    BY <1>3, <2>1 DEF IInv, Traced, Handles
  <2>2. CASE g.phase \notin StepPhases
    BY <1>4, <1>6, <1>7, <2>2 DEF Handles, StepPhases
  <2> QED
    BY <2>1, <2>2
<1>11. /\ h.phase = "RELEASE" /\ step'.did => h.cid \notin modem.cids
       /\ h.phase = "STALE_RELEASE" /\ step'.did => h.staleCid \notin modem.cids
  <2>1. CASE g.phase \in StepPhases
    BY <1>3, <2>1 DEF IInv, Traced, Handles
  <2>2. CASE g.phase \notin StepPhases
    BY <1>4, <2>2
  <2> QED
    BY <2>1, <2>2
<1>12. step'.got = step.got
  BY <1>3, <1>4
<1> QED
  BY <1>1, <1>3, <1>5, <1>6, <1>8, <1>9, <1>10, <1>11, <1>12 DEF Traced

\* A client id that a handler gives up was gone with its bridge or its owner, or is counted.
LEMMA HandlerGives ==
    ASSUME IInv, NEW h, NEW e, Sound(h), Handles(g, h, e), Meets(e), Handled(h), modem' = modem
    PROVE  \/ modem.cids \subseteq {} \/ OneMore(g, h)
           \/ modem.cids \cap {g.cid, g.staleCid} = modem.cids \cap {h.cid, h.staleCid}
<1>1. /\ g.cid = NoCid \/ g.staleCid = NoCid
      /\ h.cid \in {g.cid, NoCid} /\ h.staleCid \in {g.staleCid, NoCid}
      /\ h.staleOwner = g.staleOwner
  BY DEF IInv, Sound, Base, RecordOk, Handles, Yields
<1>2. ~modem.bridge => modem.cids \subseteq {}
  BY DEF IInv, Traced
<1>3. h.ownerOk /\ h.ownerFresh /\ h.ownerSeen # g.staleOwner /\ modem.bridge
        => g.staleCid \notin modem.cids
  <2>1. h.ownerOk /\ h.ownerFresh /\ modem.bridge => h.ownerSeen = modem.gen
    BY HandlerTraces, HandledIs DEF Traced, IInv
  <2> QED
    BY <2>1 DEF IInv, Traced
<1>4. NoCid \notin modem.cids
  BY NoCidIsNone DEF IInv, TypeOK, Modems
<1>5. CASE g.cid # NoCid /\ h.cid = NoCid
  BY <1>2, <1>5 DEF Handles, CidCounts, Meets
<1>6. CASE ~(g.cid # NoCid /\ h.cid = NoCid) /\ g.staleCid # NoCid /\ h.staleCid = NoCid
  BY <1>1, <1>2, <1>3, <1>4, <1>6 DEF Handles, Counts, Meets
<1>7. CASE h.cid = g.cid /\ h.staleCid = g.staleCid
  BY <1>7
<1> QED
  BY <1>1, <1>5, <1>6, <1>7

\* Then the count still covers what was forgotten.
LEMMA HandlerCovers ==
    ASSUME IInv, NEW h, NEW e, Sound(h), Handles(g, h, e), Meets(e), Handled(h),
           modem' = modem, lost' = lost
    PROVE  Covered'
<1> DEFINE now == modem.cids \ {h.cid, h.staleCid, step.got}
<1> DEFINE kept == Count(h.phase = "ALLOC" /\ h.stepKilled)
<1>1. g' = h /\ Forgotten' = now /\ Reserved' = kept
  <2>1. g' = h /\ step'.got = step.got
    BY HandledIs, HandlerTraces DEF IInv
  <2>2. Forgotten' = now
    BY <2>1 DEF Forgotten
  <2>3. Reserved' = kept
    BY <2>1, ZenonT(30) DEF Reserved, Count
  <2> QED
    BY <2>1, <2>2, <2>3
<1>2. /\ modem.cids \subseteq Cids /\ lost \in Nat
      /\ g.leaked \in Nat /\ h.leaked \in Nat /\ g.leaked <= h.leaked /\ LeakCap \in Nat
  BY BoundsAssumption DEF IInv, TypeOK, Modems, Sound, Base, Gm, Handles, Yields
<1>3. now \in SUBSET Cids /\ Forgotten \in SUBSET Cids
  BY <1>2 DEF Forgotten
<1>4. Cardinality(now) \in Nat /\ Cardinality(Forgotten) \in Nat
  BY <1>3, CidsAreFinite
<1>5. kept \in 0 .. 1 /\ Reserved \in 0 .. 1
  BY DEF Count, Reserved
<1>6. \/ Cardinality(Forgotten) + Reserved <= g.leaked + lost
      \/ LeakCap <= g.leaked + lost
  BY DEF IInv, Covered
<1>7. SUFFICES \/ Cardinality(now) + kept <= h.leaked + lost
               \/ LeakCap <= h.leaked + lost
  BY <1>1 DEF Covered
<1>8. g.cid = NoCid \/ g.staleCid = NoCid
  BY DEF IInv, Sound, Base, RecordOk
<1>9. NoCid \notin modem.cids
  BY NoCidIsNone DEF IInv, TypeOK, Modems
<1>10. CASE g.phase \in StepPhases
  <2>1. now = Forgotten
    BY <1>10 DEF Forgotten, Handles
  <2>2. kept <= Reserved \/ (OneMore(g, h) /\ kept <= Reserved + 1)
    BY <1>10 DEF Handles, Reserved, Count
  <2> HIDE DEF now, kept
  <2> QED
    BY <1>2, <1>4, <1>5, <1>6, <2>1, <2>2 DEF OneMore
<1>11. CASE g.phase \notin StepPhases
  <2>1. kept = 0 /\ Reserved = 0
    BY <1>11 DEF Handles, Reserved, Count, StepPhases
  <2>2. \E x : now \subseteq Forgotten \cup {x}
    <3>1. now \subseteq Forgotten \cup {g.cid} \/ now \subseteq Forgotten \cup {g.staleCid}
      BY <1>8, <1>9 DEF Forgotten
    <3> QED
      BY <3>1
  <2>3. Cardinality(now) <= Cardinality(Forgotten) + 1
    BY <1>3, <2>2, AtMostOneMore
  <2>4. now \subseteq Forgotten \/ OneMore(g, h)
    BY HandlerGives DEF Forgotten
  <2>5. Cardinality(now) <= Cardinality(Forgotten) \/ OneMore(g, h)
    BY <1>3, <2>4, AtMostOneMore
  <2> HIDE DEF now, kept
  <2> QED
    BY <1>2, <1>4, <1>5, <1>6, <2>1, <2>3, <2>5 DEF OneMore
<1> QED
  BY <1>10, <1>11

\* While the count is nothing, nothing was counted.
LEMMA NothingCounted ==
    ASSUME NEW f \in Gm, NEW h \in Gm, NEW n \in Nat,
           f.leaked <= h.leaked, h.leaked + n = 0, LeakCap > 0
    PROVE  f.leaked + n = 0 /\ ~OneMore(f, h)
<1>1. f.leaked \in Nat /\ h.leaked \in Nat /\ LeakCap \in Nat
  BY BoundsAssumption DEF Gm
<1>2. h.leaked = 0 /\ n = 0
  BY <1>1
<1>3. f.leaked = 0
  BY <1>1, <1>2
<1>4. ~(LeakCap <= h.leaked)
  BY <1>1, <1>2
<1> QED
  BY <1>2, <1>3, <1>4 DEF OneMore

\* And no session is left without a client id to stop it by.
LEMMA HandlerStops ==
    ASSUME IInv, NEW h, NEW e, Sound(h), Handles(g, h, e), Meets(e), Handled(h),
           modem' = modem, lost' = lost
    PROVE  Orphans'
<1>1. g' = h
  BY HandledIs DEF IInv
<1> DEFINE mine(c) == c = h.staleCid \/ (c = h.cid /\ (h.session \/ h.phase = "RELEASE"))
<1>0. Orphans' <=> (LeakCap > 0 => (h.leaked + lost = 0 => \A c \in modem.loc : mine(c)))
  BY <1>1, ZenonT(30) DEF Orphans, NoOrphanSession
<1> HIDE DEF mine
<1>2. SUFFICES ASSUME LeakCap > 0, h.leaked + lost = 0, NEW c \in modem.loc
               PROVE  mine(c)
  BY <1>0
<1> USE DEF mine
<1>3. g.leaked + lost = 0 /\ ~OneMore(g, h)
  <2>1. g \in Gm /\ h \in Gm /\ lost \in Nat /\ g.leaked <= h.leaked
    BY BoundsAssumption DEF IInv, TypeOK, Sound, Base, Handles, Yields
  <2> QED
    BY <1>2, <2>1, NothingCounted
<1>4. c \in modem.cids /\ c # NoCid
  BY NoCidIsNone DEF IInv, TypeOK, Modems, Traced
<1>5. c = g.staleCid \/ (c = g.cid /\ (g.session \/ g.phase = "RELEASE"))
  BY <1>2, <1>3 DEF IInv, Orphans, NoOrphanSession
<1>6. modem.cids \cap {g.cid, g.staleCid} = modem.cids \cap {h.cid, h.staleCid}
  BY <1>3, <1>4, HandlerGives
<1>7. /\ h.cid \in {g.cid, NoCid} /\ h.staleCid \in {g.staleCid, NoCid}
      /\ g.cid = NoCid \/ g.staleCid = NoCid
  BY DEF IInv, Sound, Base, RecordOk, Handles, Yields
<1>8. CASE c = g.staleCid
  BY <1>4, <1>6, <1>7, <1>8
<1>9. CASE c = g.cid /\ g.session
  <2>1. c = h.cid
    BY <1>4, <1>6, <1>7, <1>9
  <2> QED
    BY <1>4, <1>9, <2>1 DEF Handles, Guards
<1>10. CASE c = g.cid /\ g.phase = "RELEASE"
  BY <1>10 DEF Handles, StepPhases
<1> QED
  BY <1>5, <1>8, <1>9, <1>10

\* A step of the specification that is such a handler.
Handler(h, e) ==
    /\ Sound(h) /\ Handles(g, h, e) /\ Meets(e) /\ Handled(h)
    /\ UNCHANGED <<modem, crashes, lost>> /\ mode' \in {"serving", "stopping"}

\* It keeps the invariant, whatever it met.
LEMMA HandlerKeeps ==
    ASSUME IInv, NEW h, NEW e, Handler(h, e)
    PROVE  IInv'
<1>1. g' = h /\ step' \in Steps
  BY HandledIs DEF IInv, Handler
<1>2. TypeOK'
  BY <1>1 DEF IInv, TypeOK, Sound, Base, Handler
<1> QED
  BY <1>1, <1>2, HandlerTraces, HandlerCovers, HandlerStops DEF IInv, Handler

\* A lease taken or given back: the new count, and its sync.
LEMMA SyncHandles ==
    ASSUME IInv, NEW n \in 0 .. MaxHeld, NEW e \in Handling
    PROVE  LET h == Sync([g EXCEPT !.held = n], e)
           IN  Sound(h) /\ Handles(g, h, e)
<1> DEFINE f == [g EXCEPT !.held = n]
<1> DEFINE h == Sync(f, e)
<1>1. g \in Gm /\ Sound(g)
  BY DEF IInv, TypeOK
<1>2. f \in Gm /\ SameHold(g, f)
  BY <1>1 DEF Gm, SameHold, Kept, SameOwned
<1> HIDE DEF f
<1>3. Sound(f) /\ Runs(g, f, e)
  BY <1>1, <1>2, HoldIsSound, HoldRuns
<1>4. Sound(h) /\ Runs(f, h, e) /\ h \in Gm
  BY <1>3, SyncSound DEF Sound, Base
<1> HIDE DEF h
<1>5. Handles(g, h, e)
  BY <1>1, <1>2, <1>3, <1>4, RunsOn, RunsHandles
<1> QED
  BY <1>4, <1>5 DEF h, f

\* The client requests and the clock.
LEMMA LoopHandles ==
    ASSUME IInv, Lease \/ Unlease \/ Switch \/ Loaded \/ RetryRequest \/ GmTick
    PROVE  \E h, e : Handler(h, e)
<1>1. TypeOK /\ Sound(g) /\ g \in Gm /\ \A e \in HandlingNow : Meets(e) /\ e \in Handling
  BY HandlingNowIs DEF IInv, TypeOK
<1>2. CASE Lease
  <2>1. g.held + 1 \in 0 .. MaxHeld /\ [g EXCEPT !.held = @ + 1] = [g EXCEPT !.held = g.held + 1]
    BY <1>1, <1>2, BoundsAssumption DEF Lease, Gm
  <2>2. PICK e \in HandlingNow : Handled(Sync([g EXCEPT !.held = g.held + 1], e))
    BY <1>2, <2>1 DEF Lease
  <2> DEFINE h == Sync([g EXCEPT !.held = g.held + 1], e)
  <2>3. Sound(h) /\ Handles(g, h, e)
    BY <1>1, <2>1, SyncHandles
  <2> HIDE DEF h
  <2>4. Handler(h, e)
    BY <1>1, <1>2, <2>2, <2>3 DEF Handler, Lease, TypeOK, h
  <2> QED
    BY <2>4
<1>3. CASE Unlease
  <2>1. PICK left \in 0 .. g.held - 1, e \in HandlingNow :
                Handled(Sync([g EXCEPT !.held = left], e))
    BY <1>3 DEF Unlease
  <2>2. left \in 0 .. MaxHeld
    BY <1>1, BoundsAssumption DEF Gm
  <2> DEFINE h == Sync([g EXCEPT !.held = left], e)
  <2>3. Sound(h) /\ Handles(g, h, e)
    BY <1>1, <2>2, SyncHandles
  <2> HIDE DEF h
  <2>4. Handler(h, e)
    BY <1>1, <1>3, <2>1, <2>3 DEF Handler, Unlease, TypeOK, h
  <2> QED
    BY <2>4
<1>4. CASE Switch \/ Loaded
  <2>1. PICK on \in BOOLEAN, e \in HandlingNow : Handled(SetEnabled(g, e, on))
    BY <1>4 DEF Switch, Loaded
  <2>2. Sound(SetEnabled(g, e, on)) /\ Handles(g, SetEnabled(g, e, on), e)
    BY <1>1, SetEnabledSound, RunsHandles
  <2>3. Handler(SetEnabled(g, e, on), e)
    BY <1>1, <1>4, <2>1, <2>2 DEF Handler, Switch, Loaded, TypeOK
  <2> QED
    BY <2>3
<1>5. CASE RetryRequest
  <2> DEFINE e == [bridge |-> modem.bridge, owner |-> ReadyOwner, nofork |-> {}, drop |-> "none"]
  <2>1. Meets(e)
    BY <1>1, Zero DEF Meets, Handling, ReadyOwner, TypeOK, Modems
  <2> HIDE DEF e
  <2>2. Sound(Retry(g)) /\ Handles(g, Retry(g), e)
    BY <1>1, RetrySound
  <2>3. Handler(Retry(g), e)
    BY <1>1, <1>5, <2>1, <2>2 DEF Handler, RetryRequest, TypeOK
  <2> QED
    BY <2>3
<1>6. CASE GmTick
  <2>1. PICK t \in TimersNow, e \in HandlingNow : Handled(Tick(g, e, t))
    BY <1>6 DEF GmTick, TickWith
  <2>2. Sound(Tick(g, e, t)) /\ Handles(g, Tick(g, e, t), e)
    BY <1>1, TickSound DEF TimersNow
  <2>3. Handler(Tick(g, e, t), e)
    BY <1>1, <1>6, <2>1, <2>2 DEF Handler, GmTick, TickWith, TypeOK
  <2> QED
    BY <2>3
<1> QED
  BY <1>2, <1>3, <1>4, <1>5, <1>6

\* A child that is no step, and the orderly stop.
LEMMA ReapHandles ==
    ASSUME IInv, Stop \/ (\E c \in Children \ {"step"} : ChildExits(c))
    PROVE  \E h, e : Handler(h, e)
<1>1. TypeOK /\ Sound(g) /\ g \in Gm /\ \A e \in HandlingNow : Meets(e) /\ e \in Handling
  BY HandlingNowIs DEF IInv, TypeOK
<1>2. CASE Stop
  <2> DEFINE f == [g EXCEPT !.held = 0, !.leases = 0, !.grace = FALSE, !.failing = FALSE]
  <2>1. f \in Gm
    BY <1>1, Zero, ZenonT(60) DEF Gm
  <2>2. SameHold(g, f)
    BY <1>1 DEF Gm, SameHold, Kept, SameOwned
  <2>3. PICK e \in HandlingNow : Handled(Teardown(f, [e EXCEPT !.drop = "none"]))
    BY <1>2 DEF Stop
  <2> HIDE DEF f
  <2> DEFINE q == [e EXCEPT !.drop = "none"]
  <2> DEFINE h == Teardown(f, q)
  <2>4. q \in Handling /\ Meets(q)
    BY <1>1, HandlingNowIs
  <2>5. Handled(h)
    BY <2>3
  <2> HIDE DEF q
  <2>6. Sound(f) /\ Runs(g, f, q)
    BY <1>1, <2>1, <2>2, HoldIsSound, HoldRuns
  <2>7. Sound(h) /\ h \in Gm /\ Runs(f, h, q)
    BY <2>4, <2>6, TeardownSound DEF Sound, Base
  <2> HIDE DEF h
  <2>8. Handles(g, h, q)
    BY <1>1, <2>1, <2>6, <2>7, RunsOn, RunsHandles
  <2>9. Handler(h, q)
    BY <1>2, <2>4, <2>5, <2>7, <2>8 DEF Handler, Stop
  <2> QED
    BY <2>9
<1>3. CASE \E c \in Children \ {"step"} : ChildExits(c)
  <2>1. PICK c \in Children \ {"step"} : ChildExits(c)
    BY <1>3
  <2>2. PICK e \in HandlingNow : Handled(ChildExited(g, e, c))
    BY <2>1 DEF ChildExits
  <2>3. Sound(ChildExited(g, e, c)) /\ Handles(g, ChildExited(g, e, c), e)
    BY <1>1, <2>1, ChildExitedSound, RunsHandles DEF ChildExits
  <2>4. Handler(ChildExited(g, e, c), e)
    BY <1>1, <2>1, <2>2, <2>3 DEF Handler, ChildExits, TypeOK
  <2> QED
    BY <2>4
<1> QED
  BY <1>2, <1>3

-----------------------------------------------------------------------------
(* The end of a step.                                                       *)

\* What a step that has exited tells: 0 is work done; an allocation that worked names its
\* client id unless it was killed.
Told(ok) == (ok => step.did) /\ (~ok /\ step.got # NoCid => g.stepKilled)

\* The ids the bridge has and the daemon no longer names were known before gm_step_done,
\* or are the one that a killed allocation took with it; or the count went up.
LEMMA StepGives ==
    ASSUME IInv, NEW e, NEW ok \in BOOLEAN, NEW h, Meets(e), Told(ok), "step" \in g.alive,
           Yields(Named(g, ok, step.got), h), Counts(Named(g, ok, step.got), h, e)
                \/ (ok /\ g.phase \in {"RELEASE", "STALE_RELEASE"})
    PROVE  LET now == modem.cids \ {h.cid, h.staleCid}
           IN  /\ g.leaked <= h.leaked
               /\ \E x : now \subseteq Forgotten \cup {x}
               /\ \/ now \subseteq Forgotten
                  \/ OneMore(g, h)
                  \/ g.phase = "ALLOC" /\ g.stepKilled
<1> DEFINE n == Named(g, ok, step.got)
<1> DEFINE now == modem.cids \ {h.cid, h.staleCid}
<1>1. /\ g.cid = NoCid \/ g.staleCid = NoCid
      /\ g.phase = "ALLOC" => g.cid = NoCid /\ g.staleCid = NoCid
  BY DEF IInv, Sound, Base, RecordOk, StalePhases
<1>2. /\ step.got # NoCid => g.phase = "ALLOC"
      /\ ~modem.bridge => modem.cids = {}
      /\ g.phase = "RELEASE" /\ step.did => g.cid \notin modem.cids
      /\ g.phase = "STALE_RELEASE" /\ step.did => g.staleCid \notin modem.cids
  BY DEF IInv, Traced
<1>3. NoCid \notin modem.cids /\ g \in Gm
  BY NoCidIsNone DEF IInv, TypeOK, Modems
<1>4. CASE g.phase = "ALLOC" /\ ok /\ step.got # NoCid
  <2>1. n.cid = step.got /\ n.staleCid = g.staleCid /\ n.leaked = g.leaked
    BY <1>3, <1>4 DEF Named, Gm
  <2>2. /\ h.cid \in {step.got, NoCid} /\ h.staleCid = NoCid /\ g.leaked <= h.leaked
        /\ h.cid = NoCid => ~modem.bridge \/ OneMore(g, h)
    BY <1>1, <1>4, <2>1 DEF Yields, Counts, Meets, OneMore
  <2> QED
    BY <1>1, <1>2, <2>2 DEF Forgotten
<1>5. CASE ~(g.phase = "ALLOC" /\ ok /\ step.got # NoCid)
  <2>1. n = g
    BY <1>5 DEF Named
  <2>2. h.cid \in {g.cid, NoCid} /\ h.staleCid \in {g.staleCid, NoCid} /\ g.leaked <= h.leaked
    BY <2>1 DEF Yields
  <2>3. CASE step.got # NoCid
    BY <1>1, <1>2, <1>5, <2>2, <2>3 DEF Forgotten, Told
  <2>4. CASE step.got = NoCid
    <3>1. \/ now \subseteq Forgotten \cup {g.cid}
          \/ now \subseteq Forgotten \cup {g.staleCid}
      BY <1>1, <1>3, <2>2, <2>4 DEF Forgotten
    <3>2. CASE h.cid = g.cid /\ h.staleCid = g.staleCid
      BY <1>3, <2>2, <2>4, <3>2 DEF Forgotten
    <3>3. CASE (g.cid # NoCid /\ h.cid = NoCid) \/ (g.staleCid # NoCid /\ h.staleCid = NoCid)
      <4>1. CASE Counts(g, h, e)
        BY <1>2, <2>2, <3>1, <3>3, <4>1 DEF Counts, Meets
      <4>2. CASE ok /\ g.phase \in {"RELEASE", "STALE_RELEASE"}
        <5>1. step.did
          BY <4>2 DEF Told
        <5>2. /\ g.phase = "RELEASE" => g.cid # NoCid
              /\ g.phase = "STALE_RELEASE" => g.cid = NoCid
          BY DEF IInv, Sound, StalePhases
        <5> QED
          BY <1>1, <1>2, <1>3, <2>2, <2>4, <3>1, <4>2, <5>1, <5>2 DEF Forgotten
      <4> QED
        BY <2>1, <4>1, <4>2
    <3>4. \/ h.cid = g.cid /\ h.staleCid = g.staleCid
          \/ g.cid # NoCid /\ h.cid = NoCid
          \/ g.staleCid # NoCid /\ h.staleCid = NoCid
      BY <2>2
    <3> QED
      BY <3>2, <3>3, <3>4, ZenonT(30)
  <2> QED
    BY <2>3, <2>4
<1> QED
  BY <1>4, <1>5

\* gm_step_done leaves a struct that is traced and covered, with every session in its care.
LEMMA StepExitKeeps ==
    ASSUME IInv, StepExits
    PROVE  IInv'
<1>1. PICK ok \in BOOLEAN, e \in HandlingNow :
        Told(ok) /\ Handled(StepDone(g, e, ok, step.got))
  BY DEF StepExits, Told
<1> DEFINE h == StepDone(g, e, ok, step.got)
<1> DEFINE n == Named(g, ok, step.got)
<1>2. /\ e \in Handling /\ Meets(e) /\ step.got \in CidOrNone /\ "step" \in g.alive
      /\ Sound(g) /\ g \in Gm
  BY HandlingNowIs DEF IInv, TypeOK, Steps, StepExits
<1>3. /\ Sound(h) /\ Yields(n, h) /\ Guards(n, h) /\ SameOwner(g, h)
      /\ h.phase # "ALLOC" /\ (g.phase # "NMEA" => Hushed(g, h))
      /\ Counts(n, h, e) \/ (ok /\ g.phase \in {"RELEASE", "STALE_RELEASE"})
      /\ g.phase \in {"RELEASE", "STALE_RELEASE"} => h.phase \notin StepPhases /\ h.cid = NoCid
  BY <1>2, StepDoneSound
<1>4. Handled(h)
  BY <1>1
<1> HIDE DEF h
<1>5. UNCHANGED <<modem, mode, crashes, lost>>
  BY DEF StepExits
<1> DEFINE now == modem.cids \ {h.cid, h.staleCid}
<1>6. /\ g.leaked <= h.leaked
      /\ \E x : now \subseteq Forgotten \cup {x}
      /\ now \subseteq Forgotten \/ OneMore(g, h) \/ (g.phase = "ALLOC" /\ g.stepKilled)
  BY <1>1, <1>2, <1>3, StepGives
<1>7. /\ g' = h /\ step' \in Steps /\ h \in Gm
      /\ step'.got = NoCid /\ (h.phase \in {"RELEASE", "STALE_RELEASE"} => ~step'.did)
  <2>1. step.got # NoCid => g.phase = "ALLOC"
    BY DEF IInv, Traced
  <2> QED
    BY <1>3, <1>4, <2>1, HandledIs DEF IInv, Sound, Base, StepPhases
<1>8. NoCid \notin modem.cids
  BY NoCidIsNone DEF IInv, TypeOK, Modems
<1>9. TypeOK'
  BY <1>5, <1>7 DEF IInv, TypeOK
<1>10. Traced'
  <2>1. n.cidOwner = (IF g.phase = "ALLOC" /\ ok /\ step.got # NoCid THEN g.ownerSeen
                                                                     ELSE g.cidOwner)
        /\ n.cid = (IF g.phase = "ALLOC" /\ ok /\ step.got # NoCid THEN step.got ELSE g.cid)
        /\ n.staleCid = g.staleCid /\ n.staleOwner = g.staleOwner
    BY <1>2 DEF Named, Gm
  <2>2. /\ h.cid \in modem.cids => h.cidOwner = modem.gen
        /\ h.staleCid \in modem.cids => h.staleOwner = modem.gen
    BY <1>3, <1>8, <2>1 DEF Yields, IInv, Traced
  <2>3. h.ownerFresh /\ h.ownerOk /\ modem.bridge => h.ownerSeen = modem.gen
    BY <1>3 DEF SameOwner, IInv, Traced
  <2> QED
    BY <1>3, <1>5, <1>7, <2>2, <2>3 DEF IInv, Traced
<1>11. Covered'
  <2>1. Forgotten' = now
    BY <1>5, <1>7, <1>8 DEF Forgotten
  <2>2. Reserved' = 0
    BY <1>3, <1>7 DEF Reserved, Count
  <2>3. now \in SUBSET Cids /\ Forgotten \in SUBSET Cids
    BY DEF Forgotten, IInv, TypeOK, Modems
  <2>4. /\ now \subseteq Forgotten => Cardinality(now) <= Cardinality(Forgotten)
        /\ Cardinality(now) <= Cardinality(Forgotten) + 1
        /\ Cardinality(now) \in Nat /\ Cardinality(Forgotten) \in Nat
    BY <1>6, <2>3, AtMostOneMore, CidsAreFinite
  <2>5. Reserved \in 0 .. 1 /\ (g.phase = "ALLOC" /\ g.stepKilled => Reserved = 1)
    BY DEF Reserved, Count
  <2>6. lost \in Nat /\ g.leaked \in Nat /\ h.leaked \in Nat /\ LeakCap \in Nat
    BY <1>2, <1>7, BoundsAssumption DEF Gm, IInv, TypeOK
  <2>7. \/ Cardinality(Forgotten) + Reserved <= g.leaked + lost
        \/ LeakCap <= g.leaked + lost
    BY DEF IInv, Covered
  <2>8. Cardinality(now) <= Cardinality(Forgotten) + Reserved \/ OneMore(g, h)
    BY <1>6, <2>4, <2>5
  <2> HIDE DEF now
  <2>9. Cardinality(now) + 0 <= h.leaked + lost \/ LeakCap <= h.leaked + lost
    BY <1>6, <2>4, <2>5, <2>6, <2>7, <2>8 DEF OneMore
  <2> QED
    BY <1>5, <1>7, <2>1, <2>2, <2>9 DEF Covered
<1>12. Orphans'
  <2> DEFINE mine(c) == c = h.staleCid \/ (c = h.cid /\ (h.session \/ h.phase = "RELEASE"))
  <2>1. Orphans' <=> (LeakCap > 0 => (h.leaked + lost = 0 => \A c \in modem.loc : mine(c)))
    BY <1>5, <1>7, ZenonT(30) DEF Orphans, NoOrphanSession
  <2> HIDE DEF mine
  <2>2. SUFFICES ASSUME LeakCap > 0, h.leaked + lost = 0, NEW c \in modem.loc
                 PROVE  mine(c)
    BY <2>1
  <2>3. lost \in Nat
    BY BoundsAssumption DEF IInv, TypeOK
  <2>4. g.leaked + lost = 0 /\ ~OneMore(g, h)
    BY <1>2, <1>6, <1>7, <2>2, <2>3, NothingCounted
  <2>5. c \in modem.cids /\ c # NoCid
    BY <1>8, <2>2 DEF IInv, Traced
  <2>6. c = g.staleCid \/ (c = g.cid /\ (g.session \/ g.phase = "RELEASE"))
    BY <2>2, <2>4 DEF IInv, Orphans, NoOrphanSession
  <2>7. c \in Forgotten => g.phase # "ALLOC" \/ step.got = NoCid
    BY <2>6 DEF Forgotten
  <2>8. c = h.cid \/ c = h.staleCid
    <3>1. c \notin Forgotten
      BY <2>6 DEF Forgotten
    <3>2. CASE g.phase = "ALLOC"
      BY <1>2, <2>5, <2>6, <3>2 DEF Sound, StalePhases
    <3>3. CASE g.phase # "ALLOC"
      BY <1>6, <2>4, <2>5, <3>1, <3>3
    <3> QED
      BY <3>2, <3>3
  <2>9. g.phase = "RELEASE" => c = h.staleCid
    BY <1>3, <2>5, <2>8
  <2>10. CASE c = g.staleCid
    <3>1. g.cid = NoCid /\ g.phase # "ALLOC"
      BY <1>2, <2>5, <2>10 DEF Sound, Base, RecordOk, StalePhases
    <3>2. h.cid = NoCid
      BY <1>3, <3>1 DEF Yields, Named
    <3> QED
      BY <2>5, <2>8, <3>2 DEF mine
  <2>11. CASE c = g.cid /\ g.session
    <3>1. n = g
      BY <1>2, <2>5, <2>11 DEF Named, Sound
    <3> QED
      BY <1>3, <2>5, <2>8, <2>11, <3>1 DEF Guards, mine
  <2> QED
    BY <2>6, <2>9, <2>10, <2>11 DEF mine
<1> QED
  BY <1>3, <1>7, <1>9, <1>10, <1>11, <1>12 DEF IInv

-----------------------------------------------------------------------------
(* Death, respawn, and the modem's side.                                    *)

\* A death and the next instance.  The record covers the client id the daemon held, and
\* the allocation it may have died in is counted.
LEMMA RespawnKeeps ==
    ASSUME IInv, NEW rec \in Records, Respawn(rec), crashes < MaxCrashes,
           rec = g.rec \/ (g.phase = "IDLE" /\ g.cid = NoCid /\ g.staleCid = NoCid /\ rec = NoRecord)
    PROVE  IInv'
<1>1. /\ g \in Gm /\ crashes \in 0 .. MaxCrashes /\ lost \in 0 .. LeakCap /\ modem \in Modems
      /\ Sound(g)
  BY DEF IInv, TypeOK
<1>2. PICK loaded \in BOOLEAN : g' = Boot(rec, loaded)
  BY DEF Respawn
<1>3. /\ Sound(g') /\ g' \in Gm
      /\ g'.cid = NoCid /\ g'.staleCid = rec.cid /\ g'.staleOwner = rec.owner
      /\ g'.phase = "IDLE" /\ g'.ownerFresh = FALSE /\ g'.leaked = 0
  BY <1>2, BootSound DEF Boot, Sound, Base
<1>4. /\ step' = NoStep /\ step' \in Steps /\ step'.did = FALSE /\ step'.got = NoCid
      /\ modem' = modem /\ lost' = LostAtDeath
  BY Zero DEF Respawn, NoStep, Steps
<1>5. NoCid \notin modem.cids
  BY <1>1, NoCidIsNone DEF Modems
<1>6. rec.cid # NoCid => \/ rec.cid = g.cid /\ rec.owner = g.cidOwner
                         \/ rec.cid = g.staleCid /\ rec.owner = g.staleOwner
  BY <1>1, Zero DEF Sound, Base, RecordOk
<1>7. /\ g.cid # NoCid => rec.cid = g.cid
      /\ g.staleCid # NoCid => rec.cid = g.staleCid
  BY <1>1 DEF Sound, Base, RecordOk
<1>8. g.leaked \in Nat /\ lost \in Nat /\ LeakCap \in Nat
  BY <1>1, BoundsAssumption DEF Gm
<1> DEFINE risk == Count(g.phase = "ALLOC")
<1>9. risk \in 0 .. 1 /\ Reserved \in 0 .. 1 /\ Reserved <= risk
      /\ (g.phase = "ALLOC" => risk = 1)
  BY DEF Count, Reserved
<1>10. /\ LostAtDeath \in 0 .. LeakCap
       /\ LostAtDeath = lost + g.leaked + risk \/ LeakCap <= LostAtDeath
       /\ LostAtDeath = 0 /\ LeakCap > 0 => lost = 0 /\ g.leaked = 0 /\ risk = 0
  BY <1>8, <1>9 DEF LostAtDeath
<1>11. TypeOK'
  <2>1. crashes' \in 0 .. MaxCrashes
    BY <1>1, ChoicesAssumption DEF Respawn
  <2> QED
    BY <1>1, <1>3, <1>4, <1>10, <2>1 DEF TypeOK, Respawn
<1>12. Traced'
  BY <1>3, <1>4, <1>5, <1>6 DEF IInv, Traced
<1>13. Covered'
  <2> DEFINE now == modem.cids \ {NoCid, rec.cid}
  <2>1. Forgotten' = now /\ Reserved' = 0
    BY <1>3, <1>4 DEF Forgotten, Reserved, Count
  <2>2. now \subseteq Forgotten \cup {step.got} /\ (g.phase # "ALLOC" => now \subseteq Forgotten)
    BY <1>5, <1>7 DEF Forgotten, IInv, Traced
  <2>3. now \in SUBSET Cids /\ Forgotten \in SUBSET Cids
    BY <1>1 DEF Forgotten, Modems
  <2>4. /\ now \subseteq Forgotten => Cardinality(now) <= Cardinality(Forgotten)
        /\ Cardinality(now) <= Cardinality(Forgotten) + 1
        /\ Cardinality(now) \in Nat /\ Cardinality(Forgotten) \in Nat
    BY <2>2, <2>3, AtMostOneMore, CidsAreFinite
  <2>5. \/ Cardinality(Forgotten) + Reserved <= g.leaked + lost
        \/ LeakCap <= g.leaked + lost
    BY DEF IInv, Covered
  <2>6. Cardinality(now) <= Cardinality(Forgotten) + risk
    BY <1>9, <2>2, <2>4
  <2> HIDE DEF now, risk
  <2>7. Cardinality(now) + 0 <= 0 + LostAtDeath \/ LeakCap <= 0 + LostAtDeath
    <3>1. CASE LeakCap <= LostAtDeath
      BY <1>8, <1>10, <3>1
    <3>2. CASE LostAtDeath = lost + g.leaked + risk
      <4>1. risk \in 0 .. 1 /\ Reserved \in 0 .. 1 /\ LostAtDeath \in Int
        BY <1>8, <1>9, <3>2
      <4>2. g.leaked + lost <= LostAtDeath
        BY <1>8, <3>2, <4>1
      <4>3. CASE Cardinality(Forgotten) + Reserved <= g.leaked + lost
        <5>1. Cardinality(Forgotten) <= g.leaked + lost
          BY <1>8, <2>4, <4>1, <4>3
        <5> QED
          BY <1>8, <2>4, <2>6, <3>2, <4>1, <5>1
      <4>4. CASE LeakCap <= g.leaked + lost
        BY <1>8, <4>1, <4>2, <4>4
      <4> QED
        BY <2>5, <4>3, <4>4
    <3> QED
      BY <1>10, <3>1, <3>2
  <2> QED
    BY <1>3, <1>4, <2>1, <2>7 DEF Covered
<1>14. Orphans'
  <2> DEFINE mine(c) == c = rec.cid \/ (c = NoCid /\ (g'.session \/ g'.phase = "RELEASE"))
  <2>1. Orphans' <=> (LeakCap > 0 => (0 + LostAtDeath = 0 => \A c \in modem.loc : mine(c)))
    BY <1>3, <1>4, ZenonT(30) DEF Orphans, NoOrphanSession
  <2>2. SUFFICES ASSUME LeakCap > 0, 0 + LostAtDeath = 0, NEW c \in modem.loc
                 PROVE  c = rec.cid
    BY <2>1
  <2>3. g.leaked + lost = 0
    BY <1>8, <1>10, <2>2
  <2>4. c = g.staleCid \/ c = g.cid
    BY <2>2, <2>3 DEF IInv, Orphans, NoOrphanSession
  <2>5. c # NoCid
    BY <1>5, <2>2 DEF IInv, Traced
  <2> QED
    BY <1>7, <2>4, <2>5
<1> QED
  BY <1>3, <1>11, <1>12, <1>13, <1>14 DEF IInv

\* qmicli's work at the modem: an id given out is in its output, a session begins on the
\* daemon's own id, and what is stopped or released is the id that the step was for.
LEMMA StepActsKeeps ==
    ASSUME IInv, StepActs
    PROVE  IInv'
<1>1. /\ TypeOK /\ Sound(g) /\ g \in Gm /\ modem \in Modems /\ step \in Steps /\ Traced
      /\ modem.cids \subseteq Cids /\ modem.loc \subseteq Cids /\ NoCid \notin Cids
  BY NoCidIsNone DEF IInv, TypeOK, Modems
<1>2. /\ "step" \in g.alive /\ modem.bridge /\ step.on = modem.gen /\ ~step.did
      /\ UNCHANGED <<g, mode, crashes, lost>>
  BY DEF StepActs
<1>3. step.got = NoCid /\ modem.gen # NoOwner
  BY <1>1, <1>2 DEF Traced
<1> DEFINE own == {IF g.phase \in {"STALE_STOP", "STALE_RELEASE"} THEN g.staleCid ELSE g.cid}
                    \cap modem.cids
<1>4. CASE g.phase = "ALLOC"
  <2>1. PICK c \in Cids \ modem.cids :
            /\ modem' = [modem EXCEPT !.cids = @ \cup {c}]
            /\ step' = [step EXCEPT !.did = TRUE, !.got = c]
    BY <1>4 DEF StepActs
  <2>2. /\ modem'.cids = modem.cids \cup {c} /\ modem'.loc = modem.loc
        /\ modem'.gen = modem.gen /\ modem'.bridge = modem.bridge /\ modem'.ready = modem.ready
        /\ step'.did = TRUE /\ step'.got = c /\ step'.on = step.on
    BY <1>1, <2>1 DEF Modems, Steps
  <2>3. TypeOK'
    <3>1. modem' \in Modems
      BY <1>1, <2>1 DEF Modems
    <3>2. step' \in Steps
      BY <1>1, <2>1 DEF Steps, CidOrNone
    <3> QED
      BY <1>1, <1>2, <3>1, <3>2 DEF TypeOK
  <2>4. g.cid = NoCid /\ g.staleCid = NoCid
    BY <1>1, <1>4 DEF Sound, StalePhases
  <2>5. Traced'
    BY <1>1, <1>2, <1>3, <1>4, <2>2, <2>4 DEF Traced
  <2>6. Forgotten' = Forgotten
    BY <1>1, <1>2, <1>3, <2>2 DEF Forgotten
  <2>7. Covered'
    BY <1>2, <2>6 DEF IInv, Covered, Reserved
  <2>8. Orphans'
    BY <1>2, <2>2 DEF IInv, Orphans, NoOrphanSession
  <2> QED
    BY <1>1, <1>2, <2>3, <2>5, <2>7, <2>8 DEF IInv
<1>5. CASE g.phase # "ALLOC"
  <2>1. /\ step' = [step EXCEPT !.did = TRUE]
        /\ \/ g.phase = "START" /\ modem' = [modem EXCEPT !.loc = @ \cup own]
           \/ g.phase \in {"LOCSTOP", "STALE_STOP"} /\ modem' = [modem EXCEPT !.loc = @ \ own]
           \/ /\ g.phase \in {"RELEASE", "STALE_RELEASE"}
              /\ modem' = [modem EXCEPT !.cids = @ \ own, !.loc = @ \ own]
           \/ g.phase \notin {"RELEASE", "STALE_RELEASE"} /\ modem' = modem
    BY <1>5 DEF StepActs
  <2>2. step' \in Steps /\ step'.did = TRUE /\ step'.got = NoCid
    BY <1>1, <1>3, <2>1 DEF Steps
  <2>10. /\ own \subseteq Cids /\ own \subseteq modem.cids
         /\ g.phase = "RELEASE" => own = {g.cid} \cap modem.cids
         /\ g.phase = "STALE_RELEASE" => own = {g.staleCid} \cap modem.cids
         /\ g.phase = "START" => own \subseteq {g.cid}
    BY <1>1
  <2> HIDE DEF own
  <2>3. /\ modem' \in Modems
        /\ modem'.gen = modem.gen /\ modem'.bridge = modem.bridge
        /\ modem'.cids \subseteq modem.cids
        /\ modem'.loc \subseteq modem'.cids
        /\ modem.cids \subseteq modem'.cids \cup own
        /\ g.phase \notin {"RELEASE", "STALE_RELEASE"} => modem'.cids = modem.cids
        /\ g.phase \in {"RELEASE", "STALE_RELEASE"} => modem'.cids \cap own = {}
        /\ modem'.loc \subseteq modem.loc \cup (IF g.phase = "START" THEN own ELSE {})
    <3>0. modem.loc \subseteq modem.cids
      BY <1>1 DEF Traced
    <3>1. CASE g.phase = "START"
      BY <1>1, <2>1, <2>10, <3>0, <3>1 DEF Modems
    <3>2. CASE g.phase \in {"LOCSTOP", "STALE_STOP"}
      BY <1>1, <2>1, <2>10, <3>0, <3>2 DEF Modems
    <3>3. CASE g.phase \in {"RELEASE", "STALE_RELEASE"}
      <4>1. modem' = [modem EXCEPT !.cids = modem.cids \ own, !.loc = modem.loc \ own]
        BY <2>1, <3>3
      <4>2. /\ modem' \in Modems /\ modem'.gen = modem.gen /\ modem'.bridge = modem.bridge
            /\ modem'.cids = modem.cids \ own /\ modem'.loc = modem.loc \ own
        BY <1>1, <4>1 DEF Modems
      <4> QED
        BY <3>0, <3>3, <4>2
    <3>4. CASE g.phase \notin {"START", "LOCSTOP", "STALE_STOP", "RELEASE", "STALE_RELEASE"}
      BY <1>1, <2>1, <2>10, <3>0, <3>4 DEF Modems
    <3> QED
      BY <3>1, <3>2, <3>3, <3>4
  <2>5. /\ g.phase = "RELEASE" => g.cid \notin modem'.cids
        /\ g.phase = "STALE_RELEASE" => g.staleCid \notin modem'.cids
    BY <2>3, <2>10
  <2>6. TypeOK'
    BY <1>1, <1>2, <2>2, <2>3 DEF TypeOK
  <2>7. Traced'
    BY <1>1, <1>2, <1>5, <2>2, <2>3, <2>5 DEF Traced
  <2>8. Covered'
    <3>1. Forgotten' \subseteq Forgotten
      <4>1. /\ Forgotten' = modem'.cids \ {g.cid, g.staleCid, NoCid}
            /\ Forgotten = modem.cids \ {g.cid, g.staleCid, NoCid}
        BY <1>2, <1>3, <2>2 DEF Forgotten
      <4> QED
        BY <2>3, <4>1
    <3>2. Forgotten' \in SUBSET Cids /\ Forgotten \in SUBSET Cids
      BY <1>1, <2>3, <3>1 DEF Forgotten
    <3>3. /\ Cardinality(Forgotten') <= Cardinality(Forgotten)
          /\ Cardinality(Forgotten') \in Nat /\ Cardinality(Forgotten) \in Nat
      BY <3>1, <3>2, AtMostOneMore, CidsAreFinite
    <3>4. Reserved' = 0 /\ Reserved = 0
      BY <1>2, <1>5 DEF Reserved, Count
    <3>5. g.leaked + lost \in Nat /\ g' = g /\ lost' = lost
      BY <1>1, <1>2, BoundsAssumption DEF TypeOK, Gm
    <3>6. Cardinality(Forgotten) + 0 <= g.leaked + lost \/ LeakCap <= g.leaked + lost
      BY <3>4 DEF IInv, Covered
    <3>7. Cardinality(Forgotten') + 0 <= g.leaked + lost \/ LeakCap <= g.leaked + lost
      BY <3>3, <3>5, <3>6
    <3> QED
      BY <3>4, <3>5, <3>7 DEF Covered
  <2>9. Orphans'
    <3> DEFINE mine(c) == c = g.staleCid \/ (c = g.cid /\ (g.session \/ g.phase = "RELEASE"))
    <3>1. Orphans' <=> (LeakCap > 0 => (g.leaked + lost = 0 => \A c \in modem'.loc : mine(c)))
      BY <1>2, ZenonT(30) DEF Orphans, NoOrphanSession
    <3>2. Orphans <=> (LeakCap > 0 => (g.leaked + lost = 0 => \A c \in modem.loc : mine(c)))
      BY Zenon DEF Orphans, NoOrphanSession
    <3>3. \A c \in modem'.loc : c \in modem.loc \/ mine(c)
      BY <1>1, <2>3, <2>10 DEF Sound
    <3> HIDE DEF mine
    <3> QED
      BY <3>1, <3>2, <3>3, ZenonT(30) DEF IInv
  <2> QED
    BY <1>1, <1>2, <2>6, <2>7, <2>8, <2>9 DEF IInv
<1> QED
  BY <1>4, <1>5

\* The bridge comes and goes, an owner gets ready, and an owner check ages.
LEMMA ModemKeeps ==
    ASSUME IInv, OwnerCheckAges \/ BridgeDies \/ BridgeStarts \/ OwnerReady
    PROVE  IInv'
<1>1. /\ TypeOK /\ Sound(g) /\ g \in Gm /\ modem \in Modems /\ step \in Steps /\ Traced
      /\ NoCid \notin Cids
  BY NoCidIsNone DEF IInv, TypeOK
<1>2. CASE OwnerCheckAges
  <2> DEFINE f == [g EXCEPT !.ownerFresh = FALSE]
  <2>1. /\ f \in Gm /\ Holds(g, f) /\ f.leaked = g.leaked /\ f.stepKilled = g.stepKilled
        /\ f.ownerFresh = FALSE /\ f.ownerSeen = g.ownerSeen
    BY <1>1 DEF Gm, Holds
  <2>2. g' = f /\ UNCHANGED <<modem, step, mode, crashes, lost>>
    BY <1>2 DEF OwnerCheckAges
  <2> HIDE DEF f
  <2>3. Sound(f)
    BY <1>1, <2>1, HoldsIsSound
  <2>4. TypeOK' /\ Traced'
    BY <1>1, <2>1, <2>2 DEF TypeOK, Traced, Holds
  <2>5. Covered' /\ Orphans'
    BY <2>1, <2>2 DEF IInv, Covered, Forgotten, Reserved, Orphans, NoOrphanSession, Holds
  <2> QED
    BY <2>2, <2>3, <2>4, <2>5 DEF IInv
<1>3. CASE BridgeDies
  <2>1. /\ modem' \in Modems /\ modem'.bridge = FALSE /\ modem'.cids = {} /\ modem'.loc = {}
        /\ UNCHANGED <<g, step, mode, crashes, lost>>
    BY <1>1, <1>3 DEF BridgeDies, Modems
  <2>2. TypeOK' /\ Traced'
    BY <1>1, <2>1 DEF TypeOK, Traced
  <2>3. Orphans'
    BY <2>1 DEF Orphans, NoOrphanSession
  <2>4. Covered'
    <3>1. Forgotten' = {} /\ Reserved' = Reserved /\ g' = g /\ lost' = lost
      BY <2>1 DEF Forgotten, Reserved
    <3>2. Forgotten \in SUBSET Cids
      BY <1>1 DEF Forgotten, Modems
    <3>3. Cardinality({}) = 0 /\ Cardinality(Forgotten) \in Nat
      BY <3>2, FS_EmptySet, CidsAreFinite
    <3>4. Reserved \in 0 .. 1 /\ g.leaked + lost \in Nat
      BY <1>1, BoundsAssumption DEF Reserved, Count, TypeOK, Gm
    <3>5. Cardinality(Forgotten) + Reserved <= g.leaked + lost \/ LeakCap <= g.leaked + lost
      BY DEF IInv, Covered
    <3>6. 0 + Reserved <= g.leaked + lost \/ LeakCap <= g.leaked + lost
      BY <3>3, <3>4, <3>5
    <3> QED
      BY <3>1, <3>3, <3>6 DEF Covered
  <2> QED
    BY <2>1, <2>2, <2>3, <2>4 DEF IInv, Sound, Base, RecordOk
<1>4. CASE BridgeStarts
  <2>1. modem.gen + 1 \in OwnerOrNone /\ modem.gen + 1 # NoOwner
    BY <1>1, <1>4, BoundsAssumption DEF BridgeStarts, Modems, OwnerOrNone, NoOwner
  <2>2. /\ modem' \in Modems /\ modem'.gen # NoOwner
        /\ modem'.cids = modem.cids /\ modem'.loc = modem.loc /\ modem.bridge = FALSE
        /\ ~(g.ownerFresh /\ g.ownerOk) /\ UNCHANGED <<g, step, mode, crashes, lost>>
    BY <1>1, <1>4, <2>1 DEF BridgeStarts, Modems
  <2>3. TypeOK' /\ Traced'
    BY <1>1, <2>2 DEF TypeOK, Traced
  <2>4. Covered' /\ Orphans'
    BY <2>2 DEF IInv, Covered, Forgotten, Reserved, Orphans, NoOrphanSession
  <2> QED
    BY <2>2, <2>3, <2>4 DEF IInv, Sound, Base, RecordOk
<1>5. CASE OwnerReady
  <2>1. /\ modem' \in Modems /\ modem'.gen = modem.gen /\ modem'.bridge = modem.bridge
        /\ modem'.cids = modem.cids /\ modem'.loc = modem.loc
        /\ UNCHANGED <<g, step, mode, crashes, lost>>
    BY <1>1, <1>5 DEF OwnerReady, Modems
  <2>2. TypeOK' /\ Traced'
    BY <1>1, <2>1 DEF TypeOK, Traced
  <2>3. Covered' /\ Orphans'
    BY <2>1 DEF IInv, Covered, Forgotten, Reserved, Orphans, NoOrphanSession
  <2> QED
    BY <2>1, <2>2, <2>3 DEF IInv, Sound, Base, RecordOk
<1> QED
  BY <1>2, <1>3, <1>4, <1>5

-----------------------------------------------------------------------------
(* The theorems.                                                            *)

\* The daemon starts with no record at a modem that has given nothing out.
LEMMA InitIsSound == Init => IInv
<1> SUFFICES ASSUME Init PROVE IInv
  OBVIOUS
<1>1. /\ Sound(g) /\ g \in Gm /\ g.cid = NoCid /\ g.staleCid = NoCid /\ g.phase = "IDLE"
      /\ g.ownerFresh = FALSE /\ g.leaked = 0
  BY BootSound, Zero DEF Init, Boot, Sound, Base
<1>2. modem \in Modems /\ step \in Steps
  BY Zero DEF Init, Modems, NoStep, Steps
<1>3. crashes \in 0 .. MaxCrashes /\ lost \in 0 .. LeakCap /\ lost = 0
  BY BoundsAssumption, ChoicesAssumption DEF Init
<1>4. modem.cids = {} /\ modem.loc = {} /\ modem.bridge = FALSE /\ step = NoStep
  BY DEF Init
<1>5. TypeOK
  BY <1>1, <1>2, <1>3 DEF Init, TypeOK
<1>6. Traced
  BY <1>1, <1>4 DEF Traced, NoStep
<1>7. Covered
  <2>1. Forgotten = {} /\ Reserved = 0
    BY <1>1, <1>4 DEF Forgotten, Reserved, Count
  <2> QED
    BY <1>1, <1>3, <2>1, FS_EmptySet DEF Covered
<1>8. Orphans
  BY <1>4 DEF Orphans, NoOrphanSession
<1> QED
  BY <1>1, <1>5, <1>6, <1>7, <1>8 DEF IInv

\* What a death or an orderly exit leaves to the next instance.
LEMMA DeathKeeps ==
    ASSUME IInv, Crash \/ Exit
    PROVE  IInv'
<1>1. g.rec \in Records
  BY DEF IInv, TypeOK, Gm
<1>2. CASE Crash
  BY <1>1, <1>2, RespawnKeeps DEF Crash
<1>3. CASE Exit
  <2> DEFINE clean == g.phase = "IDLE" /\ g.staleCid = NoCid /\ g.cid = NoCid
  <2> DEFINE rec == IF clean THEN NoRecord ELSE g.rec
  <2>1. Respawn(rec) /\ crashes < MaxCrashes
    BY <1>3 DEF Exit
  <2>2. rec \in Records /\ (rec = g.rec \/ (clean /\ rec = NoRecord))
    BY <1>1, Zero
  <2> HIDE DEF rec
  <2> QED
    BY <2>1, <2>2, RespawnKeeps
<1> QED
  BY <1>2, <1>3

\* The invariant is inductive: one handler after another, whatever they meet.
THEOREM SpecSound == Spec => []IInv
<1>1. Init => IInv
  BY InitIsSound
<1>2. IInv /\ [Next]_vars => IInv'
  <2> SUFFICES ASSUME IInv, [Next]_vars PROVE IInv'
    OBVIOUS
  <2>1. CASE UNCHANGED vars
    <3>1. TypeOK' /\ Sound(g)' /\ Traced'
      BY <2>1 DEF vars, IInv, TypeOK, Traced
    <3>2. Covered' /\ Orphans'
      BY <2>1 DEF vars, IInv, Covered, Forgotten, Reserved, Orphans, NoOrphanSession
    <3> QED
      BY <3>1, <3>2 DEF IInv
  <2> QED
    BY <2>1, LoopHandles, ReapHandles, HandlerKeeps, StepExitKeeps, StepActsKeeps, ModemKeeps, DeathKeeps DEF Next
<1> QED
  BY <1>1, <1>2, PTL DEF Spec

\* Type correctness, for every value of the constants.
THEOREM SpecTypeOK == Spec => []TypeOK
<1>1. IInv => TypeOK
  BY DEF IInv
<1> QED
  BY <1>1, SpecSound, PTL

\* The phase and the step in flight never part (gm_step_done and gm_tick rely on it).
THEOREM SpecStepMatchesPhase == Spec => []StepMatchesPhase
<1>1. IInv => StepMatchesPhase
  BY DEF IInv, Sound, StepMatchesPhase
<1> QED
  BY <1>1, SpecSound, PTL

\* gm_finish and gm_stale_done are reached with nothing left to give back.
THEOREM SpecNothingOwnedAtRest == Spec => []NothingOwnedAtRest
<1>1. IInv => NothingOwnedAtRest
  BY RestIsBare DEF IInv, Base, Bare, NothingOwnedAtRest
<1> QED
  BY <1>1, SpecSound, PTL

\* DIR/state covers the client id at every instant a death can come.
THEOREM SpecRecordCoversCid == Spec => []RecordCoversCid
<1>1. IInv => RecordCoversCid
  BY DEF IInv, Sound, Base, RecordOk, RecordCoversCid
<1> QED
  BY <1>1, SpecSound, PTL

\* Nothing of the daemon's stays at the modem unknown to it, through failed releases, killed
\* allocations, replaced owners and deaths, as long as the model counts as many leaks as
\* there are client ids (beyond LeakCap it stops, and the count says nothing).
THEOREM SpecNothingLeftBehind ==
    ASSUME Cardinality(Cids) <= LeakCap
    PROVE  Spec => []NothingLeftBehind
<1>1. ASSUME IInv PROVE NothingLeftBehind
  <2>1. /\ modem.cids \in SUBSET Cids /\ modem.loc \subseteq modem.cids
        /\ Forgotten \in SUBSET Cids /\ Forgotten = modem.cids \ {g.cid, g.staleCid, step.got}
    BY <1>1 DEF IInv, TypeOK, Modems, Traced, Forgotten
  <2>2. /\ IsFiniteSet(Cids) /\ Cardinality(Cids) \in Nat
        /\ Cardinality(Forgotten) \in Nat /\ Cardinality(Forgotten) <= Cardinality(Cids)
    BY <2>1, CidsAreFinite, AtMostOneMore
  <2>3. g.leaked + lost \in Nat /\ LeakCap \in Nat /\ Reserved \in 0 .. 1
    BY <1>1, BoundsAssumption DEF IInv, TypeOK, Gm, Reserved, Count
  <2>4. NoUncountedLeak
    <3>1. Cardinality(Forgotten) + Reserved <= g.leaked + lost \/ LeakCap <= g.leaked + lost
      BY <1>1 DEF IInv, Covered
    <3>2. Cardinality(Forgotten) <= g.leaked + lost
      BY <2>2, <2>3, <3>1
    <3> QED
      BY <2>1, <3>2 DEF NoUncountedLeak
  <2>5. NoOrphanSession
    <3>1. CASE LeakCap > 0
      BY <1>1, <3>1 DEF IInv, Orphans
    <3>2. CASE ~(LeakCap > 0)
      <4>1. Cardinality(Cids) = 0
        BY <2>2, <2>3, <3>2
      <4>2. Cids = {}
        BY <2>2, <4>1, FS_EmptySet
      <4> QED
        BY <2>1, <4>2 DEF NoOrphanSession
    <3> QED
      BY <3>1, <3>2
  <2> QED
    BY <2>4, <2>5 DEF NothingLeftBehind
<1> QED
  BY <1>1, SpecSound, PTL

-----------------------------------------------------------------------------
(* The demand: leases, the switch, failing and parking.                     *)

\* A step that leaves the struct at h keeps the control of it, and what is served of it
\* unless a watcher is dropped at the switch's own line.
Follows(h, e) == g' = h /\ Controls(g, h, e) /\ e.drop \in Drops \cup {"none"}

\* A parked struct stays parked, or nobody has a lease any more.
Patient(h) == g.parked => (h.parked /\ h.phase = "IDLE") \/ h.leases = 0

\* Nobody is dropped anywhere else.
LEMMA DropsAreGiven == \A e \in HandlingNow : e.drop \in Drops \cup {"none"}
<1> SUFFICES ASSUME NEW e \in HandlingNow
             PROVE  e.drop \in Drops \cup {"none"}
  OBVIOUS
<1>1. PICK nf \in NoForkSets, d \in DropsNow :
        e = [bridge |-> modem.bridge, owner |-> ReadyOwner, nofork |-> nf, drop |-> d]
  BY DEF HandlingNow
<1> QED
  BY <1>1 DEF DropsNow

\* A parked struct is at rest, failed.
LEMMA ParkedAtRest ==
    ASSUME Control(g), g.parked
    PROVE  Parked(g)
BY DEF Control, Reasoned, Parked

\* A new count of leases.
LEMMA SyncFollows ==
    ASSUME Control(g), NEW n \in 0 .. MaxHeld, NEW e \in HandlingNow, e \in Handling,
           Handled(Sync([g EXCEPT !.held = n], e))
    PROVE  \E h, x : Follows(h, x) /\ Patient(h)
<1> DEFINE h == Sync([g EXCEPT !.held = n], e)
<1>1. Controls(g, h, e)
  BY HeldControls
<1>2. Parked(g) => Parked(h) \/ h.leases = 0
  BY HeldParked
<1>3. g' = h
  BY DEF Handled
<1> HIDE DEF h
<1>4. Follows(h, e)
  BY <1>1, <1>3, DropsAreGiven DEF Follows
<1>5. Patient(h)
  BY <1>2, ParkedAtRest DEF Patient, Parked
<1> QED
  BY <1>4, <1>5

\* The client requests and the clock.
LEMMA LoopFollows ==
    ASSUME IInv, Control(g), Lease \/ Unlease \/ Switch \/ Loaded \/ GmTick
    PROVE  \E h, e : Follows(h, e) /\ Patient(h)
<1>1. TypeOK /\ Sound(g) /\ g \in Gm /\ \A e \in HandlingNow : e \in Handling
  BY HandlingNowIs DEF IInv, TypeOK
<1>2. CASE Lease
  <2>1. g.held + 1 \in 0 .. MaxHeld /\ [g EXCEPT !.held = @ + 1] = [g EXCEPT !.held = g.held + 1]
    BY <1>1, <1>2, BoundsAssumption DEF Lease, Gm
  <2>2. PICK e \in HandlingNow : Handled(Sync([g EXCEPT !.held = g.held + 1], e))
    BY <1>2, <2>1 DEF Lease
  <2> QED
    BY <1>1, <2>1, <2>2, SyncFollows
<1>3. CASE Unlease
  <2>1. PICK left \in 0 .. g.held - 1, e \in HandlingNow :
                Handled(Sync([g EXCEPT !.held = left], e))
    BY <1>3 DEF Unlease
  <2>2. left \in 0 .. MaxHeld
    BY <1>1, BoundsAssumption DEF Gm
  <2> QED
    BY <1>1, <2>1, <2>2, SyncFollows
<1>4. CASE Switch \/ Loaded
  <2>1. PICK on \in BOOLEAN, e \in HandlingNow : Handled(SetEnabled(g, e, on))
    BY <1>4 DEF Switch, Loaded
  <2> DEFINE h == SetEnabled(g, e, on)
  <2>2. Controls(g, h, e)
    BY <1>1, SetEnabledControl
  <2>3. Parked(g) => Parked(h) \/ h.leases = 0
    BY <1>1, SwitchParked
  <2>4. g' = h
    BY <2>1 DEF Handled
  <2> HIDE DEF h
  <2>5. Follows(h, e)
    BY <2>2, <2>4, DropsAreGiven DEF Follows
  <2>6. Patient(h)
    BY <2>3, ParkedAtRest DEF Patient, Parked
  <2> QED
    BY <2>5, <2>6
<1>5. CASE GmTick
  <2>1. PICK t \in TimersNow, e \in HandlingNow : Handled(Tick(g, e, t))
    BY <1>5 DEF GmTick, TickWith
  <2> DEFINE h == Tick(g, e, t)
  <2>2. Controls(g, h, e) /\ (g.parked => h.parked /\ h.phase = "IDLE")
    BY <1>1, TickControl DEF TimersNow
  <2>3. g' = h
    BY <2>1 DEF Handled
  <2> HIDE DEF h
  <2>4. Follows(h, e) /\ Patient(h)
    BY <2>2, <2>3, DropsAreGiven DEF Follows, Patient
  <2> QED
    BY <2>4
<1> QED
  BY <1>2, <1>3, <1>4, <1>5

\* A retry, and what ends: a step, a child, the server.
LEMMA EndFollows ==
    ASSUME IInv, Control(g), RetryRequest \/ Stop \/ StepExits \/ (\E c \in Children \ {"step"} : ChildExits(c))
    PROVE  \E h, e : Follows(h, e)
<1>1. TypeOK /\ Sound(g) /\ g \in Gm /\ \A e \in HandlingNow : e \in Handling
  BY HandlingNowIs DEF IInv, TypeOK
<1>2. CASE RetryRequest
  <2> DEFINE e == [bridge |-> modem.bridge, owner |-> ReadyOwner, nofork |-> {}, drop |-> "none"]
  <2>1. Controls(g, Retry(g), e) /\ g' = Retry(g) /\ e.drop = "none"
    BY <1>2, RetryControl DEF RetryRequest, Handled
  <2>2. Follows(Retry(g), e)
    BY <2>1 DEF Follows
  <2> QED
    BY <2>2
<1>3. CASE Stop
  <2> DEFINE f == [g EXCEPT !.held = 0, !.leases = 0, !.grace = FALSE, !.failing = FALSE]
  <2>1. PICK e \in HandlingNow : Handled(Teardown(f, [e EXCEPT !.drop = "none"]))
    BY <1>3 DEF Stop
  <2> DEFINE q == [e EXCEPT !.drop = "none"]
  <2> DEFINE h == Teardown(f, q)
  <2>2. q \in Handling /\ q.drop = "none"
    BY <1>1, HandlingNowIs DEF Handling
  <2>3. g' = h
    BY <2>1 DEF Handled
  <2> HIDE DEF q
  <2>4. Control(h) /\ (Served(g) => Served(h))
    BY <2>2, StopControl
  <2> HIDE DEF h
  <2>5. Follows(h, q)
    BY <2>2, <2>3, <2>4 DEF Follows, Controls
  <2> QED
    BY <2>5
<1>4. CASE StepExits
  <2>1. PICK ok \in BOOLEAN, e \in HandlingNow : Handled(StepDone(g, e, ok, step.got))
    BY <1>4 DEF StepExits
  <2> DEFINE h == StepDone(g, e, ok, step.got)
  <2>2. step.got \in CidOrNone /\ "step" \in g.alive
    BY <1>1, <1>4 DEF StepExits, TypeOK, Steps
  <2>3. Settled(h)
    BY <1>1, <2>2, StepDoneControl
  <2>4. g' = h
    BY <2>1 DEF Handled
  <2> HIDE DEF h
  <2>5. Follows(h, e)
    BY <2>3, <2>4, DropsAreGiven DEF Follows, Controls, Settled
  <2> QED
    BY <2>5
<1>5. CASE \E c \in Children \ {"step"} : ChildExits(c)
  <2>1. PICK c \in Children \ {"step"} : ChildExits(c)
    BY <1>5
  <2>2. PICK e \in HandlingNow : Handled(ChildExited(g, e, c))
    BY <2>1 DEF ChildExits
  <2> DEFINE h == ChildExited(g, e, c)
  <2>3. Settled(h)
    BY <1>1, <2>1, ChildExitedControl DEF ChildExits
  <2>4. g' = h
    BY <2>2 DEF Handled
  <2> HIDE DEF h
  <2>5. Follows(h, e)
    BY <2>3, <2>4, DropsAreGiven DEF Follows, Controls, Settled
  <2> QED
    BY <2>5
<1> QED
  BY <1>2, <1>3, <1>4, <1>5

\* The next instance starts with nothing asked of it.
LEMMA RespawnSettles ==
    ASSUME IInv, Crash \/ Exit
    PROVE  \E h : g' = h /\ Settled(h)
<1>1. g.rec \in Records /\ NoRecord \in Records
  BY Zero DEF IInv, TypeOK, Gm, NoRecord, Records
<1>2. PICK rec \in Records : Respawn(rec)
  BY <1>1 DEF Crash, Exit
<1>3. PICK loaded \in BOOLEAN : g' = Boot(rec, loaded)
  BY <1>2 DEF Respawn
<1> QED
  BY <1>3, BootControl

\* An owner check that ages, and what happens at the modem, asks nothing.
LEMMA ModemSameDemand ==
    ASSUME IInv, OwnerCheckAges \/ StepActs \/ BridgeDies \/ BridgeStarts \/ OwnerReady \/ UNCHANGED vars
    PROVE  \E h \in Gm : g' = h /\ SameDemand(g, h) /\ h.phase = g.phase /\ h.tearing = g.tearing
                         /\ h.staleCid = g.staleCid
<1>1. g \in Gm
  BY DEF IInv, TypeOK
<1>2. CASE OwnerCheckAges
  <2> DEFINE h == [g EXCEPT !.ownerFresh = FALSE]
  <2>1. h \in Gm /\ SameDemand(g, h) /\ h.phase = g.phase /\ h.tearing = g.tearing
        /\ h.staleCid = g.staleCid
    BY <1>1 DEF Gm, SameDemand
  <2>2. g' = h
    BY <1>2 DEF OwnerCheckAges
  <2> HIDE DEF h
  <2> QED
    BY <2>1, <2>2
<1>3. CASE ~OwnerCheckAges
  <2>1. g' = g
    BY <1>3 DEF StepActs, BridgeDies, BridgeStarts, OwnerReady, vars
  <2> QED
    BY <1>1, <2>1 DEF SameDemand
<1> QED
  BY <1>2, <1>3

\* Every step keeps the control, and keeps what is served.
LEMMA StepControls ==
    ASSUME IInv, Control(g), [Next]_vars
    PROVE  \E h : g' = h /\ Control(h) /\ (Served(g) /\ "SWITCH" \notin Drops => Served(h))
<1>1. ASSUME NEW h, NEW e, Follows(h, e)
      PROVE  g' = h /\ Control(h) /\ (Served(g) /\ "SWITCH" \notin Drops => Served(h))
  BY <1>1 DEF Follows, Controls
<1>2. CASE \E h, e : Follows(h, e)
  BY <1>1, <1>2
<1>3. CASE \E h : g' = h /\ Settled(h)
  BY <1>3 DEF Settled
<1>4. CASE \E h \in Gm : g' = h /\ SameDemand(g, h) /\ h.phase = g.phase /\ h.tearing = g.tearing
                         /\ h.staleCid = g.staleCid
  <2>1. PICK h \in Gm : g' = h /\ SameDemand(g, h) /\ h.phase = g.phase /\ h.tearing = g.tearing
                         /\ h.staleCid = g.staleCid
    BY <1>4
  <2>2. Control(h) /\ (Served(g) => Served(h))
    BY <2>1, SameIsControl
  <2> QED
    BY <2>1, <2>2
<1>5. Next \/ UNCHANGED vars
  OBVIOUS
<1> QED
  BY <1>2, <1>3, <1>4, <1>5, LoopFollows, EndFollows, RespawnSettles, ModemSameDemand DEF Next

\* The control holds in every state.
THEOREM SpecControl == Spec => []Control(g)
<1>1. Init => Control(g)
  <2> SUFFICES ASSUME Init PROVE Control(g)
    OBVIOUS
  <2>1. NoRecord \in Records
    BY Zero DEF NoRecord, Records
  <2>2. PICK loaded \in BOOLEAN : g = Boot(NoRecord, loaded)
    BY DEF Init
  <2> QED
    BY <2>1, <2>2, BootControl DEF Settled
<1>2. IInv /\ Control(g) /\ [Next]_vars => Control(g)'
  <2> SUFFICES ASSUME IInv, Control(g), [Next]_vars PROVE Control(g)'
    OBVIOUS
  <2>1. PICK h : g' = h /\ Control(h)
    BY StepControls
  <2> QED
    BY <2>1
<1> QED
  BY <1>1, <1>2, SpecSound, PTL DEF Spec

\* GNSS is up, or coming up, for a lease, its grace period or a step still to end, and never
\* with the switch off, for every number of clients and whatever fails.
THEOREM SpecEngagedForAReason == Spec => []EngagedForAReason
<1>1. Control(g) => EngagedForAReason
  BY DEF Control, Reasoned, EngagedForAReason
<1> QED
  BY <1>1, SpecControl, PTL

\* No lease is forgotten by a daemon at rest, where no watcher is dropped at the line that
\* tells of the switch (with that drop it is: the model checker shows how).
THEOREM SpecLeaseIsServed ==
    ASSUME "SWITCH" \notin Drops
    PROVE  Spec => []LeaseIsServed
<1>1. Init => Served(g)
  <2> SUFFICES ASSUME Init PROVE Served(g)
    OBVIOUS
  <2>1. NoRecord \in Records
    BY Zero DEF NoRecord, Records
  <2>2. PICK loaded \in BOOLEAN : g = Boot(NoRecord, loaded)
    BY DEF Init
  <2> QED
    BY <2>1, <2>2, BootControl DEF Settled
<1>2. IInv /\ Control(g) /\ Served(g) /\ [Next]_vars => Served(g)'
  <2> SUFFICES ASSUME IInv, Control(g), Served(g), [Next]_vars PROVE Served(g)'
    OBVIOUS
  <2>1. PICK h : g' = h /\ Served(h)
    BY StepControls
  <2> QED
    BY <2>1
<1>3. Control(g) /\ Served(g) => LeaseIsServed
  <2>1. Control(g) /\ g.leases > 0 => g.leases # 0
    BY DEF Control, Gm
  <2> QED
    BY <2>1 DEF Served, LeaseIsServed
<1> QED
  BY <1>1, <1>2, <1>3, SpecSound, SpecControl, PTL DEF Spec

\* Parked means parked: only a client's retry or the last release ends it.
THEOREM SpecParkedUntilAsked == Spec => ParkedUntilAsked
<1> DEFINE stays == g.parked /\ mode' = "serving" /\ crashes' = crashes =>
                        \/ g'.parked /\ g'.phase = "IDLE"
                        \/ g'.leases = 0
                        \/ RetryRequest
<1>1. IInv /\ Control(g) /\ [Next]_vars => [stays]_vars
  <2> SUFFICES ASSUME IInv, Control(g), Next, g.parked, mode' = "serving", crashes' = crashes
               PROVE  \/ g'.parked /\ g'.phase = "IDLE"
                      \/ g'.leases = 0
                      \/ RetryRequest
    OBVIOUS
  <2>1. Parked(g) /\ Sound(g)
    BY ParkedAtRest DEF IInv
  <2>2. g.alive = {}
    BY <2>1, RestIsBare DEF Parked, Sound, Base, Bare
  <2>3. ~StepExits /\ ~Stop /\ ~(\E c \in Children \ {"step"} : ChildExits(c)) /\ ~Crash /\ ~Exit
    <3>1. crashes \in Nat
      BY ChoicesAssumption DEF IInv, TypeOK
    <3> QED
      BY <2>2, <3>1 DEF StepExits, Stop, ChildExits, Crash, Exit, Respawn
  <2>4. CASE Lease \/ Unlease \/ Switch \/ Loaded \/ GmTick
    <3>1. PICK h, e : Follows(h, e) /\ Patient(h)
      BY <2>4, LoopFollows
    <3> QED
      BY <3>1 DEF Follows, Patient
  <2>5. CASE OwnerCheckAges \/ StepActs \/ BridgeDies \/ BridgeStarts \/ OwnerReady
    <3>1. PICK h \in Gm : g' = h /\ SameDemand(g, h) /\ h.phase = g.phase
      BY <2>5, ModemSameDemand
    <3> QED
      BY <2>1, <3>1 DEF SameDemand, Parked
  <2> QED
    BY <2>3, <2>4, <2>5 DEF Next
<1> QED
  BY <1>1, SpecSound, SpecControl, PTL DEF Spec, ParkedUntilAsked

-----------------------------------------------------------------------------
(* The ledger.                                                              *)

\* A handler that may give up the client id but takes none moves the ledger by one of its
\* actions, or not at all.
LEMMA YieldsKeepsLedger ==
    ASSUME Base(g), NEW h, Base(h), Yields(g, h), g' = h
    PROVE  [Ledger!Next]_(Ledger!ledger)
<1>1. /\ g.cid = NoCid => ~g.session
      /\ h.cid = NoCid => ~h.session
      /\ g \in Gm /\ h \in Gm
  BY DEF Base
<1>2. g.session \in BOOLEAN /\ h.session \in BOOLEAN
  BY <1>1 DEF Gm
<1>3. /\ g.staleCid # NoCid => g.cid = NoCid /\ g.rec.cid = g.staleCid
      /\ h.staleCid # NoCid => h.cid = NoCid /\ h.rec.cid = h.staleCid
      /\ g.cid # NoCid => g.rec.cid = g.cid
      /\ h.cid # NoCid => h.rec.cid = h.cid
      /\ g.cid = NoCid /\ g.staleCid = NoCid => g.rec.cid = NoCid
      /\ h.cid = NoCid /\ h.staleCid = NoCid => h.rec.cid = NoCid
  BY DEF Base, RecordOk
<1>4. CASE g.cid = NoCid
  <2>1. h.cid = NoCid /\ h.session = g.session /\ (h.rec.cid = g.rec.cid \/ h.rec.cid = NoCid)
    BY <1>1, <1>2, <1>3, <1>4 DEF Yields
  <2> QED
    BY <1>4, <2>1 DEF Ledger!Next, Ledger!Settle, Ledger!ledger
<1>5. CASE g.cid # NoCid /\ h.cid = g.cid
  <2>1. h.rec.cid = g.rec.cid
    BY <1>3, <1>5
  <2> QED
    BY <1>2, <1>5, <2>1 DEF Ledger!Next, Ledger!Engage, Ledger!Disengage
<1>6. CASE g.cid # NoCid /\ h.cid = NoCid
  <2>1. h.rec.cid = NoCid /\ h.session = FALSE
    BY <1>1, <1>2, <1>3, <1>6 DEF Yields
  <2> QED
    BY <1>6, <2>1 DEF Ledger!Next, Ledger!Give
<1> QED
  BY <1>4, <1>5, <1>6 DEF Yields

\* gm_step_done may take the client id that the allocation has named, and notes it at once.
LEMMA StepExitKeepsLedger ==
    ASSUME IInv, StepExits
    PROVE  [Ledger!Next]_(Ledger!ledger)
<1>1. PICK ok \in BOOLEAN, e \in HandlingNow : Handled(StepDone(g, e, ok, step.got))
  BY DEF StepExits
<1> DEFINE h == StepDone(g, e, ok, step.got)
<1> DEFINE n == Named(g, ok, step.got)
<1>2. e \in Handling /\ step.got \in CidOrNone /\ "step" \in g.alive /\ Sound(g) /\ g \in Gm
  BY HandlingNowIs DEF IInv, TypeOK, Steps, StepExits
<1>3. Sound(h) /\ Yields(n, h) /\ (g.phase # "NMEA" => Hushed(g, h))
  BY <1>2, StepDoneSound
<1>4. g' = h
  BY <1>1 DEF Handled
<1> HIDE DEF h
<1>5. CASE g.phase = "ALLOC" /\ ok /\ step.got # NoCid
  <2>1. /\ g.cid = NoCid /\ g.staleCid = NoCid /\ g.rec.cid = NoCid /\ ~g.session
    BY <1>2, <1>5 DEF Sound, Base, RecordOk, StalePhases
  <2>2. n.cid = step.got /\ n.staleCid = NoCid
    BY <1>2, <1>5, <2>1 DEF Named, Gm
  <2>3. h \in Gm /\ h.cid \in {step.got, NoCid} /\ h.staleCid = NoCid /\ ~h.session
    BY <1>3, <1>5, <2>1, <2>2 DEF Yields, Hushed, Sound, Base
  <2>4. /\ h.rec.cid = h.cid /\ h.session = FALSE /\ g.session = FALSE
    BY <1>2, <1>3, <2>1, <2>3 DEF Sound, Base, RecordOk, Gm
  <2>5. CASE h.cid = NoCid
    BY <1>4, <2>1, <2>4, <2>5 DEF Ledger!ledger
  <2>6. CASE h.cid = step.got
    <3>1. step.got \in Cids
      BY <1>2, <1>5 DEF CidOrNone
    <3>2. Ledger!Take(step.got)
      BY <1>4, <2>1, <2>4, <2>6 DEF Ledger!Take
    <3> QED
      BY <3>1, <3>2 DEF Ledger!Next
  <2> QED
    BY <2>3, <2>5, <2>6
<1>6. CASE ~(g.phase = "ALLOC" /\ ok /\ step.got # NoCid)
  <2>1. n = g
    BY <1>6 DEF Named
  <2> QED
    BY <1>2, <1>3, <1>4, <2>1, YieldsKeepsLedger DEF Sound
<1> QED
  BY <1>5, <1>6

\* A death leaves the note; an exit with nothing to hand on settles it.
LEMMA DeathKeepsLedger ==
    ASSUME IInv, Crash \/ Exit
    PROVE  [Ledger!Next]_(Ledger!ledger)
<1>1. ASSUME NEW rec, Respawn(rec)
      PROVE  g'.cid = NoCid /\ g'.session = FALSE /\ g'.rec = rec
  BY <1>1 DEF Respawn, Boot
<1>2. ASSUME Respawn(g.rec)
      PROVE  Ledger!Die
  BY <1>1, <1>2 DEF Ledger!Die
<1>3. ASSUME Respawn(NoRecord), g.cid = NoCid
      PROVE  Ledger!Settle
  <2>1. g.session = FALSE
    BY <1>3 DEF IInv, TypeOK, Gm, Sound, Base
  <2> QED
    BY <1>1, <1>3, <2>1, Zero DEF Ledger!Settle
<1>4. (Respawn(NoRecord) /\ g.cid = NoCid) \/ Respawn(g.rec)
  BY DEF Crash, Exit
<1> QED
  BY <1>2, <1>3, <1>4 DEF Ledger!Next

\* The daemon implements the ledger: one client id at a time, noted in the instant it
\* becomes known and for as long as it is owned, whatever fails on the way.
THEOREM SpecKeepsLedger == Spec => KeepsLedger
<1>1. Init => Ledger!Init
  BY DEF Init, Boot, NoRecord, Ledger!Init
<1>2. IInv /\ [Next]_vars => [Ledger!Next]_(Ledger!ledger)
  <2> SUFFICES ASSUME IInv, [Next]_vars PROVE [Ledger!Next]_(Ledger!ledger)
    OBVIOUS
  <2>1. ASSUME NEW h, NEW e, Handler(h, e)
        PROVE  [Ledger!Next]_(Ledger!ledger)
    BY <2>1, YieldsKeepsLedger DEF IInv, Handler, Handles, Handled, Sound
  <2>2. CASE StepActs \/ BridgeDies \/ BridgeStarts \/ OwnerReady \/ UNCHANGED vars
    <3>1. g' = g
      BY <2>2 DEF StepActs, BridgeDies, BridgeStarts, OwnerReady, vars
    <3> QED
      BY <3>1 DEF Ledger!ledger
  <2>3. CASE OwnerCheckAges
    <3>1. g'.cid = g.cid /\ g'.rec = g.rec /\ g'.session = g.session
      BY <2>3 DEF OwnerCheckAges, IInv, TypeOK, Gm
    <3> QED
      BY <3>1 DEF Ledger!ledger
  <2> QED
    BY <2>1, <2>2, <2>3, LoopHandles, ReapHandles, StepExitKeepsLedger, DeathKeepsLedger DEF Next
<1> QED
  BY <1>1, <1>2, SpecSound, PTL DEF Spec, KeepsLedger, Ledger!Spec

=============================================================================
