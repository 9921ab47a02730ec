-------------------------- MODULE GpsSwitchProofs --------------------------
(***************************************************************************)
(* What holds of the saved GPS switch for any number of requests, exits    *)
(* and deaths.  SwitchIsKept is not inductive: that the file holds what    *)
(* was last asked depends on what the saver in flight is saving, on what   *)
(* the orphans of dead instances may still write, and on the loader not    *)
(* having a request to lose to.                                            *)
(***************************************************************************)
EXTENDS GpsSwitch, TLAPS

\* A value somebody holds is an earlier one, or the newest.
Known(v) == v.n <= asked.n /\ (v.n = asked.n => v = asked)

\* Values are only ever saved forwards: what is being saved is no older than the file
\* or than what an orphan may still write.
Forwards ==
    /\ Known(disk)
    /\ \A o \in orphans : Known(o.value)
    /\ saver.running =>
        /\ Known(saver.value) /\ disk.n <= saver.value.n
        /\ \A o \in orphans : o.value.n <= saver.value.n

\* A saver runs only for a request to this instance, and only it keeps a change waiting.
SaverHasCause ==
    /\ m.mode = "gone" \/ ~m.loaded => ~saver.running
    /\ m.pending => saver.running

\* Nothing was lost silently so far.
NewestIsSafe ==
    /\ ~saver.running => disk = asked
    /\ saver.running /\ ~m.pending => saver.value = asked
    /\ saver.running /\ ~m.pending /\ saver.at = "done" => disk = asked
    /\ m.loaded => m.on = asked.on
    /\ m.loader = "read" /\ ~m.loaded => m.answer = asked.on

IInv ==
    /\ TypeOK
    /\ crashes \in Nat /\ (crashes = 0 => orphans = {})
    /\ Forwards /\ SaverHasCause
    /\ reported \/ orphaned \/ NewestIsSafe

-----------------------------------------------------------------------------
(* The records the actions build are of their types.                        *)

M == [mode : {"serving", "draining", "gone"}, on : BOOLEAN, loaded : BOOLEAN,
      loader : {"none", "running", "read"}, answer : BOOLEAN, pending : BOOLEAN]
Savers == [running : BOOLEAN, at : Places, value : Switch, bounded : BOOLEAN]

\* The savers the daemon starts, or none.
LEMMA SaverIsTyped ==
    /\ NoSaver \in Savers
    /\ \A v \in Switch : Saving(v) \in Savers
BY BoundsAssumption DEF NoSaver, Saving, Savers, Switch, Places

\* The daemon as it starts.
LEMMA FreshIsTyped == Fresh \in M /\ FreshUnforked \in M
BY DEF Fresh, FreshUnforked, M

-----------------------------------------------------------------------------
(* Every action keeps the inductive invariant.                              *)

\* At start the file holds what was last asked.
LEMMA InitSound == Init => IInv
<1> SUFFICES ASSUME Init PROVE IInv
  OBVIOUS
<1> USE DEF Init
<1>1. TypeOK
  <2>1. disk \in Switch /\ asked \in Switch
    BY BoundsAssumption DEF Switch
  <2> QED
    BY <2>1, SaverIsTyped, FreshIsTyped DEF TypeOK, Savers, M
<1>2. Forwards /\ SaverHasCause /\ NewestIsSafe
  BY BoundsAssumption DEF Forwards, SaverHasCause, NewestIsSafe, Known, NoSaver, Fresh
<1> QED
  BY <1>1, <1>2 DEF IInv

\* A request is served at once and its value is the newest; a fork that fails is reported.
LEMMA AskSound == IInv /\ Ask => IInv'
<1> SUFFICES ASSUME IInv, Ask PROVE IInv'
  OBVIOUS
<1>1. PICK on \in BOOLEAN :
        /\ asked' = [n |-> asked.n + 1, on |-> on]
        /\ SaveSwitch([m EXCEPT !.on = on, !.loaded = TRUE], asked', saver.running, FALSE)
  BY DEF Ask
<1>2. asked' \in Switch /\ asked \in Switch /\ asked'.n > asked.n
  BY <1>1, BoundsAssumption DEF Ask, IInv, TypeOK, Switch
<1>3. \A v \in Switch : Known(v) => Known(v)'
  BY <1>1, <1>2 DEF Known, Switch
<1>4. /\ m' \in M /\ m'.mode = "serving" /\ m'.loaded /\ m'.on = asked'.on
      /\ reported' \in BOOLEAN /\ saver' \in Savers
      /\ \/ saver.running /\ saver' = saver /\ m'.pending
         \/ ~m'.pending /\ saver' = Saving(asked') /\ saver'.running /\ saver'.at = "queued"
         \/ ~m'.pending /\ saver' = NoSaver /\ ~saver'.running /\ reported'
  <2> DEFINE q == [m EXCEPT !.on = on, !.loaded = TRUE]
  <2>1. q \in M /\ q.mode = "serving" /\ q.loaded /\ q.on = asked'.on
    BY <1>1, <1>2 DEF IInv, TypeOK, M, Ask
  <2>2. SaveSwitch(q, asked', saver.running, FALSE)
    BY <1>1
  <2>3. saver \in Savers
    BY DEF IInv, TypeOK, Savers
  <2> HIDE DEF q
  <2>4. CASE saver.running /\ m' = [q EXCEPT !.pending = TRUE] /\ saver' = saver
             /\ reported' = FALSE
    BY <2>1, <2>3, <2>4 DEF M
  <2>5. CASE /\ m' = [q EXCEPT !.pending = FALSE]
             /\ saver' \in {Saving(asked'), NoSaver}
             /\ reported' = (FALSE \/ ~saver'.running)
    <3>1. m' \in M /\ m'.mode = "serving" /\ m'.loaded /\ m'.on = asked'.on /\ ~m'.pending
      BY <2>1, <2>5 DEF M
    <3>2. CASE saver' = Saving(asked')
      BY <1>2, <2>5, <3>1, <3>2, SaverIsTyped DEF Saving
    <3>3. CASE saver' = NoSaver
      BY <2>5, <3>1, <3>3, SaverIsTyped DEF NoSaver
    <3> QED
      BY <2>5, <3>2, <3>3
  <2> QED
    BY <2>2, <2>4, <2>5 DEF SaveSwitch
<1>5. TypeOK'
  BY <1>2, <1>4 DEF Ask, IInv, TypeOK, M, Savers
<1>6. Forwards'
  BY <1>1, <1>2, <1>3, <1>4, BoundsAssumption
  DEF Ask, IInv, TypeOK, Forwards, Known, Saving, NoSaver, Switch
<1>7. SaverHasCause'
  BY <1>4 DEF SaverHasCause, IInv, NoSaver
<1>8. reported' \/ NewestIsSafe'
  BY <1>4 DEF NewestIsSafe, Saving
<1> QED
  BY <1>5, <1>6, <1>7, <1>8 DEF IInv, Ask

\* The lock decides only who writes next.
LEMMA LockSound == IInv /\ Lock => IInv'
<1> SUFFICES ASSUME IInv, Lock PROVE IInv'
  OBVIOUS
<1>1. CASE saver.running /\ saver.at = "queued" /\ saver' = [saver EXCEPT !.at = "writing"]
           /\ UNCHANGED orphans
  BY <1>1 DEF Lock, IInv, TypeOK, Forwards, Known, SaverHasCause, NewestIsSafe, Places
<1>2. ASSUME NEW o \in orphans, o.at = "queued", UNCHANGED saver,
             orphans' = (orphans \ {o}) \cup {[o EXCEPT !.at = "writing"]}
      PROVE  IInv'
  <2>1. /\ [o EXCEPT !.at = "writing"].value = o.value
        /\ orphans' \subseteq [at : {"queued", "writing"}, value : Switch]
    BY <1>2 DEF IInv, TypeOK
  <2>2. \A q \in orphans' : \E r \in orphans : q.value = r.value
    BY <1>2, <2>1
  <2> QED
    BY <1>2, <2>1, <2>2
    DEF Lock, IInv, TypeOK, Forwards, Known, SaverHasCause, NewestIsSafe
<1> QED
  BY <1>1, <1>2 DEF Lock

\* What a saver of this instance writes is no older than what it writes over.
LEMMA WriteSound == IInv /\ Write => IInv' /\ disk.n <= disk'.n
<1> SUFFICES ASSUME IInv, Write PROVE IInv' /\ disk.n <= disk'.n
  OBVIOUS
<1>1. /\ disk \in Switch /\ saver.value \in Switch /\ disk' \in {disk, saver.value}
      /\ saver.running /\ disk.n <= saver.value.n /\ Known(saver.value)
      /\ disk.n \in Int /\ saver.value.n \in Int
  BY BoundsAssumption DEF Write, IInv, TypeOK, Forwards, Switch
<1>2. PICK at \in {"done", "failed"} :
        saver' = [saver EXCEPT !.at = at] /\ (at = "done" => disk' = saver.value)
  BY DEF Write
<1>3. TypeOK'
  BY <1>1, <1>2 DEF Write, IInv, TypeOK, Places
<1>4. saver'.running /\ saver'.value = saver.value /\ saver'.at = at
  BY <1>1, <1>2 DEF IInv, TypeOK
<1>5. Forwards' /\ SaverHasCause'
  BY <1>1, <1>4 DEF Write, IInv, Forwards, Known, SaverHasCause
<1>6. NewestIsSafe => NewestIsSafe'
  BY <1>1, <1>2, <1>4 DEF Write, NewestIsSafe
<1> QED
  BY <1>1, <1>3, <1>5, <1>6 DEF Write, IInv

\* What a dead instance left writes over the newest value only if that counts as lost.
LEMMA OrphanEndsSound == IInv /\ OrphanEnds => IInv'
<1> SUFFICES ASSUME IInv, OrphanEnds PROVE IInv'
  OBVIOUS
<1>1. PICK o \in orphans :
        orphans' = orphans \ {o} /\ disk' \in {disk} \cup {v \in {o.value} : o.at = "writing"}
  BY DEF OrphanEnds
<1>2. /\ disk' \in {disk, o.value} /\ {disk, asked, o.value, disk'} \subseteq Switch
      /\ Known(disk) /\ Known(o.value) /\ Known(disk')
  BY <1>1 DEF IInv, TypeOK, Forwards
<1>3. TypeOK'
  BY <1>1, <1>2 DEF OrphanEnds, IInv, TypeOK
<1>4. Forwards' /\ SaverHasCause'
  BY <1>1, <1>2 DEF OrphanEnds, IInv, Forwards, Known, SaverHasCause
<1>5. ASSUME disk = asked, ~orphaned' PROVE disk' = asked
  <2>1. disk'.n \in Int /\ asked.n \in Int
    BY <1>2, BoundsAssumption DEF Switch
  <2>2. ~(disk'.n < disk.n)
    BY <1>5 DEF OrphanEnds
  <2>3. disk'.n <= asked.n /\ (disk'.n = asked.n => disk' = asked)
    BY <1>2, <1>5 DEF Known, OrphanEnds
  <2> QED
    BY <1>5, <2>1, <2>2, <2>3
<1>6. orphaned' \/ (NewestIsSafe => NewestIsSafe')
  BY <1>5 DEF OrphanEnds, NewestIsSafe
<1> QED
  BY <1>1, <1>3, <1>4, <1>6 DEF OrphanEnds, IInv, TypeOK

\* A save killed at its bound is reported.
LEMMA SaveCheckSound == IInv /\ SaveCheck => IInv'
<1> SUFFICES ASSUME IInv, SaveCheck PROVE IInv'
  OBVIOUS
<1>1. saver'.running = saver.running /\ saver'.value = saver.value /\ saver' \in Savers
  BY DEF SaveCheck, IInv, TypeOK, Savers, Places
<1> QED
  BY <1>1 DEF SaveCheck, IInv, TypeOK, Forwards, Known, SaverHasCause, Savers

\* A save that is over has saved the newest value, or is reported; one that waited has its
\* turn.
LEMMA ReapSaverSound == IInv /\ ReapSaver => IInv'
<1> SUFFICES ASSUME IInv, ReapSaver PROVE IInv'
  OBVIOUS
<1>1. /\ m' \in M /\ m'.mode = m.mode /\ m'.on = m.on /\ m'.loaded = m.loaded
      /\ m'.loader = m.loader /\ m'.answer = m.answer /\ ~m'.pending
      /\ saver' \in {Saving(asked), NoSaver} /\ saver' \in Savers
      /\ reported' \in BOOLEAN
  <2>1. m \in M /\ asked \in Switch /\ reported \in BOOLEAN
    BY DEF IInv, TypeOK, M
  <2>2. CASE m.pending
    <3>1. /\ m' = [m EXCEPT !.pending = FALSE]
          /\ saver' \in {Saving(asked), NoSaver}
          /\ reported' = ((reported \/ saver.at = "failed") \/ ~saver'.running)
      BY <2>2 DEF ReapSaver, SaveSwitch
    <3>2. /\ m' \in M /\ m'.mode = m.mode /\ m'.on = m.on /\ m'.loaded = m.loaded
          /\ m'.loader = m.loader /\ m'.answer = m.answer /\ ~m'.pending
      BY <2>1, <3>1 DEF M
    <3> QED
      BY <2>1, <3>1, <3>2, SaverIsTyped
  <2>3. CASE ~m.pending
    BY <2>1, <2>3, SaverIsTyped DEF ReapSaver
  <2> QED
    BY <2>2, <2>3
<1>2. TypeOK'
  BY <1>1 DEF ReapSaver, IInv, TypeOK, M, Savers
<1>3. Forwards' /\ SaverHasCause'
  BY <1>1, BoundsAssumption
  DEF ReapSaver, IInv, TypeOK, Forwards, Known, SaverHasCause, Saving, NoSaver, Switch
<1>4. ~saver'.running /\ ~reported' => ~reported /\ ~m.pending /\ saver.at = "done"
  BY DEF ReapSaver, SaveSwitch, NoSaver
<1>5. reported' \/ orphaned' \/ NewestIsSafe'
  BY <1>1, <1>4 DEF ReapSaver, SaveSwitch, IInv, NewestIsSafe, Saving, NoSaver
<1> QED
  BY <1>2, <1>3, <1>5 DEF ReapSaver, IInv

\* The loader reads the newest value, unless a request has overtaken it.
LEMMA LoadSound == IInv /\ (LoadReads \/ LoadCheck) => IInv'
<1>1. ASSUME IInv, LoadReads PROVE IInv'
  <2>1. m' \in M
    BY <1>1 DEF LoadReads, IInv, TypeOK, M, Switch
  <2>2. TypeOK' /\ Forwards' /\ SaverHasCause'
    BY <1>1, <2>1 DEF LoadReads, IInv, TypeOK, Forwards, Known, SaverHasCause, M
  <2>3. NewestIsSafe => NewestIsSafe'
    BY <1>1 DEF LoadReads, IInv, TypeOK, SaverHasCause, NewestIsSafe
  <2> QED
    BY <1>1, <2>2, <2>3 DEF LoadReads, IInv
<1>2. ASSUME IInv, LoadCheck PROVE IInv'
  <2>1. PICK use \in BOOLEAN :
          /\ use => m.loader = "read"
          /\ m' = [m EXCEPT !.loader = "none", !.loaded = TRUE,
                            !.on = CASE m.loaded -> @ [] ~m.loaded /\ use -> m.answer
                                     [] OTHER -> TRUE]
          /\ reported' = (reported \/ ~use)
    BY <1>2 DEF LoadCheck
  <2>2. m' \in M /\ reported' \in BOOLEAN
    BY <1>2, <2>1 DEF IInv, TypeOK, M
  <2>3. TypeOK' /\ Forwards' /\ SaverHasCause'
    BY <1>2, <2>1, <2>2 DEF LoadCheck, IInv, TypeOK, Forwards, Known, SaverHasCause, M
  <2>4. use /\ NewestIsSafe => NewestIsSafe'
    BY <1>2, <2>1 DEF LoadCheck, IInv, TypeOK, NewestIsSafe
  <2> QED
    BY <1>2, <2>1, <2>3, <2>4 DEF LoadCheck, IInv, TypeOK
<1> QED
  BY <1>1, <1>2

\* An orderly exit leaves the newest value in the file, or reports.
LEMMA TermExitSound == IInv /\ (Term \/ Exit) => IInv'
<1>1. ASSUME IInv, Term PROVE IInv'
  <2>1. m' \in M
    BY <1>1 DEF Term, IInv, TypeOK, M
  <2> QED
    BY <1>1, <2>1
    DEF Term, IInv, TypeOK, M, Forwards, Known, SaverHasCause, NewestIsSafe
<1>2. ASSUME IInv, Exit PROVE IInv'
  <2>1. m' \in M /\ saver' \in Savers /\ reported' \in BOOLEAN
    BY <1>2, SaverIsTyped DEF Exit, IInv, TypeOK, M, Savers
  <2>2. TypeOK' /\ Forwards' /\ SaverHasCause'
    BY <1>2, <2>1
    DEF Exit, IInv, TypeOK, Forwards, Known, SaverHasCause, NoSaver, M, Savers
  <2>3. reported' \/ orphaned' \/ NewestIsSafe'
    BY <1>2 DEF Exit, IInv, TypeOK, NewestIsSafe, NoSaver
  <2> QED
    BY <1>2, <2>2, <2>3 DEF Exit, IInv
<1> QED
  BY <1>1, <1>2

\* A death leaves the saver's parts behind, and the newest value in the file or lost.
LEMMA CrashSound == IInv /\ Crash => IInv'
<1> SUFFICES ASSUME IInv, Crash PROVE IInv'
  OBVIOUS
<1>1. m' \in M /\ saver' \in Savers /\ orphaned' \in BOOLEAN
  BY SaverIsTyped DEF Crash, IInv, TypeOK, M, Savers
<1>2. \A o \in orphans' : o \in [at : {"queued", "writing"}, value : Switch] /\ Known(o.value)
  BY DEF Crash, IInv, TypeOK, Forwards
<1>3. TypeOK' /\ Forwards' /\ SaverHasCause'
  BY <1>1, <1>2 DEF Crash, IInv, TypeOK, Forwards, Known, SaverHasCause, NoSaver, M, Savers
<1>4. reported' \/ orphaned' \/ NewestIsSafe'
  BY DEF Crash, IInv, TypeOK, NewestIsSafe, NoSaver
<1> QED
  BY <1>3, <1>4 DEF Crash, IInv

\* The next instance starts without a saver and without an answer.
LEMMA RespawnSound == IInv /\ Respawn => IInv'
<1> SUFFICES ASSUME IInv, Respawn PROVE IInv'
  OBVIOUS
<1>1. \/ m' \in M /\ ~m'.loaded /\ m'.loader = "running" /\ ~m'.pending
         /\ reported' = reported
      \/ m' \in M /\ reported' = TRUE /\ ~m'.pending
  <2>1. CASE m' = Fresh /\ UNCHANGED reported
    BY <2>1, FreshIsTyped DEF Fresh
  <2>2. CASE m' = FreshUnforked /\ reported' = TRUE
    <3>1. FreshUnforked.pending = FALSE
      BY DEF FreshUnforked, Fresh
    <3> QED
      BY <2>2, <3>1, FreshIsTyped
  <2> QED
    BY <2>1, <2>2 DEF Respawn
<1>2. TypeOK' /\ Forwards' /\ SaverHasCause'
  BY <1>1 DEF Respawn, IInv, TypeOK, Forwards, Known, SaverHasCause, M
<1>3. reported' \/ orphaned' \/ NewestIsSafe'
  BY <1>1 DEF Respawn, IInv, SaverHasCause, NewestIsSafe
<1> QED
  BY <1>2, <1>3 DEF Respawn, IInv

\* Every step keeps the inductive invariant.
LEMMA StepSound == IInv /\ [Next]_vars => IInv'
<1> SUFFICES ASSUME IInv, [Next]_vars PROVE IInv'
  OBVIOUS
<1>1. CASE Next
  BY <1>1, AskSound, LockSound, WriteSound, OrphanEndsSound, SaveCheckSound, ReapSaverSound,
     LoadSound, TermExitSound, CrashSound, RespawnSound DEF Next
<1>2. CASE UNCHANGED vars
  BY <1>2 DEF vars, IInv, TypeOK, Forwards, Known, SaverHasCause, NewestIsSafe
<1> QED
  BY <1>1, <1>2

-----------------------------------------------------------------------------
(* What follows for the specification.                                      *)

\* The inductive invariant holds of every behaviour.
THEOREM SpecIInv == Spec => []IInv
<1>1. Init => IInv
  BY InitSound
<1>2. IInv /\ [Next]_vars => IInv'
  BY StepSound
<1> QED
  BY <1>1, <1>2, PTL DEF Spec

\* However many requests, hanging saves, orderly exits and deaths there are: once nothing is
\* being saved, the file holds what clients were last told, or a log line says that it may
\* not, or a death took it; and the daemon serves what was last asked.
THEOREM SpecSwitchIsKept == Spec => []SwitchIsKept
<1>1. IInv => SwitchIsKept
  <2> SUFFICES ASSUME IInv PROVE SwitchIsKept
    OBVIOUS
  <2> QED
    BY DEF IInv, SwitchIsKept, SavedOrReported, ServesNewest, NewestIsSafe
<1> QED
  BY <1>1, SpecIInv, PTL

\* As long as no instance has died, nothing ever writes an older value over a newer one.
THEOREM SpecNeverOlder == Spec => NeverOlder
<1>1. IInv /\ [Next]_vars => [crashes = 0 => disk.n <= disk'.n]_disk
  <2> SUFFICES ASSUME IInv, [Next]_vars, crashes = 0, disk' # disk PROVE disk.n <= disk'.n
    OBVIOUS
  <2>1. ~OrphanEnds
    BY DEF IInv, OrphanEnds
  <2>2. Write
    BY <2>1 DEF Next, vars, Ask, Lock, SaveCheck, ReapSaver, LoadReads, LoadCheck, Term, Exit,
                Crash, Respawn
  <2> QED
    BY <2>2, WriteSound
<1> QED
  BY <1>1, SpecIInv, PTL DEF Spec, NeverOlder

=============================================================================
