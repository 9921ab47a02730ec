------------------------------ MODULE BleLife ------------------------------
(***************************************************************************)
(* One sensor's life with blesensd (src/tools/blesensd): paired, saved,    *)
(* forgotten, paired again, between two processes that restart and a       *)
(* storage child that fails.                                               *)
(*                                                                         *)
(*   b      the daemon (BleCore)                                           *)
(*   z      bluetoothd, external: whether it runs, whether it has our      *)
(*          agent and that as its default, the device, its connection, its *)
(*          bond, and the calls it takes its time over                     *)
(*   rep    what it has sent and the daemon has not read: replies and      *)
(*          signals, in order                                              *)
(*   disk   the saved record: none, saved or forget                        *)
(*   won    the attempt whose StartNotify BlueZ confirmed last (history)   *)
(*   n      what has happened so far, against the bounds                   *)
(*                                                                         *)
(* A bond is "ours" when this daemon's Pair() made it and nothing has      *)
(* happened since that the code does not answer for: bluetoothd restarted  *)
(* or the daemon ended within the attempt, the record was never written    *)
(* before the daemon ended or could not be read, RemoveDevice was refused. *)
(* Then, and when BlueZ bonded on its own through our agent, it is "stray".*)
(***************************************************************************)
EXTENDS BleCore

CONSTANTS
    MaxPairs,      \* pairing requests
    MaxForgets,    \* forget requests
    MaxEvents,     \* connections lost, devices gone or found, attempts cancelled
    MaxFaults,     \* refused calls, failing saves and loads
    MaxRestarts,   \* ends of either daemon
    MaxUpsets,     \* of these three together
    MaxUnread      \* messages to the daemon that BlueZ's own events add to

ASSUME LifeBounds ==
    {MaxPairs, MaxForgets, MaxEvents, MaxFaults, MaxRestarts, MaxUpsets, MaxUnread} \subseteq Nat

VARIABLES b, z, rep, disk, won, n

vars == <<b, z, rep, disk, won, n>>

Off == [up |-> FALSE, agent |-> FALSE, dflt |-> FALSE, dev |-> FALSE, conn |-> FALSE,
        res |-> FALSE, bond |-> "none", busy |-> {}]

\* bd_load_start and bd_bus_open
Started(life) == Call([Dead EXCEPT !.up = "on", !.life = life], "Objects", 0)

Init ==
    /\ b = Started(0)
    /\ z = [Off EXCEPT !.up = TRUE, !.dev = TRUE]
    /\ rep = <<>> /\ disk = "none" /\ won = 0
    /\ n = [pairs |-> 0, forgets |-> 0, events |-> 0, faults |-> 0, restarts |-> 0]

Upset == n.events + n.faults + n.restarts < MaxUpsets
Fault == Upset /\ n.faults < MaxFaults /\ n' = [n EXCEPT !.faults = @ + 1]
Restart == Upset /\ n.restarts < MaxRestarts /\ n' = [n EXCEPT !.restarts = @ + 1]
Event == Upset /\ n.events < MaxEvents /\ n' = [n EXCEPT !.events = @ + 1]
Up == b.up # "down"

-----------------------------------------------------------------------------
(* bluetoothd, external.                                                    *)

View(q) == [known |-> q.dev, conn |-> q.conn, res |-> q.res]

\* A reply nobody waits for any more is not queued.
Reply(c, r, q) ==
    IF c \in b.pends THEN <<[t |-> "reply", c |-> c, r |-> r, dev |-> View(q)]>> ELSE <<>>
Signal(t, r, q) ==
    IF Up THEN <<[t |-> t, c |-> [k |-> "Objects", id |-> 0, life |-> 0], r |-> r, dev |-> View(q)]>>
    ELSE <<>>
Changed(q) == Signal("device", "", q)
\* The device's calls under way end with its connection.
Aborted(q) == IF q.busy \cap b.pends = {} THEN <<>> ELSE Reply(CHOOSE c \in q.busy \cap b.pends : TRUE, "err", q)

Unlinked(q) == [q EXCEPT !.conn = FALSE, !.res = FALSE, !.busy = {}]
Unknown(q) == [Unlinked(q) EXCEPT !.dev = FALSE, !.bond = "none"]

\* What a call does: BlueZ after it and the messages it sends; a call that takes time stays busy.
Done(q, c, r) == <<q, Reply(c, r, q)>>
Starts(q, c) == <<[q EXCEPT !.busy = @ \cup {c}], <<>>>>
Effect(q, c) ==
    CASE c.k = "Objects" -> Done(q, c, "ok")
      [] c.k = "Register" -> Done([q EXCEPT !.agent = TRUE], c, IF q.agent THEN "exists" ELSE "ok")
      [] c.k = "Unregister" ->
            Done([q EXCEPT !.agent = FALSE, !.dflt = FALSE], c, IF q.agent THEN "ok" ELSE "nosuch")
      [] c.k = "Default" -> IF q.agent THEN Done([q EXCEPT !.dflt = TRUE], c, "ok") ELSE Done(q, c, "err")
      [] c.k = "PairConnect" ->
            IF ~q.dev THEN Done(q, c, "err") ELSE IF q.conn THEN Done(q, c, "ok") ELSE Starts(q, c)
      [] c.k = "PairNotify" -> IF q.dev /\ q.conn /\ q.res THEN Starts(q, c) ELSE Done(q, c, "err")
      [] c.k = "PairBond" ->
            IF ~q.dev THEN Done(q, c, "err") ELSE IF q.bond # "none" THEN Done(q, c, "exists") ELSE Starts(q, c)
      [] c.k = "PairTrust" -> Done(q, c, IF q.dev THEN "ok" ELSE "err")
      [] c.k = "CancelPairing" ->
            LET ended == {x \in q.busy : x.k = "PairBond"}
            IN  <<[q EXCEPT !.busy = @ \ ended], <<>>>>
      [] c.k = "Disconnect" -> <<Unlinked(q), IF q.conn THEN Aborted(q) \o Changed(Unlinked(q)) ELSE Aborted(q)>>
      [] c.k \in {"RemoveDevice", "Forget"} ->
            IF q.dev THEN <<Unknown(q), Aborted(q) \o Changed(Unknown(q)) \o Reply(c, "ok", Unknown(q))>>
            ELSE Done(q, c, "nosuch")
      [] c.k = "Leave" ->
            <<[q EXCEPT !.agent = FALSE, !.dflt = FALSE, !.busy = {x \in @ : x.k # "PairBond"}], <<>>>>

\* An attempt's RemoveDevice that fails is not tried again.
Lost(q, c) == IF c.k = "RemoveDevice" /\ q.bond = "ours" THEN [q EXCEPT !.bond = "stray"] ELSE q

\* The next call is taken; without bluetoothd the bus answers it.
Serve ==
    /\ b.req # <<>>
    /\ LET c == Head(b.req)
           e == IF z.up THEN Effect(z, c) ELSE Done(Lost(z, c), c, "err")
       IN  /\ z' = e[1]
           /\ rep' = rep \o e[2]
    /\ b' = [b EXCEPT !.req = Tail(@)]
    /\ UNCHANGED <<disk, won, n>>

\* A call is refused, or done and its answer comes too late.
ServeFails ==
    /\ b.req # <<>> /\ z.up /\ Fault
    /\ LET c == Head(b.req)
       IN  /\ c.k \in {"Register", "Unregister", "Default", "PairTrust", "RemoveDevice", "Forget"}
           /\ \E q \in {z, Effect(z, c)[1]} :
                /\ z' = Lost(q, c)
                /\ rep' = rep \o (IF q.dev # z.dev THEN Changed(q) ELSE <<>>) \o Reply(c, "err", q)
    /\ b' = [b EXCEPT !.req = Tail(@)]
    /\ UNCHANGED <<disk, won>>

\* A long call ends.
Connected == /\ \E c \in z.busy : c.k = "PairConnect"
             /\ ~z.conn
             /\ z' = [z EXCEPT !.conn = TRUE] /\ rep' = rep \o Changed(z')
             /\ UNCHANGED <<b, disk, won, n>>
Resolved == /\ z.conn /\ ~z.res
            /\ z' = [z EXCEPT !.res = TRUE] /\ rep' = rep \o Changed(z')
            /\ UNCHANGED <<b, disk, won, n>>
Finish ==
    /\ \E c \in z.busy :
         LET q == [z EXCEPT !.busy = @ \ {c}]
         IN  \/ /\ c.k \in {"PairConnect", "PairNotify"} /\ z.conn
                /\ z' = q /\ rep' = rep \o Reply(c, "ok", q)
                /\ won' = IF c.k = "PairNotify" /\ c \in b.pends THEN c.id ELSE won
             \/ /\ c.k \in {"PairConnect", "PairNotify"} /\ z.bond = "none"
                /\ z' = q /\ rep' = rep \o Reply(c, "auth", q) /\ won' = won
             \/ /\ c.k = "PairBond" /\ AgentAccepts(b)
                /\ z' = [q EXCEPT !.bond = "ours"] /\ rep' = rep \o Reply(c, "ok", q) /\ won' = won
             \/ /\ z' = q /\ rep' = rep \o Reply(c, "err", q) /\ won' = won
    /\ UNCHANGED <<b, disk, n>>

\* BlueZ starts security itself while it resolves, through the default agent.
BondsItself ==
    /\ z.dflt /\ z.conn /\ z.bond = "none" /\ AgentAccepts(b) /\ Event
    /\ z' = [z EXCEPT !.bond = "stray"]
    /\ UNCHANGED <<b, rep, disk, won>>

LinkLost ==
    /\ z.conn /\ Len(rep) < MaxUnread /\ Event
    /\ z' = Unlinked(z) /\ rep' = rep \o Aborted(z) \o Changed(z')
    /\ UNCHANGED <<b, disk, won>>
\* A device without a bond is dropped when it is not seen for long, and found
\* again long after what was on its way has arrived.
DeviceGone ==
    /\ z.up /\ z.dev /\ z.bond = "none" /\ Len(rep) < MaxUnread /\ Event
    /\ z' = Unknown(z) /\ rep' = rep \o Aborted(z) \o Changed(z')
    /\ UNCHANGED <<b, disk, won>>
DeviceFound ==
    /\ z.up /\ ~z.dev /\ rep = <<>> /\ b.req = <<>>
    /\ z' = [z EXCEPT !.dev = TRUE] /\ rep' = rep \o Changed(z')
    /\ UNCHANGED <<b, disk, won, n>>

\* Bonds outlive it, everything else does not.
BluezStops ==
    /\ z.up /\ Restart
    /\ z' = [Off EXCEPT !.dev = z.bond # "none",
                        !.bond = IF z.bond = "ours" /\ b.step # "idle" THEN "stray" ELSE z.bond]
    /\ rep' = rep \o Signal("owner", "gone", z')
    /\ UNCHANGED <<b, disk, won>>
BluezStarts ==
    /\ ~z.up
    /\ z' = [z EXCEPT !.up = TRUE] /\ rep' = rep \o Signal("owner", "new", z')
    /\ UNCHANGED <<b, disk, won, n>>

-----------------------------------------------------------------------------
(* The daemon.                                                              *)

Receive ==
    /\ rep # <<>> /\ Up
    /\ \E late \in BOOLEAN : b' = OnMessage(b, Head(rep), late)
    /\ rep' = Tail(rep)
    /\ UNCHANGED <<z, disk, won, n>>

Tick(due) == Up /\ b' = OnTick(b, due) /\ UNCHANGED <<z, rep, disk, won, n>>

Pair ==
    /\ b.up = "on" /\ ~PairRefused(b) /\ n.pairs < MaxPairs
    /\ b' = PairStart(b) /\ n' = [n EXCEPT !.pairs = @ + 1]
    /\ UNCHANGED <<z, rep, disk, won>>
Cancel ==
    /\ b.up = "on" /\ b.step # "idle" /\ Event
    /\ b' = PairFail(b)
    /\ UNCHANGED <<z, rep, disk, won>>
Forget ==
    /\ b.up = "on" /\ b.loaded /\ b.s = "saved" /\ n.forgets < MaxForgets
    /\ b' = ForgetSensor(b) /\ n' = [n EXCEPT !.forgets = @ + 1]
    /\ UNCHANGED <<z, rep, disk, won>>

\* chef-state blesens-load answers, or is given up on.
Load ==
    /\ Up /\ ~b.loaded
    /\ b' = LoadFinish(b, disk)
    /\ UNCHANGED <<z, rep, disk, won, n>>
LoadTimedOut ==
    /\ Up /\ ~b.loaded /\ Fault
    /\ b' = LoadFinish(b, "none")
    /\ z' = [z EXCEPT !.bond = IF @ = "ours" THEN "stray" ELSE @]
    /\ UNCHANGED <<rep, disk, won>>

\* The child puts the file in place, then exits and is reaped.
SaveWrites ==
    /\ b.save.at = "run"
    /\ disk' = b.save.text /\ b' = [b EXCEPT !.save.at = "written"]
    /\ UNCHANGED <<z, rep, won, n>>
SaveReaped ==
    /\ Up /\ b.save.at = "written"
    /\ b' = SaveFinished(b, TRUE)
    /\ UNCHANGED <<z, rep, disk, won, n>>
\* It fails, or hangs and is killed at its bound, written or not.
SaveFails ==
    /\ Up /\ b.save.at # "none" /\ Fault
    /\ b' = SaveFinished(b, FALSE)
    /\ UNCHANGED <<z, rep, disk, won>>

\* The daemon's end: the bus tells BlueZ after the calls it has sent.
Ended(q) == [Dead EXCEPT !.req = Append(q.req, [k |-> "Leave", id |-> 0, life |-> q.life]), !.life = q.life + 1]
Stray == [z EXCEPT !.bond = IF @ = "ours" /\ disk = "none" THEN "stray" ELSE @]
Crash ==
    /\ Up /\ Restart
    /\ b' = Ended(b) /\ rep' = <<>> /\ z' = Stray
    /\ UNCHANGED <<disk, won>>
\* SIGTERM: no clients any more; it goes once the records are saved.
Stop == /\ b.up = "on" /\ Restart
        /\ b' = [b EXCEPT !.up = "stopping"]
        /\ UNCHANGED <<z, rep, disk, won>>
Exit ==
    /\ b.up = "stopping" /\ ~b.pending /\ b.save.at = "none"
    /\ b' = Ended(b) /\ rep' = <<>> /\ z' = Stray
    /\ UNCHANGED <<disk, won, n>>
Respawn ==
    /\ ~Up
    /\ b' = [Started(b.life) EXCEPT !.req = b.req \o @]
    /\ UNCHANGED <<z, rep, disk, won, n>>

Storage == SaveWrites \/ SaveReaped \/ SaveFails \/ Load \/ LoadTimedOut
Bluez == Serve \/ ServeFails \/ Connected \/ Resolved \/ Finish \/ BondsItself \/ LinkLost
         \/ DeviceGone \/ DeviceFound \/ BluezStops \/ BluezStarts
Daemon == Receive \/ (\E due \in BOOLEAN : Tick(due)) \/ Crash \/ Stop \/ Exit \/ Respawn
Next == Daemon \/ Storage \/ Bluez \/ Pair \/ Cancel \/ Forget

Spec == Init /\ [][Next]_vars

-----------------------------------------------------------------------------
(* Fairness: bluetoothd answers and is started again, and its long calls     *)
(* end; sd_bus_process and the tick run; the storage child ends and chef-state *)
(* answers; init respawns the daemon.  Nothing forces a fault or a request.  *)

FairBluez == WF_vars(Serve) /\ WF_vars(Finish) /\ WF_vars(Connected) /\ WF_vars(Resolved)
             /\ WF_vars(BluezStarts)
FairDaemon == WF_vars(Receive) /\ WF_vars(Tick(TRUE)) /\ WF_vars(Exit) /\ WF_vars(Respawn)
FairStorage == WF_vars(SaveWrites) /\ WF_vars(SaveReaped) /\ WF_vars(Load)
FairSpec == Spec /\ FairBluez /\ FairDaemon /\ FairStorage

-----------------------------------------------------------------------------
(* Properties.                                                              *)

Asked(k) == \E i \in DOMAIN b.req : b.req[i].k = k

\* A bond this daemon made is never left behind without a record to forget it by:
\* there is a sensor, an attempt that will undo it, or a RemoveDevice on its way.
RecordForBond ==
    z.bond = "ours" =>
        IF Up /\ b.loaded THEN b.s # "none" \/ b.step # "idle" \/ Asked("RemoveDevice")
        ELSE disk # "none" \/ Asked("RemoveDevice")

\* BlueZ is asked to remove a sensor only when a crash would find it marked as
\* being forgotten: the flag is on disk before the call is made.
FlagFirst ==
    (Asked("Forget") \/ \E c \in b.pends : c.k = "Forget") => disk # "saved"

\* A sensor is told forgotten (its slot freed) only when neither its record nor
\* the bond made for it is left, whatever the storage did meanwhile.
ForgottenIsGone ==
    [][b.s = "removed" /\ b'.s = "none" /\ Up /\ b'.up # "down"
        => disk = "none" /\ z.bond # "ours"]_vars

\* The daemon is the system's default agent only while it pairs, or while the
\* request that takes it back is under way.
DefaultOnlyWhilePairing ==
    z.dflt => (b.areq /\ b.step # "idle") \/ b.rel \/ Asked("Leave")

\* What bluetoothd holds for us is known to the daemon or to its file.
BondsAreKnown == RecordForBond /\ FlagFirst /\ DefaultOnlyWhilePairing

\* A sensor is saved only by an attempt whose own subscription BlueZ confirmed,
\* not by a bond alone nor by an answer to an earlier attempt.
SavedIsProven ==
    [][b.s = "none" /\ b'.s = "saved" /\ b.loaded => won = b.id]_vars

\* A forget whose RemoveDevice bluetoothd took with it, see ForgetSurvivesRestart.
Stuck == b.inf /\ \A c \in b.pends : c.k # "Forget"

\* When the faults and the requests are over, the attempt has ended, our agent is
\* registered and not the default one, what was to be saved is saved, and a
\* sensor to be forgotten is gone.
Settled == /\ b.up = "on" /\ b.loaded /\ b.step = "idle" /\ b.saved = b.rec
           /\ b.reg /\ ~b.rel /\ z.agent /\ ~z.dflt
           /\ Stuck \/ b.s \in {"none", "saved"}
Settles == <>[]Settled

\* "Pending Forget survives either daemon restarting; errors retry."
\* (docs/features/bluetooth.md:272)
ForgetSurvivesRestart == <>[](b.s \in {"none", "saved"})
=============================================================================
