------------------------------ MODULE BleCore ------------------------------
(***************************************************************************)
(* The part of blesensd (src/tools/blesensd) that pairs a sensor, keeps    *)
(* its record and forgets it: pair.c, the agent and the bus life of bus.c, *)
(* records.c.  Every C function is an operator from the daemon before the  *)
(* call to the daemon after it.  The daemon is one record:                 *)
(*                                                                         *)
(*   up, loaded      running, exiting or dead; the records have been read  *)
(*   bluez, dev      GetManagedObjects answered; the cached device         *)
(*   reg, regInf, rel, relInf   agent_registered, agent_inflight,          *)
(*                   agent_releasing, agent_release_inflight               *)
(*   step .. areq    D.pr: the step, the attempt's identity,               *)
(*                   connected_by_us, bonded, agent_requested              *)
(*   s, sid, inf, frev, rrev    the sensor: none, saved, forget            *)
(*                   (forgetting) or removed (removal_confirmed), its      *)
(*                   identity, forget_inflight, forget_revision,           *)
(*                   removal_revision                                      *)
(*   rec, srev, saved, pending, wait, save    record_revision,             *)
(*                   save_revision, saved_revision, save_pending, before   *)
(*                   save_retry_ms, and the chef-state blesens-save child  *)
(*   pends           the calls that still have their callback              *)
(*   req             the calls sent and not yet taken by bluetoothd        *)
(*                                                                         *)
(* There is one device, so one sensor slot.  A call is its kind, the       *)
(* identity its reply is checked against and the bus life it was made in;  *)
(* the last stands for the callback's own slot.  bd_call never fails: the  *)
(* system bus stays and MAX_PENDS is not reached.                          *)
(***************************************************************************)
EXTENDS Integers, Sequences

NoDev == [known |-> FALSE, conn |-> FALSE, res |-> FALSE]
Steps == {"idle", "connect", "resolve", "notify", "bond", "trust"}
\* The calls made for the attempt: cancelled with it.
PairKinds == {"Default", "PairConnect", "PairNotify", "PairBond", "PairTrust"}
\* PK_PLAIN: nothing is done with the answer.
PlainKinds == {"CancelPairing", "RemoveDevice", "Disconnect"}

NoSaver == [at |-> "none", text |-> "none"]
Saver(text) == [at |-> "run", text |-> text]

Dead == [up |-> "down", loaded |-> FALSE, bluez |-> FALSE, dev |-> NoDev,
         reg |-> FALSE, regInf |-> FALSE, rel |-> FALSE, relInf |-> FALSE,
         step |-> "idle", id |-> 0, byUs |-> FALSE, bonded |-> FALSE, areq |-> FALSE,
         s |-> "none", sid |-> 0, inf |-> FALSE, frev |-> 0, rrev |-> 0,
         rec |-> 0, srev |-> 0, saved |-> 0, pending |-> FALSE, wait |-> FALSE,
         save |-> NoSaver, pends |-> {}, req |-> <<>>, life |-> 0]

-----------------------------------------------------------------------------
(* Calls.                                                                   *)

\* bd_call
Call(b, k, id) ==
    LET c == [k |-> k, id |-> id, life |-> b.life]
    IN  [b EXCEPT !.req = Append(@, c), !.pends = IF k \in PlainKinds THEN @ ELSE @ \cup {c}]

\* bd_pend_cancel of the attempt
CancelAttempt(b) == [b EXCEPT !.pends = {c \in @ : ~(c.k \in PairKinds /\ c.id = b.id)}]

\* bd_pend_cancel of the sensor, its removal too
CancelSensor(b) == [b EXCEPT !.pends = {c \in @ : ~(c.k = "Forget" /\ c.id = b.sid)}]

-----------------------------------------------------------------------------
(* The agent.  Retries wait for a tick.                                     *)

\* bd_agent_release_drive
AgentReleaseDrive(b) ==
    IF b.bluez /\ b.rel /\ ~b.relInf
    THEN [Call(b, "Unregister", 0) EXCEPT !.relInf = TRUE]
    ELSE b

\* bd_agent_register
AgentRegister(b) ==
    IF b.rel THEN AgentReleaseDrive(b)
    ELSE IF b.bluez /\ ~b.reg /\ ~b.regInf
    THEN [Call(b, "Register", 0) EXCEPT !.regInf = TRUE]
    ELSE b

\* pair_agent_release
PairAgentRelease(b) ==
    IF b.areq
    THEN AgentReleaseDrive([b EXCEPT !.areq = FALSE, !.reg = FALSE, !.rel = TRUE])
    ELSE b

\* pair_agent_request
PairAgentRequest(b) ==
    IF b.reg /\ ~b.areq THEN [Call(b, "Default", b.id) EXCEPT !.areq = TRUE] ELSE b

\* agent_call: RequestConfirmation and the like, asked about the device.
AgentAccepts(b) == b.up # "down" /\ b.step # "idle"

-----------------------------------------------------------------------------
(* Records.                                                                 *)

\* records_text
RecordsText(b) == IF b.s = "removed" THEN "none" ELSE b.s

\* bd_save_start
SaveStart(b) ==
    IF b.pending /\ b.save.at = "none" /\ ~b.wait
    THEN [b EXCEPT !.pending = FALSE, !.srev = b.rec, !.save = Saver(RecordsText(b))]
    ELSE b

\* bd_save_records
SaveRecords(b) == SaveStart([b EXCEPT !.rec = @ + 1, !.pending = TRUE])

\* save_finished
SaveFinished(b, success) ==
    LET f == IF success THEN [b EXCEPT !.saved = b.srev, !.wait = FALSE]
                        ELSE [b EXCEPT !.pending = TRUE, !.wait = TRUE]
    IN  SaveStart([f EXCEPT !.save = NoSaver])

\* load_parse and load_finish
LoadFinish(b, text) ==
    [b EXCEPT !.loaded = TRUE, !.s = text, !.sid = IF text = "none" THEN @ ELSE @ + 1]

-----------------------------------------------------------------------------
(* Pairing.                                                                 *)

\* bd_pair_fail
PairFail(b) ==
    LET quiet == PairAgentRelease([CancelAttempt(b) EXCEPT !.step = "idle"])
        asked == IF b.step = "bond" THEN Call(quiet, "CancelPairing", 0) ELSE quiet
    IN  IF b.step = "idle" THEN b
        ELSE IF ~b.bluez \/ ~b.dev.known THEN quiet
        ELSE IF b.bonded \/ b.step = "bond" THEN Call(asked, "RemoveDevice", 0)
        ELSE IF b.byUs THEN Call(quiet, "Disconnect", 0)
        ELSE quiet

\* pair_done; the links take over from here
PairDone(b) ==
    IF ~b.dev.known THEN PairFail(b)
    ELSE SaveRecords(PairAgentRelease(
             [CancelAttempt(b) EXCEPT !.step = "idle", !.s = "saved", !.sid = @ + 1]))

\* pair_trust
PairTrust(b) == Call([b EXCEPT !.step = "trust"], "PairTrust", b.id)

\* pair_bond
PairBond(b) == IF b.reg THEN Call([b EXCEPT !.step = "bond"], "PairBond", b.id) ELSE PairFail(b)

\* pair_notify; a device that is known has its measurement
PairNotify(b) ==
    IF b.dev.known THEN Call([b EXCEPT !.step = "notify"], "PairNotify", b.id) ELSE PairFail(b)

\* bd_pair_check; `late` is a deadline that has passed
PairCheck(b, late) ==
    IF b.step = "idle" THEN b
    ELSE IF ~b.dev.known \/ late THEN PairFail(b)
    ELSE LET a == IF b.step = "connect" /\ ~b.byUs THEN PairAgentRequest(b) ELSE b
         IN  IF a.step = "resolve" /\ a.dev.conn /\ a.dev.res THEN PairNotify(a) ELSE a

\* bd_pair_reply, PK_PAIR_AGENT
DefaultReply(b, r, late) ==
    IF b.step # "connect" THEN b
    ELSE IF r # "ok" \/ ~b.dev.known THEN PairFail(b)
    ELSE IF b.dev.conn THEN PairCheck([b EXCEPT !.step = "resolve"], late)
    ELSE Call([b EXCEPT !.byUs = TRUE], "PairConnect", b.id)

\* bd_pair_reply, PK_PAIR_CONNECT
ConnectReply(b, r, late) ==
    IF b.step # "connect" THEN b
    ELSE IF r = "auth" /\ ~b.bonded THEN PairBond(b)
    ELSE IF r # "ok" THEN PairFail(b)
    ELSE PairCheck([b EXCEPT !.step = "resolve"], late)

\* bd_pair_reply, PK_PAIR_NOTIFY
NotifyReply(b, r) ==
    IF b.step # "notify" THEN b
    ELSE IF r = "ok" THEN PairTrust(b)
    ELSE IF r = "auth" /\ ~b.bonded THEN PairBond(b)
    ELSE PairFail(b)

\* A mutant: a bond is taken for the proof that the measurement works.
BondReplyTrusts(b, r, late) ==
    IF b.step # "bond" THEN b
    ELSE IF r \notin {"ok", "exists"} THEN PairFail(b)
    ELSE PairTrust([b EXCEPT !.bonded = TRUE])

\* A mutant: the bond is not remembered.
BondReplyForgets(b, r, late) ==
    IF b.step # "bond" THEN b
    ELSE IF r \notin {"ok", "exists"} THEN PairFail(b)
    ELSE PairCheck([b EXCEPT !.step = "resolve"], late)

\* bd_pair_reply, PK_PAIR_BOND
BondReply(b, r, late) ==
    IF b.step # "bond" THEN b
    ELSE IF r \notin {"ok", "exists"} THEN PairFail(b)
    ELSE PairCheck([b EXCEPT !.bonded = TRUE, !.step = "resolve"], late)

\* bd_pair_reply, PK_PAIR_TRUST
TrustReply(b, r) ==
    IF b.step # "trust" THEN b ELSE IF r = "ok" THEN PairDone(b) ELSE PairFail(b)

\* bd_pair_reply
PairReply(b, c, r, late) ==
    IF b.step = "idle" \/ c.id # b.id THEN b
    ELSE CASE c.k = "Default" -> DefaultReply(b, r, late)
           [] c.k = "PairConnect" -> ConnectReply(b, r, late)
           [] c.k = "PairNotify" -> NotifyReply(b, r)
           [] c.k = "PairBond" -> BondReply(b, r, late)
           [] c.k = "PairTrust" -> TrustReply(b, r)

\* bd_pair_refusal
PairRefused(b) ==
    ~b.loaded \/ ~b.bluez \/ b.step # "idle" \/ b.s # "none" \/ ~b.dev.known

\* bd_pair_start
PairStart(b) ==
    PairAgentRequest([b EXCEPT !.step = "connect", !.id = @ + 1, !.byUs = FALSE,
                                !.bonded = FALSE, !.areq = FALSE])

-----------------------------------------------------------------------------
(* Forgetting.                                                              *)

\* forget_finish
ForgetFinish(b) ==
    IF b.s = "removed" THEN b
    ELSE LET q == SaveRecords([b EXCEPT !.s = "removed"]) IN [q EXCEPT !.rrev = q.rec]

\* forget_durable
ForgetDurable(b) ==
    [CancelSensor(b) EXCEPT !.s = "none", !.inf = FALSE, !.frev = 0, !.rrev = 0]

\* A mutant: "forgotten" is told when BlueZ has removed the device.
ForgetStepEarly(b) ==
    IF b.s = "removed" THEN ForgetDurable(b)
    ELSE IF b.s # "forget" \/ b.saved < b.frev \/ b.inf \/ ~b.bluez THEN b
    ELSE IF ~b.dev.known THEN ForgetFinish(b)
    ELSE [Call(b, "Forget", b.sid) EXCEPT !.inf = TRUE]

\* bd_forget_step
ForgetStep(b) ==
    IF b.s = "removed" THEN IF b.saved >= b.rrev THEN ForgetDurable(b) ELSE b
    ELSE IF b.s # "forget" \/ b.saved < b.frev \/ b.inf \/ ~b.bluez THEN b
    ELSE IF ~b.dev.known THEN ForgetFinish(b)
    ELSE [Call(b, "Forget", b.sid) EXCEPT !.inf = TRUE]

\* bd_forget_reply
ForgetReply(b, c, r) ==
    IF c.id # b.sid \/ b.s \notin {"forget", "removed"} THEN b
    ELSE LET a == [b EXCEPT !.inf = FALSE]
         IN  IF r \in {"ok", "nosuch"} THEN ForgetFinish(a) ELSE a

\* bd_forget
ForgetSensor(b) ==
    IF b.s # "saved" THEN b
    ELSE LET q == SaveRecords([b EXCEPT !.s = "forget"]) IN ForgetStep([q EXCEPT !.frev = q.rec])

-----------------------------------------------------------------------------
(* The bus.                                                                 *)

\* agent_reply
AgentReply(b, r, late) ==
    LET a == [b EXCEPT !.regInf = FALSE]
    IN  IF r \in {"ok", "exists"} THEN PairCheck([a EXCEPT !.reg = TRUE], late) ELSE a

\* on_reply, PK_AGENT_RELEASE
ReleaseReply(b, r) ==
    LET a == [b EXCEPT !.relInf = FALSE]
    IN  IF r \in {"ok", "nosuch"} THEN AgentRegister([a EXCEPT !.rel = FALSE]) ELSE a

\* objects_reply
ObjectsReply(b, r, dev, late) ==
    IF r # "ok" THEN b
    ELSE PairCheck(AgentRegister([b EXCEPT !.dev = dev, !.bluez = TRUE]), late)

\* A mutant: the release of the old bluetoothd's agent stays in flight.
ResetKeepsRelease(b) ==
    [PairFail(b) EXCEPT !.pends = {}, !.bluez = FALSE, !.reg = FALSE, !.regInf = FALSE,
                        !.rel = FALSE, !.dev = NoDev, !.life = @ + 1]

\* bluez_reset
BluezReset(b) ==
    [PairFail(b) EXCEPT !.pends = {}, !.bluez = FALSE, !.reg = FALSE, !.regInf = FALSE,
                        !.rel = FALSE, !.relInf = FALSE, !.dev = NoDev, !.life = @ + 1]

\* owner_signal
OwnerSignal(b, new) == IF new THEN Call(BluezReset(b), "Objects", 0) ELSE BluezReset(b)

\* props_signal, added_signal and removed_signal, with devices_changed
DeviceSignal(b, dev, late) == PairCheck([b EXCEPT !.dev = dev], late)

\* on_reply: a call without its callback is not heard.
OnReply(b, m, late) ==
    LET c == m.c
        a == [b EXCEPT !.pends = @ \ {c}]
    IN  IF c \notin b.pends THEN b
        ELSE CASE c.k = "Objects" -> ObjectsReply(a, m.r, m.dev, late)
               [] c.k = "Register" -> AgentReply(a, m.r, late)
               [] c.k = "Unregister" -> ReleaseReply(a, m.r)
               [] c.k = "Forget" -> ForgetReply(a, c, m.r)
               [] c.k \in PairKinds -> PairReply(a, c, m.r, late)

\* sd_bus_process: one message
OnMessage(b, m, late) ==
    CASE m.t = "reply" -> OnReply(b, m, late)
      [] m.t = "device" -> DeviceSignal(b, m.dev, late)
      [] m.t = "owner" -> OwnerSignal(b, m.r = "new")

\* main.c, tick; `due` is every wait over and the attempt's deadline passed
OnTick(b, due) ==
    LET a == AgentRegister(SaveStart([b EXCEPT !.wait = @ /\ ~due]))
    IN  PairCheck(IF a.loaded THEN ForgetStep(a) ELSE a, due)

=============================================================================
