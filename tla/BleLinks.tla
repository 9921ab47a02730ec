------------------------------ MODULE BleLinks ------------------------------
(***************************************************************************)
(* blesensd's links and its clients (src/tools/blesensd): link.c,          *)
(* server.c, the signals of bus.c and the tick of main.c, with one saved   *)
(* sensor that has one measurement.  Clients ask for scans and holds and   *)
(* watch; one that does not read is dropped by the line it cannot take, in *)
(* the middle of whatever the daemon was telling.                          *)
(*                                                                         *)
(* The daemon is one record, and a C function an operator from the daemon  *)
(* before the call to the daemon after it:                                 *)
(*   bluez, pw       GetManagedObjects answered; powered                   *)
(*   dev, chr        the cached device and characteristic                  *)
(*   wasC, wasR, cinf, notify, fresh, val, wait, linkUp   the       *)
(*                   sensor: was_connected, was_resolved,                  *)
(*                   connect_inflight, notify, a value is shown (last_ms)  *)
(*                   and the connection it came on, before next_try_ms,    *)
(*                   link_up                                               *)
(*   until, held, wanted   before retry_until; held; what the tick saw     *)
(*   scanOn, scanInf, scanWait   our discovery session                     *)
(*   shown, ashown   the last sensor and adapter lines told to watchers    *)
(*   cl, bcast, syncS, syncL   clients, broadcasting, sync_scan,           *)
(*                   sync_links                                            *)
(*   acting          the loop's round has read the bus: clients, then a tick *)
(*   pends, req      calls with a callback; calls bluetoothd has to take   *)
(*                                                                         *)
(* A line is its kind and what it tells.  The records are loaded, nothing  *)
(* is paired or forgotten meanwhile (BleLife), the bus stays.              *)
(***************************************************************************)
EXTENDS Integers, Sequences, FiniteSets, TLC

CONSTANTS
    Clients,       \* the slots, in the order a broadcast takes them: 1 .. N
    Scenarios,     \* may clients scan, is the sensor in reach, how many requests of clients
                   \* and clients dropped, how many events: links lost, power switched, services
                   \* changed, calls refused or late, bluetoothd restarts
    MaxUnread      \* messages to the daemon that events add to

ASSUME LinkBounds ==
    /\ Clients = 1 .. Cardinality(Clients) /\ MaxUnread \in Nat
    /\ Scenarios \subseteq [scans : BOOLEAN, reach : BOOLEAN, requests : Nat, events : Nat]

VARIABLES d, z, rep, n

vars == <<d, z, rep, n>>

NoDev == [known |-> FALSE, conn |-> FALSE, res |-> FALSE, cid |-> 0]
NoSight == [sensor |-> "off", value |-> FALSE, adapter |-> <<FALSE, FALSE>>]
Free == [on |-> FALSE, watch |-> FALSE, scan |-> FALSE, hold |-> FALSE, full |-> FALSE,
         late |-> FALSE, saw |-> NoSight]
SensorCalls == {"Connect", "Notify"}

-----------------------------------------------------------------------------
(* state.c and the calls.                                                   *)

\* bd_held
Held(q) == \E i \in Clients : q.cl[i].hold

\* bd_links_wanted
Wanted(q) == Held(q) \/ q.until

\* bd_sensor_state
SensorState(q) ==
    IF ~q.pw THEN "off"
    ELSE IF q.dev.conn /\ q.dev.res THEN "connected"
    ELSE IF Wanted(q) \/ q.cinf \/ q.dev.conn THEN "connecting" ELSE "waiting"

\* adapter_line
AdapterLine(q) == <<q.pw, q.scanOn>>

\* scan_wanted
ScanWanted(q) == q.bluez /\ q.pw /\ \E i \in Clients : q.cl[i].scan

\* bd_call; PK_PLAIN has no callback to remember
Call(q, k) ==
    [q EXCEPT !.req = Append(@, k), !.pends = IF k = "Disconnect" THEN @ ELSE @ \cup {k}]

-----------------------------------------------------------------------------
(* Telling the clients.  What a close has to change is done at once, or at   *)
(* the end of the broadcast it happens in; that may tell the clients again.  *)

RECURSIVE Broadcast(_, _)

\* bd_adapter_event
AdapterEvent(q) ==
    IF AdapterLine(q) = q.ashown THEN q
    ELSE Broadcast([q EXCEPT !.ashown = AdapterLine(q)], [adapter |-> AdapterLine(q)])

\* bd_sensor_event
SensorEvent(q) ==
    IF SensorState(q) = q.shown THEN q
    ELSE Broadcast([q EXCEPT !.shown = SensorState(q)], [sensor |-> SensorState(q)])

\* bd_value_event
ValueEvent(q) == Broadcast(q, [value |-> q.fresh])

\* bd_sensor_conn_reset
ConnReset(q) ==
    LET a == [q EXCEPT !.pends = @ \ SensorCalls,
                       !.wasC = FALSE, !.wasR = FALSE, !.cinf = FALSE, !.notify = "none",
                       !.fresh = FALSE]
    IN  IF q.fresh THEN ValueEvent(a) ELSE a

\* A mutant: BlueZ's Connect is left to itself.
LinksSyncLetsBe(q) ==
    SensorEvent([q EXCEPT !.held = Held(q), !.wait = @ /\ ~(Held(q) /\ ~q.held)])

\* bd_links_sync
LinksSync(q) ==
    LET a == [q EXCEPT !.held = Held(q), !.wait = @ /\ ~(Held(q) /\ ~q.held)]
    IN  SensorEvent(IF ~Wanted(a) /\ a.cinf /\ a.dev.known /\ ~a.dev.conn
                    THEN Call(ConnReset(a), "Disconnect") ELSE a)

\* bd_scan_sync
ScanSync(q) ==
    IF q.scanInf \/ q.scanWait \/ ScanWanted(q) = q.scanOn THEN q
    ELSE IF ScanWanted(q) THEN [Call(q, "Filter") EXCEPT !.scanInf = TRUE]
    ELSE IF q.pw THEN [Call(q, "StopScan") EXCEPT !.scanInf = TRUE]
    ELSE AdapterEvent([q EXCEPT !.scanOn = FALSE])

\* on_close
ScanSyncIf(scan, q) == IF scan THEN ScanSync(q) ELSE q
LinksSyncIf(hold, q) == IF hold THEN LinksSync(q) ELSE q
OnClose(q, i) ==
    LET c == q.cl[i]
        a == [q EXCEPT !.cl[i] = Free]
    IN  IF q.bcast THEN [a EXCEPT !.syncS = @ \/ c.scan, !.syncL = @ \/ c.hold]
        ELSE LinksSyncIf(c.hold, ScanSyncIf(c.scan, a))

\* linesrv_send: a client that cannot take the line is dropped.
Send(q, i, line) ==
    IF ~q.cl[i].on THEN q
    ELSE IF q.cl[i].full THEN OnClose(q, i)
    ELSE [q EXCEPT !.cl[i].saw = line @@ @]

\* A mutant: a watcher that is dropped ends the telling.
TellStops(q, line) ==
    LET told[i \in 0 .. Cardinality(Clients)] ==
            IF i = 0 THEN q
            ELSE IF told[i-1].cl[i].watch /\ \A j \in 1 .. i - 1 : q.cl[j].on = told[i-1].cl[j].on
                 THEN Send(told[i-1], i, line) ELSE told[i-1]
    IN  told[Cardinality(Clients)]

\* The loop over the slots.
Tell(q, line) ==
    LET told[i \in 0 .. Cardinality(Clients)] ==
            IF i = 0 THEN q
            ELSE IF told[i-1].cl[i].watch THEN Send(told[i-1], i, line) ELSE told[i-1]
    IN  told[Cardinality(Clients)]

\* bd_broadcast
ScanOwed(q) == ScanSyncIf(q.syncS, [q EXCEPT !.syncS = FALSE])
LinksOwed(q) == LinksSyncIf(q.syncL, [q EXCEPT !.syncL = FALSE])
Broadcast(q, line) ==
    LinksOwed(ScanOwed([Tell([q EXCEPT !.bcast = TRUE], line) EXCEPT !.bcast = FALSE]))

-----------------------------------------------------------------------------
(* link.c                                                                   *)

\* bd_retry_window
RetryWindow(q) == [q EXCEPT !.until = TRUE, !.wait = FALSE]

\* bd_value_bytes
ValueBytes(q, cid) ==
    IF ~q.dev.conn \/ q.notify = "none" THEN q
    ELSE ValueEvent([q EXCEPT !.fresh = TRUE, !.val = cid])

\* bd_sensor_keep
SensorKeep(q) ==
    IF ~q.pw \/ ~q.dev.known THEN q
    ELSE IF ~q.dev.conn
    THEN IF ~q.cinf /\ ~q.wait /\ Wanted(q) THEN [Call(q, "Connect") EXCEPT !.cinf = TRUE] ELSE q
    ELSE IF ~q.dev.res THEN [q EXCEPT !.wasC = TRUE]
    ELSE LET a == [q EXCEPT !.wasC = TRUE, !.wasR = TRUE]
         IN  IF a.notify = "none" /\ a.chr THEN [Call(a, "Notify") EXCEPT !.notify = "pending"] ELSE a

\* bd_sensor_reply
SensorReply(q, k, r) ==
    SensorEvent(IF k = "Connect" THEN [q EXCEPT !.cinf = FALSE, !.wait = r = "err"]
                ELSE [q EXCEPT !.notify = IF r = "err" THEN "none" ELSE "ours"])

\* bd_scan_reply
ScanReply(q, k, r) ==
    LET a == [q EXCEPT !.scanInf = FALSE, !.scanWait = (r = "err" /\ k # "StopScan")]
    IN  IF k = "Filter" THEN IF r = "err" THEN a ELSE [Call(a, "Scan") EXCEPT !.scanInf = TRUE]
        ELSE ScanSync(AdapterEvent([a EXCEPT !.scanOn = (k = "Scan" /\ r = "ok")]))

-----------------------------------------------------------------------------
(* bus.c                                                                    *)

\* devices_changed
LinkUp(q) == q.dev.conn /\ q.pw
LinkGone(q) == IF (q.wasC /\ ~LinkUp(q)) \/ (q.wasR /\ ~q.dev.res) THEN ConnReset(q) ELSE q
LinkSeen(q) ==
    [(IF q.linkUp /\ ~LinkUp(q) /\ q.pw THEN RetryWindow(q) ELSE q) EXCEPT !.linkUp = LinkUp(q)]
DevicesChanged(q) == ScanSync(AdapterEvent(SensorEvent(LinkSeen(LinkGone(q)))))

\* props_signal of the adapter
PowerSignal(q, on) ==
    DevicesChanged(IF ~q.bluez \/ q.pw = on THEN q
                   ELSE IF on THEN RetryWindow([q EXCEPT !.pw = TRUE])
                   ELSE [q EXCEPT !.pw = FALSE, !.scanOn = FALSE])

\* props_signal of the device; one that is not known yet is ignored
DeviceSignal(q, dev) == DevicesChanged(IF q.dev.known THEN [q EXCEPT !.dev = dev] ELSE q)

\* props_signal of the characteristic
ValueSignal(q, cid) == DevicesChanged(IF q.chr THEN ValueBytes(q, cid) ELSE q)

\* removed_signal and added_signal of the characteristic
ChrSignal(q, there) ==
    LET a == [q EXCEPT !.chr = there]
    IN  DevicesChanged(IF q.chr /\ ~there /\ (q.wasC \/ q.wasR) THEN ConnReset(a) ELSE a)

\* objects_reply
ObjectsReply(q, m) ==
    IF m.r = "err" THEN q
    ELSE DevicesChanged(RetryWindow([q EXCEPT !.bluez = TRUE, !.pw = m.pw, !.dev = m.dev, !.chr = m.chr]))

\* A mutant: the discovery call that is cancelled stays under way.
ResetKeepsScan(q) ==
    [ConnReset([q EXCEPT !.pends = {}, !.bluez = FALSE, !.pw = FALSE, !.scanOn = FALSE,
                         !.dev = NoDev, !.chr = FALSE])
       EXCEPT !.wait = FALSE]

\* bluez_reset
BluezReset(q) ==
    [ConnReset([q EXCEPT !.pends = {}, !.bluez = FALSE, !.pw = FALSE, !.scanOn = FALSE,
                         !.scanInf = FALSE, !.scanWait = FALSE, !.dev = NoDev, !.chr = FALSE])
       EXCEPT !.wait = FALSE]

\* owner_signal
AskObjects(new, q) == IF new THEN Call(q, "Objects") ELSE q
OwnerSignal(q, new) == SensorEvent(AdapterEvent(AskObjects(new, BluezReset(q))))

\* on_reply
OnReply(q, m) ==
    LET a == [q EXCEPT !.pends = @ \ {m.k}]
    IN  IF m.k = "Objects" THEN ObjectsReply(a, m)
        ELSE IF m.k \in SensorCalls THEN SensorReply(a, m.k, m.r)
        ELSE ScanReply(a, m.k, m.r)

\* sd_bus_process: one message
OnMessage(q, m) ==
    CASE m.t = "reply" -> OnReply(q, m)
      [] m.t = "power" -> PowerSignal(q, m.pw)
      [] m.t = "device" -> DeviceSignal(q, m.dev)
      [] m.t = "value" -> ValueSignal(q, m.dev.cid)
      [] m.t = "chr" -> ChrSignal(q, m.chr)
      [] m.t = "owner" -> OwnerSignal(q, m.r = "new")

\* main.c, tick; `due`: every wait is over; `stale`: no notification for STALE_MS
TickLinks(q) == LinksSyncIf(q.wanted # Wanted(q), [q EXCEPT !.wanted = Wanted(q)])
TickKeep(q) == IF q.bluez THEN SensorKeep(q) ELSE q
TickValue(q, stale) == IF q.fresh /\ stale THEN ValueEvent([q EXCEPT !.fresh = FALSE]) ELSE q
OnTick(q, due, stale) ==
    LET a == [q EXCEPT !.wait = @ /\ ~due, !.scanWait = @ /\ ~due]
    IN  ScanSync(TickValue(TickKeep(TickLinks(a)), stale))

\* on_line
ScanLine(q, i, on) == ScanSync(Send([q EXCEPT !.cl[i].scan = on], i, <<>>))
HoldLine(q, i, on) == LinksSync(Send([q EXCEPT !.cl[i].hold = on], i, <<>>))
Watching(q, i, late) ==
    IF q.cl[i].on THEN [q EXCEPT !.cl[i].watch = TRUE, !.cl[i].late = late] ELSE q
WatchLine(q, i) ==
    Watching(Send(q, i, [sensor |-> SensorState(q), adapter |-> AdapterLine(q), value |-> q.fresh]),
             i, SensorState(q) # q.shown)

-----------------------------------------------------------------------------
(* bluetoothd, external: up, its adapter's power, the device's connection     *)
(* (and its number modulo 2), our notification session, our discovery.        *)
(* `linking`: the Connect under way: ours, cancelled (nobody waits for its    *)
(* answer) or orphan (the bus library gave up on the answer).  A call is      *)
(* taken in the step that makes it: what bluetoothd does before it takes the  *)
(* call could as well have happened before the call was made.                 *)

Off == [up |-> FALSE, pw |-> FALSE, conn |-> FALSE, res |-> FALSE, cid |-> 0, chr |-> TRUE,
        sess |-> FALSE, disc |-> FALSE, linking |-> "no"]
View(q) == [known |-> TRUE, conn |-> q.conn, res |-> q.res, cid |-> q.cid]
Msg(t, k, r, q) == [t |-> t, k |-> k, r |-> r, dev |-> View(q), pw |-> q.pw, chr |-> q.chr]
Answer(k, r, q) == <<Msg("reply", k, r, q)>>
Signal(t, q) == <<Msg(t, "", "", q)>>
Aborted(q) == IF q.linking = "ours" THEN Answer("Connect", "err", q) ELSE <<>>
Unlinked(q) == [q EXCEPT !.conn = FALSE, !.res = FALSE, !.sess = FALSE, !.linking = "no"]

\* What a call does: bluetoothd after it and what it sends.
Done(q, k, r) == <<q, Answer(k, r, q)>>
Effect(q, k) ==
    CASE ~q.up -> IF k = "Disconnect" THEN <<q, <<>>>> ELSE Done(q, k, "err")
      [] k = "Objects" -> Done(q, k, "ok")
      [] k = "Filter" -> Done(q, k, IF q.pw THEN "ok" ELSE "err")
      [] k = "Scan" -> Done([q EXCEPT !.disc = q.pw], k, IF q.pw THEN "ok" ELSE "err")
      [] k = "StopScan" -> Done([q EXCEPT !.disc = FALSE], k, IF q.disc THEN "ok" ELSE "err")
      [] k = "Connect" -> IF ~q.pw \/ q.linking # "no" THEN Done(q, k, "err")
                          ELSE IF q.conn THEN Done(q, k, "ok")
                          ELSE <<[q EXCEPT !.linking = "ours"], <<>>>>
      [] k = "Notify" -> IF q.conn /\ q.res /\ q.chr THEN Done([q EXCEPT !.sess = TRUE], k, "ok")
                         ELSE Done(q, k, "err")
      [] k = "Disconnect" ->
            <<Unlinked(q), Aborted(q) \o (IF q.conn THEN Signal("device", Unlinked(q)) ELSE <<>>)>>

\* Does the Connect made before this step still have its callback?
Waited(q) == "Connect" \in q.pends /\ \A i \in DOMAIN q.req : q.req[i] # "Connect"

\* The calls of a step, `refused` or served, and the answers nobody waits for.
Taken(q, refused) ==
    LET after[i \in 0 .. Len(q.req)] ==
            IF i = 0 THEN <<[z EXCEPT !.linking = IF @ = "ours" /\ ~Waited(q) THEN "cancelled" ELSE @], <<>>>>
            ELSE LET p == after[i-1]
                     e == IF refused /\ q.req[i] \in {"Filter", "Scan", "Notify"}
                          THEN Done(p[1], q.req[i], "err") ELSE Effect(p[1], q.req[i])
                 IN  <<e[1], p[2] \o e[2]>>
    IN  after[Len(q.req)]

-----------------------------------------------------------------------------
Init ==
    /\ d = [bluez |-> FALSE, pw |-> FALSE, dev |-> NoDev, chr |-> FALSE,
            wasC |-> FALSE, wasR |-> FALSE, cinf |-> FALSE, notify |-> "none", fresh |-> FALSE,
            val |-> 0, wait |-> FALSE, linkUp |-> FALSE, until |-> FALSE, held |-> FALSE,
            wanted |-> FALSE, acting |-> FALSE, scanOn |-> FALSE, scanInf |-> FALSE, scanWait |-> FALSE,
            shown |-> "off", ashown |-> <<FALSE, FALSE>>, cl |-> [i \in Clients |-> [Free EXCEPT !.on = TRUE, !.watch = TRUE]],
            bcast |-> FALSE, syncS |-> FALSE, syncL |-> FALSE, pends |-> {"Objects"}, req |-> <<>>]
    /\ z = [Off EXCEPT !.up = TRUE, !.pw = TRUE]
    /\ rep = Answer("Objects", "ok", z)
    /\ n \in Scenarios

\* What is left of the scenario.
Request == n.requests > 0 /\ n' = [n EXCEPT !.requests = @ - 1]
Fault == n.events > 0 /\ n' = [n EXCEPT !.events = @ - 1]
Event == Len(rep) < MaxUnread /\ Fault

\* The daemon is q after a step that leaves `unread`; its calls are taken.
Becomes(q, unread, refused) ==
    LET e == Taken(q, refused)
        heard == SelectSeq(unread \o e[2], LAMBDA m : m.t = "reply" => m.k \in q.pends)
    IN  /\ d' = [q EXCEPT !.req = <<>>, !.val = IF q.fresh THEN @ ELSE 0,
                          !.cl = [i \in Clients |-> [q.cl[i] EXCEPT !.full = FALSE]]]
        /\ z' = e[1] /\ rep' = heard

-----------------------------------------------------------------------------
(* bluetoothd's own steps.                                                  *)

Links == /\ n.reach /\ z.linking # "no" /\ ~z.conn
         /\ z' = [z EXCEPT !.conn = TRUE, !.cid = 1 - @, !.linking = IF @ = "ours" THEN @ ELSE "no"]
         /\ rep' = rep \o Signal("device", z')
         /\ UNCHANGED <<d, n>>
Resolves == /\ z.conn /\ ~z.res
            /\ z' = [z EXCEPT !.res = TRUE] /\ rep' = rep \o Signal("device", z')
            /\ UNCHANGED <<d, n>>
\* A Connect ends: linked, or given up.
Finish ==
    /\ z.linking # "no"
    /\ z' = [z EXCEPT !.linking = "no"]
    /\ \E r \in {"ok", "err"} :
         /\ r = "ok" => z.conn
         /\ rep' = rep \o (IF z.linking = "ours" THEN Answer("Connect", r, z) ELSE <<>>)
    /\ UNCHANGED <<d, n>>
\* CONNECT_TIMEOUT_US: the bus library answers for bluetoothd, which goes on.
TimesOut ==
    /\ z.linking = "ours" /\ Fault
    /\ rep' = rep \o Answer("Connect", "err", z)
    /\ z' = [z EXCEPT !.linking = IF z.conn THEN "no" ELSE "orphan"]
    /\ UNCHANGED d

LinkLost == /\ z.conn /\ Event
            /\ z' = Unlinked(z) /\ rep' = rep \o Aborted(z) \o Signal("device", z')
            /\ UNCHANGED d
Notifies == /\ z.sess /\ Len(rep) < MaxUnread
            /\ rep' = rep \o Signal("value", z)
            /\ UNCHANGED <<d, z, n>>
\* The sensor's services change: the characteristic goes, or comes back.
ServiceGoes == /\ z.conn /\ z.chr /\ Event
               /\ z' = [z EXCEPT !.chr = FALSE, !.sess = FALSE]
               /\ rep' = rep \o Signal("chr", z')
               /\ UNCHANGED d
ServiceComes == /\ z.up /\ ~z.chr /\ z' = [z EXCEPT !.chr = TRUE] /\ rep' = rep \o Signal("chr", z')
                /\ UNCHANGED <<d, n>>
\* The settings switch Bluetooth; the links and the discovery end with it.
PowerOff ==
    /\ z.pw /\ Event
    /\ z' = [Unlinked(z) EXCEPT !.pw = FALSE, !.disc = FALSE]
    /\ rep' = rep \o Aborted(z) \o (IF z.conn THEN Signal("device", [z' EXCEPT !.pw = TRUE]) ELSE <<>>)
                  \o Signal("power", z')
    /\ UNCHANGED d
PowerOn == /\ z.up /\ ~z.pw /\ z' = [z EXCEPT !.pw = TRUE] /\ rep' = rep \o Signal("power", z')
           /\ UNCHANGED <<d, n>>
BluezStops == /\ z.up /\ Fault
              /\ z' = Off /\ rep' = rep \o <<Msg("owner", "", "gone", z')>>
              /\ UNCHANGED d
\* It takes longer to start than the daemon to notice.
BluezStarts == /\ ~z.up /\ rep = <<>>
               /\ z' = [z EXCEPT !.up = TRUE, !.pw = TRUE] /\ rep' = rep \o <<Msg("owner", "", "new", z')>>
               /\ UNCHANGED <<d, n>>

-----------------------------------------------------------------------------
(* The daemon, its clients and time.                                        *)

Rested(q) == [q EXCEPT !.acting = FALSE]

\* A watcher that no line fits any more, and what is done to the daemon meanwhile.
Stuffed == {[d EXCEPT !.cl[i].full = TRUE] : i \in {j \in Clients : d.cl[j].watch}}

Receive == /\ rep # <<>> /\ ~d.acting
           /\ \/ Becomes(OnMessage(d, Head(rep)), Tail(rep), FALSE) /\ UNCHANGED n
              \/ /\ Request
                 /\ \E q \in Stuffed : Becomes(OnMessage(q, Head(rep)), Tail(rep), FALSE)
Tick(due, stale) ==
    /\ d.acting
    /\ \/ Becomes(Rested(OnTick(d, due, stale)), rep, FALSE) /\ UNCHANGED n
       \/ Request /\ \E q \in Stuffed : Becomes(Rested(OnTick(q, due, stale)), rep, FALSE)
\* What came meanwhile waits for the next round.
BusRead == ~d.acting /\ rep = <<>> /\ d' = [d EXCEPT !.acting = TRUE] /\ UNCHANGED <<z, rep, n>>
NextRound == d.acting /\ rep # <<>> /\ d' = Rested(d) /\ UNCHANGED <<z, rep, n>>
\* The window is many ticks long.
WindowLapses == d.until /\ d.wanted /\ d' = [d EXCEPT !.until = FALSE] /\ UNCHANGED <<z, rep, n>>
\* bluetoothd refuses what is asked of it; StopDiscovery only when there is nothing
\* of ours to stop, as the code takes it.
Refused == /\ z.up /\ Fault
           /\ \/ rep # <<>> /\ ~d.acting /\ Becomes(OnMessage(d, Head(rep)), Tail(rep), TRUE)
              \/ d.acting /\ Becomes(Rested(OnTick(d, TRUE, FALSE)), rep, TRUE)

\* A connection takes the first free slot; its first request is `watch`.
Connects(i) ==
    /\ d.acting /\ ~d.cl[i].on /\ \A j \in Clients : j < i => d.cl[j].on
    /\ Request /\ Becomes(WatchLine([d EXCEPT !.cl[i].on = TRUE], i), rep, FALSE)
Asks(i) ==
    /\ d.acting /\ d.cl[i].on /\ Request
    /\ \E q \in {d} \cup Stuffed :
       \E a \in (IF n.scans THEN {ScanLine(q, i, ~q.cl[i].scan)} ELSE {})
                 \cup {HoldLine(q, i, ~q.cl[i].hold)} : Becomes(a, rep, FALSE)
Leaves(i) == d.acting /\ d.cl[i].on /\ Request /\ Becomes(OnClose(d, i), rep, FALSE)

Client == \E i \in Clients : Connects(i) \/ Asks(i) \/ Leaves(i)
Daemon == Receive \/ (\E due, stale \in BOOLEAN : Tick(due, stale)) \/ BusRead \/ NextRound
          \/ WindowLapses \/ Refused
Bluez == Links \/ Resolves \/ Finish \/ TimesOut \/ LinkLost
         \/ Notifies \/ ServiceGoes \/ ServiceComes \/ PowerOff \/ PowerOn \/ BluezStops \/ BluezStarts
Next == Client \/ Daemon \/ Bluez

Spec == Init /\ [][Next]_vars

-----------------------------------------------------------------------------
(* Fairness: the daemon's loop reads its messages and ticks, time passes,     *)
(* bluetoothd ends what it has under way and comes back, the adapter is       *)
(* switched on again.  Nothing makes a link come up or a client ask.          *)

\* Weak fairness of Receive and strong fairness of the tick, by what enables them; a
\* round reads 64 messages at most, so it gets to the clients however many come.
FairLoop == /\ SF_vars(BusRead) /\ WF_vars(NextRound)
            /\ <>[](rep # <<>> /\ ~d.acting) => []<><<Receive>>_vars
            /\ []<>d.acting => []<><<Tick(TRUE, TRUE)>>_vars
FairBluez == WF_vars(Finish) /\ WF_vars(Resolves) /\ WF_vars(ServiceComes)
             /\ WF_vars(BluezStarts) /\ WF_vars(PowerOn)
FairSpec == Spec /\ FairLoop /\ FairBluez /\ WF_vars(WindowLapses)

-----------------------------------------------------------------------------
(* Properties.                                                              *)

\* A value is shown only while the connection it came on is the one the daemon
\* knows: none survives a lost link, a restart of bluetoothd or a power-off,
\* and none comes in through a subscription of an earlier connection.  And every
\* watcher knows what the daemon would tell a new one, whoever was dropped in the
\* middle of telling; only the lapse of the window waits for a tick.  (A client that
\* began to watch between that lapse and the tick is excepted: see the README.)
WatcherIsCurrent ==
    /\ d.fresh => d.pw /\ d.dev.conn /\ d.val = d.dev.cid /\ d.notify # "none"
    /\ \A i \in Clients :
         d.cl[i].watch => /\ d.cl[i].saw.value = d.fresh /\ d.cl[i].saw.adapter = AdapterLine(d)
                          /\ \/ d.cl[i].late \/ d.wanted # Wanted(d)
                             \/ d.cl[i].saw.sensor = SensorState(d)

\* bluetoothd is left searching for the sensor only while somebody wants it
\* connected, or until the next tick has seen that nobody does.
QuietUnlessWanted ==
    z.linking \in {"ours", "cancelled"} /\ ~z.conn => Wanted(d) \/ d.wanted

\* In the end bluetoothd scans for us exactly while a client wants it, whatever was
\* refused, restarted, switched off or closed in between.
ScanFollows == <>[](z.up /\ z.pw /\ z.disc = \E i \in Clients : d.cl[i].scan)

\* The link recovers: it does not stay up without the subscription made on it, and
\* while a client holds the sensor, every attempt at it that fails is followed by
\* another.  (Again and again, not for good: a link that comes up just as the retry
\* window lapses is taken down, which opens the window again.)
LinkRecovers ==
    []<>(/\ z.conn => z.res /\ z.sess /\ d.notify = "ours"
         /\ Held(d) => z.conn \/ z.linking # "no")

\* Both: what clients want of bluetoothd comes about.
Follows == ScanFollows /\ LinkRecovers
=============================================================================
