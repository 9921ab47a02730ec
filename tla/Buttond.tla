------------------------------ MODULE Buttond ------------------------------
(***************************************************************************)
(* buttond (src/tools/buttond/buttond.c): the side buttons, from the       *)
(* evdev devices through the gesture recognizer to the clients that claim  *)
(* gestures, the keys passed on to other programs, and the two-stage       *)
(* power-off.                                                              *)
(*                                                                         *)
(*   s      struct server with its recognizer.  Every C function is one    *)
(*          operator from the struct before the call to the one after; the *)
(*          clock is an age per armed timer.  `virt` is what chef-buttons  *)
(*          shows to others; `owed`, `bogus`, `length` and `off` are       *)
(*          history: presses accepted and not answered by a gesture yet, a *)
(*          gesture without a press, the physical length of the power      *)
(*          press that is released, and the power-off.                     *)
(*   phys   the buttons held down; `held` for how long the power button is *)
(*   queue  the events in the two evdev devices, unread                    *)
(*   pc     where the loop is: in poll(), or past the reading of events    *)
(*   late   how long the loop has been late in this half of the round      *)
(*                                                                         *)
(* A client's claims are a set of gestures, with Watch for `watch`.  A     *)
(* line a client does not take drops it: `full` is the set of those whose  *)
(* queue takes no more.                                                    *)
(***************************************************************************)
EXTENDS Integers, Sequences

CONSTANTS
    Volumes,       \* the volume buttons there are
    Clients,
    Claimable,     \* what clients ask for
    Long,          \* long_ms, in units of time
    Double,        \* double_ms
    Hold,          \* poweroff_hold_ms, not 0
    Stall,         \* how late a half of the loop's round may be
    MaxQueued,     \* unread events of a device
    MaxPresses,    \* physical presses
    MaxRequests,   \* requests and hang-ups of clients
    MaxRestarts

Buttons == {"power"} \cup Volumes
Kinds == {"short", "double", "long"}
Gestures == (Buttons \X Kinds) \cup (Volumes \X {"chord"})
Watch == <<"all", "watch">>

ASSUME ButtonsAssumption == Volumes \subseteq {"volup", "voldown"}
ASSUME ClaimsAssumption == Claimable \subseteq Gestures \cup {Watch}
ASSUME TimesAssumption == {Long, Double, Hold} \subseteq Nat \ {0} /\ Stall \in Nat
ASSUME ButtondBounds == {MaxQueued, MaxPresses, MaxRequests, MaxRestarts} \subseteq Nat

VARIABLES s, phys, held, queue, pc, late, presses, requests, restarts

world == <<phys, held>>
bounds == <<presses, requests, restarts>>
vars == <<s, world, queue, pc, late, bounds>>

\* The PMIC's device has two of the buttons, gpio-keys the third.
Devices == {"pon", "gpio"}
DeviceOf(b) == IF b = "volup" THEN "gpio" ELSE "pon"

Fresh ==
    [down |-> {}, consumed |-> {}, pending |-> {}, taps |-> [b \in Buttons |-> 0],
     age |-> [b \in Buttons |-> 0], left |-> [b \in Buttons |-> 0], out |-> <<>>,
     claims |-> [c \in Clients |-> {}],
     po |-> "idle", poAge |-> 0, poSame |-> FALSE,
     ptDown |-> {}, ptPass |-> {}, virt |-> {},
     owed |-> [b \in Buttons |-> 0], bogus |-> FALSE, length |-> 0, off |-> FALSE]

-----------------------------------------------------------------------------
(* The recognizer.                                                          *)

\* server_rearm, at every change of the claims: doubles wait only where they are claimed.
DoubleArmed(q, b) == \E c \in Clients : <<b, "double">> \in q.claims[c]

\* The gesture g answers every press of the buttons bs that is not answered yet.
Emit(q, g, bs) ==
    [q EXCEPT !.out = Append(@, g),
              !.bogus = @ \/ \E b \in bs : q.owed[b] = 0,
              !.owed = [b \in Buttons |-> IF b \in bs THEN 0 ELSE @[b]]]

\* A mutant: the window of a tap stays open.
ResetKeepsPending(q, b) == [q EXCEPT !.consumed = @ \ {b}, !.taps[b] = 0]

\* btn_reset
Reset(q, b) ==
    [q EXCEPT !.consumed = @ \ {b}, !.pending = @ \ {b}, !.taps[b] = 0]

\* A long press or a chord has fired: the release is swallowed.
Consume(q, bs) ==
    [q EXCEPT !.consumed = @ \cup bs, !.pending = @ \ bs,
              !.taps = [b \in Buttons |-> IF b \in bs THEN 0 ELSE @[b]]]

\* btn_chordable
Chordable(q, b) == b \in q.down /\ b \notin q.consumed

\* The button that makes a chord with a press of b, at most one: volup before voldown.
Partner(q, b) ==
    CASE b # "power" -> {p \in {"power"} : Chordable(q, p)}
      [] b = "power" /\ \E v \in Volumes : v = "volup" /\ Chordable(q, v) -> {"volup"}
      [] OTHER -> {v \in Volumes : Chordable(q, v)}

\* A mutant: an armed power-off does not see a release and a press together.
AcceptedUncounted(q, b) ==
    [q EXCEPT !.down = @ \cup {b}, !.age[b] = 0, !.consumed = @ \ {b}, !.owed[b] = @ + 1]

\* A press of b, not down.  The count of presses, by which an armed power-off knows its own,
\* goes up.
Accepted(q, b) ==
    [q EXCEPT !.down = @ \cup {b}, !.age[b] = 0, !.consumed = @ \ {b},
              !.owed[b] = @ + 1, !.poSame = @ /\ b # "power"]

\* recog_press
Press(q, b) ==
    LET h == Accepted(q, b)
        other == Partner(q, b)
    IN  CASE b \in q.down -> q
          [] b \notin q.down /\ other # {} ->
                Emit(Consume(h, other \cup {b}),
                     <<CHOOSE v \in other \cup {b} : v # "power", "chord">>, other \cup {b})
          [] b \notin q.down /\ other = {} /\ b \in q.pending ->
                [h EXCEPT !.pending = @ \ {b}, !.taps[b] = @ + 1]
          [] OTHER -> [h EXCEPT !.taps[b] = 1]

\* recog_release; a long hold whose tick was late has fired by now (server_key).
Release(q, b) ==
    LET h == [q EXCEPT !.down = @ \ {b}, !.age[b] = 0]
        fires(kind) == Reset(Emit(h, <<b, kind>>, {b}), b)
    IN  CASE b \notin q.down -> q
          [] b \in q.down \cap q.consumed -> Reset(h, b)
          [] b \in q.down \ q.consumed /\ q.age[b] >= Long -> fires("long")
          [] b \in q.down \ q.consumed /\ q.age[b] < Long /\ q.taps[b] >= 2 -> fires("double")
          [] b \in q.down \ q.consumed /\ q.age[b] < Long /\ q.taps[b] < 2 /\ DoubleArmed(q, b) ->
                [h EXCEPT !.pending = @ \cup {b}, !.left[b] = Double]
          [] OTHER -> fires("short")

LongDue(q, b) == Chordable(q, b) /\ q.age[b] >= Long
ShortDue(q, b) == b \in q.pending /\ q.left[b] = 0

\* recog_tick, for one of the buttons; one that is not there is neither down nor pending
TickButton(q, b) ==
    CASE LongDue(q, b) -> Consume(Emit(q, <<b, "long">>, {b}), {b})
      [] ShortDue(q, b) -> Reset(Emit(q, <<b, "short">>, {b}), b)
      [] OTHER -> q

RecogTick(q) == TickButton(TickButton(TickButton(q, "power"), "volup"), "voldown")

-----------------------------------------------------------------------------
(* Clients.                                                                 *)

\* button_gestures: what uses button b.
GesturesOf(b) == ({b} \X Kinds) \cup {g \in Volumes \X {"chord"} : b \in {"power", g[1]}}

\* Dropped by the library: the claims of a connection go with it (on_close).
Drop(q, cs) == [q EXCEPT !.claims = [c \in Clients |-> IF c \in cs THEN {} ELSE @[c]]]

\* server_send_key, to the audience of b.
SendKey(q, full, b) ==
    Drop(q, {c \in full : q.claims[c] \cap (GesturesOf(b) \cup {Watch}) # {}})

\* server_default_action: only the power-off matters here (poweroff_arm).
Default(q, g) ==
    IF g = <<"power", "long">> THEN [q EXCEPT !.po = "armed", !.poAge = 0, !.poSame = TRUE] ELSE q

\* A mutant: a watcher, not a claimant, keeps the default away.
DispatchWatched(q, full, g) ==
    LET sent == Drop(q, {c \in full : q.claims[c] \cap {g, Watch} # {}})
    IN  IF \E c \in Clients : Watch \in sent.claims[c] THEN sent ELSE Default(sent, g)

\* server_dispatch: to the claimants and watchers, else the default.
Dispatch(q, full, g) ==
    LET h == IF g[2] = "long" THEN SendKey(q, full, g[1]) ELSE q
        sent == Drop(h, {c \in full : h.claims[c] \cap {g, Watch} # {}})
    IN  IF \E c \in Clients : g \in sent.claims[c] THEN sent ELSE Default(sent, g)

\* server_drain
Drain(q, full) ==
    LET sent[i \in 0 .. Len(q.out)] ==
            IF i = 0 THEN [q EXCEPT !.out = <<>>] ELSE Dispatch(sent[i - 1], full, q.out[i])
    IN  sent[Len(q.out)]

-----------------------------------------------------------------------------
(* A key event: ev.down for a press, ev.length of a release.                *)

\* A client, not a watcher, uses b.
Claimed(q, b) == \E c \in Clients : q.claims[c] \cap GesturesOf(b) # {}

\* A mutant: decided again at the release.
PassedNow(q, b) == b \in q.ptDown /\ ~Claimed(q, b)

\* The press of b was passed on.
Passed(q, b) == b \in q.ptDown /\ b \in q.ptPass

\* server_pass_key: decided at the press, for its release as well.
PassKey(q, ev) ==
    LET b == ev.button
        pass == Passed(q, b) \/ (ev.down /\ b \notin q.ptDown /\ ~Claimed(q, b))
        after(set, in) == IF in THEN set \cup {b} ELSE set \ {b}
    IN  [q EXCEPT !.ptDown = after(@, ev.down), !.ptPass = after(@, ev.down /\ pass),
                  !.virt = IF pass THEN after(@, ev.down) ELSE @]

\* server_key: the deadlines that have passed, the event, its key line, its gestures.
Key(q, full, ev) ==
    LET b == ev.button
        now == Drain(RecogTick(q), full)
        h == IF ev.down THEN Press(now, b) ELSE Release(now, b)
        told == IF (b \in now.down) # (b \in h.down) THEN SendKey(h, full, b) ELSE h
    IN  Drain([told EXCEPT !.length = IF b = "power" /\ ~ev.down /\ h.poSame
                                      THEN ev.length ELSE @], full)

Event(q, full, ev) == Key(PassKey(q, ev), full, ev)

\* The loop over what was read of a device.
ReadEvents(q, full, evs) ==
    LET after[i \in 0 .. Len(evs)] == IF i = 0 THEN q ELSE Event(after[i - 1], full, evs[i])
    IN  after[Len(evs)]

\* server_tick: ready once held long enough, and off at the release of that same press.
ServerTick(q) ==
    LET released == "power" \notin q.down \/ ~q.poSame
        over == [q EXCEPT !.po = "idle", !.poAge = 0, !.poSame = FALSE]
    IN  CASE q.po = "idle" -> q
          [] q.po = "armed" /\ released -> [over EXCEPT !.length = 0]
          [] q.po = "ready" /\ released -> [over EXCEPT !.off = TRUE]
          [] q.po = "armed" /\ ~released /\ q.poAge >= Hold -> [q EXCEPT !.po = "ready"]
          [] OTHER -> q

-----------------------------------------------------------------------------
(* The loop.                                                                *)

Unread == \E d \in Devices : queue[d] # <<>>
Connected == {c \in Clients : s.claims[c] # {}}

\* A mutant: a tap that waits for a second has no deadline.
DeadlineOfHolds(q) == (\E b \in Buttons : LongDue(q, b)) \/ (q.po = "armed" /\ q.poAge >= Hold)

\* server_deadline_ms has come to 0.
Deadline(q) ==
    \/ \E b \in Buttons : LongDue(q, b) \/ ShortDue(q, b)
    \/ q.po = "armed" /\ q.poAge >= Hold

\* poll() returns, and the devices are read one after the other.
Round ==
    /\ pc = "poll" /\ ~s.off
    /\ \E full \in SUBSET Connected :
            s' = ReadEvents(ReadEvents(s, full, queue["pon"]), full, queue["gpio"])
    /\ queue' = [d \in Devices |-> <<>>]
    /\ pc' = "clients" /\ late' = 0
    /\ UNCHANGED <<world, presses, restarts>>

\* For an event or a deadline.
Wake == (Unread \/ Deadline(s)) /\ Round /\ UNCHANGED requests

\* For a client, too.
WakeForClient == requests < MaxRequests /\ Round /\ UNCHANGED requests

\* linesrv_handle: a claim, a release, the end of a connection.
Request ==
    /\ pc = "clients" /\ requests < MaxRequests
    /\ requests' = requests + 1
    /\ \E c \in Clients :
        \/ \E g \in Claimable \ s.claims[c] : s' = [s EXCEPT !.claims[c] = @ \cup {g}]
        \/ \E g \in s.claims[c] \ {Watch} : s' = [s EXCEPT !.claims[c] = @ \ {g}]
        \/ s.claims[c] # {} /\ s' = Drop(s, {c})
    /\ UNCHANGED <<world, queue, pc, late, presses, restarts>>

\* The end of the round.
RoundEnds ==
    /\ pc = "clients"
    /\ \E full \in SUBSET Connected : s' = ServerTick(Drain(RecogTick(s), full))
    /\ pc' = "poll" /\ late' = 0
    /\ UNCHANGED <<world, queue, bounds>>

-----------------------------------------------------------------------------
(* Time, the buttons, the process.                                          *)

Aged(age, bound) == IF age < bound THEN age + 1 ELSE age

\* The loop is never later than Stall, in either half of its round.
Time ==
    /\ ~s.off
    /\ LET busy == pc = "clients" \/ Unread \/ Deadline(s)
       IN  (busy => late < Stall) /\ late' = (IF busy THEN late + 1 ELSE late)
    /\ s' = [s EXCEPT !.age = [b \in Buttons |-> IF b \in s.down THEN Aged(@[b], Long) ELSE 0],
                      !.left = [b \in Buttons |-> IF b \in s.pending /\ @[b] > 0 THEN @[b] - 1 ELSE 0],
                      !.poAge = IF s.po = "armed" THEN Aged(@, Hold) ELSE 0]
    /\ held' = IF "power" \in phys THEN Aged(held, Long + Hold) ELSE 0
    /\ UNCHANGED <<phys, queue, pc, bounds>>

PressButton(b) ==
    /\ ~s.off /\ b \notin phys
    /\ presses < MaxPresses /\ Len(queue[DeviceOf(b)]) < MaxQueued
    /\ presses' = presses + 1
    /\ phys' = phys \cup {b} /\ held' = IF b = "power" THEN 0 ELSE held
    /\ queue' = [queue EXCEPT ![DeviceOf(b)] =
                    Append(@, [button |-> b, down |-> TRUE, length |-> 0])]
    /\ UNCHANGED <<s, pc, late, requests, restarts>>

ReleaseButton(b) ==
    /\ ~s.off /\ b \in phys
    /\ Len(queue[DeviceOf(b)]) < MaxQueued
    /\ phys' = phys \ {b} /\ held' = IF b = "power" THEN 0 ELSE held
    /\ queue' = [queue EXCEPT ![DeviceOf(b)] =
                    Append(@, [button |-> b, down |-> FALSE,
                               length |-> IF b = "power" THEN held ELSE 0])]
    /\ UNCHANGED <<s, pc, late, bounds>>

\* buttond dies, or exits, and its supervisor starts it again: the devices, the virtual
\* ones and the connections are closed, and a key held since before is not known.
Restart ==
    /\ ~s.off /\ restarts < MaxRestarts
    /\ restarts' = restarts + 1
    /\ s' = Fresh
    /\ queue' = [d \in Devices |-> <<>>]
    /\ pc' = "poll" /\ late' = 0
    /\ UNCHANGED <<world, presses, requests>>

Init ==
    /\ s = Fresh
    /\ phys \in SUBSET Buttons /\ held = 0
    /\ queue = [d \in Devices |-> <<>>]
    /\ pc = "poll" /\ late = 0
    /\ presses = 0 /\ requests = 0 /\ restarts = 0

Next ==
    \/ Wake \/ WakeForClient \/ Request \/ RoundEnds
    \/ Time
    \/ \E b \in Buttons : PressButton(b) \/ ReleaseButton(b)
    \/ Restart

Spec == Init /\ [][Next]_vars

\* poll() returns for an event or a deadline, and a round that is under way ends.
LoopGoesOn ==
    \/ pc = "poll" /\ ~s.off /\ (Unread \/ Deadline(s)) /\ pc' = "clients"
    \/ pc = "clients" /\ pc' = "poll"

\* The loop and the clock go on; clients owe nothing, and no button has to move.
FairSpec == Spec /\ WF_pc(LoopGoesOn) /\ WF_vars(Time)

-----------------------------------------------------------------------------
(* Properties.                                                              *)

\* The struct and the world have their types, and a press is never more than a double tap:
\* two presses are answered at the release of the second.
TypeOK ==
    /\ {s.down, s.consumed, s.pending, s.ptDown, s.ptPass, s.virt} \subseteq SUBSET Buttons
    /\ s.taps \in [Buttons -> 0..2] /\ s.owed \in [Buttons -> 0..2]
    /\ s.age \in [Buttons -> 0..Long] /\ s.left \in [Buttons -> 0..Double]
    /\ s.out = <<>> /\ s.claims \in [Clients -> SUBSET Claimable]
    /\ s.po \in {"idle", "armed", "ready"} /\ s.poAge \in 0..Hold
    /\ {s.poSame, s.bogus, s.off} \subseteq BOOLEAN /\ s.length \in 0..(Long + Hold)
    /\ phys \subseteq Buttons /\ held \in 0..(Long + Hold)
    /\ pc \in {"poll", "clients"} /\ late \in 0..Stall

\* A key that other programs see held is held, as soon as its events are read: claims that
\* come or go between a press and its release, and restarts, leave no key stuck down.
NoStuckKey ==
    \A b \in s.virt : (\A d \in DOMAIN queue : \A i \in DOMAIN queue[d] : queue[d][i].button # b)
                        => b \in phys

\* The recognizer's and the pass-through's state in every round.
KeysReleased == TypeOK /\ NoStuckKey

\* Every press the recognizer accepts is answered by one gesture, and every gesture answers a
\* press: what is not answered yet is held, or the one tap that waits for a second.
OneGesturePerPress ==
    /\ ~s.bogus
    /\ \A b \in Buttons :
          s.owed[b] = CASE b \in s.down \ s.consumed -> s.taps[b]
                        [] b \in s.pending -> 1
                        [] OTHER -> 0

\* The system goes down only for a power button that one press held for long_ms and
\* poweroff_hold_ms, but for what one half of a late round may take off.
PowerOffIsHeld == s.off => s.length + Stall >= Long + Hold

\* The power-off arms only when no client that is still there claims power.long: one that
\* did not take the gesture is gone, and does not keep the user from powering off.
ArmedOnlyUnclaimed ==
    [][s.po = "idle" /\ s'.po = "armed"
         => \A c \in Clients : <<"power", "long">> \notin s'.claims[c]]_vars

\* Every deadline fires, also with no event to wake the loop.  There are MaxPresses presses:
\* when the last is over, no tap waits for a second, no hold for long, no power-off for ready.
DeadlinesFire ==
    <>[](s.off \/ (s.pending = {} /\ s.down \subseteq s.consumed /\ s.po # "armed"))
=============================================================================
