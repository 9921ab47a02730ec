---------------------------- MODULE PowerPolicy ----------------------------
(***************************************************************************)
(* powerd's policy (src/tools/powerd/policy.c) under its loop (main.c): a  *)
(* sample of the battery and the supplies is taken when the poll is due,   *)
(* and at any moment for a uevent or SIGUSR1; it arms the warnings, counts *)
(* towards a shutdown, moves the charge throttle and sets the next poll.   *)
(*                                                                         *)
(* A sample is what the policy tells apart in it:                          *)
(*   src    "battery": known to be discharging; "online": a supply is on;  *)
(*          "unknown": neither, which counts as powered                    *)
(*   gauge  "trusted"; "absent": no battery; "doubted": present, ready or  *)
(*          voltage unreadable                                             *)
(*   cap    Unread, or the band of the capacity;  low: under the voltage   *)
(*   temp   Unread, or the band of the temperature                         *)
(*   levels num_system_temp_levels could be read                           *)
(*                                                                         *)
(* Time passes in units of which Gap make the 5 s of confirm_gap_ms and    *)
(* of step_ms.  Ages stop counting at Gap, held at the bound of            *)
(* ShutdownIsPrompt plus one.                                              *)
(***************************************************************************)
EXTENDS Integers, FiniteSets

CONSTANTS
    Samples,     \* the samples the world may show
    N,           \* confirm_n
    Gap,         \* confirm_gap_ms and step_ms
    LowPoll,     \* poll_low_ms
    Poll,        \* poll_ms
    Levels,      \* num_system_temp_levels
    MaxFaults,   \* writes that fail, of the level or of the shutdown
    MaxRuns      \* starts of powerd

VARIABLES p, stl, seen, held, going, faults, runs

vars == <<p, stl, seen, held, going, faults, runs>>

Unread == 0
\* Bands: at or under empty, critical and warning, up to rearm, from there on.
Capacities == [empty |-> 1, crit |-> 2, warn |-> 3, mid |-> 4, rearm |-> 5]
\* Bands: at or under the clear point, between, from the set point, over-temperature.
Temps == [cool |-> 1, mid |-> 2, warm |-> 3, hot |-> 4]
AllSamples == [src : {"battery", "online", "unknown"}, gauge : {"trusted", "doubted", "absent"},
               cap : 0 .. 5, low : BOOLEAN, temp : 0 .. 4, levels : BOOLEAN]

ASSUME SamplesAssumption == Samples \subseteq AllSamples
ASSUME ParametersAssumption ==
    /\ {N, Gap, Levels} \subseteq Nat \ {0}
    /\ LowPoll \in Nat /\ Gap <= LowPoll
    /\ Poll \in Nat /\ LowPoll <= Poll
    /\ {MaxFaults, MaxRuns} \subseteq Nat

Prompt == (N - 1) * (2 * Gap - 1)
Never == -1
Aged(age) == IF age < Gap THEN age + 1 ELSE age

NoCount == [n |-> 0, age |-> 0]
Fresh == [running |-> TRUE, warned |-> FALSE, crit |-> FALSE, empty |-> NoCount, hot |-> NoCount,
          fired |-> FALSE, level |-> 0, broken |-> FALSE, evaluated |-> FALSE, age |-> 0,
          next |-> 0]
Gone == [Fresh EXCEPT !.running = FALSE]
NoSample == [src |-> "none"]
NotHeld == [empty |-> Never, hot |-> Never, plugged |-> Never]

-----------------------------------------------------------------------------
(* One sample.                                                              *)

Discharging(s) == s.src = "battery"
Hot(s) == s.temp = Temps.hot
Trusted(s) == s.gauge = "trusted" /\ s.cap # Unread
Empty(s) ==
    Discharging(s) /\ Trusted(s) /\ (s.cap <= Capacities.empty \/ (s.low /\ s.cap <= Capacities.crit))

\* Every sample counts, also the second of a burst.
ConfirmBurst(c, cond) == IF ~cond THEN NoCount ELSE [n |-> c.n + 1, age |-> 0]

\* A sample within the gap resets as well.
ConfirmRestarts(c, cond) ==
    IF ~cond \/ (c.n > 0 /\ c.age < Gap) THEN NoCount ELSE [n |-> c.n + 1, age |-> 0]

\* confirm_step: a sample that contradicts resets, one within the gap does not count.
Confirm(c, cond) ==
    CASE ~cond -> NoCount
      [] cond /\ c.n > 0 /\ c.age < Gap -> c
      [] OTHER -> [n |-> c.n + 1, age |-> 0]

\* The low-battery warnings: both are armed again by power or by the rearm level.
Warn(q, s) ==
    LET known == s.gauge # "absent" /\ s.cap # Unread
        armed == ~Discharging(s) \/ (known /\ s.cap >= Capacities.rearm)
        warned == q.warned /\ ~armed
        crit == q.crit /\ ~armed
        at(band) == Discharging(s) /\ known /\ s.cap <= band
    IN  [q EXCEPT !.warned = warned \/ at(Capacities.warn), !.crit = crit \/ at(Capacities.crit)]

\* Not before the battery is colder than the clear point.
WantedStrict(q, s) ==
    CASE s.temp >= Temps.warm /\ q.level < Levels - 1 -> q.level + 1
      [] s.temp # Unread /\ s.temp < Temps.cool /\ q.level > 0 -> q.level - 1
      [] OTHER -> q.level

\* The level the throttle wants after a sample with a supply.
Wanted(q, s) ==
    CASE s.temp >= Temps.warm /\ q.level < Levels - 1 -> q.level + 1
      [] s.temp # Unread /\ s.temp <= Temps.cool /\ q.level > 0 -> q.level - 1
      [] OTHER -> q.level

\* Only a step down is ever made without a supply.
ThrottleKept(q, s) ==
    IF s.levels /\ Levels > 1 /\ s.temp # Unread /\ (~q.evaluated \/ q.age >= Gap)
    THEN <<[q EXCEPT !.evaluated = TRUE, !.age = 0], Wanted(q, s)>>
    ELSE <<q, q.level>>

\* The charge throttle's part of policy_step: powerd after it, and the level to be set.
Throttle(q, s) ==
    IF s.src # "online" THEN <<q, 0>>
    ELSE IF s.levels /\ Levels > 1 /\ s.temp # Unread /\ (~q.evaluated \/ q.age >= Gap)
         THEN <<[q EXCEPT !.evaluated = TRUE, !.age = 0], Wanted(q, s)>>
         ELSE <<q, q.level>>

\* The poll does not hurry for a confirmation.
NextPollSlow(q, s) ==
    CASE s.src = "online" -> Gap
      [] s.src # "online" /\ (s.cap \in 1 .. Capacities.warn \/ s.temp >= Temps.warm) -> LowPoll
      [] OTHER -> Poll

\* next_poll_ms
NextPoll(q, s) ==
    CASE q.empty.n > 0 \/ q.hot.n > 0 \/ s.src = "online" -> Gap
      [] q.empty.n = 0 /\ q.hot.n = 0 /\ s.src # "online"
            /\ (s.cap \in 1 .. Capacities.warn \/ s.temp >= Temps.warm) -> LowPoll
      [] OTHER -> Poll

\* set_level: the first write that fails ends the throttle.
SetLevel(q, level) ==
    \/ /\ q.broken \/ level = q.level
       /\ p' = q /\ UNCHANGED <<stl, faults>>
    \/ /\ ~q.broken /\ level # q.level
       /\ \/ p' = [q EXCEPT !.level = level] /\ stl' = level /\ UNCHANGED faults
          \/ /\ faults < MaxFaults /\ faults' = faults + 1
             /\ p' = [q EXCEPT !.broken = TRUE] /\ UNCHANGED stl

\* do_shutdown, and system_shutdown once the row is written: init takes it, or refuses.
PowerOff(q) ==
    /\ p' = q
    /\ \/ going' = TRUE /\ UNCHANGED faults
       \/ faults < MaxFaults /\ faults' = faults + 1 /\ UNCHANGED going
    /\ UNCHANGED stl

Holds(h, cond) == IF ~cond THEN Never ELSE IF h = Never THEN 0 ELSE h

\* powerd_sample: policy_step (the throttle is left alone by a sample that fires, and by
\* every one after it), then the shutdown it asked for, and the next poll.
SampleTaken(s) ==
    LET warned == Warn(p, s)
        hot == Confirm(p.hot, Hot(s))
        empty == Confirm(p.empty, Empty(s))
        counted == [warned EXCEPT !.hot = hot, !.empty = IF hot.n >= N THEN @ ELSE empty]
        firing == hot.n >= N \/ empty.n >= N
        timed(q) == [q EXCEPT !.next = NextPoll(q, s)]
        throttled == Throttle(counted, s)
    IN  /\ seen' = s
        /\ held' = [empty |-> Holds(held.empty, Empty(s)), hot |-> Holds(held.hot, Hot(s)),
                    plugged |-> Holds(held.plugged, s.src = "online")]
        /\ \/ /\ p.fired
              /\ p' = timed(p)
              /\ UNCHANGED <<stl, going, faults>>
           \/ /\ ~p.fired /\ firing
              /\ PowerOff(timed([counted EXCEPT !.fired = TRUE]))
           \/ /\ ~p.fired /\ ~firing
              /\ SetLevel(timed(throttled[1]), throttled[2])
              /\ UNCHANGED going

-----------------------------------------------------------------------------
(* The loop.                                                                *)

\* The poll is due ("start", "poll", "tick").
Due == p.running /\ p.next = 0 /\ (\E s \in Samples : SampleTaken(s)) /\ UNCHANGED runs

\* A uevent, SIGUSR1: before its time; at least one sample was taken at start.
Early == p.running /\ p.next > 0 /\ (\E s \in Samples : SampleTaken(s)) /\ UNCHANGED runs

Passed(h, bound) == IF h = Never \/ h > bound THEN h ELSE h + 1
Time ==
    /\ p.running /\ p.next > 0
    /\ p' = [p EXCEPT !.next = @ - 1, !.age = Aged(@),
                      !.empty.age = Aged(@), !.hot.age = Aged(@)]
    /\ held' = [empty |-> Passed(held.empty, Prompt), hot |-> Passed(held.hot, Prompt),
                plugged |-> Passed(held.plugged, Gap * Levels)]
    /\ UNCHANGED <<stl, seen, going, faults, runs>>

\* The level is set to 0 first; a write that fails is logged only.
Start ==
    /\ ~p.running /\ runs < MaxRuns
    /\ runs' = runs + 1
    /\ p' = Fresh /\ seen' = NoSample /\ held' = NotHeld
    /\ \/ stl' = 0 /\ UNCHANGED faults
       \/ faults < MaxFaults /\ faults' = faults + 1 /\ UNCHANGED stl
    /\ UNCHANGED going

\* SIGTERM, or poll() failing: the level is set back unless a shutdown was asked for.
Exit ==
    /\ p.running
    /\ p' = Gone /\ seen' = NoSample /\ held' = NotHeld
    /\ IF p.fired \/ p.level = 0
       THEN UNCHANGED <<stl, faults>>
       ELSE \/ stl' = 0 /\ UNCHANGED faults
            \/ faults < MaxFaults /\ faults' = faults + 1 /\ UNCHANGED stl
    /\ UNCHANGED <<going, runs>>

Crash ==
    /\ p.running
    /\ p' = Gone /\ seen' = NoSample /\ held' = NotHeld
    /\ UNCHANGED <<stl, going, faults, runs>>

Init ==
    /\ p = Gone /\ stl \in 0 .. Levels - 1 /\ seen = NoSample /\ held = NotHeld
    /\ going = FALSE /\ faults = 0 /\ runs = 0

Next == Due \/ Early \/ Time \/ Start \/ Exit \/ Crash

Spec == Init /\ [][Next]_vars

\* The poll's timeout runs out; powerd is supervised.
FairSpec == Spec /\ WF_vars(Due) /\ WF_vars(Time) /\ WF_vars(Start)

-----------------------------------------------------------------------------
\* The fields keep their types, the counts stop at N, the level below the number of levels.
TypeOK ==
    /\ p \in [running : BOOLEAN, warned : BOOLEAN, crit : BOOLEAN,
              empty : [n : 0 .. N, age : 0 .. Gap], hot : [n : 0 .. N, age : 0 .. Gap],
              fired : BOOLEAN, level : 0 .. Levels - 1, broken : BOOLEAN, evaluated : BOOLEAN,
              age : 0 .. Gap, next : 0 .. Poll]
    /\ stl \in 0 .. Levels - 1
    /\ seen \in Samples \cup {NoSample}
    /\ going \in BOOLEAN

\* confirm_step under the loop: a shutdown comes only when every sample of at least N - 1
\* gaps has shown the battery empty, unpowered and readable, or over-temperature, however
\* many uevents fell into that time.
ShutdownIsConfirmed ==
    [][p'.fired /\ ~p.fired => \E h \in {held'.empty, held'.hot} : h >= (N - 1) * Gap]_vars

\* next_poll_ms with confirm_step: it does not wait longer than that takes either; uevents
\* that come too early to count can stretch each gap to less than twice its length.
ShutdownIsPrompt == p.running /\ ~p.fired => held.empty <= Prompt /\ held.hot <= Prompt

\* "Charge throttle only while powered" (main.c's header): as long as no write of the level
\* has failed, a sample without a supply leaves none behind, unless a shutdown is on.
UnpluggedIsUnthrottled ==
    faults = 0 /\ p.running /\ ~p.fired /\ seen # NoSample /\ seen.src # "online" => stl = 0

\* The throttle climbs one level in step_ms (policy_step), counted from the plug.
ThrottleClimbsByTheStep ==
    p.running /\ ~p.fired /\ faults = 0 => stl <= IF held.plugged = Never THEN 0
                                                  ELSE 1 + held.plugged \div Gap

\* The throttle is where the supply lets it be: nowhere without one, and with one only
\* as high as the time since the plug allows.
ThrottleFollowsSupply == TypeOK /\ UnpluggedIsUnthrottled /\ ThrottleClimbsByTheStep

\* A phone that stays empty on its battery, or over-temperature, is shut down by powerd.
EmptyShutsDown ==
    /\ <>[](seen # NoSample /\ Empty(seen)) => <>(p.fired)
    /\ <>[](seen # NoSample /\ Hot(seen)) => <>(p.fired)

\* A battery that has cooled under a supply is charged at full current again, unless a
\* write of the level failed or a shutdown was fired.
CoolIsReleased ==
    <>[](seen # NoSample /\ seen.src = "online" /\ seen.levels /\ seen.temp = Temps.cool) =>
        <>[](stl = 0 \/ faults > 0 \/ p.fired)

=============================================================================
