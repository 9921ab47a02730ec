--------------------------- MODULE ButtondProofs ---------------------------
(***************************************************************************)
(* What Buttond guarantees for every number of clients and of presses and   *)
(* for every setting of its times: one gesture for a press, no key stuck    *)
(* down, a power-off only after a full hold, armed only where nobody who is *)
(* still there claims power.long.                                           *)
(*                                                                         *)
(* A round reads any number of events and each of them may fire several     *)
(* gestures, so both loops are functions of a position and what holds is    *)
(* shown position by position.  The operators' lemmas come first, in the    *)
(* order of the calls; then what is known between two events (Known), of    *)
(* the keys passed on and of the press that an armed power-off follows;     *)
(* then the actions.                                                        *)
(***************************************************************************)
EXTENDS Buttond, NaturalsInduction, WellFoundedInduction, SequenceTheorems, TLAPS

PowerLong == <<"power", "long">>
Lengths == 0 .. (Long + Hold)
KeyEvents == [button : Buttons, down : BOOLEAN, length : Lengths]

Structs ==
    [down : SUBSET Buttons, consumed : SUBSET Buttons, pending : SUBSET Buttons,
     taps : [Buttons -> 0 .. 2], age : [Buttons -> 0 .. Long], left : [Buttons -> 0 .. Double],
     out : Seq(Gestures), claims : [Clients -> SUBSET Claimable],
     po : {"idle", "armed", "ready"}, poAge : 0 .. Hold, poSame : BOOLEAN,
     ptDown : SUBSET Buttons, ptPass : SUBSET Buttons, virt : SUBSET Buttons,
     owed : [Buttons -> 0 .. 2], bogus : BOOLEAN, length : Lengths, off : BOOLEAN]

\* The presses of b are accounted for.
Answered(q, b) ==
    /\ b \in q.down \ q.consumed => q.taps[b] \in {1, 2} /\ q.owed[b] = q.taps[b]
    /\ b \in q.pending => q.taps[b] = 1 /\ q.owed[b] = 1
    /\ b \notin q.down \ q.consumed /\ b \notin q.pending => q.owed[b] = 0

\* The recognizer's invariant, and that of the keys passed on.
Recog(q) ==
    /\ q.consumed \subseteq q.down /\ q.pending \cap q.down = {} /\ ~q.bogus
    /\ \A b \in Buttons : Answered(q, b)
Shows(q) == q.virt = q.ptPass /\ q.ptPass \subseteq q.ptDown

Sounds == {q \in Structs : Recog(q) /\ Shows(q)}

\* No event of b comes after the first i of evs; the j-th is the next one of b.
NoMore(evs, i, b) == \A j \in i + 1 .. Len(evs) : evs[j].button # b
NextIs(evs, i, b, j) ==
    j \in i + 1 .. Len(evs) /\ evs[j].button = b /\ \A k \in i + 1 .. j - 1 : evs[k].button # b

\* Presses and releases of a button alternate, and the last says where it is.
Honest(evs, held_down) ==
    \A j \in 1 .. Len(evs) :
        /\ \A k \in 1 .. Len(evs) : NextIs(evs, j, evs[j].button, k) => evs[k].down # evs[j].down
        /\ NoMore(evs, j, evs[j].button) => (evs[j].down <=> evs[j].button \in held_down)

\* A key whose events are read and that the pass-through knows as down is held.
Shown(q, evs, i, held_down, d) ==
    \A b \in Buttons : DeviceOf(b) = d /\ b \in q.ptDown /\ NoMore(evs, i, b) => b \in held_down

\* The press that an armed power-off follows: it goes on, or its release is the next event.
Follows(q, evs, i, held_down) ==
    /\ "power" \in q.down =>
          /\ NoMore(evs, i, "power") => "power" \in held_down
          /\ \A j \in 1 .. Len(evs) : NextIs(evs, i, "power", j) => ~evs[j].down
    /\ q.poSame /\ "power" \notin q.down =>
          /\ NoMore(evs, i, "power") => "power" \notin held_down
          /\ \A j \in 1 .. Len(evs) : NextIs(evs, i, "power", j) => evs[j].down

\* How long that press lasts, or lasted.
Lasts(q, evs, i, time) ==
    /\ "power" \in q.down /\ NoMore(evs, i, "power") =>
          /\ time >= q.age["power"]
          /\ q.po = "armed" /\ q.poSame => time >= Long + q.poAge
          /\ q.po = "ready" /\ q.poSame => time + Stall >= Long + Hold
    /\ "power" \in q.down /\ q.po = "ready" /\ q.poSame =>
          \A j \in 1 .. Len(evs) :
              NextIs(evs, i, "power", j) => evs[j].length + Stall >= Long + Hold
    /\ q.po = "ready" /\ ~("power" \in q.down /\ q.poSame) => q.length + Stall >= Long + Hold

Known(q, evs, i, held_down, time) == Follows(q, evs, i, held_down) /\ Lasts(q, evs, i, time)

\* A release that came after the reading is no later than the round is.
NotLate(q, evs, lag) ==
    "power" \in q.down =>
        \A j \in 1 .. Len(evs) : NextIs(evs, 0, "power", j) =>
            /\ evs[j].length + lag >= q.age["power"]
            /\ q.po = "armed" /\ q.poSame => evs[j].length + lag >= Long + q.poAge

\* The inductive invariant.
IInv ==
    /\ s \in Sounds /\ s.out = <<>>
    /\ phys \subseteq Buttons /\ held \in Lengths
    /\ queue \in [Devices -> Seq(KeyEvents)]
    /\ \A d \in Devices :
          /\ \A i \in 1 .. Len(queue[d]) : DeviceOf(queue[d][i].button) = d
          /\ Honest(queue[d], phys)
          /\ Shown(s, queue[d], 0, phys, d)
    /\ Known(s, queue["pon"], 0, phys, held)
    /\ pc \in {"poll", "clients"} /\ late \in 0 .. Stall
    /\ pc = "clients" => NotLate(s, queue["pon"], late)
    /\ s.off => pc = "poll" /\ s.length + Stall >= Long + Hold
    /\ {presses, requests, restarts} \subseteq Nat

-----------------------------------------------------------------------------
(* Numbers, and loops.                                                      *)

\* The times are numbers, and power is a button of the PMIC's device.
LEMMA Basics ==
    /\ Long \in Nat /\ Double \in Nat /\ Hold \in Nat /\ Stall \in Nat /\ Long > 0
    /\ "power" \in Buttons /\ DeviceOf("power") = "pon" /\ "pon" \in Devices /\ "gpio" \in Devices
    /\ "power" \notin Volumes
  BY TimesAssumption, ButtonsAssumption DEF Buttons, DeviceOf, Devices

\* A set of numbers has a least.
LEMMA LeastIs ==
    ASSUME NEW T \in SUBSET Nat, T # {}
    PROVE  \E m \in T : \A k \in T : m <= k
<1>1. IsWellFoundedOn(OpToRel(<, Nat), Nat)
  BY NatLessThanWellFounded
<1>2. PICK m \in T : \A y \in T : ~(<<y, m>> \in OpToRel(<, Nat))
  BY <1>1, WFMin
<1>3. \A y \in T : ~(y < m)
  BY <1>2 DEF OpToRel
<1>4. \A y \in T : m <= y
  BY <1>3
<1> QED
  BY <1>4

\* A loop of n steps, each from S to S, has its states.
IsLoop(f, S, n, a, G) ==
    f \in [0 .. n -> S] /\ f[0] = a /\ \A i \in 1 .. n : f[i] = G[i][f[i - 1]]

\* A loop has its states: by the least step it would not reach.
LEMMA LoopRuns ==
    ASSUME NEW S, NEW n \in Nat, NEW a \in S, NEW G \in [1 .. n -> [S -> S]]
    PROVE  \E f : IsLoop(f, S, n, a, G)
<1> DEFINE Run(k, f) == f \in [0 .. k -> S] /\ f[0] = a /\ \A i \in 1 .. k : f[i] = G[i][f[i - 1]]
           T == {k \in 0 .. n : ~\E f : Run(k, f)}
<1>1. SUFFICES T = {}
  <2>1. n \notin T
    BY <1>1
  <2>2. PICK f : Run(n, f)
    BY <2>1
  <2>3. IsLoop(f, S, n, a, G)
    BY <2>2 DEF IsLoop
  <2> QED
    BY <2>3
<1>2. SUFFICES ASSUME T # {} PROVE FALSE
  OBVIOUS
<1>3. T \in SUBSET Nat
  OBVIOUS
<1>4. PICK k \in T : \A j \in T : k <= j
  BY <1>2, <1>3, LeastIs
<1>5. CASE k = 0
  <2> DEFINE f == [i \in 0 .. 0 |-> a]
  <2>1. Run(0, f)
    OBVIOUS
  <2> QED
    BY <2>1, <1>5, <1>4
<1>6. CASE k # 0
  <2>1. k \in 1 .. n /\ k - 1 \in 0 .. n /\ k - 1 \notin T
    BY <1>6, <1>4
  <2>2. PICK f : Run(k - 1, f)
    BY <2>1
  <2> DEFINE h == [i \in 0 .. k |-> IF i = k THEN G[k][f[k - 1]] ELSE f[i]]
  <2>3. f[k - 1] \in S
    BY <2>1, <2>2
  <2>4. G[k][f[k - 1]] \in S
    BY <2>1, <2>3
  <2>5. h \in [0 .. k -> S]
    <3> SUFFICES ASSUME NEW i \in 0 .. k PROVE h[i] \in S
      OBVIOUS
    <3>1. CASE i = k
      BY <3>1, <2>4
    <3>2. CASE i # k
      <4>1. i \in 0 .. k - 1
        BY <3>2, <2>1
      <4> QED
        BY <4>1, <2>2, <3>2
    <3> QED
      BY <3>1, <3>2
  <2>6. h[0] = a
    BY <2>1, <2>2
  <2>7. \A i \in 1 .. k : h[i] = G[i][h[i - 1]]
    <3> SUFFICES ASSUME NEW i \in 1 .. k PROVE h[i] = G[i][h[i - 1]]
      OBVIOUS
    <3>1. CASE i = k
      <4>1. h[i - 1] = f[k - 1] /\ h[i] = G[k][f[k - 1]]
        BY <3>1, <2>1
      <4> QED
        BY <4>1, <3>1
    <3>2. CASE i # k
      <4>1. i \in 1 .. k - 1 /\ i - 1 \in 0 .. k /\ i - 1 # k
        BY <3>2, <2>1
      <4>2. h[i] = f[i] /\ h[i - 1] = f[i - 1]
        BY <4>1, <3>2
      <4> QED
        BY <4>1, <4>2, <2>2
    <3> QED
      BY <3>1, <3>2
  <2>8. Run(k, h)
    BY <2>5, <2>6, <2>7
  <2> QED
    BY <2>8, <1>4
<1> QED
  BY <1>5, <1>6

\* What begins and is kept by each step of a loop holds at its end.
LEMMA LoopKeeps ==
    ASSUME NEW n \in Nat, NEW Holds, 0 \in Holds,
           \A i \in 1 .. n : i - 1 \in Holds => i \in Holds
    PROVE  n \in Holds
<1> DEFINE T == {k \in 0 .. n : k \notin Holds}
<1>1. SUFFICES ASSUME T # {} PROVE FALSE
  OBVIOUS
<1>5. T \in SUBSET Nat
  OBVIOUS
<1>2. PICK k \in T : \A j \in T : k <= j
  BY <1>1, <1>5, LeastIs
<1>3. k \in 1 .. n /\ k - 1 \in 0 .. n
  BY <1>2
<1>4. k - 1 \notin T
  BY <1>2, <1>3
<1> QED
  BY <1>2, <1>3, <1>4

-----------------------------------------------------------------------------
(* The recognizer.                                                          *)

\* What only a key event, or only the end of the round, changes.
SameKeys(q, r) == r.ptDown = q.ptDown /\ r.ptPass = q.ptPass /\ r.virt = q.virt
SamePower(q, r) ==
    /\ r.claims = q.claims /\ r.po = q.po /\ r.poAge = q.poAge
    /\ r.length = q.length /\ r.off = q.off

\* r is q but for the presses' account.
SameHold(q, r) ==
    /\ r.down = q.down /\ r.age = q.age /\ r.left = q.left /\ r.poSame = q.poSame
    /\ SameKeys(q, r) /\ SamePower(q, r)

\* A power.long waits to be dispatched.
Said(q) == \E i \in 1 .. Len(q.out) : q.out[i] = PowerLong

\* What recog_emit, a consumed press and btn_reset do.
Emitted(q, g, bs, r) ==
    /\ r \in Structs /\ r.out = Append(q.out, g) /\ r.bogus = q.bogus
    /\ \A x \in Buttons : r.owed[x] = IF x \in bs THEN 0 ELSE q.owed[x]
    /\ r.consumed = q.consumed /\ r.pending = q.pending /\ r.taps = q.taps
    /\ SameHold(q, r)
Consumed(q, bs, r) ==
    /\ r \in Structs /\ r.out = q.out /\ r.bogus = q.bogus /\ r.owed = q.owed
    /\ r.consumed = q.consumed \cup bs /\ r.pending = q.pending \ bs
    /\ \A x \in Buttons : r.taps[x] = IF x \in bs THEN 0 ELSE q.taps[x]
    /\ SameHold(q, r)
Cleared(q, b, r) ==
    /\ r \in Structs /\ r.out = q.out /\ r.bogus = q.bogus /\ r.owed = q.owed
    /\ r.consumed = q.consumed \ {b} /\ r.pending = q.pending \ {b}
    /\ \A x \in Buttons : r.taps[x] = IF x = b THEN 0 ELSE q.taps[x]
    /\ SameHold(q, r)

\* One more gesture.
LEMMA SaidMore ==
    ASSUME NEW out \in Seq(Gestures), NEW g \in Gestures
    PROVE  /\ Append(out, g) \in Seq(Gestures)
           /\ \A i \in 1 .. Len(Append(out, g)) :
                 Append(out, g)[i] = g \/ (i \in 1 .. Len(out) /\ Append(out, g)[i] = out[i])
  OBVIOUS

\* recog_emit answers the presses of its buttons.
LEMMA EmitIs ==
    ASSUME NEW q \in Structs, NEW g \in Gestures, NEW bs \in SUBSET Buttons,
           \A b \in bs : q.owed[b] # 0
    PROVE  Emitted(q, g, bs, Emit(q, g, bs))
<1> DEFINE o == [b \in Buttons |-> IF b \in bs THEN 0 ELSE q.owed[b]]
           r == Emit(q, g, bs)
<1>1. q.out \in Seq(Gestures) /\ q.bogus \in BOOLEAN /\ q.owed \in [Buttons -> 0 .. 2]
  BY DEF Structs
<1>2. Append(q.out, g) \in Seq(Gestures)
  BY <1>1
<1>3. (q.bogus \/ \E b \in bs : q.owed[b] = 0) = q.bogus
  BY <1>1
<1>4. o \in [Buttons -> 0 .. 2]
  BY <1>1
<1>5. r = [q EXCEPT !.out = Append(q.out, g), !.bogus = q.bogus, !.owed = o]
  BY <1>3 DEF Emit, Structs
<1>6. \A x \in Buttons : o[x] = IF x \in bs THEN 0 ELSE q.owed[x]
  OBVIOUS
<1> HIDE DEF o, r
<1>7. r \in Structs
  BY <1>1, <1>2, <1>4, <1>5 DEF Structs
<1>8. r.owed = o /\ r.out = Append(q.out, g) /\ r.bogus = q.bogus /\ SameHold(q, r)
      /\ r.consumed = q.consumed /\ r.pending = q.pending /\ r.taps = q.taps
  BY <1>5 DEF Structs, SameKeys, SamePower, SameHold
<1>9. Emitted(q, g, bs, r)
  BY <1>6, <1>7, <1>8 DEF Emitted
<1> QED
  BY <1>9 DEF r

\* A long press or a chord.
LEMMA ConsumeIs ==
    ASSUME NEW q \in Structs, NEW bs \in SUBSET Buttons
    PROVE  Consumed(q, bs, Consume(q, bs))
<1> DEFINE t == [b \in Buttons |-> IF b \in bs THEN 0 ELSE q.taps[b]]
           r == Consume(q, bs)
<1>1. t \in [Buttons -> 0 .. 2]
  BY DEF Structs
<1>2. r = [q EXCEPT !.consumed = q.consumed \cup bs, !.pending = q.pending \ bs, !.taps = t]
  BY DEF Consume, Structs
<1>3. q.consumed \cup bs \in SUBSET Buttons /\ q.pending \ bs \in SUBSET Buttons
  BY DEF Structs
<1>4. \A x \in Buttons : t[x] = IF x \in bs THEN 0 ELSE q.taps[x]
  OBVIOUS
<1> HIDE DEF t, r
<1>5. r \in Structs
  BY <1>1, <1>2, <1>3 DEF Structs
<1>6. r.taps = t /\ r.consumed = q.consumed \cup bs /\ r.pending = q.pending \ bs
      /\ r.out = q.out /\ r.bogus = q.bogus /\ r.owed = q.owed /\ SameHold(q, r)
  BY <1>2 DEF Structs, SameKeys, SamePower, SameHold
<1>7. Consumed(q, bs, r)
  BY <1>4, <1>5, <1>6 DEF Consumed
<1> QED
  BY <1>7 DEF r

\* btn_reset
LEMMA ResetIs ==
    ASSUME NEW q \in Structs, NEW b \in Buttons
    PROVE  Cleared(q, b, Reset(q, b))
<1> DEFINE t == [q.taps EXCEPT ![b] = 0]
           r == Reset(q, b)
<1>1. t \in [Buttons -> 0 .. 2] /\ \A x \in Buttons : t[x] = IF x = b THEN 0 ELSE q.taps[x]
  BY DEF Structs
<1>2. r = [q EXCEPT !.consumed = q.consumed \ {b}, !.pending = q.pending \ {b}, !.taps = t]
  BY DEF Reset, Structs
<1>3. q.consumed \ {b} \in SUBSET Buttons /\ q.pending \ {b} \in SUBSET Buttons
  BY DEF Structs
<1> HIDE DEF t, r
<1>4. r \in Structs
  BY <1>1, <1>2, <1>3 DEF Structs
<1>5. r.taps = t /\ r.consumed = q.consumed \ {b} /\ r.pending = q.pending \ {b}
      /\ r.out = q.out /\ r.bogus = q.bogus /\ r.owed = q.owed /\ SameHold(q, r)
  BY <1>2 DEF Structs, SameKeys, SamePower, SameHold
<1>6. Cleared(q, b, r)
  BY <1>1, <1>4, <1>5 DEF Cleared
<1> QED
  BY <1>6 DEF r

\* What recog_tick and the recognizer's emissions leave alone, and why power.long is said.
Ticked(q, r) ==
    /\ r.down = q.down /\ r.age = q.age /\ r.poSame = q.poSame
    /\ SameKeys(q, r) /\ SamePower(q, r)
    /\ Said(r) => Said(q) \/ ("power" \in q.down /\ q.age["power"] >= Long)

\* The gestures of one button.
LEMMA GestureOf == ASSUME NEW b \in Buttons, NEW k \in Kinds PROVE <<b, k>> \in Gestures
  BY DEF Gestures

\* Only power.long is said as power.long.
LEMMA SaidOnly ==
    ASSUME NEW q \in Structs, NEW r, NEW g \in Gestures, r.out = Append(q.out, g), Said(r)
    PROVE  Said(q) \/ g = PowerLong
<1>1. q.out \in Seq(Gestures)
  BY DEF Structs
<1> QED
  BY <1>1, SaidMore DEF Said

\* A gesture answers the presses of b, and b starts again: btn_reset after recog_emit.
Fired(q, g, b, r) ==
    /\ r \in Structs /\ r.out = Append(q.out, g) /\ r.bogus = q.bogus
    /\ r.consumed = q.consumed \ {b} /\ r.pending = q.pending \ {b}
    /\ \A x \in Buttons : r.owed[x] = IF x = b THEN 0 ELSE q.owed[x]
    /\ \A x \in Buttons : r.taps[x] = IF x = b THEN 0 ELSE q.taps[x]
    /\ SameHold(q, r)

\* A gesture fires, and its button starts again.
LEMMA FiresIs ==
    ASSUME NEW q \in Structs, NEW b \in Buttons, NEW g \in Gestures, q.owed[b] # 0
    PROVE  Fired(q, g, b, Reset(Emit(q, g, {b}), b))
<1> DEFINE e == Emit(q, g, {b})
           r == Reset(e, b)
<1>1. Emitted(q, g, {b}, e)
  BY EmitIs
<1> HIDE DEF e
<1>2. e \in Structs
  BY <1>1 DEF Emitted
<1>3. Cleared(e, b, r)
  BY <1>2, ResetIs
<1> HIDE DEF r
<1>4. SameHold(q, r)
  BY <1>1, <1>3 DEF Emitted, Cleared, SameHold, SameKeys, SamePower
<1>5. Fired(q, g, b, r)
  BY <1>1, <1>3, <1>4 DEF Emitted, Cleared, Fired
<1> QED
  BY <1>5 DEF r, e

\* recog_tick for one button.
LEMMA TickButtonIs ==
    ASSUME NEW q \in Structs, Recog(q), NEW b
    PROVE  TickButton(q, b) \in Structs /\ Recog(TickButton(q, b)) /\ Ticked(q, TickButton(q, b))
<1> DEFINE r == TickButton(q, b)
<1>1. CASE LongDue(q, b)
  <2> DEFINE g == <<b, "long">>
             e == Emit(q, g, {b})
  <2>1. b \in Buttons /\ b \in q.down \ q.consumed /\ q.age[b] >= Long
    BY <1>1 DEF LongDue, Chordable, Structs
  <2>2. g \in Gestures
    BY <2>1, GestureOf DEF Kinds
  <2>3. q.owed[b] # 0 /\ ~ShortDue(q, b)
    BY <2>1 DEF Recog, Answered, ShortDue
  <2>4. r = Consume(e, {b})
    BY <1>1, <2>3 DEF TickButton
  <2>5. g = PowerLong => "power" \in q.down /\ q.age["power"] >= Long
    BY <2>1 DEF PowerLong
  <2> HIDE DEF g, r
  <2>6. Emitted(q, g, {b}, e)
    BY <2>1, <2>2, <2>3, EmitIs
  <2> HIDE DEF e
  <2>7. e \in Structs
    BY <2>6 DEF Emitted
  <2>8. Consumed(e, {b}, r)
    BY <2>1, <2>4, <2>7, ConsumeIs
  <2>9. \A x \in Buttons : Answered(r, x)
    <3> SUFFICES ASSUME NEW x \in Buttons PROVE Answered(r, x)
      OBVIOUS
    <3>1. CASE x = b
      BY <3>1, <2>1, <2>6, <2>8 DEF Answered, Emitted, Consumed, SameHold
    <3>2. CASE x # b
      <4>1. Answered(q, x)
        BY DEF Recog
      <4> QED
        BY <3>2, <4>1, <2>6, <2>8 DEF Answered, Emitted, Consumed, SameHold
    <3> QED
      BY <3>1, <3>2
  <2>10. Recog(r)
    BY <2>1, <2>6, <2>8, <2>9 DEF Recog, Emitted, Consumed, SameHold
  <2>11. r.out = Append(q.out, g) /\ r \in Structs
    BY <2>6, <2>8 DEF Emitted, Consumed
  <2>12. Said(r) => Said(q) \/ g = PowerLong
    BY <2>2, <2>11, SaidOnly
  <2>13. Ticked(q, r)
    BY <2>5, <2>6, <2>8, <2>12 DEF Ticked, SameHold, SameKeys, SamePower, Emitted, Consumed
  <2> QED
    BY <2>10, <2>11, <2>13 DEF r
<1>2. CASE ~LongDue(q, b) /\ ShortDue(q, b)
  <2> DEFINE g == <<b, "short">>
  <2>1. b \in Buttons /\ b \in q.pending
    BY <1>2 DEF ShortDue, Structs
  <2>2. q.owed[b] # 0 /\ b \notin q.down
    BY <2>1 DEF Recog, Answered
  <2>3. g \in Gestures /\ g # PowerLong
    BY <2>1, GestureOf DEF PowerLong, Kinds
  <2>4. r = Reset(Emit(q, g, {b}), b)
    BY <1>2 DEF TickButton
  <2> HIDE DEF g, r
  <2>5. Fired(q, g, b, r)
    BY <2>1, <2>2, <2>3, <2>4, FiresIs
  <2>6. \A x \in Buttons : Answered(r, x)
    <3> SUFFICES ASSUME NEW x \in Buttons PROVE Answered(r, x)
      OBVIOUS
    <3>1. CASE x = b
      BY <3>1, <2>2, <2>5 DEF Answered, Fired, SameHold
    <3>2. CASE x # b
      <4>1. Answered(q, x)
        BY DEF Recog
      <4> QED
        BY <3>2, <4>1, <2>5 DEF Answered, Fired, SameHold
    <3> QED
      BY <3>1, <3>2
  <2>7. Recog(r)
    BY <2>5, <2>6 DEF Recog, Fired, SameHold
  <2>8. r.out = Append(q.out, g) /\ r \in Structs
    BY <2>5 DEF Fired
  <2>9. Said(r) => Said(q)
    BY <2>3, <2>8, SaidOnly
  <2>10. Ticked(q, r)
    BY <2>5, <2>9 DEF Ticked, Fired, SameHold
  <2> QED
    BY <2>7, <2>8, <2>10 DEF r
<1>3. CASE ~LongDue(q, b) /\ ~ShortDue(q, b)
  BY <1>3 DEF TickButton, Ticked, SameKeys, SamePower
<1> QED
  BY <1>1, <1>2, <1>3

\* recog_tick
LEMMA TickIs ==
    ASSUME NEW q \in Structs, Recog(q)
    PROVE  RecogTick(q) \in Structs /\ Recog(RecogTick(q)) /\ Ticked(q, RecogTick(q))
<1> DEFINE q1 == TickButton(q, "power")
           q2 == TickButton(q1, "volup")
           r == TickButton(q2, "voldown")
<1>1. q1 \in Structs /\ Recog(q1) /\ Ticked(q, q1)
  BY TickButtonIs
<1> HIDE DEF q1
<1>2. q2 \in Structs /\ Recog(q2) /\ Ticked(q1, q2)
  BY <1>1, TickButtonIs
<1> HIDE DEF q2
<1>3. r \in Structs /\ Recog(r) /\ Ticked(q2, r)
  BY <1>2, TickButtonIs
<1> HIDE DEF r
<1>4. Ticked(q, r)
  BY <1>1, <1>2, <1>3 DEF Ticked, SameKeys, SamePower
<1>5. RecogTick(q) = r
  BY DEF RecogTick, r, q2, q1
<1> QED
  BY <1>3, <1>4, <1>5

\* A press of b is counted.
Counted(q, b, h) ==
    /\ h \in Structs /\ h.down = q.down \cup {b} /\ h.consumed = q.consumed \ {b}
    /\ h.pending = q.pending /\ h.taps = q.taps /\ h.left = q.left
    /\ h.out = q.out /\ h.bogus = q.bogus
    /\ \A x \in Buttons : h.owed[x] = IF x = b THEN q.owed[x] + 1 ELSE q.owed[x]
    /\ \A x \in Buttons : h.age[x] = IF x = b THEN 0 ELSE q.age[x]
    /\ h.poSame <=> (q.poSame /\ b # "power")
    /\ SameKeys(q, h) /\ SamePower(q, h)

\* A press adds one to what its button is owed, and is not the one a power-off follows.
LEMMA AcceptedIs ==
    ASSUME NEW q \in Structs, Recog(q), NEW b \in Buttons, b \notin q.down
    PROVE  Counted(q, b, Accepted(q, b))
<1> DEFINE o == [q.owed EXCEPT ![b] = @ + 1]
           a == [q.age EXCEPT ![b] = 0]
           p == (q.poSame /\ b # "power")
           h == Accepted(q, b)
<1>1. q.owed \in [Buttons -> 0 .. 2] /\ q.age \in [Buttons -> 0 .. Long] /\ Long \in Nat
  BY Basics DEF Structs
<1>2. q.owed[b] \in {0, 1}
  BY DEF Recog, Answered
<1>3. o \in [Buttons -> 0 .. 2]
  BY <1>1, <1>2
<1>4. \A x \in Buttons : o[x] = IF x = b THEN q.owed[x] + 1 ELSE q.owed[x]
  BY <1>1
<1>5. a \in [Buttons -> 0 .. Long] /\ \A x \in Buttons : a[x] = IF x = b THEN 0 ELSE q.age[x]
  BY <1>1
<1>6. p \in BOOLEAN
  OBVIOUS
<1>7. q.down \cup {b} \in SUBSET Buttons /\ q.consumed \ {b} \in SUBSET Buttons
  BY DEF Structs
<1>8. h = [q EXCEPT !.down = q.down \cup {b}, !.age = a, !.consumed = q.consumed \ {b},
                    !.owed = o, !.poSame = p]
  BY DEF Accepted, Structs
<1>9. p <=> (q.poSame /\ b # "power")
  OBVIOUS
<1> HIDE DEF o, a, p, h
<1>10. h \in Structs
  BY <1>3, <1>5, <1>6, <1>7, <1>8 DEF Structs
<1>11. h.owed = o /\ h.age = a /\ h.poSame = p /\ h.down = q.down \cup {b}
       /\ h.consumed = q.consumed \ {b} /\ h.pending = q.pending /\ h.taps = q.taps
       /\ h.left = q.left /\ h.out = q.out /\ h.bogus = q.bogus
       /\ SameKeys(q, h) /\ SamePower(q, h)
  BY <1>8 DEF Structs, SameKeys, SamePower
<1>12. Counted(q, b, h)
  BY <1>4, <1>5, <1>9, <1>10, <1>11 DEF Counted
<1> QED
  BY <1>12 DEF h

\* At most one button makes a chord with a press, and one of the two is a volume button.
LEMMA PartnerIs ==
    ASSUME NEW q \in Structs, NEW b \in Buttons
    PROVE  /\ Partner(q, b) \in SUBSET (q.down \ q.consumed)
           /\ Partner(q, b) # {} => \E v \in Partner(q, b) \cup {b} : v # "power"
           /\ Partner(q, b) \subseteq Buttons
<1>1. q.down \subseteq Buttons /\ "power" \notin Volumes
  BY Basics DEF Structs
<1>2. CASE b # "power"
  BY <1>1, <1>2 DEF Partner, Chordable
<1>3. CASE b = "power" /\ \E v \in Volumes : v = "volup" /\ Chordable(q, v)
  BY <1>1, <1>3 DEF Partner, Chordable
<1>4. CASE b = "power" /\ ~\E v \in Volumes : v = "volup" /\ Chordable(q, v)
  <2>1. Partner(q, b) = {v \in Volumes : Chordable(q, v)}
    BY <1>4 DEF Partner
  <2> QED
    BY <1>1, <2>1 DEF Chordable
<1> QED
  BY <1>2, <1>3, <1>4

\* A press or a release of b has gone into the recognizer.
Fed(q, r, b) ==
    /\ r \in Structs /\ Recog(r) /\ SameKeys(q, r) /\ SamePower(q, r)
    /\ r.age["power"] \in {q.age["power"], 0}
    /\ b # "power" => r.age["power"] = q.age["power"]
    /\ "power" \in r.down \ q.down => r.age["power"] = 0

\* recog_press
LEMMA PressIs ==
    ASSUME NEW q \in Structs, Recog(q), NEW b \in Buttons
    PROVE  /\ Fed(q, Press(q, b), b) /\ Press(q, b).down = q.down \cup {b}
           /\ Press(q, b).poSame <=> (q.poSame /\ ~(b = "power" /\ b \notin q.down))
           /\ Said(Press(q, b)) => Said(q)
<1> DEFINE r == Press(q, b)
           h == Accepted(q, b)
           other == Partner(q, b)
<1>1. CASE b \in q.down
  <2>1. r = q
    BY <1>1 DEF Press
  <2>2. q.down = q.down \cup {b}
    BY <1>1
  <2> QED
    BY <1>1, <2>1, <2>2 DEF Fed, SameKeys, SamePower
<1>2. ASSUME b \notin q.down PROVE Counted(q, b, h) /\ h \in Structs
  BY <1>2, AcceptedIs DEF Counted
<1> HIDE DEF h
<1>3. other \in SUBSET (q.down \ q.consumed) /\ other \subseteq Buttons
      /\ (other # {} => \E v \in other \cup {b} : v # "power")
  BY PartnerIs
<1>4. CASE b \notin q.down /\ other # {}
  <2> DEFINE bs == other \cup {b}
             g == <<CHOOSE v \in bs : v # "power", "chord">>
             c == Consume(h, bs)
  <2>1. r = Emit(c, g, bs)
    BY <1>4 DEF Press, h
  <2>2. bs \in SUBSET Buttons /\ b \notin other /\ b \in bs
    BY <1>3, <1>4
  <2>3. g \in Gestures /\ g # PowerLong
    <3> DEFINE v == CHOOSE x \in bs : x # "power"
    <3>1. v \in bs /\ v # "power"
      BY <1>3, <1>4
    <3>2. v \in Volumes
      BY <3>1, <2>2 DEF Buttons
    <3>3. g = <<v, "chord">>
      OBVIOUS
    <3> HIDE DEF v, g
    <3> QED
      BY <3>2, <3>3, Basics DEF Gestures, PowerLong
  <2> HIDE DEF bs, g, r
  <2>4. Consumed(h, bs, c)
    BY <1>2, <1>4, <2>2, ConsumeIs
  <2> HIDE DEF c
  <2>5. \A x \in bs : c.owed[x] # 0
    <3> SUFFICES ASSUME NEW x \in bs PROVE c.owed[x] # 0
      OBVIOUS
    <3>1. x \in Buttons /\ c.owed[x] = h.owed[x]
      BY <2>2, <2>4 DEF Consumed
    <3>2. CASE x = b
      <4>1. q.owed[x] \in {0, 1, 2}
        BY <3>1 DEF Structs
      <4> QED
        BY <1>2, <1>4, <3>1, <3>2, <4>1 DEF Counted
    <3>3. CASE x # b
      <4>1. x \in q.down \ q.consumed
        BY <1>3, <3>3 DEF bs
      <4>2. q.owed[x] # 0
        BY <3>1, <4>1 DEF Recog, Answered
      <4> QED
        BY <1>2, <1>4, <3>1, <3>3, <4>2 DEF Counted
    <3> QED
      BY <3>2, <3>3
  <2>6. Emitted(c, g, bs, r)
    <3>1. c \in Structs
      BY <2>4 DEF Consumed
    <3> QED
      BY <2>1, <2>2, <2>3, <2>5, <3>1, EmitIs
  <2>7. \A x \in Buttons : Answered(r, x)
    <3> SUFFICES ASSUME NEW x \in Buttons PROVE Answered(r, x)
      OBVIOUS
    <3>1. CASE x \in bs
      BY <3>1, <1>2, <1>4, <2>4, <2>6 DEF Answered, Emitted, Consumed, SameHold
    <3>2. CASE x \notin bs
      <4>1. Answered(q, x) /\ x # b
        BY <2>2, <3>2 DEF Recog
      <4>2. Answered(h, x)
        BY <1>2, <1>4, <4>1 DEF Answered, Counted
      <4> QED
        BY <3>2, <4>2, <2>4, <2>6 DEF Answered, Emitted, Consumed, SameHold
    <3> QED
      BY <3>1, <3>2
  <2>8. r.down = q.down \cup {b} /\ r.consumed = (q.consumed \ {b}) \cup bs
        /\ r.pending = q.pending \ bs /\ r.bogus = q.bogus
    BY <1>2, <1>4, <2>4, <2>6 DEF Counted, Emitted, Consumed, SameHold
  <2>9. Recog(r)
    <3>1. bs \subseteq q.down \cup {b}
      BY <1>3 DEF bs
    <3> QED
      BY <2>2, <2>7, <2>8, <3>1 DEF Recog
  <2>10. r.age["power"] \in {q.age["power"], 0} /\ (b # "power" => r.age["power"] = q.age["power"])
    BY <1>2, <1>4, <2>4, <2>6, Basics DEF Counted, Emitted, Consumed, SameHold
  <2>11. SameKeys(q, r) /\ SamePower(q, r)
    BY <1>2, <1>4, <2>4, <2>6 DEF Counted, Emitted, Consumed, SameHold, SameKeys, SamePower
  <2>12. r.poSame <=> (q.poSame /\ b # "power")
    BY <1>2, <1>4, <2>4, <2>6 DEF Counted, Emitted, Consumed, SameHold
  <2>13. Said(r) => Said(q)
    <3>1. c \in Structs /\ c.out = q.out /\ r.out = Append(c.out, g)
      BY <1>2, <1>4, <2>4, <2>6 DEF Counted, Emitted, Consumed
    <3>2. Said(r) => Said(c)
      BY <2>3, <3>1, SaidOnly
    <3> QED
      BY <3>1, <3>2 DEF Said
  <2>15. "power" \in r.down \ q.down => r.age["power"] = 0
    BY <1>2, <1>4, <2>4, <2>6, <2>8, Basics DEF Counted, Emitted, Consumed, SameHold
  <2>14. Fed(q, r, b)
    BY <2>6, <2>9, <2>10, <2>11, <2>15 DEF Fed, Emitted
  <2> QED
    BY <1>4, <2>8, <2>12, <2>13, <2>14 DEF r
<1>5. CASE b \notin q.down /\ other = {}
  <2> DEFINE t == IF b \in q.pending THEN q.taps[b] + 1 ELSE 1
             ts == [q.taps EXCEPT ![b] = t]
  <2>1. t \in {1, 2} /\ (t = 1 \/ b \in q.pending) /\ t = q.owed[b] + 1
    BY <1>5 DEF Recog, Answered
  <2>2. r = [h EXCEPT !.pending = q.pending \ {b}, !.taps = ts]
    <3>1. CASE b \in q.pending
      BY <1>2, <1>5, <3>1 DEF Press, h, Counted, Structs
    <3>2. CASE b \notin q.pending
      <4>1. r = [h EXCEPT !.taps[b] = 1] /\ t = 1
        BY <1>5, <3>2 DEF Press, h
      <4>2. h \in Structs /\ h.pending = q.pending /\ h.taps = q.taps /\ q.pending \ {b} = q.pending
        BY <1>2, <1>5, <3>2 DEF Counted
      <4> HIDE DEF r, t
      <4> QED
        BY <4>1, <4>2 DEF Structs
    <3> QED
      BY <3>1, <3>2
  <2> HIDE DEF t
  <2>3. ts \in [Buttons -> 0 .. 2] /\ \A x \in Buttons : ts[x] = IF x = b THEN t ELSE q.taps[x]
    BY <2>1 DEF Structs
  <2>4. q.pending \ {b} \in SUBSET Buttons
    BY DEF Structs
  <2> HIDE DEF ts, r
  <2>5. r \in Structs
    BY <1>2, <1>5, <2>2, <2>3, <2>4 DEF Structs
  <2>6. r.taps = ts /\ r.pending = q.pending \ {b} /\ r.down = h.down /\ r.consumed = h.consumed
        /\ r.owed = h.owed /\ r.bogus = h.bogus /\ r.age = h.age /\ r.poSame = h.poSame
        /\ r.out = h.out /\ SameKeys(h, r) /\ SamePower(h, r)
    BY <1>2, <1>5, <2>2 DEF Structs, SameKeys, SamePower
  <2>7. \A x \in Buttons : Answered(r, x)
    <3> SUFFICES ASSUME NEW x \in Buttons PROVE Answered(r, x)
      OBVIOUS
    <3>1. CASE x = b
      <4>1. r.taps[x] = t /\ r.owed[x] = t /\ x \notin r.pending
        BY <3>1, <1>2, <1>5, <2>1, <2>3, <2>6 DEF Counted
      <4>2. b \in r.down \ r.consumed
        BY <1>2, <1>5, <2>6 DEF Counted
      <4> QED
        BY <3>1, <4>1, <4>2, <2>1 DEF Answered
    <3>2. CASE x # b
      <4>1. Answered(q, x)
        BY DEF Recog
      <4> QED
        BY <3>2, <4>1, <1>2, <1>5, <2>3, <2>6 DEF Answered, Counted
    <3> QED
      BY <3>1, <3>2
  <2>8. r.down = q.down \cup {b} /\ r.consumed = q.consumed \ {b} /\ r.bogus = q.bogus
    BY <1>2, <1>5, <2>6 DEF Counted
  <2>9. Recog(r)
    BY <2>6, <2>7, <2>8 DEF Recog
  <2>10. r.age["power"] \in {q.age["power"], 0} /\ (b # "power" => r.age["power"] = q.age["power"])
    BY <1>2, <1>5, <2>6, Basics DEF Counted
  <2>11. SameKeys(q, r) /\ SamePower(q, r)
    BY <1>2, <1>5, <2>6 DEF Counted, SameKeys, SamePower
  <2>12. r.poSame <=> (q.poSame /\ b # "power")
    BY <1>2, <1>5, <2>6 DEF Counted
  <2>13. Said(r) => Said(q)
    BY <1>2, <1>5, <2>6 DEF Said, Counted
  <2>15. "power" \in r.down \ q.down => r.age["power"] = 0
    BY <1>2, <1>5, <2>6, <2>8, Basics DEF Counted
  <2>14. Fed(q, r, b)
    BY <2>5, <2>9, <2>10, <2>11, <2>15 DEF Fed
  <2> QED
    BY <1>5, <2>8, <2>12, <2>13, <2>14 DEF r
<1> QED
  BY <1>1, <1>4, <1>5

\* b is up; what its presses are owed is still open.
Lifted(q, b, h) ==
    /\ h \in Structs /\ h.down = q.down \ {b} /\ h.consumed = q.consumed
    /\ h.pending = q.pending /\ h.taps = q.taps /\ h.left = q.left
    /\ h.out = q.out /\ h.bogus = q.bogus /\ h.owed = q.owed /\ h.poSame = q.poSame
    /\ \A x \in Buttons : h.age[x] = IF x = b THEN 0 ELSE q.age[x]
    /\ SameKeys(q, h) /\ SamePower(q, h)

\* recog_release's first assignment.
LEMMA LiftIs ==
    ASSUME NEW q \in Structs, NEW b \in Buttons
    PROVE  Lifted(q, b, [q EXCEPT !.down = @ \ {b}, !.age[b] = 0])
<1> DEFINE a == [q.age EXCEPT ![b] = 0]
           h == [q EXCEPT !.down = @ \ {b}, !.age[b] = 0]
<1>1. a \in [Buttons -> 0 .. Long] /\ \A x \in Buttons : a[x] = IF x = b THEN 0 ELSE q.age[x]
  BY Basics DEF Structs
<1>2. q.down \ {b} \in SUBSET Buttons
  BY DEF Structs
<1>3. h = [q EXCEPT !.down = q.down \ {b}, !.age = a]
  BY DEF Structs
<1> HIDE DEF a, h
<1>4. h \in Structs
  BY <1>1, <1>2, <1>3 DEF Structs
<1>5. h.age = a /\ h.down = q.down \ {b} /\ h.consumed = q.consumed /\ h.pending = q.pending
      /\ h.taps = q.taps /\ h.left = q.left /\ h.out = q.out /\ h.bogus = q.bogus
      /\ h.owed = q.owed /\ h.poSame = q.poSame /\ SameKeys(q, h) /\ SamePower(q, h)
  BY <1>3 DEF Structs, SameKeys, SamePower
<1>6. Lifted(q, b, h)
  BY <1>1, <1>4, <1>5 DEF Lifted
<1> QED
  BY <1>6 DEF h

\* recog_release
LEMMA ReleaseIs ==
    ASSUME NEW q \in Structs, Recog(q), NEW b \in Buttons
    PROVE  /\ Fed(q, Release(q, b), b) /\ Release(q, b).down = q.down \ {b}
           /\ Release(q, b).poSame = q.poSame
           /\ Said(Release(q, b)) => Said(q) \/ b = "power"
<1> DEFINE r == Release(q, b)
           h == [q EXCEPT !.down = @ \ {b}, !.age[b] = 0]
           fires(kind) == Reset(Emit(h, <<b, kind>>, {b}), b)
<1>1. CASE b \notin q.down
  <2>1. r = q /\ q.down = q.down \ {b}
    BY <1>1 DEF Release
  <2> QED
    BY <1>1, <2>1 DEF Fed, SameKeys, SamePower
<1>2. Lifted(q, b, h)
  BY LiftIs
<1>3. h \in Structs
  BY <1>2 DEF Lifted
<1>4. CASE b \in q.down \cap q.consumed
  <2>1. r = Reset(h, b)
    BY <1>4 DEF Release
  <2> HIDE DEF r, h
  <2>2. Cleared(h, b, r)
    BY <1>3, <2>1, ResetIs
  <2>3. \A x \in Buttons : Answered(r, x)
    <3> SUFFICES ASSUME NEW x \in Buttons PROVE Answered(r, x)
      OBVIOUS
    <3>1. Answered(q, x)
      BY DEF Recog
    <3>2. CASE x = b
      BY <3>1, <3>2, <1>2, <1>4, <2>2 DEF Recog, Answered, Cleared, Lifted, SameHold
    <3>3. CASE x # b
      BY <3>1, <3>3, <1>2, <2>2 DEF Answered, Cleared, Lifted, SameHold
    <3> QED
      BY <3>2, <3>3
  <2>4. r.down = q.down \ {b} /\ r.poSame = q.poSame /\ r.out = q.out
    BY <1>2, <2>2 DEF Cleared, Lifted, SameHold
  <2>5. Recog(r)
    BY <1>2, <2>2, <2>3, <2>4 DEF Recog, Cleared, Lifted
  <2>6. r.age["power"] \in {q.age["power"], 0} /\ (b # "power" => r.age["power"] = q.age["power"])
    BY <1>2, <2>2, Basics DEF Cleared, Lifted, SameHold
  <2>7. SameKeys(q, r) /\ SamePower(q, r)
    BY <1>2, <2>2 DEF Cleared, Lifted, SameHold, SameKeys, SamePower
  <2>8. Fed(q, r, b)
    BY <2>2, <2>4, <2>5, <2>6, <2>7 DEF Fed, Cleared
  <2> QED
    BY <2>4, <2>8 DEF Said, r
<1>5. ASSUME NEW kind \in Kinds, b \in q.down \ q.consumed, r = fires(kind)
      PROVE  /\ Fed(q, r, b) /\ r.down = q.down \ {b} /\ r.poSame = q.poSame
             /\ Said(r) => Said(q) \/ b = "power"
  <2> DEFINE g == <<b, kind>>
  <2>1. g \in Gestures /\ (g = PowerLong => b = "power")
    BY GestureOf DEF PowerLong
  <2>2. h.owed[b] # 0
    BY <1>2, <1>5 DEF Lifted, Recog, Answered
  <2>3. r = Reset(Emit(h, g, {b}), b)
    BY <1>5
  <2> HIDE DEF r, h, g
  <2>4. Fired(h, g, b, r)
    BY <1>3, <2>1, <2>2, <2>3, FiresIs
  <2>5. \A x \in Buttons : Answered(r, x)
    <3> SUFFICES ASSUME NEW x \in Buttons PROVE Answered(r, x)
      OBVIOUS
    <3>1. Answered(q, x)
      BY DEF Recog
    <3>2. CASE x = b
      BY <3>1, <3>2, <1>2, <1>5, <2>4 DEF Answered, Fired, Lifted, SameHold
    <3>3. CASE x # b
      BY <3>1, <3>3, <1>2, <2>4 DEF Answered, Fired, Lifted, SameHold
    <3> QED
      BY <3>2, <3>3
  <2>6. r.down = q.down \ {b} /\ r.poSame = q.poSame /\ r.out = Append(q.out, g) /\ r \in Structs
    BY <1>2, <2>4 DEF Fired, Lifted, SameHold
  <2>7. Recog(r)
    BY <1>2, <2>4, <2>5, <2>6 DEF Recog, Fired, Lifted
  <2>8. r.age["power"] \in {q.age["power"], 0} /\ (b # "power" => r.age["power"] = q.age["power"])
    BY <1>2, <2>4, Basics DEF Fired, Lifted, SameHold
  <2>9. SameKeys(q, r) /\ SamePower(q, r)
    BY <1>2, <2>4 DEF Fired, Lifted, SameHold, SameKeys, SamePower
  <2>10. Fed(q, r, b)
    BY <2>6, <2>7, <2>8, <2>9 DEF Fed
  <2>11. Said(r) => Said(q) \/ g = PowerLong
    BY <2>1, <2>6, SaidOnly
  <2> QED
    BY <2>1, <2>6, <2>10, <2>11
<1>6. "long" \in Kinds /\ "double" \in Kinds /\ "short" \in Kinds
  BY DEF Kinds
<1>7. CASE b \in q.down \ q.consumed /\ q.age[b] >= Long
  <2>0. ~(q.age[b] < Long)
    BY <1>7, Basics DEF Structs
  <2>1. r = fires("long")
    BY <1>7, <2>0 DEF Release
  <2> HIDE DEF fires, r
  <2>2. /\ Fed(q, r, b) /\ r.down = q.down \ {b} /\ r.poSame = q.poSame
        /\ Said(r) => Said(q) \/ b = "power"
    BY <1>5, <1>6, <1>7, <2>1
  <2> QED
    BY <2>2 DEF r
<1>8. CASE b \in q.down \ q.consumed /\ ~(q.age[b] >= Long)
  <2>0. q.age[b] < Long /\ q.taps[b] \in 0 .. 2
    BY <1>8, Basics DEF Structs
  <2>1. CASE q.taps[b] >= 2
    <3>1. r = fires("double")
      BY <1>8, <2>0, <2>1 DEF Release
    <3> HIDE DEF fires, r
    <3>2. /\ Fed(q, r, b) /\ r.down = q.down \ {b} /\ r.poSame = q.poSame
          /\ Said(r) => Said(q) \/ b = "power"
      BY <1>5, <1>6, <1>8, <3>1
    <3> QED
      BY <3>2 DEF r
  <2>2. CASE ~(q.taps[b] >= 2) /\ ~DoubleArmed(q, b)
    <3>1. r = fires("short")
      BY <1>8, <2>0, <2>2 DEF Release
    <3> HIDE DEF fires, r
    <3>2. /\ Fed(q, r, b) /\ r.down = q.down \ {b} /\ r.poSame = q.poSame
          /\ Said(r) => Said(q) \/ b = "power"
      BY <1>5, <1>6, <1>8, <3>1
    <3> QED
      BY <3>2 DEF r
  <2>3. CASE ~(q.taps[b] >= 2) /\ DoubleArmed(q, b)
    <3> DEFINE l == [h.left EXCEPT ![b] = Double]
    <3>1. q.taps[b] < 2
      BY <2>0, <2>3
    <3>2. r = [h EXCEPT !.pending = @ \cup {b}, !.left[b] = Double]
      BY <1>8, <2>0, <2>3, <3>1 DEF Release
    <3> HIDE DEF h
    <3>3. r = [h EXCEPT !.pending = h.pending \cup {b}, !.left = l]
      BY <1>3, <3>2 DEF Structs
    <3>4. l \in [Buttons -> 0 .. Double] /\ h.pending \cup {b} \in SUBSET Buttons
      BY <1>3, Basics DEF Structs
    <3> HIDE DEF l, r
    <3>5. r \in Structs
      BY <1>3, <3>3, <3>4 DEF Structs
    <3>6. r.pending = h.pending \cup {b} /\ r.down = h.down /\ r.consumed = h.consumed
          /\ r.taps = h.taps /\ r.owed = h.owed /\ r.bogus = h.bogus /\ r.age = h.age
          /\ r.out = h.out /\ r.poSame = h.poSame /\ SameKeys(h, r) /\ SamePower(h, r)
      BY <1>3, <3>3 DEF Structs, SameKeys, SamePower
    <3>7. q.taps[b] = 1 /\ q.owed[b] = 1
      BY <1>8, <3>1, <2>0 DEF Recog, Answered
    <3>8. \A x \in Buttons : Answered(r, x)
      <4> SUFFICES ASSUME NEW x \in Buttons PROVE Answered(r, x)
        OBVIOUS
      <4>1. CASE x = b
        BY <4>1, <1>2, <3>6, <3>7 DEF Answered, Lifted
      <4>2. CASE x # b
        <5>1. Answered(q, x)
          BY DEF Recog
        <5> QED
          BY <4>2, <5>1, <1>2, <3>6 DEF Answered, Lifted
      <4> QED
        BY <4>1, <4>2
    <3>9. Recog(r)
      BY <1>2, <1>8, <3>6, <3>8 DEF Recog, Lifted
    <3>10. r.age["power"] \in {q.age["power"], 0} /\ (b # "power" => r.age["power"] = q.age["power"])
      BY <1>2, <3>6, Basics DEF Lifted
    <3>11. SameKeys(q, r) /\ SamePower(q, r)
      BY <1>2, <3>6 DEF Lifted, SameKeys, SamePower
    <3>12. Fed(q, r, b)
      BY <1>2, <3>5, <3>6, <3>9, <3>10, <3>11 DEF Fed, Lifted
    <3>13. r.down = q.down \ {b} /\ r.poSame = q.poSame /\ r.out = q.out
      BY <1>2, <3>6 DEF Lifted
    <3> QED
      BY <3>12, <3>13 DEF Said, r
  <2> QED
    BY <2>1, <2>2, <2>3
<1> QED
  BY <1>1, <1>4, <1>7, <1>8

-----------------------------------------------------------------------------
(* Clients.                                                                 *)

\* What lines to clients leave alone; claims may go, with the client.
SameRecog(q, r) ==
    /\ r.down = q.down /\ r.consumed = q.consumed /\ r.pending = q.pending /\ r.taps = q.taps
    /\ r.age = q.age /\ r.left = q.left /\ r.owed = q.owed /\ r.bogus = q.bogus
    /\ r.length = q.length /\ r.off = q.off /\ SameKeys(q, r)
Fewer(q, r) == \A c \in Clients : r.claims[c] \subseteq q.claims[c]
SameArm(q, r) == r.po = q.po /\ r.poAge = q.poAge /\ r.poSame = q.poSame

\* The power-off is armed, and no client that is still there claims power.long.
Unclaimed(r) == \A c \in Clients : PowerLong \notin r.claims[c]
Arms(r) == r.po = "armed" /\ r.poAge = 0 /\ r.poSame = TRUE /\ Unclaimed(r)

\* A line was sent; a gesture was dispatched; all that waited were.
Told(q, r) == r \in Structs /\ r.out = q.out /\ SameRecog(q, r) /\ Fewer(q, r) /\ SameArm(q, r)
Sent(q, g, r) ==
    /\ r \in Structs /\ r.out = q.out /\ SameRecog(q, r) /\ Fewer(q, r)
    /\ SameArm(q, r) \/ (g = PowerLong /\ Arms(r))
Drained(q, r) ==
    /\ r \in Structs /\ r.out = <<>> /\ SameRecog(q, r) /\ Fewer(q, r)
    /\ SameArm(q, r) \/ (Said(q) /\ Arms(r))

\* A sound recognizer is still sound.
LEMMA RecogStays ==
    ASSUME NEW q, Recog(q), NEW r, SameRecog(q, r)
    PROVE  Recog(r)
  BY DEF Recog, Answered, SameRecog

\* The claims of a connection go with it.
LEMMA DropIs ==
    ASSUME NEW q \in Structs, NEW cs
    PROVE  Told(q, Drop(q, cs))
<1> DEFINE k == [c \in Clients |-> IF c \in cs THEN {} ELSE q.claims[c]]
           r == Drop(q, cs)
<1>1. k \in [Clients -> SUBSET Claimable] /\ \A c \in Clients : k[c] \subseteq q.claims[c]
  BY DEF Structs
<1>2. r = [q EXCEPT !.claims = k]
  BY DEF Drop, Structs
<1> HIDE DEF k, r
<1>3. r \in Structs
  BY <1>1, <1>2 DEF Structs
<1>4. r.claims = k /\ r.out = q.out /\ SameRecog(q, r) /\ SameArm(q, r)
  BY <1>2 DEF Structs, SameRecog, SameKeys, SameArm
<1>5. Told(q, r)
  BY <1>1, <1>3, <1>4 DEF Told, Fewer
<1> QED
  BY <1>5 DEF r

\* server_send_key
LEMMA SendKeyIs ==
    ASSUME NEW q \in Structs, NEW full, NEW b
    PROVE  Told(q, SendKey(q, full, b))
<1> DEFINE cs == {c \in full : q.claims[c] \cap (GesturesOf(b) \cup {Watch}) # {}}
<1>1. SendKey(q, full, b) = Drop(q, cs)
  BY DEF SendKey
<1> HIDE DEF cs
<1> QED
  BY <1>1, DropIs

\* One line after another.
LEMMA ToldTwice ==
    ASSUME NEW q, NEW h, NEW r, Told(q, h), Told(h, r)
    PROVE  Told(q, r)
<1>1. Fewer(q, r)
  BY DEF Told, Fewer
<1> QED
  BY <1>1 DEF Told, SameRecog, SameKeys, SameArm

\* server_dispatch: the default is for a gesture nobody who is still there claims.
LEMMA DispatchIs ==
    ASSUME NEW q \in Structs, NEW g \in Gestures, NEW full
    PROVE  Sent(q, g, Dispatch(q, full, g))
<1> DEFINE h == IF g[2] = "long" THEN SendKey(q, full, g[1]) ELSE q
           cs == {c \in full : h.claims[c] \cap {g, Watch} # {}}
           m == Drop(h, cs)
           r == Dispatch(q, full, g)
<1>1. Told(q, h)
  <2>1. CASE g[2] = "long"
    BY <2>1, SendKeyIs
  <2>2. CASE g[2] # "long"
    BY <2>2 DEF Told, Fewer, SameRecog, SameKeys, SameArm
  <2> QED
    BY <2>1, <2>2
<1>2. r = IF \E c \in Clients : g \in m.claims[c] THEN m ELSE Default(m, g)
  BY DEF Dispatch
<1> HIDE DEF h, cs, r
<1>3. Told(h, m)
  BY <1>1, DropIs DEF Told
<1> HIDE DEF m
<1>4. Told(q, m) /\ m \in Structs
  BY <1>1, <1>3, ToldTwice DEF Told
<1>5. CASE (\E c \in Clients : g \in m.claims[c]) \/ g # PowerLong
  <2>1. r = m
    BY <1>2, <1>5 DEF Default, PowerLong
  <2>2. Sent(q, g, r)
    BY <1>4, <2>1 DEF Told, Sent
  <2> QED
    BY <2>2 DEF r
<1>6. CASE g = PowerLong /\ ~\E c \in Clients : g \in m.claims[c]
  <2>1. r = [m EXCEPT !.po = "armed", !.poAge = 0, !.poSame = TRUE]
    BY <1>2, <1>6 DEF Default, PowerLong
  <2>2. 0 \in 0 .. Hold
    BY Basics
  <2>3. r \in Structs
    BY <1>4, <2>1, <2>2 DEF Structs
  <2>4. r.po = "armed" /\ r.poAge = 0 /\ r.poSame = TRUE /\ r.claims = m.claims /\ r.out = m.out
        /\ SameRecog(m, r)
    BY <1>4, <2>1 DEF Structs, SameRecog, SameKeys
  <2>5. SameRecog(q, r) /\ Fewer(q, r) /\ r.out = q.out
    BY <1>4, <2>4 DEF Told, SameRecog, SameKeys, Fewer
  <2>6. Arms(r)
    BY <1>6, <2>4 DEF Arms, Unclaimed
  <2>7. Sent(q, g, r)
    BY <1>6, <2>3, <2>5, <2>6 DEF Sent
  <2> QED
    BY <2>7 DEF r
<1> QED
  BY <1>5, <1>6

\* server_drain: it ends, and has dispatched what waited.
LEMMA DrainIs ==
    ASSUME NEW q \in Structs, NEW full
    PROVE  Drained(q, Drain(q, full))
<1> DEFINE n == Len(q.out)
           a == [q EXCEPT !.out = <<>>]
           f == CHOOSE f : f = [i \in 0 .. n |-> IF i = 0 THEN a ELSE Dispatch(f[i - 1], full, q.out[i])]
           G == [i \in 1 .. n |-> [x \in Structs |-> Dispatch(x, full, q.out[i])]]
<1>1. n \in Nat /\ \A i \in 1 .. n : q.out[i] \in Gestures
  <2>1. q.out \in Seq(Gestures)
    BY DEF Structs
  <2> QED
    BY <2>1
<1>2. a \in Structs /\ a.out = <<>> /\ SameRecog(q, a) /\ Fewer(q, a) /\ SameArm(q, a)
  <2>1. <<>> \in Seq(Gestures)
    OBVIOUS
  <2>2. a \in Structs
    BY <2>1 DEF Structs
  <2> QED
    BY <2>2 DEF Structs, SameRecog, SameKeys, Fewer, SameArm
<1>3. Drain(q, full) = f[n]
  BY DEF Drain
<1> HIDE DEF n, a
<1>4. \A i \in 1 .. n : \A x \in Structs : Sent(x, q.out[i], Dispatch(x, full, q.out[i]))
  BY <1>1, DispatchIs
<1>5. G \in [1 .. n -> [Structs -> Structs]]
  BY <1>4 DEF Sent
<1> HIDE DEF f, G
<1>6. \E h : IsLoop(h, Structs, n, a, G)
  BY <1>1, <1>2, <1>5, LoopRuns
<1>7. PICK h : IsLoop(h, Structs, n, a, G)
  BY <1>6
<1>8. ASSUME NEW i \in 1 .. n
      PROVE  h[i - 1] \in Structs /\ h[i] = Dispatch(h[i - 1], full, q.out[i])
  <2>1. i - 1 \in 0 .. n
    BY <1>1
  <2>2. h[i - 1] \in Structs /\ h[i] = G[i][h[i - 1]]
    BY <1>7, <2>1 DEF IsLoop
  <2> QED
    BY <2>2 DEF G
<1>9. h = [i \in 0 .. n |-> IF i = 0 THEN a ELSE Dispatch(h[i - 1], full, q.out[i])]
  BY <1>1, <1>7, <1>8 DEF IsLoop
<1>10. f = [i \in 0 .. n |-> IF i = 0 THEN a ELSE Dispatch(f[i - 1], full, q.out[i])]
  BY <1>9 DEF f
<1> DEFINE Ok(i) == Drained(q, f[i])
           Holds == {i \in 0 .. n : Ok(i)}
<1>11. 0 \in Holds
  BY <1>1, <1>2, <1>10 DEF Drained
<1>12. ASSUME NEW i \in 1 .. n, i - 1 \in Holds PROVE i \in Holds
  <2>1. i \in 0 .. n /\ i # 0 /\ i - 1 \in 0 .. n
    BY <1>1
  <2>2. f[i] = Dispatch(f[i - 1], full, q.out[i])
    BY <2>1, <1>10
  <2>3. Drained(q, f[i - 1])
    BY <1>12
  <2>4. f[i - 1] \in Structs
    BY <2>3 DEF Drained
  <2>5. Sent(f[i - 1], q.out[i], f[i])
    BY <1>4, <2>2, <2>4
  <2> DEFINE x == f[i - 1]
             r == f[i]
  <2>6. Drained(q, x) /\ Sent(x, q.out[i], r)
    BY <2>3, <2>5
  <2> HIDE DEF x, r
  <2>7. Fewer(q, r)
    BY <2>6 DEF Drained, Sent, Fewer
  <2>8. SameRecog(q, r)
    BY <2>6 DEF Drained, Sent, SameRecog, SameKeys
  <2>9. SameArm(q, r) \/ (Said(q) /\ Arms(r))
    <3>1. CASE SameArm(x, r)
      BY <3>1, <2>6 DEF Drained, Sent, SameArm, Arms, Unclaimed, Fewer
    <3>2. CASE q.out[i] = PowerLong /\ Arms(r)
      <4>1. Said(q)
        BY <3>2 DEF Said, n
      <4> QED
        BY <3>2, <4>1
    <3> QED
      BY <3>1, <3>2, <2>6 DEF Sent
  <2>10. Drained(q, r)
    BY <2>6, <2>7, <2>8, <2>9 DEF Drained, Sent
  <2> QED
    BY <2>1, <2>10 DEF r
<1>13. n \in Holds
  <2> HIDE DEF Holds
  <2> QED
    BY <1>1, <1>11, <1>12, LoopKeeps
<1> QED
  BY <1>3, <1>13

-----------------------------------------------------------------------------
(* A key event.                                                             *)

\* r is q, and b is in the set with its press and out of it with its release.
Tracks(old, new, ev) ==
    new = IF ev.down THEN old \cup {ev.button} ELSE old \ {ev.button}

\* server_pass_key
Passes(q, ev, r) ==
    /\ r \in Structs /\ Shows(r) /\ r.out = q.out /\ Tracks(q.ptDown, r.ptDown, ev)
    /\ r.down = q.down /\ r.consumed = q.consumed /\ r.pending = q.pending /\ r.taps = q.taps
    /\ r.age = q.age /\ r.left = q.left /\ r.owed = q.owed /\ r.bogus = q.bogus
    /\ r.poSame = q.poSame /\ SamePower(q, r)

\* The deadlines have passed: recog_tick and server_drain.
Settled(q, r) ==
    /\ r \in Structs /\ Recog(r) /\ r.out = <<>> /\ SameKeys(q, r) /\ Fewer(q, r)
    /\ r.down = q.down /\ r.age = q.age /\ r.length = q.length /\ r.off = q.off
    /\ SameArm(q, r) \/ (Arms(r) /\ "power" \in q.down /\ q.age["power"] >= Long)

\* The rest of server_key.
Handled(q, ev, r) ==
    /\ r \in Structs /\ Recog(r) /\ r.out = <<>> /\ SameKeys(q, r) /\ Fewer(q, r)
    /\ Tracks(q.down, r.down, ev) /\ r.off = q.off
    /\ r.age["power"] \in {q.age["power"], 0}
    /\ ev.button # "power" => r.age["power"] = q.age["power"]
    /\ "power" \in r.down \ q.down => r.age["power"] = 0
    /\ \/ /\ r.po = q.po /\ r.poAge = q.poAge
          /\ r.poSame <=> (q.poSame /\ ~(ev.button = "power" /\ ev.down /\ "power" \notin q.down))
       \/ ev.button = "power" /\ ~ev.down /\ Arms(r)
    /\ r.length = IF ev.button = "power" /\ ~ev.down /\ q.poSame THEN ev.length ELSE q.length

\* server_pass_key keeps what chef-buttons shows within what is down.
LEMMA PassKeyIs ==
    ASSUME NEW q \in Structs, Shows(q), NEW ev \in KeyEvents
    PROVE  Passes(q, ev, PassKey(q, ev))
<1> DEFINE b == ev.button
           pass == Passed(q, b) \/ (ev.down /\ b \notin q.ptDown /\ ~Claimed(q, b))
           d == IF ev.down THEN q.ptDown \cup {b} ELSE q.ptDown \ {b}
           p == IF ev.down /\ pass THEN q.ptPass \cup {b} ELSE q.ptPass \ {b}
           v == IF pass THEN IF ev.down THEN q.virt \cup {b} ELSE q.virt \ {b} ELSE q.virt
           r == PassKey(q, ev)
<1>1. r = [q EXCEPT !.ptDown = d, !.ptPass = p, !.virt = v]
  BY DEF PassKey, Structs
<1>2. b \in Buttons /\ q.ptDown \subseteq Buttons /\ q.ptPass \subseteq Buttons
      /\ q.virt \subseteq Buttons /\ q.virt = q.ptPass /\ q.ptPass \subseteq q.ptDown
  BY DEF KeyEvents, Structs, Shows
<1>3. d \in SUBSET Buttons /\ p \in SUBSET Buttons /\ v \in SUBSET Buttons
  BY <1>2
<1>4. v = p /\ p \subseteq d
  <2>1. CASE pass
    <3>1. ~ev.down => Passed(q, b)
      BY <2>1
    <3> QED
      BY <1>2, <2>1
  <2>2. CASE ~pass /\ ev.down
    <3>1. b \notin q.ptPass
      BY <1>2, <2>2 DEF Passed, Claimed
    <3> QED
      BY <1>2, <2>2, <3>1
  <2>3. CASE ~pass /\ ~ev.down
    <3>1. b \notin q.ptPass
      BY <1>2, <2>3 DEF Passed
    <3> QED
      BY <1>2, <2>3, <3>1
  <2> QED
    BY <2>1, <2>2, <2>3
<1>5. Tracks(q.ptDown, d, ev)
  BY DEF Tracks
<1> HIDE DEF d, p, v, r
<1>6. r \in Structs
  BY <1>1, <1>3 DEF Structs
<1>7. r.ptDown = d /\ r.ptPass = p /\ r.virt = v /\ r.out = q.out
      /\ r.down = q.down /\ r.consumed = q.consumed /\ r.pending = q.pending /\ r.taps = q.taps
      /\ r.age = q.age /\ r.left = q.left /\ r.owed = q.owed /\ r.bogus = q.bogus
      /\ r.poSame = q.poSame /\ SamePower(q, r)
  BY <1>1 DEF Structs, SamePower
<1>8. Passes(q, ev, r)
  BY <1>4, <1>5, <1>6, <1>7 DEF Passes, Shows
<1> QED
  BY <1>8 DEF r

\* The deadlines that have passed fire, and with power.long the power-off may arm.
LEMMA SettleIs ==
    ASSUME NEW q \in Structs, Recog(q), q.out = <<>>, NEW full
    PROVE  Settled(q, Drain(RecogTick(q), full))
<1> DEFINE t == RecogTick(q)
           r == Drain(t, full)
<1>1. t \in Structs /\ Recog(t) /\ Ticked(q, t)
  BY TickIs
<1> HIDE DEF t
<1>2. Drained(t, r)
  BY <1>1, DrainIs
<1> HIDE DEF r
<1>3. Recog(r)
  BY <1>1, <1>2, RecogStays DEF Drained
<1>4. ~Said(q)
  BY DEF Said
<1>5. SameArm(t, r) => SameArm(q, r)
  BY <1>1 DEF Ticked, SamePower, SameArm
<1>6. Fewer(q, r)
  BY <1>1, <1>2 DEF Ticked, SamePower, Fewer, Drained
<1>7. Settled(q, r)
  <2>1. r \in Structs /\ r.out = <<>>
    BY <1>2 DEF Drained
  <2>2. r.down = q.down /\ r.age = q.age /\ r.length = q.length /\ r.off = q.off /\ SameKeys(q, r)
    BY <1>1, <1>2 DEF Drained, Ticked, SameRecog, SameKeys, SamePower
  <2>3. SameArm(q, r) \/ (Arms(r) /\ "power" \in q.down /\ q.age["power"] >= Long)
    BY <1>1, <1>2, <1>4, <1>5 DEF Drained, Ticked
  <2> QED
    BY <1>3, <1>6, <2>1, <2>2, <2>3 DEF Settled
<1> QED
  BY <1>7 DEF r, t

\* server_key, with the state between its two halves.
LEMMA KeyIs ==
    ASSUME NEW q \in Structs, Recog(q), q.out = <<>>, NEW full, NEW ev \in KeyEvents
    PROVE  \E now : Settled(q, now) /\ Handled(now, ev, Key(q, full, ev))
<1> DEFINE b == ev.button
           now == Drain(RecogTick(q), full)
           h == IF ev.down THEN Press(now, b) ELSE Release(now, b)
           told == IF (b \in now.down) # (b \in h.down) THEN SendKey(h, full, b) ELSE h
           l == IF b = "power" /\ ~ev.down /\ h.poSame THEN ev.length ELSE told.length
           m == [told EXCEPT !.length = l]
           r == Key(q, full, ev)
<1>1. Settled(q, now)
  BY SettleIs
<1>2. r = Drain(m, full)
  BY DEF Key
<1>3. b \in Buttons /\ ev.down \in BOOLEAN /\ ev.length \in Lengths
  BY DEF KeyEvents
<1> HIDE DEF now
<1>4. now \in Structs /\ Recog(now) /\ now.out = <<>>
  BY <1>1 DEF Settled
<1>5. ~Said(now)
  BY <1>4 DEF Said
<1>6. /\ Fed(now, h, b) /\ Tracks(now.down, h.down, ev)
      /\ h.poSame <=> (now.poSame /\ ~(b = "power" /\ ev.down /\ b \notin now.down))
      /\ Said(h) => b = "power" /\ ~ev.down
  <2>1. CASE ev.down
    <3>1. h = Press(now, b)
      BY <2>1
    <3> HIDE DEF h
    <3>2. /\ Fed(now, h, b) /\ h.down = now.down \cup {b}
          /\ h.poSame <=> (now.poSame /\ ~(b = "power" /\ b \notin now.down))
          /\ Said(h) => Said(now)
      BY <1>3, <1>4, <3>1, PressIs
    <3> QED
      BY <1>5, <2>1, <3>2 DEF Tracks
  <2>2. CASE ~ev.down
    <3>1. h = Release(now, b)
      BY <2>2
    <3> HIDE DEF h
    <3>2. /\ Fed(now, h, b) /\ h.down = now.down \ {b} /\ h.poSame = now.poSame
          /\ Said(h) => Said(now) \/ b = "power"
      BY <1>3, <1>4, <3>1, ReleaseIs
    <3> QED
      BY <1>5, <2>2, <3>2 DEF Tracks
  <2> QED
    BY <2>1, <2>2
<1> HIDE DEF h
<1>7. Told(h, told)
  <2>1. h \in Structs
    BY <1>6 DEF Fed
  <2>2. CASE told = h
    BY <2>1, <2>2 DEF Told, Fewer, SameRecog, SameKeys, SameArm
  <2> QED
    BY <2>1, <2>2, SendKeyIs
<1> HIDE DEF told
<1>8. l \in Lengths
  BY <1>3, <1>7 DEF Told, Structs
<1>9. m \in Structs /\ m.length = l /\ m.out = told.out /\ m.claims = told.claims
      /\ m.po = told.po /\ m.poAge = told.poAge /\ m.poSame = told.poSame /\ m.off = told.off
      /\ m.down = told.down /\ m.age = told.age /\ SameKeys(told, m)
  <2> HIDE DEF l
  <2> QED
    BY <1>7, <1>8 DEF Told, Structs, SameKeys
<1>10. Recog(m)
  <2>1. Recog(h)
    BY <1>6 DEF Fed
  <2>2. Recog(told)
    BY <1>7, <2>1, RecogStays DEF Told
  <2>3. m.down = told.down /\ m.consumed = told.consumed /\ m.pending = told.pending
        /\ m.taps = told.taps /\ m.owed = told.owed /\ m.bogus = told.bogus
    BY <1>7 DEF Told, Structs
  <2> QED
    BY <2>2, <2>3 DEF Recog, Answered
<1>11. l = IF b = "power" /\ ~ev.down /\ now.poSame THEN ev.length ELSE now.length
  BY <1>6, <1>7 DEF Told, SameRecog, Fed, SamePower
<1> HIDE DEF m, l, r
<1>12. Drained(m, r)
  BY <1>2, <1>9, DrainIs
<1>13. Recog(r) /\ r \in Structs /\ r.out = <<>>
  BY <1>10, <1>12, RecogStays DEF Drained
<1>14. r.down = h.down /\ r.age = h.age /\ r.length = l /\ r.off = now.off /\ SameKeys(now, r)
  BY <1>6, <1>7, <1>9, <1>12 DEF Fed, Told, Drained, SameRecog, SameKeys, SamePower
<1>15. Fewer(now, r)
  BY <1>6, <1>7, <1>9, <1>12 DEF Fed, Told, Drained, Fewer, SamePower
<1>16. m.po = now.po /\ m.poAge = now.poAge /\ m.poSame = h.poSame
  BY <1>6, <1>7, <1>9 DEF Fed, Told, SamePower, SameArm
<1>17. Said(m) => b = "power" /\ ~ev.down
  BY <1>6, <1>7, <1>9 DEF Told, Said
<1>18. \/ /\ r.po = now.po /\ r.poAge = now.poAge
          /\ r.poSame <=> (now.poSame /\ ~(b = "power" /\ ev.down /\ "power" \notin now.down))
       \/ b = "power" /\ ~ev.down /\ Arms(r)
  <2>1. CASE SameArm(m, r)
    BY <1>6, <1>16, <2>1 DEF SameArm
  <2>2. CASE Said(m) /\ Arms(r)
    BY <1>17, <2>2
  <2> QED
    BY <1>12, <2>1, <2>2 DEF Drained
<1>19. Handled(now, ev, r)
  <2>1. r.age["power"] \in {now.age["power"], 0} /\ (b # "power" => r.age["power"] = now.age["power"])
    BY <1>6, <1>14 DEF Fed
  <2>2. Tracks(now.down, r.down, ev) /\ ("power" \in r.down \ now.down => r.age["power"] = 0)
    BY <1>6, <1>14 DEF Fed
  <2> QED
    BY <1>11, <1>13, <1>14, <1>15, <1>18, <2>1, <2>2 DEF Handled
<1> QED
  BY <1>1, <1>19 DEF r


-----------------------------------------------------------------------------
(* From one event to the next.                                              *)

\* A client that is still there may only lose claims, and the power-off arms only unclaimed.
Onward(q, r) == Fewer(q, r) /\ (r.po = q.po \/ (r.po = "armed" /\ Unclaimed(r)))

\* An event was handled: server_pass_key, then the two halves of server_key.
Heard(q, ev, r) == \E p, now : Passes(q, ev, p) /\ Settled(p, now) /\ Handled(now, ev, r)

\* The press or the release at i is the next event of its button, and of no other.
LEMMA ShiftIs ==
    ASSUME NEW evs \in Seq(KeyEvents), NEW i \in 1 .. Len(evs), NEW b
    PROVE  /\ evs[i].button = b => NextIs(evs, i - 1, b, i) /\ ~NoMore(evs, i - 1, b)
           /\ evs[i].button # b =>
                 /\ NoMore(evs, i, b) => NoMore(evs, i - 1, b)
                 /\ NoMore(evs, i - 1, b) => NoMore(evs, i, b)
                 /\ \A j : NextIs(evs, i, b, j) => NextIs(evs, i - 1, b, j)
<1>1. Len(evs) \in Nat /\ i - 1 \in Nat /\ i \in (i - 1) + 1 .. Len(evs)
  OBVIOUS
<1>2. CASE evs[i].button = b
  <2>1. (i - 1) + 1 .. i - 1 = {}
    BY <1>1
  <2>2. NextIs(evs, i - 1, b, i)
    BY <1>1, <1>2, <2>1 DEF NextIs
  <2>3. ~NoMore(evs, i - 1, b)
    BY <1>1, <1>2 DEF NoMore
  <2> QED
    BY <1>2, <2>2, <2>3
<1>3. CASE evs[i].button # b
  <2>1. \A j \in (i - 1) + 1 .. Len(evs) : j = i \/ j \in i + 1 .. Len(evs)
    BY <1>1
  <2>2. \A j \in i + 1 .. Len(evs) : j \in (i - 1) + 1 .. Len(evs)
    BY <1>1
  <2>3. ASSUME NEW j, NextIs(evs, i, b, j) PROVE NextIs(evs, i - 1, b, j)
    <3>1. j \in i + 1 .. Len(evs) /\ \A k \in i + 1 .. j - 1 : evs[k].button # b
      BY <2>3 DEF NextIs
    <3>2. \A k \in (i - 1) + 1 .. j - 1 : k = i \/ k \in i + 1 .. j - 1
      BY <1>1, <3>1
    <3> QED
      BY <1>3, <2>2, <2>3, <3>1, <3>2 DEF NextIs
  <2> QED
    BY <1>3, <2>1, <2>2, <2>3 DEF NoMore
<1> QED
  BY <1>2, <1>3

\* No event of b after the first: then no event of b comes next.
LEMMA NoneIsNext ==
    ASSUME NEW evs, NEW i, NEW b, NoMore(evs, i, b), NEW j
    PROVE  ~NextIs(evs, i, b, j)
  BY DEF NoMore, NextIs

\* An armed power-off follows a press that has gone on for long_ms by now.
LEMMA SettledKnown ==
    ASSUME NEW q \in Structs, NEW now, Settled(q, now), NEW evs, NEW i, NEW held_down,
           NEW time \in Nat, Known(q, evs, i, held_down, time)
    PROVE  Known(now, evs, i, held_down, time)
<1>1. CASE SameArm(q, now)
  BY <1>1 DEF Known, Follows, Lasts, Settled, SameArm
<1>2. CASE Arms(now) /\ "power" \in q.down /\ q.age["power"] >= Long
  <2>1. Long \in Nat /\ q.age["power"] \in Nat
    BY Basics DEF Structs
  <2>2. Follows(now, evs, i, held_down)
    BY <1>2 DEF Known, Follows, Settled
  <2>3. now.po = "armed" /\ now.poAge = 0 /\ now.age = q.age /\ now.down = q.down
    BY <1>2 DEF Arms, Settled
  <2>4. NoMore(evs, i, "power") => time >= q.age["power"]
    BY <1>2 DEF Known, Lasts
  <2>5. NoMore(evs, i, "power") => time >= Long + 0
    BY <1>2, <2>1, <2>4
  <2>6. Lasts(now, evs, i, time)
    BY <2>3, <2>4, <2>5 DEF Lasts
  <2> QED
    BY <2>2, <2>6 DEF Known
<1> QED
  BY <1>1, <1>2 DEF Settled

\* The same at the end of the round, of a release that came after the reading.
LEMMA SettledNotLate ==
    ASSUME NEW q \in Structs, NEW now, Settled(q, now), NEW evs \in Seq(KeyEvents),
           NEW lag \in Nat, NotLate(q, evs, lag)
    PROVE  NotLate(now, evs, lag)
<1> SUFFICES ASSUME "power" \in now.down,
                    NEW j \in 1 .. Len(evs), NextIs(evs, 0, "power", j)
             PROVE  /\ evs[j].length + lag >= now.age["power"]
                    /\ now.po = "armed" /\ now.poSame => evs[j].length + lag >= Long + now.poAge
  BY DEF NotLate
<1>1. Long \in Nat /\ q.age["power"] \in Nat /\ evs[j].length \in Nat
  <2>1. evs[j] \in KeyEvents
    OBVIOUS
  <2>2. evs[j].length \in Nat
    BY <2>1, Basics DEF KeyEvents, Lengths
  <2>3. q.age["power"] \in Nat
    BY Basics DEF Structs
  <2> QED
    BY <2>2, <2>3, Basics
<1>2. /\ evs[j].length + lag >= q.age["power"]
      /\ q.po = "armed" /\ q.poSame => evs[j].length + lag >= Long + q.poAge
  BY DEF NotLate, Settled
<1>3. CASE SameArm(q, now)
  BY <1>2, <1>3 DEF Settled, SameArm
<1>4. CASE Arms(now) /\ q.age["power"] >= Long
  <2>1. now.poAge = 0 /\ now.age = q.age
    BY <1>4 DEF Arms, Settled
  <2>2. evs[j].length + lag >= Long + 0
    BY <1>1, <1>2, <1>4
  <2> QED
    BY <1>2, <2>1, <2>2
<1> QED
  BY <1>3, <1>4 DEF Settled

\* An event of another button tells nothing of the power press.
LEMMA OtherKnown ==
    ASSUME NEW q, NEW r, NEW evs \in Seq(KeyEvents), NEW i \in 1 .. Len(evs),
           Handled(q, evs[i], r), evs[i].button # "power",
           NEW held_down, NEW time, Known(q, evs, i - 1, held_down, time)
    PROVE  Known(r, evs, i, held_down, time)
<1> DEFINE ev == evs[i]
<1>1. /\ NoMore(evs, i, "power") => NoMore(evs, i - 1, "power")
      /\ \A j : NextIs(evs, i, "power", j) => NextIs(evs, i - 1, "power", j)
  BY ShiftIs
<1>2. "power" \in r.down <=> "power" \in q.down
  BY DEF Handled, Tracks
<1>3. r.age["power"] = q.age["power"] /\ r.po = q.po /\ r.poAge = q.poAge
      /\ (r.poSame <=> q.poSame) /\ r.length = q.length
  BY DEF Handled
<1>4. Follows(r, evs, i, held_down)
  BY <1>1, <1>2, <1>3 DEF Known, Follows
<1>5. Lasts(r, evs, i, time)
  BY <1>1, <1>2, <1>3 DEF Known, Lasts
<1> QED
  BY <1>4, <1>5 DEF Known

\* A press of power is not one that the power-off follows; a release says how long it was.
LEMMA PowerKnown ==
    ASSUME NEW q, NEW r, NEW evs \in Seq(KeyEvents), NEW i \in 1 .. Len(evs),
           Handled(q, evs[i], r), evs[i].button = "power",
           NEW held_down, Honest(evs, held_down),
           NEW time \in Nat, Known(q, evs, i - 1, held_down, time)
    PROVE  Known(r, evs, i, held_down, time)
<1> DEFINE ev == evs[i]
<1>1. NextIs(evs, i - 1, "power", i)
  BY ShiftIs
<1>2. /\ "power" \in q.down => ~ev.down
      /\ q.poSame /\ "power" \notin q.down => ev.down
  BY <1>1 DEF Known, Follows
<1>3. /\ NoMore(evs, i, "power") => (ev.down <=> "power" \in held_down)
      /\ \A j \in 1 .. Len(evs) : NextIs(evs, i, "power", j) => evs[j].down # ev.down
  BY DEF Honest
<1>4. ev.down \in BOOLEAN /\ \A j \in 1 .. Len(evs) : evs[j].down \in BOOLEAN
  <2>1. \A j \in 1 .. Len(evs) : evs[j] \in KeyEvents
    OBVIOUS
  <2> QED
    BY <2>1 DEF KeyEvents
<1>5. CASE ev.down
  <2>1. "power" \notin q.down /\ "power" \in r.down /\ r.po = q.po /\ r.length = q.length
        /\ ~r.poSame /\ r.age["power"] = 0
    BY <1>2, <1>5 DEF Handled, Tracks
  <2>2. Follows(r, evs, i, held_down)
    BY <1>3, <1>4, <1>5, <2>1 DEF Follows
  <2>3. Lasts(r, evs, i, time)
    BY <2>1 DEF Known, Lasts
  <2> QED
    BY <2>2, <2>3 DEF Known
<1>6. CASE ~ev.down
  <2>1. "power" \notin r.down
    BY <1>6 DEF Handled, Tracks
  <2>2. Follows(r, evs, i, held_down)
    BY <1>3, <1>4, <1>6, <2>1 DEF Follows
  <2>3. r.po = "ready" => q.po = "ready" /\ (r.length = IF q.poSame THEN ev.length ELSE q.length)
    BY <1>6 DEF Handled, Arms
  <2>4. r.po = "ready" => r.length + Stall >= Long + Hold
    <3> SUFFICES ASSUME r.po = "ready" PROVE r.length + Stall >= Long + Hold
      OBVIOUS
    <3>1. CASE q.poSame
      <4>1. "power" \in q.down
        BY <1>2, <1>6, <3>1
      <4> QED
        BY <1>1, <2>3, <3>1, <4>1 DEF Known, Lasts
    <3>2. CASE ~q.poSame
      BY <2>3, <3>2 DEF Known, Lasts
    <3> QED
      BY <3>1, <3>2
  <2>5. Lasts(r, evs, i, time)
    BY <2>1, <2>4 DEF Lasts
  <2> QED
    BY <2>2, <2>5 DEF Known
<1> QED
  BY <1>5, <1>6

\* A key that the pass-through knows as down is held, or its release is still to be read.
LEMMA HeardShown ==
    ASSUME NEW q, NEW r, NEW evs \in Seq(KeyEvents), NEW i \in 1 .. Len(evs),
           Tracks(q.ptDown, r.ptDown, evs[i]), NEW held_down, Honest(evs, held_down),
           NEW d, Shown(q, evs, i - 1, held_down, d)
    PROVE  Shown(r, evs, i, held_down, d)
<1> SUFFICES ASSUME NEW b \in Buttons, DeviceOf(b) = d, b \in r.ptDown, NoMore(evs, i, b)
             PROVE  b \in held_down
  BY DEF Shown
<1>1. CASE b = evs[i].button
  <2>1. evs[i].down
    BY <1>1 DEF Tracks
  <2> QED
    BY <1>1, <2>1 DEF Honest
<1>2. CASE b # evs[i].button
  <2>1. NoMore(evs, i - 1, b) /\ b \in q.ptDown
    BY <1>2, ShiftIs DEF Tracks
  <2> QED
    BY <2>1 DEF Shown
<1> QED
  BY <1>1, <1>2

\* The three parts of a key event, from one sound struct to the next.
LEMMA EventIs ==
    ASSUME NEW q \in Sounds, q.out = <<>>, NEW full, NEW ev \in KeyEvents
    PROVE  Heard(q, ev, Event(q, full, ev))
<1> DEFINE p == PassKey(q, ev)
           r == Key(p, full, ev)
<1>1. q \in Structs /\ Recog(q) /\ Shows(q)
  BY DEF Sounds
<1>2. Passes(q, ev, p)
  BY <1>1, PassKeyIs
<1>3. Event(q, full, ev) = r
  BY DEF Event
<1> HIDE DEF p
<1>4. p \in Structs /\ p.out = <<>> /\ Recog(p)
  BY <1>1, <1>2 DEF Passes, Recog, Answered
<1>5. \E now : Settled(p, now) /\ Handled(now, ev, r)
  BY <1>4, KeyIs
<1> QED
  BY <1>2, <1>3, <1>5 DEF Heard

\* Onward, and onward again.
LEMMA OnwardTwice ==
    ASSUME NEW q, NEW m, NEW r, Onward(q, m), Onward(m, r)
    PROVE  Onward(q, r)
<1>1. Fewer(q, r)
  BY DEF Onward, Fewer
<1>2. r.po = m.po /\ Unclaimed(m) => Unclaimed(r)
  BY DEF Onward, Fewer, Unclaimed
<1> QED
  BY <1>1, <1>2 DEF Onward

\* An event leaves a sound struct sound, and its claims and power-off go onward.
LEMMA HeardIs ==
    ASSUME NEW q \in Sounds, NEW ev \in KeyEvents, NEW r, Heard(q, ev, r)
    PROVE  /\ r \in Sounds /\ r.out = <<>> /\ r.off = q.off
           /\ Tracks(q.ptDown, r.ptDown, ev) /\ Onward(q, r)
<1>1. PICK p, now : Passes(q, ev, p) /\ Settled(p, now) /\ Handled(now, ev, r)
  BY DEF Heard
<1>2. SameKeys(p, r)
  BY <1>1 DEF Settled, Handled, SameKeys
<1>3. r \in Sounds /\ r.out = <<>>
  BY <1>1, <1>2 DEF Sounds, Handled, Passes, Shows, SameKeys
<1>4. r.off = q.off /\ Tracks(q.ptDown, r.ptDown, ev)
  BY <1>1, <1>2 DEF Passes, Settled, Handled, SamePower, SameKeys
<1>5. Onward(q, p)
  BY <1>1 DEF Passes, SamePower, Onward, Fewer
<1>6. Onward(p, now)
  BY <1>1 DEF Settled, SameArm, Arms, Onward
<1>7. Onward(now, r)
  BY <1>1 DEF Handled, Arms, Onward
<1>8. Onward(p, r)
  BY <1>6, <1>7, OnwardTwice
<1>9. Onward(q, r)
  BY <1>5, <1>8, OnwardTwice
<1> QED
  BY <1>3, <1>4, <1>9

\* What is known of the power press before an event, is known after it.
LEMMA HeardKnown ==
    ASSUME NEW q \in Sounds, NEW evs \in Seq(KeyEvents), NEW i \in 1 .. Len(evs),
           NEW r, Heard(q, evs[i], r), NEW held_down, Honest(evs, held_down),
           NEW time \in Nat, Known(q, evs, i - 1, held_down, time)
    PROVE  Known(r, evs, i, held_down, time)
<1>1. PICK p, now : Passes(q, evs[i], p) /\ Settled(p, now) /\ Handled(now, evs[i], r)
  BY DEF Heard
<1>2. p.down = q.down /\ p.age = q.age /\ p.poSame = q.poSame /\ SamePower(q, p) /\ p \in Structs
  BY <1>1 DEF Passes
<1>3. Known(p, evs, i - 1, held_down, time)
  BY <1>2 DEF Known, Follows, Lasts, SamePower
<1>4. Known(now, evs, i - 1, held_down, time)
  BY <1>1, <1>2, <1>3, SettledKnown
<1>5. CASE evs[i].button = "power"
  BY <1>1, <1>4, <1>5, PowerKnown
<1>6. CASE evs[i].button # "power"
  BY <1>1, <1>4, <1>6, OtherKnown
<1> QED
  BY <1>5, <1>6

\* The first i events of device d have been read from q, with r as the result.
Reads(q, evs, i, held_down, time, d, r) ==
    /\ r \in Sounds /\ r.out = <<>> /\ r.off = q.off /\ Onward(q, r)
    /\ Known(r, evs, i, held_down, time) /\ Shown(r, evs, i, held_down, d)
    /\ \A b \in Buttons : DeviceOf(b) # d => (b \in r.ptDown <=> b \in q.ptDown)

\* One event more.
LEMMA ReadsOne ==
    ASSUME NEW q \in Sounds, NEW evs \in Seq(KeyEvents), NEW i \in 1 .. Len(evs), NEW d,
           DeviceOf(evs[i].button) = d, NEW held_down, Honest(evs, held_down),
           NEW time \in Nat, NEW x, Reads(q, evs, i - 1, held_down, time, d, x), NEW full
    PROVE  Reads(q, evs, i, held_down, time, d, Event(x, full, evs[i]))
<1> DEFINE ev == evs[i]
           r == Event(x, full, evs[i])
<1>1. ev \in KeyEvents
  OBVIOUS
<1>2. x \in Sounds /\ x.out = <<>> /\ x.off = q.off /\ Onward(q, x)
  BY DEF Reads
<1>3. Heard(x, ev, r)
  BY <1>1, <1>2, EventIs
<1> HIDE DEF r
<1>4. r \in Sounds /\ r.out = <<>> /\ r.off = x.off
      /\ Tracks(x.ptDown, r.ptDown, ev) /\ Onward(x, r)
  BY <1>1, <1>2, <1>3, HeardIs
<1>5. Known(r, evs, i, held_down, time)
  BY <1>2, <1>3, HeardKnown DEF Reads
<1>6. Shown(r, evs, i, held_down, d)
  BY <1>4, HeardShown DEF Reads
<1>7. Onward(q, r)
  BY <1>2, <1>4, OnwardTwice
<1>8. \A b \in Buttons : DeviceOf(b) # d => (b \in r.ptDown <=> b \in q.ptDown)
  BY <1>4 DEF Reads, Tracks
<1>9. Reads(q, evs, i, held_down, time, d, r)
  BY <1>2, <1>4, <1>5, <1>6, <1>7, <1>8 DEF Reads
<1> QED
  BY <1>9 DEF r

\* The loop over what was read of a device ends, with all of it heard.
LEMMA ReadEventsIs ==
    ASSUME NEW q \in Sounds, q.out = <<>>, NEW full, NEW evs \in Seq(KeyEvents), NEW d,
           \A i \in 1 .. Len(evs) : DeviceOf(evs[i].button) = d,
           NEW held_down, Honest(evs, held_down), Shown(q, evs, 0, held_down, d),
           NEW time \in Nat, Known(q, evs, 0, held_down, time)
    PROVE  Reads(q, evs, Len(evs), held_down, time, d, ReadEvents(q, full, evs))
<1> DEFINE n == Len(evs)
           S == {x \in Sounds : x.out = <<>>}
           f == CHOOSE f : f = [i \in 0 .. n |-> IF i = 0 THEN q ELSE Event(f[i - 1], full, evs[i])]
           G == [i \in 1 .. n |-> [x \in S |-> Event(x, full, evs[i])]]
<1>1. n \in Nat /\ \A i \in 1 .. n : evs[i] \in KeyEvents
  OBVIOUS
<1>2. q \in S
  OBVIOUS
<1>3. ReadEvents(q, full, evs) = f[n]
  BY DEF ReadEvents
<1>4. \A i \in 1 .. n : \A x \in S : Event(x, full, evs[i]) \in S
  <2> SUFFICES ASSUME NEW i \in 1 .. n, NEW x \in S PROVE Event(x, full, evs[i]) \in S
    OBVIOUS
  <2>1. evs[i] \in KeyEvents /\ x \in Sounds /\ x.out = <<>>
    BY <1>1
  <2>2. Heard(x, evs[i], Event(x, full, evs[i]))
    BY <2>1, EventIs
  <2> QED
    BY <2>1, <2>2, HeardIs
<1> HIDE DEF n, S
<1>5. G \in [1 .. n -> [S -> S]]
  BY <1>4
<1> HIDE DEF f, G
<1>6. \E h : IsLoop(h, S, n, q, G)
  BY <1>1, <1>2, <1>5, LoopRuns
<1>7. PICK h : IsLoop(h, S, n, q, G)
  BY <1>6
<1>8. ASSUME NEW i \in 1 .. n
      PROVE  h[i] = Event(h[i - 1], full, evs[i])
  <2>1. i - 1 \in 0 .. n
    BY <1>1
  <2>2. h[i - 1] \in S /\ h[i] = G[i][h[i - 1]]
    BY <1>7, <2>1 DEF IsLoop
  <2> QED
    BY <2>2 DEF G
<1>9. h = [i \in 0 .. n |-> IF i = 0 THEN q ELSE Event(h[i - 1], full, evs[i])]
  BY <1>1, <1>7, <1>8 DEF IsLoop
<1>10. f = [i \in 0 .. n |-> IF i = 0 THEN q ELSE Event(f[i - 1], full, evs[i])]
  BY <1>9 DEF f
<1> DEFINE Ok(i) == Reads(q, evs, i, held_down, time, d, f[i])
           Holds == {i \in 0 .. n : Ok(i)}
<1>11. 0 \in Holds
  <2>1. f[0] = q /\ 0 \in 0 .. n
    BY <1>1, <1>10
  <2>2. Reads(q, evs, 0, held_down, time, d, q)
    BY DEF Reads, Onward, Fewer
  <2> QED
    BY <2>1, <2>2
<1>12. ASSUME NEW i \in 1 .. n, i - 1 \in Holds PROVE i \in Holds
  <2>1. i \in 0 .. n /\ i # 0 /\ i - 1 \in 0 .. n /\ i \in 1 .. Len(evs)
    BY <1>1 DEF n
  <2>2. f[i] = Event(f[i - 1], full, evs[i])
    BY <2>1, <1>10
  <2>3. Reads(q, evs, i - 1, held_down, time, d, f[i - 1])
    BY <1>12
  <2>4. Reads(q, evs, i, held_down, time, d, f[i])
    BY <2>1, <2>2, <2>3, ReadsOne
  <2> QED
    BY <2>1, <2>4
<1>13. n \in Holds
  <2> HIDE DEF Holds
  <2> QED
    BY <1>1, <1>11, <1>12, LoopKeeps
<1>14. Reads(q, evs, n, held_down, time, d, f[n])
  BY <1>13
<1> QED
  BY <1>3, <1>14 DEF n

-----------------------------------------------------------------------------
(* The steps.                                                               *)

\* The empty queue says as much as one that was read to its end.
LEMMA AllRead ==
    ASSUME NEW q, NEW evs \in Seq(KeyEvents), NEW more \in Seq(KeyEvents), NEW held_down, NEW time,
           NoMore(more, 0, "power"), NEW i, NoMore(evs, i, "power"),
           Known(q, evs, i, held_down, time)
    PROVE  Known(q, more, 0, held_down, time)
<1>1. \A j : ~NextIs(more, 0, "power", j)
  BY NoneIsNext
<1>2. Follows(q, more, 0, held_down)
  BY <1>1 DEF Known, Follows
<1>3. Lasts(q, more, 0, time)
  BY <1>1 DEF Known, Lasts
<1> QED
  BY <1>2, <1>3 DEF Known

\* Fresh is sound, whatever is held.
LEMMA FreshIs ==
    ASSUME NEW evs, NEW held_down, NEW time \in Nat
    PROVE  /\ Fresh \in Sounds /\ Fresh.out = <<>> /\ ~Fresh.off /\ Fresh.po = "idle"
           /\ Known(Fresh, evs, 0, held_down, time)
           /\ \A d : Shown(Fresh, evs, 0, held_down, d)
<1>1. Fresh.down = {} /\ Fresh.ptDown = {} /\ ~Fresh.poSame /\ Fresh.po = "idle" /\ ~Fresh.off
      /\ Fresh.out = <<>>
  BY DEF Fresh
<1>2. Fresh \in Structs
  <2>1. [b \in Buttons |-> 0] \in [Buttons -> 0 .. 2] /\ [b \in Buttons |-> 0] \in [Buttons -> 0 .. Long]
        /\ [b \in Buttons |-> 0] \in [Buttons -> 0 .. Double] /\ 0 \in 0 .. Hold /\ 0 \in Lengths
    BY Basics DEF Lengths
  <2>2. [c \in Clients |-> {}] \in [Clients -> SUBSET Claimable] /\ <<>> \in Seq(Gestures)
    OBVIOUS
  <2> QED
    BY <2>1, <2>2 DEF Fresh, Structs
<1>3. Recog(Fresh) /\ Shows(Fresh)
  BY DEF Fresh, Recog, Answered, Shows
<1>4. Known(Fresh, evs, 0, held_down, time)
  BY <1>1 DEF Known, Follows, Lasts
<1>5. \A d : Shown(Fresh, evs, 0, held_down, d)
  BY <1>1 DEF Shown
<1> QED
  BY <1>1, <1>2, <1>3, <1>4, <1>5 DEF Sounds

\* Nothing is wrong with an empty queue.
LEMMA EmptyIs ==
    ASSUME NEW held_down
    PROVE  /\ <<>> \in Seq(KeyEvents) /\ Len(<<>>) = 0 /\ Honest(<<>>, held_down)
           /\ \A b : NoMore(<<>>, 0, b)
           /\ \A b, j : ~NextIs(<<>>, 0, b, j)
  BY DEF Honest, NoMore, NextIs

\* buttond starts.
LEMMA InitIInv == Init => IInv
<1> SUFFICES ASSUME Init PROVE IInv
  OBVIOUS
<1>1. held \in Nat /\ held \in Lengths
  BY Basics DEF Init, Lengths
<1>2. s = Fresh /\ \A d \in Devices : queue[d] = <<>>
  BY DEF Init
<1>3. queue \in [Devices -> Seq(KeyEvents)]
  BY EmptyIs DEF Init
<1>4. s \in Sounds /\ s.out = <<>> /\ ~s.off /\ Known(s, queue["pon"], 0, phys, held)
      /\ \A d \in Devices : Shown(s, queue[d], 0, phys, d)
  BY <1>1, <1>2, FreshIs, Basics
<1>5. \A d \in Devices : Honest(queue[d], phys) /\ 1 .. Len(queue[d]) = {}
  BY <1>2, EmptyIs
<1>6. 0 \in 0 .. Stall /\ 0 \in Nat
  BY Basics
<1> QED
  BY <1>1, <1>3, <1>4, <1>5, <1>6 DEF Init, IInv

\* It is started again.
LEMMA RestartStep ==
    ASSUME IInv, Restart
    PROVE  IInv' /\ s'.po = "idle"
<1>1. held \in Nat
  BY Basics DEF IInv, Lengths
<1>2. s' = Fresh /\ \A d \in Devices : queue'[d] = <<>>
  BY DEF Restart
<1>3. queue' \in [Devices -> Seq(KeyEvents)]
  BY EmptyIs DEF Restart
<1>4. phys' = phys /\ held' = held /\ pc' = "poll" /\ late' = 0 /\ 0 \in 0 .. Stall
  BY Basics DEF Restart, world
<1>5. s' \in Sounds /\ s'.out = <<>> /\ ~s'.off /\ Known(s', queue'["pon"], 0, phys', held')
      /\ s'.po = "idle" /\ \A d \in Devices : Shown(s', queue'[d], 0, phys', d)
  BY <1>1, <1>2, <1>4, FreshIs, Basics
<1>6. \A d \in Devices : Honest(queue'[d], phys') /\ 1 .. Len(queue'[d]) = {}
  BY <1>2, EmptyIs
<1>7. {presses', requests', restarts'} \subseteq Nat
  BY DEF IInv, Restart
<1> QED
  BY <1>3, <1>4, <1>5, <1>6, <1>7 DEF IInv

\* poll() returns, and every event is read.
LEMMA RoundStep ==
    ASSUME IInv, Round, requests' \in Nat
    PROVE  IInv' /\ Onward(s, s')
<1> DEFINE pon == queue["pon"]
           gpio == queue["gpio"]
<1>1. PICK full \in SUBSET Connected : s' = ReadEvents(ReadEvents(s, full, pon), full, gpio)
  BY DEF Round
<1> DEFINE m == ReadEvents(s, full, pon)
<1>2. pon \in Seq(KeyEvents) /\ gpio \in Seq(KeyEvents) /\ held \in Nat /\ held \in Lengths
      /\ "pon" \in Devices /\ "gpio" \in Devices
  BY Basics DEF IInv, Lengths
<1>3. /\ \A i \in 1 .. Len(pon) : DeviceOf(pon[i].button) = "pon"
      /\ \A i \in 1 .. Len(gpio) : DeviceOf(gpio[i].button) = "gpio"
      /\ Honest(pon, phys) /\ Honest(gpio, phys)
      /\ Shown(s, pon, 0, phys, "pon") /\ Shown(s, gpio, 0, phys, "gpio")
      /\ Known(s, pon, 0, phys, held) /\ s \in Sounds /\ s.out = <<>>
  BY <1>2 DEF IInv
<1> HIDE DEF pon, gpio
<1>4. Reads(s, pon, Len(pon), phys, held, "pon", m)
  BY <1>2, <1>3, ReadEventsIs
<1> HIDE DEF m
<1>5. m \in Sounds /\ m.out = <<>>
  BY <1>4 DEF Reads
<1>6. NoMore(gpio, 0, "power") /\ NoMore(pon, Len(pon), "power") /\ NoMore(gpio, Len(gpio), "power")
  <2>1. DeviceOf("power") = "pon" /\ Len(pon) \in Nat /\ Len(gpio) \in Nat
    BY <1>2, Basics
  <2>2. \A i \in 0 + 1 .. Len(gpio) : gpio[i].button # "power"
    BY <1>3, <2>1
  <2>3. Len(pon) + 1 .. Len(pon) = {} /\ Len(gpio) + 1 .. Len(gpio) = {}
    BY <2>1
  <2> QED
    BY <2>2, <2>3 DEF NoMore
<1>7. Known(m, gpio, 0, phys, held)
  BY <1>2, <1>4, <1>6, AllRead DEF Reads
<1>8. Shown(m, gpio, 0, phys, "gpio")
  BY <1>3, <1>4, "gpio" # "pon" DEF Reads, Shown
<1>9. Reads(m, gpio, Len(gpio), phys, held, "gpio", s')
  BY <1>1, <1>2, <1>3, <1>5, <1>7, <1>8, ReadEventsIs DEF m
<1>10. s' \in Sounds /\ s'.out = <<>> /\ s'.off = s.off /\ Onward(s, s')
  BY <1>4, <1>9, OnwardTwice DEF Reads
<1>11. phys' = phys /\ held' = held /\ pc' = "clients" /\ late' = 0 /\ ~s.off
       /\ presses' = presses /\ restarts' = restarts /\ \A d \in Devices : queue'[d] = <<>>
  BY DEF Round, world
<1>12. Known(s', <<>>, 0, phys, held)
  BY <1>2, <1>6, <1>9, AllRead, EmptyIs DEF Reads
<1>13. \A d \in Devices : Shown(s', <<>>, 0, phys, d)
  <2>1. \A b : NoMore(pon, Len(pon), b) /\ NoMore(gpio, Len(gpio), b)
    <3>1. Len(pon) \in Nat /\ Len(gpio) \in Nat
      BY <1>2
    <3>2. Len(pon) + 1 .. Len(pon) = {} /\ Len(gpio) + 1 .. Len(gpio) = {}
      BY <3>1
    <3> QED
      BY <3>2 DEF NoMore
  <2>2. Shown(s', <<>>, 0, phys, "gpio")
    BY <1>9, <2>1 DEF Reads, Shown
  <2>3. Shown(s', <<>>, 0, phys, "pon")
    BY <1>4, <1>9, <2>1 DEF Reads, Shown
  <2> QED
    BY <2>2, <2>3 DEF Devices
<1>14. \A d \in Devices :
          /\ \A i \in 1 .. Len(queue'[d]) : DeviceOf(queue'[d][i].button) = d
          /\ Honest(queue'[d], phys') /\ Shown(s', queue'[d], 0, phys', d)
  BY <1>11, <1>13, EmptyIs
<1>15. queue' \in [Devices -> Seq(KeyEvents)]
  BY EmptyIs DEF Round
<1>16. Known(s', queue'["pon"], 0, phys', held') /\ NotLate(s', queue'["pon"], late')
  BY <1>2, <1>11, <1>12, EmptyIs DEF NotLate
<1>17. late' \in 0 .. Stall /\ pc' \in {"poll", "clients"}
       /\ {presses', requests', restarts'} \subseteq Nat
  BY <1>11, Basics DEF IInv
<1>18. IInv'
  BY <1>2, <1>10, <1>11, <1>14, <1>15, <1>16, <1>17 DEF IInv
<1> QED
  BY <1>10, <1>18

\* Only the claims have changed.
LEMMA RequestStep ==
    ASSUME IInv, Request
    PROVE  IInv' /\ s'.po = s.po
<1>1. s \in Structs /\ Recog(s) /\ Shows(s)
  BY DEF IInv, Sounds
<1>2. \E k \in [Clients -> SUBSET Claimable] : s' = [s EXCEPT !.claims = k]
  <2>1. PICK c \in Clients :
          \/ \E g \in Claimable \ s.claims[c] : s' = [s EXCEPT !.claims[c] = @ \cup {g}]
          \/ \E g \in s.claims[c] \ {Watch} : s' = [s EXCEPT !.claims[c] = @ \ {g}]
          \/ s.claims[c] # {} /\ s' = Drop(s, {c})
    BY DEF Request
  <2>2. s.claims \in [Clients -> SUBSET Claimable]
    BY <1>1 DEF Structs
  <2>3. CASE \E g \in Claimable \ s.claims[c] : s' = [s EXCEPT !.claims[c] = @ \cup {g}]
    <3>1. PICK g \in Claimable \ s.claims[c] : s' = [s EXCEPT !.claims[c] = @ \cup {g}]
      BY <2>3
    <3> DEFINE k == [s.claims EXCEPT ![c] = s.claims[c] \cup {g}]
    <3>2. k \in [Clients -> SUBSET Claimable] /\ s' = [s EXCEPT !.claims = k]
      BY <1>1, <2>2, <3>1 DEF Structs
    <3> QED
      BY <3>2
  <2>4. CASE \E g \in s.claims[c] \ {Watch} : s' = [s EXCEPT !.claims[c] = @ \ {g}]
    <3>1. PICK g \in s.claims[c] \ {Watch} : s' = [s EXCEPT !.claims[c] = @ \ {g}]
      BY <2>4
    <3> DEFINE k == [s.claims EXCEPT ![c] = s.claims[c] \ {g}]
    <3>2. k \in [Clients -> SUBSET Claimable] /\ s' = [s EXCEPT !.claims = k]
      BY <1>1, <2>2, <3>1 DEF Structs
    <3> QED
      BY <3>2
  <2>5. CASE s' = Drop(s, {c})
    <3> DEFINE k == [x \in Clients |-> IF x \in {c} THEN {} ELSE s.claims[x]]
    <3>1. k \in [Clients -> SUBSET Claimable] /\ s' = [s EXCEPT !.claims = k]
      BY <1>1, <2>2, <2>5 DEF Structs, Drop
    <3> QED
      BY <3>1
  <2> QED
    BY <2>1, <2>3, <2>4, <2>5
<1>3. PICK k \in [Clients -> SUBSET Claimable] : s' = [s EXCEPT !.claims = k]
  BY <1>2
<1>4. s' \in Structs
  BY <1>1, <1>3 DEF Structs
<1>5. SameRecog(s, s') /\ SameArm(s, s') /\ s'.out = s.out
  BY <1>1, <1>3 DEF Structs, SameRecog, SameKeys, SameArm
<1>6. s' \in Sounds
  BY <1>1, <1>4, <1>5, RecogStays DEF Sounds, Shows, SameRecog, SameKeys
<1>7. UNCHANGED <<phys, held, queue, pc, late, presses, restarts>> /\ requests' = requests + 1
  BY DEF Request, world
<1>8. Known(s', queue["pon"], 0, phys, held)
  BY <1>5 DEF IInv, Known, Follows, Lasts, SameRecog, SameArm
<1>9. NotLate(s, queue["pon"], late) => NotLate(s', queue["pon"], late)
  BY <1>5 DEF NotLate, SameRecog, SameArm
<1>10. \A d \in Devices : Shown(s', queue[d], 0, phys, d)
  BY <1>5 DEF IInv, Shown, SameRecog, SameKeys
<1>11. requests' \in Nat /\ s'.off = s.off /\ s'.length = s.length
  BY <1>5, <1>7 DEF IInv, SameRecog
<1>12. IInv'
  BY <1>5, <1>6, <1>7, <1>8, <1>9, <1>10, <1>11 DEF IInv
<1> QED
  BY <1>5, <1>12 DEF SameArm

\* server_tick, on what the deadlines have left: ready and off after the full hold.
LEMMA ServerTickIs ==
    ASSUME NEW q \in Sounds, q.out = <<>>, ~q.off, NEW evs \in Seq(KeyEvents), NEW held_down,
           NEW time \in Nat, Known(q, evs, 0, held_down, time),
           NEW lag \in 0 .. Stall, NotLate(q, evs, lag)
    PROVE  /\ ServerTick(q) \in Sounds /\ ServerTick(q).out = <<>>
           /\ Known(ServerTick(q), evs, 0, held_down, time)
           /\ ServerTick(q).ptDown = q.ptDown /\ Fewer(q, ServerTick(q))
           /\ ServerTick(q).po = "armed" => q.po = "armed"
           /\ ServerTick(q).off => ServerTick(q).length + Stall >= Long + Hold
<1> DEFINE released == "power" \notin q.down \/ ~q.poSame
           over == [q EXCEPT !.po = "idle", !.poAge = 0, !.poSame = FALSE]
           r == ServerTick(q)
<1>1. q \in Structs /\ Recog(q) /\ Shows(q) /\ q.po \in {"idle", "armed", "ready"}
      /\ q.poAge \in Nat /\ Long \in Nat /\ Hold \in Nat /\ Stall \in Nat /\ lag \in Nat /\ lag <= Stall
  <2>1. q \in Structs
    BY DEF Sounds
  <2>2. q.poAge \in 0 .. Hold /\ q.po \in {"idle", "armed", "ready"}
    BY <2>1 DEF Structs
  <2> QED
    BY <2>1, <2>2, Basics DEF Sounds
<1>2. CASE q.po = "idle" \/ (~released /\ ~(q.po = "armed" /\ q.poAge >= Hold))
  <2>1. r = q
    BY <1>1, <1>2 DEF ServerTick
  <2> HIDE DEF r
  <2>2. Fewer(q, r)
    BY <2>1 DEF Fewer
  <2>3. /\ r \in Sounds /\ r.out = <<>> /\ Known(r, evs, 0, held_down, time)
        /\ r.ptDown = q.ptDown /\ (r.po = "armed" => q.po = "armed") /\ ~r.off
    BY <2>1
  <2> QED
    BY <2>2, <2>3 DEF r
<1>3. CASE q.po # "idle" /\ released
  <2> DEFINE l == IF q.po = "armed" THEN 0 ELSE q.length
             o == (q.po = "ready")
  <2>1. r = [q EXCEPT !.po = "idle", !.poAge = 0, !.poSame = FALSE, !.length = l, !.off = o]
    <3>1. CASE q.po = "armed"
      <4>1. r = [over EXCEPT !.length = 0]
        BY <1>3, <3>1 DEF ServerTick
      <4>2. o = q.off
        BY <1>1, <3>1 DEF Structs
      <4> QED
        BY <1>1, <3>1, <4>1, <4>2 DEF Structs
    <3>2. CASE q.po = "ready"
      <4>1. r = [over EXCEPT !.off = TRUE]
        BY <1>3, <3>2 DEF ServerTick
      <4> QED
        BY <1>1, <3>2, <4>1 DEF Structs
    <3> QED
      BY <1>1, <1>3, <3>1, <3>2
  <2>2. l \in Lengths /\ o \in BOOLEAN /\ 0 \in 0 .. Hold
    <3>1. q.length \in Lengths /\ 0 \in Lengths
      BY <1>1 DEF Structs, Lengths
    <3> QED
      BY <1>1, <3>1
  <2>3. o => l + Stall >= Long + Hold
    BY <1>3 DEF Known, Lasts
  <2> HIDE DEF r, l
  <2>4. r \in Structs
    BY <1>1, <2>1, <2>2 DEF Structs
  <2>5. r.po = "idle" /\ r.poSame = FALSE /\ r.length = l /\ r.off = o /\ r.out = <<>>
        /\ r.down = q.down /\ r.consumed = q.consumed /\ r.pending = q.pending /\ r.taps = q.taps
        /\ r.age = q.age /\ r.left = q.left /\ r.owed = q.owed /\ r.bogus = q.bogus
        /\ SameKeys(q, r) /\ r.claims = q.claims
    BY <1>1, <2>1 DEF Structs, SameKeys
  <2>6. r \in Sounds
    BY <1>1, <2>4, <2>5 DEF Sounds, Recog, Answered, Shows, SameKeys
  <2>7. Known(r, evs, 0, held_down, time)
    BY <2>5 DEF Known, Follows, Lasts
  <2>8. Fewer(q, r) /\ r.ptDown = q.ptDown
    BY <2>5 DEF Fewer, SameKeys
  <2> QED
    BY <2>3, <2>5, <2>6, <2>7, <2>8 DEF r
<1>4. CASE q.po = "armed" /\ ~released /\ q.poAge >= Hold
  <2>1. r = [q EXCEPT !.po = "ready"]
    BY <1>4 DEF ServerTick
  <2> HIDE DEF r
  <2>2. r \in Structs
    BY <1>1, <2>1 DEF Structs
  <2>3. r.po = "ready" /\ r.poAge = q.poAge /\ r.poSame = q.poSame /\ r.length = q.length
        /\ r.off = q.off /\ r.out = <<>>
        /\ r.down = q.down /\ r.consumed = q.consumed /\ r.pending = q.pending /\ r.taps = q.taps
        /\ r.age = q.age /\ r.left = q.left /\ r.owed = q.owed /\ r.bogus = q.bogus
        /\ SameKeys(q, r) /\ r.claims = q.claims
    BY <1>1, <2>1 DEF Structs, SameKeys
  <2>4. r \in Sounds
    BY <1>1, <2>2, <2>3 DEF Sounds, Recog, Answered, Shows, SameKeys
  <2>5. NoMore(evs, 0, "power") => time >= q.age["power"] /\ time >= Long + q.poAge
    BY <1>4 DEF Known, Lasts
  <2>6. NoMore(evs, 0, "power") => time + Stall >= Long + Hold
    BY <1>1, <1>4, <2>5
  <2>7. ASSUME NEW j \in 1 .. Len(evs), NextIs(evs, 0, "power", j)
        PROVE  evs[j].length + Stall >= Long + Hold
    <3>1. evs[j].length + lag >= Long + q.poAge
      BY <1>4, <2>7 DEF NotLate
    <3>2. evs[j] \in KeyEvents
      OBVIOUS
    <3>3. evs[j].length \in Nat
      BY <1>1, <3>2 DEF KeyEvents, Lengths
    <3> QED
      BY <1>1, <1>4, <3>1, <3>3
  <2>8. Follows(r, evs, 0, held_down)
    BY <2>3 DEF Known, Follows
  <2>9. Lasts(r, evs, 0, time)
    BY <1>4, <2>3, <2>5, <2>6, <2>7 DEF Lasts
  <2>10. Fewer(q, r) /\ r.ptDown = q.ptDown
    BY <2>3 DEF Fewer, SameKeys
  <2>11. Known(r, evs, 0, held_down, time)
    BY <2>8, <2>9 DEF Known
  <2> QED
    BY <1>4, <2>3, <2>4, <2>10, <2>11 DEF r
<1> QED
  BY <1>1, <1>2, <1>3, <1>4

\* The round ends.
LEMMA RoundEndsStep ==
    ASSUME IInv, RoundEnds
    PROVE  IInv' /\ (s.po = "idle" /\ s'.po = "armed" => Unclaimed(s'))
<1> DEFINE pon == queue["pon"]
<1>1. PICK full \in SUBSET Connected : s' = ServerTick(Drain(RecogTick(s), full))
  BY DEF RoundEnds
<1> DEFINE now == Drain(RecogTick(s), full)
<1>2. s \in Structs /\ Recog(s) /\ Shows(s) /\ s.out = <<>> /\ ~s.off /\ held \in Nat
      /\ late \in Nat /\ late \in 0 .. Stall
  <2>1. late \in 0 .. Stall /\ held \in Lengths /\ ~s.off /\ s \in Sounds /\ s.out = <<>>
    BY DEF IInv, RoundEnds
  <2>2. held \in Nat /\ late \in Nat
    BY <2>1, Basics DEF Lengths
  <2> QED
    BY <2>1, <2>2 DEF Sounds
<1>3. pon \in Seq(KeyEvents) /\ Known(s, pon, 0, phys, held) /\ NotLate(s, pon, late)
  BY Basics DEF IInv, RoundEnds
<1> HIDE DEF pon
<1>4. Settled(s, now)
  BY <1>2, SettleIs
<1> HIDE DEF now
<1>5. now \in Sounds /\ now.out = <<>> /\ ~now.off
  BY <1>2, <1>4 DEF Settled, Sounds, Shows, SameKeys
<1>6. Known(now, pon, 0, phys, held)
  BY <1>2, <1>3, <1>4, SettledKnown
<1>7. NotLate(now, pon, late)
  BY <1>2, <1>3, <1>4, SettledNotLate
<1>8. s' = ServerTick(now)
  BY <1>1 DEF now
<1>9. /\ s' \in Sounds /\ s'.out = <<>> /\ Known(s', pon, 0, phys, held)
      /\ s'.ptDown = now.ptDown /\ Fewer(now, s') /\ (s'.po = "armed" => now.po = "armed")
      /\ s'.off => s'.length + Stall >= Long + Hold
  BY <1>2, <1>3, <1>5, <1>6, <1>7, <1>8, ServerTickIs
<1>10. UNCHANGED <<phys, held, queue, presses, requests, restarts>> /\ pc' = "poll" /\ late' = 0
  BY DEF RoundEnds, world, bounds
<1>11. \A d \in Devices : Shown(s', queue[d], 0, phys, d)
  BY <1>4, <1>9 DEF IInv, Shown, Settled, SameKeys
<1>12. 0 \in 0 .. Stall
  BY Basics
<1>13. IInv'
  BY <1>9, <1>10, <1>11, <1>12 DEF IInv, pon
<1>14. s.po = "idle" /\ s'.po = "armed" => Unclaimed(s')
  BY <1>4, <1>9 DEF Settled, SameArm, Arms, Unclaimed, Fewer
<1> QED
  BY <1>13, <1>14

\* A timer goes on to its bound.
LEMMA AgedIs ==
    ASSUME NEW bound \in Nat, NEW a \in 0 .. bound
    PROVE  Aged(a, bound) \in 0 .. bound /\ a <= Aged(a, bound) /\ Aged(a, bound) <= a + 1
           /\ (Aged(a, bound) = a + 1 \/ Aged(a, bound) = bound)
  BY DEF Aged

\* Arithmetic of one more stalled tick: a length that with the delay reaches a bound still
\* reaches it when both the delay and the age in the bound have grown by one.
LEMMA StillLater ==
    ASSUME NEW n \in Nat, NEW d \in Nat, NEW m \in Nat, NEW q \in Nat, NEW r \in Nat,
           n + d >= m + q, r <= q + 1
    PROVE  n + (d + 1) >= m + r
OBVIOUS

\* A unit of time: the hold is as old as its press, and a late round not later than Stall.
LEMMA TimeStep ==
    ASSUME IInv, Time
    PROVE  IInv' /\ s'.po = s.po
<1> DEFINE a == [b \in Buttons |-> IF b \in s.down THEN Aged(s.age[b], Long) ELSE 0]
           l == [b \in Buttons |-> IF b \in s.pending /\ s.left[b] > 0 THEN s.left[b] - 1 ELSE 0]
           p == IF s.po = "armed" THEN Aged(s.poAge, Hold) ELSE 0
           pon == queue["pon"]
<1>1. s \in Structs /\ Recog(s) /\ Shows(s) /\ s.out = <<>> /\ ~s.off
  BY DEF IInv, Sounds, Time
<1>2. s.age \in [Buttons -> 0 .. Long] /\ s.left \in [Buttons -> 0 .. Double] /\ s.poAge \in 0 .. Hold
      /\ Long \in Nat /\ Double \in Nat /\ Hold \in Nat /\ Stall \in Nat /\ "power" \in Buttons
      /\ held \in 0 .. (Long + Hold) /\ s.length \in Lengths
  BY <1>1, Basics DEF Structs, IInv, Lengths
<1>3. a \in [Buttons -> 0 .. Long]
  <2>1. \A b \in Buttons : Aged(s.age[b], Long) \in 0 .. Long
    BY <1>2, AgedIs
  <2>2. 0 \in 0 .. Long
    BY <1>2
  <2> QED
    BY <2>1, <2>2
<1>4. l \in [Buttons -> 0 .. Double]
  BY <1>2
<1>5. p \in 0 .. Hold
  <2>1. Aged(s.poAge, Hold) \in 0 .. Hold
    BY <1>2, AgedIs
  <2>2. 0 \in 0 .. Hold
    BY <1>2
  <2> QED
    BY <2>1, <2>2
<1>6. s' = [s EXCEPT !.age = a, !.left = l, !.poAge = p]
  BY <1>1 DEF Time, Structs
<1>7. "power" \in s.down => a["power"] = Aged(s.age["power"], Long)
  BY <1>2
<1>8. s.po = "armed" => p = Aged(s.poAge, Hold)
  OBVIOUS
<1> HIDE DEF a, l, p
<1>9. s' \in Structs
  BY <1>1, <1>3, <1>4, <1>5, <1>6 DEF Structs
<1>10. s'.age = a /\ s'.poAge = p /\ s'.po = s.po /\ s'.poSame = s.poSame /\ s'.length = s.length
       /\ s'.off = s.off /\ s'.out = s.out /\ s'.down = s.down /\ s'.consumed = s.consumed
       /\ s'.pending = s.pending /\ s'.taps = s.taps /\ s'.owed = s.owed /\ s'.bogus = s.bogus
       /\ SameKeys(s, s')
  BY <1>1, <1>6 DEF Structs, SameKeys
<1>11. s' \in Sounds
  BY <1>1, <1>9, <1>10 DEF Sounds, Recog, Answered, Shows, SameKeys
<1>12. UNCHANGED <<phys, queue, pc, presses, requests, restarts>>
       /\ held' = (IF "power" \in phys THEN Aged(held, Long + Hold) ELSE 0)
  BY DEF Time, bounds
<1>13. held' \in 0 .. (Long + Hold)
  <2>1. Long + Hold \in Nat
    BY <1>2
  <2>2. Aged(held, Long + Hold) \in 0 .. (Long + Hold)
    BY <1>2, <2>1, AgedIs
  <2> QED
    BY <1>12, <2>1, <2>2
<1>14. pon \in Seq(KeyEvents) /\ Known(s, pon, 0, phys, held)
  BY Basics DEF IInv
<1>15. pc = "clients" => NotLate(s, pon, late) /\ late' = late + 1
  BY DEF IInv, Time
<1>16. late' \in 0 .. Stall
  <2> DEFINE busy == pc = "clients" \/ Unread \/ Deadline(s)
  <2>1. (busy => late < Stall) /\ late' = (IF busy THEN late + 1 ELSE late) /\ late \in 0 .. Stall
    BY DEF Time, IInv
  <2> HIDE DEF busy
  <2> QED
    BY <1>2, <2>1
<1> HIDE DEF pon
<1>17. Known(s', pon, 0, phys, held')
  <2>1. Follows(s', pon, 0, phys)
    BY <1>10, <1>14 DEF Known, Follows
  <2>2. ASSUME "power" \in s.down, NoMore(pon, 0, "power")
        PROVE  /\ held' >= a["power"]
               /\ s.po = "armed" /\ s.poSame => held' >= Long + p
               /\ s.po = "ready" /\ s.poSame => held' + Stall >= Long + Hold
    <3>1. "power" \in phys
      BY <1>14, <2>2 DEF Known, Follows
    <3>2. held' = Aged(held, Long + Hold) /\ a["power"] = Aged(s.age["power"], Long)
      BY <1>7, <1>12, <2>2, <3>1
    <3>3. s.age["power"] \in 0 .. Long /\ Long + Hold \in Nat
      BY <1>2
    <3>4. /\ held >= s.age["power"]
          /\ s.po = "armed" /\ s.poSame => held >= Long + s.poAge
          /\ s.po = "ready" /\ s.poSame => held + Stall >= Long + Hold
      BY <1>14, <2>2 DEF Known, Lasts
    <3>5. held <= Aged(held, Long + Hold)
          /\ (Aged(held, Long + Hold) = held + 1 \/ Aged(held, Long + Hold) = Long + Hold)
      BY <1>2, <3>3, AgedIs
    <3>6. a["power"] \in 0 .. Long /\ a["power"] <= s.age["power"] + 1
      BY <1>2, <3>2, <3>3, AgedIs
    <3>7. s.po = "armed" => p \in 0 .. Hold /\ p <= s.poAge + 1
      BY <1>2, <1>8, AgedIs
    <3> QED
      BY <1>2, <1>13, <3>2, <3>3, <3>4, <3>5, <3>6, <3>7
  <2>3. Lasts(s', pon, 0, held')
    BY <1>10, <1>14, <2>2 DEF Known, Lasts
  <2> QED
    BY <2>1, <2>3 DEF Known
<1>18. pc = "clients" => NotLate(s', pon, late')
  <2> SUFFICES ASSUME pc = "clients", "power" \in s.down,
                      NEW j \in 1 .. Len(pon), NextIs(pon, 0, "power", j)
               PROVE  /\ pon[j].length + late' >= a["power"]
                      /\ s.po = "armed" /\ s.poSame => pon[j].length + late' >= Long + p
    BY <1>10 DEF NotLate
  <2>1. pon[j] \in KeyEvents
    BY <1>14
  <2>2. pon[j].length \in Nat /\ late \in Nat
    BY <1>2, <2>1 DEF KeyEvents, Lengths, IInv
  <2>3. /\ pon[j].length + late >= s.age["power"]
        /\ s.po = "armed" /\ s.poSame => pon[j].length + late >= Long + s.poAge
    BY <1>15 DEF NotLate
  <2>4. s.age["power"] \in 0 .. Long
    BY <1>2
  <2>5. a["power"] \in 0 .. Long /\ a["power"] <= s.age["power"] + 1
    BY <1>2, <1>7, <2>4, AgedIs
  <2>6. s.po = "armed" => p \in 0 .. Hold /\ p <= s.poAge + 1
    BY <1>2, <1>8, AgedIs
  <2>7. late' = late + 1
    BY <1>15
  <2> DEFINE len == pon[j].length
             old == s.age["power"]
             new == a["power"]
  <2> HIDE DEF len, old, new
  <2>8. len \in Nat /\ old \in Nat /\ new \in Nat /\ new <= old + 1 /\ len + late >= old
    BY <1>2, <2>2, <2>3, <2>4, <2>5 DEF len, old, new
  <2>9. len + (late + 1) >= new
    BY <2>2, <2>8
  <2>10. ASSUME s.po = "armed", s.poSame PROVE len + (late + 1) >= Long + p
    <3>1. len + late >= Long + s.poAge /\ p \in Nat /\ p <= s.poAge + 1 /\ s.poAge \in Nat
      BY <1>2, <2>3, <2>6, <2>10 DEF len
    <3> QED
      <4>1. Long \in Nat /\ s.poAge \in Nat /\ p \in Nat /\ len \in Nat /\ late \in Nat
        BY <1>2, <2>2, <2>8, <3>1
      <4>2. len + late >= Long + s.poAge /\ p <= s.poAge + 1
        BY <3>1
      <4> DEFINE held1 == s.poAge
      <4> HIDE DEF held1
      <4>3. held1 \in Nat /\ len + late >= Long + held1 /\ p <= held1 + 1
        BY <4>1, <4>2 DEF held1
      <4> QED
        BY <4>1, <4>3, StillLater
  <2> QED
    BY <2>7, <2>9, <2>10 DEF len, new
<1>19. \A d \in Devices : Shown(s', queue[d], 0, phys, d)
  BY <1>10 DEF IInv, Shown, SameKeys
<1>20. IInv'
  BY <1>1, <1>10, <1>11, <1>12, <1>13, <1>16, <1>17, <1>18, <1>19 DEF IInv, pon, Lengths
<1> QED
  BY <1>10, <1>20

\* The queue more is evs with ev at its end: what comes after i of button b.
Extends(evs, ev, more, i, b) ==
    /\ NoMore(more, i, b) <=> (NoMore(evs, i, b) /\ ev.button # b)
    /\ \A j : NextIs(more, i, b, j) <=>
          NextIs(evs, i, b, j) \/ (j = Len(more) /\ NoMore(evs, i, b) /\ ev.button = b)

\* One more event comes at the end of a queue.
LEMMA AppendedIs ==
    ASSUME NEW evs \in Seq(KeyEvents), NEW ev \in KeyEvents, NEW i \in 0 .. Len(evs), NEW b
    PROVE  Extends(evs, ev, Append(evs, ev), i, b)
<1> DEFINE more == Append(evs, ev)
           n == Len(evs)
<1>1. more \in Seq(KeyEvents) /\ Len(more) = n + 1 /\ more[n + 1] = ev /\ n \in Nat
      /\ \A j \in 1 .. n : more[j] = evs[j]
  OBVIOUS
<1> HIDE DEF more
<1>2. \A j \in i + 1 .. n + 1 : j = n + 1 \/ j \in i + 1 .. n
  BY <1>1
<1>3. n + 1 \in i + 1 .. n + 1 /\ \A j \in i + 1 .. n : j \in i + 1 .. n + 1 /\ j \in 1 .. n
  BY <1>1
<1>4. NoMore(more, i, b) <=> (NoMore(evs, i, b) /\ ev.button # b)
  BY <1>1, <1>2, <1>3 DEF NoMore, n
<1>5. ASSUME NEW j \in i + 1 .. n
      PROVE  NextIs(more, i, b, j) <=> NextIs(evs, i, b, j)
  <2>1. \A k \in i + 1 .. j - 1 : k \in 1 .. n
    BY <1>1
  <2>2. j \in i + 1 .. n + 1 /\ j \in 1 .. n
    BY <1>3
  <2> QED
    BY <1>1, <2>1, <2>2 DEF NextIs, n
<1>6. NextIs(more, i, b, n + 1) <=> (NoMore(evs, i, b) /\ ev.button = b)
  <2>1. (n + 1) - 1 = n
    BY <1>1
  <2> QED
    BY <1>1, <1>3, <2>1 DEF NextIs, NoMore, n
<1>7. n + 1 \notin i + 1 .. n
  BY <1>1
<1>8. ASSUME NEW j
      PROVE  NextIs(more, i, b, j) <=>
                 NextIs(evs, i, b, j) \/ (j = Len(more) /\ NoMore(evs, i, b) /\ ev.button = b)
  <2>1. CASE j \in i + 1 .. n
    BY <1>1, <1>5, <1>7, <2>1
  <2>2. CASE j = n + 1
    BY <1>1, <1>6, <1>7, <2>2 DEF NextIs, n
  <2>3. CASE j \notin i + 1 .. n /\ j # n + 1
    BY <1>1, <1>2, <2>3 DEF NextIs, n
  <2> QED
    BY <2>1, <2>2, <2>3
<1> QED
  BY <1>4, <1>8 DEF Extends, more

\* A press or a release comes: the queue is as honest, and as little is known too late.
LEMMA KeyComes ==
    ASSUME IInv, NEW b \in Buttons, NEW ev \in KeyEvents, ev.button = b,
           ev.down <=> b \notin phys, b = "power" /\ ~ev.down => ev.length = held,
           phys' = IF ev.down THEN phys \cup {b} ELSE phys \ {b},
           held' = IF b = "power" THEN 0 ELSE held,
           queue' = [queue EXCEPT ![DeviceOf(b)] = Append(@, ev)],
           UNCHANGED <<s, pc, late>>, {presses', requests', restarts'} \subseteq Nat
    PROVE  IInv'
<1> DEFINE d == DeviceOf(b)
           evs == queue[d]
           more == Append(evs, ev)
           n == Len(evs)
<1>1. d \in Devices /\ queue \in [Devices -> Seq(KeyEvents)] /\ "pon" \in Devices
      /\ (b = "power" => d = "pon") /\ DeviceOf("power") = "pon"
  BY Basics DEF IInv, DeviceOf, Devices
<1> HIDE DEF d
<1>2. evs \in Seq(KeyEvents) /\ n \in Nat
  BY <1>1
<1>3. /\ \A j \in 1 .. n : DeviceOf(evs[j].button) = d
      /\ Honest(evs, phys) /\ Shown(s, evs, 0, phys, d)
  BY <1>1 DEF IInv
<1>4. queue' \in [Devices -> Seq(KeyEvents)] /\ queue'[d] = more
      /\ \A x \in Devices : x # d => queue'[x] = queue[x]
  BY <1>1, <1>2 DEF d
<1>5. \A x : x # b => (x \in phys' <=> x \in phys)
  OBVIOUS
<1>6. ev.down <=> b \in phys'
  OBVIOUS
<1>7. more \in Seq(KeyEvents) /\ Len(more) = n + 1 /\ more[n + 1] = ev
      /\ \A j \in 1 .. n : more[j] = evs[j]
  BY <1>2
<1>8. \A i \in 0 .. n : \A x :
          /\ NoMore(more, i, x) <=> (NoMore(evs, i, x) /\ b # x)
          /\ \A j : NextIs(more, i, x, j) <=>
                NextIs(evs, i, x, j) \/ (j = n + 1 /\ NoMore(evs, i, x) /\ b = x)
  <2> SUFFICES ASSUME NEW i \in 0 .. n, NEW x
               PROVE  /\ NoMore(more, i, x) <=> (NoMore(evs, i, x) /\ b # x)
                      /\ \A j : NextIs(more, i, x, j) <=>
                            NextIs(evs, i, x, j) \/ (j = n + 1 /\ NoMore(evs, i, x) /\ b = x)
    OBVIOUS
  <2> HIDE DEF evs
  <2>1. Extends(evs, ev, more, i, x)
    BY <1>2, AppendedIs
  <2> HIDE DEF more, n
  <2> QED
    BY <1>7, <2>1 DEF Extends
<1>9. ev.down \in BOOLEAN /\ \A j \in 1 .. n : evs[j].down \in BOOLEAN
  <2>1. \A j \in 1 .. n : evs[j] \in KeyEvents
    BY <1>2
  <2> QED
    BY <2>1 DEF KeyEvents
<1>10. 0 \in 0 .. n /\ \A j : NextIs(evs, 0, "power", j) => j \in 1 .. n
  BY <1>2 DEF NextIs
<1> HIDE DEF evs, more, n
<1>11. Honest(more, phys')
  <2> SUFFICES ASSUME NEW j \in 1 .. Len(more)
               PROVE  /\ \A k \in 1 .. Len(more) :
                            NextIs(more, j, more[j].button, k) => more[k].down # more[j].down
                      /\ NoMore(more, j, more[j].button) =>
                            (more[j].down <=> more[j].button \in phys')
    BY DEF Honest
  <2>1. CASE j \in 1 .. n
    <3> DEFINE x == more[j].button
    <3>1. more[j] = evs[j] /\ j \in 0 .. n /\ evs[j].down \in BOOLEAN
      BY <1>7, <1>9, <2>1
    <3>2. /\ \A k \in 1 .. n : NextIs(evs, j, x, k) => evs[k].down # evs[j].down
          /\ NoMore(evs, j, x) => (evs[j].down <=> x \in phys)
      BY <1>3, <2>1, <3>1 DEF Honest, n
    <3> HIDE DEF x
    <3>3. \A k \in 1 .. Len(more) : NextIs(more, j, x, k) => more[k].down # more[j].down
      <4> SUFFICES ASSUME NEW k \in 1 .. Len(more), NextIs(more, j, x, k)
                   PROVE  more[k].down # more[j].down
        OBVIOUS
      <4>1. CASE NextIs(evs, j, x, k)
        <5>1. k \in j + 1 .. n
          BY <4>1 DEF NextIs, n
        <5>2. k \in 1 .. n
          BY <1>2, <2>1, <5>1
        <5> QED
          BY <1>7, <3>1, <3>2, <4>1, <5>2
      <4>2. CASE k = n + 1 /\ NoMore(evs, j, x) /\ b = x
        <5>1. evs[j].down <=> b \in phys
          BY <3>2, <4>2
        <5> QED
          BY <1>7, <1>9, <3>1, <4>2, <5>1
      <4> QED
        BY <1>8, <3>1, <4>1, <4>2
    <3>4. NoMore(more, j, x) => (more[j].down <=> x \in phys')
      BY <1>5, <1>8, <3>1, <3>2
    <3> QED
      BY <3>3, <3>4 DEF x
  <2>2. CASE j = n + 1
    <3>1. more[j] = ev
      BY <1>7, <2>2
    <3>2. \A x : \A k \in 1 .. Len(more) : ~NextIs(more, j, x, k)
      BY <1>2, <1>7, <2>2 DEF NextIs
    <3> QED
      BY <1>6, <3>1, <3>2
  <2>3. j \in 1 .. n \/ j = n + 1
    BY <1>2, <1>7
  <2> QED
    BY <2>1, <2>2, <2>3
<1>12. Shown(s, more, 0, phys', d)
  BY <1>3, <1>5, <1>8, <1>10 DEF Shown
<1>13. \A j \in 1 .. Len(more) : DeviceOf(more[j].button) = d
  <2>1. \A j \in 1 .. Len(more) : j \in 1 .. n \/ j = n + 1
    BY <1>2, <1>7
  <2> QED
    BY <1>3, <1>7, <2>1 DEF d, n
<1>14. ASSUME NEW x \in Devices, x # d
       PROVE  /\ \A j \in 1 .. Len(queue[x]) : DeviceOf(queue[x][j].button) = x
              /\ Honest(queue[x], phys') /\ Shown(s, queue[x], 0, phys', x)
  <2>1. \A j \in 1 .. Len(queue[x]) : DeviceOf(queue[x][j].button) = x
    BY DEF IInv
  <2>2. \A j \in 1 .. Len(queue[x]) : queue[x][j].button # b
    BY <1>14, <2>1 DEF d
  <2>3. Honest(queue[x], phys) /\ Shown(s, queue[x], 0, phys, x)
    BY DEF IInv
  <2>4. Honest(queue[x], phys')
    BY <1>5, <2>2, <2>3 DEF Honest
  <2>5. Shown(s, queue[x], 0, phys', x)
    BY <1>5, <1>14, <2>3 DEF Shown, d
  <2> QED
    BY <2>1, <2>4, <2>5
<1>15. \A x \in Devices :
          /\ \A j \in 1 .. Len(queue'[x]) : DeviceOf(queue'[x][j].button) = x
          /\ Honest(queue'[x], phys') /\ Shown(s, queue'[x], 0, phys', x)
  <2> SUFFICES ASSUME NEW x \in Devices
               PROVE  /\ \A j \in 1 .. Len(queue'[x]) : DeviceOf(queue'[x][j].button) = x
                      /\ Honest(queue'[x], phys') /\ Shown(s, queue'[x], 0, phys', x)
    OBVIOUS
  <2>1. CASE x = d
    <3>1. queue'[x] = more
      BY <1>4, <2>1
    <3> QED
      BY <1>11, <1>12, <1>13, <2>1, <3>1
  <2>2. CASE x # d
    <3>1. queue'[x] = queue[x]
      BY <1>4, <2>2
    <3> QED
      BY <1>14, <2>2, <3>1
  <2> QED
    BY <2>1, <2>2
<1>16. phys' \subseteq Buttons /\ held' \in Lengths
  <2>1. 0 \in Lengths
    BY Basics DEF Lengths
  <2> QED
    BY <2>1 DEF IInv
<1>17. Known(s, queue["pon"], 0, phys, held) /\ (pc = "clients" => NotLate(s, queue["pon"], late))
  BY DEF IInv
<1>18. CASE b = "power"
  <2>1. d = "pon" /\ queue'["pon"] = more /\ queue["pon"] = evs /\ ev.length \in Nat
    <3>1. ev.length \in Nat
      BY Basics DEF KeyEvents, Lengths
    <3> QED
      BY <1>1, <1>4, <1>18, <3>1 DEF evs
  <2>2. ~NoMore(more, 0, "power")
    BY <1>8, <1>10, <1>18
  <2>3. \A j \in 1 .. Len(more) : NextIs(more, 0, "power", j) =>
            \/ j \in 1 .. Len(evs) /\ NextIs(evs, 0, "power", j) /\ more[j] = evs[j]
            \/ NoMore(evs, 0, "power") /\ more[j] = ev
    BY <1>7, <1>8, <1>10, <1>18 DEF n
  <2>4. "power" \in s.down /\ NoMore(evs, 0, "power") => ~ev.down /\ ev.length = held
    BY <1>17, <1>18, <2>1 DEF Known, Follows
  <2>5. s.poSame /\ "power" \notin s.down /\ NoMore(evs, 0, "power") => ev.down
    BY <1>17, <1>18, <2>1 DEF Known, Follows
  <2>6. Follows(s, more, 0, phys')
    BY <1>17, <2>1, <2>2, <2>3, <2>4, <2>5 DEF Known, Follows
  <2>7. Lasts(s, more, 0, held')
    BY <1>17, <2>1, <2>2, <2>3, <2>4 DEF Known, Lasts
  <2>8. pc = "clients" => NotLate(s, more, late)
    <3> SUFFICES ASSUME pc = "clients", "power" \in s.down,
                        NEW j \in 1 .. Len(more), NextIs(more, 0, "power", j)
                 PROVE  /\ more[j].length + late >= s.age["power"]
                        /\ s.po = "armed" /\ s.poSame => more[j].length + late >= Long + s.poAge
      BY DEF NotLate
    <3>1. CASE j \in 1 .. Len(evs) /\ NextIs(evs, 0, "power", j) /\ more[j] = evs[j]
      BY <1>17, <2>1, <3>1 DEF NotLate
    <3>2. CASE NoMore(evs, 0, "power") /\ more[j] = ev
      <4>1. /\ held >= s.age["power"]
            /\ s.po = "armed" /\ s.poSame => held >= Long + s.poAge
        BY <1>17, <2>1, <3>2 DEF Known, Lasts
      <4>2. more[j].length = held
        BY <2>4, <3>2
      <4>3. s.age["power"] \in Nat /\ s.poAge \in Nat /\ Long \in Nat /\ held \in Nat /\ late \in Nat
        <5>1. s \in Structs /\ held \in Lengths /\ late \in 0 .. Stall
          BY DEF IInv, Sounds
        <5>2. s.age \in [Buttons -> 0 .. Long] /\ s.poAge \in 0 .. Hold
          BY <5>1 DEF Structs
        <5> QED
          BY <5>1, <5>2, Basics DEF Lengths
      <4> QED
        BY <4>1, <4>2, <4>3
    <3> QED
      BY <2>3, <3>1, <3>2
  <2> QED
    BY <1>4, <1>15, <1>16, <2>1, <2>6, <2>7, <2>8 DEF IInv, Known
<1>19. CASE b # "power"
  <2>1. held' = held /\ ("power" \in phys' <=> "power" \in phys)
    BY <1>5, <1>19
  <2>2. Known(s, queue'["pon"], 0, phys', held') /\ (pc = "clients" => NotLate(s, queue'["pon"], late))
    <3>1. CASE d = "pon"
      <4>1. queue'["pon"] = more /\ queue["pon"] = evs
        BY <1>4, <3>1 DEF evs
      <4>2. /\ NoMore(more, 0, "power") <=> NoMore(evs, 0, "power")
            /\ \A j : NextIs(more, 0, "power", j) <=> NextIs(evs, 0, "power", j)
            /\ \A j : NextIs(evs, 0, "power", j) => j \in 1 .. Len(evs) /\ more[j] = evs[j]
        BY <1>7, <1>8, <1>10, <1>19 DEF n
      <4>3. Follows(s, more, 0, phys')
        BY <1>17, <2>1, <4>1, <4>2 DEF Known, Follows
      <4>4. Lasts(s, more, 0, held')
        BY <1>17, <2>1, <4>1, <4>2 DEF Known, Lasts
      <4>5. pc = "clients" => NotLate(s, more, late)
        BY <1>17, <4>1, <4>2 DEF NotLate
      <4> QED
        BY <4>1, <4>3, <4>4, <4>5 DEF Known
    <3>2. CASE d # "pon"
      <4>1. queue'["pon"] = queue["pon"]
        BY <1>1, <1>4, <3>2
      <4>2. Follows(s, queue["pon"], 0, phys')
        BY <1>17, <2>1 DEF Known, Follows
      <4> QED
        BY <1>17, <2>1, <4>1, <4>2 DEF Known
    <3> QED
      BY <3>1, <3>2
  <2> QED
    BY <1>4, <1>15, <1>16, <2>2 DEF IInv
<1> QED
  BY <1>18, <1>19

\* A button is pressed.
LEMMA PressButtonStep ==
    ASSUME IInv, NEW b \in Buttons, PressButton(b)
    PROVE  IInv'
<1> DEFINE ev == [button |-> b, down |-> TRUE, length |-> 0]
<1>1. ev \in KeyEvents /\ ev.button = b /\ ev.down /\ b \notin phys
  BY Basics DEF KeyEvents, Lengths, PressButton
<1>2. /\ phys' = phys \cup {b} /\ held' = (IF b = "power" THEN 0 ELSE held)
      /\ queue' = [queue EXCEPT ![DeviceOf(b)] = Append(@, ev)]
      /\ UNCHANGED <<s, pc, late>> /\ {presses', requests', restarts'} \subseteq Nat
  BY DEF PressButton, IInv
<1> HIDE DEF ev
<1> QED
  BY <1>1, <1>2, KeyComes

\* A button is released.
LEMMA ReleaseButtonStep ==
    ASSUME IInv, NEW b \in Buttons, ReleaseButton(b)
    PROVE  IInv'
<1> DEFINE ev == [button |-> b, down |-> FALSE, length |-> IF b = "power" THEN held ELSE 0]
<1>1. ev \in KeyEvents /\ ev.button = b /\ ~ev.down /\ b \in phys /\ (b = "power" => ev.length = held)
  BY Basics DEF KeyEvents, Lengths, ReleaseButton, IInv
<1>2. /\ phys' = phys \ {b} /\ held' = (IF b = "power" THEN 0 ELSE held)
      /\ queue' = [queue EXCEPT ![DeviceOf(b)] = Append(@, ev)]
      /\ UNCHANGED <<s, pc, late>> /\ {presses', requests', restarts'} \subseteq Nat
  BY DEF ReleaseButton, IInv, bounds
<1> HIDE DEF ev
<1> QED
  BY <1>1, <1>2, KeyComes

\* Every step keeps the invariant, and arms the power-off only where nobody claims power.long.
LEMMA StepIs ==
    ASSUME IInv, [Next]_vars
    PROVE  IInv' /\ (s.po = "idle" /\ s'.po = "armed" => Unclaimed(s'))
<1>1. CASE Wake
  <2>1. Round /\ requests' \in Nat
    BY <1>1 DEF Wake, IInv
  <2> QED
    BY <2>1, RoundStep DEF Onward
<1>2. CASE WakeForClient
  <2>1. Round /\ requests' \in Nat
    BY <1>2 DEF WakeForClient, IInv
  <2> QED
    BY <2>1, RoundStep DEF Onward
<1>3. CASE Request
  BY <1>3, RequestStep
<1>4. CASE RoundEnds
  BY <1>4, RoundEndsStep
<1>5. CASE Time
  BY <1>5, TimeStep
<1>6. ASSUME NEW b \in Buttons, PressButton(b) PROVE IInv' /\ s' = s
  BY <1>6, PressButtonStep DEF PressButton
<1>7. ASSUME NEW b \in Buttons, ReleaseButton(b) PROVE IInv' /\ s' = s
  BY <1>7, ReleaseButtonStep DEF ReleaseButton
<1>8. CASE Restart
  BY <1>8, RestartStep
<1>9. CASE UNCHANGED vars
  BY <1>9 DEF vars, world, bounds, IInv
<1> QED
  BY <1>1, <1>2, <1>3, <1>4, <1>5, <1>6, <1>7, <1>8, <1>9 DEF Next

-----------------------------------------------------------------------------
(* The theorems.                                                            *)

\* The invariant of buttond's loop, in every reachable state.
THEOREM SpecIInv == Spec => []IInv
<1>1. Init => IInv
  BY InitIInv
<1>2. IInv /\ [Next]_vars => IInv'
  BY StepIs
<1> QED
  BY <1>1, <1>2, PTL DEF Spec

\* The structs have their types, and a key that other programs see held, with no event of it
\* unread, is held: claims that come and go and restarts leave no key stuck down
\* (server_pass_key).
THEOREM SpecKeysReleased == Spec => []KeysReleased
<1>1. IInv => KeysReleased
  <2> SUFFICES ASSUME IInv PROVE KeysReleased
    OBVIOUS
  <2>1. s \in Structs /\ Shows(s)
    BY DEF IInv, Sounds
  <2>2. TypeOK
    <3>1. s.down \subseteq Buttons /\ s.consumed \subseteq Buttons /\ s.pending \subseteq Buttons
          /\ s.ptDown \subseteq Buttons /\ s.ptPass \subseteq Buttons /\ s.virt \subseteq Buttons
      BY <2>1 DEF Structs
    <3>2. s.taps \in [Buttons -> 0..2] /\ s.owed \in [Buttons -> 0..2]
          /\ s.age \in [Buttons -> 0..Long] /\ s.left \in [Buttons -> 0..Double]
          /\ s.claims \in [Clients -> SUBSET Claimable]
      BY <2>1 DEF Structs
    <3>3. s.po \in {"idle", "armed", "ready"} /\ s.poAge \in 0..Hold
          /\ {s.poSame, s.bogus, s.off} \subseteq BOOLEAN /\ s.length \in 0..(Long + Hold)
      BY <2>1 DEF Structs, Lengths
    <3>4. s.out = <<>> /\ phys \subseteq Buttons /\ held \in 0..(Long + Hold)
          /\ pc \in {"poll", "clients"} /\ late \in 0..Stall
      BY DEF IInv, Lengths
    <3> QED
      BY <3>1, <3>2, <3>3, <3>4 DEF TypeOK
  <2>3. NoStuckKey
    <3> SUFFICES ASSUME NEW b \in s.virt,
                        \A d \in DOMAIN queue : \A i \in DOMAIN queue[d] : queue[d][i].button # b
                 PROVE  b \in phys
      BY DEF NoStuckKey
    <3> DEFINE d == DeviceOf(b)
    <3>1. b \in Buttons /\ b \in s.ptDown /\ d \in Devices
      BY <2>1 DEF Structs, Shows, DeviceOf, Devices
    <3>2. queue[d] \in Seq(KeyEvents) /\ DOMAIN queue = Devices /\ Shown(s, queue[d], 0, phys, d)
      BY <3>1 DEF IInv
    <3> HIDE DEF d
    <3>3. \A i \in 1 .. Len(queue[d]) : queue[d][i].button # b
      BY <3>1, <3>2
    <3>4. NoMore(queue[d], 0, b)
      BY <3>2, <3>3 DEF NoMore
    <3> QED
      BY <3>1, <3>2, <3>4 DEF Shown, d
  <2> QED
    BY <2>2, <2>3 DEF KeysReleased
<1> QED
  BY <1>1, SpecIInv, PTL

\* A press the recognizer accepts is answered by one gesture, and a gesture answers a press
\* (recog_press, recog_release, recog_tick).
THEOREM SpecOneGesturePerPress == Spec => []OneGesturePerPress
<1>1. IInv => OneGesturePerPress
  <2> SUFFICES ASSUME IInv PROVE OneGesturePerPress
    OBVIOUS
  <2>1. Recog(s)
    BY DEF IInv, Sounds
  <2>2. ASSUME NEW b \in Buttons
        PROVE  s.owed[b] = CASE b \in s.down \ s.consumed -> s.taps[b]
                             [] b \in s.pending -> 1
                             [] OTHER -> 0
    <3>1. Answered(s, b) /\ s.pending \cap s.down = {}
      BY <2>1 DEF Recog
    <3>2. CASE b \in s.down \ s.consumed
      <4>1. b \notin s.pending
        BY <3>1, <3>2
      <4> QED
        BY <3>1, <3>2, <4>1 DEF Answered
    <3>3. CASE b \notin s.down \ s.consumed /\ b \in s.pending
      BY <3>1, <3>3 DEF Answered
    <3>4. CASE b \notin s.down \ s.consumed /\ b \notin s.pending
      BY <3>1, <3>4 DEF Answered
    <3> QED
      BY <3>2, <3>3, <3>4
  <2> QED
    BY <2>1, <2>2 DEF Recog, OneGesturePerPress
<1> QED
  BY <1>1, SpecIInv, PTL

\* The system goes down only for a power button that one press held for long_ms and then
\* poweroff_hold_ms, but for what one half of a late round may take off (server_tick).
THEOREM SpecPowerOffIsHeld == Spec => []PowerOffIsHeld
<1>1. IInv => PowerOffIsHeld
  BY DEF IInv, PowerOffIsHeld
<1> QED
  BY <1>1, SpecIInv, PTL

\* The power-off arms only when no client that is still there claims power.long
\* (server_dispatch, poweroff_arm).
THEOREM SpecArmedOnlyUnclaimed == Spec => ArmedOnlyUnclaimed
<1>1. IInv /\ [Next]_vars => [s.po = "idle" /\ s'.po = "armed"
                                => \A c \in Clients : <<"power", "long">> \notin s'.claims[c]]_vars
  BY StepIs DEF Unclaimed, PowerLong
<1> QED
  BY <1>1, SpecIInv, PTL DEF Spec, ArmedOnlyUnclaimed
=============================================================================
