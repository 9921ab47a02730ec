--------------------------- MODULE BleLifeProofs ---------------------------
(***************************************************************************)
(* Proofs about one sensor's life with blesensd (BleLife over BleCore): what *)
(* bluetoothd holds for the daemon is known to it or to its file, a sensor is *)
(* told forgotten only when nothing is left of it, and saved only when its   *)
(* own subscription was confirmed.                                           *)
(*                                                                           *)
(* The invariant is stated of a daemon d, a bluetoothd y, the messages q that *)
(* d has not read, the file f and the confirmed attempt w, so that each C     *)
(* function and each thing bluetoothd does keeps it on its own.               *)
(***************************************************************************)
EXTENDS BleLife, SequenceTheorems, TLAPS

-----------------------------------------------------------------------------
(* Types.                                                                    *)

Kinds == {"Objects", "Register", "Unregister", "Default", "PairConnect", "PairNotify", "PairBond",
          "PairTrust", "CancelPairing", "RemoveDevice", "Disconnect", "Forget", "Leave"}
Calls == [k : Kinds, id : Nat, life : Nat]
Devs == [known : BOOLEAN, conn : BOOLEAN, res : BOOLEAN]
Texts == {"none", "saved", "forget"}
Savers == [at : {"none", "run", "written"}, text : Texts]
Daemons ==
    [up : {"on", "stopping", "down"}, loaded : BOOLEAN, bluez : BOOLEAN, dev : Devs,
     reg : BOOLEAN, regInf : BOOLEAN, rel : BOOLEAN, relInf : BOOLEAN,
     step : Steps, id : Nat, byUs : BOOLEAN, bonded : BOOLEAN, areq : BOOLEAN,
     s : {"none", "saved", "forget", "removed"}, sid : Nat, inf : BOOLEAN, frev : Nat, rrev : Nat,
     rec : Nat, srev : Nat, saved : Nat, pending : BOOLEAN, wait : BOOLEAN,
     save : Savers, pends : SUBSET Calls, req : Seq(Calls), life : Nat]
Bluezs == [up : BOOLEAN, agent : BOOLEAN, dflt : BOOLEAN, dev : BOOLEAN, conn : BOOLEAN,
           res : BOOLEAN, bond : {"none", "ours", "stray"}, busy : SUBSET Calls]
Results == {"", "ok", "err", "exists", "nosuch", "auth", "gone", "new"}
Msgs == [t : {"reply", "device", "owner"}, c : Calls, r : Results, dev : Devs]

-----------------------------------------------------------------------------
(* The invariant: what the daemon holds of itself.                           *)

Agency(d) ==
    /\ d.areq => d.reg /\ d.step # "idle"
    /\ d.reg => d.bluez /\ ~d.regInf /\ ~d.rel
    /\ d.regInf => d.bluez /\ ~d.rel
    /\ d.rel => d.bluez
    /\ d.relInf => d.rel

Attempted(d) ==
    /\ d.step # "idle" => d.bluez /\ d.loaded /\ d.s = "none"
    /\ \A c \in d.pends : /\ c.life = d.life /\ c.k \notin PlainKinds \cup {"Leave"}
                          /\ c.k \in PairKinds => c.id = d.id /\ d.step # "idle"
                          /\ c.k = "Forget" => d.inf /\ c.id = d.sid
    /\ d.up = "down" => ~d.loaded /\ ~d.bluez /\ d.pends = {} /\ d.id = 0

Recorded(d) ==
    /\ d.saved <= d.srev /\ d.srev <= d.rec
    /\ d.s = "forget" => d.frev = d.rec
    /\ d.s = "removed" => d.rrev = d.rec
    /\ d.inf => d.s = "forget" /\ d.saved = d.rec
    /\ ~d.loaded => d.s = "none" /\ d.save.at = "none" /\ ~d.pending /\ d.rec = 0 /\ d.frev = 0
    /\ d.save.at # "none" /\ d.srev = d.rec => d.save.text = RecordsText(d)

Filed(d, f) ==
    /\ d.save.at = "written" => f = d.save.text
    /\ d.saved = d.rec /\ d.s # "none" => f = RecordsText(d)

-----------------------------------------------------------------------------
(* The calls on their way.                                                   *)

Asks(s, k) == \E i \in 1 .. Len(s) : s[i].k = k
AskedAfter(s, i, K) == \E j \in i + 1 .. Len(s) : s[j].k \in K
SameLife(d) == \A i \in 1 .. Len(d.req) : d.req[i].life = d.life

Queued(d) ==
    /\ \A i \in 1 .. Len(d.req) : d.req[i].life <= d.life /\ (d.req[i].k = "Leave" => d.req[i].life < d.life)
    /\ \A i, j \in 1 .. Len(d.req) : i < j => d.req[i].life <= d.req[j].life
    /\ d.bluez => SameLife(d)
    /\ \A i, j \in 1 .. Len(d.req) : i < j /\ d.req[j].k = "Default" =>
          d.req[i].k # "Register" /\ (d.req[i].k = "Unregister" => d.req[i].life # d.life)

\* CancelPairing has the device removed after it.
Removes(d) ==
    \A i \in 1 .. Len(d.req) : d.req[i].k = "CancelPairing" => AskedAfter(d.req, i, {"RemoveDevice"})

\* A call of this life is accounted for by the flag that keeps it from being made again.
Flagged(d, c) ==
    c.life = d.life =>
        /\ c.k = "Register" => d.regInf /\ c.id = 0
        /\ c.k = "Unregister" => d.relInf /\ c.id = 0
        /\ c.k = "Forget" => d.inf /\ c.id = d.sid
        /\ c.k = "PairBond" => c.id <= d.id /\ (c.id = d.id => d.bonded \/ d.step \in {"bond", "idle"})
Once(d, c) == c.life = d.life /\ c.k \in {"Register", "Unregister", "Forget", "PairBond"}
Answers(m, c) == m.t = "reply" /\ m.c = c

Flying(d, y, q) ==
    /\ \A i \in 1 .. Len(d.req) : Flagged(d, d.req[i])
    /\ \A c \in y.busy : c.life <= d.life /\ (c.life = d.life => SameLife(d)) /\ Flagged(d, c)
    /\ \A i \in 1 .. Len(q) : q[i].t = "reply" =>
          q[i].c.life <= d.life /\ (q[i].c.life = d.life => SameLife(d)) /\ Flagged(d, q[i].c)

\* Such a call is at one place: sent, being served, or answered.
OnePlace(d, y, q) ==
    /\ \A i, j \in 1 .. Len(d.req) : Once(d, d.req[i]) /\ d.req[i] = d.req[j] => i = j
    /\ \A i \in 1 .. Len(d.req) : Once(d, d.req[i]) =>
          d.req[i] \notin y.busy /\ \A j \in 1 .. Len(q) : ~Answers(q[j], d.req[i])
    /\ \A c \in y.busy : Once(d, c) => \A j \in 1 .. Len(q) : ~Answers(q[j], c)
    /\ \A i, j \in 1 .. Len(q) :
          q[i].t = "reply" /\ Once(d, q[i].c) /\ Answers(q[j], q[i].c) => i = j

-----------------------------------------------------------------------------
(* The bond.                                                                 *)

\* PairBond of the attempt that waits for it.
Awaited(d, c) == d.step = "bond" /\ c.id = d.id /\ c.life = d.life

Bonding(d, y) ==
    /\ \A i \in 1 .. Len(d.req) : d.req[i].k = "PairBond" =>
          Awaited(d, d.req[i]) \/ AskedAfter(d.req, i, {"CancelPairing", "Leave"}) \/ ~y.dev
    /\ \A c \in y.busy : c.k = "PairBond" =>
          Awaited(d, c) \/ AskedAfter(d.req, 0, {"CancelPairing", "Leave"})
    /\ d.bluez /\ ~d.dev.known => y.bond # "ours"
    /\ d.s = "removed" => y.bond # "ours"

Bonded(d, y, f) ==
    y.bond = "ours" =>
        \/ Asks(d.req, "RemoveDevice")
        \/ d.loaded /\ (d.s # "none" \/ d.step = "bond" \/ (d.step # "idle" /\ d.bonded))
        \/ ~d.loaded /\ f # "none"

-----------------------------------------------------------------------------
(* The agent, and what the messages say.                                     *)

Quiet(d) == d.areq \/ d.rel \/ Asks(d.req, "Leave")

Granted(d, y, q) ==
    /\ y.dflt => Quiet(d)
    /\ y.agent /\ Asks(d.req, "Default") => Quiet(d)
    /\ \A i \in 1 .. Len(q) : q[i].t = "owner" =>
          ~y.dflt /\ (y.agent => ~d.reg /\ ~Asks(d.req, "Default"))
    /\ \A i, j \in 1 .. Len(q) :
          /\ i < j /\ q[j].t = "owner" /\ q[i].t = "reply"
          /\ q[i].c.k = "Register" /\ q[i].c.life = d.life
          => ~y.agent

Told(d, y, q, w) ==
    /\ d.step = "trust" => w = d.id
    /\ \A i \in 1 .. Len(q) :
         /\ ~q[i].dev.known => ~y.dev
         /\ q[i].t = "reply" =>
              /\ q[i].c.k \in PairKinds => q[i].c.id <= d.id
              /\ q[i].c.k = "PairNotify" /\ q[i].r = "ok" /\ q[i].c.id = d.id => w = d.id
              /\ q[i].c.k = "Unregister" /\ q[i].r \in {"ok", "nosuch"} /\ q[i].c.life = d.life =>
                    ~y.dflt /\ ~Asks(d.req, "Default")
              /\ q[i].c.k = "Forget" /\ q[i].r \in {"ok", "nosuch"} /\ q[i].c.life = d.life =>
                    y.bond # "ours"
    /\ d.up = "down" => q = <<>>

Bus(y) ==
    /\ ~y.up => ~y.agent /\ ~y.dflt /\ y.busy = {}
    /\ y.bond # "none" \/ y.conn \/ y.busy # {} => y.dev

\* BlueZ has the file's word before it is asked to remove the sensor.
Flags(d, f) == Asks(d.req, "Forget") => f # "saved" /\ d.s # "saved" /\ (d.save.at = "run" => d.save.text # "saved")

Typed(d, y, q, f, w) == d \in Daemons /\ y \in Bluezs /\ q \in Seq(Msgs) /\ f \in Texts /\ w \in Nat

Core(d, y, q, f, w) ==
    /\ Typed(d, y, q, f, w)
    /\ Agency(d) /\ Attempted(d) /\ Recorded(d) /\ Filed(d, f)
    /\ Queued(d) /\ Flying(d, y, q) /\ OnePlace(d, y, q)
    /\ Bonding(d, y) /\ Bonded(d, y, f) /\ Granted(d, y, q) /\ Told(d, y, q, w)
    /\ Bus(y) /\ Flags(d, f)
Sound(d, y, q, f, w) == Core(d, y, q, f, w) /\ Removes(d)

\* An attempt has a device, once the message that it is gone has been dealt with.
Held(d) == d.step # "idle" => d.dev.known

IInv == Sound(b, z, rep, disk, won) /\ Held(b)

-----------------------------------------------------------------------------
(* Frames and sequences.                                                     *)

SameAgency(d, e) ==
    e.areq = d.areq /\ e.reg = d.reg /\ e.regInf = d.regInf /\ e.rel = d.rel /\ e.relInf = d.relInf
SameAttempt(d, e) == e.step = d.step /\ e.id = d.id /\ e.byUs = d.byUs /\ e.bonded = d.bonded
SameRecord(d, e) ==
    /\ e.s = d.s /\ e.sid = d.sid /\ e.inf = d.inf /\ e.frev = d.frev /\ e.rrev = d.rrev
    /\ e.rec = d.rec /\ e.srev = d.srev /\ e.saved = d.saved /\ e.pending = d.pending
    /\ e.wait = d.wait /\ e.save = d.save
SameLine(d, e) ==
    e.up = d.up /\ e.loaded = d.loaded /\ e.bluez = d.bluez /\ e.dev = d.dev /\ e.life = d.life
SameCalls(d, e) == e.req = d.req /\ e.pends = d.pends

\* Call c is nowhere: neither sent, nor being served, nor answered.
Nowhere(d, y, q, c) ==
    /\ \A i \in 1 .. Len(d.req) : d.req[i] # c
    /\ c \notin y.busy
    /\ \A i \in 1 .. Len(q) : ~Answers(q[i], c)

\* What is appended comes last and nothing else moves.
LEMMA AppendIs ==
    ASSUME NEW S, NEW s \in Seq(S), NEW x \in S
    PROVE  /\ Append(s, x) \in Seq(S) /\ Len(s) \in Nat /\ Len(Append(s, x)) = Len(s) + 1
           /\ \A i \in 1 .. Len(s) : Append(s, x)[i] = s[i]
           /\ Append(s, x)[Len(s) + 1] = x
           /\ \A i \in 1 .. Len(Append(s, x)) : i \in 1 .. Len(s) \/ i = Len(s) + 1
OBVIOUS

\* The head taken off, everything else moves up by one.
LEMMA TailIs ==
    ASSUME NEW S, NEW s \in Seq(S), s # <<>>
    PROVE  /\ Tail(s) \in Seq(S) /\ Head(s) \in S /\ Head(s) = s[1] /\ Len(s) \in Nat /\ Len(s) >= 1
           /\ Len(Tail(s)) = Len(s) - 1 /\ 1 \in 1 .. Len(s)
           /\ \A i \in 1 .. Len(Tail(s)) : Tail(s)[i] = s[i + 1] /\ i + 1 \in 1 .. Len(s)
OBVIOUS

-----------------------------------------------------------------------------
(* The daemon makes a call.                                                  *)

\* A call of a kind that is made once at a time goes where none is.
LEMMA CallKeeps ==
    ASSUME NEW d, NEW e, NEW y, NEW q, NEW f, NEW w, NEW c \in Calls,
           Core(d, y, q, f, w), e \in Daemons,
           SameAgency(d, e), SameAttempt(d, e), SameRecord(d, e), SameLine(d, e),
           e.req = Append(d.req, c), e.pends = IF c.k \in PlainKinds THEN d.pends ELSE d.pends \cup {c},
           c.life = d.life, c.k # "Leave", Flagged(d, c), Once(d, c) => Nowhere(d, y, q, c),
           c.k \in PairKinds => c.id = d.id /\ d.step # "idle",
           c.k = "Default" => d.areq, c.k = "PairBond" => Awaited(d, c), d.up # "down"
    PROVE  Core(e, y, q, f, w)
<1> DEFINE L == Len(d.req)
<1>1. d \in Daemons /\ d.req \in Seq(Calls) /\ Typed(e, y, q, f, w)
  BY DEF Core, Typed, Daemons
<1>2. /\ L \in Nat /\ Len(e.req) = L + 1 /\ \A i \in 1 .. L : e.req[i] = d.req[i]
      /\ e.req[L + 1] = c /\ \A i \in 1 .. Len(e.req) : i \in 1 .. L \/ i = L + 1
  BY <1>1, AppendIs
<1>3. \A k : Asks(e.req, k) <=> Asks(d.req, k) \/ c.k = k
  BY <1>2 DEF Asks
<1>4. \A K : \A i \in 1 .. L : AskedAfter(d.req, i, K) => AskedAfter(e.req, i, K)
  BY <1>2 DEF AskedAfter
<1>5. \A K : AskedAfter(d.req, 0, K) => AskedAfter(e.req, 0, K)
  BY <1>2 DEF AskedAfter
<1>6. SameLife(d) <=> SameLife(e)
  BY <1>2 DEF SameLife, SameLine
<1>7. \A x : (Flagged(d, x) <=> Flagged(e, x)) /\ (Once(d, x) <=> Once(e, x))
  BY DEF Flagged, Once, SameAgency, SameAttempt, SameRecord, SameLine
<1> HIDE DEF L
<1>8. Agency(e)
  BY DEF Core, Agency, SameAgency, SameAttempt, SameLine
<1>9. Attempted(e)
  BY DEF Core, Attempted, SameAttempt, SameLine, SameRecord, Flagged
<1>10. Recorded(e) /\ Filed(e, f)
  BY DEF Core, Recorded, Filed, SameLine, SameRecord, RecordsText
<1>11. d.areq => \A i \in 1 .. L : d.req[i].k # "Register" /\ (d.req[i].k = "Unregister" => d.req[i].life # d.life)
  BY DEF Core, Agency, Queued, Flying, SameLife, Flagged, L
<1>12. Queued(e)
  <2>1. d.life \in Nat /\ e.life = d.life /\ e.bluez = d.bluez /\ Queued(d)
    BY <1>1 DEF Core, SameLine, Daemons
  <2>2. \A i \in 1 .. Len(e.req) :
           e.req[i].life <= e.life /\ (e.req[i].k = "Leave" => e.req[i].life < e.life)
    BY <1>2, <2>1 DEF Queued, L
  <2>3. \A i, j \in 1 .. Len(e.req) : i < j => e.req[i].life <= e.req[j].life
    BY <1>2, <2>1 DEF Queued, L
  <2>4. \A i, j \in 1 .. Len(e.req) : i < j /\ e.req[j].k = "Default" =>
           e.req[i].k # "Register" /\ (e.req[i].k = "Unregister" => e.req[i].life # e.life)
    BY <1>2, <1>11, <2>1 DEF Queued, L
  <2> QED
    BY <1>6, <2>1, <2>2, <2>3, <2>4 DEF Queued
<1>13. Flying(e, y, q)
  BY <1>2, <1>6, <1>7 DEF Core, Flying, SameLine, L
<1>14. OnePlace(e, y, q)
  BY <1>2, <1>7 DEF Core, OnePlace, Nowhere, L
<1>15. Bonding(e, y)
  BY <1>2, <1>4, <1>5 DEF Core, Bonding, Awaited, SameAttempt, SameLine, SameRecord, L
<1>16. Bonded(e, y, f)
  BY <1>3 DEF Core, Bonded, SameAttempt, SameLine, SameRecord
<1>17. Granted(e, y, q)
  BY <1>3 DEF Core, Granted, Quiet, Agency, SameAgency, SameLine
<1>18. Told(e, y, q, w)
  BY <1>3 DEF Core, Told, Agency, Flying, Flagged, SameAttempt, SameLine
<1>19. Flags(e, f)
  BY <1>1, <1>3 DEF Core, Flags, Recorded, Filed, RecordsText, Flagged, SameRecord, Daemons, Savers
<1> QED
  BY <1>1, <1>8, <1>9, <1>10, <1>12, <1>13, <1>14, <1>15, <1>16, <1>17, <1>18, <1>19 DEF Core

-----------------------------------------------------------------------------
(* The daemon changes what it holds.                                         *)

\* Its records or the file change, and what is filed and bonded still agrees.
LEMMA FileChanges ==
    ASSUME NEW d, NEW e, NEW y, NEW q, NEW g, NEW f \in Texts, NEW w,
           Core(d, y, q, g, w), e \in Daemons,
           SameAgency(d, e), SameAttempt(d, e), SameCalls(d, e),
           e.up = d.up, e.bluez = d.bluez, e.dev = d.dev, e.life = d.life,
           e.up = "down" => ~e.loaded, e.step # "idle" => e.loaded /\ e.s = "none",
           \/ d.inf => e.inf /\ e.sid = d.sid
           \/ /\ \A x : x.k = "Forget" /\ x.life = d.life => Nowhere(d, y, q, x)
              /\ \A c \in d.pends : c.k # "Forget",
           Recorded(e), Filed(e, f), Flags(e, f), Bonded(e, y, f),
           e.s = "removed" => y.bond # "ours"
    PROVE  Core(e, y, q, f, w)
<1>1. \A x : (Flagged(d, x) => Flagged(e, x) \/ Nowhere(d, y, q, x)) /\ (Once(d, x) <=> Once(e, x))
  BY DEF Flagged, Once, SameAgency, SameAttempt
<1>2. SameLife(d) <=> SameLife(e)
  BY DEF SameLife, SameCalls
<1>3. Typed(e, y, q, f, w) /\ Agency(e)
  BY DEF Core, Typed, Agency, SameAgency, SameAttempt
<1>4. Attempted(e)
  BY DEF Core, Attempted, SameAttempt, SameCalls
<1>5. Queued(e)
  BY <1>2 DEF Core, Queued, SameCalls
<1>6. Flying(e, y, q)
  <2>1. \A i \in 1 .. Len(e.req) : Flagged(e, e.req[i])
    BY <1>1 DEF Core, Flying, Nowhere, SameCalls
  <2>2. \A c \in y.busy : Flagged(e, c)
    BY <1>1 DEF Core, Flying, Nowhere
  <2>3. \A i \in 1 .. Len(q) : q[i].t = "reply" => Flagged(e, q[i].c)
    BY <1>1 DEF Core, Flying, Nowhere, Answers
  <2> QED
    BY <1>2, <2>1, <2>2, <2>3 DEF Core, Flying
<1>7. OnePlace(e, y, q)
  BY <1>1 DEF Core, OnePlace, SameCalls
<1>8. Bonding(e, y)
  BY DEF Core, Bonding, Awaited, SameAttempt, SameCalls
<1>9. Granted(e, y, q)
  BY DEF Core, Granted, Quiet, SameAgency, SameCalls
<1>10. Told(e, y, q, w)
  BY DEF Core, Told, SameAttempt, SameCalls
<1> QED
  BY <1>3, <1>4, <1>5, <1>6, <1>7, <1>8, <1>9, <1>10 DEF Core

\* The same of its records alone.
LEMMA RecordChanges ==
    ASSUME NEW d, NEW e, NEW y, NEW q, NEW f, NEW w,
           Core(d, y, q, f, w), e \in Daemons,
           SameAgency(d, e), SameAttempt(d, e), SameCalls(d, e),
           e.up = d.up, e.bluez = d.bluez, e.dev = d.dev, e.life = d.life,
           e.up = "down" => ~e.loaded, e.step # "idle" => e.loaded /\ e.s = "none",
           \/ d.inf => e.inf /\ e.sid = d.sid
           \/ /\ \A x : x.k = "Forget" /\ x.life = d.life => Nowhere(d, y, q, x)
              /\ \A c \in d.pends : c.k # "Forget",
           Recorded(e), Filed(e, f), Flags(e, f), Bonded(e, y, f),
           e.s = "removed" => y.bond # "ours"
    PROVE  Core(e, y, q, f, w)
<1>1. f \in Texts
  BY DEF Core, Typed
<1> QED
  BY <1>1, FileChanges

\* So do its flags of the agent, without a call that one of them stood for.
LEMMA AgencyChanges ==
    ASSUME NEW d, NEW e, NEW y, NEW q, NEW f, NEW w,
           Core(d, y, q, f, w), e \in Daemons,
           SameAttempt(d, e), SameRecord(d, e), SameLine(d, e), SameCalls(d, e),
           Agency(e), Quiet(d) => Quiet(e) \/ (~y.dflt /\ ~Asks(d.req, "Default")),
           \A x : x.k = "Register" /\ x.life = d.life /\ d.regInf =>
               e.regInf \/ Nowhere(d, y, q, x),
           \A x : x.k = "Unregister" /\ x.life = d.life /\ d.relInf =>
               e.relInf \/ Nowhere(d, y, q, x),
           e.reg /\ ~d.reg => \A i \in 1 .. Len(q) : q[i].t = "owner" => ~y.agent
    PROVE  Core(e, y, q, f, w)
<1>1. \A x : Flagged(d, x) => Flagged(e, x) \/ Nowhere(d, y, q, x)
  BY DEF Flagged, SameAttempt, SameLine, SameRecord
<1>2. \A x : Once(d, x) <=> Once(e, x)
  BY DEF Once, SameLine
<1>3. SameLife(d) <=> SameLife(e)
  BY DEF SameLife, SameLine, SameCalls
<1>4. Typed(e, y, q, f, w)
  BY DEF Core, Typed
<1>5. Attempted(e) /\ Recorded(e) /\ Filed(e, f) /\ Flags(e, f)
  BY DEF Core, Attempted, Recorded, Filed, Flags, RecordsText, SameAttempt, SameRecord, SameLine, SameCalls
<1>6. Queued(e)
  BY <1>3 DEF Core, Queued, SameLine, SameCalls
<1>7. Flying(e, y, q)
  <2>1. \A i \in 1 .. Len(e.req) : Flagged(e, e.req[i])
    BY <1>1 DEF Core, Flying, Nowhere, SameCalls
  <2>2. \A c \in y.busy : Flagged(e, c)
    BY <1>1 DEF Core, Flying, Nowhere
  <2>3. \A i \in 1 .. Len(q) : q[i].t = "reply" => Flagged(e, q[i].c)
    BY <1>1 DEF Core, Flying, Nowhere, Answers
  <2> QED
    BY <1>3, <2>1, <2>2, <2>3 DEF Core, Flying, SameLine
<1>8. OnePlace(e, y, q)
  BY <1>2 DEF Core, OnePlace, SameCalls
<1>9. Bonding(e, y) /\ Bonded(e, y, f)
  BY DEF Core, Bonding, Bonded, Awaited, SameAttempt, SameCalls, SameLine, SameRecord
<1>10. Granted(e, y, q)
  BY DEF Core, Granted, SameCalls, SameLine
<1>11. Told(e, y, q, w)
  BY DEF Core, Told, SameAttempt, SameCalls, SameLine
<1> QED
  BY <1>4, <1>5, <1>6, <1>7, <1>8, <1>9, <1>10, <1>11 DEF Core

\* The attempt goes on from one step to another.
LEMMA StepChanges ==
    ASSUME NEW d, NEW e, NEW y, NEW q, NEW f, NEW w,
           Core(d, y, q, f, w), e \in Daemons,
           SameAgency(d, e), SameRecord(d, e), SameLine(d, e), SameCalls(d, e),
           e.id = d.id, d.step # "idle", e.step # "idle", d.bonded => e.bonded,
           e.step = "trust" => w = d.id,
           d.step = "bond" => /\ e.bonded
                              /\ \A x : x.k = "PairBond" /\ Awaited(d, x) => Nowhere(d, y, q, x)
    PROVE  Core(e, y, q, f, w)
<1>1. \A x : (Flagged(d, x) => Flagged(e, x)) /\ (Once(d, x) <=> Once(e, x))
  BY DEF Flagged, Once, SameAgency, SameRecord, SameLine
<1>2. SameLife(d) <=> SameLife(e)
  BY DEF SameLife, SameLine, SameCalls
<1>3. Typed(e, y, q, f, w) /\ Agency(e)
  BY DEF Core, Typed, Agency, SameAgency, SameLine
<1>4. Attempted(e) /\ Recorded(e) /\ Filed(e, f) /\ Flags(e, f)
  BY DEF Core, Attempted, Recorded, Filed, Flags, RecordsText, SameRecord, SameLine, SameCalls
<1>5. Queued(e)
  BY <1>2 DEF Core, Queued, SameLine, SameCalls
<1>6. Flying(e, y, q)
  BY <1>1, <1>2 DEF Core, Flying, SameLine, SameCalls
<1>7. OnePlace(e, y, q)
  BY <1>1 DEF Core, OnePlace, SameCalls
<1>8. Bonding(e, y)
  BY DEF Core, Bonding, Awaited, Nowhere, SameLine, SameRecord, SameCalls
<1>9. Bonded(e, y, f)
  BY DEF Core, Bonded, SameLine, SameRecord, SameCalls
<1>10. Granted(e, y, q)
  BY DEF Core, Granted, Quiet, SameAgency, SameLine, SameCalls
<1>11. Told(e, y, q, w)
  BY DEF Core, Told, SameLine, SameCalls
<1> QED
  BY <1>3, <1>4, <1>5, <1>6, <1>7, <1>8, <1>9, <1>10, <1>11 DEF Core

\* The attempt ends: what is under way for it will be undone, the bond has a record.
LEMMA AttemptEnds ==
    ASSUME NEW d, NEW e, NEW y, NEW q, NEW f, NEW w,
           Core(d, y, q, f, w), e \in Daemons, SameAgency(d, e), SameLine(d, e),
           e.req = d.req, e.pends = {c \in d.pends : ~(c.k \in PairKinds /\ c.id = d.id)},
           d.step # "idle", ~d.areq, e.step = "idle", e.id = d.id, e.inf = d.inf,
           Recorded(e), Filed(e, f), Flags(e, f), Bonded(e, y, f), e.s # "removed",
           \A i \in 1 .. Len(d.req) : d.req[i].k = "PairBond" /\ Awaited(d, d.req[i]) =>
               AskedAfter(d.req, i, {"CancelPairing", "Leave"}) \/ ~y.dev,
           \A c \in y.busy : c.k = "PairBond" /\ Awaited(d, c) =>
               AskedAfter(d.req, 0, {"CancelPairing", "Leave"})
    PROVE  Core(e, y, q, f, w)
<1>1. d.s = "none" /\ ~d.inf
  BY DEF Core, Attempted, Recorded
<1>2. \A x : (Flagged(d, x) => Flagged(e, x)) /\ (Once(d, x) <=> Once(e, x))
  BY <1>1 DEF Flagged, Once, SameAgency, SameLine
<1>3. SameLife(d) <=> SameLife(e)
  BY DEF SameLife, SameLine
<1>4. Typed(e, y, q, f, w) /\ Agency(e)
  BY DEF Core, Typed, Agency, SameAgency, SameLine
<1>5. Attempted(e)
  BY <1>1 DEF Core, Attempted, SameLine
<1>6. Queued(e)
  BY <1>3 DEF Core, Queued, SameLine
<1>7. Flying(e, y, q)
  BY <1>2, <1>3 DEF Core, Flying, SameLine
<1>8. OnePlace(e, y, q)
  BY <1>2 DEF Core, OnePlace
<1>9. Bonding(e, y)
  BY DEF Core, Bonding, SameLine
<1>10. Granted(e, y, q)
  BY DEF Core, Granted, Quiet, SameAgency, SameLine
<1>11. Told(e, y, q, w)
  BY DEF Core, Told, SameLine
<1> QED
  BY <1>4, <1>5, <1>6, <1>7, <1>8, <1>9, <1>10, <1>11 DEF Core

\* An attempt begins, of an identity no call and no answer has.
LEMMA AttemptBegins ==
    ASSUME NEW d, NEW e, NEW y, NEW q, NEW f, NEW w,
           Core(d, y, q, f, w), e \in Daemons,
           SameAgency(d, e), SameRecord(d, e), SameLine(d, e), SameCalls(d, e),
           d.step = "idle", e.step = "connect", e.id = d.id + 1, ~e.bonded,
           d.bluez, d.loaded, d.s = "none"
    PROVE  Core(e, y, q, f, w)
<1>0. d \in Daemons /\ d.id \in Nat /\ d.req \in Seq(Calls) /\ y \in Bluezs /\ q \in Seq(Msgs)
  BY DEF Core, Typed, Daemons
<1>1. /\ \A i \in 1 .. Len(d.req) : d.req[i] \in Calls
      /\ \A c \in y.busy : c \in Calls
      /\ \A i \in 1 .. Len(q) : q[i].c \in Calls
  <2>1. \A i \in 1 .. Len(d.req) : d.req[i] \in Calls
    BY <1>0
  <2>2. \A c \in y.busy : c \in Calls
    BY <1>0 DEF Bluezs
  <2>3. \A i \in 1 .. Len(q) : q[i] \in Msgs
    BY <1>0
  <2> QED
    BY <2>1, <2>2, <2>3 DEF Msgs
<1>2. \A x \in Calls : (Flagged(d, x) => Flagged(e, x)) /\ (Once(d, x) <=> Once(e, x))
  BY <1>0 DEF Flagged, Once, SameAgency, SameRecord, SameLine, Calls
<1>3. SameLife(d) <=> SameLife(e)
  BY DEF SameLife, SameLine, SameCalls
<1>4. Typed(e, y, q, f, w) /\ Agency(e)
  BY DEF Core, Typed, Agency, SameAgency, SameLine
<1>5. Attempted(e) /\ Recorded(e) /\ Filed(e, f) /\ Flags(e, f)
  BY DEF Core, Attempted, Recorded, Filed, Flags, RecordsText, SameRecord, SameLine, SameCalls
<1>6. Queued(e)
  BY <1>3 DEF Core, Queued, SameLine, SameCalls
<1>7. Flying(e, y, q)
  BY <1>1, <1>2, <1>3 DEF Core, Flying, SameLine, SameCalls
<1>8. OnePlace(e, y, q)
  BY <1>1, <1>2 DEF Core, OnePlace, SameCalls
<1>9. Bonding(e, y)
  BY DEF Core, Bonding, Awaited, SameLine, SameRecord, SameCalls
<1>10. Bonded(e, y, f)
  BY DEF Core, Bonded, SameLine, SameRecord, SameCalls
<1>11. Granted(e, y, q)
  BY DEF Core, Granted, Quiet, SameAgency, SameLine, SameCalls
<1>12. Told(e, y, q, w)
  <2>1. \A i \in 1 .. Len(q) : q[i].t = "reply" /\ q[i].c.k \in PairKinds =>
           q[i].c.id <= e.id /\ q[i].c.id # e.id
    BY <1>0, <1>1 DEF Core, Told, Calls
  <2> QED
    BY <2>1 DEF Core, Told, SameLine, SameCalls, PairKinds
<1> QED
  BY <1>4, <1>5, <1>6, <1>7, <1>8, <1>9, <1>10, <1>11, <1>12 DEF Core

\* bd_call
LEMMA CallIs ==
    ASSUME NEW d \in Daemons, NEW k \in Kinds, NEW id \in Nat
    PROVE  LET c == [k |-> k, id |-> id, life |-> d.life]
               e == Call(d, k, id)
           IN  /\ c \in Calls /\ e \in Daemons
               /\ SameAgency(d, e) /\ SameAttempt(d, e) /\ SameRecord(d, e) /\ SameLine(d, e)
               /\ e.req = Append(d.req, c)
               /\ e.pends = IF k \in PlainKinds THEN d.pends ELSE d.pends \cup {c}
<1> DEFINE c == [k |-> k, id |-> id, life |-> d.life]
           r == Append(d.req, c)
           p == IF k \in PlainKinds THEN d.pends ELSE d.pends \cup {c}
<1>1. c \in Calls
  BY DEF Daemons, Calls
<1>2. r \in Seq(Calls) /\ p \in SUBSET Calls
  BY <1>1, AppendIs DEF Daemons
<1>3. Call(d, k, id) = [d EXCEPT !.req = r, !.pends = p]
  BY DEF Call, Daemons
<1> HIDE DEF r, p
<1>4. [d EXCEPT !.req = r, !.pends = p] \in Daemons
  BY <1>2 DEF Daemons
<1>5. /\ SameAgency(d, [d EXCEPT !.req = r, !.pends = p])
      /\ SameAttempt(d, [d EXCEPT !.req = r, !.pends = p])
      /\ SameRecord(d, [d EXCEPT !.req = r, !.pends = p])
      /\ SameLine(d, [d EXCEPT !.req = r, !.pends = p])
      /\ [d EXCEPT !.req = r, !.pends = p].req = r /\ [d EXCEPT !.req = r, !.pends = p].pends = p
  BY DEF Daemons, SameAgency, SameAttempt, SameRecord, SameLine
<1> QED
  BY <1>1, <1>3, <1>4, <1>5 DEF r, p

\* A call that no flag stands for is nowhere.
LEMMA NotFlagged ==
    ASSUME NEW d, NEW y, NEW q, NEW f, NEW w, NEW c, Core(d, y, q, f, w), ~Flagged(d, c)
    PROVE  Nowhere(d, y, q, c)
BY DEF Core, Flying, Nowhere, Answers

\* What one function of the daemon keeps.
Keeps(d, e, y, q, f, w) == Core(e, y, q, f, w) /\ (Removes(d) => Removes(e))

\* Any call but CancelPairing leaves a removal after each CancelPairing.
LEMMA CallRemoves ==
    ASSUME NEW d, NEW e, NEW c \in Calls, d.req \in Seq(Calls), e.req = Append(d.req, c),
           c.k # "CancelPairing", Removes(d)
    PROVE  Removes(e)
<1>1. /\ Len(d.req) \in Nat /\ Len(e.req) = Len(d.req) + 1
      /\ \A i \in 1 .. Len(d.req) : e.req[i] = d.req[i]
      /\ e.req[Len(d.req) + 1] = c
      /\ \A i \in 1 .. Len(e.req) : i \in 1 .. Len(d.req) \/ i = Len(d.req) + 1
  BY AppendIs
<1> QED
  BY <1>1 DEF Removes, AskedAfter

-----------------------------------------------------------------------------
(* The agent's functions.                                                    *)

\* bd_agent_release_drive takes our agent back once at a time.
LEMMA AgentReleaseDriveKeeps ==
    ASSUME NEW d, NEW y, NEW q, NEW f, NEW w, Core(d, y, q, f, w), d.up # "down"
    PROVE  LET e == AgentReleaseDrive(d)
           IN  /\ Keeps(d, e, y, q, f, w) /\ SameAttempt(d, e) /\ SameRecord(d, e) /\ SameLine(d, e)
               /\ e.areq = d.areq /\ e.reg = d.reg /\ e.regInf = d.regInf /\ e.rel = d.rel
<1> DEFINE c == [k |-> "Unregister", id |-> 0, life |-> d.life]
           h == [d EXCEPT !.relInf = TRUE]
           u == Call(d, "Unregister", 0)
           e == [u EXCEPT !.relInf = TRUE]
<1>1. d \in Daemons
  BY DEF Core, Typed
<1>2. CASE d.bluez /\ d.rel /\ ~d.relInf
  <2>1. /\ c \in Calls /\ u \in Daemons
        /\ SameAgency(d, u) /\ SameAttempt(d, u) /\ SameRecord(d, u) /\ SameLine(d, u)
        /\ u.req = Append(d.req, c) /\ u.pends = d.pends \cup {c}
    <3> HIDE DEF u
    <3> QED
      BY <1>1, CallIs DEF u, Kinds, PlainKinds
  <2> HIDE DEF u
  <2>2. /\ h \in Daemons /\ SameAttempt(d, h) /\ SameRecord(d, h) /\ SameLine(d, h) /\ SameCalls(d, h)
        /\ h.areq = d.areq /\ h.reg = d.reg /\ h.regInf = d.regInf /\ h.rel = d.rel /\ h.relInf
    BY <1>1 DEF Daemons, SameAttempt, SameRecord, SameLine, SameCalls
  <2>3. /\ e \in Daemons /\ SameAgency(h, e) /\ SameAttempt(h, e) /\ SameRecord(h, e) /\ SameLine(h, e)
        /\ e.req = Append(h.req, c) /\ e.pends = h.pends \cup {c}
    BY <1>1, <2>1 DEF Daemons, SameAgency, SameAttempt, SameRecord, SameLine, SameCalls
  <2> HIDE DEF h, e
  <2>4. Agency(h)
    BY <1>2, <2>2 DEF Core, Agency, SameAttempt, SameLine
  <2>5. Core(h, y, q, f, w)
    <3>1. Quiet(d) => Quiet(h)
      BY <2>2 DEF Quiet, SameCalls
    <3> QED
      BY <2>2, <2>4, <3>1, AgencyChanges
  <2>6. ~Flagged(d, c)
    BY <1>2 DEF Flagged
  <2>7. Nowhere(h, y, q, c)
    BY <2>2, <2>6, NotFlagged DEF Nowhere, SameCalls
  <2>8. c.life = h.life /\ Flagged(h, c) /\ h.up # "down"
    BY <2>2 DEF Flagged, SameLine
  <2>9. Core(e, y, q, f, w)
    BY <2>1, <2>3, <2>5, <2>7, <2>8, CallKeeps DEF PairKinds, PlainKinds
  <2>10. Removes(d) => Removes(e)
    <3>1. d.req \in Seq(Calls) /\ e.req = Append(d.req, c) /\ c.k # "CancelPairing"
      BY <1>1, <2>2, <2>3 DEF SameCalls, Daemons
    <3> QED
      BY <2>1, <3>1, CallRemoves
  <2>11. AgentReleaseDrive(d) = e
    BY <1>2 DEF AgentReleaseDrive, e, u
  <2> QED
    BY <2>2, <2>3, <2>9, <2>10, <2>11 DEF Keeps, SameAgency, SameAttempt, SameRecord, SameLine
<1>3. CASE ~(d.bluez /\ d.rel /\ ~d.relInf)
  BY <1>3 DEF AgentReleaseDrive, Keeps, SameAttempt, SameRecord, SameLine
<1> QED
  BY <1>2, <1>3

\* bd_agent_register registers our agent once at a time, and not before it has been taken back.
LEMMA AgentRegisterKeeps ==
    ASSUME NEW d, NEW y, NEW q, NEW f, NEW w, Core(d, y, q, f, w), d.up # "down"
    PROVE  LET e == AgentRegister(d)
           IN  /\ Keeps(d, e, y, q, f, w) /\ SameAttempt(d, e) /\ SameRecord(d, e) /\ SameLine(d, e)
               /\ e.areq = d.areq
<1> DEFINE c == [k |-> "Register", id |-> 0, life |-> d.life]
           h == [d EXCEPT !.regInf = TRUE]
           u == Call(d, "Register", 0)
           e == [u EXCEPT !.regInf = TRUE]
<1>1. d \in Daemons
  BY DEF Core, Typed
<1>2. CASE d.rel
  <2>1. AgentRegister(d) = AgentReleaseDrive(d)
    BY <1>2 DEF AgentRegister
  <2> QED
    BY <2>1, AgentReleaseDriveKeeps
<1>3. CASE ~d.rel /\ d.bluez /\ ~d.reg /\ ~d.regInf
  <2>1. /\ c \in Calls /\ u \in Daemons
        /\ SameAgency(d, u) /\ SameAttempt(d, u) /\ SameRecord(d, u) /\ SameLine(d, u)
        /\ u.req = Append(d.req, c) /\ u.pends = d.pends \cup {c}
    <3> HIDE DEF u
    <3> QED
      BY <1>1, CallIs DEF u, Kinds, PlainKinds
  <2> HIDE DEF u
  <2>2. /\ h \in Daemons /\ SameAttempt(d, h) /\ SameRecord(d, h) /\ SameLine(d, h) /\ SameCalls(d, h)
        /\ h.areq = d.areq /\ h.reg = d.reg /\ h.regInf /\ h.rel = d.rel /\ h.relInf = d.relInf
    BY <1>1 DEF Daemons, SameAttempt, SameRecord, SameLine, SameCalls
  <2>3. /\ e \in Daemons /\ SameAgency(h, e) /\ SameAttempt(h, e) /\ SameRecord(h, e) /\ SameLine(h, e)
        /\ e.req = Append(h.req, c) /\ e.pends = h.pends \cup {c}
    BY <1>1, <2>1 DEF Daemons, SameAgency, SameAttempt, SameRecord, SameLine, SameCalls
  <2> HIDE DEF h, e
  <2>4. Agency(h)
    BY <1>3, <2>2 DEF Core, Agency, SameAttempt, SameLine
  <2>5. Core(h, y, q, f, w)
    <3>1. Quiet(d) => Quiet(h)
      BY <2>2 DEF Quiet, SameCalls
    <3> QED
      BY <2>2, <2>4, <3>1, AgencyChanges
  <2>6. ~Flagged(d, c)
    BY <1>3 DEF Flagged
  <2>7. Nowhere(h, y, q, c)
    BY <2>2, <2>6, NotFlagged DEF Nowhere, SameCalls
  <2>8. c.life = h.life /\ Flagged(h, c) /\ h.up # "down"
    BY <2>2 DEF Flagged, SameLine
  <2>9. Core(e, y, q, f, w)
    BY <2>1, <2>3, <2>5, <2>7, <2>8, CallKeeps DEF PairKinds, PlainKinds
  <2>10. Removes(d) => Removes(e)
    <3>1. d.req \in Seq(Calls) /\ e.req = Append(d.req, c) /\ c.k # "CancelPairing"
      BY <1>1, <2>2, <2>3 DEF SameCalls, Daemons
    <3> QED
      BY <2>1, <3>1, CallRemoves
  <2>11. AgentRegister(d) = e
    BY <1>3 DEF AgentRegister, e, u
  <2> QED
    BY <2>2, <2>3, <2>9, <2>10, <2>11 DEF Keeps, SameAgency, SameAttempt, SameRecord, SameLine
<1>4. CASE ~d.rel /\ ~(d.bluez /\ ~d.reg /\ ~d.regInf)
  BY <1>4 DEF AgentRegister, Keeps, SameAttempt, SameRecord, SameLine
<1> QED
  BY <1>2, <1>3, <1>4

\* pair_agent_release gives up the request, and the agent is taken back.
LEMMA PairAgentReleaseKeeps ==
    ASSUME NEW d, NEW y, NEW q, NEW f, NEW w, Core(d, y, q, f, w), d.up # "down"
    PROVE  LET e == PairAgentRelease(d)
           IN  /\ Keeps(d, e, y, q, f, w) /\ SameAttempt(d, e) /\ SameRecord(d, e) /\ SameLine(d, e)
               /\ ~e.areq
<1> DEFINE h == [d EXCEPT !.areq = FALSE, !.reg = FALSE, !.rel = TRUE]
<1>1. d \in Daemons
  BY DEF Core, Typed
<1>2. CASE d.areq
  <2>1. /\ h \in Daemons /\ SameAttempt(d, h) /\ SameRecord(d, h) /\ SameLine(d, h) /\ SameCalls(d, h)
        /\ ~h.areq /\ ~h.reg /\ h.regInf = d.regInf /\ h.rel /\ h.relInf = d.relInf
    BY <1>1 DEF Daemons, SameAttempt, SameRecord, SameLine, SameCalls
  <2>2. PairAgentRelease(d) = AgentReleaseDrive(h)
    BY <1>2 DEF PairAgentRelease
  <2> HIDE DEF h
  <2>3. Agency(h)
    BY <1>2, <2>1 DEF Core, Agency, SameAttempt, SameLine
  <2>4. Core(h, y, q, f, w)
    <3>1. Quiet(d) => Quiet(h)
      BY <2>1 DEF Quiet
    <3> QED
      BY <2>1, <2>3, <3>1, AgencyChanges
  <2>5. Removes(d) => Removes(h)
    BY <2>1 DEF Removes, SameCalls
  <2>6. h.up # "down"
    BY <2>1 DEF SameLine
  <2> QED
    BY <2>1, <2>2, <2>4, <2>5, <2>6, AgentReleaseDriveKeeps
       DEF Keeps, SameAttempt, SameRecord, SameLine
<1>3. CASE ~d.areq
  BY <1>3 DEF PairAgentRelease, Keeps, SameAttempt, SameRecord, SameLine
<1> QED
  BY <1>2, <1>3

\* pair_agent_request asks to be the default agent once per attempt.
LEMMA PairAgentRequestKeeps ==
    ASSUME NEW d, NEW y, NEW q, NEW f, NEW w, Core(d, y, q, f, w), d.up # "down", d.step # "idle"
    PROVE  LET e == PairAgentRequest(d)
           IN  /\ Keeps(d, e, y, q, f, w) /\ SameAttempt(d, e) /\ SameRecord(d, e) /\ SameLine(d, e)
<1> DEFINE c == [k |-> "Default", id |-> d.id, life |-> d.life]
           h == [d EXCEPT !.areq = TRUE]
           u == Call(d, "Default", d.id)
           e == [u EXCEPT !.areq = TRUE]
<1>1. d \in Daemons
  BY DEF Core, Typed
<1>2. CASE d.reg /\ ~d.areq
  <2>1. /\ c \in Calls /\ u \in Daemons
        /\ SameAgency(d, u) /\ SameAttempt(d, u) /\ SameRecord(d, u) /\ SameLine(d, u)
        /\ u.req = Append(d.req, c) /\ u.pends = d.pends \cup {c}
    <3>1. d.id \in Nat
      BY <1>1 DEF Daemons
    <3> HIDE DEF u
    <3> QED
      BY <1>1, <3>1, CallIs DEF u, Kinds, PlainKinds
  <2> HIDE DEF u
  <2>2. /\ h \in Daemons /\ SameAttempt(d, h) /\ SameRecord(d, h) /\ SameLine(d, h) /\ SameCalls(d, h)
        /\ h.areq /\ h.reg = d.reg /\ h.regInf = d.regInf /\ h.rel = d.rel /\ h.relInf = d.relInf
    BY <1>1 DEF Daemons, SameAttempt, SameRecord, SameLine, SameCalls
  <2>3. /\ e \in Daemons /\ SameAgency(h, e) /\ SameAttempt(h, e) /\ SameRecord(h, e) /\ SameLine(h, e)
        /\ e.req = Append(h.req, c) /\ e.pends = h.pends \cup {c}
    BY <1>1, <2>1 DEF Daemons, SameAgency, SameAttempt, SameRecord, SameLine, SameCalls
  <2> HIDE DEF h, e
  <2>4. Agency(h)
    BY <1>2, <2>2 DEF Core, Agency, SameAttempt, SameLine
  <2>5. Core(h, y, q, f, w)
    <3>1. Quiet(d) => Quiet(h)
      BY <2>2 DEF Quiet
    <3> QED
      BY <2>2, <2>4, <3>1, AgencyChanges
  <2>8. /\ c.life = h.life /\ Flagged(h, c) /\ ~Once(h, c) /\ h.up # "down"
        /\ c.id = h.id /\ h.step # "idle" /\ h.areq
    BY <2>2 DEF Flagged, Once, SameLine, SameAttempt
  <2>9. Core(e, y, q, f, w)
    BY <2>1, <2>3, <2>5, <2>8, CallKeeps DEF PlainKinds
  <2>10. Removes(d) => Removes(e)
    <3>1. d.req \in Seq(Calls) /\ e.req = Append(d.req, c) /\ c.k # "CancelPairing"
      BY <1>1, <2>2, <2>3 DEF SameCalls, Daemons
    <3> QED
      BY <2>1, <3>1, CallRemoves
  <2>11. PairAgentRequest(d) = e
    BY <1>2 DEF PairAgentRequest, e, u
  <2> QED
    BY <2>2, <2>3, <2>9, <2>10, <2>11 DEF Keeps, SameAttempt, SameRecord, SameLine
<1>3. CASE ~(d.reg /\ ~d.areq)
  BY <1>3 DEF PairAgentRequest, Keeps, SameAttempt, SameRecord, SameLine
<1> QED
  BY <1>2, <1>3

-----------------------------------------------------------------------------
(* The attempt's functions.                                                  *)

FreeKinds == {"Objects", "PairConnect", "PairNotify", "PairTrust", "CancelPairing", "RemoveDevice",
              "Disconnect"}

\* bd_call, of a kind that no flag and no bond depend on.
LEMMA FreeCallKeeps ==
    ASSUME NEW d, NEW y, NEW q, NEW f, NEW w, NEW k \in FreeKinds, NEW id \in Nat,
           Core(d, y, q, f, w), d.up # "down", k \in PairKinds => id = d.id /\ d.step # "idle"
    PROVE  LET c == [k |-> k, id |-> id, life |-> d.life]
               e == Call(d, k, id)
           IN  /\ Core(e, y, q, f, w) /\ c \in Calls
               /\ SameAgency(d, e) /\ SameAttempt(d, e) /\ SameRecord(d, e) /\ SameLine(d, e)
               /\ e.req = Append(d.req, c) /\ d.req \in Seq(Calls)
               /\ e.pends = IF k \in PlainKinds THEN d.pends ELSE d.pends \cup {c}
               /\ k # "CancelPairing" => Keeps(d, e, y, q, f, w)
<1> DEFINE c == [k |-> k, id |-> id, life |-> d.life]
           e == Call(d, k, id)
<1>1. d \in Daemons /\ d.req \in Seq(Calls) /\ k \in Kinds
  BY DEF Core, Typed, Daemons, FreeKinds, Kinds
<1>2. /\ c \in Calls /\ e \in Daemons
      /\ SameAgency(d, e) /\ SameAttempt(d, e) /\ SameRecord(d, e) /\ SameLine(d, e)
      /\ e.req = Append(d.req, c)
      /\ e.pends = IF k \in PlainKinds THEN d.pends ELSE d.pends \cup {c}
  <2> HIDE DEF e
  <2> QED
    BY <1>1, CallIs DEF e
<1>3. Flagged(d, c) /\ ~Once(d, c) /\ c.k = k /\ c.id = id /\ c.life = d.life
  BY DEF Flagged, Once, FreeKinds
<1> HIDE DEF c, e
<1>4. Core(e, y, q, f, w)
  BY <1>2, <1>3, CallKeeps DEF FreeKinds
<1>5. k # "CancelPairing" => Keeps(d, e, y, q, f, w)
  BY <1>1, <1>2, <1>3, <1>4, CallRemoves DEF Keeps
<1> QED
  BY <1>1, <1>2, <1>4, <1>5 DEF c, e

\* The calls that are not the attempt's.
Rest(d, S) == {c \in S : ~(c.k \in PairKinds /\ c.id = d.id)}

\* pair_agent_release, field by field.
LEMMA PairAgentReleaseIs ==
    ASSUME NEW d \in Daemons
    PROVE  LET e == PairAgentRelease(d)
               calls == d.areq /\ d.bluez /\ ~d.relInf
               v == [k |-> "Unregister", id |-> 0, life |-> d.life]
           IN  /\ e \in Daemons /\ SameAttempt(d, e) /\ SameRecord(d, e) /\ SameLine(d, e)
               /\ ~e.areq /\ e.regInf = d.regInf
               /\ e.reg = (IF d.areq THEN FALSE ELSE d.reg)
               /\ e.rel = (IF d.areq THEN TRUE ELSE d.rel)
               /\ e.relInf = (IF calls THEN TRUE ELSE d.relInf)
               /\ e.req = (IF calls THEN Append(d.req, v) ELSE d.req)
               /\ e.pends = (IF calls THEN d.pends \cup {v} ELSE d.pends)
<1> DEFINE h == [d EXCEPT !.areq = FALSE, !.reg = FALSE, !.rel = TRUE]
           u == Call(h, "Unregister", 0)
           g == [u EXCEPT !.relInf = TRUE]
           v == [k |-> "Unregister", id |-> 0, life |-> d.life]
<1>1. CASE ~d.areq
  <2>1. PairAgentRelease(d) = d
    BY <1>1 DEF PairAgentRelease
  <2> QED
    BY <1>1, <2>1 DEF SameAttempt, SameRecord, SameLine
<1>2. /\ h \in Daemons /\ SameAttempt(d, h) /\ SameRecord(d, h) /\ SameLine(d, h)
      /\ SameCalls(d, h) /\ ~h.areq /\ ~h.reg /\ h.rel /\ h.regInf = d.regInf /\ h.relInf = d.relInf
      /\ h.reg = FALSE /\ h.rel = TRUE
  BY DEF Daemons, SameAttempt, SameRecord, SameLine, SameCalls
<1>3. CASE d.areq /\ ~(d.bluez /\ ~d.relInf)
  <2>1. PairAgentRelease(d) = AgentReleaseDrive(h)
    BY <1>3 DEF PairAgentRelease
  <2> HIDE DEF h
  <2>2. AgentReleaseDrive(h) = h
    BY <1>2, <1>3 DEF AgentReleaseDrive, SameLine
  <2> QED
    BY <1>2, <1>3, <2>1, <2>2 DEF SameCalls
<1>4. CASE d.areq /\ d.bluez /\ ~d.relInf
  <2>1. PairAgentRelease(d) = AgentReleaseDrive(h)
    BY <1>4 DEF PairAgentRelease
  <2> HIDE DEF h
  <2>2. AgentReleaseDrive(h) = g
    BY <1>2, <1>4 DEF AgentReleaseDrive, SameLine
  <2>3. /\ u \in Daemons
        /\ SameAgency(h, u) /\ SameAttempt(h, u) /\ SameRecord(h, u) /\ SameLine(h, u)
        /\ u.req = Append(h.req, [k |-> "Unregister", id |-> 0, life |-> h.life])
        /\ u.pends = h.pends \cup {[k |-> "Unregister", id |-> 0, life |-> h.life]}
    <3> HIDE DEF u
    <3> QED
      BY <1>2, CallIs DEF u, Kinds, PlainKinds
  <2> HIDE DEF u
  <2>4. /\ g \in Daemons /\ SameAttempt(u, g) /\ SameRecord(u, g) /\ SameLine(u, g) /\ SameCalls(u, g)
        /\ g.areq = u.areq /\ g.reg = u.reg /\ g.rel = u.rel /\ g.regInf = u.regInf /\ g.relInf
        /\ g.relInf = TRUE
    BY <2>3 DEF Daemons, SameAttempt, SameRecord, SameLine, SameCalls
  <2> HIDE DEF g
  <2>5. u.req = Append(d.req, v) /\ u.pends = d.pends \cup {v}
    BY <1>2, <2>3 DEF SameLine, SameCalls
  <2> HIDE DEF v
  <2>6. /\ SameAttempt(d, g) /\ SameRecord(d, g) /\ SameLine(d, g)
        /\ ~g.areq /\ g.regInf = d.regInf /\ g.reg = FALSE /\ g.rel = TRUE
        /\ g.req = Append(d.req, v) /\ g.pends = d.pends \cup {v}
    BY <1>2, <2>3, <2>4, <2>5 DEF SameAgency, SameAttempt, SameRecord, SameLine, SameCalls
  <2> QED
    BY <1>4, <2>1, <2>2, <2>4, <2>6 DEF v
<1> QED
  BY <1>1, <1>3, <1>4

\* Two daemons alike in their agent and their line give it up alike.
LEMMA ReleaseAlike ==
    ASSUME NEW g \in Daemons, NEW h \in Daemons, SameAgency(g, h), SameLine(g, h), h.req = g.req
    PROVE  LET r == PairAgentRelease(g)
               x == PairAgentRelease(h)
           IN  /\ x \in Daemons /\ SameAgency(r, x) /\ SameLine(r, x) /\ x.req = r.req
               /\ SameAttempt(h, x) /\ SameRecord(h, x) /\ SameLine(h, x)
               /\ \A d : h.pends = Rest(d, g.pends) => x.pends = Rest(d, r.pends)
<1> DEFINE r == PairAgentRelease(g)
           x == PairAgentRelease(h)
           v == [k |-> "Unregister", id |-> 0, life |-> g.life]
           calls == g.areq /\ g.bluez /\ ~g.relInf
<1>1. /\ r \in Daemons /\ SameLine(g, r) /\ ~r.areq /\ r.regInf = g.regInf
      /\ r.reg = (IF g.areq THEN FALSE ELSE g.reg) /\ r.rel = (IF g.areq THEN TRUE ELSE g.rel)
      /\ r.relInf = (IF calls THEN TRUE ELSE g.relInf)
      /\ r.req = (IF calls THEN Append(g.req, v) ELSE g.req)
      /\ r.pends = (IF calls THEN g.pends \cup {v} ELSE g.pends)
  <2> HIDE DEF r
  <2> QED
    BY PairAgentReleaseIs DEF r
<1>2. /\ x \in Daemons /\ SameAttempt(h, x) /\ SameRecord(h, x) /\ SameLine(h, x)
      /\ ~x.areq /\ x.regInf = g.regInf
      /\ x.reg = (IF g.areq THEN FALSE ELSE g.reg) /\ x.rel = (IF g.areq THEN TRUE ELSE g.rel)
      /\ x.relInf = (IF calls THEN TRUE ELSE g.relInf)
      /\ x.req = (IF calls THEN Append(g.req, v) ELSE g.req)
      /\ x.pends = (IF calls THEN h.pends \cup {v} ELSE h.pends)
  <2> DEFINE v1 == [k |-> "Unregister", id |-> 0, life |-> h.life]
             calls1 == h.areq /\ h.bluez /\ ~h.relInf
  <2>1. /\ x \in Daemons /\ SameAttempt(h, x) /\ SameRecord(h, x) /\ SameLine(h, x)
        /\ ~x.areq /\ x.regInf = h.regInf
        /\ x.reg = (IF h.areq THEN FALSE ELSE h.reg) /\ x.rel = (IF h.areq THEN TRUE ELSE h.rel)
        /\ x.relInf = (IF calls1 THEN TRUE ELSE h.relInf)
        /\ x.req = (IF calls1 THEN Append(h.req, v1) ELSE h.req)
        /\ x.pends = (IF calls1 THEN h.pends \cup {v1} ELSE h.pends)
    <3> HIDE DEF x
    <3> QED
      BY PairAgentReleaseIs DEF x
  <2>2. v1 = v /\ calls1 = calls
    BY DEF SameAgency, SameLine
  <2> HIDE DEF x, v, v1, calls, calls1
  <2> QED
    BY <2>1, <2>2 DEF SameAgency
<1>3. v.k \notin PairKinds
  BY DEF PairKinds
<1> HIDE DEF r, x, v, calls
<1>4. \A d : h.pends = Rest(d, g.pends) => x.pends = Rest(d, r.pends)
  BY <1>1, <1>2, <1>3 DEF Rest
<1>5. SameAgency(r, x) /\ SameLine(r, x) /\ x.req = r.req
  BY <1>1, <1>2 DEF SameAgency, SameLine, Daemons
<1> QED
  BY <1>2, <1>4, <1>5 DEF r, x

\* Whether the attempt's calls are given up before or after its agent makes no difference.
LEMMA ReleaseCommutes ==
    ASSUME NEW d \in Daemons
    PROVE  LET r == PairAgentRelease(d)
               x == PairAgentRelease([CancelAttempt(d) EXCEPT !.step = "idle"])
           IN  /\ x \in Daemons /\ SameAgency(r, x) /\ SameRecord(r, x) /\ SameLine(r, x)
               /\ x.step = "idle" /\ x.id = d.id /\ x.req = r.req /\ x.pends = Rest(d, r.pends)
<1> DEFINE m == [CancelAttempt(d) EXCEPT !.step = "idle"]
<1>1. /\ m \in Daemons /\ SameAgency(d, m) /\ SameRecord(d, m) /\ SameLine(d, m)
      /\ m.step = "idle" /\ m.id = d.id /\ m.req = d.req /\ m.pends = Rest(d, d.pends)
  BY DEF CancelAttempt, Daemons, Steps, SameAgency, SameRecord, SameLine, Rest
<1> DEFINE r == PairAgentRelease(d)
           x == PairAgentRelease(m)
<1> HIDE DEF m
<1>2. SameRecord(d, r)
  BY PairAgentReleaseIs
<1>3. /\ x \in Daemons /\ SameAgency(r, x) /\ SameLine(r, x) /\ x.req = r.req
      /\ SameAttempt(m, x) /\ SameRecord(m, x)
      /\ m.pends = Rest(d, d.pends) => x.pends = Rest(d, r.pends)
  <2> HIDE DEF r, x
  <2> QED
    BY <1>1, ReleaseAlike DEF r, x
<1> HIDE DEF r, x
<1>4. SameRecord(r, x) /\ x.step = "idle" /\ x.id = d.id
  BY <1>1, <1>2, <1>3 DEF SameAttempt, SameRecord
<1> QED
  BY <1>1, <1>3, <1>4 DEF m, r, x

\* The attempt fails, and BlueZ has been asked for what there was to undo.
LEMMA AttemptFails ==
    ASSUME NEW d, NEW e, NEW y, NEW q, NEW f, NEW w,
           Core(d, y, q, f, w), e \in Daemons, d.step # "idle", ~d.areq,
           SameAgency(d, e), SameRecord(d, e), SameLine(d, e), e.req = d.req,
           e.pends = Rest(d, d.pends), e.step = "idle", e.id = d.id,
           \/ ~y.dev
           \/ ~d.bonded /\ d.step # "bond"
           \/ /\ Asks(d.req, "RemoveDevice")
              /\ d.step = "bond" => \E j \in 1 .. Len(d.req) :
                     /\ d.req[j].k = "CancelPairing"
                     /\ \A i \in 1 .. Len(d.req) : d.req[i].k = "PairBond" => i < j
    PROVE  Core(e, y, q, f, w)
<1>1. d.s = "none" /\ y \in Bluezs /\ d.req \in Seq(Calls) /\ d \in Daemons
  BY DEF Core, Typed, Attempted, Daemons
<1>2. Recorded(e) /\ Filed(e, f) /\ Flags(e, f) /\ e.inf = d.inf /\ e.s # "removed"
  BY <1>1 DEF Core, Recorded, Filed, Flags, RecordsText, SameRecord, SameLine
<1>3. e.pends = {c \in d.pends : ~(c.k \in PairKinds /\ c.id = d.id)}
  BY DEF Rest
<1>4. Bonded(e, y, f)
  BY <1>1 DEF Core, Bonded, Bus, SameLine
<1>5. /\ \A i \in 1 .. Len(d.req) : d.req[i].k = "PairBond" /\ Awaited(d, d.req[i]) =>
             AskedAfter(d.req, i, {"CancelPairing", "Leave"}) \/ ~y.dev
      /\ \A c \in y.busy : c.k = "PairBond" /\ Awaited(d, c) =>
             AskedAfter(d.req, 0, {"CancelPairing", "Leave"})
  <2>1. CASE ~y.dev
    BY <2>1 DEF Core, Bus
  <2>2. CASE ~d.bonded /\ d.step # "bond"
    BY <2>2 DEF Awaited
  <2>3. CASE d.step # "bond"
    BY <2>3 DEF Awaited
  <2>4. ASSUME NEW j \in 1 .. Len(d.req), d.req[j].k = "CancelPairing",
               \A i \in 1 .. Len(d.req) : d.req[i].k = "PairBond" => i < j
        PROVE  /\ \A i \in 1 .. Len(d.req) : d.req[i].k = "PairBond" => AskedAfter(d.req, i, {"CancelPairing", "Leave"})
               /\ AskedAfter(d.req, 0, {"CancelPairing", "Leave"})
    <3>1. /\ \A i \in 1 .. Len(d.req) : d.req[i].k = "PairBond" => j \in i + 1 .. Len(d.req)
          /\ j \in 0 + 1 .. Len(d.req)
      BY <1>1, <2>4
    <3> QED
      BY <2>4, <3>1 DEF AskedAfter
  <2> QED
    BY <2>1, <2>2, <2>3, <2>4
<1> QED
  BY <1>2, <1>3, <1>4, <1>5, AttemptEnds

\* A device that is gone is known to be, or the message that it is gone has been read.
Fit(d, y) == d.step # "idle" => d.dev.known \/ ~y.dev

\* What bd_pair_fail leaves.
Failed(d, e) == SameRecord(d, e) /\ SameLine(d, e) /\ e.step = "idle" /\ e.id = d.id /\ ~e.areq

\* bd_pair_fail asks BlueZ to undo what the attempt may have done.
LEMMA PairFailKeeps ==
    ASSUME NEW d, NEW y, NEW q, NEW f, NEW w, Core(d, y, q, f, w), d.up # "down", Fit(d, y)
    PROVE  Keeps(d, PairFail(d), y, q, f, w) /\ Failed(d, PairFail(d))
<1> DEFINE r == PairAgentRelease(d)
           x == PairAgentRelease([CancelAttempt(d) EXCEPT !.step = "idle"])
<1>1. d \in Daemons /\ 0 \in Nat
  BY DEF Core, Typed
<1>2. /\ Core(r, y, q, f, w) /\ (Removes(d) => Removes(r)) /\ ~r.areq
      /\ SameAttempt(d, r) /\ SameRecord(d, r) /\ SameLine(d, r)
  <2> HIDE DEF r
  <2> QED
    BY PairAgentReleaseKeeps DEF r, Keeps
<1>3. /\ x \in Daemons /\ SameAgency(r, x) /\ SameRecord(r, x) /\ SameLine(r, x)
      /\ x.step = "idle" /\ x.id = d.id /\ x.req = r.req /\ x.pends = Rest(d, r.pends)
  <2> HIDE DEF r, x
  <2> QED
    BY <1>1, ReleaseCommutes DEF r, x
<1>4. CASE d.step = "idle"
  <2>1. PairFail(d) = d
    BY <1>4 DEF PairFail
  <2> QED
    BY <1>4, <2>1 DEF Keeps, Failed, SameRecord, SameLine, Core, Agency
<1>5. ASSUME d.step # "idle", ~y.dev \/ (~d.bonded /\ d.step # "bond")
      PROVE  Keeps(d, x, y, q, f, w) /\ Failed(d, x)
  <2>1. Core(x, y, q, f, w)
    <3>1. r.step # "idle" /\ x.id = r.id /\ x.pends = Rest(r, r.pends)
          /\ (~y.dev \/ (~r.bonded /\ r.step # "bond"))
      BY <1>2, <1>3, <1>5 DEF SameAttempt, Rest
    <3> HIDE DEF r, x
    <3> QED
      BY <1>2, <1>3, <3>1, AttemptFails
  <2> HIDE DEF r, x
  <2> QED
    BY <1>2, <1>3, <2>1 DEF Keeps, Failed, Removes, SameAgency, SameRecord, SameLine
<1>6. CASE d.step # "idle" /\ (~d.bluez \/ ~d.dev.known)
  <2>1. PairFail(d) = x
    BY <1>6 DEF PairFail
  <2>2. ~y.dev
    BY <1>6 DEF Core, Attempted, Fit
  <2> QED
    BY <1>5, <1>6, <2>1, <2>2
<1>7. CASE d.step # "idle" /\ d.bluez /\ d.dev.known /\ ~(d.bonded \/ d.step = "bond") /\ d.byUs
  <2> DEFINE g == Call(x, "Disconnect", 0)
  <2>1. PairFail(d) = g
    BY <1>7 DEF PairFail
  <2>2. Core(x, y, q, f, w) /\ (Removes(d) => Removes(x)) /\ Failed(d, x) /\ x.up # "down"
    BY <1>5, <1>7 DEF Keeps, Failed, SameLine
  <2> HIDE DEF x, g
  <2>3. /\ Keeps(x, g, y, q, f, w)
        /\ SameAgency(x, g) /\ SameAttempt(x, g) /\ SameRecord(x, g) /\ SameLine(x, g)
    BY <1>1, <2>2, FreeCallKeeps DEF FreeKinds, PairKinds, g
  <2>4. Keeps(d, g, y, q, f, w)
    BY <2>2, <2>3 DEF Keeps
  <2>5. Failed(d, g)
    <3>1. SameRecord(d, g) /\ SameLine(d, g)
      BY <2>2, <2>3 DEF Failed, SameRecord, SameLine
    <3>2. g.step = "idle" /\ g.id = d.id /\ ~g.areq
      BY <2>2, <2>3 DEF Failed, SameAgency, SameAttempt
    <3> QED
      BY <3>1, <3>2 DEF Failed
  <2> QED
    BY <2>1, <2>4, <2>5
<1>8. CASE d.step # "idle" /\ d.bluez /\ d.dev.known /\ ~(d.bonded \/ d.step = "bond") /\ ~d.byUs
  <2>1. PairFail(d) = x
    BY <1>8 DEF PairFail
  <2> QED
    BY <1>5, <1>8, <2>1
<1>9. CASE d.step # "idle" /\ d.bluez /\ d.dev.known /\ (d.bonded \/ d.step = "bond")
  <2> DEFINE p == IF d.step = "bond" THEN Call(r, "CancelPairing", 0) ELSE r
             a == IF d.step = "bond" THEN Call(x, "CancelPairing", 0) ELSE x
             g == Call(p, "RemoveDevice", 0)
             h == Call(a, "RemoveDevice", 0)
             c1 == [k |-> "CancelPairing", id |-> 0, life |-> d.life]
             c2 == [k |-> "RemoveDevice", id |-> 0, life |-> d.life]
             t == IF d.step = "bond" THEN Append(r.req, c1) ELSE r.req
  <2>1. PairFail(d) = h
    BY <1>9 DEF PairFail
  <2>2. r \in Daemons /\ r.up # "down" /\ r.life = d.life /\ x.life = d.life /\ d.life \in Nat
        /\ r.req \in Seq(Calls)
    BY <1>1, <1>2, <1>3 DEF Core, Typed, SameLine, Daemons
  <2>3. c1 \in Calls /\ c2 \in Calls /\ c1.k = "CancelPairing" /\ c2.k = "RemoveDevice"
    BY <2>2 DEF Calls, Kinds
  <2> HIDE DEF r, x, c1, c2
  <2>4. /\ Core(p, y, q, f, w) /\ p \in Daemons /\ p.req = t /\ p.pends = r.pends
        /\ SameAgency(r, p) /\ SameAttempt(r, p) /\ SameRecord(r, p) /\ SameLine(r, p)
    <3>1. CASE d.step = "bond"
      <4> DEFINE m == Call(r, "CancelPairing", 0)
      <4>1. p = m
        BY <3>1
      <4> HIDE DEF m
      <4>2. /\ Core(m, y, q, f, w) /\ m.pends = r.pends
            /\ SameAgency(r, m) /\ SameAttempt(r, m) /\ SameRecord(r, m) /\ SameLine(r, m)
            /\ m.req = Append(r.req, [k |-> "CancelPairing", id |-> 0, life |-> r.life])
        BY <1>1, <1>2, <2>2, FreeCallKeeps DEF FreeKinds, PairKinds, PlainKinds, m
      <4>3. m \in Daemons /\ m.req = t
        BY <2>2, <3>1, <4>2 DEF Core, Typed, c1
      <4> QED
        BY <4>1, <4>2, <4>3
    <3>2. CASE d.step # "bond"
      BY <1>2, <2>2, <3>2 DEF SameAgency, SameAttempt, SameRecord, SameLine
    <3> QED
      BY <3>1, <3>2
  <2>5. /\ a \in Daemons /\ a.req = t /\ a.pends = x.pends
        /\ SameAgency(x, a) /\ SameAttempt(x, a) /\ SameRecord(x, a) /\ SameLine(x, a)
    <3>1. CASE d.step = "bond"
      <4> DEFINE m == Call(x, "CancelPairing", 0)
      <4>1. a = m
        BY <3>1
      <4> HIDE DEF m
      <4>2. /\ m \in Daemons /\ m.pends = x.pends
            /\ SameAgency(x, m) /\ SameAttempt(x, m) /\ SameRecord(x, m) /\ SameLine(x, m)
            /\ m.req = Append(x.req, [k |-> "CancelPairing", id |-> 0, life |-> x.life])
        BY <1>1, <1>3, CallIs DEF Kinds, PlainKinds, m
      <4>3. m.req = t
        BY <1>3, <2>2, <3>1, <4>2 DEF c1
      <4> QED
        BY <4>1, <4>2, <4>3
    <3>2. CASE d.step # "bond"
      BY <1>3, <2>2, <3>2 DEF SameAgency, SameAttempt, SameRecord, SameLine
    <3> QED
      BY <3>1, <3>2
  <2>6. p.life = d.life /\ a.life = d.life /\ p.up # "down"
    BY <2>2, <2>4, <2>5 DEF SameLine
  <2> HIDE DEF p, a, g, h
  <2>7. /\ Core(g, y, q, f, w) /\ g.req = Append(t, c2) /\ g.pends = r.pends
        /\ SameAgency(p, g) /\ SameAttempt(p, g) /\ SameRecord(p, g) /\ SameLine(p, g)
    <3>1. c2 = [k |-> "RemoveDevice", id |-> 0, life |-> p.life]
      BY <2>6 DEF c2
    <3> QED
      <4> HIDE DEF t
      <4>1. /\ Core(g, y, q, f, w) /\ g.pends = p.pends
            /\ g.req = Append(p.req, [k |-> "RemoveDevice", id |-> 0, life |-> p.life])
            /\ SameAgency(p, g) /\ SameAttempt(p, g) /\ SameRecord(p, g) /\ SameLine(p, g)
        BY <1>1, <2>4, <2>6, FreeCallKeeps DEF FreeKinds, PairKinds, PlainKinds, g
      <4> QED
        BY <2>4, <3>1, <4>1
  <2>8. /\ h \in Daemons /\ h.req = Append(t, c2) /\ h.pends = x.pends
        /\ SameAgency(a, h) /\ SameAttempt(a, h) /\ SameRecord(a, h) /\ SameLine(a, h)
    <3>1. c2 = [k |-> "RemoveDevice", id |-> 0, life |-> a.life]
      BY <2>6 DEF c2
    <3> QED
      <4> HIDE DEF t
      <4>1. /\ h \in Daemons /\ h.pends = a.pends
            /\ h.req = Append(a.req, [k |-> "RemoveDevice", id |-> 0, life |-> a.life])
            /\ SameAgency(a, h) /\ SameAttempt(a, h) /\ SameRecord(a, h) /\ SameLine(a, h)
        BY <1>1, <2>5, CallIs DEF Kinds, PlainKinds, h
      <4> QED
        BY <2>5, <3>1, <4>1
  <2>9. /\ h.req = g.req /\ h.pends = Rest(g, g.pends) /\ h.step = "idle" /\ h.id = g.id /\ ~g.areq
        /\ SameAgency(g, h) /\ SameRecord(g, h) /\ SameLine(g, h) /\ g.step = d.step /\ g.step # "idle"
    BY <1>2, <1>3, <1>9, <2>4, <2>5, <2>7, <2>8
       DEF Rest, SameAgency, SameAttempt, SameRecord, SameLine
  <2>10. t \in Seq(Calls) /\ Append(t, c2) \in Seq(Calls)
    BY <2>2, <2>3
  <2>11. /\ Len(t) \in Nat /\ Len(Append(t, c2)) = Len(t) + 1 /\ Append(t, c2)[Len(t) + 1] = c2
         /\ \A i \in 1 .. Len(t) : Append(t, c2)[i] = t[i]
         /\ \A i \in 1 .. Len(Append(t, c2)) : i \in 1 .. Len(t) \/ i = Len(t) + 1
    BY <2>3, <2>10, AppendIs
  <2>12. d.step = "bond" =>
             /\ Len(t) = Len(r.req) + 1 /\ t[Len(t)] = c1 /\ Len(r.req) \in Nat
             /\ \A i \in 1 .. Len(t) : i \in 1 .. Len(r.req) \/ i = Len(t)
    BY <2>2, <2>3, AppendIs
  <2>13. Asks(g.req, "RemoveDevice")
    BY <2>3, <2>7, <2>11 DEF Asks
  <2>14. d.step = "bond" => \E j \in 1 .. Len(g.req) :
             /\ g.req[j].k = "CancelPairing"
             /\ \A i \in 1 .. Len(g.req) : g.req[i].k = "PairBond" => i < j
    <3> SUFFICES ASSUME d.step = "bond"
                 PROVE  \E j \in 1 .. Len(g.req) :
                           /\ g.req[j].k = "CancelPairing"
                           /\ \A i \in 1 .. Len(g.req) : g.req[i].k = "PairBond" => i < j
      OBVIOUS
    <3> HIDE DEF t
    <3>1. Len(t) \in 1 .. Len(g.req) /\ g.req[Len(t)].k = "CancelPairing"
      BY <2>3, <2>7, <2>11, <2>12
    <3>2. \A i \in 1 .. Len(g.req) : g.req[i].k = "PairBond" => i < Len(t)
      BY <2>3, <2>7, <2>11, <2>12
    <3> QED
      BY <3>1, <3>2
  <2>15. Core(h, y, q, f, w)
    BY <2>7, <2>8, <2>9, <2>13, <2>14, AttemptFails
  <2>16. Removes(r) => Removes(h)
    <3> SUFFICES ASSUME Removes(r), NEW i \in 1 .. Len(h.req), h.req[i].k = "CancelPairing"
                 PROVE  AskedAfter(h.req, i, {"RemoveDevice"})
      BY DEF Removes
    <3> HIDE DEF t
    <3>1. Len(t) + 1 \in i + 1 .. Len(h.req)
      BY <2>3, <2>8, <2>11
    <3> QED
      BY <2>3, <2>8, <2>11, <3>1 DEF AskedAfter
  <2> QED
    BY <1>2, <1>3, <2>1, <2>4, <2>5, <2>7, <2>8, <2>9, <2>15, <2>16
       DEF Keeps, Failed, SameAgency, SameAttempt, SameRecord, SameLine
<1> QED
  BY <1>4, <1>6, <1>7, <1>8, <1>9

-----------------------------------------------------------------------------
(* The records' functions.                                                   *)

\* Everything but the child that saves, and what it is to save.
SameButSave(d, e) ==
    /\ SameAgency(d, e) /\ SameAttempt(d, e) /\ SameCalls(d, e) /\ SameLine(d, e)
    /\ e.s = d.s /\ e.sid = d.sid /\ e.inf = d.inf /\ e.frev = d.frev /\ e.rrev = d.rrev
    /\ e.rec = d.rec /\ e.saved = d.saved

\* bd_save_start, field by field.
LEMMA SaveStartIs ==
    ASSUME NEW d \in Daemons
    PROVE  LET e == SaveStart(d)
           IN  /\ e \in Daemons /\ SameButSave(d, e)
               /\ \/ e = d
                  \/ /\ d.pending /\ ~e.pending /\ e.srev = d.rec
                     /\ e.save.at = "run" /\ e.save.text = RecordsText(d)
<1> DEFINE c == Saver(RecordsText(d))
           e == [d EXCEPT !.pending = FALSE, !.srev = d.rec, !.save = c]
<1>1. c \in Savers /\ c.at = "run" /\ c.text = RecordsText(d)
  <2>1. RecordsText(d) \in Texts
    BY DEF Daemons, RecordsText, Texts
  <2> QED
    BY <2>1 DEF Saver, Savers
<1> HIDE DEF c
<1>2. /\ e \in Daemons /\ ~e.pending /\ e.srev = d.rec /\ e.save = c
  BY <1>1 DEF Daemons
<1>3. SameAgency(d, e) /\ SameAttempt(d, e)
  BY DEF Daemons, SameAgency, SameAttempt
<1>4. SameCalls(d, e) /\ SameLine(d, e)
  BY DEF Daemons, SameCalls, SameLine
<1>5. /\ e.s = d.s /\ e.sid = d.sid /\ e.inf = d.inf /\ e.frev = d.frev /\ e.rrev = d.rrev
      /\ e.rec = d.rec /\ e.saved = d.saved
  BY DEF Daemons
<1>6. CASE d.pending /\ d.save.at = "none" /\ ~d.wait
  <2>1. SaveStart(d) = e
    BY <1>6 DEF SaveStart, c
  <2> HIDE DEF e
  <2> QED
    BY <1>1, <1>2, <1>3, <1>4, <1>5, <1>6, <2>1 DEF SameButSave
<1>7. CASE ~(d.pending /\ d.save.at = "none" /\ ~d.wait)
  <2>1. SaveStart(d) = d
    BY <1>7 DEF SaveStart
  <2> QED
    BY <2>1 DEF SameButSave, SameAgency, SameAttempt, SameCalls, SameLine
<1> QED
  BY <1>6, <1>7

\* bd_save_start begins to save what the records are.
LEMMA SaveStartKeeps ==
    ASSUME NEW d, NEW y, NEW q, NEW f, NEW w, Core(d, y, q, f, w)
    PROVE  Keeps(d, SaveStart(d), y, q, f, w) /\ SameButSave(d, SaveStart(d))
<1> DEFINE e == SaveStart(d)
<1>1. d \in Daemons
  BY DEF Core, Typed
<1>2. /\ e \in Daemons /\ SameButSave(d, e)
      /\ \/ e = d
         \/ /\ d.pending /\ ~e.pending /\ e.srev = d.rec
            /\ e.save.at = "run" /\ e.save.text = RecordsText(d)
  <2> HIDE DEF e
  <2> QED
    BY <1>1, SaveStartIs DEF e
<1> HIDE DEF e
<1>3. Removes(d) => Removes(e)
  BY <1>2 DEF Removes, SameButSave, SameCalls
<1>4. CASE e # d
  <2>1. RecordsText(e) = RecordsText(d)
    BY <1>2 DEF RecordsText, SameButSave
  <2>2. d.rec \in Nat /\ d.srev \in Nat /\ d.saved \in Nat
    BY <1>1 DEF Daemons
  <2>3. Recorded(e)
    BY <1>2, <1>4, <2>1, <2>2 DEF Core, Recorded, SameButSave, SameLine
  <2>4. Filed(e, f) /\ Bonded(e, y, f)
    BY <1>2, <1>4, <2>1 DEF Core, Filed, Bonded, SameButSave, SameLine, SameAttempt, SameCalls
  <2>5. Flags(e, f)
    <3>1. Asks(d.req, "Forget") => RecordsText(d) # "saved"
      BY DEF Core, Flags, RecordsText
    <3> QED
      BY <1>2, <1>4, <3>1 DEF Core, Flags, SameButSave, SameCalls
  <2>6. Core(e, y, q, f, w)
    <3>1. /\ e.up = d.up /\ e.bluez = d.bluez /\ e.dev = d.dev /\ e.life = d.life /\ e.loaded = d.loaded
          /\ SameAgency(d, e) /\ SameAttempt(d, e) /\ SameCalls(d, e)
          /\ e.inf = d.inf /\ e.sid = d.sid /\ e.s = d.s
      BY <1>2 DEF SameButSave, SameLine
    <3>2. (e.up = "down" => ~e.loaded) /\ (e.step # "idle" => e.loaded /\ e.s = "none")
          /\ (e.s = "removed" => y.bond # "ours")
      BY <3>1 DEF Core, Attempted, Bonding, SameAttempt
    <3> QED
      BY <1>2, <2>3, <2>4, <2>5, <3>1, <3>2, RecordChanges
  <2> QED
    BY <1>2, <1>3, <2>6 DEF Keeps, e
<1>5. CASE e = d
  BY <1>2, <1>5 DEF Keeps, e
<1> QED
  BY <1>4, <1>5

\* The records change, to be saved again.
LEMMA RecordSaves ==
    ASSUME NEW d, NEW e, NEW y, NEW q, NEW f, NEW w, Core(d, y, q, f, w), e \in Daemons,
           SameAgency(d, e), SameAttempt(d, e), SameCalls(d, e), SameLine(d, e),
           d.s # "none", ~d.inf, ~e.inf, e.rec = d.rec + 1, e.saved = d.saved,
           \/ e.srev = d.srev /\ e.save = d.save
           \/ e.srev = e.rec /\ e.save.at = "run" /\ e.save.text = RecordsText(e),
           e.s \in {"forget", "removed"}, e.s = "forget" => e.frev = e.rec,
           e.s = "removed" => e.rrev = e.rec /\ y.bond # "ours"
    PROVE  Keeps(d, e, y, q, f, w)
<1>1. d \in Daemons /\ d.rec \in Nat /\ d.srev \in Nat /\ d.saved \in Nat
  BY DEF Core, Typed, Daemons
<1>2. d.loaded /\ e.loaded /\ d.step = "idle" /\ e.step = "idle" /\ d.up # "down"
  BY DEF Core, Recorded, Attempted, SameLine, SameAttempt
<1>3. d.saved <= d.srev /\ d.srev <= d.rec /\ e.rec # d.srev /\ e.rec # d.saved
  BY <1>1 DEF Core, Recorded
<1>4. Recorded(e)
  BY <1>1, <1>2, <1>3 DEF Recorded
<1>5. Filed(e, f) /\ Bonded(e, y, f)
  BY <1>1, <1>2, <1>3 DEF Core, Filed, Bonded
<1>6. Flags(e, f)
  BY DEF Core, Flags, RecordsText, SameCalls
<1>7. Core(e, y, q, f, w)
  BY <1>2, <1>4, <1>5, <1>6, RecordChanges DEF SameLine
<1> QED
  BY <1>7 DEF Keeps, Removes, SameCalls

\* forget_finish marks a sensor that BlueZ does not have any more.
LEMMA ForgetFinishKeeps ==
    ASSUME NEW d, NEW y, NEW q, NEW f, NEW w, Core(d, y, q, f, w),
           d.s \in {"forget", "removed"}, ~d.inf, y.bond # "ours"
    PROVE  LET e == ForgetFinish(d)
           IN  /\ Keeps(d, e, y, q, f, w) /\ SameAttempt(d, e) /\ SameLine(d, e) /\ e.s = "removed"
<1> DEFINE h == [[d EXCEPT !.s = "removed"] EXCEPT !.rec = @ + 1, !.pending = TRUE]
           p == SaveStart(h)
           e == [p EXCEPT !.rrev = p.rec]
<1>1. d \in Daemons
  BY DEF Core, Typed
<1>2. CASE d.s = "removed"
  <2>1. ForgetFinish(d) = d
    BY <1>2 DEF ForgetFinish
  <2> QED
    BY <1>2, <2>1 DEF Keeps, SameAttempt, SameLine
<1>3. CASE d.s = "forget"
  <2>1. ForgetFinish(d) = e
    BY <1>3 DEF ForgetFinish, SaveRecords
  <2>2. /\ h \in Daemons /\ h.s = "removed" /\ h.rec = d.rec + 1 /\ h.inf = d.inf
        /\ h.saved = d.saved /\ h.srev = d.srev /\ h.save = d.save
    <3> DEFINE g == [d EXCEPT !.s = "removed"]
               x == [g EXCEPT !.rec = @ + 1, !.pending = TRUE]
    <3>1. /\ g \in Daemons /\ g.s = "removed" /\ g.rec = d.rec /\ g.inf = d.inf
          /\ g.saved = d.saved /\ g.srev = d.srev /\ g.save = d.save
      BY <1>1 DEF Daemons
    <3> HIDE DEF g
    <3>2. g.rec \in Nat
      BY <3>1 DEF Daemons
    <3>3. x = [g EXCEPT !.rec = g.rec + 1, !.pending = TRUE]
      OBVIOUS
    <3>4. g.rec + 1 \in Nat
      BY <3>2
    <3>5. /\ x \in Daemons /\ x.s = g.s /\ x.rec = g.rec + 1 /\ x.inf = g.inf
          /\ x.saved = g.saved /\ x.srev = g.srev /\ x.save = g.save
      BY <3>1, <3>3, <3>4 DEF Daemons
    <3> QED
      BY <3>1, <3>5 DEF g
  <2>3. SameAgency(d, h) /\ SameAttempt(d, h) /\ SameCalls(d, h) /\ SameLine(d, h)
    BY <1>1 DEF Daemons, SameAgency, SameAttempt, SameCalls, SameLine
  <2> HIDE DEF h
  <2>4. /\ p \in Daemons /\ SameButSave(h, p)
        /\ \/ p = h
           \/ p.srev = h.rec /\ p.save.at = "run" /\ p.save.text = RecordsText(h)
    <3> HIDE DEF p
    <3> QED
      BY <2>2, SaveStartIs DEF p
  <2> HIDE DEF p
  <2>5. /\ e \in Daemons /\ e.s = p.s /\ e.inf = p.inf /\ e.rec = p.rec /\ e.saved = p.saved
        /\ e.srev = p.srev /\ e.save = p.save /\ e.rrev = p.rec
    BY <2>4 DEF Daemons
  <2>6. SameAgency(p, e) /\ SameAttempt(p, e) /\ SameCalls(p, e) /\ SameLine(p, e)
    BY <2>4 DEF Daemons, SameAgency, SameAttempt, SameCalls, SameLine
  <2> HIDE DEF e
  <2>7. SameAgency(d, e) /\ SameAttempt(d, e) /\ SameCalls(d, e) /\ SameLine(d, e)
    BY <2>3, <2>4, <2>6 DEF SameButSave, SameAgency, SameAttempt, SameCalls, SameLine
  <2>8. /\ e.s = "removed" /\ ~e.inf /\ e.rec = d.rec + 1 /\ e.saved = d.saved /\ e.rrev = e.rec
        /\ \/ e.srev = d.srev /\ e.save = d.save
           \/ e.srev = e.rec /\ e.save.at = "run" /\ e.save.text = RecordsText(e)
    BY <2>2, <2>4, <2>5 DEF SameButSave, RecordsText
  <2>9. Keeps(d, e, y, q, f, w)
    BY <1>3, <2>5, <2>7, <2>8, RecordSaves
  <2> QED
    BY <2>1, <2>7, <2>8, <2>9
<1> QED
  BY <1>2, <1>3

\* forget_durable frees the slot of a sensor whose removal is saved.
LEMMA ForgetDurableKeeps ==
    ASSUME NEW d, NEW y, NEW q, NEW f, NEW w, Core(d, y, q, f, w),
           d.s = "removed", d.saved >= d.rrev
    PROVE  LET e == ForgetDurable(d)
           IN  /\ Keeps(d, e, y, q, f, w) /\ SameAttempt(d, e) /\ SameLine(d, e)
               /\ e.s = "none" /\ f = "none" /\ y.bond # "ours"
<1> DEFINE e == [[d EXCEPT !.pends = d.pends] EXCEPT !.s = "none", !.inf = FALSE, !.frev = 0, !.rrev = 0]
<1>1. d \in Daemons /\ d.rec \in Nat /\ d.srev \in Nat /\ d.saved \in Nat
  BY DEF Core, Typed, Daemons
<1>2. ~d.inf /\ d.rrev = d.rec /\ d.saved = d.rec /\ d.srev = d.rec /\ f = "none" /\ y.bond # "ours"
  BY <1>1 DEF Core, Recorded, Filed, Bonding, RecordsText
<1>3. \A c \in d.pends : c.k # "Forget"
  BY <1>2 DEF Core, Attempted
<1>4. {c \in d.pends : ~(c.k = "Forget" /\ c.id = d.sid)} = d.pends
  BY <1>3
<1>5. ForgetDurable(d) = e
  BY <1>4 DEF ForgetDurable, CancelSensor
<1>6. /\ e \in Daemons /\ e.s = "none" /\ ~e.inf /\ e.rec = d.rec /\ e.saved = d.saved
      /\ e.srev = d.srev /\ e.save = d.save /\ e.pending = d.pending
  BY <1>1 DEF Daemons
<1>7. SameAgency(d, e) /\ SameAttempt(d, e) /\ SameCalls(d, e) /\ SameLine(d, e)
  BY <1>1 DEF Daemons, SameAgency, SameAttempt, SameCalls, SameLine
<1> HIDE DEF e
<1>8. Recorded(e) /\ Filed(e, f) /\ Bonded(e, y, f) /\ Flags(e, f)
  BY <1>1, <1>2, <1>6, <1>7
     DEF Core, Recorded, Filed, Bonded, Flags, RecordsText, SameLine, SameCalls
<1>9. e.up = "down" => ~e.loaded
  BY <1>7 DEF Core, Attempted, SameLine
<1>10. d.step = "idle" /\ e.step = "idle"
  BY <1>7 DEF Core, Attempted, SameAttempt
<1>11. Core(e, y, q, f, w)
  BY <1>2, <1>6, <1>7, <1>8, <1>9, <1>10, RecordChanges DEF SameLine
<1> QED
  BY <1>2, <1>5, <1>6, <1>7, <1>11 DEF Keeps, Removes, SameCalls

\* What the sensor may become: saved by its own attempt, free when nothing of it is left.
Moves(d, e, y, f, w) ==
    /\ d.s = "none" /\ e.s = "saved" => w = d.id
    /\ d.s = "removed" /\ e.s = "none" => f = "none" /\ y.bond # "ours"

\* bd_forget_step asks for the removal when the flag is saved, and frees the slot when that is.
LEMMA ForgetStepKeeps ==
    ASSUME NEW d, NEW y, NEW q, NEW f, NEW w, Core(d, y, q, f, w), d.up # "down"
    PROVE  LET e == ForgetStep(d)
           IN  /\ Keeps(d, e, y, q, f, w) /\ SameAttempt(d, e) /\ SameLine(d, e) /\ Moves(d, e, y, f, w)
               /\ d.s \in {"none", "saved"} => e.s = d.s
<1> DEFINE c == [k |-> "Forget", id |-> d.sid, life |-> d.life]
           h == [d EXCEPT !.inf = TRUE]
           u == Call(d, "Forget", d.sid)
           e == [u EXCEPT !.inf = TRUE]
           asks == d.s = "forget" /\ ~(d.saved < d.frev) /\ ~d.inf /\ d.bluez /\ d.dev.known
           ends == d.s = "forget" /\ ~(d.saved < d.frev) /\ ~d.inf /\ d.bluez /\ ~d.dev.known
           frees == d.s = "removed" /\ d.saved >= d.rrev
<1>1. d \in Daemons /\ d.sid \in Nat
  BY DEF Core, Typed, Daemons
<1>2. CASE frees
  <2>1. ForgetStep(d) = ForgetDurable(d)
    BY <1>2 DEF ForgetStep
  <2> QED
    BY <1>2, <2>1, ForgetDurableKeeps DEF Moves
<1>3. CASE ends
  <2>1. ForgetStep(d) = ForgetFinish(d)
    BY <1>3 DEF ForgetStep
  <2>2. y.bond # "ours"
    BY <1>3 DEF Core, Bonding
  <2> QED
    BY <1>3, <2>1, <2>2, ForgetFinishKeeps DEF Moves
<1>4. CASE asks
  <2>1. /\ c \in Calls /\ u \in Daemons
        /\ SameAgency(d, u) /\ SameAttempt(d, u) /\ SameRecord(d, u) /\ SameLine(d, u)
        /\ u.req = Append(d.req, c) /\ u.pends = d.pends \cup {c}
    <3> HIDE DEF u
    <3> QED
      BY <1>1, CallIs DEF u, Kinds, PlainKinds
  <2> HIDE DEF u
  <2>2. /\ h \in Daemons /\ SameAgency(d, h) /\ SameAttempt(d, h) /\ SameLine(d, h) /\ SameCalls(d, h)
        /\ h.inf /\ h.s = d.s /\ h.sid = d.sid /\ h.frev = d.frev /\ h.rrev = d.rrev /\ h.rec = d.rec
        /\ h.srev = d.srev /\ h.saved = d.saved /\ h.pending = d.pending /\ h.wait = d.wait
        /\ h.save = d.save
    BY <1>1 DEF Daemons, SameAgency, SameAttempt, SameLine, SameCalls
  <2>3. /\ e \in Daemons /\ SameAgency(u, e) /\ SameAttempt(u, e) /\ SameLine(u, e) /\ SameCalls(u, e)
        /\ e.inf = TRUE /\ e.s = u.s /\ e.sid = u.sid /\ e.frev = u.frev /\ e.rrev = u.rrev
        /\ e.rec = u.rec /\ e.srev = u.srev /\ e.saved = u.saved /\ e.pending = u.pending
        /\ e.wait = u.wait /\ e.save = u.save
    BY <2>1 DEF Daemons, SameAgency, SameAttempt, SameLine, SameCalls
  <2>4. h.inf = TRUE
    BY <1>1 DEF h, Daemons
  <2> HIDE DEF h, e, c
  <2>5. d.saved = d.rec /\ d.loaded /\ d.step = "idle"
    <3>1. d.saved \in Nat /\ d.frev \in Nat /\ d.rec \in Nat /\ d.srev \in Nat
      BY <1>1 DEF Daemons
    <3> QED
      BY <1>4, <3>1 DEF Core, Recorded, Attempted
  <2>6. Core(h, y, q, f, w)
    <3>1. Recorded(h) /\ Filed(h, f) /\ Flags(h, f) /\ Bonded(h, y, f)
      BY <1>4, <2>2, <2>5
         DEF Core, Recorded, Filed, Flags, Bonded, RecordsText, SameAttempt, SameLine, SameCalls
    <3>2. h.up # "down" /\ h.step = "idle" /\ h.s # "removed"
      BY <1>4, <2>2, <2>5 DEF SameLine, SameAttempt
    <3> QED
      BY <2>2, <3>1, <3>2, RecordChanges DEF SameLine
  <2>7. ~Flagged(d, c) /\ c.life = d.life /\ c.k = "Forget" /\ c.id = d.sid
    BY <1>4 DEF Flagged, c
  <2>8. Nowhere(h, y, q, c)
    BY <2>2, <2>7, NotFlagged DEF Nowhere, SameCalls
  <2>9. c.life = h.life /\ Flagged(h, c) /\ h.up # "down"
    BY <2>2, <2>7 DEF Flagged, SameLine
  <2>10. /\ SameAgency(h, e) /\ SameAttempt(h, e) /\ SameRecord(h, e) /\ SameLine(h, e)
         /\ e.req = Append(h.req, c) /\ e.pends = h.pends \cup {c}
    <3>1. SameAgency(h, e) /\ SameAttempt(h, e) /\ SameLine(h, e)
      BY <2>1, <2>2, <2>3 DEF SameAgency, SameAttempt, SameLine
    <3>2. SameRecord(h, e)
      BY <2>1, <2>2, <2>3, <2>4 DEF SameRecord
    <3>3. e.req = Append(h.req, c) /\ e.pends = h.pends \cup {c}
      BY <2>1, <2>2, <2>3 DEF SameCalls
    <3> QED
      BY <3>1, <3>2, <3>3
  <2>11. Core(e, y, q, f, w)
    BY <2>1, <2>3, <2>6, <2>7, <2>8, <2>9, <2>10, CallKeeps DEF PairKinds, PlainKinds
  <2>12. Removes(d) => Removes(e)
    <3>1. d.req \in Seq(Calls) /\ e.req = Append(d.req, c)
      BY <1>1, <2>2, <2>10 DEF SameCalls, Daemons
    <3> QED
      BY <2>1, <2>7, <3>1, CallRemoves
  <2>13. ForgetStep(d) = e
    BY <1>4 DEF ForgetStep, e, u
  <2> QED
    BY <1>4, <2>1, <2>3, <2>11, <2>12, <2>13
       DEF Keeps, Moves, SameAttempt, SameRecord, SameLine
<1>5. CASE ~frees /\ ~asks /\ ~ends
  <2>1. ForgetStep(d) = d
    BY <1>5 DEF ForgetStep
  <2> QED
    BY <2>1 DEF Keeps, Moves, SameAttempt, SameLine
<1> QED
  BY <1>2, <1>3, <1>4, <1>5

\* bd_forget marks the sensor before anything is asked of BlueZ.
LEMMA ForgetSensorKeeps ==
    ASSUME NEW d, NEW y, NEW q, NEW f, NEW w, Core(d, y, q, f, w), d.up # "down"
    PROVE  LET e == ForgetSensor(d)
           IN  /\ Keeps(d, e, y, q, f, w) /\ SameAttempt(d, e) /\ SameLine(d, e)
               /\ d.s # "saved" => e.s = d.s
<1> DEFINE x == [d EXCEPT !.s = "forget"]
           h == [x EXCEPT !.rec = @ + 1, !.pending = TRUE]
           p == SaveStart(h)
           g == [p EXCEPT !.frev = p.rec]
<1>1. d \in Daemons
  BY DEF Core, Typed
<1>2. CASE d.s # "saved"
  <2>1. ForgetSensor(d) = d
    BY <1>2 DEF ForgetSensor
  <2> QED
    BY <2>1 DEF Keeps, SameAttempt, SameLine
<1>3. CASE d.s = "saved"
  <2>1. ForgetSensor(d) = ForgetStep(g)
    BY <1>3 DEF ForgetSensor, SaveRecords
  <2>2. /\ h \in Daemons /\ h.s = "forget" /\ h.rec = d.rec + 1 /\ h.inf = d.inf
        /\ h.saved = d.saved /\ h.srev = d.srev /\ h.save = d.save
    <3>1. /\ x \in Daemons /\ x.s = "forget" /\ x.rec = d.rec /\ x.inf = d.inf
          /\ x.saved = d.saved /\ x.srev = d.srev /\ x.save = d.save
      BY <1>1 DEF Daemons
    <3> HIDE DEF x
    <3>2. x.rec \in Nat
      BY <3>1 DEF Daemons
    <3>3. h = [x EXCEPT !.rec = x.rec + 1, !.pending = TRUE]
      OBVIOUS
    <3>4. x.rec + 1 \in Nat
      BY <3>2
    <3>5. /\ h \in Daemons /\ h.s = x.s /\ h.rec = x.rec + 1 /\ h.inf = x.inf
          /\ h.saved = x.saved /\ h.srev = x.srev /\ h.save = x.save
      BY <3>1, <3>3, <3>4 DEF Daemons
    <3> QED
      BY <3>1, <3>5
  <2>3. SameAgency(d, h) /\ SameAttempt(d, h) /\ SameCalls(d, h) /\ SameLine(d, h)
    BY <1>1 DEF Daemons, SameAgency, SameAttempt, SameCalls, SameLine
  <2> HIDE DEF h
  <2>4. /\ p \in Daemons /\ SameButSave(h, p)
        /\ \/ p = h
           \/ p.srev = h.rec /\ p.save.at = "run" /\ p.save.text = RecordsText(h)
    <3> HIDE DEF p
    <3> QED
      BY <2>2, SaveStartIs DEF p
  <2> HIDE DEF p
  <2>5. /\ g \in Daemons /\ g.s = p.s /\ g.inf = p.inf /\ g.rec = p.rec /\ g.saved = p.saved
        /\ g.srev = p.srev /\ g.save = p.save /\ g.frev = p.rec
    BY <2>4 DEF Daemons
  <2>6. SameAgency(p, g) /\ SameAttempt(p, g) /\ SameCalls(p, g) /\ SameLine(p, g)
    BY <2>4 DEF Daemons, SameAgency, SameAttempt, SameCalls, SameLine
  <2> HIDE DEF g
  <2>7. SameAgency(d, g) /\ SameAttempt(d, g) /\ SameCalls(d, g) /\ SameLine(d, g)
    BY <2>3, <2>4, <2>6 DEF SameButSave, SameAgency, SameAttempt, SameCalls, SameLine
  <2>8. ~d.inf
    BY <1>3 DEF Core, Recorded
  <2>9. /\ g.s = "forget" /\ ~g.inf /\ g.rec = d.rec + 1 /\ g.saved = d.saved /\ g.frev = g.rec
        /\ \/ g.srev = d.srev /\ g.save = d.save
           \/ g.srev = g.rec /\ g.save.at = "run" /\ g.save.text = RecordsText(g)
    BY <2>2, <2>4, <2>5, <2>8 DEF SameButSave, RecordsText
  <2>10. Keeps(d, g, y, q, f, w)
    BY <1>3, <2>5, <2>7, <2>8, <2>9, RecordSaves
  <2>11. Core(g, y, q, f, w) /\ g.up # "down"
    BY <2>7, <2>10 DEF Keeps, SameLine
  <2>12. Keeps(g, ForgetStep(g), y, q, f, w) /\ SameAttempt(g, ForgetStep(g)) /\ SameLine(g, ForgetStep(g))
    BY <2>11, ForgetStepKeeps
  <2> QED
    BY <1>3, <2>1, <2>7, <2>10, <2>12 DEF Keeps, SameAttempt, SameLine
<1> QED
  BY <1>2, <1>3

\* An answer that has been heard leaves no other call of its kind.
LEMMA HeardIsNowhere ==
    ASSUME NEW d, NEW y, NEW q, NEW f, NEW w, NEW c \in Calls, Core(d, y, q, f, w),
           Nowhere(d, y, q, c), c.life = d.life, Flagged(d, c),
           c.k \in {"Register", "Unregister", "Forget", "PairBond"}, c.k = "PairBond" => c.id = d.id
    PROVE  \A x : x.k = c.k /\ x.life = d.life /\ (c.k = "PairBond" => x.id = d.id) => Nowhere(d, y, q, x)
<1> SUFFICES ASSUME NEW x, x.k = c.k, x.life = d.life, c.k = "PairBond" => x.id = d.id
             PROVE  Nowhere(d, y, q, x)
  OBVIOUS
<1>1. d.req \in Seq(Calls) /\ y.busy \subseteq Calls /\ q \in Seq(Msgs)
  BY DEF Core, Typed, Daemons, Bluezs
<1>2. CASE x \notin Calls
  <2>1. \A i \in 1 .. Len(q) : q[i].c \in Calls
    <3>1. \A i \in 1 .. Len(q) : q[i] \in Msgs
      BY <1>1
    <3> QED
      BY <3>1 DEF Msgs
  <2>2. \A i \in 1 .. Len(d.req) : d.req[i] \in Calls
    BY <1>1
  <2> QED
    BY <1>1, <1>2, <2>1, <2>2 DEF Nowhere, Answers
<1>3. CASE x \in Calls /\ Flagged(d, x)
  <2>1. x.id = c.id
    BY <1>3 DEF Flagged
  <2>2. /\ x = [k |-> x.k, id |-> x.id, life |-> x.life]
        /\ c = [k |-> c.k, id |-> c.id, life |-> c.life]
    BY <1>3 DEF Calls
  <2>3. x = c
    BY <2>1, <2>2
  <2> QED
    BY <2>3
<1>4. CASE ~Flagged(d, x)
  BY <1>4, NotFlagged
<1> QED
  BY <1>2, <1>3, <1>4

\* bd_forget_reply marks the sensor when BlueZ does not have it any more.
LEMMA ForgetReplyKeeps ==
    ASSUME NEW d, NEW y, NEW q, NEW f, NEW w, NEW c \in Calls, NEW r, Core(d, y, q, f, w),
           d.up # "down", c.k = "Forget", c.life = d.life, Flagged(d, c), Nowhere(d, y, q, c),
           c \notin d.pends, r \in {"ok", "nosuch"} => y.bond # "ours"
    PROVE  LET e == ForgetReply(d, c, r)
           IN  Keeps(d, e, y, q, f, w) /\ SameAttempt(d, e) /\ SameLine(d, e) /\ Moves(d, e, y, f, w)
<1> DEFINE a == [d EXCEPT !.inf = FALSE]
           e == ForgetReply(d, c, r)
<1>1. d \in Daemons /\ d.pends \subseteq Calls
  BY DEF Core, Typed, Daemons
<1>2. d.inf /\ c.id = d.sid /\ d.s = "forget" /\ d.loaded /\ d.step = "idle"
  BY DEF Flagged, Core, Recorded, Attempted
<1>3. \A x : x.k = "Forget" /\ x.life = d.life => Nowhere(d, y, q, x)
  BY HeardIsNowhere
<1>4. \A x \in d.pends : x.k # "Forget"
  <2> SUFFICES ASSUME NEW x \in d.pends, x.k = "Forget"
               PROVE  FALSE
    OBVIOUS
  <2>1. x.id = c.id /\ x.life = c.life /\ x.k = c.k /\ x \in Calls
    BY <1>1, <1>2 DEF Core, Attempted
  <2>2. /\ x = [k |-> x.k, id |-> x.id, life |-> x.life]
        /\ c = [k |-> c.k, id |-> c.id, life |-> c.life]
    BY <2>1 DEF Calls
  <2> QED
    BY <2>1, <2>2
<1>5. /\ a \in Daemons /\ ~a.inf /\ a.s = d.s /\ a.sid = d.sid /\ a.frev = d.frev /\ a.rrev = d.rrev
      /\ a.rec = d.rec /\ a.srev = d.srev /\ a.saved = d.saved /\ a.pending = d.pending
      /\ a.wait = d.wait /\ a.save = d.save
  BY <1>1 DEF Daemons
<1>6. SameAgency(d, a) /\ SameAttempt(d, a) /\ SameLine(d, a) /\ SameCalls(d, a)
  BY <1>1 DEF Daemons, SameAgency, SameAttempt, SameLine, SameCalls
<1>7. ForgetReply(d, c, r) = IF r \in {"ok", "nosuch"} THEN ForgetFinish(a) ELSE a
  BY <1>2 DEF ForgetReply
<1> HIDE DEF a
<1>8. Core(a, y, q, f, w)
  <2>1. Recorded(a) /\ Filed(a, f) /\ Flags(a, f) /\ Bonded(a, y, f)
    BY <1>2, <1>5, <1>6
       DEF Core, Recorded, Filed, Flags, Bonded, RecordsText, SameAttempt, SameLine, SameCalls
  <2>2. a.up # "down" /\ a.step = "idle" /\ a.s # "removed"
    BY <1>2, <1>5, <1>6 DEF SameLine, SameAttempt
  <2> QED
    BY <1>3, <1>4, <1>5, <1>6, <2>1, <2>2, RecordChanges DEF SameLine
<1>9. Removes(d) => Removes(a)
  BY <1>6 DEF Removes, SameCalls
<1>10. CASE r \in {"ok", "nosuch"}
  <2>1. /\ Keeps(a, ForgetFinish(a), y, q, f, w) /\ SameAttempt(a, ForgetFinish(a))
        /\ SameLine(a, ForgetFinish(a)) /\ ForgetFinish(a).s = "removed"
    BY <1>2, <1>5, <1>8, <1>10, ForgetFinishKeeps
  <2> QED
    BY <1>2, <1>6, <1>7, <1>9, <1>10, <2>1 DEF Keeps, SameAttempt, SameLine, Moves
<1>11. CASE r \notin {"ok", "nosuch"}
  BY <1>2, <1>5, <1>6, <1>7, <1>8, <1>9, <1>11 DEF Keeps, Moves
<1> QED
  BY <1>10, <1>11

-----------------------------------------------------------------------------
(* The attempt goes on.                                                      *)

\* What a function of the attempt keeps, the sensor's record among it.
Goes(d, e, y, q, f, w) == Keeps(d, e, y, q, f, w) /\ SameRecord(d, e) /\ SameLine(d, e) /\ Held(e)

\* A call of the attempt, of a kind that is not accounted for.
LEMMA StepCallGoes ==
    ASSUME NEW d, NEW y, NEW q, NEW f, NEW w, NEW k \in {"PairConnect", "PairNotify", "PairTrust"},
           Core(d, y, q, f, w), d.up # "down", d.step # "idle", Held(d)
    PROVE  Goes(d, Call(d, k, d.id), y, q, f, w)
<1> DEFINE e == Call(d, k, d.id)
<1>1. d.id \in Nat /\ k \in FreeKinds /\ k # "CancelPairing"
  BY DEF Core, Typed, Daemons, FreeKinds
<1> HIDE DEF e
<1>2. Keeps(d, e, y, q, f, w) /\ SameAttempt(d, e) /\ SameRecord(d, e) /\ SameLine(d, e)
  BY <1>1, FreeCallKeeps DEF e
<1> QED
  BY <1>2 DEF Goes, Held, SameAttempt, SameLine, e

\* The attempt's next step, and nothing else.
LEMMA StepGoes ==
    ASSUME NEW d, NEW y, NEW q, NEW f, NEW w, NEW s \in Steps \ {"idle"},
           Core(d, y, q, f, w), d.step \notin {"idle", "bond"}, Held(d), s = "trust" => w = d.id
    PROVE  LET e == [d EXCEPT !.step = s]
           IN  /\ Goes(d, e, y, q, f, w) /\ e \in Daemons /\ e.step = s /\ e.id = d.id
               /\ e.bonded = d.bonded /\ SameAgency(d, e) /\ SameCalls(d, e)
<1> DEFINE e == [d EXCEPT !.step = s]
<1>1. d \in Daemons
  BY DEF Core, Typed
<1>2. /\ e \in Daemons /\ SameAgency(d, e) /\ SameRecord(d, e) /\ SameLine(d, e) /\ SameCalls(d, e)
      /\ e.step = s /\ e.id = d.id /\ e.bonded = d.bonded /\ e.byUs = d.byUs
  BY <1>1 DEF Daemons, SameAgency, SameRecord, SameLine, SameCalls
<1> HIDE DEF e
<1>3. Core(e, y, q, f, w)
  BY <1>2, StepChanges
<1>4. Removes(d) => Removes(e)
  BY <1>2 DEF Removes, SameCalls
<1> QED
  BY <1>2, <1>3, <1>4 DEF Goes, Keeps, Held, SameLine, e

\* Two functions one after the other.
LEMMA GoesOn ==
    ASSUME NEW d, NEW e, NEW g, NEW y, NEW q, NEW f, NEW w,
           Goes(d, e, y, q, f, w), Goes(e, g, y, q, f, w)
    PROVE  Goes(d, g, y, q, f, w)
BY DEF Goes, Keeps, SameRecord, SameLine

\* bd_pair_fail, of an attempt that goes on elsewhere.
LEMMA PairFailGoes ==
    ASSUME NEW d, NEW y, NEW q, NEW f, NEW w, Core(d, y, q, f, w), d.up # "down", Fit(d, y)
    PROVE  Goes(d, PairFail(d), y, q, f, w)
BY PairFailKeeps DEF Goes, Failed, Held

\* pair_trust, once the subscription has been confirmed.
LEMMA PairTrustGoes ==
    ASSUME NEW d, NEW y, NEW q, NEW f, NEW w, Core(d, y, q, f, w), d.up # "down",
           d.step \notin {"idle", "bond"}, Held(d), w = d.id
    PROVE  Goes(d, PairTrust(d), y, q, f, w)
<1> DEFINE e == [d EXCEPT !.step = "trust"]
<1>1. Goes(d, e, y, q, f, w) /\ e.step = "trust" /\ e.id = d.id
  <2>1. "trust" \in Steps \ {"idle"}
    BY DEF Steps
  <2> HIDE DEF e
  <2> QED
    BY <2>1, StepGoes DEF e
<1>2. PairTrust(d) = Call(e, "PairTrust", d.id)
  BY DEF PairTrust
<1> HIDE DEF e
<1>3. Core(e, y, q, f, w) /\ e.up # "down" /\ Held(e)
  BY <1>1 DEF Goes, Keeps, SameLine
<1>4. Goes(e, Call(e, "PairTrust", e.id), y, q, f, w)
  BY <1>1, <1>3, StepCallGoes
<1> QED
  BY <1>1, <1>2, <1>4, GoesOn

\* pair_notify, for a device that is known.
LEMMA PairNotifyGoes ==
    ASSUME NEW d, NEW y, NEW q, NEW f, NEW w, Core(d, y, q, f, w), d.up # "down",
           d.step \notin {"idle", "bond"}, Held(d)
    PROVE  Goes(d, PairNotify(d), y, q, f, w)
<1> DEFINE e == [d EXCEPT !.step = "notify"]
<1>1. Goes(d, e, y, q, f, w) /\ e.step = "notify" /\ e.id = d.id
  <2>1. "notify" \in Steps \ {"idle"}
    BY DEF Steps
  <2> HIDE DEF e
  <2> QED
    BY <2>1, StepGoes DEF e
<1>2. PairNotify(d) = Call(e, "PairNotify", d.id)
  BY DEF PairNotify, Held
<1> HIDE DEF e
<1>3. Core(e, y, q, f, w) /\ e.up # "down" /\ Held(e)
  BY <1>1 DEF Goes, Keeps, SameLine
<1>4. Goes(e, Call(e, "PairNotify", e.id), y, q, f, w)
  BY <1>1, <1>3, StepCallGoes
<1> QED
  BY <1>1, <1>2, <1>4, GoesOn

\* pair_bond asks for a bond once per attempt.
LEMMA PairBondGoes ==
    ASSUME NEW d, NEW y, NEW q, NEW f, NEW w, Core(d, y, q, f, w), d.up # "down",
           d.step \notin {"idle", "bond"}, ~d.bonded, Held(d)
    PROVE  Goes(d, PairBond(d), y, q, f, w)
<1> DEFINE h == [d EXCEPT !.step = "bond"]
           c == [k |-> "PairBond", id |-> d.id, life |-> d.life]
           e == Call(h, "PairBond", d.id)
<1>1. CASE d.reg
  <2>1. /\ Goes(d, h, y, q, f, w) /\ h \in Daemons /\ h.step = "bond" /\ h.id = d.id
        /\ SameAgency(d, h) /\ SameCalls(d, h)
    BY StepGoes DEF Steps
  <2>2. PairBond(d) = e
    BY <1>1 DEF PairBond
  <2> HIDE DEF h
  <2>3. Core(h, y, q, f, w) /\ h.up # "down" /\ Held(h) /\ h.life = d.life
    BY <2>1 DEF Goes, Keeps, SameLine
  <2>4. /\ c \in Calls /\ e \in Daemons
        /\ SameAgency(h, e) /\ SameAttempt(h, e) /\ SameRecord(h, e) /\ SameLine(h, e)
        /\ e.req = Append(h.req, c) /\ e.pends = h.pends \cup {c}
    <3>1. d.id \in Nat /\ "PairBond" \in Kinds /\ "PairBond" \notin PlainKinds
      BY DEF Core, Typed, Daemons, Kinds, PlainKinds
    <3>2. c = [k |-> "PairBond", id |-> d.id, life |-> h.life]
      BY <2>3
    <3> DEFINE c1 == [k |-> "PairBond", id |-> d.id, life |-> h.life]
    <3>3. /\ c1 \in Calls /\ e \in Daemons
          /\ SameAgency(h, e) /\ SameAttempt(h, e) /\ SameRecord(h, e) /\ SameLine(h, e)
          /\ e.req = Append(h.req, c1) /\ e.pends = h.pends \cup {c1}
      <4> HIDE DEF e
      <4> QED
        BY <2>1, <3>1, CallIs DEF e
    <3> HIDE DEF c, e
    <3> QED
      BY <3>2, <3>3
  <2> HIDE DEF e
  <2>5. ~Flagged(d, c) /\ c.life = h.life /\ c.k = "PairBond" /\ c.id = h.id
    BY <2>1, <2>3 DEF Flagged
  <2> HIDE DEF c
  <2>6. Nowhere(h, y, q, c)
    BY <2>1, <2>5, NotFlagged DEF Nowhere, SameCalls
  <2>7. Flagged(h, c) /\ Awaited(h, c)
    <3>1. h.id \in Nat
      BY <2>1 DEF Daemons
    <3> QED
      BY <2>1, <2>5, <3>1 DEF Flagged, Awaited
  <2>8. Core(e, y, q, f, w)
    BY <2>1, <2>3, <2>4, <2>5, <2>6, <2>7, CallKeeps DEF PlainKinds
  <2>9. Removes(h) => Removes(e)
    <3>1. h.req \in Seq(Calls)
      BY <2>1 DEF Daemons
    <3> QED
      BY <2>4, <2>5, <3>1, CallRemoves
  <2>10. Goes(h, e, y, q, f, w)
    BY <2>3, <2>4, <2>8, <2>9 DEF Goes, Keeps, Held, SameAttempt, SameLine
  <2> QED
    BY <2>1, <2>2, <2>10, GoesOn
<1>2. CASE ~d.reg
  <2>1. PairBond(d) = PairFail(d) /\ Fit(d, y)
    BY <1>2 DEF PairBond, Fit, Held
  <2> QED
    BY <2>1, PairFailGoes
<1> QED
  BY <1>1, <1>2

\* bd_pair_check leaves no attempt whose device is gone.
LEMMA PairCheckGoes ==
    ASSUME NEW d, NEW y, NEW q, NEW f, NEW w, NEW late, Core(d, y, q, f, w), d.up # "down", Fit(d, y)
    PROVE  Goes(d, PairCheck(d, late), y, q, f, w)
<1> DEFINE a == IF d.step = "connect" /\ ~d.byUs THEN PairAgentRequest(d) ELSE d
<1>1. CASE d.step = "idle"
  <2>1. PairCheck(d, late) = d
    BY <1>1 DEF PairCheck
  <2> QED
    BY <1>1, <2>1 DEF Goes, Keeps, Held, SameRecord, SameLine
<1>2. CASE d.step # "idle" /\ (~d.dev.known \/ late)
  <2>1. PairCheck(d, late) = PairFail(d)
    BY <1>2 DEF PairCheck
  <2> QED
    BY <2>1, PairFailGoes
<1>3. CASE d.step # "idle" /\ d.dev.known /\ ~late
  <2>1. Goes(d, a, y, q, f, w) /\ a.step = d.step
    <3>1. CASE d.step = "connect" /\ ~d.byUs
      <4> DEFINE g == PairAgentRequest(d)
      <4>1. a = g
        BY <3>1
      <4> HIDE DEF g
      <4>2. /\ Keeps(d, g, y, q, f, w) /\ SameAttempt(d, g) /\ SameRecord(d, g) /\ SameLine(d, g)
        BY <1>3, PairAgentRequestKeeps DEF g
      <4> HIDE DEF a
      <4> QED
        BY <1>3, <4>1, <4>2 DEF Goes, Held, SameAttempt, SameLine
    <3>2. CASE ~(d.step = "connect" /\ ~d.byUs)
      BY <1>3, <3>2 DEF Goes, Keeps, Held, SameRecord, SameLine
    <3> QED
      BY <3>1, <3>2
  <2>2. PairCheck(d, late) = IF a.step = "resolve" /\ a.dev.conn /\ a.dev.res THEN PairNotify(a) ELSE a
    BY <1>3 DEF PairCheck
  <2> HIDE DEF a
  <2>3. CASE a.step = "resolve" /\ a.dev.conn /\ a.dev.res
    <3>1. Core(a, y, q, f, w) /\ a.up # "down" /\ Held(a)
      BY <2>1 DEF Goes, Keeps, SameLine
    <3>2. Goes(a, PairNotify(a), y, q, f, w)
      BY <2>3, <3>1, PairNotifyGoes
    <3> QED
      BY <2>1, <2>2, <2>3, <3>2, GoesOn
  <2> QED
    BY <2>1, <2>2, <2>3
<1> QED
  BY <1>1, <1>2, <1>3

\* What the daemon keeps when it has dealt with a message.
Hears(d, e, y, q, f, w) == Keeps(d, e, y, q, f, w) /\ Held(e) /\ Moves(d, e, y, f, w)

\* A function that leaves the record alone is one.
LEMMA GoesHears ==
    ASSUME NEW d, NEW e, NEW y, NEW q, NEW f, NEW w, Goes(d, e, y, q, f, w)
    PROVE  Hears(d, e, y, q, f, w)
BY DEF Goes, Hears, Moves, SameRecord

\* The step it waits in, and what it has learnt of the device, as the answer says.
LEMMA ResolveGoes ==
    ASSUME NEW d, NEW e, NEW y, NEW q, NEW f, NEW w, NEW late, Core(d, y, q, f, w), e \in Daemons,
           SameAgency(d, e), SameRecord(d, e), SameLine(d, e), SameCalls(d, e),
           e.step = "resolve", e.id = d.id, d.bonded => e.bonded,
           d.up # "down", d.step # "idle", Held(d),
           d.step = "bond" => e.bonded /\ \A x : x.k = "PairBond" /\ Awaited(d, x) => Nowhere(d, y, q, x)
    PROVE  Goes(d, PairCheck(e, late), y, q, f, w)
<1>1. Core(e, y, q, f, w)
  BY StepChanges
<1>2. Goes(d, e, y, q, f, w) /\ Fit(e, y) /\ e.up # "down"
  BY <1>1 DEF Goes, Keeps, Held, Fit, Removes, SameLine, SameCalls
<1>3. Goes(e, PairCheck(e, late), y, q, f, w)
  BY <1>1, <1>2, PairCheckGoes
<1> QED
  BY <1>2, <1>3, GoesOn

\* bd_pair_reply, PK_PAIR_AGENT
LEMMA DefaultReplyGoes ==
    ASSUME NEW d, NEW y, NEW q, NEW f, NEW w, NEW r, NEW late,
           Core(d, y, q, f, w), d.up # "down", d.step # "idle", Held(d)
    PROVE  Goes(d, DefaultReply(d, r, late), y, q, f, w)
<1>1. d \in Daemons /\ Fit(d, y)
  BY DEF Core, Typed, Held, Fit
<1>2. CASE d.step # "connect"
  <2>1. DefaultReply(d, r, late) = d
    BY <1>2 DEF DefaultReply
  <2> QED
    BY <2>1 DEF Goes, Keeps, SameRecord, SameLine
<1>3. CASE d.step = "connect" /\ r # "ok"
  <2>1. DefaultReply(d, r, late) = PairFail(d)
    BY <1>3 DEF DefaultReply
  <2> QED
    BY <1>1, <2>1, PairFailGoes
<1>4. CASE d.step = "connect" /\ r = "ok" /\ d.dev.conn
  <2> DEFINE e == [d EXCEPT !.step = "resolve"]
  <2>1. DefaultReply(d, r, late) = PairCheck(e, late)
    BY <1>4 DEF DefaultReply, Held
  <2>2. d \in Daemons
    BY <1>1
  <2>3. /\ e \in Daemons /\ SameAgency(d, e) /\ SameRecord(d, e) /\ SameLine(d, e) /\ SameCalls(d, e)
        /\ e.step = "resolve" /\ e.id = d.id /\ e.bonded = d.bonded
    BY <2>2 DEF Daemons, Steps, SameAgency, SameRecord, SameLine, SameCalls
  <2> HIDE DEF e
  <2> QED
    BY <1>4, <2>1, <2>3, ResolveGoes
<1>5. CASE d.step = "connect" /\ r = "ok" /\ ~d.dev.conn
  <2> DEFINE e == [d EXCEPT !.byUs = TRUE]
  <2>1. DefaultReply(d, r, late) = Call(e, "PairConnect", d.id)
    BY <1>5 DEF DefaultReply, Held
  <2>2. /\ e \in Daemons /\ SameAgency(d, e) /\ SameRecord(d, e) /\ SameLine(d, e) /\ SameCalls(d, e)
        /\ e.step = d.step /\ e.id = d.id /\ e.bonded = d.bonded
    BY <1>1 DEF Daemons, SameAgency, SameRecord, SameLine, SameCalls
  <2> HIDE DEF e
  <2>3. Core(e, y, q, f, w)
    BY <1>5, <2>2, StepChanges
  <2>4. Goes(d, e, y, q, f, w) /\ Held(e) /\ e.up # "down" /\ e.step # "idle"
    BY <2>2, <2>3 DEF Goes, Keeps, Held, Removes, SameLine, SameCalls
  <2>5. Goes(e, Call(e, "PairConnect", e.id), y, q, f, w)
    BY <2>3, <2>4, StepCallGoes
  <2> QED
    BY <2>1, <2>2, <2>4, <2>5, GoesOn
<1> QED
  BY <1>2, <1>3, <1>4, <1>5

\* bd_pair_reply, PK_PAIR_CONNECT
LEMMA ConnectReplyGoes ==
    ASSUME NEW d, NEW y, NEW q, NEW f, NEW w, NEW r, NEW late,
           Core(d, y, q, f, w), d.up # "down", d.step # "idle", Held(d)
    PROVE  Goes(d, ConnectReply(d, r, late), y, q, f, w)
<1>1. d \in Daemons /\ Fit(d, y)
  BY DEF Core, Typed, Held, Fit
<1>2. CASE d.step # "connect"
  <2>1. ConnectReply(d, r, late) = d
    BY <1>2 DEF ConnectReply
  <2> QED
    BY <2>1 DEF Goes, Keeps, SameRecord, SameLine
<1>3. CASE d.step = "connect" /\ r = "auth" /\ ~d.bonded
  <2>1. ConnectReply(d, r, late) = PairBond(d)
    BY <1>3 DEF ConnectReply
  <2> QED
    BY <1>3, <2>1, PairBondGoes
<1>4. CASE d.step = "connect" /\ ~(r = "auth" /\ ~d.bonded) /\ r # "ok"
  <2>1. ConnectReply(d, r, late) = PairFail(d)
    BY <1>4 DEF ConnectReply
  <2> QED
    BY <1>1, <2>1, PairFailGoes
<1>5. CASE d.step = "connect" /\ r = "ok"
  <2> DEFINE e == [d EXCEPT !.step = "resolve"]
  <2>1. ConnectReply(d, r, late) = PairCheck(e, late)
    BY <1>5 DEF ConnectReply
  <2>2. d \in Daemons
    BY <1>1
  <2>3. /\ e \in Daemons /\ SameAgency(d, e) /\ SameRecord(d, e) /\ SameLine(d, e) /\ SameCalls(d, e)
        /\ e.step = "resolve" /\ e.id = d.id /\ e.bonded = d.bonded
    BY <2>2 DEF Daemons, Steps, SameAgency, SameRecord, SameLine, SameCalls
  <2> HIDE DEF e
  <2> QED
    BY <1>5, <2>1, <2>3, ResolveGoes
<1> QED
  BY <1>2, <1>3, <1>4, <1>5

\* bd_pair_reply, PK_PAIR_NOTIFY
LEMMA NotifyReplyGoes ==
    ASSUME NEW d, NEW y, NEW q, NEW f, NEW w, NEW r,
           Core(d, y, q, f, w), d.up # "down", d.step # "idle", Held(d), r = "ok" => w = d.id
    PROVE  Goes(d, NotifyReply(d, r), y, q, f, w)
<1>1. Fit(d, y)
  BY DEF Held, Fit
<1>2. CASE d.step # "notify"
  <2>1. NotifyReply(d, r) = d
    BY <1>2 DEF NotifyReply
  <2> QED
    BY <2>1 DEF Goes, Keeps, SameRecord, SameLine
<1>3. CASE d.step = "notify" /\ r = "ok"
  <2>1. NotifyReply(d, r) = PairTrust(d)
    BY <1>3 DEF NotifyReply
  <2> QED
    BY <1>3, <2>1, PairTrustGoes
<1>4. CASE d.step = "notify" /\ r = "auth" /\ ~d.bonded
  <2>1. NotifyReply(d, r) = PairBond(d)
    BY <1>4 DEF NotifyReply
  <2> QED
    BY <1>4, <2>1, PairBondGoes
<1>5. CASE d.step = "notify" /\ ~(r = "auth" /\ ~d.bonded) /\ r # "ok"
  <2>1. NotifyReply(d, r) = PairFail(d)
    BY <1>5 DEF NotifyReply
  <2> QED
    BY <1>1, <2>1, PairFailGoes
<1> QED
  BY <1>2, <1>3, <1>4, <1>5

\* bd_pair_reply, PK_PAIR_BOND
LEMMA BondReplyGoes ==
    ASSUME NEW d, NEW y, NEW q, NEW f, NEW w, NEW r, NEW late,
           Core(d, y, q, f, w), d.up # "down", d.step # "idle", Held(d),
           \A x : x.k = "PairBond" /\ Awaited(d, x) => Nowhere(d, y, q, x)
    PROVE  Goes(d, BondReply(d, r, late), y, q, f, w)
<1>1. Fit(d, y)
  BY DEF Held, Fit
<1>2. CASE d.step # "bond"
  <2>1. BondReply(d, r, late) = d
    BY <1>2 DEF BondReply
  <2> QED
    BY <2>1 DEF Goes, Keeps, SameRecord, SameLine
<1>3. CASE d.step = "bond" /\ r \notin {"ok", "exists"}
  <2>1. BondReply(d, r, late) = PairFail(d)
    BY <1>3 DEF BondReply
  <2> QED
    BY <1>1, <2>1, PairFailGoes
<1>4. CASE d.step = "bond" /\ r \in {"ok", "exists"}
  <2> DEFINE e == [d EXCEPT !.bonded = TRUE, !.step = "resolve"]
  <2>1. BondReply(d, r, late) = PairCheck(e, late)
    BY <1>4 DEF BondReply
  <2>2. d \in Daemons
    BY DEF Core, Typed
  <2>3. /\ e \in Daemons /\ SameAgency(d, e) /\ SameRecord(d, e) /\ SameLine(d, e) /\ SameCalls(d, e)
        /\ e.step = "resolve" /\ e.id = d.id /\ e.bonded
    BY <2>2 DEF Daemons, Steps, SameAgency, SameRecord, SameLine, SameCalls
  <2> HIDE DEF e
  <2> QED
    BY <1>4, <2>1, <2>3, ResolveGoes
<1> QED
  BY <1>2, <1>3, <1>4

\* pair_done makes the sensor of the attempt whose subscription was confirmed.
LEMMA PairDoneHears ==
    ASSUME NEW d, NEW y, NEW q, NEW f, NEW w,
           Core(d, y, q, f, w), d.up # "down", d.step = "trust", Held(d)
    PROVE  Hears(d, PairDone(d), y, q, f, w)
<1> DEFINE m == [CancelAttempt(d) EXCEPT !.step = "idle", !.s = "saved", !.sid = @ + 1]
           r == PairAgentRelease(d)
           x == PairAgentRelease(m)
           g == [x EXCEPT !.rec = @ + 1, !.pending = TRUE]
<1>1. d \in Daemons /\ w = d.id /\ d.s = "none" /\ ~d.inf /\ d.loaded /\ d.bluez
  BY DEF Core, Typed, Told, Attempted, Recorded
<1>2. PairDone(d) = SaveStart(g)
  BY DEF PairDone, SaveRecords, Held
<1>3. /\ m \in Daemons /\ SameAgency(d, m) /\ SameLine(d, m) /\ m.req = d.req
      /\ m.pends = Rest(d, d.pends) /\ m.step = "idle" /\ m.id = d.id /\ m.s = "saved"
      /\ m.inf = d.inf /\ m.rec = d.rec /\ m.saved = d.saved /\ m.srev = d.srev /\ m.save = d.save
  <2> DEFINE k == CancelAttempt(d)
             s1 == d.sid + 1
  <2>1. /\ k \in Daemons /\ SameAgency(d, k) /\ SameRecord(d, k) /\ SameLine(d, k)
        /\ k.id = d.id /\ k.req = d.req /\ k.pends = Rest(d, d.pends)
    <3>1. d \in Daemons
      BY <1>1
    <3> QED
      BY <3>1 DEF CancelAttempt, Daemons, SameAgency, SameRecord, SameLine, Rest
  <2>2. s1 \in Nat
    BY <1>1 DEF Daemons
  <2>3. m = [k EXCEPT !.step = "idle", !.s = "saved", !.sid = s1]
    BY <2>1 DEF SameRecord
  <2> HIDE DEF k, s1, m
  <2> DEFINE p == [k EXCEPT !.step = "idle", !.s = "saved", !.sid = s1]
  <2>4. k \in Daemons
    BY <2>1
  <2>5. /\ p \in Daemons /\ SameAgency(k, p) /\ SameLine(k, p) /\ p.req = k.req
        /\ p.pends = k.pends /\ p.step = "idle" /\ p.id = k.id /\ p.s = "saved"
        /\ p.inf = k.inf /\ p.rec = k.rec /\ p.saved = k.saved /\ p.srev = k.srev /\ p.save = k.save
    BY <2>2, <2>4 DEF Daemons, Steps, SameAgency, SameLine
  <2> HIDE DEF p
  <2>6. m = p
    BY <2>3 DEF p
  <2> QED
    BY <2>1, <2>5, <2>6 DEF SameAgency, SameLine, SameRecord
<1> HIDE DEF m
<1>4. /\ Core(r, y, q, f, w) /\ (Removes(d) => Removes(r)) /\ ~r.areq
      /\ SameAttempt(d, r) /\ SameRecord(d, r) /\ SameLine(d, r)
  <2> HIDE DEF r
  <2> QED
    BY PairAgentReleaseKeeps DEF r, Keeps
<1>5. /\ x \in Daemons /\ SameAgency(r, x) /\ SameLine(r, x) /\ x.req = r.req
      /\ SameAttempt(m, x) /\ SameRecord(m, x) /\ x.pends = Rest(d, r.pends)
  <2>1. d \in Daemons
    BY <1>1
  <2> HIDE DEF r, x
  <2> QED
    BY <1>3, <2>1, ReleaseAlike DEF r, x
<1> HIDE DEF r, x
<1>6. /\ g \in Daemons /\ SameAgency(r, g) /\ SameLine(r, g) /\ g.req = r.req /\ g.pends = Rest(d, r.pends)
      /\ g.step = "idle" /\ g.id = d.id /\ g.s = "saved" /\ g.inf = d.inf /\ g.rec = d.rec + 1
      /\ g.saved = d.saved /\ g.srev = d.srev /\ g.save = d.save
  <2> DEFINE v == x.rec + 1
             p == [x EXCEPT !.rec = v, !.pending = TRUE]
  <2>1. v \in Nat
    BY <1>5 DEF Daemons
  <2>2. g = p
    OBVIOUS
  <2>3. x \in Daemons
    BY <1>5
  <2> HIDE DEF v, g
  <2>4. /\ p \in Daemons /\ SameAgency(x, p) /\ SameLine(x, p) /\ SameCalls(x, p) /\ SameAttempt(x, p)
        /\ p.s = x.s /\ p.inf = x.inf /\ p.rec = v /\ p.saved = x.saved /\ p.srev = x.srev /\ p.save = x.save
    BY <2>1, <2>3 DEF Daemons, SameAgency, SameLine, SameCalls, SameAttempt
  <2> HIDE DEF p
  <2> QED
    BY <1>3, <1>5, <2>2, <2>4 DEF v, SameAgency, SameLine, SameCalls, SameAttempt, SameRecord
<1> HIDE DEF g
<1>7. Core(g, y, q, f, w)
  <2>1. d.rec \in Nat /\ d.srev \in Nat /\ d.saved \in Nat
    BY <1>1 DEF Daemons
  <2>2. r.step = "trust" /\ g.id = r.id /\ r.inf = d.inf /\ r.s = d.s /\ r.loaded
        /\ g.pends = {c \in r.pends : ~(c.k \in PairKinds /\ c.id = r.id)} /\ g.loaded
    BY <1>1, <1>4, <1>6 DEF SameAttempt, SameRecord, SameLine, Rest
  <2>3. Recorded(g)
    BY <1>1, <1>6, <2>1, <2>2 DEF Core, Recorded
  <2>4. Filed(g, f) /\ Bonded(g, y, f)
    BY <1>1, <1>6, <2>1, <2>2 DEF Core, Filed, Recorded, Bonded
  <2>5. ~Asks(r.req, "Forget")
    <3>1. r.bluez
      BY <1>1, <1>4 DEF SameLine
    <3> QED
      BY <1>1, <1>4, <2>2, <3>1 DEF Core, Asks, Queued, SameLife, Flying, Flagged
  <2>6. Flags(g, f)
    BY <1>6, <2>5 DEF Flags
  <2> QED
    BY <1>4, <1>6, <2>2, <2>3, <2>4, <2>6, AttemptEnds DEF Awaited
<1>8. Removes(d) => Removes(g)
  BY <1>4, <1>6 DEF Removes
<1>9. Keeps(g, SaveStart(g), y, q, f, w) /\ SameButSave(g, SaveStart(g))
  BY <1>7, SaveStartKeeps
<1> QED
  BY <1>1, <1>2, <1>6, <1>8, <1>9 DEF Hears, Keeps, Held, Moves, SameButSave, SameAttempt

\* bd_pair_reply, PK_PAIR_TRUST
LEMMA TrustReplyHears ==
    ASSUME NEW d, NEW y, NEW q, NEW f, NEW w, NEW r,
           Core(d, y, q, f, w), d.up # "down", d.step # "idle", Held(d)
    PROVE  Hears(d, TrustReply(d, r), y, q, f, w)
<1>1. CASE d.step # "trust"
  <2>1. TrustReply(d, r) = d
    BY <1>1 DEF TrustReply
  <2> QED
    BY <2>1 DEF Hears, Keeps, Moves
<1>2. CASE d.step = "trust" /\ r = "ok"
  <2>1. TrustReply(d, r) = PairDone(d)
    BY <1>2 DEF TrustReply
  <2> QED
    BY <1>2, <2>1, PairDoneHears
<1>3. CASE d.step = "trust" /\ r # "ok"
  <2>1. TrustReply(d, r) = PairFail(d) /\ Fit(d, y)
    BY <1>3 DEF TrustReply, Fit, Held
  <2> QED
    BY <2>1, PairFailGoes, GoesHears
<1> QED
  BY <1>1, <1>2, <1>3

\* bd_pair_reply hears the answers to its own attempt.
LEMMA PairReplyHears ==
    ASSUME NEW d, NEW y, NEW q, NEW f, NEW w, NEW c, NEW r, NEW late,
           Core(d, y, q, f, w), d.up # "down", Held(d), c.k \in PairKinds,
           c.k = "PairNotify" /\ r = "ok" /\ c.id = d.id => w = d.id,
           c.k = "PairBond" /\ c.id = d.id =>
               \A x : x.k = "PairBond" /\ Awaited(d, x) => Nowhere(d, y, q, x)
    PROVE  Hears(d, PairReply(d, c, r, late), y, q, f, w)
<1>1. CASE d.step = "idle" \/ c.id # d.id
  <2>1. PairReply(d, c, r, late) = d
    BY <1>1 DEF PairReply
  <2> QED
    BY <2>1 DEF Hears, Keeps, Moves
<1>2. CASE d.step # "idle" /\ c.id = d.id /\ c.k = "Default"
  <2>1. PairReply(d, c, r, late) = DefaultReply(d, r, late)
    BY <1>2 DEF PairReply
  <2> QED
    BY <1>2, <2>1, DefaultReplyGoes, GoesHears
<1>3. CASE d.step # "idle" /\ c.id = d.id /\ c.k = "PairConnect"
  <2>1. PairReply(d, c, r, late) = ConnectReply(d, r, late)
    BY <1>3 DEF PairReply
  <2> QED
    BY <1>3, <2>1, ConnectReplyGoes, GoesHears
<1>4. CASE d.step # "idle" /\ c.id = d.id /\ c.k = "PairNotify"
  <2>1. PairReply(d, c, r, late) = NotifyReply(d, r)
    BY <1>4 DEF PairReply
  <2> QED
    BY <1>4, <2>1, NotifyReplyGoes, GoesHears
<1>5. CASE d.step # "idle" /\ c.id = d.id /\ c.k = "PairBond"
  <2>1. PairReply(d, c, r, late) = BondReply(d, r, late)
    BY <1>5 DEF PairReply
  <2> QED
    BY <1>5, <2>1, BondReplyGoes, GoesHears
<1>6. CASE d.step # "idle" /\ c.id = d.id /\ c.k = "PairTrust"
  <2>1. PairReply(d, c, r, late) = TrustReply(d, r)
    BY <1>6 DEF PairReply
  <2> QED
    BY <1>6, <2>1, TrustReplyHears
<1> QED
  BY <1>1, <1>2, <1>3, <1>4, <1>5, <1>6 DEF PairKinds

\* bd_pair_start
LEMMA PairStartHears ==
    ASSUME NEW d, NEW y, NEW q, NEW f, NEW w, Core(d, y, q, f, w), d.up # "down", ~PairRefused(d)
    PROVE  Hears(d, PairStart(d), y, q, f, w)
<1> DEFINE v == d.id + 1
           h == [d EXCEPT !.step = "connect", !.id = v, !.byUs = FALSE, !.bonded = FALSE, !.areq = FALSE]
<1>1. d.loaded /\ d.bluez /\ d.step = "idle" /\ d.s = "none" /\ d.dev.known
  BY DEF PairRefused
<1>2. d \in Daemons /\ v \in Nat /\ d.areq = FALSE
  BY <1>1 DEF Core, Typed, Agency, Daemons
<1>3. PairStart(d) = PairAgentRequest(h)
  BY DEF PairStart
<1>4. /\ h \in Daemons /\ h.step = "connect" /\ h.id = v /\ ~h.bonded
      /\ SameAgency(d, h) /\ SameRecord(d, h) /\ SameLine(d, h) /\ SameCalls(d, h)
  <2> HIDE DEF v
  <2>1. d \in Daemons /\ d.areq = FALSE
    BY <1>2
  <2> QED
    BY <1>2, <2>1 DEF Daemons, Steps, SameAgency, SameRecord, SameLine, SameCalls
<1> HIDE DEF h
<1>5. Core(h, y, q, f, w)
  BY <1>1, <1>4, AttemptBegins
<1>6. /\ Keeps(h, PairAgentRequest(h), y, q, f, w) /\ SameAttempt(h, PairAgentRequest(h))
      /\ SameRecord(h, PairAgentRequest(h)) /\ SameLine(h, PairAgentRequest(h))
  <2>1. h.up # "down" /\ h.step # "idle"
    BY <1>4 DEF SameLine
  <2> QED
    BY <1>5, <2>1, PairAgentRequestKeeps
<1> QED
  BY <1>1, <1>3, <1>4, <1>6
     DEF Hears, Keeps, Held, Moves, Removes, SameAttempt, SameRecord, SameLine, SameCalls

-----------------------------------------------------------------------------
(* The bus's functions.                                                      *)

\* What the daemon has been told of the device, of bluetoothd and of its own end changes.
LEMMA DevChanges ==
    ASSUME NEW d, NEW e, NEW y, NEW q, NEW f, NEW w, Core(d, y, q, f, w), e \in Daemons,
           SameAgency(d, e), SameAttempt(d, e), SameRecord(d, e), SameCalls(d, e),
           e.loaded = d.loaded, e.life = d.life, d.up # "down", e.up # "down",
           d.bluez => e.bluez, e.bluez => SameLife(d), e.bluez /\ ~e.dev.known => y.bond # "ours"
    PROVE  Core(e, y, q, f, w)
<1>1. \A x : (Flagged(d, x) <=> Flagged(e, x)) /\ (Once(d, x) <=> Once(e, x))
  BY DEF Flagged, Once, SameAgency, SameAttempt, SameRecord
<1>2. SameLife(e) <=> SameLife(d)
  BY DEF SameLife, SameCalls
<1>3. Typed(e, y, q, f, w) /\ Agency(e)
  BY DEF Core, Typed, Agency, SameAgency, SameAttempt
<1>4. Attempted(e) /\ Recorded(e) /\ Filed(e, f) /\ Flags(e, f)
  BY DEF Core, Attempted, Recorded, Filed, Flags, RecordsText, SameAttempt, SameRecord, SameCalls
<1>5. Queued(e)
  BY <1>2 DEF Core, Queued, SameCalls
<1>6. Flying(e, y, q)
  BY <1>1, <1>2 DEF Core, Flying, SameCalls
<1>7. OnePlace(e, y, q)
  BY <1>1 DEF Core, OnePlace, SameCalls
<1>8. Bonding(e, y)
  BY DEF Core, Bonding, Bus, Awaited, SameAttempt, SameCalls, SameRecord
<1>9. Bonded(e, y, f)
  BY DEF Core, Bonded, SameAttempt, SameCalls, SameRecord
<1>10. Granted(e, y, q)
  BY DEF Core, Granted, Quiet, SameAgency, SameCalls
<1>11. Told(e, y, q, w)
  BY DEF Core, Told, SameAttempt, SameCalls
<1> QED
  BY <1>3, <1>4, <1>5, <1>6, <1>7, <1>8, <1>9, <1>10, <1>11 DEF Core

\* agent_reply: bluetoothd has our agent, as long as it is the one that answered.
LEMMA AgentReplyHears ==
    ASSUME NEW d, NEW y, NEW q, NEW f, NEW w, NEW c \in Calls, NEW r, NEW late, Core(d, y, q, f, w),
           d.up # "down", Held(d), c.k = "Register", c.life = d.life, Flagged(d, c),
           Nowhere(d, y, q, c), \A i \in 1 .. Len(q) : q[i].t = "owner" => ~y.agent
    PROVE  Hears(d, AgentReply(d, r, late), y, q, f, w)
<1> DEFINE a == [d EXCEPT !.regInf = FALSE]
           e == [a EXCEPT !.reg = TRUE]
<1>1. d \in Daemons
  BY DEF Core, Typed
<1>2. d.regInf /\ d.bluez /\ ~d.rel /\ ~d.reg
  BY DEF Flagged, Core, Agency
<1>3. \A x : x.k = "Register" /\ x.life = d.life => Nowhere(d, y, q, x)
  BY HeardIsNowhere
<1>4. /\ a \in Daemons /\ SameAttempt(d, a) /\ SameRecord(d, a) /\ SameLine(d, a) /\ SameCalls(d, a)
      /\ a.areq = d.areq /\ a.reg = d.reg /\ ~a.regInf /\ a.rel = d.rel /\ a.relInf = d.relInf
  BY <1>1 DEF Daemons, SameAttempt, SameRecord, SameLine, SameCalls
<1>5. /\ e \in Daemons /\ SameAttempt(d, e) /\ SameRecord(d, e) /\ SameLine(d, e) /\ SameCalls(d, e)
      /\ e.areq = d.areq /\ e.reg /\ ~e.regInf /\ e.rel = d.rel /\ e.relInf = d.relInf
  BY <1>1 DEF Daemons, SameAttempt, SameRecord, SameLine, SameCalls
<1>6. AgentReply(d, r, late) = IF r \in {"ok", "exists"} THEN PairCheck(e, late) ELSE a
  BY DEF AgentReply
<1> HIDE DEF a, e
<1>7. Core(a, y, q, f, w)
  <2>1. Agency(a) /\ (Quiet(d) => Quiet(a))
    BY <1>4 DEF Core, Agency, Quiet, SameAttempt, SameLine, SameCalls
  <2> QED
    BY <1>2, <1>3, <1>4, <2>1, AgencyChanges
<1>8. Core(e, y, q, f, w)
  <2>1. Agency(e) /\ (Quiet(d) => Quiet(e))
    BY <1>2, <1>5 DEF Core, Agency, Quiet, SameAttempt, SameLine, SameCalls
  <2> QED
    BY <1>2, <1>3, <1>5, <2>1, AgencyChanges
<1>9. CASE r \in {"ok", "exists"}
  <2>1. Goes(d, e, y, q, f, w) /\ Fit(e, y) /\ e.up # "down"
    BY <1>5, <1>8 DEF Goes, Keeps, Held, Fit, Removes, SameAttempt, SameLine, SameCalls
  <2>2. Goes(e, PairCheck(e, late), y, q, f, w)
    BY <1>8, <2>1, PairCheckGoes
  <2> QED
    BY <1>6, <1>9, <2>1, <2>2, GoesOn, GoesHears
<1>10. CASE r \notin {"ok", "exists"}
  <2>1. Goes(d, a, y, q, f, w)
    BY <1>4, <1>7 DEF Goes, Keeps, Held, Removes, SameAttempt, SameLine, SameCalls
  <2> QED
    BY <1>6, <1>10, <2>1, GoesHears
<1> QED
  BY <1>9, <1>10

\* on_reply, PK_AGENT_RELEASE: it is registered again once it has been taken back.
LEMMA ReleaseReplyHears ==
    ASSUME NEW d, NEW y, NEW q, NEW f, NEW w, NEW c \in Calls, NEW r, Core(d, y, q, f, w),
           d.up # "down", Held(d), c.k = "Unregister", c.life = d.life, Flagged(d, c),
           Nowhere(d, y, q, c), r \in {"ok", "nosuch"} => ~y.dflt /\ ~Asks(d.req, "Default")
    PROVE  Hears(d, ReleaseReply(d, r), y, q, f, w)
<1> DEFINE a == [d EXCEPT !.relInf = FALSE]
           e == [a EXCEPT !.rel = FALSE]
<1>1. d \in Daemons
  BY DEF Core, Typed
<1>2. d.relInf /\ d.rel /\ d.bluez /\ ~d.reg /\ ~d.areq
  BY DEF Flagged, Core, Agency
<1>3. \A x : x.k = "Unregister" /\ x.life = d.life => Nowhere(d, y, q, x)
  BY HeardIsNowhere
<1>4. /\ a \in Daemons /\ SameAttempt(d, a) /\ SameRecord(d, a) /\ SameLine(d, a) /\ SameCalls(d, a)
      /\ a.areq = d.areq /\ a.reg = d.reg /\ a.regInf = d.regInf /\ a.rel = d.rel /\ ~a.relInf
  BY <1>1 DEF Daemons, SameAttempt, SameRecord, SameLine, SameCalls
<1>5. /\ e \in Daemons /\ SameAttempt(d, e) /\ SameRecord(d, e) /\ SameLine(d, e) /\ SameCalls(d, e)
      /\ e.areq = d.areq /\ e.reg = d.reg /\ e.regInf = d.regInf /\ ~e.rel /\ ~e.relInf
  BY <1>1 DEF Daemons, SameAttempt, SameRecord, SameLine, SameCalls
<1>6. ReleaseReply(d, r) = IF r \in {"ok", "nosuch"} THEN AgentRegister(e) ELSE a
  BY DEF ReleaseReply
<1> HIDE DEF a, e
<1>7. Core(a, y, q, f, w)
  <2>1. Agency(a) /\ (Quiet(d) => Quiet(a))
    BY <1>4 DEF Core, Agency, Quiet, SameAttempt, SameLine, SameCalls
  <2> QED
    BY <1>2, <1>3, <1>4, <2>1, AgencyChanges
<1>8. CASE r \in {"ok", "nosuch"}
  <2>1. Agency(e)
    BY <1>2, <1>5 DEF Core, Agency, SameAttempt, SameLine
  <2>2. Core(e, y, q, f, w)
    BY <1>2, <1>3, <1>5, <1>8, <2>1, AgencyChanges
  <2>3. Goes(d, e, y, q, f, w) /\ Held(e) /\ e.up # "down"
    BY <1>5, <2>2 DEF Goes, Keeps, Held, Removes, SameAttempt, SameLine, SameCalls
  <2>4. /\ Keeps(e, AgentRegister(e), y, q, f, w) /\ SameAttempt(e, AgentRegister(e))
        /\ SameRecord(e, AgentRegister(e)) /\ SameLine(e, AgentRegister(e))
    BY <2>2, <2>3, AgentRegisterKeeps
  <2>5. Goes(e, AgentRegister(e), y, q, f, w)
    BY <2>3, <2>4 DEF Goes, Held, SameAttempt, SameLine
  <2> QED
    BY <1>6, <1>8, <2>3, <2>5, GoesOn, GoesHears
<1>9. CASE r \notin {"ok", "nosuch"}
  <2>1. Goes(d, a, y, q, f, w)
    BY <1>4, <1>7 DEF Goes, Keeps, Held, Removes, SameAttempt, SameLine, SameCalls
  <2> QED
    BY <1>6, <1>9, <2>1, GoesHears
<1> QED
  BY <1>8, <1>9

\* props_signal and the like: what the device has become, checked at once.
LEMMA DeviceSignalHears ==
    ASSUME NEW d, NEW y, NEW q, NEW f, NEW w, NEW v \in Devs, NEW late, Core(d, y, q, f, w),
           d.up # "down", ~v.known => ~y.dev
    PROVE  Hears(d, DeviceSignal(d, v, late), y, q, f, w)
<1> DEFINE e == [d EXCEPT !.dev = v]
<1>1. d \in Daemons
  BY DEF Core, Typed
<1>2. /\ e \in Daemons /\ SameAgency(d, e) /\ SameAttempt(d, e) /\ SameRecord(d, e) /\ SameCalls(d, e)
      /\ e.up = d.up /\ e.loaded = d.loaded /\ e.life = d.life /\ e.bluez = d.bluez /\ e.dev = v
  BY <1>1 DEF Daemons, SameAgency, SameAttempt, SameRecord, SameCalls
<1>3. DeviceSignal(d, v, late) = PairCheck(e, late)
  BY DEF DeviceSignal
<1> HIDE DEF e
<1>4. Core(e, y, q, f, w)
  <2>1. (d.bluez => SameLife(d)) /\ (~v.known => y.bond # "ours")
    BY DEF Core, Queued, Bus
  <2> QED
    BY <1>2, <2>1, DevChanges
<1>5. Fit(e, y) /\ e.up # "down" /\ (Removes(d) => Removes(e))
  BY <1>2 DEF Fit, Removes, SameCalls
<1>6. Goes(e, PairCheck(e, late), y, q, f, w)
  BY <1>4, <1>5, PairCheckGoes
<1> QED
  BY <1>2, <1>3, <1>5, <1>6 DEF Hears, Goes, Keeps, Moves, SameRecord

\* objects_reply: bluetoothd is there, and what it has.
LEMMA ObjectsReplyHears ==
    ASSUME NEW d, NEW y, NEW q, NEW f, NEW w, NEW r, NEW v \in Devs, NEW late, Core(d, y, q, f, w),
           d.up # "down", Held(d), SameLife(d), ~v.known => ~y.dev
    PROVE  Hears(d, ObjectsReply(d, r, v, late), y, q, f, w)
<1> DEFINE e == [d EXCEPT !.dev = v, !.bluez = TRUE]
           g == AgentRegister(e)
<1>1. d \in Daemons
  BY DEF Core, Typed
<1>2. /\ e \in Daemons /\ SameAgency(d, e) /\ SameAttempt(d, e) /\ SameRecord(d, e) /\ SameCalls(d, e)
      /\ e.up = d.up /\ e.loaded = d.loaded /\ e.life = d.life /\ e.bluez /\ e.dev = v
  BY <1>1 DEF Daemons, SameAgency, SameAttempt, SameRecord, SameCalls
<1>3. CASE r # "ok"
  <2>1. ObjectsReply(d, r, v, late) = d
    BY <1>3 DEF ObjectsReply
  <2> QED
    BY <2>1 DEF Hears, Keeps, Moves
<1>4. CASE r = "ok"
  <2>1. ObjectsReply(d, r, v, late) = PairCheck(g, late)
    BY <1>4 DEF ObjectsReply
  <2> HIDE DEF e
  <2>2. Core(e, y, q, f, w) /\ e.up # "down" /\ (Removes(d) => Removes(e))
    <3>1. ~v.known => y.bond # "ours"
      BY DEF Core, Bus
    <3> QED
      BY <1>2, <3>1, DevChanges DEF Removes, SameCalls
  <2>3. /\ Keeps(e, g, y, q, f, w) /\ SameAttempt(e, g) /\ SameRecord(e, g) /\ SameLine(e, g)
    <3> HIDE DEF g
    <3> QED
      BY <2>2, AgentRegisterKeeps DEF g
  <2> HIDE DEF g
  <2>4. Fit(g, y) /\ g.up # "down" /\ Core(g, y, q, f, w)
    BY <1>2, <2>2, <2>3 DEF Fit, Keeps, SameLine
  <2>5. Goes(g, PairCheck(g, late), y, q, f, w)
    BY <2>4, PairCheckGoes
  <2> QED
    BY <1>2, <2>1, <2>2, <2>3, <2>5 DEF Hears, Goes, Keeps, Moves, SameRecord
<1> QED
  BY <1>3, <1>4

\* bluez_reset forgets the bus life it was in; what was asked of it is of an earlier one.
LEMMA ResetKeeps ==
    ASSUME NEW d, NEW e, NEW y, NEW q, NEW f, NEW w, Core(d, y, q, f, w), e \in Daemons,
           SameAttempt(d, e), SameRecord(d, e), e.req = d.req, e.pends = {}, e.up = d.up,
           e.loaded = d.loaded, ~e.bluez, ~e.areq, ~e.reg, ~e.regInf, ~e.rel, ~e.relInf,
           e.life = d.life + 1, d.step = "idle", d.up # "down",
           ~y.dflt, y.agent => ~Asks(d.req, "Default")
    PROVE  Core(e, y, q, f, w)
<1>0. d \in Daemons /\ d.life \in Nat /\ e.life = d.life + 1
  BY DEF Core, Typed, Daemons
<1>1. /\ \A i \in 1 .. Len(d.req) : d.req[i].life \in Nat /\ d.req[i].life <= d.life
      /\ \A c \in y.busy : c.life \in Nat /\ c.life <= d.life
      /\ \A i \in 1 .. Len(q) : q[i].t = "reply" => q[i].c.life \in Nat /\ q[i].c.life <= d.life
  <2>1. d.req \in Seq(Calls) /\ y.busy \subseteq Calls /\ q \in Seq(Msgs)
    BY DEF Core, Typed, Daemons, Bluezs
  <2>2. \A i \in 1 .. Len(d.req) : d.req[i] \in Calls
    BY <2>1
  <2>3. \A i \in 1 .. Len(q) : q[i] \in Msgs
    BY <2>1
  <2>4. \A c \in Calls : c.life \in Nat
    BY DEF Calls
  <2>5. \A m \in Msgs : m.c \in Calls
    BY DEF Msgs
  <2> QED
    BY <2>1, <2>2, <2>3, <2>4, <2>5 DEF Core, Queued, Flying
<1>2. /\ \A i \in 1 .. Len(d.req) : d.req[i].life < e.life /\ d.req[i].life # e.life
      /\ \A c \in y.busy : c.life < e.life /\ c.life # e.life
      /\ \A i \in 1 .. Len(q) : q[i].t = "reply" => q[i].c.life < e.life /\ q[i].c.life # e.life
  BY <1>0, <1>1
<1>3. Typed(e, y, q, f, w) /\ Agency(e) /\ Attempted(e)
  BY DEF Core, Typed, Agency, Attempted, SameAttempt
<1>4. Recorded(e) /\ Filed(e, f) /\ Flags(e, f)
  BY DEF Core, Recorded, Filed, Flags, RecordsText, SameRecord
<1>5. Queued(e)
  <2>1. \A i \in 1 .. Len(e.req) : e.req[i].life <= e.life /\ (e.req[i].k = "Leave" => e.req[i].life < e.life)
    BY <1>0, <1>1, <1>2
  <2> QED
    BY <1>2, <2>1 DEF Core, Queued
<1>6. Flying(e, y, q)
  <2>1. /\ \A c \in y.busy : c.life <= e.life
        /\ \A i \in 1 .. Len(q) : q[i].t = "reply" => q[i].c.life <= e.life
    BY <1>0, <1>1
  <2> QED
    BY <1>2, <2>1 DEF Flying, Flagged
<1>7. OnePlace(e, y, q)
  BY <1>2 DEF OnePlace, Once
<1>8. Bonding(e, y) /\ Bonded(e, y, f)
  BY DEF Core, Bonding, Bonded, Awaited, SameAttempt, SameRecord
<1>9. Granted(e, y, q)
  BY <1>2 DEF Core, Granted
<1>10. Told(e, y, q, w)
  BY <1>2 DEF Core, Told, SameAttempt
<1> QED
  BY <1>3, <1>4, <1>5, <1>6, <1>7, <1>8, <1>9, <1>10 DEF Core

-----------------------------------------------------------------------------
(* A message is read.                                                        *)

\* What is left to read is sound when its first message has been read.
LEMMA ReadKeeps ==
    ASSUME NEW d, NEW y, NEW q, NEW f, NEW w, Core(d, y, q, f, w), q # <<>>
    PROVE  Core(d, y, Tail(q), f, w)
<1> DEFINE p == Tail(q)
<1>1. q \in Seq(Msgs)
  BY DEF Core, Typed
<1>2. /\ p \in Seq(Msgs) /\ Len(q) \in Nat /\ Len(p) = Len(q) - 1
      /\ \A i \in 1 .. Len(p) : p[i] = q[i + 1] /\ i + 1 \in 1 .. Len(q)
  BY <1>1, TailIs
<1> HIDE DEF p
<1>3. Typed(d, y, p, f, w)
  BY <1>2 DEF Core, Typed
<1>4. Flying(d, y, p)
  BY <1>2 DEF Core, Flying
<1>5. OnePlace(d, y, p)
  <2>1. \A i, j \in 1 .. Len(p) : i + 1 = j + 1 => i = j
    BY <1>2
  <2> QED
    BY <1>2, <2>1 DEF Core, OnePlace
<1>6. Granted(d, y, p)
  <2>1. \A i, j \in 1 .. Len(p) : i < j => i + 1 < j + 1
    BY <1>2
  <2> QED
    BY <1>2, <2>1 DEF Core, Granted
<1>7. Told(d, y, p, w)
  <2>1. \A i \in 1 .. Len(p) : p[i] = q[i + 1] /\ i + 1 \in 1 .. Len(q)
    BY <1>2
  <2>2. d.up = "down" => p = <<>>
    BY <1>2 DEF Core, Told
  <2> QED
    BY <2>1, <2>2 DEF Core, Told
<1> QED
  BY <1>3, <1>4, <1>5, <1>6, <1>7 DEF Core, p

\* The callback of a call that is answered is over.
LEMMA CallbackOver ==
    ASSUME NEW d, NEW y, NEW q, NEW f, NEW w, Core(d, y, q, f, w), NEW c
    PROVE  LET e == [d EXCEPT !.pends = @ \ {c}]
           IN  /\ Core(e, y, q, f, w) /\ (Removes(d) => Removes(e)) /\ e.req = d.req /\ e.pends = d.pends \ {c}
               /\ SameAgency(d, e) /\ SameAttempt(d, e) /\ SameRecord(d, e) /\ SameLine(d, e)
<1> DEFINE v == d.pends \ {c}
           e == [d EXCEPT !.pends = v]
<1>1. d \in Daemons
  BY DEF Core, Typed
<1>2. v \in SUBSET Calls
  BY <1>1 DEF Daemons
<1> HIDE DEF v
<1>3. /\ e \in Daemons /\ SameAgency(d, e) /\ SameAttempt(d, e) /\ SameRecord(d, e) /\ SameLine(d, e)
      /\ e.req = d.req /\ e.pends = v
  BY <1>1, <1>2 DEF Daemons, SameAgency, SameAttempt, SameRecord, SameLine
<1>4. [d EXCEPT !.pends = @ \ {c}] = e
  BY DEF v
<1> HIDE DEF e
<1>5. \A x : (Flagged(d, x) <=> Flagged(e, x)) /\ (Once(d, x) <=> Once(e, x))
  BY <1>3 DEF Flagged, Once, SameAgency, SameAttempt, SameRecord, SameLine
<1>6. SameLife(e) <=> SameLife(d)
  BY <1>3 DEF SameLife, SameLine
<1>7. Typed(e, y, q, f, w) /\ Agency(e)
  BY <1>3 DEF Core, Typed, Agency, SameAgency, SameAttempt, SameLine
<1>8. Attempted(e)
  BY <1>3 DEF Core, Attempted, SameAttempt, SameRecord, SameLine, v
<1>9. Recorded(e) /\ Filed(e, f) /\ Flags(e, f)
  BY <1>3 DEF Core, Recorded, Filed, Flags, RecordsText, SameRecord, SameLine
<1>10. Queued(e)
  BY <1>3, <1>6 DEF Core, Queued, SameLine
<1>11. Flying(e, y, q)
  BY <1>3, <1>5, <1>6 DEF Core, Flying, SameLine
<1>12. OnePlace(e, y, q)
  BY <1>3, <1>5 DEF Core, OnePlace
<1>13. Bonding(e, y) /\ Bonded(e, y, f)
  BY <1>3 DEF Core, Bonding, Bonded, Awaited, SameAttempt, SameRecord, SameLine
<1>14. Granted(e, y, q) /\ Told(e, y, q, w)
  BY <1>3 DEF Core, Granted, Told, Quiet, SameAgency, SameAttempt, SameLine
<1>15. Core(e, y, q, f, w)
  BY <1>7, <1>8, <1>9, <1>10, <1>11, <1>12, <1>13, <1>14 DEF Core
<1>16. Removes(d) => Removes(e)
  BY <1>3 DEF Removes
<1> QED
  BY <1>3, <1>4, <1>15, <1>16 DEF v

\* What the message to be read says.
LEMMA MessageSays ==
    ASSUME NEW d, NEW y, NEW q, NEW f, NEW w, Core(d, y, q, f, w), q # <<>>
    PROVE  LET m == Head(q)
               p == Tail(q)
           IN  /\ m \in Msgs /\ m.c \in Calls /\ m.dev \in Devs /\ (~m.dev.known => ~y.dev)
               /\ m.t = "owner" => ~y.dflt /\ (y.agent => ~d.reg /\ ~Asks(d.req, "Default"))
               /\ m.t = "reply" =>
                    /\ m.c.life = d.life => SameLife(d)
                    /\ Flagged(d, m.c) /\ (Once(d, m.c) => Nowhere(d, y, p, m.c))
                    /\ m.c.k = "PairNotify" /\ m.r = "ok" /\ m.c.id = d.id => w = d.id
                    /\ m.c.k = "Unregister" /\ m.r \in {"ok", "nosuch"} /\ m.c.life = d.life =>
                          ~y.dflt /\ ~Asks(d.req, "Default")
                    /\ m.c.k = "Forget" /\ m.r \in {"ok", "nosuch"} /\ m.c.life = d.life => y.bond # "ours"
                    /\ m.c.k = "Register" /\ m.c.life = d.life =>
                          \A i \in 1 .. Len(p) : p[i].t = "owner" => ~y.agent
<1> DEFINE m == Head(q)
           p == Tail(q)
<1>1. q \in Seq(Msgs)
  BY DEF Core, Typed
<1>2. /\ p \in Seq(Msgs) /\ m \in Msgs /\ m = q[1] /\ Len(q) \in Nat /\ Len(p) = Len(q) - 1
      /\ 1 \in 1 .. Len(q) /\ \A i \in 1 .. Len(p) : p[i] = q[i + 1] /\ i + 1 \in 1 .. Len(q)
  BY <1>1, TailIs
<1>3. m.c \in Calls /\ m.dev \in Devs
  BY <1>2 DEF Msgs
<1> HIDE DEF m, p
<1>4. (~m.dev.known => ~y.dev)
      /\ (m.t = "owner" => ~y.dflt /\ (y.agent => ~d.reg /\ ~Asks(d.req, "Default")))
  BY <1>2 DEF Core, Told, Granted
<1>5. ASSUME m.t = "reply"
      PROVE  /\ m.c.life = d.life => SameLife(d)
             /\ Flagged(d, m.c)
             /\ m.c.k = "PairNotify" /\ m.r = "ok" /\ m.c.id = d.id => w = d.id
             /\ m.c.k = "Unregister" /\ m.r \in {"ok", "nosuch"} /\ m.c.life = d.life =>
                   ~y.dflt /\ ~Asks(d.req, "Default")
             /\ m.c.k = "Forget" /\ m.r \in {"ok", "nosuch"} /\ m.c.life = d.life => y.bond # "ours"
  BY <1>2, <1>5 DEF Core, Flying, Told
<1>6. ASSUME m.t = "reply", Once(d, m.c)
      PROVE  Nowhere(d, y, p, m.c)
  <2>1. \A i \in 1 .. Len(p) : i + 1 # 1
    BY <1>2
  <2>2. \A i \in 1 .. Len(p) : ~Answers(p[i], m.c)
    BY <1>2, <1>6, <2>1 DEF Core, OnePlace
  <2>3. Answers(q[1], m.c)
    BY <1>2, <1>6 DEF Answers
  <2>4. m.c \notin y.busy /\ \A i \in 1 .. Len(d.req) : d.req[i] # m.c
    BY <1>2, <1>6, <2>3 DEF Core, OnePlace
  <2> QED
    BY <2>2, <2>4 DEF Nowhere
<1>7. ASSUME m.t = "reply", m.c.k = "Register", m.c.life = d.life
      PROVE  \A i \in 1 .. Len(p) : p[i].t = "owner" => ~y.agent
  <2>1. \A i \in 1 .. Len(p) : 1 < i + 1
    BY <1>2
  <2> QED
    BY <1>2, <1>7, <2>1 DEF Core, Granted
<1> QED
  BY <1>2, <1>3, <1>4, <1>5, <1>6, <1>7 DEF m, p

\* on_reply hands the answer to the callback that waits for it.
LEMMA OnReplyHears ==
    ASSUME NEW d, NEW y, NEW q, NEW f, NEW w, NEW late, Core(d, y, q, f, w), q # <<>>,
           d.up # "down", Held(d), Head(q).t = "reply"
    PROVE  Hears(d, OnReply(d, Head(q), late), y, Tail(q), f, w)
<1> DEFINE m == Head(q)
           p == Tail(q)
           c == m.c
           a == [d EXCEPT !.pends = @ \ {c}]
           e == OnReply(d, m, late)
<1>1. Core(d, y, p, f, w)
  BY ReadKeeps
<1>2. /\ c \in Calls /\ m.dev \in Devs /\ (~m.dev.known => ~y.dev) /\ (c.life = d.life => SameLife(d))
      /\ Flagged(d, c) /\ (Once(d, c) => Nowhere(d, y, p, c))
      /\ c.k = "PairNotify" /\ m.r = "ok" /\ c.id = d.id => w = d.id
      /\ c.k = "Unregister" /\ m.r \in {"ok", "nosuch"} /\ c.life = d.life =>
            ~y.dflt /\ ~Asks(d.req, "Default")
      /\ c.k = "Forget" /\ m.r \in {"ok", "nosuch"} /\ c.life = d.life => y.bond # "ours"
      /\ c.k = "Register" /\ c.life = d.life => \A i \in 1 .. Len(p) : p[i].t = "owner" => ~y.agent
  <2> HIDE DEF m, p
  <2> QED
    BY MessageSays DEF m, p
<1>3. CASE c \notin d.pends
  <2>1. e = d
    BY <1>3 DEF OnReply
  <2> QED
    BY <1>1, <2>1 DEF Hears, Keeps, Moves
<1>4. CASE c \in d.pends
  <2>1. c.life = d.life /\ c.k \notin PlainKinds \cup {"Leave"}
    BY <1>4 DEF Core, Attempted
  <2>2. /\ Core(a, y, p, f, w) /\ (Removes(d) => Removes(a)) /\ a.req = d.req /\ a.pends = d.pends \ {c}
        /\ SameAgency(d, a) /\ SameAttempt(d, a) /\ SameRecord(d, a) /\ SameLine(d, a)
    <3> HIDE DEF m, p, c, a
    <3> QED
      BY <1>1, CallbackOver DEF a
  <2>3. /\ c.k = "Objects" => e = ObjectsReply(a, m.r, m.dev, late)
        /\ c.k = "Register" => e = AgentReply(a, m.r, late)
        /\ c.k = "Unregister" => e = ReleaseReply(a, m.r)
        /\ c.k = "Forget" => e = ForgetReply(a, c, m.r)
        /\ c.k \in PairKinds => e = PairReply(a, c, m.r, late)
    BY <1>4 DEF OnReply, PairKinds
  <2> HIDE DEF m, p, c, a, e
  <2>4. /\ a.up # "down" /\ Held(a) /\ c.life = a.life /\ Flagged(a, c)
        /\ (Once(a, c) => Nowhere(a, y, p, c)) /\ (SameLife(d) => SameLife(a)) /\ a.id = d.id
        /\ c \notin a.pends
    BY <1>2, <2>1, <2>2
       DEF Held, Flagged, Once, Nowhere, SameLife, SameAgency, SameAttempt, SameRecord, SameLine
  <2>5. SUFFICES Hears(a, e, y, p, f, w)
    BY <2>2 DEF Hears, Keeps, Moves, SameRecord, SameAttempt, m, p, e
  <2>6. CASE c.k = "Objects"
    <3>1. e = ObjectsReply(a, m.r, m.dev, late)
      BY <2>3, <2>6
    <3> QED
      BY <1>2, <2>1, <2>2, <2>4, <3>1, ObjectsReplyHears
  <2>7. CASE c.k = "Register"
    <3>1. e = AgentReply(a, m.r, late)
      BY <2>3, <2>7
    <3>2. Nowhere(a, y, p, c)
      BY <2>4, <2>7 DEF Once
    <3> QED
      BY <1>2, <2>1, <2>2, <2>4, <2>7, <3>1, <3>2, AgentReplyHears
  <2>8. CASE c.k = "Unregister"
    <3>1. e = ReleaseReply(a, m.r)
      BY <2>3, <2>8
    <3>2. Nowhere(a, y, p, c)
      BY <2>4, <2>8 DEF Once
    <3> QED
      BY <1>2, <2>1, <2>2, <2>4, <2>8, <3>1, <3>2, ReleaseReplyHears
  <2>9. CASE c.k = "Forget"
    <3>1. e = ForgetReply(a, c, m.r)
      BY <2>3, <2>9
    <3>2. Nowhere(a, y, p, c)
      BY <2>4, <2>9 DEF Once
    <3>3. Keeps(a, e, y, p, f, w) /\ SameAttempt(a, e) /\ SameLine(a, e) /\ Moves(a, e, y, f, w)
      BY <1>2, <2>1, <2>2, <2>4, <2>9, <3>1, <3>2, ForgetReplyKeeps
    <3> QED
      BY <2>4, <3>3 DEF Hears, Held, SameAttempt, SameLine
  <2>10. CASE c.k \in PairKinds
    <3>1. e = PairReply(a, c, m.r, late)
      BY <2>3, <2>10 DEF PairKinds
    <3>2. c.k = "PairBond" /\ c.id = a.id =>
              \A x : x.k = "PairBond" /\ Awaited(a, x) => Nowhere(a, y, p, x)
      <4> SUFFICES ASSUME c.k = "PairBond", c.id = a.id
                   PROVE  \A x : x.k = "PairBond" /\ Awaited(a, x) => Nowhere(a, y, p, x)
        OBVIOUS
      <4>1. Nowhere(a, y, p, c)
        BY <2>4 DEF Once
      <4>2. \A x : x.k = c.k /\ x.life = a.life /\ (c.k = "PairBond" => x.id = a.id) => Nowhere(a, y, p, x)
        BY <1>2, <2>2, <2>4, <4>1, HeardIsNowhere
      <4> QED
        BY <4>2 DEF Awaited
    <3>3. c.k = "PairNotify" /\ m.r = "ok" /\ c.id = a.id => w = a.id
      BY <1>2, <2>4
    <3> QED
      BY <2>2, <2>4, <2>10, <3>1, <3>2, <3>3, PairReplyHears
  <2>11. c.k \in Kinds
    BY <1>2 DEF Calls
  <2> QED
    BY <2>1, <2>6, <2>7, <2>8, <2>9, <2>10, <2>11 DEF Kinds, PlainKinds, PairKinds
<1> QED
  BY <1>3, <1>4

\* owner_signal: bluetoothd is gone, or is a new one.
LEMMA OwnerSignalHears ==
    ASSUME NEW d, NEW y, NEW q, NEW f, NEW w, NEW new \in BOOLEAN, Core(d, y, q, f, w), q # <<>>,
           d.up # "down", Held(d), Head(q).t = "owner"
    PROVE  Hears(d, OwnerSignal(d, new), y, Tail(q), f, w)
<1> DEFINE h == PairFail(d)
           v == h.life + 1
           e == [h EXCEPT !.pends = {}, !.bluez = FALSE, !.reg = FALSE, !.regInf = FALSE,
                          !.rel = FALSE, !.relInf = FALSE, !.dev = NoDev, !.life = v]
           p == Tail(q)
           g == Call(e, "Objects", 0)
<1>1. Keeps(d, h, y, q, f, w) /\ Failed(d, h)
  <2>1. Fit(d, y)
    BY DEF Fit, Held
  <2> HIDE DEF h
  <2> QED
    BY <2>1, PairFailKeeps DEF h
<1>2. OwnerSignal(d, new) = IF new THEN g ELSE e
  BY DEF OwnerSignal, BluezReset
<1> HIDE DEF h
<1>3. h \in Daemons /\ v \in Nat /\ ~h.areq /\ h.step = "idle" /\ h.up # "down"
  <2> HIDE DEF e, g, p
  <2>1. h \in Daemons
    BY <1>1 DEF Keeps, Core, Typed
  <2>2. v \in Nat
    BY <2>1 DEF Daemons
  <2> QED
    BY <1>1, <2>1, <2>2 DEF Failed, SameLine
<1>4. ~y.dflt /\ (y.agent => ~Asks(h.req, "Default"))
  <2>1. Core(h, y, q, f, w)
    BY <1>1 DEF Keeps
  <2> QED
    BY <2>1, MessageSays
<1>5. Core(h, y, p, f, w)
  BY <1>1, ReadKeeps DEF Keeps
<1>6. /\ e \in Daemons /\ SameAttempt(h, e) /\ SameRecord(h, e) /\ e.req = h.req /\ e.pends = {}
      /\ e.up = h.up /\ e.loaded = h.loaded /\ ~e.bluez /\ e.areq = h.areq /\ ~e.reg /\ ~e.regInf
      /\ ~e.rel /\ ~e.relInf /\ e.life = v
  <2>1. h \in Daemons
    BY <1>3
  <2>2. NoDev \in Devs
    BY DEF NoDev, Devs
  <2>3. v \in Nat
    BY <1>3
  <2> HIDE DEF v
  <2>4. e \in Daemons
    BY <2>1, <2>2, <2>3 DEF Daemons
  <2>5. SameAttempt(h, e) /\ SameRecord(h, e) /\ e.req = h.req
    BY <2>1 DEF Daemons, SameAttempt, SameRecord
  <2>6. e.pends = {} /\ e.up = h.up /\ e.loaded = h.loaded /\ ~e.bluez /\ e.areq = h.areq
    BY <2>1 DEF Daemons
  <2>7. ~e.reg /\ ~e.regInf /\ ~e.rel /\ ~e.relInf /\ e.life = v
    BY <2>1 DEF Daemons
  <2> QED
    BY <2>4, <2>5, <2>6, <2>7
<1> HIDE DEF e, p
<1>7. Core(e, y, p, f, w)
  BY <1>3, <1>4, <1>5, <1>6, ResetKeeps
<1>8. Hears(d, e, y, p, f, w)
  <2>1. Removes(h) => Removes(e)
    BY <1>6 DEF Removes
  <2> QED
    BY <1>1, <1>3, <1>6, <1>7, <2>1
       DEF Hears, Keeps, Held, Moves, Failed, SameAttempt, SameRecord
<1>9. CASE ~new
  BY <1>2, <1>8, <1>9 DEF p
<1>10. CASE new
  <2>1. e.up # "down" /\ "Objects" \in FreeKinds /\ "Objects" \notin PairKinds /\ 0 \in Nat
    BY <1>3, <1>6 DEF FreeKinds, PairKinds
  <2>2. Keeps(e, g, y, p, f, w) /\ SameAttempt(e, g) /\ SameRecord(e, g) /\ SameLine(e, g)
    <3> HIDE DEF g
    <3> QED
      BY <1>7, <2>1, FreeCallKeeps DEF g
  <2> HIDE DEF g
  <2> QED
    BY <1>2, <1>8, <1>10, <2>2
       DEF Hears, Keeps, Held, Moves, SameAttempt, SameRecord, SameLine, p
<1> QED
  BY <1>9, <1>10

\* sd_bus_process: one message.
LEMMA OnMessageHears ==
    ASSUME NEW d, NEW y, NEW q, NEW f, NEW w, NEW late, Core(d, y, q, f, w), q # <<>>,
           d.up # "down", Held(d)
    PROVE  Hears(d, OnMessage(d, Head(q), late), y, Tail(q), f, w)
<1> DEFINE m == Head(q)
           p == Tail(q)
<1>1. m \in Msgs /\ m.dev \in Devs /\ (~m.dev.known => ~y.dev)
  <2> HIDE DEF m
  <2> QED
    BY MessageSays DEF m
<1>2. CASE m.t = "reply"
  <2>1. OnMessage(d, m, late) = OnReply(d, m, late)
    BY <1>2 DEF OnMessage
  <2> QED
    BY <1>2, <2>1, OnReplyHears
<1>3. CASE m.t = "device"
  <2>1. OnMessage(d, m, late) = DeviceSignal(d, m.dev, late)
    BY <1>3 DEF OnMessage
  <2>2. Core(d, y, p, f, w)
    BY ReadKeeps
  <2> HIDE DEF p
  <2>3. Hears(d, DeviceSignal(d, m.dev, late), y, p, f, w)
    BY <1>1, <2>2, DeviceSignalHears
  <2> QED
    BY <2>1, <2>3 DEF p
<1>4. CASE m.t = "owner"
  <2>1. OnMessage(d, m, late) = OwnerSignal(d, m.r = "new")
    BY <1>4 DEF OnMessage
  <2> QED
    BY <1>4, <2>1, OwnerSignalHears
<1> QED
  BY <1>1, <1>2, <1>3, <1>4 DEF Msgs

-----------------------------------------------------------------------------
(* The tick and the storage.                                                 *)

\* tick: what waits is tried again.
LEMMA OnTickHears ==
    ASSUME NEW d, NEW y, NEW q, NEW f, NEW w, NEW due, Core(d, y, q, f, w), d.up # "down", Held(d)
    PROVE  Hears(d, OnTick(d, due), y, q, f, w)
<1> DEFINE v == d.wait /\ ~due
           h == [d EXCEPT !.wait = v]
           s1 == SaveStart(h)
           a == AgentRegister(s1)
           g == IF a.loaded THEN ForgetStep(a) ELSE a
<1>1. d \in Daemons
  BY DEF Core, Typed
<1>2. OnTick(d, due) = PairCheck(g, due)
  BY DEF OnTick
<1>3. v \in BOOLEAN
  OBVIOUS
<1> HIDE DEF v
<1>4. /\ h \in Daemons /\ SameAgency(d, h) /\ SameAttempt(d, h) /\ SameCalls(d, h) /\ SameLine(d, h)
      /\ h.s = d.s /\ h.sid = d.sid /\ h.inf = d.inf /\ h.frev = d.frev /\ h.rrev = d.rrev
      /\ h.rec = d.rec /\ h.srev = d.srev /\ h.saved = d.saved /\ h.pending = d.pending /\ h.save = d.save
  BY <1>1, <1>3 DEF Daemons, SameAgency, SameAttempt, SameCalls, SameLine
<1> HIDE DEF h, s1, a, g
<1>5. Core(h, y, q, f, w) /\ (Removes(d) => Removes(h))
  <2>1. Recorded(h) /\ Filed(h, f) /\ Flags(h, f) /\ Bonded(h, y, f)
    BY <1>4 DEF Core, Recorded, Filed, Flags, Bonded, RecordsText, SameAttempt, SameCalls, SameLine
  <2>2. /\ h.up # "down" /\ (h.step # "idle" => h.loaded /\ h.s = "none")
        /\ (h.s = "removed" => y.bond # "ours")
    BY <1>4 DEF Core, Attempted, Bonding, SameAttempt, SameLine
  <2>3. Core(h, y, q, f, w)
    BY <1>4, <2>1, <2>2, RecordChanges DEF SameLine
  <2> QED
    BY <1>4, <2>3 DEF Removes, SameCalls
<1>6. Keeps(h, s1, y, q, f, w) /\ SameButSave(h, s1)
  BY <1>5, SaveStartKeeps DEF s1
<1>7. /\ Keeps(s1, a, y, q, f, w) /\ SameAttempt(s1, a) /\ SameRecord(s1, a) /\ SameLine(s1, a)
  <2>1. Core(s1, y, q, f, w) /\ s1.up # "down"
    BY <1>4, <1>6 DEF Keeps, SameButSave, SameLine
  <2> QED
    BY <2>1, AgentRegisterKeeps DEF a
<1>8. /\ Keeps(a, g, y, q, f, w) /\ SameAttempt(a, g) /\ SameLine(a, g) /\ Moves(a, g, y, f, w)
  <2>1. Core(a, y, q, f, w) /\ a.up # "down"
    BY <1>4, <1>6, <1>7 DEF Keeps, SameButSave, SameLine
  <2>2. CASE a.loaded
    <3>1. g = ForgetStep(a)
      BY <2>2 DEF g
    <3> QED
      BY <2>1, <3>1, ForgetStepKeeps
  <2>3. CASE ~a.loaded
    <3>1. g = a
      BY <2>3 DEF g
    <3> QED
      BY <2>1, <3>1 DEF Keeps, Moves, SameAttempt, SameLine
  <2> QED
    BY <2>2, <2>3
<1>9. SameAttempt(d, g) /\ SameLine(d, g) /\ a.s = d.s
  <2>1. SameAttempt(d, g)
    BY <1>4, <1>6, <1>7, <1>8 DEF SameButSave, SameAttempt
  <2>2. SameLine(d, g)
    BY <1>4, <1>6, <1>7, <1>8 DEF SameButSave, SameLine
  <2>3. a.s = d.s
    BY <1>4, <1>6, <1>7 DEF SameButSave, SameRecord
  <2> QED
    BY <2>1, <2>2, <2>3
<1>10. Core(g, y, q, f, w) /\ Fit(g, y) /\ g.up # "down"
  BY <1>8, <1>9 DEF Keeps, Held, Fit, SameAttempt, SameLine
<1>11. Goes(g, PairCheck(g, due), y, q, f, w)
  BY <1>10, PairCheckGoes
<1>12. Moves(d, g, y, f, w) /\ (Removes(d) => Removes(g))
  <2>1. a.id = d.id
    BY <1>8, <1>9 DEF SameAttempt
  <2> QED
    BY <1>5, <1>6, <1>7, <1>8, <1>9, <2>1 DEF Moves, Keeps
<1> QED
  BY <1>2, <1>9, <1>11, <1>12 DEF Hears, Goes, Keeps, Moves, SameRecord

\* load_finish: the sensor is the one of the file, or none when the file could not be had.
LEMMA LoadFinishHears ==
    ASSUME NEW d, NEW y, NEW q, NEW f, NEW w, NEW text \in Texts, Core(d, y, q, f, w),
           d.up # "down", ~d.loaded,
           text = f \/ (text = "none" /\ y.bond # "ours")
    PROVE  /\ Keeps(d, LoadFinish(d, text), y, q, f, w) /\ Held(LoadFinish(d, text))
           /\ d.s = "none"
<1> DEFINE v == IF text = "none" THEN d.sid ELSE d.sid + 1
           e == [d EXCEPT !.loaded = TRUE, !.s = text, !.sid = v]
<1>1. d \in Daemons
  BY DEF Core, Typed
<1>2. v \in Nat /\ text \in {"none", "saved", "forget", "removed"}
  BY <1>1 DEF Daemons, Texts
<1>3. LoadFinish(d, text) = e
  BY DEF LoadFinish
<1> HIDE DEF v
<1>4. /\ e \in Daemons /\ SameAgency(d, e) /\ SameAttempt(d, e) /\ SameCalls(d, e)
      /\ e.up = d.up /\ e.bluez = d.bluez /\ e.dev = d.dev /\ e.life = d.life /\ e.loaded
      /\ e.s = text /\ e.inf = d.inf /\ e.frev = d.frev /\ e.rrev = d.rrev
      /\ e.rec = d.rec /\ e.srev = d.srev /\ e.saved = d.saved /\ e.pending = d.pending /\ e.save = d.save
  BY <1>1, <1>2 DEF Daemons, SameAgency, SameAttempt, SameCalls
<1> HIDE DEF e
<1>5. /\ d.s = "none" /\ d.save.at = "none" /\ ~d.pending /\ d.rec = 0 /\ d.frev = 0 /\ ~d.inf
      /\ d.step = "idle" /\ d.saved = 0 /\ d.srev = 0
  <2>1. d.saved \in Nat /\ d.srev \in Nat
    BY <1>1 DEF Daemons
  <2> QED
    BY <2>1 DEF Core, Recorded, Attempted
<1>6. Recorded(e) /\ text # "removed"
  BY <1>4, <1>5 DEF Recorded, Texts
<1>7. Filed(e, f) /\ Flags(e, f) /\ Bonded(e, y, f)
  BY <1>4, <1>5, <1>6 DEF Core, Filed, Flags, Bonded, RecordsText, SameCalls
<1>8. Core(e, y, q, f, w)
  <2>1. e.step = "idle" /\ e.up # "down" /\ e.s # "removed"
    BY <1>4, <1>5, <1>6 DEF SameAttempt
  <2> QED
    BY <1>4, <1>5, <1>6, <1>7, <2>1, RecordChanges
<1> QED
  BY <1>3, <1>4, <1>5, <1>8 DEF Keeps, Held, Removes, SameAttempt, SameCalls

\* save_finished: what the child was given is in the file, or is to be saved again.
LEMMA SaveFinishedHears ==
    ASSUME NEW d, NEW y, NEW q, NEW f, NEW w, NEW success \in BOOLEAN, Core(d, y, q, f, w),
           d.up # "down", Held(d), d.save.at # "none", success => d.save.at = "written"
    PROVE  Hears(d, SaveFinished(d, success), y, q, f, w)
<1> DEFINE k == IF success THEN [d EXCEPT !.saved = d.srev, !.wait = FALSE]
                           ELSE [d EXCEPT !.pending = TRUE, !.wait = TRUE]
           h == [k EXCEPT !.save = NoSaver]
<1>1. d \in Daemons
  BY DEF Core, Typed
<1>2. SaveFinished(d, success) = SaveStart(h)
  BY DEF SaveFinished
<1>3. /\ h \in Daemons /\ SameAgency(d, h) /\ SameAttempt(d, h) /\ SameCalls(d, h) /\ SameLine(d, h)
      /\ h.s = d.s /\ h.sid = d.sid /\ h.inf = d.inf /\ h.frev = d.frev /\ h.rrev = d.rrev
      /\ h.rec = d.rec /\ h.srev = d.srev /\ h.saved = (IF success THEN d.srev ELSE d.saved)
      /\ h.save.at = "none"
  <2>1. NoSaver \in Savers /\ NoSaver.at = "none"
    BY DEF NoSaver, Savers, Texts
  <2>2. CASE success
    <3> DEFINE g == [d EXCEPT !.saved = d.srev, !.wait = FALSE]
               x == [g EXCEPT !.save = NoSaver]
    <3>1. h = x
      BY <2>2
    <3>2. /\ g \in Daemons /\ SameAgency(d, g) /\ SameAttempt(d, g) /\ SameCalls(d, g) /\ SameLine(d, g)
          /\ g.s = d.s /\ g.sid = d.sid /\ g.inf = d.inf /\ g.frev = d.frev /\ g.rrev = d.rrev
          /\ g.rec = d.rec /\ g.srev = d.srev /\ g.saved = d.srev
      BY <1>1 DEF Daemons, SameAgency, SameAttempt, SameCalls, SameLine
    <3> HIDE DEF g, h
    <3>3. g \in Daemons
      BY <3>2
    <3>4. /\ x \in Daemons /\ SameAgency(g, x) /\ SameAttempt(g, x) /\ SameCalls(g, x) /\ SameLine(g, x)
          /\ x.s = g.s /\ x.sid = g.sid /\ x.inf = g.inf /\ x.frev = g.frev /\ x.rrev = g.rrev
          /\ x.rec = g.rec /\ x.srev = g.srev /\ x.saved = g.saved /\ x.save = NoSaver
      BY <2>1, <3>3 DEF Daemons, SameAgency, SameAttempt, SameCalls, SameLine
    <3> HIDE DEF x
    <3> QED
      BY <2>1, <2>2, <3>1, <3>2, <3>4 DEF SameAgency, SameAttempt, SameCalls, SameLine
  <2>3. CASE ~success
    <3> DEFINE g == [d EXCEPT !.pending = TRUE, !.wait = TRUE]
               x == [g EXCEPT !.save = NoSaver]
    <3>1. h = x
      BY <2>3
    <3>2. /\ g \in Daemons /\ SameAgency(d, g) /\ SameAttempt(d, g) /\ SameCalls(d, g) /\ SameLine(d, g)
          /\ g.s = d.s /\ g.sid = d.sid /\ g.inf = d.inf /\ g.frev = d.frev /\ g.rrev = d.rrev
          /\ g.rec = d.rec /\ g.srev = d.srev /\ g.saved = d.saved
      BY <1>1 DEF Daemons, SameAgency, SameAttempt, SameCalls, SameLine
    <3> HIDE DEF g, h
    <3>3. g \in Daemons
      BY <3>2
    <3>4. /\ x \in Daemons /\ SameAgency(g, x) /\ SameAttempt(g, x) /\ SameCalls(g, x) /\ SameLine(g, x)
          /\ x.s = g.s /\ x.sid = g.sid /\ x.inf = g.inf /\ x.frev = g.frev /\ x.rrev = g.rrev
          /\ x.rec = g.rec /\ x.srev = g.srev /\ x.saved = g.saved /\ x.save = NoSaver
      BY <2>1, <3>3 DEF Daemons, SameAgency, SameAttempt, SameCalls, SameLine
    <3> HIDE DEF x
    <3> QED
      BY <2>1, <2>3, <3>1, <3>2, <3>4 DEF SameAgency, SameAttempt, SameCalls, SameLine
  <2> QED
    BY <2>2, <2>3
<1> HIDE DEF h
<1>4. d.loaded /\ d.saved \in Nat /\ d.srev \in Nat /\ d.rec \in Nat
  BY <1>1 DEF Core, Recorded, Daemons
<1>5. RecordsText(h) = RecordsText(d) /\ h.loaded
  BY <1>3, <1>4 DEF RecordsText, SameLine
<1>6. Recorded(h)
  BY <1>3, <1>4, <1>5 DEF Core, Recorded
<1>7. Filed(h, f)
  BY <1>3, <1>4, <1>5 DEF Core, Filed, Recorded
<1>8. Bonded(h, y, f) /\ Flags(h, f)
  BY <1>3, <1>4, <1>5 DEF Core, Bonded, Flags, SameAttempt, SameCalls
<1>9. Core(h, y, q, f, w)
  <2>1. /\ h.up # "down" /\ (h.step # "idle" => h.loaded /\ h.s = "none")
        /\ (h.s = "removed" => y.bond # "ours")
    BY <1>3 DEF Core, Attempted, Bonding, SameAttempt, SameLine
  <2> QED
    BY <1>3, <1>6, <1>7, <1>8, <2>1, RecordChanges DEF SameLine
<1>10. Keeps(h, SaveStart(h), y, q, f, w) /\ SameButSave(h, SaveStart(h))
  BY <1>9, SaveStartKeeps
<1> QED
  BY <1>2, <1>3, <1>10
     DEF Hears, Keeps, Held, Moves, Removes, SameButSave, SameAttempt, SameLine, SameCalls
-----------------------------------------------------------------------------
(* What bluetoothd does: it lets go, it takes a call, it answers.            *)

Less(y, v) ==
    /\ v \in Bluezs /\ Bus(v)
    /\ v.agent => y.agent
    /\ v.dflt => y.dflt
    /\ v.dev => y.dev
    /\ v.bond = "ours" => y.bond = "ours"
    /\ v.busy \subseteq y.busy

\* It holds less for the daemon, of its agent, the device, the bond and the calls under way.
LEMMA LessKeeps ==
    ASSUME NEW d, NEW y, NEW v, NEW q, NEW f, NEW w, Core(d, y, q, f, w), Less(y, v)
    PROVE  Core(d, v, q, f, w)
<1>1. Typed(d, v, q, f, w)
  BY DEF Core, Typed, Less
<1>2. Flying(d, v, q) /\ OnePlace(d, v, q)
  BY DEF Core, Flying, OnePlace, Less
<1>3. Bonding(d, v) /\ Bonded(d, v, f)
  BY DEF Core, Bonding, Bonded, Less
<1>4. Granted(d, v, q) /\ Told(d, v, q, w)
  BY DEF Core, Granted, Told, Less
<1> QED
  BY <1>1, <1>2, <1>3, <1>4 DEF Core, Less

\* A call that has left the line and is neither under way nor answered.
Sent(d, y, q, c) ==
    /\ c \in Calls /\ c.life <= d.life /\ (c.life = d.life => SameLife(d))
    /\ Flagged(d, c) /\ (Once(d, c) => Nowhere(d, y, q, c))

\* So is one that was under way and no longer is.
LEMMA BusyIsSent ==
    ASSUME NEW d, NEW y, NEW v, NEW q, NEW f, NEW w, NEW c, Core(d, y, q, f, w),
           c \in y.busy, v.busy \subseteq y.busy \ {c}
    PROVE  Sent(d, v, q, c)
<1>1. c \in Calls
  BY DEF Core, Typed, Bluezs
<1>2. c.life <= d.life /\ (c.life = d.life => SameLife(d)) /\ Flagged(d, c)
  BY DEF Core, Flying
<1>3. Once(d, c) => Nowhere(d, v, q, c)
  BY DEF Core, OnePlace, Nowhere
<1> QED
  BY <1>1, <1>2, <1>3 DEF Sent

\* The first call of the line, when it has been taken.
Taken(e, y, q, c) ==
    /\ Sent(e, y, q, c)
    /\ e.bluez => c.life = e.life
    /\ \A i \in 1 .. Len(q) : q[i].t = "reply" /\ q[i].c.life = e.life => c.life = e.life
    /\ c.k = "PairBond" => Awaited(e, c) \/ AskedAfter(e.req, 0, {"CancelPairing", "Leave"}) \/ ~y.dev
    /\ c.k = "Register" => ~Asks(e.req, "Default")
    /\ c.k = "Unregister" /\ c.life = e.life => ~Asks(e.req, "Default")
    /\ c.k = "Default" =>
         /\ y.agent => Quiet(e) /\ \A i \in 1 .. Len(q) : q[i].t # "owner"
         /\ \A i \in 1 .. Len(q) :
              ~(q[i].t = "reply" /\ q[i].c.k = "Unregister" /\ q[i].r \in {"ok", "nosuch"} /\ q[i].c.life = e.life)

\* bluetoothd takes a call whose work is done already.
LEMMA TakeKeeps ==
    ASSUME NEW d, NEW e, NEW y, NEW q, NEW f, NEW w, Core(d, y, q, f, w), d.req # <<>>, e \in Daemons,
           SameAgency(d, e), SameAttempt(d, e), SameRecord(d, e), SameLine(d, e),
           e.pends = d.pends, e.req = Tail(d.req),
           Head(d.req).k = "RemoveDevice" => y.bond # "ours",
           Head(d.req).k = "Leave" => ~y.agent /\ ~y.dflt,
           Head(d.req).k \in {"CancelPairing", "Leave"} => \A x \in y.busy : x.k # "PairBond"
    PROVE  /\ Core(e, y, q, f, w) /\ (Removes(d) => Removes(e))
           /\ Taken(e, y, q, Head(d.req))
<1> DEFINE c == Head(d.req)
           L == Len(d.req)
<1>1. d \in Daemons /\ d.req \in Seq(Calls) /\ Typed(e, y, q, f, w) /\ d.life \in Nat /\ e.life = d.life
  BY DEF Core, Typed, Daemons, SameLine
<1>2. /\ e.req \in Seq(Calls) /\ c \in Calls /\ c = d.req[1] /\ L \in Nat /\ L >= 1 /\ Len(e.req) = L - 1
      /\ 1 \in 1 .. L /\ \A i \in 1 .. Len(e.req) : e.req[i] = d.req[i + 1] /\ i + 1 \in 1 .. L
  BY <1>1, TailIs
<1>3. \A j \in 1 .. L : j = 1 \/ (j - 1 \in 1 .. Len(e.req) /\ e.req[j - 1] = d.req[j])
  BY <1>2
<1>4. \A k : Asks(d.req, k) <=> Asks(e.req, k) \/ c.k = k
  BY <1>2, <1>3 DEF Asks, L
<1>5. \A K : \A i \in 1 .. Len(e.req) : AskedAfter(d.req, i + 1, K) => AskedAfter(e.req, i, K)
  <2> SUFFICES ASSUME NEW K, NEW i \in 1 .. Len(e.req), NEW j \in i + 2 .. L, d.req[j].k \in K
               PROVE  AskedAfter(e.req, i, K)
    BY <1>2 DEF AskedAfter, L
  <2>1. j - 1 \in i + 1 .. Len(e.req) /\ j \in 1 .. L /\ j # 1
    BY <1>2
  <2>2. e.req[j - 1].k \in K
    BY <1>3, <2>1
  <2> QED
    BY <2>1, <2>2 DEF AskedAfter
<1>6. \A K : AskedAfter(d.req, 1, K) => AskedAfter(e.req, 0, K)
  <2> SUFFICES ASSUME NEW K, NEW j \in 2 .. L, d.req[j].k \in K
               PROVE  AskedAfter(e.req, 0, K)
    BY DEF AskedAfter, L
  <2>1. j - 1 \in 0 + 1 .. Len(e.req) /\ j \in 1 .. L /\ j # 1
    BY <1>2
  <2>2. e.req[j - 1].k \in K
    BY <1>3, <2>1
  <2> QED
    BY <2>1, <2>2 DEF AskedAfter
<1>7. \A K : AskedAfter(d.req, 0, K) => c.k \in K \/ AskedAfter(e.req, 0, K)
  <2> SUFFICES ASSUME NEW K, NEW j \in 1 .. L, d.req[j].k \in K, j # 1
               PROVE  AskedAfter(e.req, 0, K)
    BY <1>2 DEF AskedAfter, L
  <2>1. j - 1 \in 0 + 1 .. Len(e.req)
    BY <1>2
  <2>2. e.req[j - 1].k \in K
    BY <1>3
  <2> QED
    BY <2>1, <2>2 DEF AskedAfter
<1>8. SameLife(d) => SameLife(e) /\ c.life = e.life
  BY <1>1, <1>2 DEF SameLife, L
<1>9. \A x : (Flagged(d, x) <=> Flagged(e, x)) /\ (Once(d, x) <=> Once(e, x))
  BY DEF Flagged, Once, SameAgency, SameAttempt, SameRecord, SameLine
<1>10. Agency(e) /\ Attempted(e) /\ Recorded(e) /\ Filed(e, f)
  BY DEF Core, Agency, Attempted, Recorded, Filed, RecordsText, SameAgency, SameAttempt, SameRecord, SameLine
<1> HIDE DEF c, L
<1>11. Queued(e)
  <2>1. \A i \in 1 .. Len(e.req) : e.req[i].life <= e.life /\ (e.req[i].k = "Leave" => e.req[i].life < e.life)
    BY <1>1, <1>2 DEF Core, Queued, L
  <2>2. \A i, j \in 1 .. Len(e.req) : i < j => i + 1 < j + 1
    BY <1>2
  <2>3. \A i, j \in 1 .. Len(e.req) : i < j => e.req[i].life <= e.req[j].life
    BY <1>2, <2>2 DEF Core, Queued, L
  <2>4. \A i, j \in 1 .. Len(e.req) : i < j /\ e.req[j].k = "Default" =>
           e.req[i].k # "Register" /\ (e.req[i].k = "Unregister" => e.req[i].life # e.life)
    BY <1>1, <1>2, <2>2 DEF Core, Queued, L
  <2>5. e.bluez => SameLife(e)
    BY <1>8 DEF Core, Queued, SameLine
  <2> QED
    BY <2>1, <2>3, <2>4, <2>5 DEF Queued
<1>12. Flying(e, y, q)
  BY <1>1, <1>2, <1>8, <1>9 DEF Core, Flying, L
<1>13. OnePlace(e, y, q)
  <2>1. \A i, j \in 1 .. Len(e.req) : i + 1 = j + 1 => i = j
    BY <1>2
  <2> QED
    BY <1>2, <1>9, <2>1 DEF Core, OnePlace, L
<1>14. \A x : Awaited(d, x) <=> Awaited(e, x)
  BY DEF Awaited, SameAttempt, SameLine
<1>15. Bonding(e, y)
  <2>1. \A i \in 1 .. Len(e.req) : e.req[i].k = "PairBond" =>
           Awaited(e, e.req[i]) \/ AskedAfter(e.req, i, {"CancelPairing", "Leave"}) \/ ~y.dev
    BY <1>2, <1>5, <1>14 DEF Core, Bonding, L
  <2>2. \A x \in y.busy : x.k = "PairBond" =>
           Awaited(e, x) \/ AskedAfter(e.req, 0, {"CancelPairing", "Leave"})
    BY <1>7, <1>14 DEF Core, Bonding, c
  <2> QED
    BY <2>1, <2>2 DEF Core, Bonding, SameLine, SameRecord
<1>16. Bonded(e, y, f)
  BY <1>4 DEF Core, Bonded, SameAttempt, SameRecord, SameLine, c
<1>17. Quiet(d) => Quiet(e) \/ c.k = "Leave"
  BY <1>4 DEF Quiet, SameAgency
<1>18. Granted(e, y, q)
  BY <1>1, <1>4, <1>17 DEF Core, Granted, SameAgency, c
<1>19. Told(e, y, q, w)
  BY <1>1, <1>4 DEF Core, Told, SameAttempt, SameLine
<1>20. Flags(e, f)
  BY <1>4 DEF Core, Flags, SameRecord
<1>21. Core(e, y, q, f, w)
  BY <1>1, <1>10, <1>11, <1>12, <1>13, <1>15, <1>16, <1>18, <1>19, <1>20 DEF Core
<1>22. Removes(d) => Removes(e)
  BY <1>2, <1>5 DEF Removes, L
<1>23. Sent(e, y, q, c)
  <2>1. c.life <= e.life
    BY <1>1, <1>2 DEF Core, Queued, L
  <2>2. c.life = e.life => SameLife(d)
    <3> SUFFICES ASSUME c.life = e.life PROVE SameLife(d)
      OBVIOUS
    <3>1. \A i \in 1 .. L : d.req[i].life <= d.life /\ d.req[1].life <= d.req[i].life
      BY <1>1, <1>2 DEF Core, Queued, L
    <3>2. \A i \in 1 .. L : d.req[i] \in Calls
      BY <1>1 DEF L
    <3> QED
      BY <1>1, <1>2, <3>1, <3>2 DEF SameLife, Calls, L
  <2>3. Flagged(e, c)
    BY <1>2, <1>9 DEF Core, Flying, L
  <2>4. \A i \in 1 .. Len(e.req) : 1 # i + 1
    BY <1>2
  <2>5. Once(e, c) => Nowhere(e, y, q, c)
    BY <1>2, <1>9, <2>4 DEF Core, OnePlace, Nowhere, L
  <2> QED
    BY <1>2, <1>8, <2>1, <2>2, <2>3, <2>5 DEF Sent
<1>24. Taken(e, y, q, c)
  <2>1. e.bluez => c.life = e.life
    BY <1>8 DEF Core, Queued, SameLine
  <2>2. \A i \in 1 .. Len(q) : q[i].t = "reply" /\ q[i].c.life = e.life => c.life = e.life
    BY <1>1, <1>8 DEF Core, Flying
  <2>3. c.k = "PairBond" => Awaited(e, c) \/ AskedAfter(e.req, 0, {"CancelPairing", "Leave"}) \/ ~y.dev
    BY <1>2, <1>6, <1>14 DEF Core, Bonding, L
  <2>4. \A i \in 1 .. Len(e.req) : 1 < i + 1
    BY <1>2
  <2>5. c.k = "Register" \/ (c.k = "Unregister" /\ c.life = e.life) => ~Asks(e.req, "Default")
    BY <1>1, <1>2, <2>4 DEF Core, Queued, Asks, L
  <2>6. c.k = "Default" => (y.agent => Quiet(e) /\ \A i \in 1 .. Len(q) : q[i].t # "owner")
    BY <1>4, <1>17 DEF Core, Granted
  <2>7. c.k = "Default" =>
           \A i \in 1 .. Len(q) :
             ~(q[i].t = "reply" /\ q[i].c.k = "Unregister" /\ q[i].r \in {"ok", "nosuch"} /\ q[i].c.life = e.life)
    BY <1>1, <1>4 DEF Core, Told
  <2> QED
    BY <1>23, <2>1, <2>2, <2>3, <2>5, <2>6, <2>7 DEF Taken
<1> QED
  BY <1>21, <1>22, <1>24 DEF c
\* A reply or a signal is sent: it tells what is so, and an answer nobody else has had.
LEMMA MessageKeeps ==
    ASSUME NEW d, NEW y, NEW q, NEW f, NEW w, NEW m \in Msgs, Core(d, y, q, f, w), d.up # "down",
           ~m.dev.known => ~y.dev,
           m.t = "owner" => ~y.dflt /\ ~y.agent,
           m.t = "reply" =>
             /\ Sent(d, y, q, m.c)
             /\ m.c.k \in PairKinds => m.c.id <= d.id
             /\ m.c.k = "PairNotify" /\ m.r = "ok" /\ m.c.id = d.id => w = d.id
             /\ m.c.k = "Unregister" /\ m.r \in {"ok", "nosuch"} /\ m.c.life = d.life =>
                   ~y.dflt /\ ~Asks(d.req, "Default")
             /\ m.c.k = "Forget" /\ m.r \in {"ok", "nosuch"} /\ m.c.life = d.life => y.bond # "ours"
    PROVE  Core(d, y, Append(q, m), f, w)
<1> DEFINE p == Append(q, m)
           L == Len(q)
<1>1. q \in Seq(Msgs) /\ m.c \in Calls
  BY DEF Core, Typed, Msgs
<1>2. /\ p \in Seq(Msgs) /\ L \in Nat /\ Len(p) = L + 1 /\ p[L + 1] = m
      /\ \A i \in 1 .. L : p[i] = q[i]
      /\ \A i \in 1 .. Len(p) : i \in 1 .. L \/ i = L + 1
  BY <1>1, AppendIs
<1>3. \A i \in 1 .. L, j \in 1 .. L : p[i] = q[i] /\ p[j] = q[j] /\ i # L + 1
  BY <1>2
<1> HIDE DEF p, L
<1>4. Typed(d, y, p, f, w)
  BY <1>2 DEF Core, Typed
<1>5. Flying(d, y, p)
  BY <1>2 DEF Core, Flying, Sent, L
<1>6. OnePlace(d, y, p)
  <2>1. \A i \in 1 .. Len(d.req) : Once(d, d.req[i]) =>
           d.req[i] \notin y.busy /\ \A j \in 1 .. Len(p) : ~Answers(p[j], d.req[i])
    BY <1>2 DEF Core, OnePlace, Sent, Nowhere, Answers, L
  <2>2. \A c \in y.busy : Once(d, c) => \A j \in 1 .. Len(p) : ~Answers(p[j], c)
    BY <1>2 DEF Core, OnePlace, Sent, Nowhere, Answers, L
  <2>3. ASSUME NEW i \in 1 .. Len(p), NEW j \in 1 .. Len(p),
               p[i].t = "reply", Once(d, p[i].c), Answers(p[j], p[i].c)
        PROVE  i = j
    <3>1. CASE i \in 1 .. L /\ j \in 1 .. L
      BY <1>2, <2>3, <3>1 DEF Core, OnePlace, L
    <3>2. CASE i \in 1 .. L /\ j = L + 1
      BY <1>2, <2>3, <3>2 DEF Sent, Nowhere, Answers, L
    <3>3. CASE i = L + 1 /\ j \in 1 .. L
      BY <1>2, <2>3, <3>3 DEF Sent, Nowhere, Answers, L
    <3> QED
      BY <1>2, <3>1, <3>2, <3>3
  <2> QED
    BY <2>1, <2>2, <2>3 DEF Core, OnePlace
<1>7. Granted(d, y, p)
  <2>1. \A i \in 1 .. Len(p) : p[i].t = "owner" =>
           ~y.dflt /\ (y.agent => ~d.reg /\ ~Asks(d.req, "Default"))
    BY <1>2 DEF Core, Granted, L
  <2>2. ASSUME NEW i \in 1 .. Len(p), NEW j \in 1 .. Len(p), i < j, p[j].t = "owner",
               p[i].t = "reply", p[i].c.k = "Register", p[i].c.life = d.life
        PROVE  ~y.agent
    <3>1. i \in 1 .. L
      BY <1>2, <2>2
    <3>2. CASE j \in 1 .. L
      BY <1>2, <2>2, <3>1, <3>2 DEF Core, Granted, L
    <3>3. CASE j = L + 1
      BY <1>2, <2>2, <3>3
    <3> QED
      BY <1>2, <3>2, <3>3
  <2> QED
    BY <2>1, <2>2 DEF Core, Granted
<1>8. Told(d, y, p, w)
  BY <1>2 DEF Core, Told, L
<1> QED
  BY <1>4, <1>5, <1>6, <1>7, <1>8 DEF Core, p

\* A call that takes its time is under way.
LEMMA StartsKeeps ==
    ASSUME NEW d, NEW y, NEW v, NEW q, NEW f, NEW w, NEW c, Core(d, y, q, f, w), Taken(d, y, q, c),
           v \in Bluezs, v.up, y.up, v.agent = y.agent, v.dflt = y.dflt, v.dev, y.dev,
           v.bond = y.bond, v.busy = y.busy \cup {c}
    PROVE  Core(d, v, q, f, w)
<1>1. Typed(d, v, q, f, w) /\ Bus(v)
  BY DEF Core, Typed, Bus
<1>2. Flying(d, v, q)
  BY DEF Core, Flying, Taken, Sent
<1>3. OnePlace(d, v, q)
  BY DEF Core, OnePlace, Taken, Sent, Nowhere
<1>4. Bonding(d, v)
  BY DEF Core, Bonding, Taken
<1>5. Bonded(d, v, f) /\ Granted(d, v, q) /\ Told(d, v, q, w)
  BY DEF Core, Bonded, Granted, Told
<1> QED
  BY <1>1, <1>2, <1>3, <1>4, <1>5 DEF Core

\* Register: it has our agent, and no Default is on its way that could make it one unasked.
LEMMA RegisterKeeps ==
    ASSUME NEW d, NEW y, NEW v, NEW q, NEW f, NEW w, NEW c, Core(d, y, q, f, w), Taken(d, y, q, c),
           c.k = "Register", v \in Bluezs, v.up, v.dflt = y.dflt, v.dev = y.dev, v.conn = y.conn,
           v.bond = y.bond, v.busy = y.busy
    PROVE  Core(d, v, q, f, w) /\ Sent(d, v, q, c)
<1>1. Typed(d, v, q, f, w) /\ Bus(v)
  BY DEF Core, Typed, Bus
<1>2. Flying(d, v, q) /\ OnePlace(d, v, q) /\ Bonding(d, v) /\ Bonded(d, v, f)
  BY DEF Core, Flying, OnePlace, Bonding, Bonded
<1>3. Told(d, v, q, w)
  BY DEF Core, Told
<1>4. ~d.reg /\ ~Asks(d.req, "Default")
  BY DEF Core, Agency, Taken, Sent, Flagged
<1>5. ASSUME NEW i \in 1 .. Len(q), q[i].t = "reply", q[i].c.k = "Register", q[i].c.life = d.life
      PROVE  FALSE
  <2>1. c.life = d.life /\ c.id = 0 /\ q[i].c.id = 0
    BY <1>5 DEF Core, Flying, Taken, Sent, Flagged
  <2>2. q[i] \in Msgs
    BY DEF Core, Typed
  <2>3. q[i].c \in Calls /\ c \in Calls
    BY <2>2 DEF Msgs, Taken, Sent
  <2>4. q[i].c = c
    BY <1>5, <2>1, <2>3 DEF Calls
  <2> QED
    BY <1>5, <2>1, <2>4 DEF Taken, Sent, Once, Nowhere, Answers
<1>6. Granted(d, v, q)
  BY <1>4, <1>5 DEF Core, Granted
<1> QED
  BY <1>1, <1>2, <1>3, <1>6 DEF Core, Taken, Sent, Nowhere

\* Default: it is the system's agent, as it was asked for or will be taken back.
LEMMA DefaultKeeps ==
    ASSUME NEW d, NEW y, NEW v, NEW q, NEW f, NEW w, NEW c, Core(d, y, q, f, w), Taken(d, y, q, c),
           c.k = "Default", y.agent, v \in Bluezs, v.up, v.agent = y.agent, v.dev = y.dev, v.conn = y.conn,
           v.bond = y.bond, v.busy = y.busy
    PROVE  Core(d, v, q, f, w) /\ Sent(d, v, q, c)
<1>1. Typed(d, v, q, f, w) /\ Bus(v)
  BY DEF Core, Typed, Bus
<1>2. Flying(d, v, q) /\ OnePlace(d, v, q) /\ Bonding(d, v) /\ Bonded(d, v, f)
  BY DEF Core, Flying, OnePlace, Bonding, Bonded
<1>3. Told(d, v, q, w)
  BY DEF Core, Told, Taken
<1>4. Granted(d, v, q)
  BY DEF Core, Granted, Taken
<1> QED
  BY <1>1, <1>2, <1>3, <1>4 DEF Core, Taken, Sent, Nowhere

\* The bond is made for an attempt that will keep it, or have the device removed.
LEMMA BondKeeps ==
    ASSUME NEW d, NEW y, NEW v, NEW q, NEW f, NEW w, NEW c, Core(d, y, q, f, w), Removes(d), Held(d),
           c \in y.busy, c.k = "PairBond", d.step # "idle",
           v \in Bluezs, v.up, y.up, v.agent = y.agent, v.dflt = y.dflt, v.dev = y.dev,
           v.bond = "ours", v.busy \subseteq y.busy
    PROVE  Core(d, v, q, f, w)
<1>1. Typed(d, v, q, f, w) /\ Bus(v)
  BY DEF Core, Typed, Bus
<1>2. Flying(d, v, q) /\ OnePlace(d, v, q)
  BY DEF Core, Flying, OnePlace
<1>3. d.bluez /\ d.loaded /\ d.s = "none" /\ d.dev.known
  BY DEF Core, Attempted, Held
<1>4. Bonding(d, v)
  BY <1>3 DEF Core, Bonding
<1>5. Asks(d.req, "RemoveDevice") \/ d.step = "bond"
  <2> SUFFICES ASSUME ~Awaited(d, c)
               PROVE  Asks(d.req, "RemoveDevice")
    BY DEF Awaited
  <2>1. d.req \in Seq(Calls) /\ Len(d.req) \in Nat
    BY DEF Core, Typed, Daemons
  <2>2. PICK j \in 1 .. Len(d.req) : d.req[j].k \in {"CancelPairing", "Leave"}
    BY DEF Core, Bonding, AskedAfter
  <2>3. d.req[j].life = d.life /\ d.life \in Nat
    BY <1>3 DEF Core, Typed, Daemons, Queued, SameLife
  <2>4. d.req[j].k # "Leave"
    BY <2>3 DEF Core, Queued
  <2>5. AskedAfter(d.req, j, {"RemoveDevice"})
    BY <2>2, <2>4 DEF Removes
  <2> QED
    BY <2>1, <2>5 DEF AskedAfter, Asks
<1>6. Bonded(d, v, f)
  BY <1>3, <1>5 DEF Bonded
<1>7. Granted(d, v, q)
  BY DEF Core, Granted
<1>8. Told(d, v, q, w)
  BY <1>3 DEF Core, Told, Flying, Flagged, Recorded
<1> QED
  BY <1>1, <1>2, <1>4, <1>6, <1>7, <1>8 DEF Core

\* An attempt's StartNotify is confirmed.
LEMMA ConfirmKeeps ==
    ASSUME NEW d, NEW y, NEW q, NEW f, NEW w, Core(d, y, q, f, w)
    PROVE  Core(d, y, q, f, d.id)
BY DEF Core, Typed, Told, Daemons

\* The device is found again when nothing is on its way.
LEMMA FoundKeeps ==
    ASSUME NEW d, NEW y, NEW v, NEW q, NEW f, NEW w, Core(d, y, q, f, w), q = <<>>, d.req = <<>>,
           v \in Bluezs, v.up, v.agent = y.agent, v.dflt = y.dflt, v.dev, v.bond = y.bond, v.busy = y.busy
    PROVE  Core(d, v, q, f, w)
<1>1. Typed(d, v, q, f, w) /\ Bus(v) /\ Len(q) = 0 /\ Len(d.req) = 0
  BY DEF Core, Typed, Bus
<1>2. \A i \in 1 .. 0 : FALSE
  OBVIOUS
<1>3. Flying(d, v, q) /\ OnePlace(d, v, q)
  BY DEF Core, Flying, OnePlace
<1>4. Bonding(d, v) /\ Bonded(d, v, f)
  BY <1>1, <1>2 DEF Core, Bonding, Bonded
<1>5. Granted(d, v, q) /\ Told(d, v, q, w)
  BY <1>1, <1>2 DEF Core, Granted, Told
<1> QED
  BY <1>1, <1>3, <1>4, <1>5 DEF Core
-----------------------------------------------------------------------------
(* What bluetoothd sends.                                                    *)

\* A sequence with one more is the sequence with one appended, or with nothing the same.
LEMMA SaidIs ==
    ASSUME NEW S, NEW s \in Seq(S), NEW x \in S
    PROVE  s \o <<x>> = Append(s, x) /\ s \o <<>> = s /\ <<x>> \in Seq(S) /\ <<>> \in Seq(S)
<1>1. s \o <<>> = s
  BY ConcatEmptySeq
<1>2. s \o <<x>> = Append(s, x)
  OBVIOUS
<1> QED
  BY <1>1, <1>2

\* A message leaves a call nowhere, unless it is its answer.
LEMMA MessageLeaves ==
    ASSUME NEW d, NEW y, NEW q \in Seq(Msgs), NEW m \in Msgs, NEW c, Sent(d, y, q, c),
           Once(d, c) => ~Answers(m, c)
    PROVE  Sent(d, y, Append(q, m), c)
<1>1. /\ \A i \in 1 .. Len(q) : Append(q, m)[i] = q[i]
      /\ Append(q, m)[Len(q) + 1] = m
      /\ \A i \in 1 .. Len(Append(q, m)) : i \in 1 .. Len(q) \/ i = Len(q) + 1
  BY AppendIs
<1> QED
  BY <1>1 DEF Sent, Nowhere

\* A reply, to a call that still has its callback.
LEMMA ReplyKeeps ==
    ASSUME NEW d, NEW y, NEW v \in Bluezs, NEW q, NEW f, NEW w, NEW c, NEW r \in Results,
           Core(d, y, q, f, w), d.pends = b.pends, Sent(d, y, q, c), ~v.dev => ~y.dev,
           c.k = "PairNotify" /\ r = "ok" /\ c.id = d.id => w = d.id,
           c.k = "Unregister" /\ r \in {"ok", "nosuch"} /\ c.life = d.life =>
               ~y.dflt /\ ~Asks(d.req, "Default"),
           c.k = "Forget" /\ r \in {"ok", "nosuch"} /\ c.life = d.life => y.bond # "ours"
    PROVE  /\ Core(d, y, q \o Reply(c, r, v), f, w)
           /\ Reply(c, r, v) \in Seq(Msgs)
           /\ \A x : Sent(d, y, q, x) /\ (Once(d, x) => x # c) => Sent(d, y, q \o Reply(c, r, v), x)
<1> DEFINE m == [t |-> "reply", c |-> c, r |-> r, dev |-> View(v)]
<1>1. q \in Seq(Msgs) /\ c \in Calls
  BY DEF Core, Typed, Sent
<1>2. View(v) \in Devs /\ View(v).known = v.dev
  BY DEF View, Bluezs, Devs
<1>3. m \in Msgs /\ m.t = "reply" /\ m.c = c /\ m.r = r /\ m.dev = View(v)
  BY <1>1, <1>2 DEF Msgs
<1>4. Reply(c, r, v) = IF c \in b.pends THEN <<m>> ELSE <<>>
  BY DEF Reply
<1> HIDE DEF m
<1>5. CASE c \in b.pends
  <2>1. q \o Reply(c, r, v) = Append(q, m) /\ Reply(c, r, v) \in Seq(Msgs)
    BY <1>1, <1>3, <1>4, <1>5, SaidIs
  <2>2. d.id \in Nat
    BY DEF Core, Typed, Daemons
  <2>3. d.up # "down" /\ (c.k \in PairKinds => c.id <= d.id)
    BY <1>5, <2>2 DEF Core, Attempted
  <2>4. Core(d, y, Append(q, m), f, w)
    BY <1>2, <1>3, <2>3, MessageKeeps
  <2>5. \A x : Sent(d, y, q, x) /\ (Once(d, x) => x # c) => Sent(d, y, Append(q, m), x)
    BY <1>1, <1>3, MessageLeaves DEF Answers
  <2> QED
    BY <2>1, <2>4, <2>5
<1>6. CASE c \notin b.pends
  BY <1>1, <1>3, <1>4, <1>6, SaidIs
<1> QED
  BY <1>5, <1>6

\* A signal, to a daemon that runs.
LEMMA SignalKeeps ==
    ASSUME NEW d, NEW y, NEW v \in Bluezs, NEW q, NEW f, NEW w, NEW t \in {"device", "owner"},
           NEW r \in Results, Core(d, y, q, f, w), d.up = b.up, ~v.dev => ~y.dev,
           t = "owner" => ~y.dflt /\ ~y.agent
    PROVE  /\ Core(d, y, q \o Signal(t, r, v), f, w)
           /\ Signal(t, r, v) \in Seq(Msgs)
           /\ \A x : Sent(d, y, q, x) => Sent(d, y, q \o Signal(t, r, v), x)
<1> DEFINE c == [k |-> "Objects", id |-> 0, life |-> 0]
           m == [t |-> t, c |-> c, r |-> r, dev |-> View(v)]
<1>1. q \in Seq(Msgs) /\ c \in Calls
  BY DEF Core, Typed, Calls, Kinds
<1>2. View(v) \in Devs /\ View(v).known = v.dev
  BY DEF View, Bluezs, Devs
<1>3. m \in Msgs /\ m.t = t /\ m.dev = View(v)
  BY <1>1, <1>2 DEF Msgs
<1>4. Signal(t, r, v) = IF Up THEN <<m>> ELSE <<>>
  BY DEF Signal
<1> HIDE DEF m, c
<1>5. CASE Up
  <2>1. q \o Signal(t, r, v) = Append(q, m) /\ Signal(t, r, v) \in Seq(Msgs)
    BY <1>1, <1>3, <1>4, <1>5, SaidIs
  <2>2. Core(d, y, Append(q, m), f, w)
    BY <1>2, <1>3, <1>5, MessageKeeps DEF Up
  <2>3. \A x : Sent(d, y, q, x) => Sent(d, y, Append(q, m), x)
    BY <1>1, <1>3, MessageLeaves DEF Answers
  <2> QED
    BY <2>1, <2>2, <2>3
<1>6. CASE ~Up
  BY <1>1, <1>3, <1>4, <1>6, SaidIs
<1> QED
  BY <1>5, <1>6

\* The error to the call that was under way.
LEMMA AbortedKeeps ==
    ASSUME NEW d, NEW y \in Bluezs, NEW v, NEW q, NEW f, NEW w, Core(d, v, q, f, w), d.pends = b.pends,
           ~y.dev => ~v.dev, \A x \in y.busy : Sent(d, v, q, x)
    PROVE  /\ Core(d, v, q \o Aborted(y), f, w)
           /\ Aborted(y) \in Seq(Msgs)
           /\ \A x : Sent(d, v, q, x) /\ (Once(d, x) => x \notin y.busy) => Sent(d, v, q \o Aborted(y), x)
<1> DEFINE c == CHOOSE x \in y.busy \cap b.pends : TRUE
<1>1. q \in Seq(Msgs) /\ "err" \in Results
  BY DEF Core, Typed, Results
<1>2. Aborted(y) = IF y.busy \cap b.pends = {} THEN <<>> ELSE Reply(c, "err", y)
  BY DEF Aborted
<1>3. CASE y.busy \cap b.pends = {}
  <2>1. q \o <<>> = q
    BY <1>1, ConcatEmptySeq
  <2>2. <<>> \in Seq(Msgs)
    OBVIOUS
  <2> QED
    BY <1>2, <1>3, <2>1, <2>2
<1>4. CASE y.busy \cap b.pends # {}
  <2>1. c \in y.busy
    BY <1>4
  <2> HIDE DEF c
  <2>2. Sent(d, v, q, c)
    BY <2>1
  <2>3. /\ Core(d, v, q \o Reply(c, "err", y), f, w) /\ Reply(c, "err", y) \in Seq(Msgs)
        /\ \A x : Sent(d, v, q, x) /\ (Once(d, x) => x # c) => Sent(d, v, q \o Reply(c, "err", y), x)
    BY <1>1, <2>2, ReplyKeeps
  <2> QED
    BY <1>2, <1>4, <2>1, <2>3
<1> QED
  BY <1>3, <1>4

\* What was sent stays so when the line gets shorter.
LEMMA SentStays ==
    ASSUME NEW d, NEW e, NEW y, NEW q, NEW c, Sent(d, y, q, c), d.req \in Seq(Calls), d.req # <<>>,
           SameAgency(d, e), SameAttempt(d, e), SameRecord(d, e), SameLine(d, e), e.req = Tail(d.req)
    PROVE  Sent(e, y, q, c)
<1>1. \A i \in 1 .. Len(e.req) : e.req[i] = d.req[i + 1] /\ i + 1 \in 1 .. Len(d.req)
  BY TailIs
<1>2. (Flagged(d, c) <=> Flagged(e, c)) /\ (Once(d, c) <=> Once(e, c)) /\ e.life = d.life
  BY DEF Flagged, Once, SameAgency, SameAttempt, SameRecord, SameLine
<1> QED
  BY <1>1, <1>2 DEF Sent, Nowhere, SameLife
-----------------------------------------------------------------------------
(* bluetoothd takes the first call of the line.                              *)

Served == [b EXCEPT !.req = Tail(@)]

\* The daemon with its first call taken.
LEMMA ServedIs ==
    ASSUME b \in Daemons, b.req # <<>>
    PROVE  /\ Served \in Daemons /\ Served.pends = b.pends /\ Served.req = Tail(b.req)
           /\ SameAgency(b, Served) /\ SameAttempt(b, Served) /\ SameRecord(b, Served) /\ SameLine(b, Served)
<1>1. b.req \in Seq(Calls)
  BY DEF Daemons
<1>2. Tail(b.req) \in Seq(Calls)
  BY <1>1, TailIs
<1> DEFINE v == Tail(b.req)
           e == [b EXCEPT !.req = v]
<1>3. Served = e
  BY DEF Served
<1> HIDE DEF v
<1>4. /\ e \in Daemons /\ e.pends = b.pends /\ e.req = v
      /\ SameAgency(b, e) /\ SameAttempt(b, e) /\ SameRecord(b, e) /\ SameLine(b, e)
  BY <1>2 DEF Daemons, SameAgency, SameAttempt, SameRecord, SameLine, v
<1> HIDE DEF e
<1> QED
  BY <1>3, <1>4 DEF v

\* It is taken from a bluetoothd that has let go of what the call undoes.
LEMMA ServedKeeps ==
    ASSUME NEW y, NEW q, NEW f, NEW w, Core(b, y, q, f, w), b.req # <<>>,
           Head(b.req).k = "RemoveDevice" => y.bond # "ours",
           Head(b.req).k = "Leave" => ~y.agent /\ ~y.dflt,
           Head(b.req).k \in {"CancelPairing", "Leave"} => \A x \in y.busy : x.k # "PairBond"
    PROVE  /\ Core(Served, y, q, f, w) /\ (Removes(b) => Removes(Served))
           /\ Taken(Served, y, q, Head(b.req)) /\ Sent(Served, y, q, Head(b.req))
<1>1. b \in Daemons
  BY DEF Core, Typed
<1>2. /\ Served \in Daemons /\ Served.pends = b.pends /\ Served.req = Tail(b.req)
      /\ SameAgency(b, Served) /\ SameAttempt(b, Served) /\ SameRecord(b, Served) /\ SameLine(b, Served)
  BY <1>1, ServedIs
<1>3. Core(Served, y, q, f, w) /\ (Removes(b) => Removes(Served)) /\ Taken(Served, y, q, Head(b.req))
  BY <1>2, TakeKeeps
<1> QED
  BY <1>3 DEF Taken

\* A device without its connection, and one that is not known.
LEMMA UnlinkedIs ==
    ASSUME NEW y \in Bluezs
    PROVE  /\ Unlinked(y) \in Bluezs /\ Unlinked(y).up = y.up /\ Unlinked(y).agent = y.agent
           /\ Unlinked(y).dflt = y.dflt /\ Unlinked(y).dev = y.dev /\ ~Unlinked(y).conn
           /\ Unlinked(y).bond = y.bond /\ Unlinked(y).busy = {}
           /\ Unknown(y) \in Bluezs /\ Unknown(y).up = y.up /\ Unknown(y).agent = y.agent
           /\ Unknown(y).dflt = y.dflt /\ ~Unknown(y).dev /\ ~Unknown(y).conn
           /\ Unknown(y).bond = "none" /\ Unknown(y).busy = {}
BY DEF Unlinked, Unknown, Bluezs

\* So it holds less.
LEMMA UnlinkedLess ==
    ASSUME NEW y \in Bluezs, Bus(y)
    PROVE  Less(y, Unlinked(y)) /\ Less(y, Unknown(y))
<1>1. /\ Unlinked(y) \in Bluezs /\ Unlinked(y).up = y.up /\ Unlinked(y).agent = y.agent
      /\ Unlinked(y).dflt = y.dflt /\ Unlinked(y).dev = y.dev /\ ~Unlinked(y).conn
      /\ Unlinked(y).bond = y.bond /\ Unlinked(y).busy = {}
      /\ Unknown(y) \in Bluezs /\ Unknown(y).up = y.up /\ Unknown(y).agent = y.agent
      /\ Unknown(y).dflt = y.dflt /\ ~Unknown(y).dev /\ ~Unknown(y).conn
      /\ Unknown(y).bond = "none" /\ Unknown(y).busy = {}
  BY UnlinkedIs
<1> QED
  BY <1>1 DEF Less, Bus

\* A RemoveDevice that is lost leaves a bond that is nobody's.
LEMMA LostIs ==
    ASSUME NEW y \in Bluezs, Bus(y), NEW c
    PROVE  /\ Less(y, Lost(y, c)) /\ Lost(y, c).up = y.up /\ Lost(y, c).dev = y.dev
           /\ Lost(y, c).agent = y.agent /\ Lost(y, c).dflt = y.dflt /\ Lost(y, c).busy = y.busy
           /\ c.k = "RemoveDevice" => Lost(y, c).bond # "ours"
<1> DEFINE v == [y EXCEPT !.bond = "stray"]
<1>1. Lost(y, c) = IF c.k = "RemoveDevice" /\ y.bond = "ours" THEN v ELSE y
  BY DEF Lost
<1>2. /\ v \in Bluezs /\ v.up = y.up /\ v.agent = y.agent /\ v.dflt = y.dflt /\ v.dev = y.dev
      /\ v.conn = y.conn /\ v.bond = "stray" /\ v.busy = y.busy
  BY DEF Bluezs
<1> HIDE DEF v
<1>3. Less(y, y)
  BY DEF Less
<1>4. y.bond = "ours" => Less(y, v)
  BY <1>2 DEF Less, Bus
<1> QED
  BY <1>1, <1>2, <1>3, <1>4

\* What can be told of a call that is answered at once.
Answered(v, c, r) ==
    /\ v \in Bluezs /\ r \in Results
    /\ Core(Served, v, rep, disk, won) /\ Sent(Served, v, rep, c) /\ (Removes(b) => Removes(Served))
    /\ c.k = "PairNotify" => r # "ok"
    /\ c.k = "Unregister" => ~v.dflt /\ (c.life = b.life => ~Asks(Served.req, "Default"))
    /\ c.k = "Forget" /\ r # "err" => v.bond # "ours"

\* The answer is sent.
LEMMA AnsweredKeeps ==
    ASSUME NEW v, NEW c, NEW r, Answered(v, c, r), b \in Daemons, b.req # <<>>
    PROVE  Core(Served, v, rep \o Reply(c, r, v), disk, won) /\ (Removes(b) => Removes(Served))
<1>1. Served.pends = b.pends /\ Served.life = b.life
  BY ServedIs DEF SameLine
<1>2. Core(Served, v, rep \o Reply(c, r, v), disk, won)
  BY <1>1, ReplyKeeps DEF Answered
<1> QED
  BY <1>2 DEF Answered

\* The calls of the agent, and those that change nothing.
LEMMA AgentServed ==
    ASSUME Core(b, z, rep, disk, won), z.up, b.req # <<>>,
           Head(b.req).k \in {"Objects", "Register", "Unregister", "Default", "PairTrust"}
    PROVE  \E v, r : Effect(z, Head(b.req)) = Done(v, Head(b.req), r) /\ Answered(v, Head(b.req), r)
<1> DEFINE c == Head(b.req)
<1>1. z \in Bluezs /\ b \in Daemons /\ Bus(z)
  BY DEF Core, Typed
<1>2. c.k # "Unregister" =>
        /\ Core(Served, z, rep, disk, won) /\ (Removes(b) => Removes(Served))
        /\ Taken(Served, z, rep, c) /\ Sent(Served, z, rep, c)
  BY ServedKeeps
<1>3. "ok" \in Results /\ "err" \in Results /\ "exists" \in Results /\ "nosuch" \in Results
  BY DEF Results
<1> HIDE DEF c
<1>4. CASE c.k = "Objects"
  <2>1. Effect(z, c) = Done(z, c, "ok")
    BY <1>4 DEF Effect
  <2> QED
    BY <1>1, <1>2, <1>3, <1>4, <2>1 DEF Answered, c
<1>5. CASE c.k = "PairTrust"
  <2>1. Effect(z, c) = Done(z, c, IF z.dev THEN "ok" ELSE "err")
    BY <1>5 DEF Effect
  <2> QED
    BY <1>1, <1>2, <1>3, <1>5, <2>1 DEF Answered, c
<1>6. CASE c.k = "Register"
  <2> DEFINE v == [z EXCEPT !.agent = TRUE]
  <2>1. Effect(z, c) = Done(v, c, IF z.agent THEN "exists" ELSE "ok")
    BY <1>6 DEF Effect
  <2>2. /\ v \in Bluezs /\ v.up = z.up /\ v.dflt = z.dflt /\ v.dev = z.dev /\ v.conn = z.conn
        /\ v.bond = z.bond /\ v.busy = z.busy
    BY <1>1 DEF Bluezs
  <2> HIDE DEF v
  <2>3. Core(Served, v, rep, disk, won) /\ Sent(Served, v, rep, c)
    BY <1>2, <1>6, <2>2, RegisterKeeps
  <2> QED
    BY <1>2, <1>3, <1>6, <2>1, <2>2, <2>3 DEF Answered, c
<1>7. CASE c.k = "Unregister"
  <2> DEFINE v == [z EXCEPT !.agent = FALSE, !.dflt = FALSE]
  <2>1. Effect(z, c) = Done(v, c, IF z.agent THEN "ok" ELSE "nosuch")
    BY <1>7 DEF Effect
  <2>2. /\ v \in Bluezs /\ v.up = z.up /\ ~v.agent /\ ~v.dflt /\ v.dev = z.dev /\ v.conn = z.conn
        /\ v.bond = z.bond /\ v.busy = z.busy
    BY <1>1 DEF Bluezs
  <2> HIDE DEF v
  <2>3. Core(b, v, rep, disk, won)
    BY <1>1, <2>2, LessKeeps DEF Less, Bus
  <2>4. /\ Core(Served, v, rep, disk, won) /\ (Removes(b) => Removes(Served))
        /\ Taken(Served, v, rep, c) /\ Sent(Served, v, rep, c)
    BY <1>7, <2>3, ServedKeeps DEF c
  <2>5. Served.life = b.life
    BY <1>1, ServedIs DEF SameLine
  <2> QED
    BY <1>3, <1>7, <2>1, <2>2, <2>4, <2>5 DEF Answered, Taken, c
<1>8. CASE c.k = "Default" /\ z.agent
  <2> DEFINE v == [z EXCEPT !.dflt = TRUE]
  <2>1. Effect(z, c) = Done(v, c, "ok")
    BY <1>8 DEF Effect
  <2>2. /\ v \in Bluezs /\ v.up = z.up /\ v.agent = z.agent /\ v.dev = z.dev /\ v.conn = z.conn
        /\ v.bond = z.bond /\ v.busy = z.busy
    BY <1>1 DEF Bluezs
  <2> HIDE DEF v
  <2>3. Core(Served, v, rep, disk, won) /\ Sent(Served, v, rep, c)
    BY <1>2, <1>8, <2>2, DefaultKeeps
  <2> QED
    BY <1>2, <1>3, <1>8, <2>1, <2>2, <2>3 DEF Answered, c
<1>9. CASE c.k = "Default" /\ ~z.agent
  <2>1. Effect(z, c) = Done(z, c, "err")
    BY <1>9 DEF Effect
  <2> QED
    BY <1>1, <1>2, <1>3, <1>9, <2>1 DEF Answered, c
<1> QED
  BY <1>4, <1>5, <1>6, <1>7, <1>8, <1>9 DEF c
\* What bluetoothd then holds and what it has sent.
Kept(e) == Core(Served, e[1], rep \o e[2], disk, won) /\ (Removes(b) => Removes(Served))

\* An answer at once.
LEMMA DoneKept ==
    ASSUME NEW v, NEW c, NEW r, Answered(v, c, r), b \in Daemons, b.req # <<>>
    PROVE  Kept(Done(v, c, r))
BY AnsweredKeeps DEF Kept, Done

\* A call that takes its time.
LEMMA StartsKept ==
    ASSUME NEW c, Core(Served, z, rep, disk, won), Removes(b) => Removes(Served),
           Taken(Served, z, rep, c), z.up, z.dev
    PROVE  Kept(Starts(z, c))
<1> DEFINE s == z.busy \cup {c}
           v == [z EXCEPT !.busy = s]
<1>1. z \in Bluezs /\ rep \in Seq(Msgs) /\ c \in Calls
  BY DEF Core, Typed, Taken, Sent
<1>2. s \in SUBSET Calls
  BY <1>1 DEF Bluezs
<1>3. Starts(z, c) = <<v, <<>>>>
  BY DEF Starts
<1> HIDE DEF s
<1>4. /\ v \in Bluezs /\ v.up = z.up /\ v.agent = z.agent /\ v.dflt = z.dflt /\ v.dev = z.dev
      /\ v.bond = z.bond /\ v.busy = s
  BY <1>1, <1>2 DEF Bluezs
<1> HIDE DEF v
<1>5. Core(Served, v, rep, disk, won)
  BY <1>4, StartsKeeps DEF s
<1>6. rep \o <<>> = rep
  BY <1>1, ConcatEmptySeq
<1> QED
  BY <1>3, <1>5, <1>6 DEF Kept

\* The device's calls of an attempt.
LEMMA PairServed ==
    ASSUME Core(b, z, rep, disk, won), z.up, b.req # <<>>,
           Head(b.req).k \in {"PairConnect", "PairNotify", "PairBond"}
    PROVE  Kept(Effect(z, Head(b.req)))
<1> DEFINE c == Head(b.req)
<1>1. z \in Bluezs /\ b \in Daemons
  BY DEF Core, Typed
<1>2. /\ Core(Served, z, rep, disk, won) /\ (Removes(b) => Removes(Served))
      /\ Taken(Served, z, rep, c) /\ Sent(Served, z, rep, c)
  BY ServedKeeps
<1>3. "ok" \in Results /\ "err" \in Results /\ "exists" \in Results
  BY DEF Results
<1> HIDE DEF c
<1>4. z.dev => Kept(Starts(z, c))
  BY <1>2, StartsKept
<1>5. Kept(Done(z, c, "err"))
  <2>1. Answered(z, c, "err")
    BY <1>1, <1>2, <1>3 DEF Answered, c
  <2> QED
    BY <1>1, <2>1, DoneKept
<1>6. c.k = "PairConnect" => Kept(Done(z, c, "ok"))
  <2>1. c.k = "PairConnect" => Answered(z, c, "ok")
    BY <1>1, <1>2, <1>3 DEF Answered
  <2> QED
    BY <1>1, <2>1, DoneKept
<1>7. c.k = "PairBond" => Kept(Done(z, c, "exists"))
  <2>1. c.k = "PairBond" => Answered(z, c, "exists")
    BY <1>1, <1>2, <1>3 DEF Answered
  <2> QED
    BY <1>1, <2>1, DoneKept
<1>8. CASE c.k = "PairConnect"
  <2>1. Effect(z, c) = IF ~z.dev THEN Done(z, c, "err")
                       ELSE IF z.conn THEN Done(z, c, "ok") ELSE Starts(z, c)
    BY <1>8 DEF Effect
  <2> QED
    BY <1>4, <1>5, <1>6, <1>8, <2>1 DEF c
<1>9. CASE c.k = "PairNotify"
  <2>1. Effect(z, c) = IF z.dev /\ z.conn /\ z.res THEN Starts(z, c) ELSE Done(z, c, "err")
    BY <1>9 DEF Effect
  <2> QED
    BY <1>4, <1>5, <2>1 DEF c
<1>10. CASE c.k = "PairBond"
  <2>1. Effect(z, c) = IF ~z.dev THEN Done(z, c, "err")
                       ELSE IF z.bond # "none" THEN Done(z, c, "exists") ELSE Starts(z, c)
    BY <1>10 DEF Effect
  <2> QED
    BY <1>4, <1>5, <1>7, <1>10, <2>1 DEF c
<1> QED
  BY <1>8, <1>9, <1>10 DEF c

\* CancelPairing and the daemon's leaving end the pairing under way.
LEMMA CancelServed ==
    ASSUME Core(b, z, rep, disk, won), b.req # <<>>, Head(b.req).k \in {"CancelPairing", "Leave"}
    PROVE  Kept(Effect(z, Head(b.req)))
<1> DEFINE c == Head(b.req)
           s == {x \in z.busy : x.k # "PairBond"}
           g == IF c.k = "Leave" THEN FALSE ELSE z.agent
           u == IF c.k = "Leave" THEN FALSE ELSE z.dflt
           v == [z EXCEPT !.agent = g, !.dflt = u, !.busy = s]
<1>1. z \in Bluezs /\ b \in Daemons /\ Bus(z) /\ rep \in Seq(Msgs)
  BY DEF Core, Typed
<1>2. s \in SUBSET Calls /\ g \in BOOLEAN /\ u \in BOOLEAN
  BY <1>1 DEF Bluezs
<1>3. Effect(z, c) = <<v, <<>>>>
  <2>1. CASE c.k = "Leave"
    BY <2>1 DEF Effect
  <2>2. CASE c.k = "CancelPairing"
    <3>1. z.busy \ {x \in z.busy : x.k = "PairBond"} = s
      OBVIOUS
    <3>2. Effect(z, c) = <<[z EXCEPT !.busy = z.busy \ {x \in z.busy : x.k = "PairBond"}], <<>>>>
      BY <2>2 DEF Effect
    <3>3. v = [z EXCEPT !.busy = s]
      BY <1>1, <2>2 DEF Bluezs
    <3> QED
      BY <3>1, <3>2, <3>3
  <2> QED
    BY <2>1, <2>2
<1>4. /\ s \subseteq z.busy /\ (g => z.agent) /\ (u => z.dflt) /\ (c.k = "Leave" => ~g /\ ~u)
      /\ \A x \in s : x.k # "PairBond"
  OBVIOUS
<1> HIDE DEF s, g, u
<1>5. /\ v \in Bluezs /\ v.up = z.up /\ v.agent = g /\ v.dflt = u /\ v.dev = z.dev /\ v.conn = z.conn
      /\ v.bond = z.bond /\ v.busy = s
  BY <1>1, <1>2 DEF Bluezs
<1> HIDE DEF v
<1>6. Less(z, v)
  BY <1>1, <1>4, <1>5 DEF Less, Bus
<1>7. Core(b, v, rep, disk, won)
  BY <1>6, LessKeeps
<1>8. Core(Served, v, rep, disk, won) /\ (Removes(b) => Removes(Served))
  BY <1>4, <1>5, <1>7, ServedKeeps
<1>9. rep \o <<>> = rep
  BY <1>1, ConcatEmptySeq
<1>10. Kept(<<v, <<>>>>)
  BY <1>8, <1>9 DEF Kept
<1> QED
  BY <1>3, <1>10

\* What the calls under way hear when the device lets go of them.
LEMMA LetGo ==
    ASSUME NEW v, Core(b, z, rep, disk, won), b.req # <<>>, Less(z, v), v.busy = {},
           Head(b.req).k = "RemoveDevice" => v.bond # "ours", Head(b.req).k # "Leave"
    PROVE  /\ Core(Served, v, rep, disk, won) /\ (Removes(b) => Removes(Served))
           /\ Sent(Served, v, rep, Head(b.req))
           /\ Core(Served, v, rep \o Aborted(z), disk, won) /\ Aborted(z) \in Seq(Msgs)
           /\ Sent(Served, v, rep \o Aborted(z), Head(b.req))
<1> DEFINE c == Head(b.req)
<1>1. z \in Bluezs /\ b \in Daemons
  BY DEF Core, Typed
<1>2. b.req \in Seq(Calls)
  BY <1>1 DEF Daemons
<1>3. Core(b, v, rep, disk, won)
  BY LessKeeps
<1>4. /\ Core(Served, v, rep, disk, won) /\ (Removes(b) => Removes(Served)) /\ Sent(Served, v, rep, c)
  BY <1>3, ServedKeeps
<1>5. /\ Served \in Daemons /\ Served.pends = b.pends /\ Served.req = Tail(b.req)
      /\ SameAgency(b, Served) /\ SameAttempt(b, Served) /\ SameRecord(b, Served) /\ SameLine(b, Served)
  BY <1>1, ServedIs
<1>6. ASSUME NEW x \in z.busy
      PROVE  Sent(Served, v, rep, x)
  <2>1. Sent(b, v, rep, x)
    BY BusyIsSent
  <2> QED
    BY <1>2, <1>5, <2>1, SentStays
<1>7. /\ Core(Served, v, rep \o Aborted(z), disk, won) /\ Aborted(z) \in Seq(Msgs)
      /\ \A x : Sent(Served, v, rep, x) /\ (Once(Served, x) => x \notin z.busy) =>
                    Sent(Served, v, rep \o Aborted(z), x)
  <2>1. ~z.dev => ~v.dev
    BY DEF Less
  <2> QED
    BY <1>1, <1>4, <1>5, <1>6, <2>1, AbortedKeeps
<1>8. Once(Served, c) => c \notin z.busy
  <2>1. Once(Served, c) => Once(b, c)
    BY <1>5 DEF Once, SameLine
  <2>2. c = b.req[1] /\ 1 \in 1 .. Len(b.req)
    BY <1>2, TailIs
  <2> QED
    BY <2>1, <2>2 DEF Core, OnePlace
<1> QED
  BY <1>4, <1>7, <1>8

\* Disconnect ends the connection.
LEMMA DisconnectServed ==
    ASSUME Core(b, z, rep, disk, won), b.req # <<>>, Head(b.req).k = "Disconnect"
    PROVE  Kept(Effect(z, Head(b.req)))
<1> DEFINE v == Unlinked(z)
<1>1. z \in Bluezs /\ b \in Daemons /\ Bus(z) /\ rep \in Seq(Msgs)
  BY DEF Core, Typed
<1>2. Less(z, v) /\ v \in Bluezs /\ v.busy = {}
  BY <1>1, UnlinkedLess, UnlinkedIs
<1>3. Effect(z, Head(b.req)) = <<v, IF z.conn THEN Aborted(z) \o Changed(v) ELSE Aborted(z)>>
  BY DEF Effect
<1> HIDE DEF v
<1>4. /\ Core(Served, v, rep \o Aborted(z), disk, won) /\ Aborted(z) \in Seq(Msgs)
      /\ (Removes(b) => Removes(Served))
  BY <1>2, LetGo
<1>5. Core(Served, v, (rep \o Aborted(z)) \o Changed(v), disk, won) /\ Changed(v) \in Seq(Msgs)
  <2>1. "" \in Results /\ Served.up = b.up
    BY <1>1, ServedIs DEF Results, SameLine
  <2> QED
    BY <1>2, <1>4, <2>1, SignalKeeps DEF Changed
<1>6. (rep \o Aborted(z)) \o Changed(v) = rep \o (Aborted(z) \o Changed(v))
  BY <1>1, <1>4, <1>5, ConcatAssociative
<1> QED
  BY <1>3, <1>4, <1>5, <1>6 DEF Kept

\* RemoveDevice, the attempt's and the sensor's.
LEMMA RemovalServed ==
    ASSUME Core(b, z, rep, disk, won), b.req # <<>>, Head(b.req).k \in {"RemoveDevice", "Forget"}
    PROVE  Kept(Effect(z, Head(b.req)))
<1> DEFINE c == Head(b.req)
           v == Unknown(z)
<1>1. z \in Bluezs /\ b \in Daemons /\ Bus(z) /\ rep \in Seq(Msgs)
  BY DEF Core, Typed
<1>2. "ok" \in Results /\ "nosuch" \in Results /\ "" \in Results
  BY DEF Results
<1>3. Effect(z, c) = IF z.dev THEN <<v, Aborted(z) \o Changed(v) \o Reply(c, "ok", v)>>
                     ELSE Done(z, c, "nosuch")
  BY DEF Effect
<1>4. CASE ~z.dev
  <2>1. z.bond # "ours"
    BY <1>1, <1>4 DEF Bus
  <2>2. /\ Core(Served, z, rep, disk, won) /\ (Removes(b) => Removes(Served)) /\ Sent(Served, z, rep, c)
    BY <2>1, ServedKeeps
  <2>3. Answered(z, c, "nosuch")
    BY <1>1, <1>2, <2>1, <2>2 DEF Answered
  <2> QED
    BY <1>1, <1>3, <1>4, <2>3, DoneKept
<1>5. CASE z.dev
  <2>1. Less(z, v) /\ v \in Bluezs /\ v.busy = {} /\ v.bond = "none"
    BY <1>1, UnlinkedLess, UnlinkedIs
  <2> HIDE DEF v
  <2>2. /\ Core(Served, v, rep \o Aborted(z), disk, won) /\ Aborted(z) \in Seq(Msgs)
        /\ (Removes(b) => Removes(Served)) /\ Sent(Served, v, rep \o Aborted(z), c)
    BY <2>1, LetGo
  <2>3. Served.up = b.up /\ Served.pends = b.pends
    BY <1>1, ServedIs DEF SameLine
  <2>4. /\ Core(Served, v, (rep \o Aborted(z)) \o Changed(v), disk, won) /\ Changed(v) \in Seq(Msgs)
        /\ Sent(Served, v, (rep \o Aborted(z)) \o Changed(v), c)
    BY <1>2, <2>1, <2>2, <2>3, SignalKeeps DEF Changed
  <2>5. /\ Core(Served, v, ((rep \o Aborted(z)) \o Changed(v)) \o Reply(c, "ok", v), disk, won)
        /\ Reply(c, "ok", v) \in Seq(Msgs)
    BY <1>2, <2>1, <2>3, <2>4, ReplyKeeps
  <2>6. ((rep \o Aborted(z)) \o Changed(v)) \o Reply(c, "ok", v)
          = rep \o ((Aborted(z) \o Changed(v)) \o Reply(c, "ok", v))
    <3>1. (rep \o Aborted(z)) \o Changed(v) = rep \o (Aborted(z) \o Changed(v))
      BY <1>1, <2>2, <2>4, ConcatAssociative
    <3>2. Aborted(z) \o Changed(v) \in Seq(Msgs)
      BY <2>2, <2>4, ConcatProperties
    <3>3. (rep \o (Aborted(z) \o Changed(v))) \o Reply(c, "ok", v)
            = rep \o ((Aborted(z) \o Changed(v)) \o Reply(c, "ok", v))
      BY <1>1, <2>5, <3>2, ConcatAssociative
    <3> QED
      BY <3>1, <3>3
  <2>7. Kept(<<v, Aborted(z) \o Changed(v) \o Reply(c, "ok", v)>>)
    BY <2>2, <2>5, <2>6 DEF Kept
  <2> QED
    BY <1>3, <1>5, <2>7
<1> QED
  BY <1>4, <1>5

\* Without bluetoothd the bus answers, and what was to be removed stays as it is.
LEMMA LostServed ==
    ASSUME Core(b, z, rep, disk, won), b.req # <<>>, ~z.up
    PROVE  Kept(Done(Lost(z, Head(b.req)), Head(b.req), "err"))
<1> DEFINE c == Head(b.req)
           v == Lost(z, c)
<1>1. z \in Bluezs /\ b \in Daemons /\ Bus(z)
  BY DEF Core, Typed
<1>2. /\ Less(z, v) /\ v.agent = z.agent /\ v.dflt = z.dflt /\ v.busy = z.busy
      /\ c.k = "RemoveDevice" => v.bond # "ours"
  BY <1>1, LostIs
<1> HIDE DEF v
<1>3. Core(b, v, rep, disk, won) /\ v \in Bluezs /\ ~v.agent /\ ~v.dflt /\ v.busy = {}
  BY <1>1, <1>2, LessKeeps DEF Less, Bus
<1>4. /\ Core(Served, v, rep, disk, won) /\ (Removes(b) => Removes(Served)) /\ Sent(Served, v, rep, c)
      /\ Taken(Served, v, rep, c)
  BY <1>2, <1>3, ServedKeeps
<1>5. Served.life = b.life /\ "err" \in Results
  BY <1>1, ServedIs DEF SameLine, Results
<1>6. Answered(v, c, "err")
  BY <1>3, <1>4, <1>5 DEF Answered, Taken
<1> QED
  BY <1>1, <1>6, DoneKept DEF v
-----------------------------------------------------------------------------
(* The steps of bluetoothd.                                                  *)

\* A step keeps the invariant, and frees or saves a sensor only as it may.
Onward ==
    /\ IInv'
    /\ b.up # "down" /\ b'.up # "down" /\ b.loaded => Moves(b, b', z, disk, won)

\* One that leaves the daemon alone needs only keep what it holds.
LEMMA BluezOnward ==
    ASSUME IInv, UNCHANGED b, Core(b, z', rep', disk', won')
    PROVE  Onward
<1>1. IInv'
  BY DEF IInv, Sound, Held, Removes
<1>2. Moves(b, b', z, disk, won)
  BY DEF Moves
<1> QED
  BY <1>1, <1>2 DEF Onward

\* One that takes a call.
LEMMA ServedOnward ==
    ASSUME IInv, b.req # <<>>, b' = Served, Core(Served, z', rep', disk', won'),
           Removes(b) => Removes(Served)
    PROVE  Onward
<1>1. b \in Daemons
  BY DEF IInv, Sound, Core, Typed
<1>2. SameAttempt(b, Served) /\ SameRecord(b, Served) /\ SameLine(b, Served)
  BY <1>1, ServedIs
<1>3. Core(b', z', rep', disk', won') /\ Removes(b')
  BY DEF IInv, Sound
<1>4. Held(b') /\ Moves(b, b', z, disk, won)
  BY <1>2 DEF IInv, Held, Moves, SameAttempt, SameRecord, SameLine
<1> QED
  BY <1>3, <1>4 DEF Onward, IInv, Sound

\* The next call is taken.
LEMMA ServeOnward ==
    ASSUME IInv, Serve
    PROVE  Onward
<1> DEFINE c == Head(b.req)
           e == IF z.up THEN Effect(z, c) ELSE Done(Lost(z, c), c, "err")
<1>1. b.req # <<>> /\ z' = e[1] /\ rep' = rep \o e[2] /\ b' = Served /\ disk' = disk /\ won' = won
  BY DEF Serve, Served
<1>2. Core(b, z, rep, disk, won) /\ Removes(b)
  BY DEF IInv, Sound
<1>3. c \in Calls
  <2>1. b.req \in Seq(Calls)
    BY <1>2 DEF Core, Typed, Daemons
  <2> QED
    BY <1>1, <2>1, TailIs
<1>4. Kept(e)
  <2>1. CASE ~z.up
    BY <1>1, <1>2, <2>1, LostServed
  <2>2. CASE z.up
    <3>1. CASE c.k \in {"Objects", "Register", "Unregister", "Default", "PairTrust"}
      <4>1. PICK v, r : Effect(z, c) = Done(v, c, r) /\ Answered(v, c, r)
        BY <1>1, <1>2, <2>2, <3>1, AgentServed
      <4>2. b \in Daemons
        BY <1>2 DEF Core, Typed
      <4>3. Kept(Done(v, c, r))
        BY <1>1, <4>1, <4>2, DoneKept
      <4> QED
        BY <2>2, <4>1, <4>3
    <3>2. CASE c.k \in {"PairConnect", "PairNotify", "PairBond"}
      BY <1>1, <1>2, <2>2, <3>2, PairServed
    <3>3. CASE c.k \in {"CancelPairing", "Leave"}
      BY <1>1, <1>2, <2>2, <3>3, CancelServed
    <3>4. CASE c.k = "Disconnect"
      BY <1>1, <1>2, <2>2, <3>4, DisconnectServed
    <3>5. CASE c.k \in {"RemoveDevice", "Forget"}
      BY <1>1, <1>2, <2>2, <3>5, RemovalServed
    <3> QED
      BY <1>3, <3>1, <3>2, <3>3, <3>4, <3>5 DEF Calls, Kinds
  <2> QED
    BY <2>1, <2>2
<1> HIDE DEF e
<1>5. Core(Served, z', rep', disk', won')
  BY <1>1, <1>4 DEF Kept
<1>6. Removes(b) => Removes(Served)
  BY <1>4 DEF Kept
<1> QED
  BY <1>1, <1>5, <1>6, ServedOnward

\* A call is refused, or done and not answered in time: the daemon hears an error.
LEMMA ServeFailsOnward ==
    ASSUME IInv, ServeFails
    PROVE  Onward
<1> DEFINE c == Head(b.req)
<1>1. /\ b.req # <<>> /\ z.up /\ b' = Served /\ disk' = disk /\ won' = won
      /\ c.k \in {"Register", "Unregister", "Default", "PairTrust", "RemoveDevice", "Forget"}
  BY DEF ServeFails, Served
<1>2. PICK q \in {z, Effect(z, c)[1]} :
        /\ z' = Lost(q, c)
        /\ rep' = rep \o (IF q.dev # z.dev THEN Changed(q) ELSE <<>>) \o Reply(c, "err", q)
  BY DEF ServeFails
<1>3. Core(b, z, rep, disk, won) /\ Removes(b)
  BY DEF IInv, Sound
<1>4. b \in Daemons /\ z \in Bluezs /\ Bus(z) /\ rep \in Seq(Msgs)
  BY <1>3 DEF Core, Typed
<1>5. Served.up = b.up /\ Served.pends = b.pends /\ Served.life = b.life
  BY <1>1, <1>4, ServedIs DEF SameLine
<1>6. "err" \in Results /\ "" \in Results
  BY DEF Results
<1> HIDE DEF c
<1>7. ASSUME NEW v \in Bluezs, ~q.dev => ~v.dev, q \in Bluezs,
             Core(Served, v, rep, disk, won), Sent(Served, v, rep, c)
      PROVE  Core(Served, v, rep', disk, won)
  <2> DEFINE s == IF q.dev # z.dev THEN Changed(q) ELSE <<>>
  <2>1. Core(Served, v, rep \o s, disk, won) /\ Sent(Served, v, rep \o s, c)
    <3>1. CASE q.dev # z.dev
      BY <1>5, <1>6, <1>7, <3>1, SignalKeeps DEF Changed
    <3>2. CASE q.dev = z.dev
      <4>1. rep \o <<>> = rep
        BY <1>4, ConcatEmptySeq
      <4> QED
        BY <1>7, <3>2, <4>1
    <3> QED
      BY <3>1, <3>2
  <2>2. rep' = (rep \o s) \o Reply(c, "err", q)
    BY <1>2
  <2> HIDE DEF s
  <2> QED
    BY <1>5, <1>6, <1>7, <2>1, <2>2, ReplyKeeps
<1>8. CASE q = z
  <2>1. /\ Less(z, z') /\ z'.dev = z.dev /\ z'.agent = z.agent /\ z'.dflt = z.dflt /\ z'.busy = z.busy
        /\ c.k = "RemoveDevice" => z'.bond # "ours"
    BY <1>2, <1>4, <1>8, LostIs
  <2>2. Core(b, z', rep, disk, won) /\ z' \in Bluezs
    BY <1>3, <2>1, LessKeeps DEF Less
  <2>3. /\ Core(Served, z', rep, disk, won) /\ (Removes(b) => Removes(Served))
        /\ Sent(Served, z', rep, c)
    BY <1>1, <2>1, <2>2, ServedKeeps DEF c
  <2>4. Core(Served, z', rep', disk, won)
    BY <1>4, <1>7, <1>8, <2>1, <2>2, <2>3
  <2> QED
    BY <1>1, <2>3, <2>4, ServedOnward
<1>9. CASE q = Effect(z, c)[1] /\ c.k \in {"Register", "Unregister", "Default", "PairTrust"}
  <2>1. PICK v, r : Effect(z, c) = Done(v, c, r) /\ Answered(v, c, r)
    BY <1>1, <1>3, <1>9, AgentServed DEF c
  <2>2. Effect(z, c)[1] = v
    BY <2>1 DEF Done
  <2>3. z' = v /\ q = v
    BY <1>2, <1>9, <2>2 DEF Lost
  <2>4. Core(Served, v, rep', disk, won) /\ (Removes(b) => Removes(Served))
    BY <1>7, <2>1, <2>3 DEF Answered
  <2> QED
    BY <1>1, <2>3, <2>4, ServedOnward
<1>10. CASE q = Effect(z, c)[1] /\ c.k \in {"RemoveDevice", "Forget"}
  <2>1. Effect(z, c) = IF z.dev THEN <<Unknown(z), Aborted(z) \o Changed(Unknown(z)) \o Reply(c, "ok", Unknown(z))>>
                       ELSE Done(z, c, "nosuch")
    BY <1>10 DEF Effect
  <2>2. q = IF z.dev THEN Unknown(z) ELSE z
    BY <1>10, <2>1 DEF Done
  <2>3. CASE z.dev
    <3>1. Less(z, q) /\ q \in Bluezs /\ q.busy = {} /\ q.bond = "none"
      BY <1>4, <2>2, <2>3, UnlinkedLess, UnlinkedIs
    <3>2. z' = q
      BY <1>2, <3>1 DEF Lost
    <3>3. /\ Core(Served, q, rep, disk, won) /\ (Removes(b) => Removes(Served))
          /\ Sent(Served, q, rep, c)
      BY <1>1, <1>3, <1>10, <3>1, LetGo DEF c
    <3>4. Core(Served, q, rep', disk, won)
      BY <1>7, <3>1, <3>3
    <3> QED
      BY <1>1, <3>2, <3>3, <3>4, ServedOnward
  <2>4. CASE ~z.dev
    BY <1>8, <2>2, <2>4
  <2> QED
    BY <2>3, <2>4
<1> QED
  BY <1>1, <1>2, <1>8, <1>9, <1>10
\* What a signal about bluetoothd or the device adds.
LEMMA SignalOnward ==
    ASSUME IInv, UNCHANGED <<b, disk, won>>, NEW t \in {"device", "owner"}, NEW r \in Results,
           Core(b, z', rep, disk, won), rep' = rep \o Signal(t, r, z'),
           t = "owner" => ~z'.dflt /\ ~z'.agent
    PROVE  Onward
<1>1. z' \in Bluezs
  BY DEF Core, Typed
<1>2. Core(b, z', rep', disk, won)
  BY <1>1, SignalKeeps
<1> QED
  BY <1>2, BluezOnward

\* The device connects, its services are resolved.
LEMMA ConnectedOnward ==
    ASSUME IInv, Connected \/ Resolved
    PROVE  Onward
<1>1. Core(b, z, rep, disk, won) /\ z \in Bluezs /\ Bus(z) /\ "" \in Results
  BY DEF IInv, Sound, Core, Typed, Results
<1>2. /\ z' = [z EXCEPT !.conn = TRUE] \/ z' = [z EXCEPT !.res = TRUE]
      /\ z.dev /\ rep' = rep \o Signal("device", "", z') /\ UNCHANGED <<b, disk, won>>
  BY <1>1 DEF Connected, Resolved, Changed, Bus
<1>3. /\ z' \in Bluezs /\ z'.up = z.up /\ z'.agent = z.agent /\ z'.dflt = z.dflt /\ z'.dev = z.dev
      /\ z'.bond = z.bond /\ z'.busy = z.busy
  BY <1>1, <1>2 DEF Bluezs
<1>4. Less(z, z')
  BY <1>1, <1>2, <1>3 DEF Less, Bus
<1>5. Core(b, z', rep, disk, won)
  BY <1>1, <1>4, LessKeeps
<1> QED
  BY <1>1, <1>2, <1>5, SignalOnward

\* A long call ends: it is answered, and the bond or the measurement is there.
LEMMA FinishOnward ==
    ASSUME IInv, Finish
    PROVE  Onward
<1>1. /\ Core(b, z, rep, disk, won) /\ z \in Bluezs /\ Bus(z) /\ Removes(b) /\ Held(b)
      /\ b' = b /\ disk' = disk
  BY DEF IInv, Sound, Core, Typed, Finish
<1>2. "ok" \in Results /\ "err" \in Results /\ "auth" \in Results
  BY DEF Results
<1>3. PICK c \in z.busy :
        LET q == [z EXCEPT !.busy = @ \ {c}]
        IN  \/ /\ c.k \in {"PairConnect", "PairNotify"} /\ z.conn
               /\ z' = q /\ rep' = rep \o Reply(c, "ok", q)
               /\ won' = IF c.k = "PairNotify" /\ c \in b.pends THEN c.id ELSE won
            \/ /\ c.k \in {"PairConnect", "PairNotify"} /\ z.bond = "none"
               /\ z' = q /\ rep' = rep \o Reply(c, "auth", q) /\ won' = won
            \/ /\ c.k = "PairBond" /\ AgentAccepts(b)
               /\ z' = [q EXCEPT !.bond = "ours"] /\ rep' = rep \o Reply(c, "ok", q) /\ won' = won
            \/ /\ z' = q /\ rep' = rep \o Reply(c, "err", q) /\ won' = won
  BY DEF Finish
<1> DEFINE s == z.busy \ {c}
           q == [z EXCEPT !.busy = s]
           p == [q EXCEPT !.bond = "ours"]
<1>4. \/ /\ c.k \in {"PairConnect", "PairNotify"}
         /\ z' = q /\ rep' = rep \o Reply(c, "ok", q)
         /\ won' = IF c.k = "PairNotify" /\ c \in b.pends THEN c.id ELSE won
      \/ /\ c.k \in {"PairConnect", "PairNotify"}
         /\ z' = q /\ rep' = rep \o Reply(c, "auth", q) /\ won' = won
      \/ /\ c.k = "PairBond" /\ AgentAccepts(b)
         /\ z' = p /\ rep' = rep \o Reply(c, "ok", q) /\ won' = won
      \/ /\ z' = q /\ rep' = rep \o Reply(c, "err", q) /\ won' = won
  BY <1>3
<1>5. s \in SUBSET Calls /\ s \subseteq z.busy \ {c} /\ s \subseteq z.busy
  BY <1>1 DEF Bluezs
<1> HIDE DEF s
<1>6. /\ q \in Bluezs /\ q.up = z.up /\ q.agent = z.agent /\ q.dflt = z.dflt /\ q.dev = z.dev
      /\ q.conn = z.conn /\ q.bond = z.bond /\ q.busy = s
  BY <1>1, <1>5 DEF Bluezs
<1> HIDE DEF q
<1>7. /\ p \in Bluezs /\ p.up = z.up /\ p.agent = z.agent /\ p.dflt = z.dflt /\ p.dev = z.dev
      /\ p.bond = "ours" /\ p.busy = s
  BY <1>6 DEF Bluezs
<1> HIDE DEF p
<1>8. Core(b, q, rep, disk, won)
  <2>1. Less(z, q)
    BY <1>1, <1>5, <1>6 DEF Less, Bus
  <2> QED
    BY <1>1, <2>1, LessKeeps
<1>9. Sent(b, q, rep, c) /\ Sent(b, p, rep, c)
  BY <1>1, <1>3, <1>5, <1>6, <1>7, BusyIsSent
<1>10. z.up
  BY <1>1, <1>3 DEF Bus
<1>11. CASE z' = q /\ won' = won /\ \/ rep' = rep \o Reply(c, "auth", q)
                                    \/ rep' = rep \o Reply(c, "err", q)
  <2>1. Core(b, q, rep', disk, won)
    BY <1>2, <1>6, <1>8, <1>9, <1>11, ReplyKeeps
  <2> QED
    BY <1>1, <1>11, <2>1, BluezOnward
<1>12. CASE /\ c.k \in {"PairConnect", "PairNotify"} /\ z' = q /\ rep' = rep \o Reply(c, "ok", q)
            /\ won' = IF c.k = "PairNotify" /\ c \in b.pends THEN c.id ELSE won
  <2>1. CASE c.k = "PairNotify" /\ c \in b.pends
    <3>1. c.id = b.id
      BY <1>1, <2>1 DEF Core, Attempted, PairKinds
    <3>2. Core(b, q, rep, disk, won') /\ won' = b.id
      BY <1>8, <1>12, <2>1, <3>1, ConfirmKeeps
    <3>3. Core(b, q, rep', disk, won')
      BY <1>2, <1>6, <1>9, <1>12, <2>1, <3>2, ReplyKeeps
    <3> QED
      BY <1>1, <1>12, <3>3, BluezOnward
  <2>2. CASE c.k # "PairNotify"
    <3>1. Core(b, q, rep', disk, won)
      BY <1>2, <1>6, <1>8, <1>9, <1>12, <2>2, ReplyKeeps
    <3> QED
      BY <1>1, <1>12, <2>2, <3>1, BluezOnward
  <2>3. CASE c \notin b.pends
    <3>1. rep' = rep
      <4>1. rep \in Seq(Msgs)
        BY <1>1 DEF Core, Typed
      <4> QED
        BY <1>12, <2>3, <4>1, ConcatEmptySeq DEF Reply
    <3> QED
      BY <1>1, <1>8, <1>12, <2>3, <3>1, BluezOnward
  <2> QED
    BY <2>1, <2>2, <2>3
<1>13. CASE /\ c.k = "PairBond" /\ AgentAccepts(b) /\ z' = p
            /\ rep' = rep \o Reply(c, "ok", q) /\ won' = won
  <2>1. b.step # "idle"
    BY <1>13 DEF AgentAccepts
  <2>2. Core(b, p, rep, disk, won)
    BY <1>1, <1>3, <1>5, <1>7, <1>10, <1>13, <2>1, BondKeeps
  <2>3. Core(b, p, rep', disk, won)
    BY <1>2, <1>6, <1>7, <1>9, <1>13, <2>2, ReplyKeeps
  <2> QED
    BY <1>1, <1>13, <2>3, BluezOnward
<1> QED
  BY <1>4, <1>11, <1>12, <1>13

\* BlueZ bonds on its own: not a bond this daemon answers for.
LEMMA BondsItselfOnward ==
    ASSUME IInv, BondsItself
    PROVE  Onward
<1>1. Core(b, z, rep, disk, won) /\ z \in Bluezs /\ Bus(z)
  BY DEF IInv, Sound, Core, Typed
<1>2. z' = [z EXCEPT !.bond = "stray"] /\ z.conn /\ UNCHANGED <<b, rep, disk, won>>
  BY DEF BondsItself
<1>3. /\ z' \in Bluezs /\ z'.up = z.up /\ z'.agent = z.agent /\ z'.dflt = z.dflt /\ z'.dev = z.dev
      /\ z'.conn = z.conn /\ z'.bond = "stray" /\ z'.busy = z.busy
  BY <1>1, <1>2 DEF Bluezs
<1>4. Less(z, z')
  BY <1>1, <1>2, <1>3 DEF Less, Bus
<1> QED
  BY <1>1, <1>2, <1>4, LessKeeps, BluezOnward

\* The connection is lost, or the device no longer known: its calls end in an error.
LEMMA GoneOnward ==
    ASSUME IInv, NEW v, z' = v, v = Unlinked(z) \/ v = Unknown(z),
           rep' = rep \o Aborted(z) \o Changed(z'), UNCHANGED <<b, disk, won>>
    PROVE  Onward
<1>1. Core(b, z, rep, disk, won) /\ z \in Bluezs /\ Bus(z) /\ "" \in Results
  BY DEF IInv, Sound, Core, Typed, Results
<1>2. Less(z, v) /\ v \in Bluezs /\ v.busy = {}
  BY <1>1, UnlinkedLess, UnlinkedIs
<1>3. Core(b, v, rep, disk, won)
  BY <1>1, <1>2, LessKeeps
<1>4. \A x \in z.busy : Sent(b, v, rep, x)
  BY <1>1, <1>2, BusyIsSent
<1>5. Core(b, v, rep \o Aborted(z), disk, won)
  <2>1. ~z.dev => ~v.dev
    BY <1>2 DEF Less
  <2> QED
    BY <1>1, <1>3, <1>4, <2>1, AbortedKeeps
<1>6. Core(b, v, (rep \o Aborted(z)) \o Changed(v), disk, won)
  BY <1>1, <1>2, <1>5, SignalKeeps DEF Changed
<1> QED
  BY <1>6, BluezOnward

\* The device is found again.
LEMMA DeviceFoundOnward ==
    ASSUME IInv, DeviceFound
    PROVE  Onward
<1>1. Core(b, z, rep, disk, won) /\ z \in Bluezs /\ "" \in Results
  BY DEF IInv, Sound, Core, Typed, Results
<1>2. /\ z' = [z EXCEPT !.dev = TRUE] /\ z.up /\ rep = <<>> /\ b.req = <<>>
      /\ rep' = rep \o Signal("device", "", z') /\ UNCHANGED <<b, disk, won>>
  BY DEF DeviceFound, Changed
<1>3. /\ z' \in Bluezs /\ z'.up = z.up /\ z'.agent = z.agent /\ z'.dflt = z.dflt /\ z'.dev
      /\ z'.bond = z.bond /\ z'.busy = z.busy
  BY <1>1, <1>2 DEF Bluezs
<1>4. Core(b, z', rep, disk, won)
  BY <1>1, <1>2, <1>3, FoundKeeps
<1> QED
  BY <1>1, <1>2, <1>4, SignalOnward

\* bluetoothd ends, or is started again without anything of ours but the bond.
LEMMA RestartOnward ==
    ASSUME IInv, BluezStops \/ BluezStarts
    PROVE  Onward
<1>1. Core(b, z, rep, disk, won) /\ z \in Bluezs /\ Bus(z) /\ "gone" \in Results /\ "new" \in Results
  BY DEF IInv, Sound, Core, Typed, Results
<1>2. CASE BluezStops
  <2> DEFINE k == z.bond # "none"
             o == IF z.bond = "ours" /\ b.step # "idle" THEN "stray" ELSE z.bond
  <2>1. /\ z' = [Off EXCEPT !.dev = k, !.bond = o]
        /\ rep' = rep \o Signal("owner", "gone", z') /\ UNCHANGED <<b, disk, won>>
    BY <1>2 DEF BluezStops
  <2>2. /\ k \in BOOLEAN /\ o \in {"none", "ours", "stray"} /\ (k => z.dev) /\ (o = "ours" => z.bond = "ours")
        /\ (o # "none" => k)
    BY <1>1 DEF Bluezs, Bus
  <2> HIDE DEF k, o
  <2>3. /\ z' \in Bluezs /\ ~z'.up /\ ~z'.agent /\ ~z'.dflt /\ z'.dev = k /\ ~z'.conn /\ z'.bond = o
        /\ z'.busy = {}
    BY <2>1, <2>2 DEF Bluezs, Off
  <2>4. Less(z, z')
    BY <2>2, <2>3 DEF Less, Bus
  <2>5. Core(b, z', rep, disk, won)
    BY <1>1, <2>4, LessKeeps
  <2> QED
    BY <1>1, <2>1, <2>3, <2>5, SignalOnward
<1>3. CASE BluezStarts
  <2>1. /\ ~z.up /\ z' = [z EXCEPT !.up = TRUE]
        /\ rep' = rep \o Signal("owner", "new", z') /\ UNCHANGED <<b, disk, won>>
    BY <1>3 DEF BluezStarts
  <2>2. /\ z' \in Bluezs /\ z'.up /\ z'.agent = z.agent /\ z'.dflt = z.dflt /\ z'.dev = z.dev
        /\ z'.conn = z.conn /\ z'.bond = z.bond /\ z'.busy = z.busy
    BY <1>1, <2>1 DEF Bluezs
  <2>3. Less(z, z')
    BY <1>1, <2>2 DEF Less, Bus
  <2>4. Core(b, z', rep, disk, won) /\ ~z'.agent /\ ~z'.dflt
    BY <1>1, <2>1, <2>2, <2>3, LessKeeps DEF Bus
  <2> QED
    BY <1>1, <2>1, <2>4, SignalOnward
<1> QED
  BY <1>2, <1>3

\* Every step of bluetoothd.
LEMMA BluezKeeps ==
    ASSUME IInv, Bluez
    PROVE  Onward
<1>1. ASSUME LinkLost
      PROVE  Onward
  BY <1>1, GoneOnward DEF LinkLost
<1>2. ASSUME DeviceGone
      PROVE  Onward
  BY <1>2, GoneOnward DEF DeviceGone
<1> QED
  BY <1>1, <1>2, ServeOnward, ServeFailsOnward, ConnectedOnward, FinishOnward, BondsItselfOnward,
     DeviceFoundOnward, RestartOnward DEF Bluez
-----------------------------------------------------------------------------
(* The steps of the daemon.                                                  *)

\* What one of its functions keeps is a step's.
LEMMA HearsOnward ==
    ASSUME IInv, Hears(b, b', z, rep', disk, won), UNCHANGED <<z, disk, won>>
    PROVE  Onward
BY DEF Onward, IInv, Sound, Hears, Keeps

\* A message is dealt with.
LEMMA ReceiveOnward ==
    ASSUME IInv, Receive
    PROVE  Onward
<1>1. PICK late \in BOOLEAN : b' = OnMessage(b, Head(rep), late)
  BY DEF Receive
<1>2. rep # <<>> /\ b.up # "down" /\ rep' = Tail(rep) /\ UNCHANGED <<z, disk, won>>
  BY DEF Receive, Up
<1>3. Hears(b, b', z, rep', disk, won)
  BY <1>1, <1>2, OnMessageHears DEF IInv, Sound
<1> QED
  BY <1>2, <1>3, HearsOnward

\* The tick, and what the user asks for.
LEMMA RequestOnward ==
    ASSUME IInv, (\E due \in BOOLEAN : Tick(due)) \/ Pair \/ Cancel \/ Forget
    PROVE  Onward
<1>1. Core(b, z, rep, disk, won) /\ Held(b)
  BY DEF IInv, Sound
<1>2. CASE \E due \in BOOLEAN : Tick(due)
  <2>1. PICK due \in BOOLEAN : Tick(due)
    BY <1>2
  <2>2. b.up # "down" /\ b' = OnTick(b, due) /\ rep' = rep /\ UNCHANGED <<z, disk, won>>
    BY <2>1 DEF Tick, Up
  <2> QED
    BY <1>1, <2>2, OnTickHears, HearsOnward
<1>3. CASE Pair
  <2>1. b.up # "down" /\ ~PairRefused(b) /\ b' = PairStart(b) /\ rep' = rep /\ UNCHANGED <<z, disk, won>>
    BY <1>3 DEF Pair
  <2> QED
    BY <1>1, <2>1, PairStartHears, HearsOnward
<1>4. CASE Cancel
  <2>1. b.up # "down" /\ b' = PairFail(b) /\ rep' = rep /\ UNCHANGED <<z, disk, won>>
    BY <1>4 DEF Cancel
  <2>2. Fit(b, z)
    BY <1>1 DEF Held, Fit
  <2>3. Keeps(b, b', z, rep, disk, won) /\ Failed(b, b')
    BY <1>1, <2>1, <2>2, PairFailKeeps
  <2>4. Hears(b, b', z, rep, disk, won)
    BY <2>3 DEF Hears, Failed, Held, Moves, SameRecord
  <2> QED
    BY <2>1, <2>4, HearsOnward
<1>5. CASE Forget
  <2>1. /\ b.up # "down" /\ b.s = "saved" /\ b' = ForgetSensor(b) /\ rep' = rep
        /\ UNCHANGED <<z, disk, won>>
    BY <1>5 DEF Forget
  <2>2. Keeps(b, b', z, rep, disk, won) /\ SameAttempt(b, b') /\ SameLine(b, b')
    BY <1>1, <2>1, ForgetSensorKeeps
  <2>3. Hears(b, b', z, rep, disk, won)
    BY <1>1, <2>1, <2>2 DEF Hears, Held, Moves, SameAttempt, SameLine
  <2> QED
    BY <2>1, <2>3, HearsOnward
<1> QED
  BY <1>2, <1>3, <1>4, <1>5

\* SIGTERM: it stops listening, and nothing else changes yet.
LEMMA StopOnward ==
    ASSUME IInv, Stop
    PROVE  Onward
<1>1. Core(b, z, rep, disk, won) /\ Held(b) /\ Removes(b) /\ b \in Daemons
  BY DEF IInv, Sound, Core, Typed
<1>2. b.up = "on" /\ b' = [b EXCEPT !.up = "stopping"] /\ UNCHANGED <<z, rep, disk, won>>
  BY DEF Stop
<1> DEFINE e == [b EXCEPT !.up = "stopping"]
<1>3. /\ e \in Daemons /\ SameAgency(b, e) /\ SameAttempt(b, e) /\ SameRecord(b, e) /\ SameCalls(b, e)
      /\ e.loaded = b.loaded /\ e.life = b.life /\ e.up = "stopping" /\ e.bluez = b.bluez /\ e.dev = b.dev
  BY <1>1 DEF Daemons, SameAgency, SameAttempt, SameRecord, SameCalls
<1> HIDE DEF e
<1>4. (e.bluez => SameLife(b)) /\ (e.bluez /\ ~e.dev.known => z.bond # "ours")
  BY <1>1, <1>3 DEF Core, Queued, Bonding
<1>5. Core(e, z, rep, disk, won)
  BY <1>1, <1>2, <1>3, <1>4, DevChanges
<1>6. Hears(b, e, z, rep, disk, won)
  BY <1>1, <1>3, <1>5 DEF Hears, Keeps, Held, Moves, Removes, SameAttempt, SameRecord, SameCalls
<1>7. b' = e
  BY <1>2 DEF e
<1> QED
  BY <1>2, <1>6, <1>7, HearsOnward

-----------------------------------------------------------------------------
(* Storage.                                                                  *)

\* The child puts the file in place.
LEMMA SaveWritesOnward ==
    ASSUME IInv, SaveWrites
    PROVE  Onward
<1>1. Core(b, z, rep, disk, won) /\ Held(b) /\ Removes(b) /\ b \in Daemons
  BY DEF IInv, Sound, Core, Typed
<1>2. /\ b.save.at = "run" /\ disk' = b.save.text /\ b' = [b EXCEPT !.save.at = "written"]
      /\ UNCHANGED <<z, rep, won>>
  BY DEF SaveWrites
<1> DEFINE v == [b.save EXCEPT !.at = "written"]
           e == [b EXCEPT !.save = v]
<1>3. b' = e
  BY <1>2
<1>4. b.save \in Savers
  BY <1>1 DEF Daemons
<1>5. v \in Savers /\ v.at = "written" /\ v.text = b.save.text /\ b.save.text \in Texts
  BY <1>4 DEF Savers
<1> HIDE DEF v
<1>6. /\ e \in Daemons /\ SameAgency(b, e) /\ SameAttempt(b, e) /\ SameCalls(b, e) /\ SameLine(b, e)
      /\ e.s = b.s /\ e.sid = b.sid /\ e.inf = b.inf /\ e.frev = b.frev /\ e.rrev = b.rrev
      /\ e.rec = b.rec /\ e.srev = b.srev /\ e.saved = b.saved /\ e.pending = b.pending /\ e.save = v
  BY <1>1, <1>5 DEF Daemons, SameAgency, SameAttempt, SameCalls, SameLine
<1> HIDE DEF e
<1>7. b.loaded /\ b.rec \in Nat /\ b.srev \in Nat /\ b.saved \in Nat
  BY <1>1, <1>2 DEF Core, Recorded, Daemons
<1>8. RecordsText(e) = RecordsText(b) /\ e.loaded
  BY <1>6, <1>7 DEF RecordsText, SameLine
<1>9. Recorded(e)
  BY <1>1, <1>2, <1>5, <1>6, <1>7, <1>8 DEF Core, Recorded
<1>10. b.saved = b.rec => b.srev = b.rec
  BY <1>1, <1>7 DEF Core, Recorded
<1>11. Filed(e, disk')
  BY <1>1, <1>2, <1>5, <1>6, <1>8, <1>10 DEF Core, Recorded, Filed
<1>12. Flags(e, disk')
  BY <1>1, <1>2, <1>5, <1>6 DEF Core, Flags, SameCalls
<1>13. Bonded(e, z, disk')
  BY <1>1, <1>6, <1>7, <1>8 DEF Core, Bonded, SameAttempt, SameCalls
<1>14. Core(e, z, rep, disk', won)
  <2>1. /\ e.up # "down" /\ (e.step # "idle" => e.loaded /\ e.s = "none") /\ disk' \in Texts
        /\ (e.s = "removed" => z.bond # "ours")
    BY <1>1, <1>2, <1>5, <1>6, <1>7, <1>8 DEF Core, Attempted, Bonding, SameAttempt, SameLine
  <2> QED
    BY <1>1, <1>6, <1>9, <1>11, <1>12, <1>13, <2>1, FileChanges DEF SameLine
<1>15. Held(e) /\ Removes(e) /\ Moves(b, e, z, disk, won)
  BY <1>1, <1>6 DEF Held, Removes, Moves, SameAttempt, SameLine, SameCalls
<1> QED
  BY <1>2, <1>3, <1>14, <1>15 DEF Onward, IInv, Sound

\* It is reaped, or fails.
LEMMA SavedOnward ==
    ASSUME IInv, SaveReaped \/ SaveFails
    PROVE  Onward
<1>1. Core(b, z, rep, disk, won) /\ Held(b)
  BY DEF IInv, Sound
<1>2. CASE SaveReaped
  <2>1. /\ b.up # "down" /\ b.save.at = "written" /\ b' = SaveFinished(b, TRUE) /\ rep' = rep
        /\ UNCHANGED <<z, disk, won>>
    BY <1>2 DEF SaveReaped, Up
  <2> QED
    BY <1>1, <2>1, SaveFinishedHears, HearsOnward
<1>3. CASE SaveFails
  <2>1. /\ b.up # "down" /\ b.save.at # "none" /\ b' = SaveFinished(b, FALSE) /\ rep' = rep
        /\ UNCHANGED <<z, disk, won>>
    BY <1>3 DEF SaveFails, Up
  <2> QED
    BY <1>1, <2>1, SaveFinishedHears, HearsOnward
<1> QED
  BY <1>2, <1>3

\* The records are read, or given up on.
LEMMA LoadOnward ==
    ASSUME IInv, Load \/ LoadTimedOut
    PROVE  Onward
<1>1. Core(b, z, rep, disk, won) /\ Removes(b) /\ z \in Bluezs /\ Bus(z) /\ disk \in Texts
  BY DEF IInv, Sound, Core, Typed
<1>2. b.up # "down" /\ ~b.loaded /\ UNCHANGED <<rep, disk, won>>
  BY DEF Load, LoadTimedOut, Up
<1>3. Keeps(b, b', z', rep, disk, won) /\ Held(b')
  <2>1. CASE Load
    <3>1. b' = LoadFinish(b, disk) /\ z' = z
      BY <2>1 DEF Load
    <3> QED
      BY <1>1, <1>2, <3>1, LoadFinishHears
  <2>2. CASE LoadTimedOut
    <3> DEFINE o == IF z.bond = "ours" THEN "stray" ELSE z.bond
    <3>1. b' = LoadFinish(b, "none") /\ z' = [z EXCEPT !.bond = o]
      BY <2>2 DEF LoadTimedOut
    <3>2. o \in {"none", "stray"} /\ (o # "none" => z.bond # "none")
      BY <1>1 DEF Bluezs
    <3> HIDE DEF o
    <3>3. /\ z' \in Bluezs /\ z'.up = z.up /\ z'.agent = z.agent /\ z'.dflt = z.dflt /\ z'.dev = z.dev
          /\ z'.conn = z.conn /\ z'.bond = o /\ z'.busy = z.busy
      BY <1>1, <3>1, <3>2 DEF Bluezs
    <3>4. Less(z, z') /\ z'.bond # "ours"
      BY <1>1, <3>2, <3>3 DEF Less, Bus
    <3>5. Core(b, z', rep, disk, won) /\ "none" \in Texts
      BY <1>1, <3>4, LessKeeps DEF Texts
    <3> QED
      BY <1>2, <3>1, <3>4, <3>5, LoadFinishHears
  <2> QED
    BY <2>1, <2>2
<1> QED
  BY <1>1, <1>2, <1>3 DEF Onward, IInv, Sound, Keeps
-----------------------------------------------------------------------------
(* The daemon's end and its next life.                                       *)

\* A daemon that holds nothing.
Blank(d) ==
    /\ ~d.loaded /\ ~d.bluez /\ d.dev = NoDev /\ ~d.reg /\ ~d.regInf /\ ~d.rel /\ ~d.relInf
    /\ d.step = "idle" /\ d.id = 0 /\ ~d.areq /\ d.s = "none" /\ d.sid = 0 /\ ~d.inf
    /\ d.frev = 0 /\ d.rec = 0 /\ d.srev = 0 /\ d.saved = 0 /\ ~d.pending /\ d.save = NoSaver /\ d.pends = {}

\* The dead one is one.
LEMMA DeadIs ==
    ASSUME NEW s \in Seq(Calls), NEW l \in Nat
    PROVE  LET d == [Dead EXCEPT !.req = s, !.life = l]
           IN  d \in Daemons /\ Blank(d) /\ d.up = "down" /\ d.req = s /\ d.life = l
<1>1. NoSaver \in Savers /\ NoDev \in Devs /\ {} \in SUBSET Calls
  BY DEF NoSaver, Savers, NoDev, Devs, Texts
<1> QED
  BY <1>1 DEF Dead, Daemons, Blank, Steps

\* So is one that is just started.
LEMMA StartedIs ==
    ASSUME NEW s \in Seq(Calls), NEW l \in Nat
    PROVE  LET d == [Dead EXCEPT !.up = "on", !.req = s, !.life = l]
           IN  d \in Daemons /\ Blank(d) /\ d.up = "on" /\ d.req = s /\ d.life = l
<1>1. NoSaver \in Savers /\ NoDev \in Devs /\ {} \in SUBSET Calls
  BY DEF NoSaver, Savers, NoDev, Devs, Texts
<1> QED
  BY <1>1 DEF Dead, Daemons, Blank, Steps

\* What it holds of itself is in order, whatever the file.
LEMMA BlankInOrder ==
    ASSUME NEW d \in Daemons, NEW f, Blank(d)
    PROVE  Agency(d) /\ Attempted(d) /\ Recorded(d) /\ Filed(d, f) /\ Held(d)
<1>1. NoSaver.at = "none"
  BY DEF NoSaver
<1>2. Agency(d) /\ Held(d)
  BY DEF Blank, Agency, Held
<1>3. Attempted(d)
  BY DEF Blank, Attempted
<1>4. Recorded(d) /\ Filed(d, f)
  BY <1>1 DEF Blank, Recorded, Filed
<1> QED
  BY <1>2, <1>3, <1>4

\* Crash and Exit: the bus tells BlueZ after the calls it has sent, and the file knows the bond.
LEMMA EndOnward ==
    ASSUME IInv, Crash \/ Exit
    PROVE  Onward
<1>1. Core(b, z, rep, disk, won) /\ Removes(b) /\ b \in Daemons /\ z \in Bluezs /\ Bus(z) /\ disk \in Texts /\ won \in Nat
  BY DEF IInv, Sound, Core, Typed
<1>2. b' = Ended(b) /\ rep' = <<>> /\ z' = Stray /\ UNCHANGED <<disk, won>>
  BY DEF Crash, Exit
<1> DEFINE c == [k |-> "Leave", id |-> 0, life |-> b.life]
           s == Append(b.req, c)
           l == b.life + 1
           e == [Dead EXCEPT !.req = s, !.life = l]
           L == Len(b.req)
<1>3. b.req \in Seq(Calls) /\ b.life \in Nat /\ l \in Nat
  BY <1>1 DEF Daemons
<1>4. c \in Calls /\ c.k = "Leave" /\ c.life = b.life
  BY <1>3 DEF Calls, Kinds
<1>5. b' = e
  BY <1>2 DEF Ended
<1> HIDE DEF c, l
<1>6. /\ s \in Seq(Calls) /\ L \in Nat /\ Len(s) = L + 1 /\ s[L + 1] = c
      /\ \A i \in 1 .. L : s[i] = b.req[i]
      /\ \A i \in 1 .. Len(s) : i \in 1 .. L \/ i = L + 1
  BY <1>3, <1>4, AppendIs
<1> HIDE DEF s
<1>7. e \in Daemons /\ Blank(e) /\ e.up = "down" /\ e.req = s /\ e.life = l
  BY <1>3, <1>6, DeadIs
<1> HIDE DEF e
<1>8. Agency(e) /\ Attempted(e) /\ Recorded(e) /\ Filed(e, disk) /\ Held(e)
  BY <1>7, BlankInOrder
<1>9. /\ z' \in Bluezs /\ Bus(z') /\ z'.busy = z.busy /\ z'.dev = z.dev
      /\ (z'.bond = "ours" => disk # "none")
  <2> DEFINE o == IF z.bond = "ours" /\ disk = "none" THEN "stray" ELSE z.bond
  <2>1. z' = [z EXCEPT !.bond = o]
    BY <1>2 DEF Stray
  <2>2. o \in {"none", "ours", "stray"} /\ (o # "none" => z.bond # "none") /\ (o = "ours" => disk # "none")
    BY <1>1 DEF Bluezs
  <2> HIDE DEF o
  <2>3. /\ z' \in Bluezs /\ z'.up = z.up /\ z'.agent = z.agent /\ z'.dflt = z.dflt /\ z'.dev = z.dev
        /\ z'.conn = z.conn /\ z'.bond = o /\ z'.busy = z.busy
    BY <1>1, <2>1, <2>2 DEF Bluezs
  <2> QED
    BY <1>1, <2>2, <2>3 DEF Bus
<1>10. \A i \in 1 .. Len(s) :
         s[i].life <= b.life /\ s[i].life <= l /\ s[i].life < l /\ s[i].life # l /\ s[i] \in Calls
  <2>1. \A i \in 1 .. L : b.req[i].life <= b.life
    BY <1>1 DEF Core, Queued, L
  <2>2. \A i \in 1 .. Len(s) : s[i] \in Calls
    BY <1>6
  <2>3. \A i \in 1 .. Len(s) : s[i].life \in Nat
    BY <2>2 DEF Calls
  <2>4. \A i \in 1 .. Len(s) : s[i].life <= b.life
    BY <1>3, <1>4, <1>6, <2>1 DEF L
  <2> QED
    BY <1>3, <2>2, <2>3, <2>4 DEF l
<1>11. \A x \in z.busy : x.life <= b.life /\ x.life <= l /\ x.life # l
  <2>1. \A x \in z.busy : x.life \in Nat
    BY <1>1 DEF Bluezs, Calls
  <2> QED
    BY <1>1, <1>3, <2>1 DEF Core, Flying, l
<1>12. Queued(e)
  <2>1. \A i \in 1 .. Len(e.req) : e.req[i].life <= e.life /\ (e.req[i].k = "Leave" => e.req[i].life < e.life)
    BY <1>7, <1>10
  <2>2. ASSUME NEW i \in 1 .. Len(s), NEW j \in 1 .. Len(s), i < j
        PROVE  s[i].life <= s[j].life
    <3>1. CASE j \in 1 .. L
      <4>1. i \in 1 .. L
        BY <1>6, <2>2, <3>1
      <4> QED
        BY <1>1, <1>6, <2>2, <3>1, <4>1 DEF Core, Queued, L
    <3>2. CASE j = L + 1
      BY <1>4, <1>6, <1>10, <3>2
    <3> QED
      BY <1>6, <3>1, <3>2
  <2>3. \A i, j \in 1 .. Len(e.req) : i < j /\ e.req[j].k = "Default" =>
           e.req[i].k # "Register" /\ (e.req[i].k = "Unregister" => e.req[i].life # e.life)
    BY <1>1, <1>4, <1>6, <1>7, <1>10 DEF Core, Queued, L
  <2>4. ~e.bluez
    BY <1>7 DEF Blank
  <2> QED
    BY <1>7, <2>1, <2>2, <2>3, <2>4 DEF Queued
<1>13. \A i \in 1 .. 0 : FALSE
  OBVIOUS
<1>14. Len(rep') = 0
  BY <1>2
<1>15. Flying(e, z', rep')
  BY <1>7, <1>9, <1>10, <1>11, <1>13, <1>14 DEF Flying, Flagged
<1>16. OnePlace(e, z', rep')
  BY <1>7, <1>9, <1>10, <1>11, <1>13, <1>14 DEF OnePlace, Once
<1>17. AskedAfter(e.req, 0, {"CancelPairing", "Leave"})
       /\ \A i \in 1 .. L : AskedAfter(e.req, i, {"CancelPairing", "Leave"})
  <2>1. \A i \in 0 .. L : L + 1 \in i + 1 .. Len(s)
    BY <1>6
  <2> QED
    BY <1>4, <1>6, <1>7, <2>1 DEF AskedAfter
<1>18. Bonding(e, z')
  BY <1>4, <1>6, <1>7, <1>9, <1>17 DEF Bonding, Blank
<1>19. Bonded(e, z', disk)
  BY <1>7, <1>9 DEF Bonded, Blank
<1>20. Quiet(e)
  <2>1. L + 1 \in 1 .. Len(s)
    BY <1>6
  <2> QED
    BY <1>4, <1>6, <1>7, <2>1 DEF Quiet, Asks
<1>21. Granted(e, z', rep') /\ Told(e, z', rep', won)
  BY <1>2, <1>7, <1>13, <1>14, <1>20 DEF Granted, Told, Blank
<1>22. Flags(e, disk)
  <2>1. Asks(e.req, "Forget") => Asks(b.req, "Forget")
    BY <1>4, <1>6, <1>7 DEF Asks, L
  <2>2. NoSaver.at = "none"
    BY DEF NoSaver
  <2> QED
    BY <1>1, <1>7, <2>1, <2>2 DEF Core, Flags, Blank
<1>23. Removes(e)
  <2> SUFFICES ASSUME NEW i \in 1 .. Len(e.req), e.req[i].k = "CancelPairing"
               PROVE  AskedAfter(e.req, i, {"RemoveDevice"})
    BY DEF Removes
  <2>1. i \in 1 .. L /\ b.req[i].k = "CancelPairing"
    BY <1>4, <1>6, <1>7
  <2>2. PICK j \in i + 1 .. L : b.req[j].k \in {"RemoveDevice"}
    BY <1>1, <2>1 DEF Removes, AskedAfter, L
  <2>3. j \in 1 .. L /\ j \in i + 1 .. Len(s)
    BY <1>6, <2>1, <2>2
  <2> QED
    BY <1>6, <1>7, <2>2, <2>3 DEF AskedAfter
<1>24. Typed(e, z', rep', disk, won)
  <2>1. rep' \in Seq(Msgs)
    BY <1>2
  <2> QED
    BY <1>1, <1>7, <1>9, <2>1 DEF Typed
<1>25. Core(e, z', rep', disk, won)
  BY <1>8, <1>9, <1>12, <1>15, <1>16, <1>18, <1>19, <1>21, <1>22, <1>24 DEF Core
<1> QED
  BY <1>2, <1>5, <1>7, <1>8, <1>23, <1>25 DEF Onward, IInv, Sound

\* init starts it again: bd_load_start and bd_bus_open, with nothing of the life before.
LEMMA RespawnOnward ==
    ASSUME IInv, Respawn
    PROVE  Onward
<1>1. Core(b, z, rep, disk, won) /\ Removes(b) /\ b \in Daemons
  BY DEF IInv, Sound, Core, Typed
<1>2. /\ b.up = "down" /\ b' = [Started(b.life) EXCEPT !.req = b.req \o @]
      /\ UNCHANGED <<z, rep, disk, won>>
  BY DEF Respawn, Up
<1>3. b.req \in Seq(Calls) /\ b.life \in Nat
  BY <1>1 DEF Daemons
<1> DEFINE h == [Dead EXCEPT !.up = "on", !.req = b.req, !.life = b.life]
           c == [k |-> "Objects", id |-> 0, life |-> b.life]
<1>4. h \in Daemons /\ Blank(h) /\ h.up = "on" /\ h.req = b.req /\ h.life = b.life
  BY <1>3, StartedIs
<1>5. b' = Call(h, "Objects", 0)
  <2> DEFINE r == Append(b.req, c)
  <2>1. c \in Calls
    BY <1>3 DEF Calls, Kinds
  <2>2. b.req \o <<c>> = r /\ Append(<<>>, c) = <<c>>
    BY <1>3, <2>1, SaidIs
  <2>3. Started(b.life) = [Dead EXCEPT !.up = "on", !.life = b.life, !.req = <<c>>, !.pends = {c}]
    BY <2>2 DEF Started, Call, Dead, PlainKinds
  <2>4. Call(h, "Objects", 0) = [h EXCEPT !.req = r, !.pends = {c}]
    <3>1. h.pends = {}
      BY <1>4 DEF Blank
    <3> HIDE DEF h
    <3>2. Call(h, "Objects", 0) = [h EXCEPT !.req = Append(h.req, c), !.pends = h.pends \cup {c}]
      BY <1>4 DEF Call, PlainKinds
    <3> QED
      BY <1>4, <3>1, <3>2
  <2> HIDE DEF c, r
  <2>5. [Dead EXCEPT !.up = "on", !.life = b.life, !.req = <<c>>, !.pends = {c}].req = <<c>>
    BY DEF Dead
  <2>6. b' = [[Dead EXCEPT !.up = "on", !.life = b.life, !.req = <<c>>, !.pends = {c}] EXCEPT !.req = r]
    BY <1>2, <2>2, <2>3, <2>5
  <2>7. [[Dead EXCEPT !.up = "on", !.life = b.life, !.req = <<c>>, !.pends = {c}] EXCEPT !.req = r]
          = [h EXCEPT !.req = r, !.pends = {c}]
    OBVIOUS
  <2> QED
    BY <2>4, <2>6, <2>7
<1> HIDE DEF h
<1>6. Agency(h) /\ Attempted(h) /\ Recorded(h) /\ Filed(h, disk) /\ Held(h)
  BY <1>4, BlankInOrder
<1>7. /\ ~b.loaded /\ ~b.bluez /\ b.id = 0 /\ b.step = "idle" /\ b.s = "none" /\ ~b.inf
      /\ ~b.areq /\ ~b.rel /\ ~b.regInf /\ ~b.relInf
  BY <1>1, <1>2 DEF Core, Agency, Attempted, Recorded
<1>8. SameLife(h) <=> SameLife(b)
  BY <1>4 DEF SameLife
<1>9. \A x : (Flagged(b, x) => Flagged(h, x)) /\ (Once(h, x) <=> Once(b, x))
  BY <1>4, <1>7 DEF Flagged, Once, Blank
<1>10. Queued(h) /\ Typed(h, z, rep, disk, won)
  BY <1>1, <1>4 DEF Core, Queued, Typed, Blank
<1>11. Flying(h, z, rep) /\ OnePlace(h, z, rep)
  BY <1>1, <1>4, <1>8, <1>9 DEF Core, Flying, OnePlace
<1>12. Bonding(h, z) /\ Bonded(h, z, disk)
  BY <1>1, <1>4, <1>7 DEF Core, Bonding, Bonded, Awaited, Blank
<1>13. Granted(h, z, rep) /\ Told(h, z, rep, won)
  BY <1>1, <1>2, <1>4, <1>7 DEF Core, Granted, Told, Quiet, Blank
<1>14. Flags(h, disk)
  <2>1. NoSaver.at = "none"
    BY DEF NoSaver
  <2> QED
    BY <1>1, <1>4, <2>1 DEF Core, Flags, Blank
<1>15. Core(h, z, rep, disk, won) /\ Removes(h)
  BY <1>1, <1>4, <1>6, <1>10, <1>11, <1>12, <1>13, <1>14 DEF Core, Removes
<1>16. "Objects" \in FreeKinds /\ "Objects" \notin PairKinds /\ 0 \in Nat
  BY DEF FreeKinds, PairKinds
<1>17. Keeps(h, b', z, rep, disk, won) /\ SameAttempt(h, b') /\ SameLine(h, b')
  BY <1>4, <1>5, <1>15, <1>16, FreeCallKeeps
<1> QED
  BY <1>2, <1>6, <1>15, <1>17 DEF Onward, IInv, Sound, Keeps, Held, SameAttempt, SameLine

\* Every step of the daemon.
LEMMA DaemonKeeps ==
    ASSUME IInv, Daemon \/ Storage \/ Pair \/ Cancel \/ Forget
    PROVE  Onward
BY ReceiveOnward, RequestOnward, StopOnward, EndOnward, RespawnOnward, SaveWritesOnward, SavedOnward,
   LoadOnward DEF Daemon, Storage
-----------------------------------------------------------------------------
(* The theorems.                                                             *)

\* In the beginning nothing is paired, saved or on its way but the first call.
LEMMA InitIInv == Init => IInv
<1> SUFFICES ASSUME Init
             PROVE  IInv
  OBVIOUS
<1> DEFINE h == [Dead EXCEPT !.up = "on", !.life = 0]
<1>1. /\ b = Call(h, "Objects", 0) /\ rep = <<>> /\ disk = "none" /\ won = 0
      /\ z = [Off EXCEPT !.up = TRUE, !.dev = TRUE]
  BY DEF Init, Started
<1>2. h \in Daemons /\ Blank(h) /\ h.up = "on" /\ h.req = <<>> /\ h.life = 0
  <2>1. NoSaver \in Savers /\ NoDev \in Devs /\ {} \in SUBSET Calls /\ <<>> \in Seq(Calls)
    BY DEF NoSaver, Savers, NoDev, Devs, Texts
  <2>2. Blank(h) /\ h.up = "on" /\ h.req = <<>> /\ h.life = 0
    BY DEF Dead, Blank
  <2>3. h \in Daemons
    BY <2>1 DEF Dead, Daemons, Steps
  <2> QED
    BY <2>2, <2>3
<1> HIDE DEF h
<1>3. /\ z \in Bluezs /\ z.up /\ z.dev /\ ~z.agent /\ ~z.dflt /\ z.bond = "none" /\ z.busy = {}
  BY <1>1 DEF Bluezs, Off
<1>4. Agency(h) /\ Attempted(h) /\ Recorded(h) /\ Filed(h, disk) /\ Held(h)
  BY <1>2, BlankInOrder
<1>5. Len(rep) = 0 /\ Len(h.req) = 0 /\ \A i \in 1 .. 0 : FALSE
  BY <1>1, <1>2
<1>6. Typed(h, z, rep, disk, won) /\ Bus(z)
  BY <1>1, <1>2, <1>3 DEF Typed, Texts, Bus
<1>7. Queued(h) /\ Removes(h)
  BY <1>2, <1>5 DEF Queued, Removes, Blank
<1>8. Flying(h, z, rep) /\ OnePlace(h, z, rep)
  BY <1>3, <1>5 DEF Flying, OnePlace
<1>9. Bonding(h, z) /\ Bonded(h, z, disk)
  BY <1>3, <1>5 DEF Bonding, Bonded
<1>10. Granted(h, z, rep) /\ Told(h, z, rep, won)
  BY <1>2, <1>3, <1>5 DEF Granted, Told, Blank
<1>11. Flags(h, disk)
  BY <1>5 DEF Flags, Asks
<1>12. Core(h, z, rep, disk, won)
  BY <1>4, <1>6, <1>7, <1>8, <1>9, <1>10, <1>11 DEF Core
<1>13. "Objects" \in FreeKinds /\ "Objects" \notin PairKinds /\ 0 \in Nat
  BY DEF FreeKinds, PairKinds
<1>14. Keeps(h, b, z, rep, disk, won) /\ SameAttempt(h, b) /\ SameLine(h, b)
  BY <1>1, <1>2, <1>12, <1>13, FreeCallKeeps
<1> QED
  BY <1>4, <1>7, <1>14 DEF IInv, Sound, Keeps, Held, SameAttempt, SameLine

\* Every step goes on from the invariant to the invariant.
LEMMA NextOnward ==
    ASSUME IInv, [Next]_vars
    PROVE  Onward
<1>1. CASE Next
  BY <1>1, BluezKeeps, DaemonKeeps DEF Next
<1>2. CASE UNCHANGED vars
  <2>1. Core(b, z', rep', disk', won') /\ UNCHANGED b
    BY <1>2 DEF vars, IInv, Sound
  <2> QED
    BY <2>1, BluezOnward
<1> QED
  BY <1>1, <1>2

\* The invariant holds of every state.
THEOREM SpecIInv == Spec => []IInv
<1>1. IInv /\ [Next]_vars => IInv'
  BY NextOnward DEF Onward
<1> QED
  BY <1>1, InitIInv, PTL DEF Spec

\* Of a state: a bond has a record, an attempt or a removal to answer for it, BlueZ is asked to
\* remove a sensor only when the file says so, and the default agent is on its way back.
LEMMA IInvKnown == IInv => BondsAreKnown
<1> SUFFICES ASSUME IInv
             PROVE  BondsAreKnown
  OBVIOUS
<1>1. Core(b, z, rep, disk, won) /\ b \in Daemons
  BY DEF IInv, Sound, Core, Typed
<1>2. \A k : Asked(k) <=> Asks(b.req, k)
  <2>1. b.req \in Seq(Calls)
    BY <1>1 DEF Daemons
  <2>2. DOMAIN b.req = 1 .. Len(b.req)
    BY <2>1
  <2> QED
    BY <2>2 DEF Asked, Asks
<1>3. RecordForBond
  BY <1>1, <1>2 DEF Core, Bonded, Attempted, RecordForBond, Up
<1>4. FlagFirst
  <2>1. ASSUME NEW c \in b.pends, c.k = "Forget"
        PROVE  disk = "forget"
    BY <1>1, <2>1 DEF Core, Attempted, Recorded, Filed, RecordsText
  <2>2. Asked("Forget") => disk # "saved"
    BY <1>1, <1>2 DEF Core, Flags
  <2> QED
    BY <2>1, <2>2 DEF FlagFirst
<1>5. DefaultOnlyWhilePairing
  BY <1>1, <1>2 DEF Core, Granted, Quiet, Agency, DefaultOnlyWhilePairing
<1> QED
  BY <1>3, <1>4, <1>5 DEF BondsAreKnown

\* What bluetoothd holds for the daemon is known to it or to its file, through every restart,
\* lost connection, refused call and failing save.
THEOREM SpecBondsAreKnown == Spec => []BondsAreKnown
BY SpecIInv, IInvKnown, PTL

\* bd_forget_step: "forgotten" is told, the slot freed, only when neither the record nor the
\* bond made for the sensor is left.
THEOREM SpecForgottenIsGone == Spec => ForgottenIsGone
<1>1. ASSUME IInv, [Next]_vars
      PROVE  [b.s = "removed" /\ b'.s = "none" /\ Up /\ b'.up # "down"
                => disk = "none" /\ z.bond # "ours"]_vars
  <2>1. Onward
    BY <1>1, NextOnward
  <2>2. b.s = "removed" => b.loaded
    BY <1>1 DEF IInv, Sound, Core, Recorded
  <2> QED
    BY <2>1, <2>2 DEF Onward, Moves, Up
<1> QED
  BY <1>1, SpecIInv, PTL DEF Spec, ForgottenIsGone

\* pair_done: a sensor is saved only by the attempt whose subscription BlueZ confirmed.
THEOREM SpecSavedIsProven == Spec => SavedIsProven
<1>1. ASSUME IInv, [Next]_vars
      PROVE  [b.s = "none" /\ b'.s = "saved" /\ b.loaded => won = b.id]_vars
  <2>1. Onward
    BY <1>1, NextOnward
  <2>2. b.loaded => b.up # "down"
    BY <1>1 DEF IInv, Sound, Core, Attempted
  <2>3. b'.s = "saved" => b'.up # "down"
    BY <2>1 DEF Onward, IInv, Sound, Core, Attempted, Recorded
  <2> QED
    BY <2>1, <2>2, <2>3 DEF Onward, Moves
<1> QED
  BY <1>1, SpecIInv, PTL DEF Spec, SavedIsProven

=============================================================================
