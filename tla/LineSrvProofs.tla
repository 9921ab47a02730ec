--------------------------- MODULE LineSrvProofs ---------------------------
(***************************************************************************)
(* What holds of the socket library for every table, buffer and queue      *)
(* size.  A world w = [cl, kern] is Sound when the slots and the open      *)
(* connections are one to one and no buffer is fuller than it can be; each *)
(* operation keeps that, and leaves another slot's client alone (Later),   *)
(* which is what a scan in progress relies on.                             *)
(***************************************************************************)
EXTENDS LineSrv, SequenceTheorems, WellFoundedInduction, TLAPS

InBytes == [n : Int, long : BOOLEAN, end : BOOLEAN]
SaidLines == [k : {"must", "lossy", "note", "long", "many"}, n : Int]
OutBytes == [l : SaidLines, end : BOOLEAN]
Clients == [conn : {0} \cup Conns, gen : Nat, disc : BOOLEAN, in : Seq(InBytes),
            out : Seq(OutBytes), dropped : Nat]
Kernels == [st : {"none", "waits", "open", "refused", "eof", "full", "drop"}, hung : BOOLEAN,
            toSrv : Seq(InBytes), toCli : Seq(OutBytes), did : Int, got : SaidLines]
Worlds == [cl : [Slots -> Clients], kern : [Conns -> Kernels]]
Entries == [slot : Slots, gen : Nat, out : BOOLEAN, in : BOOLEAN]
Places == [at : {"poll", "entries", "lines"}, slot : {0} \cup Slots, start : Nat, gen : Nat,
           accept : BOOLEAN, entries : SUBSET Entries]

\* A used slot is an open connection's, an open connection has one slot.
OneToOne(w) ==
    /\ \A s \in Slots : Used(w, s) => Peer(w, s).st = "open"
    /\ \A s, t \in Slots : Used(w, s) /\ w.cl[s].conn = w.cl[t].conn => s = t
    /\ \A c \in Conns : w.kern[c].st = "open" => \E s \in Slots : w.cl[s].conn = c

\* No buffer holds more than its size.
WithinSizes(w) ==
    /\ \A s \in Slots : Len(w.cl[s].in) <= LineMax /\ Len(w.cl[s].out) <= OutqSize
    /\ \A c \in Conns : Len(w.kern[c].toCli) <= SockSize

Sound(w) == w \in Worlds /\ OneToOne(w) /\ WithinSizes(w)

\* A generation never comes again, and while it lasts the slot keeps its client and,
\* unless it is the slot x, what was read from it.
LaterBut(w, v, x) ==
    \A s \in Slots :
        /\ w.cl[s].gen <= v.cl[s].gen
        /\ Used(w, s) /\ w.cl[s].gen = v.cl[s].gen =>
               v.cl[s].conn = w.cl[s].conn /\ (s # x => v.cl[s].in = w.cl[s].in)
Later(w, v) == LaterBut(w, v, 0)

\* An entry of poll() or a scan is of a client that is there, or of an earlier generation.
EntryIsKnown(q, w) ==
    \A e \in q.entries :
        /\ e.gen <= w.cl[e.slot].gen
        /\ e.gen = w.cl[e.slot].gen => Used(w, e.slot)
ScanIsKnown(q, w) ==
    q.at = "lines" =>
        /\ q.slot \in Slots
        /\ q.gen <= w.cl[q.slot].gen
        /\ q.gen = w.cl[q.slot].gen => Used(w, q.slot) /\ q.start <= Len(w.cl[q.slot].in)

IInv ==
    /\ Sound(World)
    /\ pc \in Places /\ n \in [conns : Nat, asks : Nat, says : Nat, closes : Nat]
    /\ EntryIsKnown(pc, World) /\ ScanIsKnown(pc, World)

-----------------------------------------------------------------------------
(* Numbers and sequences.                                                     *)

\* Slots and connections are numbered from 1.
LEMMA Numbered == Slots \subseteq Nat \ {0} /\ Conns \subseteq Nat \ {0}
<1>1. Slots = 1 .. Cardinality(Slots) /\ Conns = 1 .. Cardinality(Conns)
  BY LineSrvBounds
<1>2. \A x : 1 .. x \subseteq Nat \ {0}
  OBVIOUS
<1> QED
  BY <1>1, <1>2

\* The sizes are numbers, and a line fits into a queue and a socket.
LEMMA Sizes ==
    /\ LineMax \in Nat /\ LongSize \in Nat /\ OutqSize \in Nat /\ SockSize \in Nat
    /\ LineMax >= 2 /\ OutqSize >= 4 /\ SockSize >= 2
  BY LineSrvBounds

\* The least of a set of numbers is one of them.
LEMMA LeastIs ==
    ASSUME NEW S \in SUBSET Nat, S # {}
    PROVE  Least(S) \in S /\ \A y \in S : Least(S) <= y
<1>1. \E x \in S : \A y \in S : ~(<<y, x>> \in OpToRel(<, Nat))
  BY NatLessThanWellFounded, WFMin
<1>2. PICK x \in S : \A y \in S : ~(<<y, x>> \in OpToRel(<, Nat))
  BY <1>1
<1>3. \A y \in S : ~(y < x)
  BY <1>2 DEF OpToRel
<1>4. \A y \in S : x <= y
  BY <1>3
<1> QED
  BY <1>4 DEF Least

\* The lesser of two.
LEMMA LesserIs ==
    ASSUME NEW a \in Nat, NEW b \in Nat
    PROVE  Least({a, b}) \in Nat /\ Least({a, b}) <= a /\ Least({a, b}) <= b
  BY LeastIs

\* A sequence's first i elements, and those after them.
LEMMA Parts ==
    ASSUME NEW S, NEW q \in Seq(S), NEW i \in Nat, i <= Len(q)
    PROVE  /\ First(q, i) \in Seq(S) /\ Len(First(q, i)) = i
           /\ After(q, i) \in Seq(S) /\ Len(After(q, i)) = Len(q) - i
<1>0. Len(q) \in Nat
  OBVIOUS
<1>1. First(q, i) \in Seq(S) /\ Len(First(q, i)) = i
  BY <1>0 DEF First
<1>2. After(q, i) \in Seq(S) /\ Len(After(q, i)) = Len(q) - i
  <2>1. i + 1 \in Nat /\ i + 1 <= Len(q) + 1
    BY <1>0
  <2> QED
    BY <1>0, <2>1 DEF After
<1> QED
  BY <1>1, <1>2

\* One sequence after another.
LEMMA Joined ==
    ASSUME NEW S, NEW q \in Seq(S), NEW r \in Seq(S)
    PROVE  q \o r \in Seq(S) /\ Len(q \o r) = Len(q) + Len(r) /\ Len(q) \in Nat /\ Len(r) \in Nat
  BY ConcatProperties

\* A line on the socket.
LEMMA BytesAre ==
    ASSUME NEW l \in SaidLines
    PROVE  Bytes(l) \in Seq(OutBytes) /\ Len(Bytes(l)) = 2
  BY DEF Bytes, OutBytes

\* A request on the socket.
LEMMA RequestIs ==
    ASSUME NEW i \in Int, NEW long \in BOOLEAN
    PROVE  Request(i, long) \in Seq(InBytes)
<1>1. Size(long) \in Nat
  BY LineSrvBounds DEF Size
<1>2. \A j \in 1 .. Size(long) : [n |-> i, long |-> long, end |-> j = Size(long)] \in InBytes
  BY DEF InBytes
<1> QED
  BY <1>1, <1>2 DEF Request

-----------------------------------------------------------------------------
(* The operations.                                                            *)

\* What the records of a sound world are.
LEMMA Fields ==
    ASSUME NEW w, Sound(w), NEW s \in Slots
    PROVE  /\ w.cl \in [Slots -> Clients] /\ w.kern \in [Conns -> Kernels]
           /\ w = [cl |-> w.cl, kern |-> w.kern]
           /\ w.cl[s] \in Clients
           /\ Used(w, s) => w.cl[s].conn \in Conns /\ Peer(w, s) \in Kernels
  BY DEF Sound, Worlds, Clients, Used, Peer

\* Nothing has happened.
LEMMA LaterIsReflexive == ASSUME NEW w, Sound(w), NEW x PROVE LaterBut(w, w, x)
  BY DEF Sound, Worlds, Clients, LaterBut

\* One thing after another.
LEMMA LaterIsTransitive ==
    ASSUME NEW u, NEW v, NEW w, NEW x, Sound(u), Sound(v), Sound(w),
           LaterBut(u, v, x), LaterBut(v, w, x)
    PROVE  LaterBut(u, w, x)
<1> SUFFICES ASSUME NEW s \in Slots
             PROVE  /\ u.cl[s].gen <= w.cl[s].gen
                    /\ Used(u, s) /\ u.cl[s].gen = w.cl[s].gen =>
                           w.cl[s].conn = u.cl[s].conn /\ (s # x => w.cl[s].in = u.cl[s].in)
  BY DEF LaterBut
<1>1. u.cl[s].gen \in Nat /\ v.cl[s].gen \in Nat /\ w.cl[s].gen \in Nat
  BY DEF Sound, Worlds, Clients
<1>2. u.cl[s].gen <= v.cl[s].gen /\ v.cl[s].gen <= w.cl[s].gen
  BY DEF LaterBut
<1>3. ASSUME Used(u, s), u.cl[s].gen = w.cl[s].gen
      PROVE  w.cl[s].conn = u.cl[s].conn /\ (s # x => w.cl[s].in = u.cl[s].in)
  <2>1. u.cl[s].gen = v.cl[s].gen /\ v.cl[s].gen = w.cl[s].gen
    BY <1>1, <1>2, <1>3
  <2>2. v.cl[s].conn = u.cl[s].conn /\ (s # x => v.cl[s].in = u.cl[s].in)
    BY <1>3, <2>1 DEF LaterBut
  <2>3. Used(v, s)
    BY <1>3, <2>2 DEF Used
  <2> QED
    BY <2>1, <2>2, <2>3 DEF LaterBut
<1> QED
  BY <1>1, <1>2, <1>3

\* A used slot's record may change, as long as it is the same client's.
LEMMA ClientChanges ==
    ASSUME NEW w, Sound(w), NEW s \in Slots, NEW c \in Clients, NEW x,
           c.conn = w.cl[s].conn, c.gen = w.cl[s].gen, c.in = w.cl[s].in \/ x = s,
           Len(c.in) <= LineMax, Len(c.out) <= OutqSize
    PROVE  /\ Sound([w EXCEPT !.cl[s] = c])
           /\ LaterBut(w, [w EXCEPT !.cl[s] = c], x)
<1> DEFINE v == [w EXCEPT !.cl[s] = c]
<1>1. v = [cl |-> [w.cl EXCEPT ![s] = c], kern |-> w.kern]
  BY Fields
<1>2. v.cl = [w.cl EXCEPT ![s] = c] /\ v.kern = w.kern /\ v \in Worlds
  BY <1>1, Fields DEF Worlds
<1>3. \A t \in Slots : v.cl[t] = IF t = s THEN c ELSE w.cl[t]
  BY <1>2, Fields
<1> HIDE DEF v
<1>4. \A t \in Slots : v.cl[t].conn = w.cl[t].conn
  BY <1>3
<1>5. OneToOne(v)
  BY <1>2, <1>4 DEF Sound, OneToOne, Used, Peer
<1>6. WithinSizes(v)
  BY <1>2, <1>3 DEF Sound, WithinSizes
<1>7. LaterBut(w, v, x)
  <2> SUFFICES ASSUME NEW t \in Slots
               PROVE  /\ w.cl[t].gen <= v.cl[t].gen
                      /\ v.cl[t].conn = w.cl[t].conn
                      /\ t # x => v.cl[t].in = w.cl[t].in
    BY DEF LaterBut
  <2>1. w.cl[t].gen \in Nat
    BY DEF Sound, Worlds, Clients
  <2> QED
    BY <1>3, <1>4, <2>1
<1> QED
  BY <1>2, <1>5, <1>6, <1>7 DEF v, Sound

\* A connection's side may change, as long as it stays open or not.
LEMMA KernelChanges ==
    ASSUME NEW w, Sound(w), NEW c \in Conns, NEW k \in Kernels, NEW x,
           k.st = "open" <=> w.kern[c].st = "open", Len(k.toCli) <= SockSize
    PROVE  /\ Sound([w EXCEPT !.kern[c] = k])
           /\ LaterBut(w, [w EXCEPT !.kern[c] = k], x)
<1> DEFINE v == [w EXCEPT !.kern[c] = k]
<1>0. w = [cl |-> w.cl, kern |-> w.kern] /\ w.kern \in [Conns -> Kernels] /\ w.cl \in [Slots -> Clients]
  BY DEF Sound, Worlds
<1>1. v.kern = [w.kern EXCEPT ![c] = k] /\ v.cl = w.cl /\ v \in Worlds
  BY <1>0 DEF Worlds
<1>2. \A b \in Conns : v.kern[b] = IF b = c THEN k ELSE w.kern[b]
  BY <1>0, <1>1
<1> HIDE DEF v
<1>3. \A b \in Conns : v.kern[b].st = "open" <=> w.kern[b].st = "open"
  BY <1>2
<1>4. OneToOne(v)
  <2>1. ASSUME NEW s \in Slots, Used(v, s) PROVE Peer(v, s).st = "open"
    <3>1. Used(w, s) /\ w.cl[s].conn \in Conns
      BY <1>1, <2>1, Fields DEF Used
    <3> QED
      BY <1>1, <1>3, <3>1 DEF Sound, OneToOne, Peer
  <2>2. \A s, t \in Slots : Used(v, s) /\ v.cl[s].conn = v.cl[t].conn => s = t
    BY <1>1 DEF Sound, OneToOne, Used
  <2>3. \A b \in Conns : v.kern[b].st = "open" => \E s \in Slots : v.cl[s].conn = b
    BY <1>1, <1>3 DEF Sound, OneToOne
  <2> QED
    BY <2>1, <2>2, <2>3 DEF OneToOne
<1>5. WithinSizes(v)
  BY <1>1, <1>2 DEF Sound, WithinSizes
<1>6. LaterBut(w, v, x)
  BY <1>1, LaterIsReflexive DEF LaterBut
<1> QED
  BY <1>1, <1>4, <1>5, <1>6 DEF v, Sound

\* A connection that is over.
LEMMA KernelEnds ==
    ASSUME NEW q \in Kernels, NEW why \in {"refused", "eof", "full", "drop"}
    PROVE  LET k == [q EXCEPT !.st = why, !.toSrv = <<>>]
           IN  k \in Kernels /\ k.st # "open" /\ k.toCli = q.toCli
<1>1. <<>> \in Seq(InBytes)
  OBVIOUS
<1> QED
  BY <1>1 DEF Kernels

\* A drop frees the slot, and its connection is over.
LEMMA DropSound ==
    ASSUME NEW w, Sound(w), NEW s \in Slots, Used(w, s), NEW why \in {"eof", "full", "drop"}, NEW x
    PROVE  Sound(Drop(w, s, why)) /\ LaterBut(w, Drop(w, s, why), x)
<1> DEFINE d == w.cl[s].conn
           f == Slot(0, w.cl[s].gen + 1)
           k == [w.kern[d] EXCEPT !.st = why, !.toSrv = <<>>]
           v == Drop(w, s, why)
<1>1. d \in Conns /\ d # 0 /\ w.kern[d] \in Kernels /\ w.cl[s] \in Clients
  BY Fields DEF Used, Peer
<1>2. f \in Clients /\ f.conn = 0 /\ f.gen = w.cl[s].gen + 1 /\ Len(f.in) = 0 /\ Len(f.out) = 0
  BY <1>1 DEF Slot, Clients
<1>3. k \in Kernels /\ k.st # "open" /\ k.toCli = w.kern[d].toCli
  <2> DEFINE q == w.kern[d]
  <2>1. q \in Kernels
    BY <1>1
  <2> HIDE DEF q
  <2> QED
    BY <2>1, KernelEnds DEF q
<1>4. v.cl = [w.cl EXCEPT ![s] = f] /\ v.kern = [w.kern EXCEPT ![d] = k] /\ v \in Worlds
  <2>1. v = [cl |-> [w.cl EXCEPT ![s] = f], kern |-> [w.kern EXCEPT ![d] = k]]
    BY DEF Drop
  <2> HIDE DEF f, k, v, d
  <2> QED
    BY <1>1, <1>2, <1>3, <2>1, Fields DEF Worlds
<1> HIDE DEF f, k, v
<1>5. \A t \in Slots : v.cl[t] = IF t = s THEN f ELSE w.cl[t]
  BY <1>4, Fields
<1>6. \A b \in Conns : v.kern[b] = IF b = d THEN k ELSE w.kern[b]
  BY <1>4, Fields
<1>7. OneToOne(v)
  <2>1. ASSUME NEW t \in Slots, Used(v, t)
        PROVE  t # s /\ Used(w, t) /\ v.cl[t].conn = w.cl[t].conn /\ w.cl[t].conn # d
               /\ w.cl[t].conn \in Conns
    <3>1. t # s
      BY <1>2, <1>5, <2>1 DEF Used
    <3>2. v.cl[t] = w.cl[t] /\ Used(w, t)
      BY <1>5, <2>1, <3>1 DEF Used
    <3> QED
      BY <3>1, <3>2, Fields DEF Sound, OneToOne
  <2>2. ASSUME NEW t \in Slots, Used(v, t) PROVE Peer(v, t).st = "open"
    BY <1>6, <2>1, <2>2 DEF Peer, Sound, OneToOne
  <2>3. ASSUME NEW t \in Slots, NEW u \in Slots, Used(v, t), v.cl[t].conn = v.cl[u].conn
        PROVE  t = u
    <3>1. Used(v, u)
      BY <2>3 DEF Used
    <3> QED
      BY <2>1, <2>3, <3>1 DEF Sound, OneToOne
  <2>4. ASSUME NEW b \in Conns, v.kern[b].st = "open" PROVE \E t \in Slots : v.cl[t].conn = b
    <3>1. b # d /\ w.kern[b].st = "open"
      BY <1>3, <1>6, <2>4
    <3>2. PICK t \in Slots : w.cl[t].conn = b
      BY <3>1 DEF Sound, OneToOne
    <3> QED
      BY <1>5, <3>1, <3>2
  <2> QED
    BY <2>2, <2>3, <2>4 DEF OneToOne
<1>8. WithinSizes(v)
  <2>1. \A t \in Slots : Len(v.cl[t].in) <= LineMax /\ Len(v.cl[t].out) <= OutqSize
    BY <1>2, <1>5, LineSrvBounds DEF Sound, WithinSizes
  <2>2. \A b \in Conns : Len(v.kern[b].toCli) <= SockSize
    BY <1>3, <1>6 DEF Sound, WithinSizes
  <2> QED
    BY <2>1, <2>2 DEF WithinSizes
<1>9. LaterBut(w, v, x)
  <2> SUFFICES ASSUME NEW t \in Slots
               PROVE  /\ w.cl[t].gen <= v.cl[t].gen
                      /\ w.cl[t].gen = v.cl[t].gen => v.cl[t] = w.cl[t]
    BY DEF LaterBut
  <2>1. w.cl[t].gen \in Nat
    BY DEF Sound, Worlds, Clients
  <2> QED
    BY <1>2, <1>5, <2>1
<1> QED
  BY <1>4, <1>7, <1>8, <1>9 DEF v, Sound

\* What is flushed goes to the socket as far as it has room.
LEMMA FlushSound ==
    ASSUME NEW w, Sound(w), NEW s \in Slots, Used(w, s), NEW x
    PROVE  Sound(Flush(w, s)) /\ LaterBut(w, Flush(w, s), x)
<1> DEFINE d == w.cl[s].conn
           out == w.cl[s].out
           sent == w.kern[d].toCli
           room == SockSize - Len(sent)
           i == Least({room, Len(out)})
           c == [w.cl[s] EXCEPT !.out = After(out, i)]
           k == [w.kern[d] EXCEPT !.toCli = sent \o First(out, i)]
           u == [w EXCEPT !.cl[s] = c]
           v == [u EXCEPT !.kern[d] = k]
<1>1. d \in Conns /\ w.kern[d] \in Kernels /\ w.cl[s] \in Clients
  BY Fields DEF Peer
<1>2. CASE out = <<>>
  <2>1. Flush(w, s) = w
    BY <1>2 DEF Flush
  <2> QED
    BY <2>1, LaterIsReflexive
<1>3. CASE out # <<>> /\ Peer(w, s).hung
  <2>1. Flush(w, s) = Drop(w, s, "eof")
    BY <1>3 DEF Flush
  <2> QED
    BY <2>1, DropSound
<1>4. CASE out # <<>> /\ ~Peer(w, s).hung
  <2>1. out \in Seq(OutBytes) /\ sent \in Seq(OutBytes)
    BY <1>1 DEF Clients, Kernels
  <2>2. Len(out) \in Nat /\ Len(sent) \in Nat /\ Len(sent) <= SockSize /\ Len(out) <= OutqSize
        /\ Len(w.cl[s].in) <= LineMax
    <3>1. Len(sent) <= SockSize /\ Len(out) <= OutqSize /\ Len(w.cl[s].in) <= LineMax
      BY <1>1 DEF Sound, WithinSizes
    <3> HIDE DEF out, sent
    <3> QED
      BY <2>1, <3>1
  <2>3. room \in Nat
    <3> HIDE DEF out, sent
    <3> QED
      BY <2>2, Sizes
  <2>4. i \in Nat /\ i <= room /\ i <= Len(out)
    <3> HIDE DEF room, out
    <3> QED
      BY <2>2, <2>3, LesserIs
  <2> HIDE DEF i
  <2>5. After(out, i) \in Seq(OutBytes) /\ Len(After(out, i)) = Len(out) - i
        /\ First(out, i) \in Seq(OutBytes) /\ Len(First(out, i)) = i
    <3> HIDE DEF out
    <3> QED
      BY <2>1, <2>4, Parts
  <2>6. sent \o First(out, i) \in Seq(OutBytes)
        /\ Len(sent \o First(out, i)) = Len(sent) + i
    <3> HIDE DEF out, sent
    <3> QED
      BY <2>1, <2>5, Joined
  <2>7. Len(After(out, i)) <= OutqSize /\ Len(sent \o First(out, i)) <= SockSize
    <3>1. Len(sent) + i <= SockSize /\ Len(out) - i <= OutqSize
      <4> HIDE DEF out, sent
      <4> QED
        BY <2>2, <2>4, Sizes
    <3> HIDE DEF out, sent
    <3> QED
      BY <2>5, <2>6, <3>1
  <2>8. c \in Clients /\ c.conn = w.cl[s].conn /\ c.gen = w.cl[s].gen /\ c.in = w.cl[s].in
        /\ c.out = After(out, i)
    <3> HIDE DEF out
    <3> QED
      BY <1>1, <2>5 DEF Clients
  <2>9. k \in Kernels /\ k.st = w.kern[d].st /\ k.toCli = sent \o First(out, i)
    <3> HIDE DEF out, sent, d
    <3> QED
      BY <1>1, <2>6 DEF Kernels
  <2>10. Flush(w, s) = v
    <3>1. Flush(w, s) = [cl |-> [w.cl EXCEPT ![s].out = After(@, i)],
                         kern |-> [w.kern EXCEPT ![w.cl[s].conn].toCli = @ \o First(out, i)]]
      BY <1>4, Sizes DEF Flush, Peer, i
    <3>2. [w.cl EXCEPT ![s].out = After(@, i)] = [w.cl EXCEPT ![s] = c]
      OBVIOUS
    <3>3. [w.kern EXCEPT ![w.cl[s].conn].toCli = @ \o First(out, i)] = [w.kern EXCEPT ![d] = k]
      OBVIOUS
    <3>4. v = [cl |-> [w.cl EXCEPT ![s] = c], kern |-> [w.kern EXCEPT ![d] = k]]
      <4>1. w = [cl |-> w.cl, kern |-> w.kern]
        BY Fields
      <4> HIDE DEF c, k, d
      <4>2. u = [cl |-> [w.cl EXCEPT ![s] = c], kern |-> w.kern]
        BY <4>1
      <4> HIDE DEF u
      <4> QED
        BY <4>2
    <3> HIDE DEF v
    <3> QED
      BY <3>1, <3>2, <3>3, <3>4
  <2>11. Sound(u) /\ LaterBut(w, u, x)
    <3> HIDE DEF c
    <3> QED
      BY <2>2, <2>7, <2>8, ClientChanges
  <2>12. u.kern = w.kern
    BY Fields
  <2>13. Sound(v) /\ LaterBut(u, v, x)
    <3>1. k.st = "open" <=> u.kern[d].st = "open"
      BY <2>9, <2>12
    <3>2. Len(k.toCli) <= SockSize
      BY <2>7, <2>9
    <3> HIDE DEF k, u, d
    <3> QED
      BY <1>1, <2>9, <2>11, <3>1, <3>2, KernelChanges
  <2> QED
    <3> HIDE DEF u, v
    <3> QED
      BY <2>10, <2>11, <2>13, LaterIsTransitive
<1> QED
  BY <1>2, <1>3, <1>4

\* A line queued where it fits, then flushed.
LEMMA QueueSound ==
    ASSUME NEW w, Sound(w), NEW s \in Slots, Used(w, s), NEW c \in Clients, NEW x,
           c.conn = w.cl[s].conn, c.gen = w.cl[s].gen, c.in = w.cl[s].in,
           Len(c.out) <= OutqSize
    PROVE  LET v == Flush([w EXCEPT !.cl[s] = c], s)
           IN  Sound(v) /\ LaterBut(w, v, x)
<1> DEFINE u == [w EXCEPT !.cl[s] = c]
<1>1. Len(c.in) <= LineMax
  BY DEF Sound, WithinSizes
<1>2. Sound(u) /\ LaterBut(w, u, x)
  BY <1>1, ClientChanges
<1>3. Used(u, s)
  BY Fields DEF Used
<1> HIDE DEF u
<1>4. Sound(Flush(u, s)) /\ LaterBut(u, Flush(u, s), x)
  BY <1>2, <1>3, FlushSound
<1>5. LaterBut(w, Flush(u, s), x)
  BY <1>2, <1>4, LaterIsTransitive
<1> QED
  BY <1>4, <1>5 DEF u

\* linesrv_send: the line is queued whole, or the client is dropped.
LEMMA SendSound ==
    ASSUME NEW w, Sound(w), NEW s \in Slots, NEW l \in SaidLines, NEW x
    PROVE  Sound(Send(w, s, l)) /\ LaterBut(w, Send(w, s, l), x)
<1> DEFINE c == [w.cl[s] EXCEPT !.out = @ \o Bytes(l)]
<1>1. CASE ~Used(w, s)
  <2>1. Send(w, s, l) = w
    BY <1>1 DEF Send
  <2> QED
    BY <2>1, LaterIsReflexive
<1>2. CASE Used(w, s) /\ Len(Bytes(l)) > OutqSize - Len(w.cl[s].out)
  <2>1. Send(w, s, l) = Drop(w, s, "full")
    BY <1>2 DEF Send
  <2> QED
    BY <1>2, <2>1, DropSound
<1>3. CASE Used(w, s) /\ ~(Len(Bytes(l)) > OutqSize - Len(w.cl[s].out))
  <2>1. Send(w, s, l) = Flush([w EXCEPT !.cl[s] = c], s)
    BY <1>3 DEF Send
  <2>2. w.cl[s] \in Clients /\ w.cl[s].out \in Seq(OutBytes)
    BY Fields DEF Clients
  <2>3. Bytes(l) \in Seq(OutBytes) /\ Len(Bytes(l)) = 2
    BY BytesAre
  <2>4. w.cl[s].out \o Bytes(l) \in Seq(OutBytes)
        /\ Len(w.cl[s].out \o Bytes(l)) = Len(w.cl[s].out) + 2
    BY <2>2, <2>3, Joined
  <2>5. Len(w.cl[s].out) + 2 <= OutqSize
    BY <1>3, <2>2, <2>3, Sizes
  <2>6. c \in Clients /\ c.conn = w.cl[s].conn /\ c.gen = w.cl[s].gen /\ c.in = w.cl[s].in
        /\ c.out = w.cl[s].out \o Bytes(l)
    BY <2>2, <2>4 DEF Clients
  <2> HIDE DEF c
  <2> QED
    BY <1>3, <2>1, <2>4, <2>5, <2>6, QueueSound
<1> QED
  BY <1>1, <1>2, <1>3

\* linesrv_send_lossy: the line is queued with the count, or counted.
LEMMA SendLossySound ==
    ASSUME NEW w, Sound(w), NEW s \in Slots, NEW l \in SaidLines, NEW x
    PROVE  Sound(SendLossy(w, s, l)) /\ LaterBut(w, SendLossy(w, s, l), x)
<1> DEFINE note == IF w.cl[s].dropped > 0 THEN Bytes(Line("note", w.cl[s].dropped)) ELSE <<>>
           more == note \o Bytes(l)
           c == [w.cl[s] EXCEPT !.out = @ \o more, !.dropped = 0]
           k == [w.cl[s] EXCEPT !.dropped = @ + 1]
<1>0. w.cl[s] \in Clients /\ w.cl[s].out \in Seq(OutBytes) /\ w.cl[s].dropped \in Nat
  BY Fields DEF Clients
<1>1. CASE ~Used(w, s)
  <2>1. SendLossy(w, s, l) = w
    BY <1>1 DEF SendLossy
  <2> QED
    BY <2>1, LaterIsReflexive
<1>2. CASE Used(w, s) /\ Len(more) > OutqSize - Len(w.cl[s].out)
  <2>1. SendLossy(w, s, l) = [w EXCEPT !.cl[s] = k]
    BY <1>2 DEF SendLossy
  <2>2. k \in Clients /\ k.conn = w.cl[s].conn /\ k.gen = w.cl[s].gen /\ k.in = w.cl[s].in
        /\ k.out = w.cl[s].out
    BY <1>0 DEF Clients
  <2>3. Len(w.cl[s].in) <= LineMax /\ Len(w.cl[s].out) <= OutqSize
    BY DEF Sound, WithinSizes
  <2> HIDE DEF k
  <2> QED
    BY <2>1, <2>2, <2>3, ClientChanges
<1>3. CASE Used(w, s) /\ ~(Len(more) > OutqSize - Len(w.cl[s].out))
  <2>1. SendLossy(w, s, l) = Flush([w EXCEPT !.cl[s] = c], s)
    BY <1>3 DEF SendLossy
  <2>2. Line("note", w.cl[s].dropped) \in SaidLines
    BY <1>0 DEF Line, SaidLines
  <2>3. note \in Seq(OutBytes)
    BY <2>2, BytesAre
  <2>4. more \in Seq(OutBytes)
    <3> HIDE DEF note
    <3> QED
      BY <2>3, BytesAre, Joined
  <2> HIDE DEF more
  <2>5. w.cl[s].out \o more \in Seq(OutBytes)
        /\ Len(w.cl[s].out \o more) = Len(w.cl[s].out) + Len(more)
    BY <1>0, <2>4, Joined
  <2>6. Len(w.cl[s].out) + Len(more) <= OutqSize
    <3>1. Len(more) \in Nat /\ Len(w.cl[s].out) \in Nat
      BY <1>0, <2>4
    <3> QED
      BY <1>3, <3>1, Sizes
  <2>7. c \in Clients /\ c.conn = w.cl[s].conn /\ c.gen = w.cl[s].gen /\ c.in = w.cl[s].in
        /\ c.out = w.cl[s].out \o more
    BY <1>0, <2>5 DEF Clients
  <2> HIDE DEF c
  <2> QED
    BY <1>3, <2>1, <2>5, <2>6, <2>7, QueueSound
<1> QED
  BY <1>1, <1>2, <1>3

\* linesrv_adopt: a free slot, or a refusal.
LEMMA AdoptSound ==
    ASSUME NEW w, Sound(w), NEW c \in Conns, w.kern[c].st \in {"none", "waits"}, NEW x
    PROVE  Sound(Adopt(w, c)) /\ LaterBut(w, Adopt(w, c), x)
<1> DEFINE free == {s \in Slots : ~Used(w, s)}
           told == IF w.kern[c].hung THEN <<>> ELSE Bytes(TooMany)
           k == [w.kern[c] EXCEPT !.st = "refused", !.toSrv = <<>>, !.toCli = told]
           s == Least(free)
           f == Slot(c, w.cl[s].gen)
           o == [w.kern[c] EXCEPT !.st = "open"]
           v == Adopt(w, c)
<1>0. w.kern[c] \in Kernels
  BY DEF Sound, Worlds
<1>1. CASE free = {}
  <2>1. Adopt(w, c) = [w EXCEPT !.kern[c] = k]
    <3> HIDE DEF told
    <3>1. Adopt(w, c) = [w EXCEPT !.kern[c].st = "refused", !.kern[c].toSrv = <<>>, !.kern[c].toCli = told]
      BY <1>1 DEF Adopt, told
    <3> QED
      BY <3>1, Fields DEF Sound, Worlds
  <2>2. TooMany \in SaidLines
    BY DEF TooMany, Line, SaidLines
  <2>3. told \in Seq(OutBytes) /\ Len(told) <= SockSize
    <3>1. Bytes(TooMany) \in Seq(OutBytes) /\ Len(Bytes(TooMany)) = 2
      BY <2>2, BytesAre
    <3>2. <<>> \in Seq(OutBytes) /\ Len(<<>>) = 0
      OBVIOUS
    <3>3. told = <<>> \/ told = Bytes(TooMany)
      OBVIOUS
    <3>4. 0 <= SockSize /\ 2 <= SockSize
      BY Sizes
    <3> HIDE DEF told, TooMany, Bytes
    <3>5. told \in Seq(OutBytes) /\ (Len(told) = 0 \/ Len(told) = 2)
      BY <3>1, <3>2, <3>3, ZenonT(30)
    <3> QED
      BY <3>4, <3>5
  <2>4. k \in Kernels /\ k.st = "refused" /\ k.toCli = told
    <3> HIDE DEF told
    <3>1. <<>> \in Seq(InBytes)
      OBVIOUS
    <3> QED
      BY <1>0, <2>3, <3>1 DEF Kernels
  <2> HIDE DEF k, told
  <2> QED
    <3>1. ~(k.st = "open") /\ ~(w.kern[c].st = "open")
      BY <2>4
    <3>2. Len(k.toCli) <= SockSize
      BY <2>3, <2>4
    <3>3. Sound([w EXCEPT !.kern[c] = k]) /\ LaterBut(w, [w EXCEPT !.kern[c] = k], x)
      BY <2>4, <3>1, <3>2, KernelChanges
    <3> QED
      BY <2>1, <3>3
<1>2. CASE free # {}
  <2>1. s \in Slots /\ ~Used(w, s)
    <3>1. free \in SUBSET Nat
      BY Numbered
    <3>2. s \in free
      BY <1>2, <3>1, LeastIs
    <3> QED
      BY <3>2
  <2>2. v = [cl |-> [w.cl EXCEPT ![s] = f], kern |-> [w.kern EXCEPT ![c] = o]]
    BY <1>2 DEF Adopt
  <2> HIDE DEF s
  <2>3. f \in Clients /\ f.conn = c /\ f.gen = w.cl[s].gen /\ Len(f.in) = 0 /\ Len(f.out) = 0
    BY <2>1, Fields DEF Slot, Clients
  <2>4. o \in Kernels /\ o.st = "open" /\ o.toCli = w.kern[c].toCli
    BY <1>0 DEF Kernels
  <2> HIDE DEF f, o, v
  <2>5. v.cl = [w.cl EXCEPT ![s] = f] /\ v.kern = [w.kern EXCEPT ![c] = o] /\ v \in Worlds
    BY <2>1, <2>2, <2>3, <2>4, Fields DEF Worlds
  <2>6. \A t \in Slots : v.cl[t] = IF t = s THEN f ELSE w.cl[t]
    BY <2>1, <2>5, Fields
  <2>7. \A b \in Conns : v.kern[b] = IF b = c THEN o ELSE w.kern[b]
    BY <2>1, <2>5, Fields
  <2>8. ASSUME NEW t \in Slots, Used(w, t) PROVE w.cl[t].conn # c /\ w.cl[t].conn \in Conns /\ t # s
    BY <2>1, <2>8, Fields DEF Sound, OneToOne, Peer
  <2>9. OneToOne(v)
    <3>1. ASSUME NEW t \in Slots, Used(v, t) PROVE Peer(v, t).st = "open"
      <4>1. CASE t = s
        BY <2>3, <2>4, <2>6, <2>7, <4>1 DEF Peer
      <4>2. CASE t # s
        <5>1. v.cl[t] = w.cl[t] /\ Used(w, t)
          BY <2>6, <3>1, <4>2 DEF Used
        <5>2. w.cl[t].conn # c /\ w.cl[t].conn \in Conns
          BY <2>8, <5>1
        <5> QED
          BY <2>7, <5>1, <5>2 DEF Peer, Sound, OneToOne
      <4> QED
        BY <4>1, <4>2
    <3>2. ASSUME NEW t \in Slots, NEW u \in Slots, Used(v, t), v.cl[t].conn = v.cl[u].conn
          PROVE  t = u
      <4>1. \A y \in Slots : y # s /\ Used(v, y) => Used(w, y) /\ v.cl[y].conn = w.cl[y].conn
                                                    /\ v.cl[y].conn # c
        BY <2>6, <2>8 DEF Used
      <4>2. Used(v, u)
        BY <3>2 DEF Used
      <4>3. v.cl[s].conn = c
        BY <2>1, <2>3, <2>6
      <4>4. CASE t = s \/ u = s
        BY <3>2, <4>1, <4>2, <4>3, <4>4
      <4>5. CASE t # s /\ u # s
        BY <3>2, <4>1, <4>2, <4>5 DEF Sound, OneToOne
      <4> QED
        BY <4>4, <4>5
    <3>3. ASSUME NEW b \in Conns, v.kern[b].st = "open" PROVE \E t \in Slots : v.cl[t].conn = b
      <4>1. CASE b = c
        BY <2>1, <2>3, <2>6, <4>1
      <4>2. CASE b # c
        <5>1. PICK t \in Slots : w.cl[t].conn = b
          BY <2>7, <3>3, <4>2 DEF Sound, OneToOne
        <5>2. Used(w, t)
          BY <5>1, Numbered DEF Used
        <5> QED
          BY <2>6, <2>8, <5>1, <5>2
      <4> QED
        BY <4>1, <4>2
    <3> QED
      BY <3>1, <3>2, <3>3 DEF OneToOne
  <2>10. WithinSizes(v)
    <3>1. \A t \in Slots : Len(v.cl[t].in) <= LineMax /\ Len(v.cl[t].out) <= OutqSize
      BY <2>3, <2>6, Sizes DEF Sound, WithinSizes
    <3>2. \A b \in Conns : Len(v.kern[b].toCli) <= SockSize
      BY <2>4, <2>7 DEF Sound, WithinSizes
    <3> QED
      BY <3>1, <3>2 DEF WithinSizes
  <2>11. LaterBut(w, v, x)
    <3> SUFFICES ASSUME NEW t \in Slots
                 PROVE  /\ w.cl[t].gen <= v.cl[t].gen
                        /\ Used(w, t) => v.cl[t] = w.cl[t]
      BY DEF LaterBut
    <3>1. w.cl[t].gen \in Nat
      BY DEF Sound, Worlds, Clients
    <3> QED
      BY <2>1, <2>3, <2>6, <3>1
  <2> QED
    BY <2>5, <2>9, <2>10, <2>11 DEF v, Sound
<1> QED
  BY <1>1, <1>2

-----------------------------------------------------------------------------
(* The steps.                                                                 *)

\* What is said of the entries outlives any operation.
LEMMA EntriesKept ==
    ASSUME NEW w, NEW v, Sound(w), Sound(v), NEW x, LaterBut(w, v, x),
           NEW q \in Places, EntryIsKnown(q, w)
    PROVE  EntryIsKnown(q, v)
<1> SUFFICES ASSUME NEW e \in q.entries
             PROVE  e.gen <= v.cl[e.slot].gen /\ (e.gen = v.cl[e.slot].gen => Used(v, e.slot))
  BY DEF EntryIsKnown
<1>1. e.slot \in Slots /\ e.gen \in Nat
  BY DEF Places, Entries
<1>2. w.cl[e.slot].gen \in Nat /\ v.cl[e.slot].gen \in Nat
  BY <1>1 DEF Sound, Worlds, Clients
<1>3. e.gen <= w.cl[e.slot].gen /\ w.cl[e.slot].gen <= v.cl[e.slot].gen
  BY <1>1 DEF EntryIsKnown, LaterBut
<1>4. ASSUME e.gen = v.cl[e.slot].gen PROVE Used(v, e.slot)
  <2>1. e.gen = w.cl[e.slot].gen /\ w.cl[e.slot].gen = v.cl[e.slot].gen
    BY <1>1, <1>2, <1>3, <1>4
  <2> QED
    BY <1>1, <2>1 DEF EntryIsKnown, LaterBut, Used
<1> QED
  BY <1>1, <1>2, <1>3, <1>4

\* So does what is said of the scan, as long as nothing else reads into its slot.
LEMMA ScanKept ==
    ASSUME NEW w, NEW v, Sound(w), Sound(v), Later(w, v),
           NEW q \in Places, EntryIsKnown(q, w), ScanIsKnown(q, w)
    PROVE  EntryIsKnown(q, v) /\ ScanIsKnown(q, v)
<1>1. EntryIsKnown(q, v)
  BY EntriesKept DEF Later
<1>2. ASSUME q.at = "lines"
      PROVE  /\ q.slot \in Slots /\ q.gen <= v.cl[q.slot].gen
             /\ q.gen = v.cl[q.slot].gen => Used(v, q.slot) /\ q.start <= Len(v.cl[q.slot].in)
  <2>1. q.slot \in Slots /\ q.slot # 0 /\ q.gen \in Nat
    BY <1>2, Numbered DEF ScanIsKnown, Places
  <2>2. w.cl[q.slot].gen \in Nat /\ v.cl[q.slot].gen \in Nat
    BY <2>1 DEF Sound, Worlds, Clients
  <2>3. q.gen <= w.cl[q.slot].gen /\ w.cl[q.slot].gen <= v.cl[q.slot].gen
    BY <1>2, <2>1 DEF ScanIsKnown, Later, LaterBut
  <2>4. ASSUME q.gen = v.cl[q.slot].gen
        PROVE  Used(v, q.slot) /\ q.start <= Len(v.cl[q.slot].in)
    <3>1. q.gen = w.cl[q.slot].gen /\ w.cl[q.slot].gen = v.cl[q.slot].gen
      BY <2>1, <2>2, <2>3, <2>4
    <3>2. Used(w, q.slot) /\ q.start <= Len(w.cl[q.slot].in)
      BY <1>2, <3>1 DEF ScanIsKnown
    <3>3. v.cl[q.slot].conn = w.cl[q.slot].conn /\ v.cl[q.slot].in = w.cl[q.slot].in
      BY <2>1, <3>1, <3>2 DEF Later, LaterBut
    <3> QED
      BY <3>2, <3>3 DEF Used
  <2> QED
    BY <2>1, <2>2, <2>3, <2>4
<1> QED
  BY <1>1, <1>2 DEF ScanIsKnown

\* What the variables become.
LEMMA BecomesIs == ASSUME NEW v, Sound(v), Becomes(v) PROVE World' = v
  BY DEF Becomes, World, Sound, Worlds

\* A bound is spent.
LEMMA SpendTyped ==
    ASSUME NEW what \in {"conns", "asks", "says", "closes"}, IInv, Spend(what)
    PROVE  n' \in [conns : Nat, asks : Nat, says : Nat, closes : Nat]
<1>1. n[what] \in Nat /\ n[what] - 1 \in Nat
  BY DEF IInv, Spend
<1> DEFINE k == n[what] - 1
<1>2. n' = [n EXCEPT ![what] = k]
  BY DEF Spend
<1> HIDE DEF k
<1> QED
  BY <1>1, <1>2 DEF IInv, k

\* An operation outside the scan's own reading.
LEMMA OperationKeeps ==
    ASSUME NEW v, IInv, Sound(v), Later(World, v), Becomes(v), pc' = pc,
           n' \in [conns : Nat, asks : Nat, says : Nat, closes : Nat]
    PROVE  IInv'
<1>1. World' = v
  BY BecomesIs
<1>2. EntryIsKnown(pc, v) /\ ScanIsKnown(pc, v)
  BY ScanKept DEF IInv
<1>3. EntryIsKnown(pc, World') /\ ScanIsKnown(pc, World') /\ Sound(World')
  BY <1>1, <1>2
<1> HIDE DEF World
<1> QED
  BY <1>3 DEF IInv, EntryIsKnown, ScanIsKnown, Sound, Worlds, OneToOne, WithinSizes, Used, Peer

\* A step of a peer changes its side of the connection.
LEMMA PeerKeeps ==
    ASSUME NEW c \in Conns, NEW k \in Kernels, IInv, kern' = [kern EXCEPT ![c] = k],
           k.st = "open" <=> kern[c].st = "open", Len(k.toCli) <= SockSize,
           UNCHANGED <<cl, pc>>, n' \in [conns : Nat, asks : Nat, says : Nat, closes : Nat]
    PROVE  IInv'
<1> DEFINE v == [World EXCEPT !.kern[c] = k]
<1>1. World.kern = kern /\ World.cl = cl /\ v.kern = [kern EXCEPT ![c] = k] /\ v.cl = cl
  BY DEF World
<1>2. Sound(World)
  BY DEF IInv
<1>3. Sound(v) /\ LaterBut(World, v, 0)
  BY <1>1, <1>2, KernelChanges
<1>4. Becomes(v)
  BY <1>1 DEF Becomes
<1> HIDE DEF v
<1> QED
  BY <1>3, <1>4, OperationKeeps DEF Later

\* What the invariant says of a connection's side.
LEMMA KernTyped == ASSUME IInv, NEW c \in Conns
                   PROVE  kern[c] \in Kernels /\ Len(kern[c].toCli) <= SockSize
  BY DEF IInv, Sound, Worlds, World, WithinSizes

\* A connection that waits to be accepted is not in the table.
LEMMA ConnectsKeeps == ASSUME IInv, NEW c \in Conns, Connects(c) PROVE IInv'
<1> DEFINE k == [kern[c] EXCEPT !.st = "waits"]
<1>1. kern[c] \in Kernels /\ Len(kern[c].toCli) <= SockSize /\ kern[c].st = "none"
  BY KernTyped DEF Connects, Next1
<1>2. k \in Kernels /\ k.st = "waits" /\ k.toCli = kern[c].toCli
  BY <1>1 DEF Kernels
<1>3. kern' = [kern EXCEPT ![c] = k] /\ UNCHANGED <<cl, pc>> /\ Spend("conns")
  BY DEF Connects
<1>4. n' \in [conns : Nat, asks : Nat, says : Nat, closes : Nat]
  BY <1>3, SpendTyped
<1> HIDE DEF k
<1> QED
  BY <1>1, <1>2, <1>3, <1>4, PeerKeeps

\* A request goes to the socket, whose input has no bound of the daemon's.
LEMMA AsksKeeps == ASSUME IInv, NEW c \in Conns, Asks(c) PROVE IInv'
<1>1. PICK long \in BOOLEAN : kern' = [kern EXCEPT ![c].toSrv = @ \o Request(n.asks, long)]
  BY DEF Asks
<1> DEFINE k == [kern[c] EXCEPT !.toSrv = @ \o Request(n.asks, long)]
<1>2. kern[c] \in Kernels /\ Len(kern[c].toCli) <= SockSize
  BY KernTyped
<1>3. n.asks \in Int
  BY DEF IInv
<1>4. kern[c].toSrv \o Request(n.asks, long) \in Seq(InBytes)
  BY <1>2, <1>3, RequestIs, Joined DEF Kernels
<1>5. k \in Kernels /\ k.st = kern[c].st /\ k.toCli = kern[c].toCli
  BY <1>2, <1>4 DEF Kernels
<1>6. kern' = [kern EXCEPT ![c] = k] /\ UNCHANGED <<cl, pc>> /\ Spend("asks")
  BY <1>1 DEF Asks
<1>7. n' \in [conns : Nat, asks : Nat, says : Nat, closes : Nat]
  BY <1>6, SpendTyped
<1> HIDE DEF k
<1> QED
  BY <1>2, <1>5, <1>6, <1>7, PeerKeeps

\* The peer reads: the socket holds a byte less.
LEMMA ReadsKeeps == ASSUME IInv, NEW c \in Conns, Reads(c) PROVE IInv'
<1> DEFINE b == Head(kern[c].toCli)
           rest == Tail(kern[c].toCli)
           said == IF b.end THEN b.l ELSE kern[c].got
           k == [kern[c] EXCEPT !.toCli = rest, !.got = said]
<1>1. kern[c] \in Kernels /\ Len(kern[c].toCli) <= SockSize /\ kern[c].toCli # <<>>
  BY KernTyped DEF Reads
<1>2. kern[c].toCli \in Seq(OutBytes)
  BY <1>1 DEF Kernels
<1>3. b \in OutBytes /\ rest \in Seq(OutBytes) /\ Len(rest) = Len(kern[c].toCli) - 1
      /\ Len(kern[c].toCli) \in Nat
  BY <1>1, <1>2
<1>4. Len(rest) <= SockSize
  <2> HIDE DEF rest
  <2> QED
    BY <1>1, <1>3, Sizes
<1>5. b.l \in SaidLines /\ kern[c].got \in SaidLines
  <2> HIDE DEF b
  <2> QED
    BY <1>1, <1>3 DEF OutBytes, Kernels
<1>6. said \in SaidLines
  BY <1>5
<1>7. k \in Kernels /\ k.st = kern[c].st /\ k.toCli = rest
  <2> HIDE DEF said, rest
  <2> QED
    BY <1>1, <1>3, <1>6 DEF Kernels
<1>8. kern' = [kern EXCEPT ![c] = k] /\ UNCHANGED <<cl, pc>> /\ n' = n
  BY DEF Reads
<1>9. n' \in [conns : Nat, asks : Nat, says : Nat, closes : Nat]
  BY <1>8 DEF IInv
<1> HIDE DEF k, rest
<1> QED
  BY <1>4, <1>7, <1>8, <1>9, PeerKeeps

\* A peer that hangs up keeps its slot until the daemon notices.
LEMMA ClosesKeeps == ASSUME IInv, NEW c \in Conns, Closes(c) PROVE IInv'
<1> DEFINE k == [kern[c] EXCEPT !.hung = TRUE, !.toCli = <<>>]
<1>1. kern[c] \in Kernels
  BY KernTyped
<1>2. <<>> \in Seq(OutBytes) /\ Len(<<>>) <= SockSize
  BY Sizes
<1>3. k \in Kernels /\ k.st = kern[c].st /\ k.toCli = <<>>
  BY <1>1, <1>2 DEF Kernels
<1>4. kern' = [kern EXCEPT ![c] = k] /\ UNCHANGED <<cl, pc>> /\ Spend("closes")
  BY DEF Closes
<1>5. n' \in [conns : Nat, asks : Nat, says : Nat, closes : Nat]
  BY <1>4, SpendTyped
<1> HIDE DEF k
<1> QED
  BY <1>2, <1>3, <1>4, <1>5, PeerKeeps

\* The daemon's own calls, wherever linesrv_handle is.
LEMMA SaysKeeps == ASSUME IInv, NEW s \in Slots, Says(s) PROVE IInv'
<1>1. Sound(World) /\ pc' = pc /\ Spend("says") /\ n.says \in Int
  BY DEF IInv, Says
<1>2. Line("must", n.says) \in SaidLines /\ Line("lossy", n.says) \in SaidLines
  BY <1>1 DEF Line, SaidLines
<1>3. n' \in [conns : Nat, asks : Nat, says : Nat, closes : Nat]
  BY <1>1, SpendTyped
<1>4. CASE Becomes(Send(World, s, Line("must", n.says)))
  <2> DEFINE v == Send(World, s, Line("must", n.says))
  <2>1. Sound(v) /\ LaterBut(World, v, 0)
    BY <1>1, <1>2, SendSound
  <2> HIDE DEF v
  <2>2. Becomes(v)
    BY <1>4 DEF v
  <2> QED
    BY <1>1, <1>3, <2>1, <2>2, OperationKeeps DEF Later
<1>5. CASE Becomes(SendLossy(World, s, Line("lossy", n.says)))
  <2> DEFINE v == SendLossy(World, s, Line("lossy", n.says))
  <2>1. Sound(v) /\ LaterBut(World, v, 0)
    BY <1>1, <1>2, SendLossySound
  <2> HIDE DEF v
  <2>2. Becomes(v)
    BY <1>5 DEF v
  <2> QED
    BY <1>1, <1>3, <2>1, <2>2, OperationKeeps DEF Later
<1> QED
  BY <1>4, <1>5 DEF Says

\* linesrv_drop wherever linesrv_handle is: the scan of that client is stale from then on.
LEMMA DropsKeeps == ASSUME IInv, NEW s \in Slots, Drops(s) PROVE IInv'
<1> DEFINE v == Drop(World, s, "drop")
<1>1. Sound(World) /\ Used(World, s) /\ pc' = pc /\ Spend("closes") /\ Becomes(v)
  BY DEF IInv, Drops
<1>2. n' \in [conns : Nat, asks : Nat, says : Nat, closes : Nat]
  BY <1>1, SpendTyped
<1>3. Sound(v) /\ LaterBut(World, v, 0)
  BY <1>1, DropSound
<1> HIDE DEF v
<1> QED
  BY <1>1, <1>2, <1>3, OperationKeeps DEF Later

\* linesrv_adopt in a callback: a slot that the scan was in gets another generation's client.
LEMMA AdoptsKeeps == ASSUME IInv, NEW c \in Conns, Adopts(c) PROVE IInv'
<1> DEFINE v == Adopt(World, c)
<1>1. Sound(World) /\ World.kern[c].st \in {"none", "waits"} /\ pc' = pc /\ Spend("conns") /\ Becomes(v)
  BY DEF IInv, Adopts, Next1, World
<1>2. n' \in [conns : Nat, asks : Nat, says : Nat, closes : Nat]
  BY <1>1, SpendTyped
<1>3. Sound(v) /\ LaterBut(World, v, 0)
  BY <1>1, AdoptSound
<1> HIDE DEF v
<1> QED
  BY <1>1, <1>2, <1>3, OperationKeeps DEF Later

-----------------------------------------------------------------------------
(* poll() and linesrv_handle.                                                 *)

\* linesrv_init: an empty table.
LEMMA InitHolds == ASSUME Init PROVE IInv
<1>1. <<>> \in Seq(InBytes) /\ <<>> \in Seq(OutBytes) /\ Len(<<>>) = 0
  OBVIOUS
<1>2. Slot(0, 0) \in Clients /\ Slot(0, 0).conn = 0 /\ Slot(0, 0).in = <<>> /\ Slot(0, 0).out = <<>>
  BY <1>1 DEF Slot, Clients
<1> DEFINE k == [st |-> "none", hung |-> FALSE, toSrv |-> <<>>, toCli |-> <<>>, did |-> 0,
                 got |-> TooMany]
<1>3. TooMany \in SaidLines
  BY DEF TooMany, Line, SaidLines
<1>4. k \in Kernels /\ k.st = "none" /\ k.toCli = <<>>
  BY <1>1, <1>3 DEF Kernels
<1>5. cl = [s \in Slots |-> Slot(0, 0)] /\ kern = [c \in Conns |-> k]
  BY DEF Init
<1> HIDE DEF k
<1>6. World \in Worlds
  BY <1>2, <1>4, <1>5 DEF World, Worlds
<1>7. OneToOne(World)
  BY <1>2, <1>4, <1>5 DEF World, OneToOne, Used
<1>8. WithinSizes(World)
  BY <1>1, <1>2, <1>4, <1>5, Sizes DEF World, WithinSizes
<1>9. pc \in Places /\ pc.at = "poll" /\ pc.entries = {}
  BY DEF Init, Places
<1>10. n \in [conns : Nat, asks : Nat, says : Nat, closes : Nat]
  BY LineSrvBounds DEF Init
<1> QED
  BY <1>6, <1>7, <1>8, <1>9, <1>10 DEF IInv, Sound, EntryIsKnown, ScanIsKnown

\* What linesrv_handle leaves behind when it goes on with the entries.
LEMMA HandleKeeps ==
    ASSUME NEW v, NEW x, IInv, Sound(v), LaterBut(World, v, x), Becomes(v), n' = n,
           pc' \in Places, pc'.at # "lines", pc'.entries \subseteq pc.entries
    PROVE  IInv'
<1>1. World' = v
  BY BecomesIs
<1>2. EntryIsKnown(pc, v)
  BY EntriesKept DEF IInv
<1>3. EntryIsKnown(pc', v) /\ ScanIsKnown(pc', v)
  BY <1>2 DEF EntryIsKnown, ScanIsKnown
<1>4. EntryIsKnown(pc', World') /\ ScanIsKnown(pc', World') /\ Sound(World')
  BY <1>1, <1>3
<1> HIDE DEF World
<1> QED
  BY <1>4 DEF IInv, EntryIsKnown, ScanIsKnown, Sound, Worlds, OneToOne, WithinSizes, Used, Peer

\* ... and when it has read something.
LEMMA ScanBegins ==
    ASSUME NEW v, NEW x, IInv, Sound(v), LaterBut(World, v, x), Becomes(v), n' = n,
           pc' \in Places, pc'.entries \subseteq pc.entries, ScanIsKnown(pc', v)
    PROVE  IInv'
<1>1. World' = v
  BY BecomesIs
<1>2. EntryIsKnown(pc, v)
  BY EntriesKept DEF IInv
<1>3. EntryIsKnown(pc', v)
  BY <1>2 DEF EntryIsKnown
<1>4. EntryIsKnown(pc', World') /\ ScanIsKnown(pc', World') /\ Sound(World')
  BY <1>1, <1>3
<1> HIDE DEF World
<1> QED
  BY <1>4 DEF IInv, EntryIsKnown, ScanIsKnown, Sound, Worlds, OneToOne, WithinSizes, Used, Peer

\* Nothing but pc has changed.
LEMMA WorldStays ==
    ASSUME IInv, UNCHANGED <<cl, kern>>
    PROVE  Becomes(World) /\ Sound(World) /\ \A x : LaterBut(World, World, x)
  BY LaterIsReflexive DEF IInv, Becomes, World

\* An entry of poll() names a used slot and its generation.
LEMMA PollEntryIs ==
    ASSUME IInv, NEW s \in Slots, Used(World, s)
    PROVE  PollEntry(s) \in Entries /\ PollEntry(s).slot = s /\ PollEntry(s).gen = cl[s].gen
<1>1. cl[s] \in Clients /\ Peer(World, s) \in Kernels
  BY Fields DEF IInv, World
<1>2. cl[s].gen \in Nat /\ Peer(World, s).hung \in BOOLEAN
  BY <1>1 DEF Clients, Kernels
<1> QED
  BY <1>2 DEF PollEntry, Entries

\* poll() itself changes nothing but what there is to handle.
LEMMA PollKeeps == ASSUME IInv, Poll PROVE IInv'
<1> DEFINE ready == {e \in {PollEntry(s) : s \in {y \in Slots : Used(World, y)}} : e.in \/ e.out}
           accept == \E c \in Conns : kern[c].st = "waits"
<1>1. pc' = [pc EXCEPT !.at = "entries", !.entries = ready, !.accept = accept]
      /\ UNCHANGED <<cl, kern, n>> /\ pc \in Places
  BY DEF Poll, IInv
<1>2. ready \in SUBSET Entries
  BY PollEntryIs
<1>3. ASSUME NEW e \in ready
      PROVE  /\ e.gen <= World.cl[e.slot].gen
             /\ e.gen = World.cl[e.slot].gen => Used(World, e.slot)
  <2>1. PICK s \in Slots : Used(World, s) /\ e = PollEntry(s)
    BY <1>3
  <2>2. e.slot = s /\ e.gen = World.cl[s].gen
    BY <2>1, PollEntryIs DEF World
  <2>3. World.cl[s].gen \in Nat
    BY DEF IInv, Sound, Worlds, Clients
  <2> QED
    BY <2>1, <2>2, <2>3
<1> HIDE DEF ready, accept
<1>4. accept \in BOOLEAN
  BY DEF accept
<1>5. pc' \in Places /\ pc'.at = "entries" /\ pc'.entries = ready
  BY <1>1, <1>2, <1>4 DEF Places
<1>6. World' = World
  BY <1>1 DEF World
<1>7. EntryIsKnown(pc', World') /\ ScanIsKnown(pc', World') /\ Sound(World')
  BY <1>3, <1>5, <1>6 DEF EntryIsKnown, ScanIsKnown, IInv
<1>8. n' \in [conns : Nat, asks : Nat, says : Nat, closes : Nat]
  BY <1>1 DEF IInv
<1> HIDE DEF World
<1> QED
  BY <1>5, <1>7, <1>8 DEF IInv, EntryIsKnown, ScanIsKnown, Sound, Worlds, OneToOne, WithinSizes, Used, Peer

\* client_input's read: what fits of what was sent.
LEMMA InputSound ==
    ASSUME NEW w, Sound(w), NEW s \in Slots, Used(w, s),
           NEW i \in Nat, i <= Len(Peer(w, s).toSrv), i <= LineMax - Len(w.cl[s].in)
    PROVE  LET v == [cl |-> [w.cl EXCEPT ![s].in = @ \o First(Peer(w, s).toSrv, i)],
                     kern |-> [w.kern EXCEPT ![w.cl[s].conn].toSrv = After(@, i)]]
           IN  Sound(v) /\ LaterBut(w, v, s) /\ Used(v, s)
<1> DEFINE d == w.cl[s].conn
           sent == w.kern[d].toSrv
           in == w.cl[s].in
           more == in \o First(sent, i)
           c == [w.cl[s] EXCEPT !.in = more]
           k == [w.kern[d] EXCEPT !.toSrv = After(sent, i)]
           u == [w EXCEPT !.cl[s] = c]
           v == [u EXCEPT !.kern[d] = k]
<1>1. d \in Conns /\ w.kern[d] \in Kernels /\ w.cl[s] \in Clients
  BY Fields DEF Peer
<1>2. sent \in Seq(InBytes) /\ in \in Seq(InBytes) /\ Len(in) \in Nat
  BY <1>1 DEF Clients, Kernels
<1>3. First(sent, i) \in Seq(InBytes) /\ Len(First(sent, i)) = i /\ After(sent, i) \in Seq(InBytes)
  <2>1. i <= Len(sent)
    BY DEF Peer
  <2> HIDE DEF sent
  <2> QED
    BY <1>2, <2>1, Parts
<1>4. more \in Seq(InBytes) /\ Len(more) = Len(in) + i
  <2> HIDE DEF in, sent
  <2> QED
    BY <1>2, <1>3, Joined
<1>5. Len(more) <= LineMax
  <2>1. i <= LineMax - Len(in)
    OBVIOUS
  <2> HIDE DEF in, more
  <2> QED
    BY <1>2, <1>4, <2>1, Sizes
<1> HIDE DEF more
<1>6. c \in Clients /\ c.conn = w.cl[s].conn /\ c.gen = w.cl[s].gen /\ c.in = more
      /\ c.out = w.cl[s].out
  BY <1>1, <1>4 DEF Clients
<1>7. k \in Kernels /\ k.st = w.kern[d].st /\ k.toCli = w.kern[d].toCli
  <2> HIDE DEF sent
  <2> QED
    BY <1>1, <1>3 DEF Kernels
<1>8. Len(w.cl[s].out) <= OutqSize /\ Len(w.kern[d].toCli) <= SockSize
  BY <1>1 DEF Sound, WithinSizes
<1>9. Sound(u) /\ LaterBut(w, u, s)
  <2>1. Len(c.in) <= LineMax /\ Len(c.out) <= OutqSize
    BY <1>5, <1>6, <1>8
  <2> HIDE DEF c
  <2> QED
    BY <1>6, <2>1, ClientChanges
<1>10. u.kern = w.kern /\ u.cl = [w.cl EXCEPT ![s] = c]
  BY Fields
<1>11. Sound(v) /\ LaterBut(u, v, s)
  <2>1. (k.st = "open" <=> u.kern[d].st = "open") /\ Len(k.toCli) <= SockSize
    BY <1>7, <1>8, <1>10
  <2> HIDE DEF k, u, d
  <2> QED
    BY <1>1, <1>7, <1>9, <2>1, KernelChanges
<1>12. v = [cl |-> [w.cl EXCEPT ![s].in = @ \o First(Peer(w, s).toSrv, i)],
            kern |-> [w.kern EXCEPT ![w.cl[s].conn].toSrv = After(@, i)]]
  <2>1. w = [cl |-> w.cl, kern |-> w.kern]
    BY Fields
  <2>2. [w.cl EXCEPT ![s].in = @ \o First(Peer(w, s).toSrv, i)] = [w.cl EXCEPT ![s] = c]
    BY DEF Peer, more
  <2>3. [w.kern EXCEPT ![w.cl[s].conn].toSrv = After(@, i)] = [w.kern EXCEPT ![d] = k]
    OBVIOUS
  <2> HIDE DEF c, k, d
  <2>4. u = [cl |-> [w.cl EXCEPT ![s] = c], kern |-> w.kern]
    BY <2>1
  <2> HIDE DEF u
  <2>5. v = [cl |-> [w.cl EXCEPT ![s] = c], kern |-> [w.kern EXCEPT ![d] = k]]
    BY <2>4
  <2> HIDE DEF v
  <2> QED
    BY <2>2, <2>3, <2>5
<1>13. v.cl[s].conn = w.cl[s].conn
  <2>1. v.cl = u.cl
    BY <1>10, <1>9 DEF Sound, Worlds
  <2> HIDE DEF v, u
  <2> QED
    BY <1>6, <1>10, <2>1, Fields
<1>14. LaterBut(w, v, s)
  <2> HIDE DEF u, v
  <2> QED
    BY <1>9, <1>11, LaterIsTransitive
<1> HIDE DEF v
<1> QED
  BY <1>11, <1>12, <1>13, <1>14 DEF Used

\* linesrv_handle's loop body: a stale entry is passed over, a known one flushed and read.
LEMMA EntryKeeps ==
    ASSUME IInv, UNCHANGED n, NEW e \in pc.entries, EntryOf(e), pc.at = "entries"
    PROVE  IInv'
<1> DEFINE s == e.slot
           stale == ~Used(World, s) \/ cl[s].gen # e.gen
           w == IF ~stale /\ e.out THEN Flush(World, s) ELSE World
           sent == Peer(w, s).toSrv
           room == LineMax - Len(w.cl[s].in)
           done == [pc EXCEPT !.entries = @ \ {e}]
<1>1. s \in Slots /\ pc \in Places /\ Sound(World)
  BY DEF IInv, Places, Entries
<1>2. done \in Places /\ done.at = "entries" /\ done.entries \subseteq pc.entries
  BY <1>1 DEF Places
<1>3. Sound(w) /\ LaterBut(World, w, s)
  <2>1. CASE ~stale /\ e.out
    <3>1. w = Flush(World, s) /\ Used(World, s)
      BY <2>1
    <3> HIDE DEF w
    <3> QED
      BY <1>1, <3>1, FlushSound
  <2>2. CASE ~(~stale /\ e.out)
    BY <1>1, <2>2, LaterIsReflexive
  <2> QED
    BY <2>1, <2>2
<1>4. \/ Becomes(w) /\ pc' = done
      \/ Used(w, s) /\ Becomes(Drop(w, s, "eof")) /\ pc' = done
      \/ /\ Used(w, s)
         /\ \E k \in 1 .. Least({room, Len(sent)}) :
              /\ Becomes([cl |-> [w.cl EXCEPT ![s].in = @ \o First(sent, k)],
                          kern |-> [w.kern EXCEPT ![w.cl[s].conn].toSrv = After(@, k)]])
              /\ pc' = [done EXCEPT !.at = "lines", !.slot = s, !.start = 0, !.gen = cl[s].gen]
  BY Zenon DEF EntryOf
<1>5. CASE Becomes(w) /\ pc' = done
  <2> HIDE DEF w, done
  <2> QED
    BY <1>2, <1>3, <1>5, HandleKeeps
<1>6. CASE Used(w, s) /\ Becomes(Drop(w, s, "eof")) /\ pc' = done
  <2> DEFINE v == Drop(w, s, "eof")
  <2>1. Becomes(v)
    BY <1>6
  <2> HIDE DEF w, done
  <2>2. Sound(v) /\ LaterBut(w, v, s)
    BY <1>1, <1>3, <1>6, DropSound
  <2> HIDE DEF v
  <2>3. LaterBut(World, v, s)
    BY <1>1, <1>3, <2>2, LaterIsTransitive
  <2> QED
    BY <1>2, <1>6, <2>1, <2>2, <2>3, HandleKeeps
<1>7. ASSUME Used(w, s),
             NEW k \in 1 .. Least({room, Len(sent)}),
             Becomes([cl |-> [w.cl EXCEPT ![s].in = @ \o First(sent, k)],
                      kern |-> [w.kern EXCEPT ![w.cl[s].conn].toSrv = After(@, k)]]),
             pc' = [done EXCEPT !.at = "lines", !.slot = s, !.start = 0, !.gen = cl[s].gen]
      PROVE  IInv'
  <2> DEFINE v == [cl |-> [w.cl EXCEPT ![s].in = @ \o First(Peer(w, s).toSrv, k)],
                   kern |-> [w.kern EXCEPT ![w.cl[s].conn].toSrv = After(@, k)]]
             q == [done EXCEPT !.at = "lines", !.slot = s, !.start = 0, !.gen = cl[s].gen]
  <2>1. Becomes(v) /\ pc' = q
    BY <1>7
  <2> HIDE DEF w, done, s
  <2>2. Peer(w, s) \in Kernels /\ w.cl[s] \in Clients
    BY <1>1, <1>3, <1>7, Fields
  <2>3. Len(sent) \in Nat /\ Len(w.cl[s].in) \in Nat /\ Len(w.cl[s].in) <= LineMax
    BY <1>1, <1>3, <2>2 DEF Kernels, Clients, Sound, WithinSizes
  <2>4. room \in Nat
    BY <2>3, Sizes
  <2> HIDE DEF sent, room
  <2>5. k \in Nat /\ k <= room /\ k <= Len(sent)
    <3> DEFINE m == Least({room, Len(sent)})
    <3>1. m \in Nat /\ m <= room /\ m <= Len(sent)
      BY <2>3, <2>4, LesserIs
    <3>2. k \in 1 .. m
      OBVIOUS
    <3> HIDE DEF m
    <3> QED
      BY <2>3, <2>4, <3>1, <3>2
  <2>6. Sound(v) /\ LaterBut(w, v, s) /\ Used(v, s)
    BY <1>1, <1>3, <1>7, <2>5, InputSound DEF sent, room
  <2> HIDE DEF v
  <2>7. LaterBut(World, v, s)
    BY <1>1, <1>3, <2>6, LaterIsTransitive
  <2>8. cl[s].gen \in Nat /\ cl[s].gen <= v.cl[s].gen
    BY <1>1, <2>7 DEF Sound, Worlds, Clients, World, LaterBut
  <2>9. q \in Places /\ q.entries = done.entries /\ q.slot = s /\ q.gen = cl[s].gen /\ q.at = "lines"
        /\ q.start = 0
    BY <1>1, <1>2, <2>8 DEF Places
  <2>10. ScanIsKnown(q, v)
    <3>1. v.cl[s] \in Clients
      BY <1>1, <2>6, Fields
    <3>2. Len(v.cl[s].in) \in Nat
      BY <3>1 DEF Clients
    <3> QED
      BY <1>1, <2>6, <2>8, <2>9, <3>2 DEF ScanIsKnown
  <2> HIDE DEF q
  <2> QED
    BY <1>2, <2>1, <2>6, <2>7, <2>9, <2>10, ScanBegins
<1> HIDE DEF w, sent, room, done
<1> QED
  BY <1>4, <1>5, <1>6, <1>7

\* client_input's end: the rest of a line stays, or the line is too long.
LEMMA KeepSound ==
    ASSUME IInv, NEW s \in Slots, Used(World, s), pc.start <= Len(cl[s].in)
    PROVE  Sound(Keep(World, s)) /\ LaterBut(World, Keep(World, s), s)
<1> DEFINE rest == After(cl[s].in, pc.start)
           c1 == [cl[s] EXCEPT !.in = <<>>]
           c2 == [cl[s] EXCEPT !.in = <<>>, !.disc = TRUE]
           c3 == [cl[s] EXCEPT !.in = rest]
           u == [World EXCEPT !.cl[s] = c2]
<1>1. Sound(World) /\ World.cl = cl /\ cl[s] \in Clients /\ pc.start \in Nat
  BY Fields DEF IInv, World, Places
<1>2. Len(cl[s].in) <= LineMax /\ Len(cl[s].out) <= OutqSize
  BY <1>1 DEF Sound, WithinSizes
<1>3. <<>> \in Seq(InBytes) /\ Len(<<>>) <= LineMax
  BY Sizes
<1>4. cl[s].in \in Seq(InBytes) /\ Len(cl[s].in) \in Nat
  BY <1>1 DEF Clients
<1>5. rest \in Seq(InBytes) /\ Len(rest) = Len(cl[s].in) - pc.start
  BY <1>1, <1>4, Parts
<1>6. Len(rest) <= LineMax
  <2> HIDE DEF rest
  <2> QED
    BY <1>1, <1>2, <1>4, <1>5, Sizes
<1> HIDE DEF rest
<1>7. /\ c1 \in Clients /\ c1.conn = cl[s].conn /\ c1.gen = cl[s].gen /\ c1.in = <<>> /\ c1.out = cl[s].out
      /\ c2 \in Clients /\ c2.conn = cl[s].conn /\ c2.gen = cl[s].gen /\ c2.in = <<>> /\ c2.out = cl[s].out
      /\ c3 \in Clients /\ c3.conn = cl[s].conn /\ c3.gen = cl[s].gen /\ c3.in = rest /\ c3.out = cl[s].out
  BY <1>1, <1>3, <1>5 DEF Clients
<1>8. \/ Keep(World, s) = [World EXCEPT !.cl[s] = c1]
      \/ Keep(World, s) = Send(u, s, TooLong)
      \/ Keep(World, s) = [World EXCEPT !.cl[s] = c3]
  BY <1>1 DEF Keep, rest
<1> HIDE DEF c1, c2, c3
<1>9. CASE Keep(World, s) = [World EXCEPT !.cl[s] = c1]
  <2>1. /\ c1 \in Clients /\ c1.conn = World.cl[s].conn /\ c1.gen = World.cl[s].gen
        /\ Len(c1.in) <= LineMax /\ Len(c1.out) <= OutqSize
    BY <1>1, <1>2, <1>3, <1>7
  <2> HIDE DEF World
  <2>2. Sound([World EXCEPT !.cl[s] = c1]) /\ LaterBut(World, [World EXCEPT !.cl[s] = c1], s)
    BY <1>1, <2>1, ClientChanges
  <2> QED
    BY <1>9, <2>2
<1>10. CASE Keep(World, s) = [World EXCEPT !.cl[s] = c3]
  <2>1. /\ c3 \in Clients /\ c3.conn = World.cl[s].conn /\ c3.gen = World.cl[s].gen
        /\ Len(c3.in) <= LineMax /\ Len(c3.out) <= OutqSize
    BY <1>1, <1>2, <1>6, <1>7
  <2> HIDE DEF World
  <2>2. Sound([World EXCEPT !.cl[s] = c3]) /\ LaterBut(World, [World EXCEPT !.cl[s] = c3], s)
    BY <1>1, <2>1, ClientChanges
  <2> QED
    BY <1>10, <2>2
<1>11. CASE Keep(World, s) = Send(u, s, TooLong)
  <2>1. Sound(u) /\ LaterBut(World, u, s)
    BY <1>1, <1>2, <1>3, <1>7, ClientChanges
  <2>2. TooLong \in SaidLines
    BY DEF TooLong, Line, SaidLines
  <2> DEFINE v == Send(u, s, TooLong)
  <2> HIDE DEF u
  <2>3. Sound(v) /\ LaterBut(u, v, s)
    BY <2>1, <2>2, SendSound
  <2> HIDE DEF v
  <2>4. LaterBut(World, v, s)
    BY <1>1, <2>1, <2>3, LaterIsTransitive
  <2> QED
    BY <1>11, <2>3, <2>4 DEF v
<1> QED
  BY <1>8, <1>9, <1>10, <1>11

\* What linesrv_handle has next.
LEMMA NextEntryIs ==
    ASSUME IInv
    PROVE  NextEntry \in Places /\ NextEntry.at = "entries" /\ NextEntry.entries = pc.entries
  BY DEF NextEntry, IInv, Places

\* client_input's loop body: the next line begins after this one's end, within the buffer.
LEMMA LineKeeps == ASSUME IInv, LineStep PROVE IInv'
<1> DEFINE s == pc.slot
           in == cl[s].in
           ends == {j \in pc.start + 1 .. Len(in) : in[j].end}
           line == SubSeq(in, pc.start + 1, Least(ends))
           did == IF \A b \in 1 .. Len(line) : line[b].n = line[1].n THEN line[1].n ELSE 0
<1>1. pc.at = "lines" /\ n' = n /\ s \in Slots /\ pc \in Places /\ Sound(World)
  BY DEF LineStep, IInv, ScanIsKnown
<1>2. cl[s] \in Clients /\ World.cl = cl /\ World.kern = kern
  BY <1>1, Fields DEF World
<1>3. in \in Seq(InBytes) /\ Len(in) \in Nat /\ cl[s].gen \in Nat /\ pc.start \in Nat /\ pc.gen \in Nat
  BY <1>1, <1>2 DEF Clients, Places
<1>4. CASE ~GoesOn(s) /\ pc' = NextEntry /\ UNCHANGED <<cl, kern>>
  <2>1. Becomes(World) /\ LaterBut(World, World, s)
    BY <1>4, WorldStays
  <2> QED
    BY <1>1, <1>4, <2>1, NextEntryIs, HandleKeeps
<1>5. ASSUME GoesOn(s) PROVE Used(World, s) /\ pc.gen = cl[s].gen /\ pc.start <= Len(in)
  BY <1>1, <1>2, <1>5 DEF GoesOn, Used, IInv, ScanIsKnown
<1>6. CASE GoesOn(s) /\ Becomes(Keep(World, s)) /\ pc' = NextEntry
  <2> DEFINE v == Keep(World, s)
  <2>1. Sound(v) /\ LaterBut(World, v, s)
    BY <1>1, <1>5, <1>6, KeepSound
  <2>2. Becomes(v)
    BY <1>6
  <2> HIDE DEF v
  <2> QED
    BY <1>1, <1>6, <2>1, <2>2, NextEntryIs, HandleKeeps
<1>7. CASE /\ GoesOn(s) /\ ends # {} /\ pc' = [pc EXCEPT !.start = Least(ends)]
           /\ \/ cl' = [cl EXCEPT ![s].disc = FALSE] /\ UNCHANGED kern
              \/ kern' = [kern EXCEPT ![cl[s].conn].did = did] /\ UNCHANGED cl
  <2> DEFINE i == Least(ends)
             c == [cl[s] EXCEPT !.disc = FALSE]
             d == cl[s].conn
  <2>1. i \in ends
    <3>1. ends \in SUBSET Nat
      BY <1>3
    <3> HIDE DEF ends
    <3> QED
      BY <1>7, <3>1, LeastIs
  <2>2. i \in Nat /\ i >= pc.start + 1 /\ i <= Len(in)
    <3> HIDE DEF i, in
    <3> QED
      BY <1>3, <2>1
  <2>3. PICK v \in Worlds : Sound(v) /\ LaterBut(World, v, s) /\ Becomes(v) /\ v.cl[s].in = in
                            /\ v.cl[s].conn = cl[s].conn /\ v.cl[s].gen = cl[s].gen
    <3>1. CASE cl' = [cl EXCEPT ![s].disc = FALSE] /\ UNCHANGED kern
      <4> DEFINE v == [World EXCEPT !.cl[s] = c]
      <4>1. c \in Clients /\ c.conn = cl[s].conn /\ c.gen = cl[s].gen /\ c.in = in /\ c.out = cl[s].out
        BY <1>2 DEF Clients
      <4>2. v.cl = [cl EXCEPT ![s] = c] /\ v.kern = kern
        BY <1>2 DEF World
      <4>3. Becomes(v)
        BY <3>1, <4>2 DEF Becomes
      <4>4. v.cl[s] = c
        BY <1>1, <1>2, <4>2 DEF Sound, Worlds
      <4>5. Len(c.in) <= LineMax /\ Len(c.out) <= OutqSize
        BY <1>1, <1>2, <4>1 DEF Sound, WithinSizes
      <4> HIDE DEF c
      <4>6. Sound(v) /\ LaterBut(World, v, s)
        BY <1>1, <1>2, <4>1, <4>5, ClientChanges
      <4> HIDE DEF v
      <4> QED
        BY <4>1, <4>3, <4>4, <4>6 DEF Sound
    <3>2. CASE kern' = [kern EXCEPT ![cl[s].conn].did = did] /\ UNCHANGED cl
      <4> DEFINE k == [kern[d] EXCEPT !.did = did]
                 v == [World EXCEPT !.kern[d] = k]
      <4>1. d \in Conns /\ kern[d] \in Kernels
        BY <1>1, <1>2, <1>5, <1>7, Fields DEF Peer
      <4>2. did \in Int
        <5>1. line[1] = in[pc.start + 1]
          <6> DEFINE a == pc.start + 1
          <6>0. line = SubSeq(in, a, i)
            OBVIOUS
          <6>1. a \in Nat /\ a >= 1 /\ i <= Len(in) /\ a <= i
            <7> HIDE DEF line, i, in
            <7> QED
              BY <1>3, <2>2
          <6>2. SubSeq(in, a, i)[1] = in[a]
            <7> HIDE DEF a, i, in
            <7>1. a \in 1 .. Len(in) + 1 /\ i \in a - 1 .. Len(in)
              BY <1>3, <2>2, <6>1
            <7>2. 1 \in 1 .. i - a + 1 /\ a + 1 - 1 = a
              BY <2>2, <6>1
            <7>3. \A j \in 1 .. i - a + 1 : SubSeq(in, a, i)[j] = in[a + j - 1]
              BY <1>3, <7>1, SubSeqProperties
            <7> QED
              BY <7>2, <7>3
          <6> HIDE DEF line, a, in, i
          <6> QED
            BY <6>0, <6>1, <6>2 DEF a
        <5>2. pc.start + 1 \in 1 .. Len(in)
          <6> HIDE DEF i, in
          <6> QED
            BY <1>3, <2>2
        <5>3. in[pc.start + 1] \in InBytes
          BY <1>3, <5>2
        <5>4. line[1].n \in Int
          <6> HIDE DEF line, in
          <6> QED
            BY <5>1, <5>3 DEF InBytes
        <5> HIDE DEF line
        <5> QED
          BY <5>4
      <4> HIDE DEF did
      <4>3. k \in Kernels /\ k.st = kern[d].st /\ k.toCli = kern[d].toCli
        BY <4>1, <4>2 DEF Kernels
      <4>4. v.cl = cl /\ v.kern = [kern EXCEPT ![d] = k]
        BY <1>2 DEF World
      <4>5. Becomes(v)
        BY <3>2, <4>4 DEF Becomes
      <4>6. Len(k.toCli) <= SockSize
        BY <1>1, <1>2, <4>1, <4>3 DEF Sound, WithinSizes
      <4> HIDE DEF k, d
      <4>7. Sound(v) /\ LaterBut(World, v, s)
        BY <1>1, <1>2, <4>1, <4>3, <4>6, KernelChanges
      <4> HIDE DEF v
      <4> QED
        BY <4>4, <4>5, <4>7 DEF Sound
    <3> QED
      BY <1>7, <3>1, <3>2
  <2> DEFINE q == [pc EXCEPT !.start = i]
  <2> HIDE DEF i
  <2>4. q \in Places /\ q.at = "lines" /\ q.slot = s /\ q.gen = pc.gen /\ q.start = i
        /\ q.entries = pc.entries
    BY <1>1, <2>2 DEF Places
  <2>5. ScanIsKnown(q, v)
    <3>1. Used(World, s) /\ pc.gen = cl[s].gen
      BY <1>5, <1>7
    <3> QED
      BY <1>1, <1>2, <1>3, <2>2, <2>3, <2>4, <3>1 DEF ScanIsKnown, Used
  <2>6. pc' = q
    BY <1>7 DEF i
  <2> HIDE DEF q
  <2> QED
    BY <1>1, <2>3, <2>4, <2>5, <2>6, ScanBegins
<1>8. \/ ~GoesOn(s) /\ pc' = NextEntry /\ UNCHANGED <<cl, kern>>
      \/ GoesOn(s) /\ Becomes(Keep(World, s)) /\ pc' = NextEntry
      \/ /\ GoesOn(s) /\ ends # {} /\ pc' = [pc EXCEPT !.start = Least(ends)]
         /\ \/ cl' = [cl EXCEPT ![s].disc = FALSE] /\ UNCHANGED kern
            \/ kern' = [kern EXCEPT ![cl[s].conn].did = did] /\ UNCHANGED cl
  BY Zenon DEF LineStep
<1> HIDE DEF s, in, ends, line, did
<1> QED
  BY <1>4, <1>6, <1>7, <1>8

\* The accept loop: a connection is taken or refused, or poll() is next.
LEMMA AcceptKeeps == ASSUME IInv, Accept PROVE IInv'
<1> DEFINE waits == {c \in Conns : kern[c].st = "waits"}
           q == [NextEntry EXCEPT !.at = "poll", !.accept = FALSE]
<1>1. Sound(World) /\ pc \in Places /\ n' = n /\ pc.at = "entries" /\ World.kern = kern
  BY DEF IInv, Accept, World
<1>2. CASE waits # {} /\ Becomes(Adopt(World, Least(waits))) /\ UNCHANGED pc
  <2> DEFINE c == Least(waits)
             v == Adopt(World, c)
  <2>1. c \in waits
    <3>1. waits \in SUBSET Nat
      BY Numbered
    <3> HIDE DEF waits
    <3> QED
      BY <1>2, <3>1, LeastIs
  <2>2. Becomes(v)
    BY <1>2
  <2> HIDE DEF c
  <2>3. c \in Conns /\ World.kern[c].st \in {"none", "waits"}
    BY <1>1, <2>1
  <2>4. Sound(v) /\ LaterBut(World, v, 0)
    BY <1>1, <2>3, AdoptSound
  <2> HIDE DEF v
  <2> QED
    BY <1>1, <1>2, <2>2, <2>4, HandleKeeps
<1>3. CASE pc' = q /\ UNCHANGED <<cl, kern>>
  <2>1. q \in Places /\ q.at = "poll" /\ q.entries = pc.entries
    BY NextEntryIs DEF Places
  <2> HIDE DEF q
  <2> QED
    BY <1>1, <1>3, <2>1, WorldStays, HandleKeeps
<1>4. \/ waits # {} /\ Becomes(Adopt(World, Least(waits))) /\ UNCHANGED pc
      \/ pc' = q /\ UNCHANGED <<cl, kern>>
  BY Zenon DEF Accept
<1> HIDE DEF waits, q
<1> QED
  BY <1>2, <1>3, <1>4

-----------------------------------------------------------------------------
(* The theorems.                                                              *)

\* The inductive invariant: slots and open connections one to one, no buffer fuller than
\* its size, and a scan or an entry of poll() is of a client that is there, or is stale.
THEOREM SpecIInv == Spec => []IInv
<1>1. Init => IInv
  BY InitHolds
<1>2. IInv /\ [Next]_vars => IInv'
  <2> SUFFICES ASSUME IInv, [Next]_vars PROVE IInv'
    OBVIOUS
  <2>1. CASE Poll
    BY <2>1, PollKeeps
  <2>2. CASE Entry
    BY <2>2, EntryKeeps DEF Entry
  <2>3. CASE LineStep
    BY <2>3, LineKeeps
  <2>4. CASE Accept
    BY <2>4, AcceptKeeps
  <2>5. ASSUME NEW s \in Slots, Says(s) \/ Drops(s) PROVE IInv'
    BY <2>5, SaysKeeps, DropsKeeps
  <2>6. ASSUME NEW c \in Conns, Connects(c) \/ Asks(c) \/ Reads(c) \/ Closes(c) \/ Adopts(c)
        PROVE  IInv'
    BY <2>6, ConnectsKeeps, AsksKeeps, ReadsKeeps, ClosesKeeps, AdoptsKeeps
  <2>7. CASE UNCHANGED vars
    BY <2>7 DEF vars, IInv, World, EntryIsKnown, ScanIsKnown, Sound, Worlds, OneToOne, WithinSizes, Used, Peer
  <2> QED
    BY <2>1, <2>2, <2>3, <2>4, <2>5, <2>6, <2>7 DEF Next, Loop
<1> QED
  BY <1>1, <1>2, PTL DEF Spec

\* client_input's scan stays within what was read, for every number of slots and
\* every size of the buffers, whatever callbacks drop and adopt.
THEOREM SpecScanInBounds == Spec => []ScanInBounds
<1>1. IInv => ScanInBounds
  BY DEF IInv, ScanIsKnown, ScanInBounds, GoesOn, World
<1> QED
  BY <1>1, SpecIInv, PTL

=============================================================================
