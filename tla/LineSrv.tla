------------------------------ MODULE LineSrv ------------------------------
(***************************************************************************)
(* The socket library of the daemons, src/tools/common/linesrv.c: a           *)
(* listener, a fixed table of slots, for each a buffer of input and a bounded *)
(* queue of output, around poll().                                            *)
(*                                                                            *)
(* A request is bytes [n, long, end], a line said two bytes [l, end]: a send  *)
(* or a read may stop in the middle of either.  `cl` is the table (conn 0: a  *)
(* free slot), `kern` what the kernel and the peer hold of each connection    *)
(* (did, got: the last request handed over and the last line the peer read),  *)
(* `pc` where linesrv_handle is: at poll, entries (those still to come, in    *)
(* the order of their slots) or lines (of slot, from start, gen when it       *)
(* began); `n` what is left of the scenario.  Between any two steps the       *)
(* daemon may send, drop and adopt, as daemons do in callbacks and between    *)
(* poll() and linesrv_handle().  The descriptor that linesrv_handle compares  *)
(* next to gen is left out: gen changes whenever it does.                     *)
(***************************************************************************)
EXTENDS Integers, Sequences, FiniteSets

CONSTANTS
    Slots,      \* 1 .. max_clients
    Conns,      \* connections, ever: 1 .. N
    LineMax,    \* line_max
    LongSize,   \* bytes of a request that is too long
    OutqSize,   \* outq_size
    SockSize,   \* bytes a socket takes that its peer has not read
    Scenarios   \* how many connections, requests, lines said, closes by peers or the daemon

ASSUME LineSrvBounds ==
    /\ Slots = 1 .. Cardinality(Slots) /\ Conns = 1 .. Cardinality(Conns)
    /\ {LineMax, LongSize, OutqSize, SockSize} \subseteq Nat
    /\ LineMax >= 2 /\ LongSize > LineMax /\ OutqSize >= 4 /\ SockSize >= 2
    /\ Scenarios \subseteq [conns : Nat, asks : Nat, says : Nat, closes : Nat]

VARIABLES cl, kern, pc, n

vars == <<cl, kern, pc, n>>

Line(k, i) == [k |-> k, n |-> i]
TooLong == Line("long", 0)
TooMany == Line("many", 0)

\* What a line and a request are on the socket.
Bytes(l) == <<[l |-> l, end |-> FALSE], [l |-> l, end |-> TRUE]>>
Size(long) == IF long THEN LongSize ELSE 2
Request(i, long) == [j \in 1 .. Size(long) |-> [n |-> i, long |-> long, end |-> j = Size(long)]]

Least(S) == CHOOSE x \in S : \A y \in S : x <= y
First(s, i) == SubSeq(s, 1, i)
After(s, i) == SubSeq(s, i + 1, Len(s))

-----------------------------------------------------------------------------
(* The operations, on w = [cl, kern].                                         *)

World == [cl |-> cl, kern |-> kern]
Used(w, s) == w.cl[s].conn # 0
Peer(w, s) == w.kern[w.cl[s].conn]

\* struct linesrv_client, as linesrv_adopt and linesrv_drop leave it
Slot(conn, gen) ==
    [conn |-> conn, gen |-> gen, disc |-> FALSE, in |-> <<>>, out |-> <<>>, dropped |-> 0]

\* linesrv_drop; what the socket holds for the peer it can still read
Drop(w, s, why) ==
    [cl |-> [w.cl EXCEPT ![s] = Slot(0, @.gen + 1)],
     kern |-> [w.kern EXCEPT ![w.cl[s].conn] = [@ EXCEPT !.st = why, !.toSrv = <<>>]]]

\* linesrv_adopt
Adopt(w, c) ==
    LET free == {s \in Slots : ~Used(w, s)}
    IN  IF free = {}
        THEN [w EXCEPT !.kern[c].st = "refused", !.kern[c].toSrv = <<>>,
                       !.kern[c].toCli = IF w.kern[c].hung THEN <<>> ELSE Bytes(TooMany)]
        ELSE [cl |-> [w.cl EXCEPT ![Least(free)] = Slot(c, @.gen)],
              kern |-> [w.kern EXCEPT ![c].st = "open"]]

\* client_flush
Flush(w, s) ==
    LET room == SockSize - Len(Peer(w, s).toCli)
        out == w.cl[s].out
        k == Least({room, Len(out)})
    IN  IF out = <<>> THEN w
        ELSE IF Peer(w, s).hung THEN Drop(w, s, "eof")
        ELSE [cl |-> [w.cl EXCEPT ![s].out = After(out, k)],
              kern |-> [w.kern EXCEPT ![w.cl[s].conn].toCli = @ \o First(out, k)]]

\* linesrv_send, linesrv_sendf and client_overflow
Send(w, s, l) ==
    IF ~Used(w, s) THEN w
    ELSE IF Len(Bytes(l)) > OutqSize - Len(w.cl[s].out) THEN Drop(w, s, "full")
    ELSE Flush([w EXCEPT !.cl[s].out = @ \o Bytes(l)], s)

\* A mutant: only the line has to fit; the note that does not is forgotten.
SendLossyForgets(w, s, l) ==
    LET c == w.cl[s]
        note == IF c.dropped > 0 THEN Bytes(Line("note", c.dropped)) ELSE <<>>
        room == OutqSize - Len(c.out)
    IN  IF ~Used(w, s) THEN w
        ELSE IF Len(Bytes(l)) > room THEN [w EXCEPT !.cl[s].dropped = @ + 1]
        ELSE Flush([w EXCEPT !.cl[s].out =
                        @ \o (IF Len(note \o Bytes(l)) > room THEN <<>> ELSE note) \o Bytes(l),
                             !.cl[s].dropped = 0], s)

\* linesrv_send_lossy
SendLossy(w, s, l) ==
    LET c == w.cl[s]
        more == (IF c.dropped > 0 THEN Bytes(Line("note", c.dropped)) ELSE <<>>) \o Bytes(l)
    IN  IF ~Used(w, s) THEN w
        ELSE IF Len(more) > OutqSize - Len(c.out) THEN [w EXCEPT !.cl[s].dropped = @ + 1]
        ELSE Flush([w EXCEPT !.cl[s].out = @ \o more, !.cl[s].dropped = 0], s)

-----------------------------------------------------------------------------
Init == /\ cl = [s \in Slots |-> Slot(0, 0)]
        /\ kern = [c \in Conns |-> [st |-> "none", hung |-> FALSE, toSrv |-> <<>>, toCli |-> <<>>,
                                    did |-> 0, got |-> TooMany]]
        /\ pc = [at |-> "poll", slot |-> 0, start |-> 0, gen |-> 0, accept |-> FALSE, entries |-> {}]
        /\ n \in Scenarios

Becomes(w) == cl' = w.cl /\ kern' = w.kern

(* The peers: a process each.                                                 *)
Spend(what) == n[what] > 0 /\ n' = [n EXCEPT ![what] = @ - 1]
Next1(c) == kern[c].st = "none" /\ \A b \in Conns : b < c => kern[b].st # "none"

Connects(c) == /\ Next1(c) /\ Spend("conns") /\ kern' = [kern EXCEPT ![c].st = "waits"]
               /\ UNCHANGED <<cl, pc>>
Asks(c) == /\ kern[c].st \in {"waits", "open"} /\ ~kern[c].hung /\ Spend("asks")
           /\ \E long \in BOOLEAN :
                kern' = [kern EXCEPT ![c].toSrv = @ \o Request(n.asks, long)]
           /\ UNCHANGED <<cl, pc>>
Reads(c) ==
    /\ kern[c].toCli # <<>>
    /\ LET b == Head(kern[c].toCli)
       IN  kern' = [kern EXCEPT ![c].toCli = Tail(@), ![c].got = IF b.end THEN b.l ELSE @]
    /\ UNCHANGED <<cl, pc, n>>
Closes(c) == /\ kern[c].st \in {"waits", "open"} /\ ~kern[c].hung /\ Spend("closes")
             /\ kern' = [kern EXCEPT ![c].hung = TRUE, ![c].toCli = <<>>]
             /\ UNCHANGED <<cl, pc>>

(* The daemon's own calls: before poll(), before linesrv_handle, in callbacks. *)
Says(s) == /\ Used(World, s) /\ Spend("says")
           /\ \/ Becomes(Send(World, s, Line("must", n.says)))
              \/ Becomes(SendLossy(World, s, Line("lossy", n.says)))
           /\ UNCHANGED pc
Drops(s) == Used(World, s) /\ Spend("closes") /\ Becomes(Drop(World, s, "drop")) /\ UNCHANGED pc
Adopts(c) == /\ pc.at = "lines" /\ Next1(c) /\ Spend("conns")
             /\ Becomes(Adopt(World, c)) /\ UNCHANGED pc

-----------------------------------------------------------------------------
(* poll() and linesrv_handle                                                  *)

\* A mutant: POLLOUT is never asked for.
PollEntryIn(s) ==
    [slot |-> s, gen |-> cl[s].gen, out |-> FALSE,
     in |-> Peer(World, s).toSrv # <<>> \/ Peer(World, s).hung]

\* linesrv_pollfds for a client, and what poll() returns for it
PollEntry(s) ==
    [slot |-> s, gen |-> cl[s].gen,
     out |-> cl[s].out # <<>> /\ (Len(Peer(World, s).toCli) < SockSize \/ Peer(World, s).hung),
     in |-> Peer(World, s).toSrv # <<>> \/ Peer(World, s).hung]

\* It returns when there is something; entries it returns nothing for do nothing.
Poll ==
    /\ pc.at = "poll"
    /\ LET all == {PollEntry(s) : s \in {x \in Slots : Used(World, x)}}
           ready == {e \in all : e.in \/ e.out}
           accept == \E c \in Conns : kern[c].st = "waits"
       IN  /\ ready # {} \/ accept
           /\ pc' = [pc EXCEPT !.at = "entries", !.entries = ready, !.accept = accept]
    /\ UNCHANGED <<cl, kern, n>>

NextEntry == [pc EXCEPT !.at = "entries", !.slot = 0, !.start = 0, !.gen = 0]

\* linesrv_handle for one entry: flush, then the read of client_input
EntryOf(e) ==
    LET s == e.slot
        stale == ~Used(World, s) \/ cl[s].gen # e.gen
        w == IF ~stale /\ e.out THEN Flush(World, s) ELSE World
        room == LineMax - Len(w.cl[s].in)
        sent == Peer(w, s).toSrv
        done == [pc EXCEPT !.entries = @ \ {e}]
    IN  IF stale \/ ~e.in \/ ~Used(w, s)
        THEN Becomes(w) /\ pc' = done
        ELSE \/ /\ room = 0 \/ (sent = <<>> /\ Peer(w, s).hung)
                /\ Becomes(Drop(w, s, "eof")) /\ pc' = done
             \/ /\ room > 0 /\ sent = <<>> /\ ~Peer(w, s).hung
                /\ Becomes(w) /\ pc' = done
             \/ \E k \in 1 .. Least({room, Len(sent)}) :
                  /\ Becomes([cl |-> [w.cl EXCEPT ![s].in = @ \o First(sent, k)],
                              kern |-> [w.kern EXCEPT ![w.cl[s].conn].toSrv = After(@, k)]])
                  /\ pc' = [done EXCEPT !.at = "lines", !.slot = s, !.start = 0, !.gen = cl[s].gen]

\* The loop of linesrv_handle: the entries in the order of the slots.
Entry ==
    /\ pc.at = "entries" /\ UNCHANGED n
    /\ \E e \in pc.entries : (\A f \in pc.entries : e.slot <= f.slot) /\ EntryOf(e)

\* A mutant: after on_line only the slot is asked for, not whose it is.
GoesOnAnyone(s) == cl[s].conn # 0

\* client_input: the connection the line came from is still there
GoesOn(s) == cl[s].conn # 0 /\ cl[s].gen = pc.gen

\* client_input, after the last newline
Keep(w, s) ==
    LET c == w.cl[s]
    IN  IF c.disc THEN [w EXCEPT !.cl[s].in = <<>>]
        ELSE IF pc.start = 0 /\ Len(c.in) = LineMax
        THEN Send([w EXCEPT !.cl[s].in = <<>>, !.cl[s].disc = TRUE], s, TooLong)
        ELSE [w EXCEPT !.cl[s].in = After(@, pc.start)]

\* The loop of client_input, a line at a time: on_line, or the end of a rejected line.
LineStep ==
    /\ pc.at = "lines" /\ UNCHANGED n
    /\ LET s == pc.slot
           in == cl[s].in
           ends == {j \in pc.start + 1 .. Len(in) : in[j].end}
           line == SubSeq(in, pc.start + 1, Least(ends))
       IN  \/ ~GoesOn(s) /\ pc' = NextEntry /\ UNCHANGED <<cl, kern>>
           \/ /\ GoesOn(s) /\ ends = {} /\ Becomes(Keep(World, s)) /\ pc' = NextEntry
           \/ /\ GoesOn(s) /\ ends # {} /\ pc' = [pc EXCEPT !.start = Least(ends)]
              /\ IF cl[s].disc
                 THEN cl' = [cl EXCEPT ![s].disc = FALSE] /\ UNCHANGED kern
                 ELSE /\ kern' = [kern EXCEPT ![cl[s].conn].did =
                                    IF \A b \in 1 .. Len(line) : line[b].n = line[1].n
                                    THEN line[1].n ELSE 0]
                      /\ UNCHANGED cl

\* The accept loop, a connection at a time, after the clients.
Accept ==
    /\ pc.at = "entries" /\ pc.entries = {} /\ UNCHANGED n
    /\ LET waits == {c \in Conns : kern[c].st = "waits"}
       IN  IF pc.accept /\ waits # {}
           THEN Becomes(Adopt(World, Least(waits))) /\ UNCHANGED pc
           ELSE /\ pc' = [NextEntry EXCEPT !.at = "poll", !.accept = FALSE]
                /\ UNCHANGED <<cl, kern>>

Loop == Poll \/ Entry \/ LineStep \/ Accept
Next == \/ Loop
        \/ \E s \in Slots : Says(s) \/ Drops(s)
        \/ \E c \in Conns : Connects(c) \/ Asks(c) \/ Reads(c) \/ Closes(c) \/ Adopts(c)

Spec == Init /\ [][Next]_vars

\* The daemon's loop goes round, and a peer reads what it is sent.
FairSpec == /\ Spec /\ WF_vars(Poll) /\ WF_vars(Entry) /\ WF_vars(LineStep) /\ WF_vars(Accept)
            /\ \A c \in Conns : WF_vars(Reads(c))

-----------------------------------------------------------------------------
(* Properties.                                                                *)

SlotsOf(c) == {s \in Slots : cl[s].conn = c}
Slice(c) == IF SlotsOf(c) = {} THEN Slot(0, 0) ELSE cl[Least(SlotsOf(c))]
Ends(bytes) == SelectSeq(bytes, LAMBDA b : b.end)
\* The bytes of the buffer of c that the scan has passed.
Passed(c) ==
    IF pc.at = "lines" /\ pc.slot \in SlotsOf(c) /\ GoesOn(pc.slot)
    THEN pc.start ELSE 0
Pending(c) ==
    LET ends == Ends(After(Slice(c).in, Passed(c)) \o kern[c].toSrv)
    IN  IF Slice(c).disc THEN After(ends, 1) ELSE ends
Coming(c) ==
    IF kern[c].hung THEN <<>> ELSE Ends(kern[c].toCli \o Slice(c).out)

Promise(c) == INSTANCE LineChannel WITH
    Requests <- [n : 1 .. 4, long : BOOLEAN],
    Lines <- [k : {"must", "lossy"}, n : 1 .. 6],
    MaxLost <- 6,
    st <- IF kern[c].st = "waits" THEN "none" ELSE kern[c].st,
    hung <- kern[c].hung,
    asks <- [i \in DOMAIN Pending(c) |-> [n |-> Pending(c)[i].n, long |-> Pending(c)[i].long]],
    did <- kern[c].did,
    due <- [i \in DOMAIN Coming(c) |-> Coming(c)[i].l],
    got <- kern[c].got,
    lost <- Slice(c).dropped

\* The library keeps the promises of linesrv.h, whoever closes in which callback:
\* requests handed over whole, once and in order, lines neither torn nor mixed nor
\* repeated, lossy lines counted to the one, no connection ended without cause.
KeepsPromise ==
    /\ \A c \in Conns : Promise(c)!Init
    /\ [][\A c \in Conns : [Promise(c)!Next]_(Promise(c)!vars)]_vars

\* The scan for the next newline begins within what was read: a callback that drops
\* the client, and adopts another in its slot, leaves nothing to go on with.
ScanInBounds ==
    pc.at = "lines" /\ GoesOn(pc.slot) => pc.start <= Len(cl[pc.slot].in)

\* In the end no connection waits to be taken, every request was answered for, every
\* line that was queued has gone out and a peer that hung up has been noticed.
Drains ==
    <>[]\A c \in Conns :
           /\ kern[c].st # "waits"
           /\ kern[c].st = "open" => ~kern[c].hung /\ kern[c].toSrv = <<>> /\ Coming(c) = <<>>
=============================================================================
