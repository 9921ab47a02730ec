-------------------------------- MODULE Tftp --------------------------------
(***************************************************************************)
(* The modem's file server, src/tools/tftp/tftpserv.c with the RAM files of *)
(* ramfs.c and translate.c, and the modem that reads and writes through it. *)
(* A C function is an operator on the world w before the call:               *)
(*   w.srv     the client table: a slot is its socket (conn, 0: free), its   *)
(*             peer and the peer's job, the request with its options, what   *)
(*             the socket has received (in), finishing and final_block,      *)
(*             write_pos, blk_expected and the window buffer                 *)
(*   w.files   a file: its content, and (history) the last socket that       *)
(*             opened it for writing, what it held then, changes counted;    *)
(*             by is 0 once another socket has written it since              *)
(*   w.m       the modem's clients, external (below)                         *)
(*   w.oks     (history) the sockets closed with the result "ok"             *)
(*   w.next    the next socket                                               *)
(*   w.fail    do sends fail in this round                                   *)
(* A file is a sequence of units, a block BlkSize of them; a request without *)
(* options has wsize 1, rsize and seek 0.  Datagrams arrive once and in      *)
(* order, as AF_MSM_IPC has them, if the send did not fail; what is sent     *)
(* twice is sent twice by the modem's retransmit timer.                      *)
(***************************************************************************)
EXTENDS Integers, Sequences, FiniteSets

CONSTANTS
    MaxClients,   \* TFTP_MAX_CLIENTS
    BlkSize,      \* blksize, the same for all
    Wrap,         \* block numbers: 65536
    FileMax,      \* RAMFS_MAX_FILE_SIZE
    Firmware,     \* what the read-only file holds
    Seed,         \* what the RAM file holds at the start
    Scenarios     \* jobs of the modem's clients, failing rounds, retransmissions

\* What a client of the modem may ask for; wsize is cut to TFTP_MAX_WSIZE, 16.
Requests ==
    [w : BOOLEAN, f : {"fw", "ram"}, oack : BOOLEAN, wsize : 1 .. Wrap - 1, rsize : Nat, seek : Nat,
     app : BOOLEAN, data : Seq(Int)]

ASSUME TftpBounds ==
    /\ {MaxClients, BlkSize, FileMax} \subseteq Nat \ {0} /\ Wrap \in Nat /\ Wrap > 1
    /\ {Firmware, Seed} \subseteq Seq(Int) /\ Len(Seed) <= FileMax
    /\ \A x \in Scenarios :
         x.jobs \in Seq(Seq(Requests)) /\ x.faults \in Nat /\ x.resends \in Nat

VARIABLES srv, files, ctl, m, oks, n

vars == <<srv, files, ctl, m, oks, n>>

Slots == 1 .. MaxClients
Peers == DOMAIN m

None == [w |-> FALSE, f |-> "ram", oack |-> TRUE, wsize |-> 1, rsize |-> 0, seek |-> 0,
         app |-> FALSE, data |-> <<>>]
Free == [conn |-> 0, peer |-> 0, job |-> 0, r |-> None, in |-> <<>>, fin |-> FALSE, final |-> 0,
         pos |-> 0, exp |-> 0, buf |-> <<>>]

Lesser(a, b) == IF a < b THEN a ELSE b
\* ramfs_pread, pread
Part(s, from, len) == SubSeq(s, from + 1, Lesser(Len(s), from + len))
\* ramfs_pwrite within its limits; a gap reads as 0
Written(s, at, data) ==
    [i \in 1 .. (IF at + Len(data) < Len(s) THEN Len(s) ELSE at + Len(data)) |->
        IF i > at /\ i <= at + Len(data) THEN data[i - at] ELSE IF i <= Len(s) THEN s[i] ELSE 0]

-----------------------------------------------------------------------------
(* Sending.  The modem's port is there while the job it was opened for runs.  *)

Msg(op, conn, block, data) == [op |-> op, conn |-> conn, block |-> block, data |-> data]

\* qrtr_sendto
SendTo(w, p, job, x) ==
    IF w.fail \/ w.m[p].job # job \/ w.m[p].phase \notin {"asked", "runs"} THEN w
    ELSE [w EXCEPT !.m[p].in = Append(@, x)]
Send(w, s, op, block, data) ==
    SendTo(w, w.srv[s].peer, w.srv[s].job, Msg(op, w.srv[s].conn, block, data))

\* client_close_and_free
Close(w, s, result) ==
    [w EXCEPT !.srv[s] = Free, !.oks = IF result = "ok" THEN @ \cup {w.srv[s].conn} ELSE @]

-----------------------------------------------------------------------------
(* Reading.                                                                   *)

\* A mutant: rsize counts from the start of the file.
PayloadFromStart(w, s, block) ==
    LET r == w.srv[s].r
        left == IF r.rsize = 0 THEN BlkSize ELSE Lesser(BlkSize, r.rsize - r.seek - block * BlkSize)
    IN  Part(w.files[r.f].data, r.seek + block * BlkSize, left)

\* tftp_send_data's payload: from the offset, capped to what rsize leaves.
Payload(w, s, block) ==
    LET r == w.srv[s].r
        left == IF r.rsize = 0 THEN BlkSize ELSE Lesser(BlkSize, r.rsize - block * BlkSize)
    IN  Part(w.files[r.f].data, r.seek + block * BlkSize, left)

\* The loop of handle_reader: up to wsize blocks after `last`.
SendWindow(w, s, last) ==
    LET r == w.srv[s].r
        sent[i \in 0 .. r.wsize] ==
            IF i = 0 THEN [w |-> w, on |-> TRUE]
            ELSE LET q == sent[i-1]
                     block == (last + i - 1) % Wrap
                     data == Payload(q.w, s, block)
                     next == (block + 1) % Wrap
                     told == Send(q.w, s, "DATA", next, data)
                 IN  IF ~q.on \/ (r.rsize # 0 /\ block * BlkSize >= r.rsize)
                     THEN [q EXCEPT !.on = FALSE]
                     ELSE IF w.fail THEN [w |-> Close(q.w, s, "error"), on |-> FALSE]
                     ELSE IF Len(data) < BlkSize
                     THEN [w |-> [told EXCEPT !.srv[s].fin = TRUE, !.srv[s].final = next], on |-> FALSE]
                     ELSE [w |-> told, on |-> r.rsize = 0 \/ (block + 1) * BlkSize < r.rsize]
    IN  sent[r.wsize].w

\* tftp_send_final_empty and what handle_reader does with it
SendFinalEmpty(w, s, last) ==
    IF w.fail THEN Close(w, s, "error")
    ELSE [Send(w, s, "DATA", (last + 1) % Wrap, <<>>)
            EXCEPT !.srv[s].fin = TRUE, !.srv[s].final = (last + 1) % Wrap]

\* A mutant: any ACK closes a transfer whose last block was sent.
ClosingAny(c, last) == c.fin

\* The ACK that ends the transfer.
Closing(c, last) == c.fin /\ last = c.final

\* A mutant: a last block that is full has nothing after it.
ReaderAckEndless(w, s, last) ==
    LET c == w.srv[s]
    IN  IF Closing(c, last) THEN Close(w, s, "ok")
        ELSE IF c.fin THEN w
        ELSE SendWindow(w, s, last)

\* handle_reader, for an ACK
ReaderAck(w, s, last) ==
    LET c == w.srv[s]
    IN  IF Closing(c, last) THEN Close(w, s, "ok")
        ELSE IF c.fin THEN w
        ELSE IF c.r.rsize # 0 /\ last * BlkSize >= c.r.rsize THEN SendFinalEmpty(w, s, last)
        ELSE SendWindow(w, s, last)

HandleReader(w, s, x) == IF x.op = "ACK" THEN ReaderAck(w, s, x.block) ELSE Close(w, s, "error")

-----------------------------------------------------------------------------
(* Writing.                                                                   *)

Abort(w, s) == Close(Send(w, s, "ERROR", 0, <<>>), s, "error")

\* handle_writer
HandleWriter(w, s, x) ==
    LET c == w.srv[s]
        buf == c.buf \o x.data
        short == Len(x.data) < BlkSize
        a == [w EXCEPT !.srv[s].exp = (@ + 1) % Wrap, !.srv[s].buf = buf]
        b == Send([a EXCEPT !.files[c.r.f].data = Written(@, c.pos, buf),
                            !.files[c.r.f].n = @ + 1,
                            !.files[c.r.f].by = IF @ = c.conn THEN @ ELSE 0,
                            !.srv[s].pos = @ + Len(buf), !.srv[s].buf = <<>>],
                  s, "ACK", x.block, <<>>)
    IN  IF x.op # "DATA" \/ x.block # c.exp \/ Len(buf) > BlkSize * c.r.wsize THEN Abort(w, s)
        ELSE IF x.block % c.r.wsize # 0 /\ ~short THEN a
        ELSE IF c.pos + Len(buf) > FileMax THEN Abort(a, s)
        ELSE IF short THEN Close(b, s, "ok") ELSE b

-----------------------------------------------------------------------------
(* Requests.                                                                  *)

\* client_alloc and what handle_rrq and handle_wrq fill in
Alloc(w, x, pos) ==
    LET s == CHOOSE i \in Slots : w.srv[i].conn = 0 /\ \A j \in 1 .. i - 1 : w.srv[j].conn # 0
    IN  <<[w EXCEPT !.srv[s] = [Free EXCEPT !.conn = w.next, !.peer = x.peer, !.job = x.job,
                                            !.r = x.r, !.pos = pos, !.exp = 1],
                    !.next = @ + 1], s>>
Full(w) == \A s \in Slots : w.srv[s].conn # 0
\* tftp_send_error_to, from a socket of its own
Refuse(w, x) == SendTo(w, x.peer, x.job, Msg("ERROR", 0, 0, <<>>))

\* handle_rrq; without options the first block is sent at once
HandleRrq(w, x) ==
    IF Full(w) THEN Refuse(w, x)
    ELSE LET a == Alloc(w, x, 0)
         IN  IF x.r.oack THEN Send(a[1], a[2], "OACK", 0, <<>>)
             ELSE Send(a[1], a[2], "DATA", 1, Payload(a[1], a[2], 0))

\* open_ram for a write: emptied, or kept to append to
OpenRam(w, x) ==
    [w EXCEPT !.files[x.r.f] =
        [data |-> IF x.r.app THEN @.data ELSE <<>>, was |-> IF x.r.app THEN @.data ELSE <<>>,
         by |-> w.next, n |-> @.n + 1]]

\* handle_wrq: the file is opened before there is a slot
HandleWrq(w, x) ==
    LET o == OpenRam(w, x)
        a == Alloc(o, x, Len(o.files[x.r.f].data) + x.r.seek)
    IN  IF x.r.f = "fw" THEN Refuse(w, x)
        ELSE IF Full(o) THEN Refuse([o EXCEPT !.next = @ + 1], x)
        ELSE Send(a[1], a[2], IF x.r.oack THEN "OACK" ELSE "ACK", 0, <<>>)

\* service_control
ServiceControl(w, x) == IF x.r.w THEN HandleWrq(w, x) ELSE HandleRrq(w, x)

\* service_client
ServiceClient(w, s) ==
    LET x == Head(w.srv[s].in)
        a == [w EXCEPT !.srv[s].in = Tail(@)]
    IN  IF w.srv[s].r.w THEN HandleWriter(a, s, x) ELSE HandleReader(a, s, x)

World(fail) == [srv |-> srv, files |-> files, m |-> m, oks |-> oks, next |-> n.next, fail |-> fail]
Becomes(w) == srv' = w.srv /\ files' = w.files /\ m' = w.m /\ oks' = w.oks

-----------------------------------------------------------------------------
(* The loop of run_server: the sockets that are ready, one datagram each, then *)
(* the control socket.                                                        *)

Served(w) ==
    LET after[s \in 0 .. MaxClients] ==
            IF s = 0 THEN w
            ELSE IF w.srv[s].in # <<>> THEN ServiceClient(after[s-1], s) ELSE after[s-1]
    IN  after[MaxClients]

Round(fail) ==
    /\ ctl # <<>> \/ \E s \in Slots : srv[s].in # <<>>
    /\ LET w == Served(World(fail))
           q == IF ctl = <<>> THEN w ELSE ServiceControl(w, Head(ctl))
       IN  /\ Becomes(q)
           /\ ctl' = IF ctl = <<>> THEN ctl ELSE Tail(ctl)
           /\ n' = [n EXCEPT !.next = q.next, !.faults = @ - (IF fail THEN 1 ELSE 0),
                             !.upset = @ \/ fail \/ (ctl # <<>> /\ Full(w))]

\* sweep_timeouts.  The idle time is three retransmit timers at least, so the slot's
\* peer owes it nothing, unless it is slow.
Sweep(s) ==
    /\ srv[s].conn # 0 /\ srv[s].in = <<>>
    /\ LET p == srv[s].peer
           owed == \E i \in DOMAIN m[p].in : m[p].in[i].conn = srv[s].conn
       IN  n' = [n EXCEPT !.resends = @ - (IF owed THEN 1 ELSE 0), !.upset = @ \/ owed]
    /\ n'.resends >= 0
    /\ Becomes(Close(World(FALSE), s, "timeout")) /\ UNCHANGED ctl

-----------------------------------------------------------------------------
(* The modem, external: clients that each do one job after the other from a   *)
(* port of their own, after RFC 1350 and RFC 7440.  exp: the next block to     *)
(* read, or the first not acknowledged; full numbers here, modulo Wrap sent.   *)

Idle(todo) == [todo |-> todo, job |-> 0, phase |-> "idle", r |-> None, conn |-> 0, exp |-> 1,
               got |-> <<>>, in |-> <<>>, ver |-> 0]
Doing(p) == m[p].phase \in {"asked", "runs"}

Init ==
    /\ srv = [s \in Slots |-> Free] /\ ctl = <<>> /\ oks = {}
    /\ files = [f \in {"fw", "ram"} |->
                  [data |-> IF f = "fw" THEN Firmware ELSE Seed, was |-> <<>>, by |-> 0, n |-> 0]]
    /\ \E x \in Scenarios :
         /\ m = [p \in DOMAIN x.jobs |-> Idle(x.jobs[p])]
         /\ n = [next |-> 1, faults |-> x.faults, resends |-> x.resends, upset |-> FALSE]

\* A datagram to a socket that is closed is lost.
ToServer(w, conn, x) ==
    [w EXCEPT !.srv = [s \in Slots |-> IF w.srv[s].conn = conn /\ conn # 0
                                       THEN [w.srv[s] EXCEPT !.in = Append(@, x)] ELSE w.srv[s]]]
Ack(w, p, block) == ToServer(w, w.m[p].conn, Msg("ACK", w.m[p].conn, block % Wrap, <<>>))
Blocks(r) == Len(r.data) \div BlkSize + 1
Block(r, i) == Part(r.data, (i - 1) * BlkSize, BlkSize)
\* The window of a writer from the first block not acknowledged.
Write(w, p) ==
    LET c == w.m[p]
        sent[i \in 0 .. c.r.wsize] ==
            IF i = 0 THEN w
            ELSE IF c.exp + i - 1 > Blocks(c.r) THEN sent[i-1]
            ELSE ToServer(sent[i-1], c.conn,
                          Msg("DATA", c.conn, (c.exp + i - 1) % Wrap, Block(c.r, c.exp + i - 1)))
    IN  sent[c.r.wsize]

Ends(w, p, phase) == [w EXCEPT !.m[p].phase = phase, !.m[p].in = <<>>]

HearBlock(w, p, x) ==
    LET c == w.m[p]
        a == [w EXCEPT !.m[p].got = @ \o x.data, !.m[p].exp = @ + 1]
    IN  IF x.block # c.exp % Wrap THEN w
        ELSE IF Len(x.data) < BlkSize THEN Ends(Ack(a, p, c.exp), p, "done")
        ELSE IF c.exp % c.r.wsize = 0 \/ (c.r.rsize # 0 /\ Len(a.m[p].got) >= c.r.rsize)
        THEN Ack(a, p, c.exp) ELSE a

HearAck(w, p, x) ==
    LET c == w.m[p]
        new == {i \in c.exp .. Lesser(Blocks(c.r), c.exp + c.r.wsize - 1) : i % Wrap = x.block}
        a == [w EXCEPT !.m[p].exp = (CHOOSE i \in new : TRUE) + 1]
    IN  IF new = {} THEN w
        ELSE IF a.m[p].exp > Blocks(c.r) THEN Ends(a, p, "done") ELSE Write(a, p)

\* The first answer says which socket the transfer is with.
HearFirst(w, p, x) ==
    LET a == [w EXCEPT !.m[p].phase = "runs", !.m[p].conn = x.conn]
    IN  IF x.op = "DATA" THEN HearBlock(a, p, x)
        ELSE IF w.m[p].r.w THEN Write(a, p) ELSE Ack(a, p, 0)

Heard(w, p, x) ==
    CASE x.op = "ERROR" /\ (m[p].conn = 0 \/ x.conn \in {0, m[p].conn}) -> Ends(w, p, "failed")
      [] x.op # "ERROR" /\ m[p].phase = "asked" -> HearFirst(w, p, x)
      [] x.op = "DATA" /\ m[p].conn = x.conn -> HearBlock(w, p, x)
      [] x.op = "ACK" /\ m[p].conn = x.conn -> HearAck(w, p, x)
      [] OTHER -> w

Hear(p) ==
    /\ m[p].in # <<>>
    /\ LET x == Head(m[p].in)
           w == [World(FALSE) EXCEPT !.m[p].in = Tail(@)]
       IN  \/ Becomes(Heard(w, p, x))
           \* Another socket's answer may be told that it is not wanted.
           \/ /\ m[p].conn # 0 /\ x.conn \notin {0, m[p].conn} /\ x.op # "ERROR"
              /\ Becomes(ToServer(w, x.conn, Msg("ERROR", x.conn, 0, <<>>)))
    /\ UNCHANGED <<ctl, n>>

Starts(p) ==
    /\ ~Doing(p) /\ m[p].todo # <<>>
    /\ LET r == Head(m[p].todo)
           c == [Idle(Tail(m[p].todo)) EXCEPT !.job = m[p].job + 1, !.phase = "asked", !.r = r,
                                              !.ver = files[r.f].n]
       IN  m' = [m EXCEPT ![p] = c] /\ ctl' = Append(ctl, [peer |-> p, job |-> c.job, r |-> r])
    /\ UNCHANGED <<srv, files, oks, n>>

Spend == n.resends > 0 /\ n' = [n EXCEPT !.resends = @ - 1, !.upset = TRUE]

\* Its retransmit timer: the request, the last ACK or the window again.
Resends(p) ==
    /\ Doing(p) /\ Spend
    /\ IF m[p].phase = "asked"
       THEN /\ ctl' = Append(ctl, [peer |-> p, job |-> m[p].job, r |-> m[p].r])
            /\ UNCHANGED <<srv, files, m, oks>>
       ELSE /\ Becomes(IF m[p].r.w THEN Write(World(FALSE), p) ELSE Ack(World(FALSE), p, m[p].exp - 1))
            /\ UNCHANGED ctl
\* The last of its retries is over.
GivesUp(p) == Doing(p) /\ Spend /\ Becomes(Ends(World(FALSE), p, "failed")) /\ UNCHANGED ctl

Modem == \E p \in Peers : Hear(p) \/ Starts(p) \/ Resends(p) \/ GivesUp(p)
Server == \/ Round(FALSE) \/ (n.faults > 0 /\ Round(TRUE)) \/ \E s \in Slots : Sweep(s)
Next == Modem \/ Server

Spec == Init /\ [][Next]_vars

\* While the loop has a socket to serve or a slot to sweep, or the modem an answer to
\* read or a job to start, one of them goes on.
Pending == \/ ctl # <<>>
           \/ \E s \in Slots : srv[s].conn # 0
           \/ \E p \in Peers : m[p].in # <<>> \/ (~Doing(p) /\ m[p].todo # <<>>)
FairSpec == Spec /\ (<>[]Pending => []<><<Next>>_vars)

-----------------------------------------------------------------------------
(* Properties.                                                                *)

\* What a reader asked for and what a writer makes of the file it opened.
Wanted(c) ==
    LET all == files[c.r.f].data
    IN  Part(all, c.r.seek, IF c.r.rsize = 0 THEN Len(all) ELSE c.r.rsize)
Stored(c) ==
    LET f == files[c.r.f] IN f.data = Written(f.was, Len(f.was) + c.r.seek, c.r.data)

\* Nobody has written what is read since it was asked for, and it has fewer blocks
\* than there are numbers (the README says what happens otherwise).
Steady(c) ==
    LET f == files[c.r.f] IN f.n = c.ver /\ Len(f.data) < BlkSize * (Wrap - 1)

\* A transfer the modem takes for complete is exact, for every window, rsize and
\* seek, with datagrams repeated and transfers side by side: it has read what it
\* asked for, if nobody wrote the file meanwhile; what it wrote is in the file,
\* unless a later request (its own, sent twice, or a refused one) opened it again or
\* two wrote it at the same time.
Exact ==
    \A p \in Peers : m[p].phase = "done" =>
        IF m[p].r.w THEN files[m[p].r.f].by = m[p].conn => Stored(m[p])
        ELSE Steady(m[p]) => m[p].got = Wanted(m[p])

\* A transfer is closed as "ok" only when the modem has read all of it or the file
\* holds all of it: a late or repeated ACK does not end it.  With a file that is
\* written meanwhile it may: a repeated ACK has a block sent again that is now the
\* last, and the ACK of what it was before then ends the transfer.
OkIsEarned ==
    \A p \in Peers : m[p].conn \in oks =>
        IF m[p].r.w THEN files[m[p].r.f].by = m[p].conn => Stored(m[p])
        ELSE Steady(m[p]) => m[p].phase = "done"

\* Every slot comes back, whatever the modem does with it; and if no send fails,
\* nothing is repeated and no slot is lacking, every job is done, or refused for
\* what it asks.
Hopeless(c) ==
    c.phase = "failed" /\ c.r.w /\ (c.r.f = "fw" \/ Len(Seed) + c.r.seek + Len(c.r.data) > FileMax)
EndsWell ==
    /\ <>[](\A s \in Slots : srv[s].conn = 0)
    /\ <>[](\A p \in Peers : n.upset \/ (m[p].todo = <<>> /\ (m[p].phase = "done" \/ Hopeless(m[p]))))
    /\ [](\A p \in Peers : n.upset \/ m[p].phase # "failed" \/ Hopeless(m[p]))
=============================================================================
