------------------------------ MODULE PowerLog ------------------------------
(***************************************************************************)
(* powerd's batched log (src/tools/powerd/log.c with -l): rows wait in     *)
(* RUNDIR/log.pending on tmpfs and reach LOGDIR/log.csv in batches, with   *)
(* one rotation to log.csv.1.  A flush is several system calls; each may   *)
(* fail, and the process may be killed between them or inside a write.     *)
(* The supervisor respawns it; at shutdown chef-state stops it and runs    *)
(* `powerd flush` on what a powerd that is gone left behind.               *)
(*                                                                         *)
(* A row is its number, 1, 2, ... in the order made, and one unit of size. *)
(* Torn in a file is the beginning of a row without its newline: the row   *)
(* written right behind it runs into it and cannot be read.                *)
(*                                                                         *)
(*   pend, log, old   log.pending, log.csv (with its header), log.csv.1    *)
(*   safe             the rows a sync has reached (history)                *)
(*   p                the process on RUNDIR: powerd, the flush tool, none  *)
(*   sys              up; stopping, from the first ::shutdown line; off    *)
(*   left             chef-state has said that pending rows are left       *)
(*   made, gone, cuts rows made; rows known to be lost; writes of log.csv  *)
(*                    whose rows stayed pending (history)                  *)
(***************************************************************************)
EXTENDS Integers, Sequences, FiniteSets, SequencesExt

CONSTANTS
    MaxRows,      \* rows made in a behaviour
    LogMax,       \* log_max, in rows behind the header
    PendingMax,   \* pending_max, in rows
    MaxFaults,    \* system calls that fail
    MaxKills,     \* deaths of the process on RUNDIR
    MaxUpsets     \* of both together

ASSUME BoundsAssumption ==
    /\ MaxRows \in Nat \ {0}
    /\ LogMax \in Nat \ {0}
    /\ PendingMax \in Nat \ {0}
    /\ {MaxFaults, MaxKills, MaxUpsets} \subseteq Nat

VARIABLES pend, log, old, safe, p, sys, left, made, gone, cuts, faults, kills

files == <<pend, log, old>>
history == <<made, gone, cuts>>
vars == <<files, safe, p, sys, left, history, faults, kills>>

Torn == 0
NoFile == [head |-> "none", rows |-> <<>>]
Nobody == [who |-> "none", pc |-> "idle", then |-> "run", durable |-> FALSE, failed |-> FALSE,
           buf |-> <<>>, off |-> 0, checked |-> FALSE, due |-> FALSE, shut |-> FALSE,
           logFailed |-> FALSE, pendFailed |-> FALSE]

-----------------------------------------------------------------------------
(* Files.                                                                   *)

Whole(f) == IF f # <<>> /\ Last(f) = Torn THEN Front(f) ELSE f
Readable(f) == {f[i] : i \in {j \in DOMAIN f : f[j] # Torn /\ (j > 1 => f[j - 1] # Torn)}}
\* The row of `rows` that runs into a torn end of f.
Glued(f, rows) == IF f # Whole(f) /\ rows # <<>> THEN {Head(rows)} ELSE {}


\* A file operation that does not work, within the bounds.
Upset == faults + kills < MaxUpsets
Fault == Upset /\ faults < MaxFaults /\ faults' = faults + 1

-----------------------------------------------------------------------------
(* A row.                                                                   *)

\* A torn end stays.
MakeRoomTorn(f, checked) ==
    LET over == Len(f) + 1 - PendingMax
    IN  IF over > 0 THEN SubSeq(f, over + (PendingMax + 3) \div 4 + 1, Len(f)) ELSE f

\* pending_make_room: cut a torn end once per process, and when the file is full drop its
\* oldest rows, a quarter of the bound more than needed.
MakeRoom(f, checked) ==
    LET rows == IF checked THEN f ELSE Whole(f)
        over == Len(rows) + 1 - PendingMax
    IN  IF over > 0 THEN SubSeq(rows, over + (PendingMax + 3) \div 4 + 1, Len(rows)) ELSE rows

\* pending_add: the file and pending_checked after it failed.  log.pending could not be
\* replaced; or the append was truncated back; or even that failed.
AddFailed(f, checked) ==
    LET room == MakeRoom(f, checked)
    IN  {<<f, checked>>, <<room, TRUE>>, <<Append(room, Torn), FALSE>>}

Flushing(q, durable, then) == [q EXCEPT !.pc = "read", !.durable = durable, !.then = then]

\* The shutdown row waits for its batch.
AfterRowBatched(q, urgent, last) ==
    CASE last -> [q EXCEPT !.pc = "poweroff"]
      [] urgent /\ ~last -> Flushing(q, FALSE, "run")
      [] OTHER -> [q EXCEPT !.pc = "idle"]

\* What follows a row: the shutdown row (`last`) is flushed durably before the command
\* runs; an urgent one, or one that comes when the flush is due, at once.
AfterRow(q, urgent, last) ==
    CASE last -> Flushing(q, TRUE, "poweroff")
      [] urgent /\ ~last -> Flushing(q, FALSE, "run")
      [] OTHER -> [q EXCEPT !.pc = "idle"]

\* log_row, from powerd_sample; the first row of a process is urgent.
LogRow(urgent, last) ==
    /\ p.who = "powerd" /\ p.pc \in {"start", "idle"}
    /\ p.pc = "start" => urgent
    /\ last => ~p.shut
    /\ made < MaxRows
    /\ made' = made + 1
    /\ \/ /\ pend' = Append(MakeRoom(pend, p.checked), made')
          /\ p' = AfterRow([p EXCEPT !.checked = TRUE, !.pendFailed = FALSE, !.due = TRUE,
                                     !.shut = @ \/ last], urgent, last)
          /\ gone' = gone \cup (Readable(pend) \ Readable(MakeRoom(pend, p.checked)))
          /\ UNCHANGED faults
       \/ /\ Fault
          /\ \E add \in AddFailed(pend, p.checked) :
                /\ pend' = add[1]
                /\ p' = AfterRow([p EXCEPT !.checked = add[2], !.pendFailed = TRUE,
                                           !.shut = @ \/ last], urgent, last)
                /\ gone' = gone \cup {made'} \cup (Readable(pend) \ Readable(add[1]))
    /\ UNCHANGED <<log, old, safe, sys, left, cuts, kills>>

\* log_flush_if_due, and a row of any kind that finds the time come.
FlushIfDue ==
    /\ p.who = "powerd" /\ p.pc = "idle" /\ p.due
    /\ p' = Flushing(p, FALSE, "run")
    /\ UNCHANGED <<files, safe, sys, left, history, faults, kills>>

-----------------------------------------------------------------------------
(* log_flush, one step per system call that matters.                        *)

\* A failed flush goes on to remove from log.pending what did reach log.csv.
FlushFailed == [p EXCEPT !.failed = TRUE, !.pc = "replace"]
\* Where the loop over the batch goes on, or ends.
Onward(q) ==
    [q EXCEPT !.pc = CASE q.off < Len(q.buf) -> "write"
                       [] q.off = Len(q.buf) /\ q.durable -> "sync"
                       [] OTHER -> "replace"]

\* How many rows of the batch fit behind those of log.csv, or in a new one.
Fit ==
    LET room == LogMax - (IF log.head = "ours" THEN Len(log.rows) ELSE 0)
        rest == Len(p.buf) - p.off
    IN  IF rest < room THEN rest ELSE IF room > 0 THEN room ELSE 0
Chunk(n) == SubSeq(p.buf, p.off + 1, p.off + n)
\* A flush that ends with n rows both logged and pending.
CutsWith(n) == cuts + (IF n > 0 THEN 1 ELSE 0)
MustRotate == log.head = "other" \/ Fit = 0

\* A failed flush is not tried again by itself.
FlushedForGood(failed) ==
    LET q == [p EXCEPT !.buf = <<>>, !.off = 0, !.failed = FALSE, !.durable = FALSE,
                       !.logFailed = failed, !.due = FALSE]
    IN  CASE p.then = "exit" -> Nobody
          [] p.then = "poweroff" -> [q EXCEPT !.pc = "poweroff", !.then = "run"]
          [] OTHER -> [q EXCEPT !.pc = "idle", !.then = "run"]

\* log_flush_now, or flush_main, with log_flush's result.
Flushed(failed) ==
    LET q == [p EXCEPT !.buf = <<>>, !.off = 0, !.failed = FALSE, !.durable = FALSE,
                       !.logFailed = failed, !.due = failed]
    IN  CASE p.then = "exit" -> Nobody
          [] p.then = "poweroff" -> [q EXCEPT !.pc = "poweroff", !.then = "run"]
          [] OTHER -> [q EXCEPT !.pc = "idle", !.then = "run"]

\* The complete rows are read; a torn end never is.
Read ==
    /\ p.pc = "read"
    /\ \/ /\ p' = Onward([p EXCEPT !.buf = Whole(pend), !.off = 0, !.failed = FALSE])
          /\ UNCHANGED faults
       \/ Fault /\ p' = Flushed(TRUE)
    /\ left' = (left \/ (p.who = "tool" /\ p'.who = "none"))
    /\ UNCHANGED <<files, safe, sys, history, kills>>

Rotate ==
    /\ p.pc = "write" /\ MustRotate
    /\ \/ /\ old' = log.rows
          /\ log' = NoFile
          /\ gone' = gone \cup (Readable(old) \ Readable(log.rows))
          /\ UNCHANGED <<p, faults>>
       \/ Fault /\ p' = FlushFailed /\ UNCHANGED <<old, log, gone>>
    /\ UNCHANGED <<pend, safe, sys, left, made, cuts, kills>>

Appended(rows) == [head |-> "ours", rows |-> log.rows \o rows]
\* A write that got as far as n rows, and maybe into the next.
CutShort(n) ==
    {Appended(Chunk(n))} \cup (IF n < Fit THEN {Appended(Append(Chunk(n), Torn))} ELSE {})

\* A failed write is truncated back, unless that fails too.
WriteChunk ==
    /\ p.pc = "write" /\ ~MustRotate
    /\ \/ /\ log' = Appended(Chunk(Fit))
          /\ p' = Onward([p EXCEPT !.off = @ + Fit])
          /\ gone' = gone \cup Glued(log.rows, Chunk(Fit))
          /\ UNCHANGED <<cuts, faults>>
       \/ Fault /\ p' = FlushFailed /\ UNCHANGED <<log, gone, cuts>>
       \/ /\ Fault /\ p' = FlushFailed
          /\ \E n \in 0 .. Fit : log' \in CutShort(n)
          /\ cuts' = cuts + 1
          /\ UNCHANGED gone
    /\ UNCHANGED <<pend, old, safe, sys, left, made, kills>>

Sync ==
    /\ p.pc = "sync"
    /\ \/ /\ safe' = safe \cup Readable(log.rows)
          /\ p' = [p EXCEPT !.pc = "replace"]
          /\ UNCHANGED faults
       \/ Fault /\ p' = FlushFailed /\ UNCHANGED safe
    /\ UNCHANGED <<files, sys, left, history, kills>>

\* What the flush under way has not brought to log.csv.
Unwritten == SubSeq(Whole(pend), p.off + 1, Len(Whole(pend)))

\* pending_replace: the rows that reached log.csv go, and so does a torn end.
Replace ==
    /\ p.pc = "replace"
    /\ \/ /\ pend' = Unwritten
          /\ p' = Flushed(p.failed)
          /\ left' = (left \/ (p.who = "tool" /\ p.failed))
          /\ UNCHANGED <<cuts, faults>>
       \/ /\ Unwritten # pend /\ Fault
          /\ p' = Flushed(TRUE)
          /\ left' = (left \/ p.who = "tool")
          /\ cuts' = CutsWith(p.off)
          /\ UNCHANGED pend
    /\ UNCHANGED <<log, old, safe, sys, made, gone, kills>>

-----------------------------------------------------------------------------
(* The process and the system.                                              *)

\* The supervisor starts powerd, and again after it died.  Past the bound on rows the
\* start row is left out, the flush it forces is not.
Start ==
    /\ sys = "up" /\ p.who = "none"
    /\ LET q == [Nobody EXCEPT !.who = "powerd", !.pc = "start"]
       IN  p' = IF made < MaxRows THEN q ELSE Flushing(q, FALSE, "run")
    /\ UNCHANGED <<files, safe, sys, left, history, faults, kills>>

\* SIGTERM, or poll() failing: the pending rows are flushed, synced, and powerd is gone.
Term ==
    /\ p.who = "powerd" /\ p.pc = "idle"
    /\ p' = Flushing(p, TRUE, "exit")
    /\ UNCHANGED <<files, safe, sys, left, history, faults, kills>>

\* system_shutdown: sync, and init begins to stop the system.
PowerOff ==
    /\ p.pc = "poweroff"
    /\ safe' = safe \cup Readable(log.rows) \cup Readable(old)
    /\ sys' = "stopping"
    /\ p' = [p EXCEPT !.pc = "idle"]
    /\ UNCHANGED <<files, left, history, faults, kills>>

\* Somebody else shuts the system down.
Stopping ==
    /\ sys = "up"
    /\ sys' = "stopping"
    /\ UNCHANGED <<files, safe, p, left, history, faults, kills>>

\* Only for a log.csv that exists.
ToolNeededLogged ==
    sys = "stopping" /\ p.who = "none" /\ pend # <<>> /\ ~left /\ log.head # "none"

\* power_flush: nothing pending, or powerd is confirmed gone.
ToolNeeded == sys = "stopping" /\ p.who = "none" /\ pend # <<>> /\ ~left
FlushTool ==
    /\ ToolNeeded
    /\ p' = Flushing([Nobody EXCEPT !.who = "tool"], TRUE, "exit")
    /\ UNCHANGED <<files, safe, sys, left, history, faults, kills>>

\* The deadline: a powerd that is still alive has its rows left, and that is said.
\* do_shutdown ends with a sync.
Off ==
    /\ sys = "stopping"
    /\ p.who # "tool" /\ ~ToolNeeded
    /\ sys' = "off"
    /\ left' = (left \/ (p.who # "none" /\ pend # <<>>))
    /\ safe' = safe \cup Readable(log.rows) \cup Readable(old)
    /\ cuts' = CutsWith(p.off)
    /\ p' = Nobody
    /\ UNCHANGED <<files, made, gone, faults, kills>>

\* The process dies: while it adds a row, inside the write to log.csv, or between two
\* calls.  chef-state notices a flush tool that dies.
Killed ==
    /\ p.who # "none"
    /\ Upset /\ kills < MaxKills
    /\ kills' = kills + 1
    /\ p' = Nobody
    /\ left' = (left \/ p.who = "tool")
    /\ \/ /\ p.pc \in {"start", "idle"}
          /\ pend' = Append(MakeRoom(pend, p.checked), Torn)
          /\ gone' = gone \cup (Readable(pend) \ Readable(pend'))
          /\ UNCHANGED <<log, cuts>>
       \/ /\ p.pc = "write" /\ ~MustRotate
          /\ \E n \in 0 .. Fit : log' \in CutShort(n)
          /\ cuts' = cuts + 1
          /\ UNCHANGED <<pend, gone>>
       \/ /\ cuts' = CutsWith(p.off)
          /\ UNCHANGED <<pend, log, gone>>
    /\ UNCHANGED <<old, safe, sys, made, faults>>

-----------------------------------------------------------------------------
Init ==
    /\ pend = <<>> /\ old = <<>>
    /\ log \in {NoFile, [head |-> "other", rows |-> <<>>]}
    /\ safe = {} /\ gone = {}
    /\ p = Nobody
    /\ sys = "up" /\ left = FALSE
    /\ made = 0 /\ cuts = 0 /\ faults = 0 /\ kills = 0

Flush == Read \/ Rotate \/ WriteChunk \/ Sync \/ Replace

Next ==
    \/ Start \/ Term \/ Killed
    \/ \E urgent, last \in BOOLEAN : LogRow(urgent, last)
    \/ FlushIfDue \/ Flush \/ PowerOff
    \/ Stopping \/ FlushTool \/ Off

Spec == Init /\ [][Next]_vars

\* The loop's timeout includes flush_due; the flush and the shutdown command run to their
\* end; powerd is supervised, and its first act is a row.
FairSpec ==
    /\ Spec
    /\ WF_vars(FlushIfDue) /\ WF_vars(Flush) /\ WF_vars(PowerOff)
    /\ WF_vars(Start) /\ WF_vars(LogRow(TRUE, FALSE) /\ p.pc = "start")

-----------------------------------------------------------------------------
(* Properties.                                                              *)

Waiting == Readable(pend)
Logged == Readable(log.rows) \cup Readable(old)
Rows == 1 .. MaxRows
Times(r, f) == Cardinality({i \in DOMAIN f : f[i] = r})

\* Files, process and counters keep their types and the files their bounds: log.pending
\* one torn row above its own, log.csv never above log_max.
TypeOK ==
    /\ pend \in Seq(Rows \cup {Torn}) /\ Len(pend) <= PendingMax + 1
    /\ log.head \in {"none", "ours", "other"}
    /\ log.rows \in Seq(Rows \cup {Torn}) /\ Len(log.rows) <= LogMax
    /\ old \in Seq(Rows \cup {Torn}) /\ Len(old) <= LogMax
    /\ {safe, gone} \subseteq SUBSET Rows
    /\ p.who \in {"none", "powerd", "tool"}
    /\ p.pc \in {"start", "idle", "read", "write", "sync", "replace", "poweroff"}
    /\ p.off \in 0 .. Len(p.buf)
    /\ sys \in {"up", "stopping", "off"}
    /\ made \in 0 .. MaxRows


\* No row is lost unaccounted: each is waiting or in one of the files, unless it is one
\* that the code gives up on (a full log.pending, a failed append to it, log.csv.1 replaced,
\* a line that ran into a torn one).
Accounted == \A r \in 1 .. made : r \in Waiting \cup Logged \cup gone

\* Whatever was cut short before, log.pending holds complete rows in order, so that a flush
\* never appends a line made of two; only its end may be torn.
PendingClean ==
    /\ Torn \notin ToSet(Whole(pend))
    /\ \A i, j \in DOMAIN Whole(pend) : i < j => pend[i] < pend[j]

\* A row is logged once and in order, except that each write to log.csv which was cut short,
\* or whose rows could not be taken out of log.pending, may repeat it once and tear one line.
RepeatedOnlyByCuts ==
    LET all == old \o log.rows \o Unwritten
    IN  /\ \A r \in Rows : Times(r, all) <= 1 + cuts
        /\ Times(Torn, all) <= cuts
        /\ cuts = 0 => \A i, j \in DOMAIN all : i < j => all[i] < all[j]

\* What log.csv, log.csv.1 and log.pending owe to the rows, in whatever state the files are.
RowsKept == TypeOK /\ Accounted /\ PendingClean /\ RepeatedOnlyByCuts

\* powerd's own shutdown loses nothing: when its command runs, every row is on the disk,
\* or the flush has been reported to have failed.
ShutdownRowIsSafe ==
    [][PowerOff => p.logFailed \/ (1 .. made) \ gone \subseteq safe']_vars

\* An orderly stop of the system loses nothing either, whatever happened to powerd on the
\* way, or chef-state says that rows are left.
StopKeepsRows == sys = "off" /\ ~left => (1 .. made) \ gone \subseteq safe

\* While the system stays up, a row that waits reaches log.csv or is given up on.
RowsReachTheLog ==
    \A r \in Rows : r \in Waiting ~> (r \in Logged \cup gone \/ sys # "up")

=============================================================================
