---------------------------- MODULE LineChannel ----------------------------
(***************************************************************************)
(* What src/tools/common/linesrv.h promises of a connection, with no        *)
(* buffers, descriptors or poll entries: the requests its peer writes are   *)
(* handed over whole, in order and once, or rejected if they are too long;  *)
(* the lines said to it arrive whole and in order, except that lossy lines  *)
(* may be left out, counted, and the count goes ahead of the next lossy     *)
(* line; and it ends only for one of the reasons linesrv.h gives.  LineSrv  *)
(* implements it for every connection.                                      *)
(***************************************************************************)
EXTENDS Naturals, Sequences

CONSTANTS
    Requests,   \* what a peer may write: [n, long]
    Lines,      \* what a daemon may say: [k : {"must", "lossy"}, n]
    MaxLost     \* bound of a count of lines left out

VARIABLES
    st,     \* none (not taken yet), open, or why it ended: refused, eof, full, drop
    hung,   \* the peer has closed its end
    asks,   \* requests written and neither handed over nor rejected
    did,    \* the last one handed over
    due,    \* lines said that the peer has not read
    got,    \* the last line the peer has read
    lost    \* lossy lines left out and not reported

vars == <<st, hung, asks, did, due, got, lost>>

Note(count) == [k |-> "note", n |-> count]
TooLong == [k |-> "long", n |-> 0]
TooMany == [k |-> "many", n |-> 0]

Init == /\ st = "none" /\ ~hung /\ asks = <<>> /\ did = 0
        /\ due = <<>> /\ got = TooMany /\ lost = 0

Say(more) == due' = IF hung THEN due ELSE due \o more

\* The peer writes a request, at the latest before the connection is closed.
Ask == /\ st \in {"none", "open"} /\ ~hung
       /\ \E r \in Requests : asks' = Append(asks, r)
       /\ UNCHANGED <<st, hung, did, due, got, lost>>
\* It reads the next line.
Hear == /\ due # <<>> /\ got' = Head(due) /\ due' = Tail(due)
        /\ UNCHANGED <<st, hung, asks, did, lost>>
\* It closes its end, whatever was still to be read.
HangUp == /\ ~hung /\ hung' = TRUE /\ due' = <<>>
          /\ UNCHANGED <<st, asks, did, got, lost>>

\* The connection is taken, or refused with a line that says so.
Open == /\ st = "none" /\ st' = "open"
        /\ UNCHANGED <<hung, asks, did, due, got, lost>>
Refuse == /\ st = "none" /\ st' = "refused" /\ asks' = <<>> /\ Say(<<TooMany>>)
          /\ UNCHANGED <<hung, did, got, lost>>

\* The next request is handed over, or rejected because it is too long.
Take == /\ st = "open" /\ asks # <<>> /\ ~Head(asks).long
        /\ did' = Head(asks).n /\ asks' = Tail(asks)
        /\ UNCHANGED <<st, hung, due, got, lost>>
Reject == /\ st = "open" /\ asks # <<>> /\ Head(asks).long
          /\ asks' = Tail(asks) /\ Say(<<TooLong>>)
          /\ UNCHANGED <<st, hung, did, got, lost>>

\* A line that must be delivered; one that may be lost, told or, if the peer has
\* lines to read, left out.
SayMust == /\ st = "open" /\ \E l \in {x \in Lines : x.k = "must"} : Say(<<l>>)
           /\ UNCHANGED <<st, hung, asks, did, got, lost>>
SayLossy == /\ st = "open" /\ lost' = 0
            /\ \E l \in {x \in Lines : x.k = "lossy"} :
                 Say((IF lost > 0 THEN <<Note(lost)>> ELSE <<>>) \o <<l>>)
            /\ UNCHANGED <<st, hung, asks, did, got>>
LeaveOut == /\ st = "open" /\ (hung \/ due # <<>>)
            /\ lost < MaxLost /\ lost' = lost + 1
            /\ UNCHANGED <<st, hung, asks, did, due, got>>

\* The end: the peer has hung up, or does not read, or the daemon wants it.  Of what
\* was due a beginning still arrives.
End(why) == /\ st = "open" /\ st' = why
            /\ why = "eof" => hung
            /\ why = "full" => hung \/ due # <<>>
            /\ \E i \in 0 .. Len(due) : due' = SubSeq(due, 1, i)
            /\ asks' = <<>> /\ lost' = 0
            /\ UNCHANGED <<hung, did, got>>

Next == \/ Ask \/ Hear \/ HangUp \/ Open \/ Refuse \/ Take \/ Reject
        \/ SayMust \/ SayLossy \/ LeaveOut
        \/ \E why \in {"eof", "full", "drop"} : End(why)

Spec == Init /\ [][Next]_vars
=============================================================================
