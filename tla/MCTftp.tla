------------------------------- MODULE MCTftp -------------------------------
(* Tftp for TLC: one client's reads and writes with every option, disturbed  *)
(* in one way or another; two clients side by side.                          *)
EXTENDS Tftp

MCFirmware == <<11, 12, 13, 14, 15>>
MCSeed == <<1, 2>>

Read(f, oack, wsize, rsize, seek) ==
    [None EXCEPT !.f = f, !.oack = oack, !.wsize = wsize, !.rsize = rsize, !.seek = seek]
Write1(f, oack, wsize, app, seek, len) ==
    [None EXCEPT !.w = TRUE, !.f = f, !.oack = oack, !.wsize = wsize, !.app = app, !.seek = seek,
                 !.data = [i \in 1 .. len |-> 20 + i]]

Plain(f) == Read(f, FALSE, 1, 0, 0)
Reads == {Plain("fw"), Plain("ram")}
         \cup {Read("fw", TRUE, w, r, s) : w \in 1 .. 3, r \in {0, 1, 3, 4, 9}, s \in {0, 1, 4, 6}}
Writes == {Write1("ram", FALSE, 1, FALSE, 0, 3), Write1("fw", TRUE, 1, FALSE, 0, 1)}
          \cup {Write1("ram", TRUE, w, a, s, l) : w \in 1 .. 2, a \in BOOLEAN, s \in {0, 1, 3}, l \in {0, 1, 2, 5, 9}}
Pairs == {<<Write1("ram", TRUE, 1, FALSE, 0, 1), Write1("ram", TRUE, 2, TRUE, 0, 4)>>,
          <<Write1("ram", TRUE, 2, FALSE, 0, 3), Read("fw", TRUE, 2, 4, 0)>>,
          <<Write1("ram", TRUE, 1, TRUE, 0, 2), Plain("ram")>>,
          <<Write1("ram", TRUE, 1, FALSE, 0, 1), Read("ram", TRUE, 1, 0, 0)>>}

\* What is read has fewer blocks than there are numbers.
Scenario(jobs, faults, resends) == [jobs |-> jobs, faults |-> faults, resends |-> resends]
MCScenarios ==
    {Scenario(<<<<r>>>>, b[1], b[2]) : r \in Reads, b \in {<<1, 1>>, <<0, 2>>}}
    \cup {Scenario(<<<<w>>>>, b[1], b[2]) : w \in Writes, b \in {<<1, 1>>, <<0, 2>>}}
    \cup {Scenario(<<<<w, Plain("ram")>>>>, 0, 1) : w \in {x \in Writes : x.seek + Len(x.data) < 4}}
    \cup {Scenario(<<<<p[1]>>, <<p[2]>>>>, 0, 2) : p \in Pairs}
=============================================================================
