----------------------------- MODULE MCLineSrv -----------------------------
(* LineSrv for TLC: much said; much asked; two peers; slots reused. *)
EXTENDS LineSrv

Case(conns, asks, says, closes) ==
    [conns |-> conns, asks |-> asks, says |-> says, closes |-> closes]
MCScenarios ==
    {Case(1, 0, 6, 1), Case(1, 3, 1, 0), Case(2, 1, 1, 1), Case(3, 1, 0, 2)}
=============================================================================
