----------------------------- MODULE MCBleLinks -----------------------------
(* BleLinks for TLC: scans with the sensor out of reach, links without scans, both. *)
EXTENDS BleLinks

Case(scans, reach, requests, events) ==
    [scans |-> scans, reach |-> reach, requests |-> requests, events |-> events]
MCScenarios == {Case(TRUE, FALSE, 3, 1), Case(FALSE, TRUE, 3, 1), Case(TRUE, TRUE, 2, 0)}
=============================================================================
