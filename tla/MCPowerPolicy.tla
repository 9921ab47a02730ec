--------------------------- MODULE MCPowerPolicy ---------------------------
(***************************************************************************)
(* PowerPolicy for TLC: the samples that matter to the shutdown and those   *)
(* that matter to the throttle.                                             *)
(***************************************************************************)
EXTENDS PowerPolicy

Sample(src, gauge, cap, low, temp, levels) ==
    [src |-> src, gauge |-> gauge, cap |-> cap, low |-> low, temp |-> temp, levels |-> levels]

\* Empty by capacity, by voltage, not quite, doubted or unread; hot on battery.
MCBattery ==
    {Sample("battery", "trusted", 1, FALSE, 1, TRUE), Sample("battery", "trusted", 2, TRUE, 1, TRUE),
     Sample("battery", "trusted", 2, FALSE, 4, TRUE), Sample("battery", "trusted", 5, TRUE, 1, TRUE),
     Sample("battery", "doubted", 1, FALSE, 1, TRUE), Sample("unknown", "trusted", 1, TRUE, 1, TRUE),
     Sample("battery", "trusted", 0, TRUE, 1, TRUE), Sample("battery", "trusted", 5, FALSE, 3, TRUE)}

\* Every temperature with a supply, levels that cannot be read.
MCCharging ==
    {Sample("online", "trusted", 5, FALSE, temp, TRUE) : temp \in 0 .. 4}
        \cup {Sample("online", "trusted", 5, FALSE, 3, FALSE), Sample("online", "trusted", 1, TRUE, 4, TRUE)}

MCSamples == MCBattery \cup MCCharging
=============================================================================
