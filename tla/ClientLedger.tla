---------------------------- MODULE ClientLedger ----------------------------
(***************************************************************************)
(* What gps-manager promises about the LOC client id it holds at the modem *)
(* bridge, without saying how: at most one at a time, written down (`note`)*)
(* in the same instant it becomes known and for as long as it is owned, so *)
(* that a death at any moment leaves the note, and a new id is taken only  *)
(* when the note of the previous one has been settled.                     *)
(***************************************************************************)
CONSTANTS
    Ids,    \* client ids
    None    \* none of them

VARIABLES
    own,      \* the client id in use, or None
    note,     \* the client id a successor would find written down, or None
    engaged   \* a LOC session may be running on `own`

ledger == <<own, note, engaged>>

Init == own = None /\ note = None /\ engaged = FALSE

Take(c) == own = None /\ note = None /\ own' = c /\ note' = c /\ engaged' = FALSE
Engage == own # None /\ engaged' = TRUE /\ UNCHANGED <<own, note>>
Disengage == own # None /\ engaged' = FALSE /\ UNCHANGED <<own, note>>
Give == own # None /\ own' = None /\ note' = None /\ engaged' = FALSE
Die == own' = None /\ engaged' = FALSE /\ UNCHANGED note
Settle == own = None /\ note' = None /\ UNCHANGED <<own, engaged>>

Next == (\E c \in Ids : Take(c)) \/ Engage \/ Disengage \/ Give \/ Die \/ Settle

Spec == Init /\ [][Next]_ledger

=============================================================================
