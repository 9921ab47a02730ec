----------------------------- MODULE MCButtond -----------------------------
(***************************************************************************)
(* The instance of Buttond that TLC checks: power and volume up, whose     *)
(* events come from two devices, and clients that claim a gesture of each  *)
(* kind that changes what the daemon does.                                 *)
(***************************************************************************)
EXTENDS Buttond

MCClaimable == {<<"power", "long">>, <<"power", "double">>, Watch}
=============================================================================
