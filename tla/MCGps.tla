------------------------------- MODULE MCGps -------------------------------
(***************************************************************************)
(* Small instances of GpsManager for TLC: one client id, one lease, two    *)
(* owner generations (a replaced owner), two fast failures (a retry and a  *)
(* parking), one death of the daemon.                                      *)
(***************************************************************************)
EXTENDS GpsManager

\* Forks all work or all fail: a chain of steps in one handler ends at the first that works,
\* which is the same as that step being in flight after the failures before it.
MCNoForkSets == {{}, ForkPoints}
MCForksWork == {{}}

\* gm_set is the last statement of its caller, or is as good as an Unlease just before it,
\* except where Teardown shows STOPPING.
MCDrops == {"STOPPING"}
MCNoDrops == {}
MCSwitchDrops == {"SWITCH"}
=============================================================================
