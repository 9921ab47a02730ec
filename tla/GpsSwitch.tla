----------------------------- MODULE GpsSwitch -----------------------------
(***************************************************************************)
(* The saved GPS switch: gps-manager (src/tools/gps-manager/main.c and     *)
(* server.c) reads it at start and saves every client's change with        *)
(* chef-state, a shell script run as a child, so that storage never blocks *)
(* the daemon.  Both children hang when storage does and are killed, with  *)
(* their process group, at their bound.                                    *)
(*                                                                         *)
(* A value of the switch is the number of the client's request that set it *)
(* and its position, [n, on]; 0 is what the file held before the first.    *)
(*                                                                         *)
(*   m       the daemon: the switch it serves, whether that is loaded, the *)
(*           loader and what it has read, a change waiting for its save    *)
(*   saver   the chef-state gps-save of this instance                      *)
(*   orphans the parts of a dead instance's saver that outlive it: the     *)
(*           daemon's death signals its direct child only                  *)
(*   disk    the saved file; lock whether a saver holds the kind's lock    *)
(*   asked   the newest request answered "ok" (history)                    *)
(*   reported  a log line since it has said that it may not be saved, or   *)
(*           that the saved one could not be read (history)                *)
(*   orphaned  since it the daemon died with it unsaved, or what a dead    *)
(*           instance left has written over it (history)                   *)
(***************************************************************************)
EXTENDS Integers, FiniteSets

CONSTANTS
    MaxAsks,      \* requests in a behaviour
    MaxExits,     \* orderly exits
    MaxCrashes    \* deaths of the daemon

ASSUME BoundsAssumption == MaxAsks \in Nat /\ MaxExits \in Nat /\ MaxCrashes \in Nat

VARIABLES m, saver, orphans, disk, asked, reported, orphaned, exits, crashes

vars == <<m, saver, orphans, disk, asked, reported, orphaned, exits, crashes>>

Switch == [n : 0 .. MaxAsks, on : BOOLEAN]
\* Where a saver is: queueing for the lock, writing under it, exited with 0 or not.
Places == {"queued", "writing", "done", "failed"}
NoSaver == [running |-> FALSE, at |-> "done", value |-> [n |-> 0, on |-> TRUE], bounded |-> FALSE]
Saving(v) == [running |-> TRUE, at |-> "queued", value |-> v, bounded |-> TRUE]

\* At start: taken as enabled until the loader, here already forked, has answered.
Fresh == [mode |-> "serving", on |-> TRUE, loaded |-> FALSE, loader |-> "running",
          answer |-> TRUE, pending |-> FALSE]
\* The loader could not be forked: on, and that is logged.
FreshUnforked == [Fresh EXCEPT !.loaded = TRUE, !.loader = "none"]

LockFree == ~(saver.running /\ saver.at = "writing") /\ \A o \in orphans : o.at # "writing"

-----------------------------------------------------------------------------
(* Saving.                                                                  *)

\* A change that comes while a save runs is dropped.
SaveSwitchOnce(q, v, busy, said) ==
    \/ busy /\ m' = q /\ saver' = saver /\ reported' = said
    \/ ~busy /\ m' = q /\ saver' \in {Saving(v), NoSaver} /\ reported' = (said \/ ~saver'.running)

\* shell_save_switch: one at a time; a fork that fails is logged.
SaveSwitch(q, v, busy, said) ==
    \/ busy /\ m' = [q EXCEPT !.pending = TRUE] /\ saver' = saver /\ reported' = said
    \/ /\ ~busy
       /\ m' = [q EXCEPT !.pending = FALSE]
       /\ saver' \in {Saving(v), NoSaver}
       /\ reported' = (said \/ ~saver'.running)

\* `enable` and `disable`: served at once, saved by a child.
Ask ==
    /\ m.mode = "serving" /\ asked.n < MaxAsks
    /\ \E on \in BOOLEAN :
        /\ asked' = [n |-> asked.n + 1, on |-> on]
        /\ SaveSwitch([m EXCEPT !.on = on, !.loaded = TRUE], asked', saver.running, FALSE)
    /\ orphaned' = FALSE
    /\ UNCHANGED <<orphans, disk, exits, crashes>>

\* The script takes the lock, or waits for whoever has it.
Lock ==
    /\ LockFree
    /\ \/ /\ saver.running /\ saver.at = "queued"
          /\ saver' = [saver EXCEPT !.at = "writing"]
          /\ UNCHANGED orphans
       \/ \E o \in orphans :
            /\ o.at = "queued"
            /\ orphans' = (orphans \ {o}) \cup {[o EXCEPT !.at = "writing"]}
            /\ UNCHANGED saver
    /\ UNCHANGED <<m, disk, asked, reported, orphaned, exits, crashes>>

\* It replaces the file, or fails and says so (even after the rename, if a sync fails).
Write ==
    /\ saver.running /\ saver.at = "writing"
    /\ \/ disk' = saver.value /\ saver' = [saver EXCEPT !.at = "done"]
       \/ disk' \in {disk, saver.value} /\ saver' = [saver EXCEPT !.at = "failed"]
    /\ UNCHANGED <<m, orphans, asked, reported, orphaned, exits, crashes>>

OrphanEnds ==
    /\ \E o \in orphans :
        /\ orphans' = orphans \ {o}
        /\ disk' \in {disk} \cup {v \in {o.value} : o.at = "writing"}
    /\ orphaned' = (orphaned \/ disk'.n < disk.n)
    /\ UNCHANGED <<m, saver, asked, reported, exits, crashes>>

\* Only the script is killed; what it has forked goes on.
SaveCheckOne ==
    /\ saver.running /\ saver.bounded
    /\ saver' = [saver EXCEPT !.at = IF @ = "done" THEN @ ELSE "failed", !.bounded = FALSE]
    /\ orphans' = IF saver.at \in {"queued", "writing"}
                  THEN orphans \cup {[at |-> saver.at, value |-> saver.value]} ELSE orphans
    /\ reported' = TRUE
    /\ UNCHANGED <<m, disk, asked, orphaned, exits, crashes>>

\* shell_save_check: over its bound it is killed, whatever of it holds the lock.
SaveCheck ==
    /\ saver.running /\ saver.bounded
    /\ saver' = [saver EXCEPT !.at = IF @ = "done" THEN @ ELSE "failed", !.bounded = FALSE]
    /\ reported' = TRUE
    /\ UNCHANGED <<m, orphans, disk, asked, orphaned, exits, crashes>>

\* shell_reap, the saver's part: a change that waited has its turn.
ReapSaver ==
    /\ saver.running /\ saver.at \in {"done", "failed"}
    /\ LET said == reported \/ saver.at = "failed"
       IN  IF m.pending
           THEN SaveSwitch(m, asked, FALSE, said)
           ELSE saver' = NoSaver /\ reported' = said /\ UNCHANGED m
    /\ UNCHANGED <<orphans, disk, asked, orphaned, exits, crashes>>

-----------------------------------------------------------------------------
(* Loading.                                                                 *)

LoadReads ==
    /\ m.loader = "running"
    /\ m' = [m EXCEPT !.loader = "read", !.answer = disk.on]
    /\ UNCHANGED <<saver, orphans, disk, asked, reported, orphaned, exits, crashes>>

\* shell_load_check: the answer, or none that can be used in time; a client's request since
\* the start wins over both.
LoadCheck ==
    /\ m.loader \in {"running", "read"}
    /\ \E use \in BOOLEAN :
        /\ use => m.loader = "read"
        /\ m' = [m EXCEPT !.loader = "none", !.loaded = TRUE,
                          !.on = CASE m.loaded -> @ [] ~m.loaded /\ use -> m.answer [] OTHER -> TRUE]
        /\ reported' = (reported \/ ~use)
    /\ UNCHANGED <<saver, orphans, disk, asked, orphaned, exits, crashes>>

-----------------------------------------------------------------------------
(* Exit, death, the next instance.                                          *)

Term ==
    /\ m.mode = "serving" /\ exits < MaxExits
    /\ m' = [m EXCEPT !.mode = "draining"]
    /\ UNCHANGED <<saver, orphans, disk, asked, reported, orphaned, exits, crashes>>

\* The end of main: the newest change is saved, or out of time and that is logged.
Exit ==
    /\ m.mode = "draining"
    /\ reported' = (reported \/ saver.running \/ m.pending)
    /\ saver' = NoSaver
    /\ m' = [m EXCEPT !.mode = "gone", !.pending = FALSE, !.loader = "none"]
    /\ exits' = exits + 1
    /\ UNCHANGED <<orphans, disk, asked, orphaned, crashes>>

\* The daemon dies; its saver's script dies with it, but not what that has forked.
Crash ==
    /\ m.mode # "gone" /\ crashes < MaxCrashes
    /\ crashes' = crashes + 1
    /\ orphans' = IF saver.running /\ saver.at \in {"queued", "writing"}
                  THEN orphans \cup {[at |-> saver.at, value |-> saver.value]} ELSE orphans
    /\ orphaned' = (orphaned \/ m.pending \/ (saver.running /\ saver.at # "done"))
    /\ saver' = NoSaver
    /\ m' = [m EXCEPT !.mode = "gone", !.pending = FALSE, !.loader = "none"]
    /\ UNCHANGED <<disk, asked, reported, exits>>

Respawn ==
    /\ m.mode = "gone"
    /\ \/ m' = Fresh /\ UNCHANGED reported
       \/ m' = FreshUnforked /\ reported' = TRUE
    /\ UNCHANGED <<saver, orphans, disk, asked, orphaned, exits, crashes>>

-----------------------------------------------------------------------------
Init ==
    /\ \E on \in BOOLEAN : disk = [n |-> 0, on |-> on] /\ asked = [n |-> 0, on |-> on]
    /\ m = Fresh /\ saver = NoSaver /\ orphans = {}
    /\ reported = FALSE /\ orphaned = FALSE /\ exits = 0 /\ crashes = 0

Next ==
    \/ Ask \/ Lock \/ Write \/ OrphanEnds \/ SaveCheck \/ ReapSaver
    \/ LoadReads \/ LoadCheck
    \/ Term \/ Exit \/ Crash \/ Respawn

Spec == Init /\ [][Next]_vars

\* The poll loop runs: a saver over its bound is killed, an exited child is reaped, the
\* loader's bound passes.  Storage owes nothing.
FairSpec ==
    /\ Spec
    /\ WF_vars(SaveCheck) /\ WF_vars(ReapSaver) /\ WF_vars(LoadCheck) /\ WF_vars(Exit)

-----------------------------------------------------------------------------
TypeOK ==
    /\ m \in [mode : {"serving", "draining", "gone"}, on : BOOLEAN, loaded : BOOLEAN,
              loader : {"none", "running", "read"}, answer : BOOLEAN, pending : BOOLEAN]
    /\ saver \in [running : BOOLEAN, at : Places, value : Switch, bounded : BOOLEAN]
    /\ orphans \subseteq [at : {"queued", "writing"}, value : Switch]
    /\ {disk, asked} \subseteq Switch
    /\ {reported, orphaned} \subseteq BOOLEAN

\* Once nothing is being saved (shell_save_switch, shell_reap, the drain at the end of main),
\* the file holds what clients were last told, or a log line says that it may not, or a
\* death of the daemon took it.
SavedOrReported ==
    ~saver.running /\ ~m.pending /\ orphans = {} => disk = asked \/ reported \/ orphaned

\* What the daemon serves once it has read the switch (shell_load_check against a client's
\* `enable` or `disable`) is what was last asked of it or of the instance before it.
ServesNewest == m.loaded => m.on = asked.on \/ reported \/ orphaned

\* The switch is where clients left it, in the daemon and in the file.
SwitchIsKept == TypeOK /\ SavedOrReported /\ ServesNewest

\* The newest value wins (main.c, "one at a time, the last value wins"; docs/features/gps.md,
\* "the newest value wins") while no instance has died: a save killed at its bound or at the
\* exit leaves nothing that writes later.
NeverOlder == [][crashes = 0 => disk.n <= disk'.n]_disk

\* And no change waits for ever behind a save that hangs (shell_save_check).
NewestWins == NeverOlder /\ (m.pending ~> ~m.pending)

=============================================================================
