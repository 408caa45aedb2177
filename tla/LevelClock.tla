----------------------------- MODULE LevelClock -----------------------------
(***************************************************************************)
(* What a level promises the runner that drives it: the simulation is a   *)
(* clock.  Every change of the observable world comes with cycle_ moving  *)
(* forward by exactly one, so a rollback (restore a snapshot and re-run   *)
(* the ticks since) leaves the world exactly as it found it.               *)
(***************************************************************************)
EXTENDS Naturals

VARIABLES cycle, world

Init == cycle = 0

\* One tick: the cycle advances by one and the world may change in any way.
Advance == cycle' = cycle + 1

Spec == Init /\ [][Advance]_<<cycle, world>>
=============================================================================
