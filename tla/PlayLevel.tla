----------------------------- MODULE PlayLevel -----------------------------
(***************************************************************************)
(* The old driver's play_level loop (src/main.cpp) as the composition of  *)
(* its two parts: the key frames it records or replays (module KeyReplay) *)
(* and the level transitions at the head of every iteration (module       *)
(* Portal).  Every iteration first respawns or takes a portal, then       *)
(* records or replays the key state, then runs lvl->process(), except     *)
(* when the last key frame is replayed: play_level returns before         *)
(* process().  The replaying run is a new run of the program, which loads *)
(* the start level again.                                                  *)
(***************************************************************************)
EXTENDS Integers, Sequences

CONSTANTS
  Keys, MaxCycle,
  Levels, NoLevel, Start, Bounds, PrevLevel, NextLevel, Doors, FilePlayerX,
  Forced, BodyW, MinX, MaxX

VARIABLES
  mode, cycle, keyRecord, pos, pkeys, inputs, recorded,
  lvl, px, alive, entered, taken

vars == <<mode, cycle, keyRecord, pos, pkeys, inputs, recorded, lvl, px, alive, entered, taken>>

Kr == INSTANCE KeyReplay
Pt == INSTANCE Portal

(* The replay branch that returns before process(): the last key frame is *)
(* due at this cycle.                                                      *)
ReturnsEarly ==
  Kr!DueFrame(keyRecord, pos, cycle) /\ pos + 1 = Len(keyRecord)

Init == Kr!Init /\ Pt!Init

RecordIteration == Kr!RecordCycle /\ Pt!Iterate(TRUE)

NewRun == Kr!StartReplay /\ Pt!LoadStart

ReplayIteration == Kr!ReplayCycle /\ Pt!Iterate(~ReturnsEarly)

Next == RecordIteration \/ NewRun \/ ReplayIteration

Spec == Init /\ [][Next]_vars /\ WF_vars(NewRun) /\ WF_vars(ReplayIteration)

-----------------------------------------------------------------------------
TypeOK == Kr!TypeOK /\ Pt!TypeOK

(* The replaying run feeds process() the key states of the recording, in  *)
(* order, while the player walks through portals and respawns.            *)
ReplayFaithful == Kr!ReplayFaithful

(* The replay ends: a key press stops it or the last key frame is reached. *)
ReplayEnds == Kr!ReplayEnds

(* A portal a script forced with force_enter_portal is taken by the next  *)
(* iteration of play_level, whatever edge or door the player stands at,   *)
(* unless the player died: the respawn loads a fresh level of the save's  *)
(* current_level, which drops the forced portal.                          *)
ForcedPortalTaken ==
  [][(mode \in {"record", "replay"} /\ entered # Pt!NoPortal /\ alive) => taken' = entered]_vars
=============================================================================
