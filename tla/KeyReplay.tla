----------------------------- MODULE KeyReplay -----------------------------
(***************************************************************************)
(* The key-frame recorder of the old driver, play_level in src/main.cpp.  *)
(* With record_replay set, every loop iteration records the key state     *)
(* when it differs from the last recorded one, as a key_frames entry      *)
(* [frame |-> cycle, keys |-> state].  A later run with the recording      *)
(* loaded replays it: when the next key frame is due at the current        *)
(* cycle, the player's key state is set from it.  One action is one        *)
(* iteration of the while loop; the level is abstracted to the sequence   *)
(* of key states its process() saw.  Portals and deaths are module       *)
(* Portal, composed with this one in PlayLevel; dialogs and drawing are    *)
(* the same in both runs and left out.                                     *)
(***************************************************************************)
EXTENDS Integers, Sequences, SequencesExt

CONSTANTS
  Keys,          \* key states CKey::Write can produce
  MaxCycle       \* the recording stops by this cycle

VARIABLES
  mode,          \* "record", "saved" (the recording is over), "replay", "done"
  cycle,         \* cycle of play_level
  keyRecord,     \* key_record
  pos,           \* key_record_pos
  pkeys,         \* the player's key state set by set_key_state
  inputs,        \* the key states process() has seen in this run
  recorded       \* the inputs of the recording run (history)

vars == <<mode, cycle, keyRecord, pos, pkeys, inputs, recorded>>

NoKeys == "none"   \* the player's key state before any set_key_state

-----------------------------------------------------------------------------
(* Variant: the frame is stamped with the next cycle.                     *)
RecordFrameLate(kr, c, k) ==
  IF kr = <<>> \/ Last(kr).keys # k THEN Append(kr, [frame |-> c + 1, keys |-> k])
  ELSE kr

(* The recording step: append a key frame when the key state changed.     *)
RecordFrame(kr, c, k) ==
  IF kr = <<>> \/ Last(kr).keys # k THEN Append(kr, [frame |-> c, keys |-> k])
  ELSE kr

(* Variant: the next frame is taken one cycle early.                      *)
DueFrameEarly(kr, p, c) == p < Len(kr) /\ kr[p + 1].frame = c + 1

(* The replay test: the next key frame is due at this cycle.              *)
DueFrame(kr, p, c) == p < Len(kr) /\ kr[p + 1].frame = c

-----------------------------------------------------------------------------
Init ==
  /\ mode = "record"
  /\ cycle = 0
  /\ keyRecord = <<>>
  /\ pos = 0
  /\ pkeys = NoKeys
  /\ inputs = <<>>
  /\ recorded = <<>>

(* One iteration with record_replay set: the key state k is recorded and  *)
(* read by the player in process(); quit (SDL_QUIT or Escape) sets done,  *)
(* which ends the loop after this iteration.                               *)
RecordCycle ==
  /\ mode = "record"
  /\ \E k \in Keys, quit \in BOOLEAN :
       /\ quit \/ cycle + 1 < MaxCycle
       /\ keyRecord' = RecordFrame(keyRecord, cycle, k)
       /\ inputs' = Append(inputs, k)
       /\ cycle' = cycle + 1
       /\ IF quit
            THEN /\ mode' = "saved" /\ recorded' = inputs'
            ELSE UNCHANGED <<mode, recorded>>
  /\ UNCHANGED <<pos, pkeys>>

(* Starting the replaying run: ctrl-s wrote key_record as replay_data     *)
(* into the save, read_key_frames reads it back, and play_level starts    *)
(* at cycle 0.                                                             *)
StartReplay ==
  /\ mode = "saved"
  /\ mode' = "replay"
  /\ cycle' = 0
  /\ inputs' = <<>>
  /\ UNCHANGED <<keyRecord, pos, pkeys, recorded>>

(* One iteration without record_replay and with key_record non-empty: a  *)
(* key press or joystick motion ends the replay after this iteration; a   *)
(* due key frame is applied, and after the last one play_level returns    *)
(* before process().                                                        *)
ReplayCycle ==
  /\ mode = "replay"
  /\ cycle < MaxCycle
  /\ \E quit \in BOOLEAN :
       IF DueFrame(keyRecord, pos, cycle)
         THEN LET k == keyRecord[pos + 1].keys IN
              /\ pkeys' = k
              /\ pos' = pos + 1
              /\ IF pos + 1 = Len(keyRecord)
                   THEN mode' = "done" /\ UNCHANGED <<inputs, cycle>>
                   ELSE /\ inputs' = Append(inputs, k)
                        /\ cycle' = cycle + 1
                        /\ mode' = IF quit THEN "done" ELSE mode
         ELSE /\ inputs' = Append(inputs, pkeys)
              /\ cycle' = cycle + 1
              /\ mode' = IF quit THEN "done" ELSE mode
              /\ UNCHANGED <<pkeys, pos>>
  /\ UNCHANGED <<keyRecord, recorded>>

Next == RecordCycle \/ StartReplay \/ ReplayCycle

Spec == Init /\ [][Next]_vars /\ WF_vars(StartReplay) /\ WF_vars(ReplayCycle)

-----------------------------------------------------------------------------
TypeOK ==
  /\ mode \in {"record", "saved", "replay", "done"}
  /\ cycle \in 0..MaxCycle
  /\ keyRecord \in Seq([frame : 0..(MaxCycle - 1), keys : Keys])
  /\ pos \in 0..Len(keyRecord)
  /\ pkeys \in Keys \cup {NoKeys}
  /\ inputs \in Seq(Keys \cup {NoKeys})

(* The replaying run feeds process() the key states of the recording, in  *)
(* order: what it has seen so far is a prefix of what the recording saw.  *)
ReplayFaithful == mode \in {"replay", "done"} => IsPrefix(inputs, recorded)

(* The replay ends: either a key press stops it or the last key frame is  *)
(* reached.                                                                *)
ReplayEnds == (mode = "replay") ~> (mode = "done")
=============================================================================
