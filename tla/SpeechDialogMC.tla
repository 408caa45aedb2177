---------------------------- MODULE SpeechDialogMC ----------------------------
(* A conversation of three lines (the middle one two characters long) or  *)
(* of one line, three options or none, one speaker, and every joystick     *)
(* button process() reads.                                                  *)
EXTENDS SpeechDialog

CONSTANTS L1, L2, L3, O1, O2, O3, S, Null

MCLineSize == [l \in {L1, L2, L3} |-> IF l = L2 THEN 2 ELSE 1]
MCTexts == {<<L1, L2, L3>>, <<L2>>}
MCOptionLists == {<<>>, <<O1, O2, O3>>}
=============================================================================
