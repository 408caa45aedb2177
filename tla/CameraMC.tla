----------------------------- MODULE CameraMC -----------------------------
(* A 20 by 36 pixel view (the screen less the status bar) over a level of *)
(* 22 by 40 pixels: the camera travels two pixels across and four down.   *)
EXTENDS Camera

MCBounds == <<0, 0, 22, 40>>
NoAutoMove == <<0, 0>>
RightAutoMove == <<1, 0>>
MCInitFeet == <<5, 25>>
=============================================================================
