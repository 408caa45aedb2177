----------------------------- MODULE TextureMC -----------------------------
(* The graphics thread and one worker; three images, a two-id buffer.     *)
EXTENDS Texture

CONSTANTS G, W, T1, T2, T3

MCRequests == [th \in {G, W} |-> IF th = G THEN {T1, T3} ELSE {T2, T3}]
====
