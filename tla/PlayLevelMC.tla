---------------------------- MODULE PlayLevelMC ----------------------------
(* Two key states and recordings of up to five cycles, over two levels of *)
(* three columns joined by their edges.  The second level has a door back *)
(* that opens on enter, and a script may force a portal to the second     *)
(* level's starting position.  The game is saved at the start.           *)
EXTENDS PlayLevel, TLC

CONSTANTS Left, Jump, A, B, None

Door(ax, ax2, to, dest, startPos, auto) ==
  [ax |-> ax, ax2 |-> ax2, level_dest |-> to, dest |-> dest,
   dest_starting_pos |-> startPos, automatic |-> auto]

MCBounds    == (A :> [x |-> 0, x2 |-> 3]) @@ (B :> [x |-> 0, x2 |-> 3])
MCPrevLevel == (A :> None) @@ (B :> A)
MCNextLevel == (A :> B) @@ (B :> None)
MCDoors     == (A :> <<>>) @@ (B :> <<Door(2, 3, A, 1, FALSE, FALSE)>>)
MCFilePlayerX == (A :> 1) @@ (B :> 2)
MCForced    == {Door(0, 0, B, 0, TRUE, TRUE)}
MCMinX      == -1
====
