------------------------------ MODULE LevelMC ------------------------------
(***************************************************************************)
(* Small levels for model checking Level.  The file's player Q is        *)
(* replaced on entry by the arriving player P, who starts at x = 0 and    *)
(* steps 0 or 1 to the right each cycle; neither carries a label.  A     *)
(* stands still, B walks right and falls off the right edge, C walks      *)
(* right and dies when the player falls behind, D is spawned by a script. *)
(* The player's record may list A or C as destroyed before.  Each        *)
(* configuration picks which of them are grouped, removable and so on.    *)
(***************************************************************************)
EXTENDS Level

CONSTANTS P, Q, A, B, C, D

MCEnts == {P, Q, A, B, C, D}
MCInitChars == <<Q, A, B, C>>
MCLabel == [e \in MCEnts |-> CASE e = A -> "a"
                                [] e = D -> "d"
                                [] OTHER -> ""]
MCVel == [e \in MCEnts |-> CASE e = B -> 1 [] e = C -> 1 [] e = D -> -1 [] OTHER -> 0]
MCInitX == [e \in MCEnts |-> CASE e = A -> 3 [] e = B -> 4 [] e = C -> 1
                                [] e = D -> 3 [] OTHER -> 0]

\* A and B share group 0.
GroupedAB == [e \in MCEnts |-> IF e \in {A, B} THEN 0 ELSE -1]
\* No entity is grouped.
Ungrouped == [e \in MCEnts |-> -1]

\* One item, at x = 2.
OneItem == {1}
OneItemX == [n \in OneItem |-> 2]
NoItemX == [n \in {} |-> 0]
=============================================================================
