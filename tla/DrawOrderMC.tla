---------------------------- MODULE DrawOrderMC ----------------------------
(* A player P, two entities A and B from the level file, a spawnable C   *)
(* below them and a spawnable D whose sort key equals A's; the editor may *)
(* add props on the layers -2, 1 and 1000.                                 *)
EXTENDS DrawOrder

CONSTANTS P, A, B, C, D

MCEnts == {P, A, B, C, D}
MCZ == [e \in MCEnts |-> CASE e = P -> 0 [] e = A -> 0 [] e = B -> 1 [] e = C -> -2 [] e = D -> 0]
MCY == [e \in MCEnts |-> CASE e = P -> 1 [] e = A -> 2 [] e = B -> 0 [] e = C -> 1 [] e = D -> 2]
MCX == [e \in MCEnts |-> CASE e = P -> 0 [] e = A -> 0 [] e = B -> 0 [] e = C -> 0 [] e = D -> 0]
MCInitChars == <<P, A, B>>
MCTileLayers == {0, -1}
MCPropZs == {-2, 1, 1000}
LowWater == -1
====
