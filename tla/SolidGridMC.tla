---------------------------- MODULE SolidGridMC ----------------------------
(* Instance of SolidGrid for TLC: tiles of 2x2 pixels, a window of 4x2     *)
(* tiles around the origin so that negative coordinates occur, a solid    *)
(* block, a slope and a pass-through ledge, and a foreground layer.       *)
EXTENDS SolidGrid

CONSTANT NoTileVal

Block == [all |-> TRUE,  pattern |-> {},                        pass |-> FALSE]
Slope == [all |-> FALSE, pattern |-> {<<0, 1>>, <<1, 1>>, <<1, 0>>}, pass |-> FALSE]
Ledge == [all |-> FALSE, pattern |-> {<<0, 0>>, <<1, 0>>},        pass |-> TRUE]

MCKinds == {Block, Slope, Ledge}
MCVariant == [k \in MCKinds |-> IF k = Slope THEN Ledge ELSE IF k = Ledge THEN Slope ELSE Block]
MCTXs == -2..1
MCTYs == -1..0
MCLayers == {0, 1000}

Ground == (<<-2, 0>> :> Block) @@ (<<-1, 0>> :> Slope) @@ (<<0, 0>> :> Block)
          @@ (<<1, 0>> :> Ledge) @@ (<<-1, -1>> :> Ledge)
MCInitTiles ==
  [z \in MCLayers |->
     [c \in TXs \X TYs |->
        IF z = 0 /\ c \in DOMAIN Ground THEN Ground[c]
        ELSE IF z = 1000 /\ c = <<0, -1>> THEN Block
        ELSE NoTileVal]]

NoRects == {}
OneRect == {<<-3, -2, -1, -1>>}

AlignedXs == {-4, -2, 0, 2}
AlignedYs == {-2, 0}
EastTXs == 0..3
RowTYs == {0}
UnalignedXs == {5, 7}
UnalignedYs == {1}
AreaXSet == {-3, -2, 0, 1, 3}
AreaYSet == {-2, -1, 1}
Origin == {0}
=============================================================================
