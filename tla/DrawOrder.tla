----------------------------- MODULE DrawOrder -----------------------------
(***************************************************************************)
(* The drawing pass of class level: level::draw interleaves the layers of  *)
(* layers_ (tiles and props, drawn by draw_layer), the entities of chars_  *)
(* (at the breakpoint of their zorder), the water plane, the items, the    *)
(* players and the fluid.  The model keeps the order of chars_, the set    *)
(* layers_ and the writers of both (add_character, remove_character,       *)
(* add_prop); a draw is one step that records the sequence of draw calls   *)
(* it makes.  Tile and prop culling by the view rect is left out: a layer  *)
(* is one draw call.                                                       *)
(***************************************************************************)
EXTENDS Integers, Sequences, FiniteSets, SequencesExt

CONSTANTS
  Ents,          \* entities
  Human,         \* entities with is_human(): drawn from players_
  Z, Y, X,       \* [Ents -> Int]: zorder(), y(), x()
  InitChars,     \* chars_ after finish_loading: distinct entities
  TileLayers,    \* zorders of the tiles and props of the level file, and 0
  PropZs,        \* zorders of props the editor may add
  Spawnable,     \* non-human entities a script or the editor may add
  Removable,     \* entities that may be removed
  HasWater,      \* the level has a water_ node
  WaterZ,        \* water_->zorder()
  HasFluid,      \* fluid_ is set
  EditorModes,   \* values editor_ takes
  EndJunk        \* further values *layers_.end() may read

ASSUME Spawnable \cap Human = {}

VARIABLES
  chars,         \* chars_
  layers,        \* layers_
  frame,         \* the draw calls of the last draw, in order
  scene          \* chars and layers as that draw saw them (history)

vars == <<chars, layers, frame, scene>>

Fg == 1000     \* zorders from here on are the foreground

MaxZ == Max({Z[e] : e \in Ents})

-----------------------------------------------------------------------------
(* sort_entity_drawing_pos, with its duplicated middle disjunct.          *)
DrawingPosLessYFirst(a, b) ==
  Y[a] < Y[b] \/ (Y[a] = Y[b] /\ Z[a] < Z[b]) \/
  (Y[a] = Y[b] /\ Z[a] = Z[b] /\ X[a] < X[b])

DrawingPosLess(a, b) ==
  \/ Z[a] < Z[b]
  \/ Z[a] = Z[b] /\ Y[a] < Y[b]
  \/ Z[a] = Z[b] /\ Y[a] < Y[b]
  \/ Z[a] = Z[b] /\ Y[a] = Y[b] /\ X[a] < X[b]

(* The results std::sort may give: a permutation no later element of      *)
(* which is less than an earlier one (the sort is not stable).            *)
SortedChars(cs) ==
  {s \in SetToSeqs(ToSet(cs)) :
     \A i, j \in DOMAIN s : i < j => ~DrawingPosLess(s[j], s[i])}

(* draw_layer: nothing in the editor for a hidden foreground; otherwise   *)
(* the layer's props and tiles, one call here.                            *)
DrawLayer(L, editor, showFg) ==
  IF L >= Fg /\ editor /\ ~showFg THEN <<>> ELSE <<<<"layer", L>>>>

(* Variant: the loop draws the players as well.                          *)
RECURSIVE DrawEntitiesUpToWithHumans(_, _, _, _)
DrawEntitiesUpToWithHumans(cs, i, bound, out) ==
  IF i > Len(cs) \/ Z[cs[i]] > bound THEN [i |-> i, out |-> out]
  ELSE DrawEntitiesUpToWithHumans(cs, i + 1, bound, Append(out, <<"ent", cs[i]>>))

(* The inner while loop: draw the non-human entities of cs from index i   *)
(* while their zorder is at most bound.                                    *)
RECURSIVE DrawEntitiesUpTo(_, _, _, _)
DrawEntitiesUpTo(cs, i, bound, out) ==
  IF i > Len(cs) \/ Z[cs[i]] > bound THEN [i |-> i, out |-> out]
  ELSE DrawEntitiesUpTo(cs, i + 1, bound,
         IF cs[i] \in Human THEN out ELSE Append(out, <<"ent", cs[i]>>))

(* Variant: the water also goes below a layer at its own zorder.          *)
WaterDueAtLevel(wd, L) == ~wd /\ L >= WaterZ

(* The test before each layer: the water is not drawn yet and the layer   *)
(* lies above it.                                                          *)
WaterDue(wd, L) == ~wd /\ L > WaterZ

(* One of the two for loops over layers: for each layer, the water once   *)
(* the layer is above it, then the entities up to the layer, then the     *)
(* layer.  r carries the entity index, water_drawn and the calls.         *)
RECURSIVE DrawLayers(_, _, _, _, _)
DrawLayers(ls, cs, r, editor, showFg) ==
  IF ls = <<>> THEN r
  ELSE
    LET L   == Head(ls)
        wat == WaterDue(r.wd, L)
        o1  == IF wat THEN Append(r.out, <<"water", 0>>) ELSE r.out
        e   == DrawEntitiesUpTo(cs, r.i, L, o1)
    IN  DrawLayers(Tail(ls), cs,
          [i |-> e.i, wd |-> r.wd \/ wat,
           out |-> e.out \o DrawLayer(L, editor, showFg)],
          editor, showFg)

(* level::draw for the entity order cs: the negative layers, the items,   *)
(* the players, the fluid, the other layers, the water if still undrawn   *)
(* (read against *layer with layer == layers_.end(), the value g), and   *)
(* the entities above every layer.                                          *)
DrawCalls(cs, editor, showFg, g) ==
  LET ls  == SetToSortSeq(layers, <)
      r0  == [i |-> 1, wd |-> ~HasWater, out |-> <<>>]
      r1  == DrawLayers(SelectSeq(ls, LAMBDA L : L < 0), cs, r0, editor, showFg)
      mid == <<<<"items", 0>>, <<"players", 0>>>> \o
             (IF HasFluid THEN <<<<"fluid", 0>>>> ELSE <<>>)
      r2  == DrawLayers(SelectSeq(ls, LAMBDA L : L >= 0), cs,
                        [r1 EXCEPT !.out = @ \o mid], editor, showFg)
      o3  == IF ~r2.wd /\ g > WaterZ THEN Append(r2.out, <<"water", 0>>) ELSE r2.out
  IN  DrawEntitiesUpTo(cs, r2.i, MaxZ, o3).out

(* The values the read past the last layer can give: libstdc++ keeps the  *)
(* node count right where end() would hold its value.                      *)
EndDeref == {Cardinality(layers)} \cup EndJunk

-----------------------------------------------------------------------------
Init ==
  /\ chars = InitChars
  /\ layers = TileLayers \cup {Z[c] : c \in ToSet(InitChars)}
  /\ frame = <<>>
  /\ scene = [chars |-> InitChars, layers |-> layers]

(* level::draw(x, y, w, h): in the editor a sorted copy of chars_ is      *)
(* drawn, otherwise chars_ in its own order.                               *)
Draw(editor, showFg) ==
  /\ \E cs \in (IF editor THEN SortedChars(chars) ELSE {chars}), g \in EndDeref :
        frame' = DrawCalls(cs, editor, showFg, g)
  /\ scene' = [chars |-> chars, layers |-> layers]
  /\ UNCHANGED <<chars, layers>>

(* level::add_character of a non-human entity.                            *)
AddCharacter(e) ==
  /\ e \notin ToSet(chars)
  /\ chars' = Append(chars, e)
  /\ layers' = layers \cup {Z[e]}
  /\ UNCHANGED <<frame, scene>>

(* level::remove_character: chars_ loses e; layers_ keeps its zorder.     *)
RemoveCharacter(e) ==
  /\ e \in ToSet(chars)
  /\ chars' = Remove(chars, e)
  /\ UNCHANGED <<layers, frame, scene>>

(* level::add_prop: the prop's zorder becomes a layer.                    *)
AddProp(z) ==
  /\ layers' = layers \cup {z}
  /\ UNCHANGED <<chars, frame, scene>>

Next ==
  \/ \E ed \in EditorModes, fg \in BOOLEAN : Draw(ed, fg)
  \/ \E e \in Spawnable : AddCharacter(e)
  \/ \E e \in Removable : RemoveCharacter(e)
  \/ \E z \in PropZs : AddProp(z)

Spec == Init /\ [][Next]_vars

-----------------------------------------------------------------------------
(* A player is drawn only by the players_ pass.                            *)
Calls == ({"ent"} \X (Ents \ Human)) \cup ({"layer"} \X Int) \cup
         ({"water", "items", "players", "fluid"} \X {0})

TypeOK ==
  /\ chars \in Seq(Ents) /\ Len(chars) <= Cardinality(Ents)
  /\ layers \subseteq Int /\ IsFiniteSet(layers)
  /\ \A i \in DOMAIN frame : frame[i] \in Calls
  /\ scene.chars \in Seq(Ents)

Pos(c) == {i \in DOMAIN frame : frame[i] = c}

(* Spec 3 (draw order): every entity is drawn exactly once and in          *)
(* non-decreasing layer order: it comes after the tiles of every drawn    *)
(* layer below its zorder and before those of every layer at or above it. *)
DrawOrderConsistent ==
  frame # <<>> =>
  \A e \in ToSet(scene.chars) \ Human :
     /\ Cardinality(Pos(<<"ent", e>>)) = 1
     /\ \A L \in scene.layers : \A i \in Pos(<<"ent", e>>), j \in Pos(<<"layer", L>>) :
          (i < j) <=> (Z[e] <= L)

(* The water plane is drawn exactly once, between the layers at or below  *)
(* its zorder and the layers above it.                                     *)
WaterDrawnOnce ==
  frame # <<>> /\ HasWater =>
    /\ Cardinality(Pos(<<"water", 0>>)) = 1
    /\ \A L \in scene.layers : \A i \in Pos(<<"water", 0>>), j \in Pos(<<"layer", L>>) :
          (i < j) <=> (L > WaterZ)
=============================================================================
