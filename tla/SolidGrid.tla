----------------------------- MODULE SolidGrid -----------------------------
(***************************************************************************)
(* The two solidity maps of class level (solid_ and standable_): sparse    *)
(* maps from a tile position to a solid_info {all_solid, bitmap}, the     *)
(* point query is_solid, the writers set_solid, add_solid_rect,            *)
(* add_tile_solid and set_solid_area, and the tile edits that rebuild a    *)
(* region of the maps (flip_variations, add_tile_rect + refresh_tile_rect, *)
(* both through rebuild_tiles_rect).                                       *)
(*                                                                         *)
(* TileSize is 32 in the code (also written as the literal 32 in the     *)
(* negative-remainder fix-ups); here it is the constant T.  Friction,      *)
(* traction and damage are left out: no property tells them apart.         *)
(* Every tile object is one tile large and faces right.                    *)
(***************************************************************************)
EXTENDS Integers, FiniteSets, TLC

CONSTANTS
  T,           \* TileSize
  TXs, TYs,    \* tile columns and rows of the modelled part of the level
  Layers,      \* zorders of the tile maps; >= 1000 is foreground
  Kinds,       \* tile objects: [all: BOOLEAN, pattern: SUBSET pixel, pass: BOOLEAN]
  NoTile,      \* an empty cell of a tile map
  InitTiles,   \* [Layers -> [TXs \X TYs -> Kinds \cup {NoTile}]]
  SolidRects,  \* solid_rects_ of the level file: <<x1, y1, x2, y2>>
  Variant,     \* [Kinds -> Kinds]: the next variation of a tile object
  PaintXs,     \* pixel x coordinates the editor passes to tile edits
  PaintYs,     \* pixel y coordinates the editor passes to tile edits
  AreaXs,      \* pixel x coordinates of set_solid_area rects
  AreaYs,      \* pixel y coordinates of set_solid_area rects
  MaxEdits     \* bound on the number of edits

ASSUME T \in Nat \ {0} /\ MaxEdits \in Nat

VARIABLES
  solid,       \* solid_
  standable,   \* standable_
  tmap,        \* tile_maps_: the tile of every cell of every layer
  edits,       \* number of edits so far
  last         \* the last edit and its arguments (history, for properties)

vars == <<solid, standable, tmap, edits, last>>

TilePos == TXs \X TYs
PixX == {tx * T + d : tx \in TXs, d \in 0..(T - 1)}
PixY == {ty * T + d : ty \in TYs, d \in 0..(T - 1)}
Idx  == 0..(T * T - 1)
Info == [all: BOOLEAN, bits: SUBSET Idx]
Full == Idx

-----------------------------------------------------------------------------
(* C++ integer division and remainder truncate toward zero.               *)
CDiv(a, b) == IF a >= 0 THEN a \div b ELSE -((-a) \div b)
CMod(a, b) == a - b * CDiv(a, b)

(* Variants of the pixel placement: the fix-up written with the literal  *)
(* 32 whatever TileSize is, and no fix-up for a negative remainder.       *)
LocateLiteral32(x, y) ==
  LET xm == CMod(x, T)
      ym == CMod(y, T)
  IN [pos   |-> <<IF xm < 0 THEN CDiv(x, T) - 1 ELSE CDiv(x, T),
                  IF ym < 0 THEN CDiv(y, T) - 1 ELSE CDiv(y, T)>>,
      index |-> (IF ym < 0 THEN ym + 32 ELSE ym) * T + (IF xm < 0 THEN xm + 32 ELSE xm)]
LocateNoBorrow(x, y) ==
  [pos |-> <<CDiv(x, T), CDiv(y, T)>>, index |-> CMod(y, T) * T + CMod(x, T)]

(* The tile position and bitmap index of a pixel, as is_solid and         *)
(* set_solid compute them: truncating division, then a negative remainder *)
(* borrows one tile.                                                       *)
Locate(x, y) ==
  LET xm == CMod(x, T)
      ym == CMod(y, T)
  IN [pos   |-> <<IF xm < 0 THEN CDiv(x, T) - 1 ELSE CDiv(x, T),
                  IF ym < 0 THEN CDiv(y, T) - 1 ELSE CDiv(y, T)>>,
      index |-> (IF ym < 0 THEN ym + T ELSE ym) * T + (IF xm < 0 THEN xm + T ELSE xm)]

(* level::is_solid on one map.                                            *)
IsSolid(m, x, y) ==
  LET l == Locate(x, y)
  IN  l.pos \in DOMAIN m /\ (m[l.pos].all \/ l.index \in m[l.pos].bits)

(* map[pos] of std::map: the entry, value-initialised when absent.        *)
Entry(m, p) == IF p \in DOMAIN m THEN m[p] ELSE [all |-> FALSE, bits |-> {}]

(* Variant: clearing a pixel of an all_solid tile without expanding it.  *)
SetSolidPixelsNoExpand(m, pix, value) ==
  LET locs    == {Locate(q[1], q[2]) : q \in pix}
      touched == {l.pos : l \in locs}
      bitsAt(p) == {l.index : l \in {l \in locs : l.pos = p}}
      Upd(i, p) == IF value THEN [i EXCEPT !.bits = @ \cup bitsAt(p)]
                            ELSE [all |-> FALSE, bits |-> i.bits \ bitsAt(p)]
  IN [p \in DOMAIN m \cup touched |-> IF p \in touched THEN Upd(Entry(m, p), p) ELSE m[p]]

(* level::set_solid applied to every pixel of a set.  Setting ORs the     *)
(* bit in; clearing first expands an all_solid tile to a full bitmap.     *)
SetSolidPixels(m, pix, value) ==
  LET locs    == {Locate(q[1], q[2]) : q \in pix}
      touched == {l.pos : l \in locs}
      bitsAt(p) == {l.index : l \in {l \in locs : l.pos = p}}
      Upd(i, p) == IF value
                     THEN [i EXCEPT !.bits = @ \cup bitsAt(p)]
                     ELSE [all |-> FALSE, bits |-> (IF i.all THEN Full ELSE i.bits) \ bitsAt(p)]
  IN [p \in DOMAIN m \cup touched |->
        IF p \in touched THEN Upd(Entry(m, p), p) ELSE m[p]]

Pixels(x1, y1, x2, y2) == {<<x, y>> \in (x1..(x2 - 1)) \X (y1..(y2 - 1)) : TRUE}

(* level::solid(x, y): is_solid on solid_.                               *)
SolidAt(x, y) == IsSolid(solid, x, y)

(* level::standable_tile: solid_ or standable_ at the pixel, no entity.    *)
StandableTile(x, y) == IsSolid(solid, x, y) \/ IsSolid(standable, x, y)

(* level::solid(rect): any pixel from (r.x(), r.y()) up to, excluding,    *)
(* (r.x2(), r.y2()) is solid; the loops test != and are empty for an      *)
(* empty rect.                                                             *)
SolidRect(x1, y1, x2, y2) == \E q \in Pixels(x1, y1, x2, y2) : SolidAt(q[1], q[2])

(* level::add_solid_rect: per-pixel unless every corner is tile aligned,  *)
(* in which case whole tiles are marked all_solid.                         *)
AddSolidRect(m, x1, y1, x2, y2) ==
  IF CMod(x1, T) # 0 \/ CMod(y1, T) # 0 \/ CMod(x2, T) # 0 \/ CMod(y2, T) # 0
    THEN SetSolidPixels(m, Pixels(x1, y1, x2, y2), TRUE)
    ELSE LET tiles == {<<CDiv(x, T), CDiv(y, T)>> :
                         x \in {x \in x1..(x2 - 1) : CMod(x - x1, T) = 0},
                         y \in {y \in y1..(y2 - 1) : CMod(y - y1, T) = 0}}
         IN [p \in DOMAIN m \cup tiles |->
               IF p \in tiles THEN [Entry(m, p) EXCEPT !.all = TRUE] ELSE m[p]]

(* level::add_tile_solid for every tile of a set of cells, on both maps.  *)
(* Foreground layers add nothing; an all_solid object adds a tile-aligned *)
(* solid rect; otherwise each solid pixel of its pattern goes to          *)
(* standable_ for a pass-through object and to solid_ for the others.     *)
AddTileSolids(g, cells, tiles) ==
  LET placed == {<<z, c>> \in {z \in Layers : z < 1000} \X cells : tiles[z][c] # NoTile}
      Obj(zc) == tiles[zc[1]][zc[2]]
      fullCells == {zc[2] : zc \in {zc \in placed : Obj(zc).all}}
      PatPix(pass) == UNION {{<<zc[2][1] * T + q[1], zc[2][2] * T + q[2]>> : q \in Obj(zc).pattern}
                             : zc \in {zc \in placed : ~Obj(zc).all /\ Obj(zc).pass = pass}}
      s1 == LET f == fullCells
            IN  [p \in DOMAIN g.solid \cup f |->
                   IF p \in f THEN [Entry(g.solid, p) EXCEPT !.all = TRUE] ELSE g.solid[p]]
  IN [solid     |-> SetSolidPixels(s1, PatPix(FALSE), TRUE),
      standable |-> SetSolidPixels(g.standable, PatPix(TRUE), TRUE)]

(* level::rebuild_tiles_rect: erase the map entries at x/TileSize for x   *)
(* stepping by TileSize from r.x() (truncating division), then rebuild    *)
(* the tiles whose top-left corner lies in r (TileInRect, build_tiles).    *)
Steps(a, b) == {a + k * T : k \in 0..((b - a - 1) \div T)}
(* Variant: the erase loops run while x <= r.x2().                        *)
RebuildTilesRectInclusive(g, tiles, rx, ry, rx2, ry2) ==
  LET erased == {<<CDiv(x, T), CDiv(y, T)>> : x \in Steps(rx, rx2 + 1), y \in Steps(ry, ry2 + 1)}
      keep(m) == [p \in DOMAIN m \ erased |-> m[p]]
      inR    == {c \in TilePos : c[1] * T \in rx..(rx2 - 1) /\ c[2] * T \in ry..(ry2 - 1)}
  IN  AddTileSolids([solid |-> keep(g.solid), standable |-> keep(g.standable)], inR, tiles)
RebuildTilesRect(g, tiles, rx, ry, rx2, ry2) ==
  LET erased == {<<CDiv(x, T), CDiv(y, T)>> : x \in Steps(rx, rx2), y \in Steps(ry, ry2)}
      keep(m) == [p \in DOMAIN m \ erased |-> m[p]]
      inR    == {c \in TilePos : c[1] * T \in rx..(rx2 - 1) /\ c[2] * T \in ry..(ry2 - 1)}
  IN  AddTileSolids([solid |-> keep(g.solid), standable |-> keep(g.standable)], inR, tiles)

(* round_tile_size: n - n%32 for n >= 0; otherwise n = -n + 32 and the    *)
(* negated rounding of that.                                              *)
RoundTileSize(n) ==
  IF n >= 0 THEN n - CMod(n, T)
            ELSE LET m == -n + T IN -(m - CMod(m, T))

(* The cells add_tile_rect_vector_internal writes: both corners swapped   *)
(* into order, rounded with round_tile_size (the far one after adding one *)
(* tile), then every tile from the first up to, excluding, the far one.   *)
PaintedCells(x1, y1, x2, y2) ==
  LET ax == RoundTileSize(IF x1 <= x2 THEN x1 ELSE x2)
      ay == RoundTileSize(IF y1 <= y2 THEN y1 ELSE y2)
      bx == RoundTileSize((IF x1 <= x2 THEN x2 ELSE x1) + T)
      by == RoundTileSize((IF y1 <= y2 THEN y2 ELSE y1) + T)
  IN  {c \in TilePos : c[1] * T \in Steps(ax, bx) /\ c[2] * T \in Steps(ay, by)}

Grid == [solid |-> solid, standable |-> standable]

(* level::get_solid_contiguous_region(xpos, ypos): the base tile is found *)
(* through round_tile_size; if it has any solid bit, the set of positions *)
(* grows by every solid 4-neighbour until its size stops changing.        *)
SolidTile(m, p) == p \in DOMAIN m /\ (m[p].all \/ m[p].bits # {})
Neighbours(p) == {<<p[1] - 1, p[2]>>, <<p[1] + 1, p[2]>>, <<p[1], p[2] - 1>>, <<p[1], p[2] + 1>>}

(* Variant: a single expansion instead of the loop.                       *)
GrowOnce(m, positions, lastCount) ==
  positions \cup {q \in UNION {Neighbours(p) : p \in positions} : SolidTile(m, q)}

RECURSIVE Grow(_, _, _)
Grow(m, positions, lastCount) ==
  IF Cardinality(positions) = lastCount THEN positions
  ELSE Grow(m, positions \cup {q \in UNION {Neighbours(p) : p \in positions} : SolidTile(m, q)},
            Cardinality(positions))

ContiguousRegion(m, x, y) ==
  LET base == <<CDiv(RoundTileSize(x), T), CDiv(RoundTileSize(y), T)>>
  IN  IF ~SolidTile(m, base) THEN {} ELSE Grow(m, {base}, -1)

-----------------------------------------------------------------------------
(* The constructor: the level file's solid rects, then the solids of     *)
(* every tile of every tile map.                                          *)
InitGrid ==
  LET s0 == [p \in {} |-> [all |-> FALSE, bits |-> {}]]
      RECURSIVE AddRects(_, _)
      AddRects(m, rs) == IF rs = {} THEN m
                         ELSE LET r == CHOOSE r \in rs : TRUE
                              IN  AddRects(AddSolidRect(m, r[1], r[2], r[3], r[4]), rs \ {r})
  IN  AddTileSolids([solid |-> AddRects(s0, SolidRects), standable |-> s0], TilePos, InitTiles)

Init ==
  /\ tmap = InitTiles
  /\ solid = InitGrid.solid
  /\ standable = InitGrid.standable
  /\ edits = 0
  /\ last = [op |-> "none"]

Edit(g, tiles, rec) ==
  /\ solid' = g.solid
  /\ standable' = g.standable
  /\ tmap' = tiles
  /\ edits' = edits + 1
  /\ last' = rec

(* level::flip_variations(xtile, ytile): every layer whose cell has more  *)
(* than one variation flips it, then the one tile is rebuilt.              *)
FlipVariations(tx, ty) ==
  LET tiles == [z \in Layers |-> [tmap[z] EXCEPT ![<<tx, ty>>] =
                  IF @ # NoTile THEN Variant[@] ELSE @]]
  IN  /\ edits < MaxEdits
      /\ Edit(RebuildTilesRect(Grid, tiles, tx * T, ty * T, tx * T + T, ty * T + T), tiles,
              [op |-> "flip", cell |-> <<tx, ty>>])

(* The editor's tile brush: level::add_tile_rect(zorder, x1, y1, x2, y2)  *)
(* followed by level::refresh_tile_rect(x1, y1, x2, y2), which rebuilds    *)
(* rect(x1-64, y1-128, (x2-x1)+128, (y2-y1)+256).                          *)
Refresh(tiles, x1, y1, x2, y2) ==
  RebuildTilesRect(Grid, tiles, x1 - 2 * T, y1 - 4 * T, x2 + 2 * T, y2 + 4 * T)

AddTileRect(z, x1, y1, x2, y2, k) ==
  LET cells == PaintedCells(x1, y1, x2, y2)
      tiles == [tmap EXCEPT ![z] = [c \in TilePos |-> IF c \in cells THEN k ELSE @[c]]]
  IN  /\ edits < MaxEdits
      /\ Edit(Refresh(tiles, x1, y1, x2, y2), tiles,
              [op |-> "paint", z |-> z, k |-> k, x1 |-> x1, y1 |-> y1, x2 |-> x2, y2 |-> y2])

(* level::clear_tile_rect then refresh_tile_rect: every layer gets "".    *)
ClearTileRect(x1, y1, x2, y2) ==
  LET cells == PaintedCells(x1, y1, x2, y2)
      tiles == [z \in Layers |-> [c \in TilePos |-> IF c \in cells THEN NoTile ELSE tmap[z][c]]]
  IN  /\ edits < MaxEdits
      /\ Edit(Refresh(tiles, x1, y1, x2, y2), tiles,
              [op |-> "clear", x1 |-> x1, y1 |-> y1, x2 |-> x2, y2 |-> y2])

(* level::set_solid_area(r, solid): set_solid on solid_ for every pixel.  *)
SetSolidArea(x1, y1, x2, y2, value) ==
  /\ edits < MaxEdits
  /\ Edit([solid |-> SetSolidPixels(solid, Pixels(x1, y1, x2, y2), value),
           standable |-> standable], tmap,
           [op |-> "area", x1 |-> x1, y1 |-> y1, x2 |-> x2, y2 |-> y2, value |-> value])

TileNext ==
  \/ \E tx \in TXs, ty \in TYs : FlipVariations(tx, ty)
  \/ \E z \in Layers, k \in Kinds, x1, x2 \in PaintXs, y1, y2 \in PaintYs :
        x1 <= x2 /\ y1 <= y2 /\ AddTileRect(z, x1, y1, x2, y2, k)
  \/ \E x1, x2 \in PaintXs, y1, y2 \in PaintYs :
        x1 <= x2 /\ y1 <= y2 /\ ClearTileRect(x1, y1, x2, y2)

AreaNext ==
  \E x1, x2 \in AreaXs, y1, y2 \in AreaYs, v \in BOOLEAN :
     x1 < x2 /\ y1 < y2 /\ SetSolidArea(x1, y1, x2, y2, v)

-----------------------------------------------------------------------------
TypeOK ==
  /\ \A m \in {solid, standable} : DOMAIN m \subseteq TilePos /\ \A p \in DOMAIN m : m[p] \in Info
  /\ tmap \in [Layers -> [TilePos -> Kinds \cup {NoTile}]]
  /\ edits \in 0..MaxEdits

(* Reference semantics of the maps: the tile of the cell a pixel lies in  *)
(* (floor division), and whether that pixel of it is solid or standable.  *)
CellOf(x, y) == <<x \div T, y \div T>>
TileSolidAt(tiles, x, y, pass) ==
  \E z \in {z \in Layers : z < 1000} :
     LET o == tiles[z][CellOf(x, y)]
         q == <<x % T, y % T>>
     IN  o # NoTile
         /\ IF pass THEN ~o.all /\ o.pass /\ q \in o.pattern
                    ELSE o.all \/ (~o.pass /\ q \in o.pattern)
InRect(x, y, r) == x \in r[1]..(r[3] - 1) /\ y \in r[2]..(r[4] - 1)

(* After any sequence of tile edits (flip_variations, the tile brush and  *)
(* clear_tile_rect, each followed by its rebuild_tiles_rect), is_solid on *)
(* solid_ and standable_ answers what the tile maps and the level's solid *)
(* rects say for every pixel: the region rebuild neither loses nor leaves *)
(* behind solidity.                                                        *)
GridMatchesTiles ==
  \A x \in PixX, y \in PixY :
     /\ IsSolid(solid, x, y) = (TileSolidAt(tmap, x, y, FALSE) \/ \E r \in SolidRects : InRect(x, y, r))
     /\ IsSolid(standable, x, y) = TileSolidAt(tmap, x, y, TRUE)

(* set_solid_area(r, v) makes exactly the pixels of r solid (or clear)    *)
(* and leaves every other pixel of solid_ as it was, also when r covers   *)
(* only part of a tile that add_solid_rect had marked all_solid.           *)
SolidEditsAreLocal ==
  [][last'.op = "area" =>
       \A x \in PixX, y \in PixY :
          IsSolid(solid', x, y) =
            IF InRect(x, y, <<last'.x1, last'.y1, last'.x2, last'.y2>>)
              THEN last'.value ELSE IsSolid(solid, x, y)]_vars

(* The pixel queries of the level (solid(x, y), standable_tile and        *)
(* solid(rect)) answer, for every pixel, negative coordinates included,    *)
(* from the map entry and bit that floor division by TileSize names: the  *)
(* truncating '/' and '%' of level::is_solid with their fix-ups must agree *)
(* with floor division on the current maps.                                *)
FloorSolid(m, x, y) ==
  LET c == CellOf(x, y)
  IN  c \in DOMAIN m /\ (m[c].all \/ (y % T) * T + (x % T) \in m[c].bits)
SolidQueryFloors ==
  \A x \in PixX, y \in PixY :
     /\ SolidAt(x, y) = FloorSolid(solid, x, y)
     /\ StandableTile(x, y) = (FloorSolid(solid, x, y) \/ FloorSolid(standable, x, y))
     /\ SolidRect(x, y, x + 2, y + 1) =
          \E q \in Pixels(x, y, x + 2, y + 1) : FloorSolid(solid, q[1], q[2])

(* The region get_solid_contiguous_region returns, for any seed pixel, is *)
(* made of solid tiles and is closed: every solid 4-neighbour of a member *)
(* is a member, so the loop's size test stops only at a whole component.  *)
RegionIsClosed ==
  \A x \in PixX, y \in PixY :
     \A p \in ContiguousRegion(solid, x, y) :
        SolidTile(solid, p) /\ \A q \in Neighbours(p) : SolidTile(solid, q) => q \in ContiguousRegion(solid, x, y)

(* The tile brush (add_tile_rect) puts its tile into exactly the cells   *)
(* that hold a pixel of the dragged rectangle: from the cell of the       *)
(* smaller corner to the cell of the larger one, whatever their signs.    *)
Covering(e) == {c \in TilePos : c[1] \in (e.x1 \div T)..(e.x2 \div T)
                                /\ c[2] \in (e.y1 \div T)..(e.y2 \div T)}
PaintCoversRect ==
  [][last'.op = "paint" =>
       \A c \in TilePos :
          /\ c \in Covering(last') => tmap'[last'.z][c] = last'.k
          /\ c \notin Covering(last') => tmap'[last'.z][c] = tmap[last'.z][c]]_vars

TileSpec == Init /\ [][TileNext]_vars
AreaSpec == Init /\ [][AreaNext]_vars
=============================================================================
