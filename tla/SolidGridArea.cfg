\* set_solid_area over rects that cut tiles, all_solid ones included, at
\* negative and positive coordinates.
CONSTANTS
  NoTileVal = NoTileVal
  T = 2
  TXs <- MCTXs
  TYs <- MCTYs
  Layers <- MCLayers
  Kinds <- MCKinds
  NoTile <- NoTileVal
  InitTiles <- MCInitTiles
  SolidRects <- OneRect
  Variant <- MCVariant
  PaintXs <- Origin
  PaintYs <- Origin
  AreaXs <- AreaXSet
  AreaYs <- AreaYSet
  MaxEdits = 2
SPECIFICATION AreaSpec
INVARIANT SolidQueryFloors RegionIsClosed
PROPERTY SolidEditsAreLocal
CHECK_DEADLOCK FALSE
