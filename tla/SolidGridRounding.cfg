\* The cells the tile brush writes for rectangles whose corners are
\* tile-aligned, negative ones included (round_tile_size).
CONSTANTS
  NoTileVal = NoTileVal
  T = 2
  TXs <- MCTXs
  TYs <- MCTYs
  Layers <- MCLayers
  Kinds <- MCKinds
  NoTile <- NoTileVal
  InitTiles <- MCInitTiles
  SolidRects <- NoRects
  Variant <- MCVariant
  PaintXs <- AlignedXs
  PaintYs <- AlignedYs
  AreaXs <- Origin
  AreaYs <- Origin
  MaxEdits = 1
SPECIFICATION TileSpec
PROPERTY PaintCoversRect
CHECK_DEADLOCK FALSE
