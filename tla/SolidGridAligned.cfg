\* Tile edits whose corners are tile aligned: the region rebuild keeps
\* solid_ and standable_ equal to what the tile maps say.
CONSTANTS
  NoTileVal = NoTileVal
  T = 2
  TXs <- MCTXs
  TYs <- MCTYs
  Layers <- MCLayers
  Kinds <- MCKinds
  NoTile <- NoTileVal
  InitTiles <- MCInitTiles
  SolidRects <- NoRects
  Variant <- MCVariant
  PaintXs <- AlignedXs
  PaintYs <- AlignedYs
  AreaXs <- Origin
  AreaYs <- Origin
  MaxEdits = 2
SPECIFICATION TileSpec
INVARIANT TypeOK GridMatchesTiles
CHECK_DEADLOCK FALSE
