\* The editor's drawing pass: chars_ sorted by sort_entity_drawing_pos.
CONSTANTS
  P = P  A = A  B = B  C = C  D = D
  Ents <- MCEnts
  Human = {P}
  Z <- MCZ
  Y <- MCY
  X <- MCX
  InitChars <- MCInitChars
  TileLayers <- MCTileLayers
  PropZs <- MCPropZs
  Spawnable = {C, D}
  Removable = {A, C}
  HasWater = TRUE
  WaterZ <- LowWater
  HasFluid = TRUE
  EditorModes = {TRUE}
  EndJunk = {}
SPECIFICATION Spec
INVARIANT TypeOK DrawOrderConsistent WaterDrawnOnce
CHECK_DEADLOCK FALSE
