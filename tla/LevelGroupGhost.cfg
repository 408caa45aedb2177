\* Ticks and script changes where grouped entities may die or be removed:
\* B (group 0 with A) dies when inactive and may be removed.
CONSTANTS
  P = P  Q = Q  A = A  B = B  C = C  D = D
  Ents <- MCEnts
  Player = P
  FilePlayer = Q
  Destroyable = {C}
  InitChars <- MCInitChars
  InitGroup <- GroupedAB
  GroupIds = {0}
  Spawnable = {D}
  Removable = {B, C}
  Regroupable = {D}
  DiesOnInactive = {B, C}
  AlwaysActive = {}
  Label <- MCLabel
  NoLabel = ""
  Vel <- MCVel
  InitX <- MCInitX
  MinX = 0
  MaxX = 5
  FrameWidth = 1
  ActivationDist = 2
  Items <- OneItem
  ItemX <- OneItemX
  ItemActivationDistance = 3
  Moves = {0, 1}
  MaxCycle = 5
  MaxRestores = 0
  BackupCap = 3
  BackupTrim = 2
  RetainWindow = 2
  RngMod = 4
SPECIFICATION SpecNoReplay
PROPERTY ProcessOnlyLive
CHECK_DEADLOCK FALSE
