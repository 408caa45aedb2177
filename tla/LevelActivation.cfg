\* Ticks and script changes to the entity containers, no rollback.
\* A and B are grouped; only ungrouped entities die or are removed.
CONSTANTS
  P = P  Q = Q  A = A  B = B  C = C  D = D
  Ents <- MCEnts
  Player = P
  FilePlayer = Q
  Destroyable = {C}
  InitChars <- MCInitChars
  InitGroup <- GroupedAB
  GroupIds = {0}
  Spawnable = {D}
  Removable = {C}
  Regroupable = {D}
  DiesOnInactive = {C}
  AlwaysActive = {}
  Label <- MCLabel
  NoLabel = ""
  Vel <- MCVel
  InitX <- MCInitX
  MinX = 0
  MaxX = 5
  FrameWidth = 1
  ActivationDist = 2
  Items <- OneItem
  ItemX <- OneItemX
  ItemActivationDistance = 3
  Moves = {0, 1}
  MaxCycle = 5
  MaxRestores = 0
  BackupCap = 3
  BackupTrim = 2
  RetainWindow = 2
  RngMod = 4
SPECIFICATION SpecNoReplay
INVARIANT TypeOK
INVARIANT GroupIndexExact
INVARIANT LabelIndexExact
INVARIANT ItemsAccounted
PROPERTY ProcessOnlyLive
CHECK_DEADLOCK FALSE
