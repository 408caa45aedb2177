\* Ticks and rollbacks of a level without groups or items:
\* C dies when the player lags behind, B falls off the right edge.
CONSTANTS
  P = P  Q = Q  A = A  B = B  C = C  D = D
  Ents <- MCEnts
  Player = P
  FilePlayer = Q
  Destroyable = {A}
  InitChars <- MCInitChars
  InitGroup <- Ungrouped
  GroupIds = {}
  Spawnable = {D}
  Removable = {C}
  Regroupable = {D}
  DiesOnInactive = {C}
  AlwaysActive = {}
  Label <- MCLabel
  NoLabel = ""
  Vel <- MCVel
  InitX <- MCInitX
  MinX = 0
  MaxX = 5
  FrameWidth = 1
  ActivationDist = 2
  Items = {}
  ItemX <- NoItemX
  ItemActivationDistance = 3
  Moves = {0, 1}
  MaxCycle = 6
  MaxRestores = 3
  BackupCap = 3
  BackupTrim = 2
  RetainWindow = 2
  RngMod = 4
SPECIFICATION SpecRollback
INVARIANT LabelIndexExact
INVARIANT NoFatalAssert
PROPERTY RollbackInvisible
CHECK_DEADLOCK FALSE
