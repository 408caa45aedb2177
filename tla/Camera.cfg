\* Frames drawn while the focus moves, looks up and down, a dialog opens and
\* coins are collected, with a level load between them; no auto-moving camera.
CONSTANTS
  ScreenWidth = 20
  ScreenHeight = 160
  Bounds <- MCBounds
  AutoMove <- NoAutoMove
  FeetXs = {5, 20}
  FeetYs = {25}
  InitFeet <- MCInitFeet
  CoinCounts = {0, 1}
  MaxMoves = 2
SPECIFICATION Spec
INVARIANT TypeOK CameraInBounds
PROPERTY CameraSettles CoinsCatchUp
