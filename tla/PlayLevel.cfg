\* Record a session of up to five cycles, then replay it, while the player
\* walks between two levels, dies and is sent through a forced portal.
CONSTANTS
  Left = Left  Jump = Jump  A = A  B = B  None = None
  Keys = {Left, Jump}
  MaxCycle = 5
  Levels = {A, B}
  NoLevel = None
  Start = A
  Bounds <- MCBounds
  PrevLevel <- MCPrevLevel
  NextLevel <- MCNextLevel
  Doors <- MCDoors
  FilePlayerX <- MCFilePlayerX
  Forced <- MCForced
  BodyW = 1
  MinX <- MCMinX
  MaxX = 3
SPECIFICATION Spec
INVARIANT TypeOK ReplayFaithful
PROPERTY ReplayEnds ForcedPortalTaken
CHECK_DEADLOCK FALSE
