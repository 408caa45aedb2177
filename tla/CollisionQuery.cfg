\* Ticks with entities destroyed and scripts adding and removing entities
\* while active_chars_ is processed; collide(x, y) and collide(rect) agree.
CONSTANTS
  P = P  V = V  H = H  F = F  S = S  Null = Null
  Ents <- MCEnts
  InitChars <- MCInitChars
  Human = {P}
  PlayersSide = {S}
  Harmful = {H, S}
  Passthrough = {F, S, H}
  Boardable = {V}
  Body <- MCBody
  Hit <- MCHit
  Stand <- MCStand
  Pts <- MCPts
  Spawnable = {S}
  Removable = {V}
  NoEnt = Null
  MaxTicks = 2
  Frames = {Spikes}
  Spikes = Spikes
  FrameDef <- MCFrameDef
  Anim <- MCAnim
  AnimX <- MCAnimX
  FaceRight <- MCFaceRight
  FrameMaxTime = 13
  NpotAllowed = FALSE
SPECIFICATION Spec
INVARIANT TypeOK PointRectAgree FrameFollowsStrip MaskMatchesShownImage TextureAlphaExact
CHECK_DEADLOCK FALSE
