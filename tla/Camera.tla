------------------------------- MODULE Camera -------------------------------
(***************************************************************************)
(* The camera and status bar of src/src/draw_scene.cpp.  The driver keeps *)
(* one screen_position, last_draw_position(), resets it when a level is   *)
(* loaded and passes it to draw_scene once per frame.  draw_scene moves    *)
(* pos.x and pos.y (hundredths of a pixel) a fraction of the way towards  *)
(* the focus clamped to the level's boundaries, eases vertical_look, counts *)
(* pos.coins up to the player's coins, and counts the scene title down.   *)
(* What the game changes between frames (the focus's feet, its look keys, *)
(* an open message dialog, the coins) is the World action.  Drawing calls, *)
(* rotation, the flip viewport and the vehicle's experience bar change no *)
(* state and are left out.                                                 *)
(***************************************************************************)
EXTENDS Integers

CONSTANTS
  ScreenWidth,   \* graphics::screen_width()
  ScreenHeight,  \* graphics::screen_height()
  Bounds,        \* lvl.boundaries(): [x, y, x2, y2]
  AutoMove,      \* <<lvl.auto_move_camera_x(), lvl.auto_move_camera_y()>>
  FeetXs, FeetYs,\* feet positions the focus may stand at
  InitFeet,      \* where the focus stands when the level starts
  CoinCounts,    \* values of the player's "coins"
  MaxMoves       \* bound on World steps

VARIABLES
  posX, posY,    \* pos.x, pos.y
  vlook,         \* pos.vertical_look
  init,          \* pos.init
  coins,         \* pos.coins
  titleRemaining,\* title_display_remaining
  titleTex,      \* title_texture_fg/bg hold a rendered title
  player,        \* lvl.player() is set
  fx, fy,        \* focus->feet_x(), feet_y()
  lookUp, lookDown, \* focus->look_up(), look_down()
  dialog,        \* message_dialog::get() is set
  coinCount,     \* the player's query_value("coins")
  moves

vars == <<posX, posY, vlook, init, coins, titleRemaining, titleTex,
          player, fx, fy, lookUp, lookDown, dialog, coinCount, moves>>
world == <<player, fx, fy, lookUp, lookDown, dialog, coinCount>>

StatusbarHeight == 124
VerticalLookSpeed == 300
HorizontalMoveSpeed == 30
VerticalMoveSpeed == 10
TitleFrames == 50

ASSUME Bounds[3] - Bounds[1] >= ScreenWidth /\ Bounds[4] - Bounds[2] >= ScreenHeight - StatusbarHeight

-----------------------------------------------------------------------------
(* C++ '/' on int: the quotient truncated towards zero.                    *)
CDiv(a, b) == IF a >= 0 THEN a \div b ELSE -((-a) \div b)
Abs(a) == IF a < 0 THEN -a ELSE a
(* int(std::sqrt(n)) for n >= 0.                                           *)
ISqrt(n) == CHOOSE r \in 0..n : r * r <= n /\ (r + 1) * (r + 1) > n
Clamp(v, lo, hi) == IF v < lo THEN lo ELSE IF v > hi THEN hi ELSE v

(* drawable_height(): the screen less the status bar.                       *)
DrawableHeight == ScreenHeight - StatusbarHeight
MaxVerticalLook == (DrawableHeight \div 3) * (DrawableHeight \div 3)

(* Variant: the focus is not clamped at the right edge.                    *)
TargetXNoMax(fxv) ==
  100 * ((IF fxv < Bounds[1] + ScreenWidth \div 2 THEN Bounds[1] + ScreenWidth \div 2 ELSE fxv)
         - ScreenWidth \div 2)

(* target_xpos: the focus clamped to [min_x, max_x], in hundredths.       *)
TargetX(fxv) ==
  100 * (Clamp(fxv, Bounds[1] + ScreenWidth \div 2, Bounds[3] - ScreenWidth \div 2)
         - ScreenWidth \div 2)

(* target_ypos: the feet less a fifth of the screen, shifted by the root  *)
(* of vertical_look, clamped to [min_y, max_y], in hundredths.             *)
TargetY(fyv, vl) ==
  LET look == ISqrt(Abs(vl)) * (IF vl > 0 THEN 1 ELSE -1)
  IN  100 * (Clamp(fyv - DrawableHeight \div 5 + look,
                   Bounds[2] + DrawableHeight \div 2, Bounds[4] - DrawableHeight \div 2)
             - DrawableHeight \div 2)

(* Variant: looking up is not bounded.                                     *)
NextLookNoFloor(vl, up, down, dlg) ==
  CASE ~dlg /\ up   -> vl - VerticalLookSpeed
    [] ~dlg /\ down -> Clamp(vl + VerticalLookSpeed, vl, MaxVerticalLook)
    [] vl > 0       -> Clamp(vl - VerticalLookSpeed, 0, vl)
    [] vl < 0       -> Clamp(vl + VerticalLookSpeed, vl, 0)
    [] OTHER        -> vl

(* Variant: easing back does not stop at zero.                            *)
NextLookNoZero(vl, up, down, dlg) ==
  CASE ~dlg /\ up   -> Clamp(vl - VerticalLookSpeed, -MaxVerticalLook, vl)
    [] ~dlg /\ down -> Clamp(vl + VerticalLookSpeed, vl, MaxVerticalLook)
    [] vl > 0       -> vl - VerticalLookSpeed
    [] vl < 0       -> vl + VerticalLookSpeed
    [] OTHER        -> vl

(* The vertical_look update: towards the look direction up to the bound, *)
(* or back towards zero; a dialog on screen disables looking.              *)
NextLook(vl, up, down, dlg) ==
  CASE ~dlg /\ up   -> Clamp(vl - VerticalLookSpeed, -MaxVerticalLook, vl)
    [] ~dlg /\ down -> Clamp(vl + VerticalLookSpeed, vl, MaxVerticalLook)
    [] vl > 0       -> Clamp(vl - VerticalLookSpeed, 0, vl)
    [] vl < 0       -> Clamp(vl + VerticalLookSpeed, vl, 0)
    [] OTHER        -> vl

(* Variant: the counter stops when the step rounds to zero.                *)
CountCoinsNoNudge(c, wanted) ==
  LET c1 == IF c < 0 \/ c > wanted THEN wanted ELSE c
  IN  IF c1 < wanted THEN c1 + (wanted - c1) \div 20 ELSE c1

(* The pos.coins update: snap when unset or above, else a twentieth of  *)
(* the gap, at least one.                                                  *)
CountCoins(c, wanted) ==
  LET c1 == IF c < 0 \/ c > wanted THEN wanted ELSE c
      delta == (wanted - c1) \div 20
  IN  IF c1 < wanted THEN c1 + delta + (IF delta = 0 THEN 1 ELSE 0) ELSE c1

-----------------------------------------------------------------------------
(* The first level loaded: a fresh screen_position (init false, coins    *)
(* unset at -1, as draw_scene.hpp declares it) and its title set.          *)
Init ==
  /\ posX = 0 /\ posY = 0 /\ vlook = 0 /\ init = FALSE /\ coins = -1
  /\ titleRemaining = TitleFrames /\ titleTex = TRUE
  /\ player \in BOOLEAN
  /\ fx = InitFeet[1] /\ fy = InitFeet[2]
  /\ lookUp = FALSE /\ lookDown = FALSE /\ dialog = FALSE
  /\ coinCount = 0
  /\ moves = 0

(* draw_scene(lvl, pos): one frame.                                         *)
DrawScene ==
  /\ IF player
       THEN LET px == posX + AutoMove[1] * 100
                py == posY + AutoMove[2] * 100
                tx == TargetX(fx)
                ty == TargetY(fy, vlook)
            IN  /\ vlook' = NextLook(vlook, lookUp, lookDown, dialog)
                /\ IF init
                     THEN /\ posX' = px + CDiv(tx - px, HorizontalMoveSpeed)
                          /\ posY' = py + CDiv(ty - py, VerticalMoveSpeed)
                          /\ UNCHANGED init
                     ELSE posX' = tx /\ posY' = ty /\ init' = TRUE
                /\ coins' = CountCoins(coins, coinCount * 100)
       ELSE UNCHANGED <<posX, posY, vlook, init, coins>>
  /\ titleRemaining' = IF titleRemaining > 0 THEN titleRemaining - 1 ELSE 0
  /\ titleTex' = (titleTex /\ titleRemaining # 1)
  /\ UNCHANGED <<world, moves>>

(* The driver loading a level (src/src/main.cpp): last_draw_position() =  *)
(* screen_position(), then set_scene_title(lvl->title()), which renders   *)
(* the title and shows it for 50 frames.  The new level may have a player. *)
LoadLevel ==
  /\ moves < MaxMoves /\ moves' = moves + 1
  /\ posX' = 0 /\ posY' = 0 /\ vlook' = 0 /\ init' = FALSE /\ coins' = -1
  /\ titleRemaining' = TitleFrames /\ titleTex' = TRUE
  /\ \E p \in BOOLEAN : player' = p
  /\ UNCHANGED <<fx, fy, lookUp, lookDown, dialog, coinCount>>

(* The game between two frames, one change at a time: the focus moves   *)
(* or changes its look keys, a message dialog opens or closes, the player *)
(* collects or spends coins.                                               *)
Game(change) ==
  /\ moves < MaxMoves /\ moves' = moves + 1
  /\ change
  /\ UNCHANGED <<posX, posY, vlook, init, coins, titleRemaining, titleTex, player>>

Move(x, y)   == Game(fx' = x /\ fy' = y /\ UNCHANGED <<lookUp, lookDown, dialog, coinCount>>)
Look(u, d)   == Game(lookUp' = u /\ lookDown' = d /\ UNCHANGED <<fx, fy, dialog, coinCount>>)
Dialog(g)    == Game(dialog' = g /\ UNCHANGED <<fx, fy, lookUp, lookDown, coinCount>>)
Collect(c)   == Game(coinCount' = c /\ UNCHANGED <<fx, fy, lookUp, lookDown, dialog>>)

World ==
  \/ \E x \in FeetXs, y \in FeetYs : Move(x, y)
  \/ \E u, d \in BOOLEAN : Look(u, d)
  \/ Dialog(~dialog)
  \/ \E c \in CoinCounts : Collect(c)

Next == DrawScene \/ LoadLevel \/ World

(* The driver draws every frame.                                           *)
Spec == Init /\ [][Next]_vars /\ WF_vars(DrawScene)

-----------------------------------------------------------------------------
TypeOK ==
  /\ {posX, posY, coins} \subseteq Int
  /\ vlook \in -MaxVerticalLook..MaxVerticalLook
  /\ {init, titleTex, player, lookUp, lookDown, dialog} \subseteq BOOLEAN
  /\ titleRemaining \in 0..TitleFrames
  /\ fx \in FeetXs /\ fy \in FeetYs /\ coinCount \in CoinCounts
  /\ moves \in 0..MaxMoves

(* Once placed, the camera never shows anything outside the level: the   *)
(* easing of pos.x and pos.y towards a target clamped to the boundaries,  *)
(* truncated each frame, keeps the drawn rectangle (pos/100, screen width *)
(* by drawable height) inside lvl.boundaries() whatever the focus does.   *)
CameraInBounds ==
  init =>
    /\ CDiv(posX, 100) \in Bounds[1]..(Bounds[3] - ScreenWidth)
    /\ CDiv(posY, 100) \in Bounds[2]..(Bounds[4] - DrawableHeight)

(* While the player stands still, the camera comes to rest on the target: *)
(* vertical_look settles and the truncated steps end within one step of  *)
(* the target on both axes.                                                *)
Settled ==
  /\ NextLook(vlook, lookUp, lookDown, dialog) = vlook
  /\ Abs(TargetX(fx) - posX) < HorizontalMoveSpeed
  /\ Abs(TargetY(fy, vlook) - posY) < VerticalMoveSpeed
CameraSettles == <>[](player => init /\ Settled)

(* The coin counter of the status bar catches up with the player's coins *)
(* and stays there: the twentieth-of-the-gap step rounds to zero near the *)
(* end, and the counter must still reach the count.                       *)
CoinsCatchUp == <>[](player => coins = coinCount * 100)
=============================================================================
