-------------------------- MODULE CollisionQueryMC --------------------------
(* A player P, a boardable cart V that is also solid to stand on, spikes  *)
(* H that harm, a pass-through cloud F to stand on, and the player's shot *)
(* S, spawned by a script, on three points of a line.  The spikes are    *)
(* animated: a forward ping-pong of three images in rows of two with     *)
(* padding, at scale 2, two rows of pixels high, with a hit frame and     *)
(* three event entries, two of them naming the same time.                 *)
EXTENDS CollisionQuery

CONSTANTS P, V, H, F, S, Null, Spikes

MCEnts == {P, V, H, F, S}
MCInitChars == <<P, V, H, F>>
MCBody  == (P :> {0}) @@ (V :> {0, 1}) @@ (H :> {1, 2}) @@ (F :> {1}) @@ (S :> {2})
MCHit   == (P :> {0}) @@ (V :> {}) @@ (H :> {}) @@ (F :> {}) @@ (S :> {2})
MCStand == (P :> {}) @@ (V :> {0, 1}) @@ (H :> {}) @@ (F :> {1}) @@ (S :> {})
MCPts == 0..2

Brown == [r |-> 111, g |-> 109, b |-> 81, a |-> 0]
Red   == [r |-> 249, g |-> 48, b |-> 61, a |-> 0]
Olive == [r |-> 111, g |-> 109, b |-> 0, a |-> 0]   \* two of the key bytes only
Grey  == [r |-> 80, g |-> 80, b |-> 80, a |-> 0]

(* The spikes' sheet: a 24-bit image of 5x5 pixels, so padded to 8x8      *)
(* without NPOT support; four pixels are drawn and the rest is keyed.      *)
SpikeSheet ==
  [w |-> 5, h |-> 5, fmt |-> "rgb",
   pix |-> [p \in (0..4) \X (0..4) |->
              CASE p \in {<<0, 0>>, <<4, 0>>} -> Olive
                [] p \in {<<3, 1>>, <<1, 3>>} -> Grey
                [] p[2] = 4                  -> Red
                [] OTHER                     -> Brown]]

Frm(n, perRow, ft, rev, back, sc, w, h, pad, tex, hits, evs) ==
  [nframes |-> n, perRow |-> perRow, ft |-> ft, reverse |-> rev, backwards |-> back,
   scale |-> sc, ix |-> 0, iy |-> 0, w |-> w, h |-> h, pad |-> pad, tex |-> tex,
   hits |-> hits, events |-> evs]
SpikeFrame == Frm(3, 2, 1, TRUE, FALSE, 2, 2, 2, 1, SpikeSheet, {1},
                  <<[times |-> <<0, 2>>, name |-> "land"], [times |-> <<2, 5>>, name |-> "jump"],
                    [times |-> <<>>, name |-> "idle"]>>)
MCFrameDef == Spikes :> SpikeFrame
MCAnim == H :> {Spikes}
MCAnimX == H :> 1
MCFaceRight == H :> TRUE
=============================================================================
