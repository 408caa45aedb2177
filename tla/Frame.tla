------------------------------- MODULE Frame -------------------------------
(***************************************************************************)
(* The animation arithmetic of class frame (src/src/frame.cpp).  A frame  *)
(* is immutable once built: its strip of nframes_ images in a texture,    *)
(* the time each image shows, the ping-pong (reverse) and play_backwards *)
(* flags, the alpha mask build_alpha computes for collision, the hit      *)
(* frames and the timed events.  Every operation is a pure function of    *)
(* the frame and the entity's time in the frame, so each is an operator   *)
(* here, and the checks compare them, for one frame at every time up to   *)
(* MaxTime, with reference definitions.                                   *)
(*                                                                         *)
(* A frame is a record: nframes, perRow (frames_per_row), ft (duration),  *)
(* reverse, backwards (play_backwards), scale, the image rect ix, iy, w,  *)
(* h, pad, the texture tex (a record of module TextureImage), hits        *)
(* (hit_frames) and events, the "events" attribute as a sequence of       *)
(* entries [times, name].  Texture coordinates are kept in texels: the    *)
(* GLfloat fractions of get_rect_in_frame_number divided by the texture   *)
(* size are multiplied back, exactly.                                      *)
(***************************************************************************)
EXTENDS Integers, Sequences, SequencesExt, FiniteSets

CONSTANTS
  MaxTime,       \* times in the frame 0..MaxTime are checked
  NpotAllowed    \* is_npot_allowed(), for the textures

Tx == INSTANCE TextureImage

(* C++ '/' on int: the quotient truncated towards zero.                    *)
CDiv(a, b) == IF a >= 0 THEN a \div b ELSE -((-a) \div b)

(* width() and height(): the image rect scaled.                            *)
Width(f)  == f.w * f.scale
Height(f) == f.h * f.scale

(* frame::duration.                                                         *)
Duration(f) == (f.nframes + (IF f.reverse THEN f.nframes ELSE 0)) * f.ft

Animated(f) == f.ft > 0 /\ f.nframes >= 1

(* Variant: the fold back is one frame late.                               *)
FrameNumberLateFold(f, t) ==
  IF f.backwards
    THEN LET k == IF ~Animated(f) THEN f.nframes - 1
                  ELSE IF t >= Duration(f) THEN (IF f.reverse THEN f.nframes - 1 ELSE 0)
                  ELSE f.nframes - 1 - CDiv(t, f.ft)
         IN  IF Animated(f) /\ k < 0 THEN -k - 1 ELSE k
    ELSE LET k == IF ~Animated(f) THEN 0
                  ELSE IF t >= Duration(f) THEN f.nframes - 1 ELSE CDiv(t, f.ft)
         IN  IF Animated(f) /\ k >= f.nframes THEN f.nframes - (k - f.nframes) ELSE k

(* frame::frame_number: which image of the strip shows at time t; past   *)
(* nframes_ the ping-pong half folds back, and past duration() a fixed    *)
(* image shows.                                                            *)
FrameNumber(f, t) ==
  IF f.backwards
    THEN LET k == IF ~Animated(f) THEN f.nframes - 1
                  ELSE IF t >= Duration(f) THEN (IF f.reverse THEN f.nframes - 1 ELSE 0)
                  ELSE f.nframes - 1 - CDiv(t, f.ft)
         IN  IF Animated(f) /\ k < 0 THEN -k - 1 ELSE k
    ELSE LET k == IF ~Animated(f) THEN 0
                  ELSE IF t >= Duration(f) THEN f.nframes - 1 ELSE CDiv(t, f.ft)
         IN  IF Animated(f) /\ k >= f.nframes THEN f.nframes - 1 - (k - f.nframes) ELSE k

(* frame::hit: the image showing is one of the hit frames.                 *)
Hit(f, t) == f.hits # {} /\ FrameNumber(f, t) \in f.hits

(* get_rect_in_frame_number: the top-left texel of image n, laid out in   *)
(* rows of frames_per_row images (one row when it is not positive).        *)
RectInFrameNumber(f, n) ==
  LET col == IF f.perRow > 0 THEN n % f.perRow ELSE n
      row == IF f.perRow > 0 THEN n \div f.perRow ELSE 0
  IN  <<f.ix + col * (f.w + f.pad), f.iy + row * (f.h + f.pad)>>

(* The texel build_alpha samples for pixel (x, y) of image n: the        *)
(* fraction u = (x0 + x) / w of the texture, scaled by (w - 1) and        *)
(* truncated, as texture_.is_alpha((width()-1)*u, ...) is called.         *)
SampleTexel(f, n, x, y) ==
  LET r == RectInFrameNumber(f, n)
  IN  <<((f.tex.w - 1) * (r[1] + x)) \div f.tex.w, ((f.tex.h - 1) * (r[2] + y)) \div f.tex.h>>

(* Variant: the row stride leaves out the number of frames.                *)
AlphaIndexNoStride(f, n, x, y) == y * f.w + x + n * f.w

(* The cell of alpha_ that build_alpha writes for pixel (x, y) of image  *)
(* n: the images side by side in every row of the mask.                    *)
AlphaIndex(f, n, x, y) == y * f.w * f.nframes + x + n * f.w

MaskSize(f) == f.nframes * f.w * f.h

(* frame::build_alpha: alpha_ resized to nframes*w*h cells (false), then *)
(* the loops over n, y and x write texture_.is_alpha of the sampled      *)
(* texel.  A cell written twice keeps the last write, in loop order.       *)
BuildAlpha(f) ==
  LET writes(i) == {<<n, y, x>> \in (0..(f.nframes - 1)) \X (0..(f.h - 1)) \X (0..(f.w - 1)) :
                      AlphaIndex(f, n, x, y) = i}
      Later(a, b) == a[1] > b[1] \/ (a[1] = b[1] /\ (a[2] > b[2] \/ (a[2] = b[2] /\ a[3] > b[3])))
      am == Tx!AlphaMap(f.tex)
  IN  [i \in 0..(MaskSize(f) - 1) |->
         IF writes(i) = {} THEN FALSE
         ELSE LET l == CHOOSE w \in writes(i) : \A v \in writes(i) : ~Later(v, w)
                  s == SampleTexel(f, l[1], l[3], l[2])
              IN  Tx!IsAlpha(am, f.tex, s[1], s[2])]

(* The cell frame::is_alpha reads for pixel (x, y) of the frame at time  *)
(* t, mirrored when facing left, or -1 outside the frame (then the pixel  *)
(* is transparent without a read).                                         *)
IsAlphaIndex(f, x, y, t, faceRight) ==
  LET mx == IF faceRight THEN x ELSE Width(f) - x - 1
  IN  IF mx < 0 \/ y < 0 \/ mx >= Width(f) \/ y >= Height(f) THEN -1
      ELSE (y \div f.scale) * f.w * f.nframes + (mx \div f.scale)
             + FrameNumber(f, t) * f.w

(* frame::is_alpha.                                                         *)
IsAlpha(f, x, y, t, faceRight) ==
  LET i == IsAlphaIndex(f, x, y, t, faceRight)
  IN  IF i = -1 THEN TRUE ELSE BuildAlpha(f)[i]

(* The constructor's parse of "events": every time of an entry maps to  *)
(* the entry's event, a later entry overriding (event_map[time] = event). *)
(* event_frames_ and event_names_ are the map in time order.              *)
EventMap(evs) ==
  LET times == UNION {ToSet(evs[k].times) : k \in DOMAIN evs}
      last(t) == SelectLastInSeq(evs, LAMBDA e : t \in ToSet(e.times))
  IN  [t \in times |-> evs[last(t)].name]

NoEvent == "none"

(* frame::get_event: the event at this time, or NULL.                      *)
GetEvent(f, t) ==
  LET m == EventMap(f.events) IN IF t \in DOMAIN m THEN m[t] ELSE NoEvent

-----------------------------------------------------------------------------
Times == 0..MaxTime

(* The strip an animation runs through: its images in order, from the    *)
(* last when playing backwards, then the same again the other way when it *)
(* ping-pongs.                                                             *)
Strip(f) ==
  LET up    == [i \in 1..f.nframes |-> i - 1]
      first == IF f.backwards THEN Reverse(up) ELSE up
  IN  IF f.reverse THEN first \o Reverse(first) ELSE first

(* While frame f runs, frame_number shows the image of the strip     *)
(* that the elapsed time reaches, duration() frame by frame, and never an *)
(* image outside the strip: the truncation and the two fold-back rules of *)
(* the forward and backward branches agree with walking the strip.         *)
StripWalked(f) ==
  \A t \in Times :
    /\ FrameNumber(f, t) \in 0..(f.nframes - 1)
    /\ t < Duration(f) => FrameNumber(f, t) = Strip(f)[t \div f.ft + 1]

(* is_alpha reads, for every pixel of frame f at every time and both  *)
(* facings, a cell inside alpha_ (ASSERT_INDEX_INTO_VECTOR holds), and    *)
(* that cell holds what build_alpha sampled for the same pixel of the     *)
(* image frame_number shows: the writer's and the reader's layouts of the *)
(* mask agree, and no image overwrites another's cells.                   *)
MaskAgrees(f) ==
  LET ba == BuildAlpha(f) IN
  \A t \in Times, face \in BOOLEAN :
    \A x \in 0..(Width(f) - 1), y \in 0..(Height(f) - 1) :
      LET mx == IF face THEN x ELSE Width(f) - x - 1
          i  == IsAlphaIndex(f, x, y, t, face)
      IN  /\ i \in 0..(MaskSize(f) - 1)
          /\ LET s == SampleTexel(f, FrameNumber(f, t), mx \div f.scale, y \div f.scale)
             IN  ba[i] = Tx!Transparent(f.tex, s[1], s[2])
=============================================================================
