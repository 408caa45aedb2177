---------------------------- MODULE TextureImage ----------------------------
(***************************************************************************)
(* The image half of class texture (src/src/texture.cpp): what            *)
(* texture::initialize builds from a loaded surface.  It copies the        *)
(* surface into a 32-bit surface, padded to powers of two when the card    *)
(* cannot take other sizes.  It keys the two sprite-sheet colours to       *)
(* transparent, and records in alpha_map_ which pixels of the image have  *)
(* alpha 0.  frame::build_alpha reads that map through texture::is_alpha.  *)
(*                                                                         *)
(* A texture is a record [w, h, fmt, pix]: the source surface's size, its *)
(* pixel format, and its pixels as [r, g, b, a] byte records.  The format  *)
(* is "rgb" for a 24-bit surface (masks 0xFF, 0xFF00, 0xFF0000, no         *)
(* alpha), "argb" for the 32-bit surface with Rmask 0xFF00 and Amask 0xFF  *)
(* that initialize takes as it is, and "rgba" for any other 32-bit one,    *)
(* which is blitted.  The created surface stores a pixel's bytes as r, g,  *)
(* b, a (SURFACE_MASK, as set_alpha_for_transparent_colors reads them); a *)
(* surface with Amask 0xFF stores a, r, g, b (little-endian).  A key of    *)
(* one surface is modelled.                                                *)
(***************************************************************************)
EXTENDS Integers, Bitwise

CONSTANT NpotAllowed   \* is_npot_allowed(): whether the card takes any size

(* next_power_of_2 in the anonymous namespace: smear the highest bit of  *)
(* n-1 down by shifts of 1, 2, 4, 8 and 16, then add one, all in unsigned *)
(* int.  The unsigned arithmetic wraps only for n = 0: n-1 is all ones,   *)
(* and so is the smear, and adding one gives 0.  For the sizes of an      *)
(* image the smear stays below 2^31.                                       *)
RECURSIVE Smear(_, _)
Smear(m, k) == IF k > 16 THEN m ELSE Smear(m | shiftR(m, k), 2 * k)

NextPowerOf2(n) == IF n = 0 THEN 0 ELSE Smear(n - 1, 1) + 1

(* The size of the surface s that initialize works on: the image's, or   *)
(* the next powers of two without NPOT support; the argb branch replaces  *)
(* s by the source surface itself.                                         *)
SurfW(t) == IF NpotAllowed \/ t.fmt = "argb" THEN t.w ELSE NextPowerOf2(t.w)
SurfH(t) == IF NpotAllowed \/ t.fmt = "argb" THEN t.h ELSE NextPowerOf2(t.h)

Zero == [r |-> 0, g |-> 0, b |-> 0, a |-> 0]

(* The bytes of a pixel as the surface's memory holds them.                *)
Bytes(t, px) == IF t.fmt = "argb" THEN <<px.a, px.r, px.g, px.b>>
                ELSE <<px.r, px.g, px.b, px.a>>

(* The bytes of s after the copy: add_alpha_channel_to_surface puts the   *)
(* rgb pixels in the upper-left corner with alpha 0xFF; the blit of one   *)
(* surface with SDL_SetAlpha(0) copies all four channels; the argb        *)
(* surface is used as it is.  The rest of a new surface is zero.          *)
Copied(t) ==
  [p \in (0..(SurfW(t) - 1)) \X (0..(SurfH(t) - 1)) |->
     IF p[1] < t.w /\ p[2] < t.h
       THEN Bytes(t, IF t.fmt = "rgb" THEN [t.pix[p] EXCEPT !.a = 255] ELSE t.pix[p])
       ELSE Bytes(t, Zero)]

AlphaPixel  == <<111, 109, 81>>    \* 0x6f, 0x6d, 0x51: the background brown
AlphaPixel2 == <<249, 48, 61>>     \* 0xf9, 0x30, 0x3d: the border red

(* set_alpha_for_transparent_colors_in_rgba_surface: a pixel whose first  *)
(* three bytes are one of the two colours gets 0 in its fourth byte.       *)
KeyColours(s) ==
  [p \in DOMAIN s |->
     IF <<s[p][1], s[p][2], s[p][3]>> \in {AlphaPixel, AlphaPixel2}
       THEN [s[p] EXCEPT ![4] = 0] ELSE s[p]]

(* The pixels n of s, as <<x, y>> = <<n % s->w, n / s->w>>, whose fourth *)
(* byte is 0 after the colour key.                                         *)
ZeroAlpha(t) ==
  LET s == KeyColours(Copied(t))
  IN  {p \in DOMAIN s : s[p][4] = 0}

(* Variant: the loop does not test that the pixel lies inside the image.  *)
AlphaMapNoGuard(t) ==
  LET set == {p[2] * t.w + p[1] : p \in ZeroAlpha(t)}
  IN  [i \in 0..(t.w * t.h - 1) |-> i \in set]

(* The alpha_map_ loop: width_*height_ cells, false, then every pixel of  *)
(* s whose fourth byte is 0 and that lies inside the image sets cell      *)
(* y*width_ + x.                                                           *)
AlphaMap(t) ==
  LET set == {p[2] * t.w + p[1] : p \in {q \in ZeroAlpha(t) : q[1] < t.w /\ q[2] < t.h}}
  IN  [i \in 0..(t.w * t.h - 1) |-> i \in set]

(* texture::is_alpha (texture.hpp): the cell of pixel (x, y).              *)
IsAlpha(am, t, x, y) == am[y * t.w + x]

-----------------------------------------------------------------------------
(* What the sprite sheet means: a pixel is transparent when it has one of *)
(* the two key colours or its own alpha is 0.                              *)
Transparent(t, x, y) ==
  LET px == t.pix[<<x, y>>]
  IN  <<px.r, px.g, px.b>> \in {AlphaPixel, AlphaPixel2} \/ (t.fmt # "rgb" /\ px.a = 0)

(* texture::is_alpha tells, for every pixel of the image, whether the     *)
(* sheet makes it transparent: the padding initialize adds for a card     *)
(* without NPOT support never leaks into the map, and every branch of the *)
(* copy keeps the bytes where the colour key and the alpha test read them. *)
AlphaMapExact(t) ==
  LET am == AlphaMap(t)
  IN  \A x \in 0..(t.w - 1), y \in 0..(t.h - 1) : IsAlpha(am, t, x, y) = Transparent(t, x, y)
=============================================================================
