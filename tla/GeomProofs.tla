----------------------------- MODULE GeomProofs -----------------------------
(***************************************************************************)
(* What the rotation and the rectangle operators of Geom do, for every     *)
(* screen size.                                                            *)
(***************************************************************************)
EXTENDS Geom, TLAPS

LEMMA Dimensions == /\ SCREEN_W \in Nat /\ SCREEN_W > 0
                    /\ SCREEN_H \in Nat /\ SCREEN_H > 0
                    /\ BUF_W = SCREEN_H /\ BUF_H = SCREEN_W
BY GeomAssumption DEF BUF_W, BUF_H

\* A pixel of a rectangle, coordinate by coordinate.
LEMMA InPixels ==
  ASSUME NEW r, NEW p
  PROVE  p \in Pixels(r) <=> /\ p = <<p[1], p[2]>>
                             /\ p[1] \in r.x1 .. r.x2 - 1
                             /\ p[2] \in r.y1 .. r.y2 - 1
BY DEF Pixels

\* The rotation maps the screen into the buffer and back: no pixel is lost,
\* doubled or sent out of bounds (screen_to_buf, buf_to_screen).
THEOREM RoundTrip ==
  ASSUME NEW p \in Screen
  PROVE  LET b == screen_to_buf(p[1], p[2])
         IN  b \in Native /\ buf_to_screen(b[1], b[2]) = p
BY Dimensions DEF Screen, Native, screen_to_buf, buf_to_screen

\* And every cell of the buffer is the place of one pixel of the screen.
THEOREM RoundTripBack ==
  ASSUME NEW b \in Native
  PROVE  LET p == buf_to_screen(b[1], b[2])
         IN  p \in Screen /\ screen_to_buf(p[1], p[2]) = b
BY Dimensions DEF Screen, Native, screen_to_buf, buf_to_screen

\* Two pixels never share a cell of the buffer.
LEMMA Injective ==
  ASSUME NEW p \in Screen, NEW q \in Screen,
         screen_to_buf(p[1], p[2]) = screen_to_buf(q[1], q[2])
  PROVE  p = q
BY RoundTrip

-----------------------------------------------------------------------------
LEMMA ScreenRectCorners ==
  ASSUME NEW r \in ScreenRects
  PROVE  /\ r \in AnyRect
         /\ 0 <= r.x1 /\ r.x1 < r.x2 /\ r.x2 <= SCREEN_W
         /\ 0 <= r.y1 /\ r.y1 < r.y2 /\ r.y2 <= SCREEN_H
BY Dimensions DEF ScreenRects, Empty, AnyRect

LEMMA ScreenRectPixels ==
  ASSUME NEW r \in ScreenRects
  PROVE  Pixels(r) \subseteq Screen
BY Dimensions, ScreenRectCorners DEF Pixels, Screen, AnyRect

LEMMA ClipType ==
  ASSUME NEW r \in AnyRect
  PROVE  Clip(r) \in AnyRect /\ (~Empty(Clip(r)) => Clip(r) \in ScreenRects)
BY Dimensions DEF Clip, Clamp, AnyRect, ScreenRects, Empty, Rect, min, max

\* Clipping keeps exactly the pixels that are on the screen.
LEMMA ClipPixels ==
  ASSUME NEW r \in AnyRect
  PROVE  Pixels(Clip(r)) = Pixels(r) \intersect Screen
<1>1. ASSUME NEW p
      PROVE  p \in Pixels(Clip(r)) <=> p \in Pixels(r) /\ p \in Screen
  BY Dimensions DEF Clip, Clamp, AnyRect, Pixels, Rect, min, max, Screen
<1> QED BY <1>1

LEMMA NormalizeType ==
  ASSUME NEW r \in AnyRect
  PROVE  Normalize(r) \in AnyRect
BY DEF Normalize, AnyRect, Rect, min, max

LEMMA HullType ==
  ASSUME NEW r \in ScreenRects, NEW s \in ScreenRects
  PROVE  /\ Hull(r, s) \in ScreenRects
         /\ Pixels(r) \subseteq Pixels(Hull(r, s))
         /\ Pixels(s) \subseteq Pixels(Hull(r, s))
<1>1. Hull(r, s) \in ScreenRects
  BY Dimensions DEF Hull, ScreenRects, Rect, Empty, min, max
<1>2. ASSUME NEW p, p \in Pixels(r) \/ p \in Pixels(s)
      PROVE  p \in Pixels(Hull(r, s))
  BY <1>2, ScreenRectCorners DEF Hull, Pixels, Rect, min, max, AnyRect
<1> QED BY <1>1, <1>2

-----------------------------------------------------------------------------
\* The window a refresh asks for, exactly: it leaves out the first column of
\* the region and takes in the one after its last, because to_buf rotates the
\* corners of a half-open rectangle as if they were pixels
\* (ScreenRect::to_buf, Surface::refresh).
THEOREM WindowExact ==
  ASSUME NEW r \in ScreenRects
  PROVE  WindowOnScreen(r) =
           {p \in Screen : /\ r.x1 < p[1] /\ p[1] <= r.x2
                           /\ r.y1 <= p[2] /\ p[2] < r.y2}
<1>1. ASSUME NEW p \in Screen
      PROVE  screen_to_buf(p[1], p[2]) \in Pixels(Window(r)) <=>
               /\ r.x1 < p[1] /\ p[1] <= r.x2
               /\ r.y1 <= p[2] /\ p[2] < r.y2
  <2>1. Window(r) = Rect(r.y1, max(BUF_H - 1 - r.x2, 0), r.y2, BUF_H - 1 - r.x1)
    BY Dimensions, ScreenRectCorners
    DEF Window, to_buf, Clamp, screen_to_buf, Rect, min, max, AnyRect
  <2>2. p = <<p[1], p[2]>> /\ p[1] \in 0 .. SCREEN_W - 1 /\ p[2] \in 0 .. SCREEN_H - 1
    BY Dimensions DEF Screen
  <2> QED
    BY <2>1, <2>2, Dimensions, ScreenRectCorners
    DEF Pixels, Rect, screen_to_buf, max, AnyRect
<1> QED BY <1>1 DEF WindowOnScreen
=============================================================================
