-------------------------------- MODULE Geom --------------------------------
(***************************************************************************)
(* The 90-degree rotation between the portrait screen the user sees and    *)
(* the landscape buffer the EBC driver scans out (libhweink/src/geom.rs),  *)
(* and the half-open rectangles both sides use (geom.rs, ioctl.rs).        *)
(*                                                                         *)
(* A pixel is a pair <<x, y>>.  A rectangle is a record of its corners, as *)
(* in the code, and nothing forces it to be in order or on the screen.     *)
(***************************************************************************)
EXTENDS Integers

CONSTANTS SCREEN_W,     \* portrait width  (1860 on the device)
          SCREEN_H      \* portrait height (2480 on the device)

ASSUME GeomAssumption == /\ SCREEN_W \in Nat \ {0}
                         /\ SCREEN_H \in Nat \ {0}

\* The native buffer is the screen turned on its side.
BUF_W == SCREEN_H
BUF_H == SCREEN_W

Screen == (0 .. SCREEN_W - 1) \X (0 .. SCREEN_H - 1)
Native == (0 .. BUF_W - 1) \X (0 .. BUF_H - 1)

screen_to_buf(sx, sy) == <<sy, BUF_H - 1 - sx>>
buf_to_screen(x, y)   == <<BUF_H - 1 - y, x>>

-----------------------------------------------------------------------------
min(a, b) == IF a < b THEN a ELSE b
max(a, b) == IF a > b THEN a ELSE b

Rect(x1, y1, x2, y2) == [x1 |-> x1, y1 |-> y1, x2 |-> x2, y2 |-> y2]
AnyRect == [x1 : Int, y1 : Int, x2 : Int, y2 : Int]

FullScreen == Rect(0, 0, SCREEN_W, SCREEN_H)

\* The pixels of a half-open rectangle; none when its corners are reversed.
Pixels(r) == (r.x1 .. r.x2 - 1) \X (r.y1 .. r.y2 - 1)

Empty(r) == r.x1 >= r.x2 \/ r.y1 >= r.y2

\* The corners put in order, as both fill_rect functions do.
Normalize(r) == Rect(min(r.x1, r.x2), min(r.y1, r.y2),
                     max(r.x1, r.x2), max(r.y1, r.y2))

\* Every corner moved into [0, w] x [0, h]: the code's .max(0).min(limit).
Clamp(r, w, h) == Rect(min(max(r.x1, 0), w), min(max(r.y1, 0), h),
                       min(max(r.x2, 0), w), min(max(r.y2, 0), h))

Clip(r) == Clamp(r, SCREEN_W, SCREEN_H)

\* Least rectangle around two others.
Hull(r, s) == Rect(min(r.x1, s.x1), min(r.y1, s.y1),
                   max(r.x2, s.x2), max(r.y2, s.y2))

\* ScreenRect::to_buf: the two corners are rotated as if they were pixels,
\* and the smaller and larger coordinates taken.
to_buf(r) == LET a == screen_to_buf(r.x1, r.y1)
                 b == screen_to_buf(r.x2, r.y2)
             IN  Rect(min(a[1], b[1]), min(a[2], b[2]),
                      max(a[1], b[1]), max(a[2], b[2]))

\* Mutant of Window: the region is not rotated.
WindowUnrotated(r) == Clamp(r, BUF_W, BUF_H)

\* The window of the native buffer that Surface::refresh puts in the ioctl.
Window(r) == Clamp(to_buf(r), BUF_W, BUF_H)

\* What the panel is asked to repaint, seen on the screen.
WindowOnScreen(r) == {p \in Screen : screen_to_buf(p[1], p[2]) \in Pixels(Window(r))}

\* Non-empty rectangles inside the screen: what a scope's dirty region can be.
ScreenRects == {r \in [x1 : 0 .. SCREEN_W, y1 : 0 .. SCREEN_H,
                       x2 : 0 .. SCREEN_W, y2 : 0 .. SCREEN_H] : ~Empty(r)}
=============================================================================
