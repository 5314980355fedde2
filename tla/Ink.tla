-------------------------------- MODULE Ink ---------------------------------
(***************************************************************************)
(* The strokes of the note program with their positions, radii and pixels  *)
(* (hweink-note/src/main.rs:54-107 and 163-209).  Each frame of the pen    *)
(* puts a dot, a segment of stamped disks or nothing on the paper, which   *)
(* is the canvas of the program's surface; each is a Draw scope of its     *)
(* own, opened and dropped in one step.  This implements Strokes.          *)
(*                                                                         *)
(* A pressure is kept to the width class it is rounded to, and the         *)
(* smoothed pressure to any class between the last one and the new sample: *)
(* 0.7 of one and 0.3 of the other lies between them.                      *)
(***************************************************************************)
EXTENDS Geom

CONSTANTS
  Tools,          \* the tools a PenEvent can name
  PEN_RADIUS,     \* radius of the thinnest pen stroke     (2)
  CLASSES,        \* how many pixels pressure adds to it   (2)
  ERASER_RADIUS,  \* radius of the eraser                  (14)
  None            \* Rust's Option::None

ASSUME InkAssumption ==
  /\ {"None", "Pen", "Eraser"} \subseteq Tools
  /\ PEN_RADIUS \in Nat \ {0} /\ CLASSES \in Nat /\ ERASER_RADIUS \in Nat \ {0}
  /\ None \notin Int \X Int

VARIABLES
  cur_tool, drawing,
  last,       \* the last point of the stroke, or None
  smoothed,   \* the smoother's value
  paper,      \* pixels that hold ink
  trail,      \* history: pixels this stroke has written since the last clear
  felt,       \* history: pressures of this pen stroke
  drew        \* history: what the last frame drew

ink == <<cur_tool, drawing, last, smoothed, paper, trail, felt, drew>>

\* What the axes can report, their maxima included, seen on the screen: one
\* column left of it and one row below it.  (-1, -1) until both are known.
Positions == {buf_to_screen(bx, by) : bx \in 0 .. BUF_W, by \in 0 .. BUF_H}
               \union {<<-1, -1>>}

Pressures == 0 .. CLASSES

PenEvents == [tool : Tools, touch : BOOLEAN, at : Positions, pressure : Pressures]

InkTypeOK == /\ cur_tool \in Tools /\ drawing \in BOOLEAN
             /\ last \in Positions \union {None}
             /\ drawing => last # None /\ last[1] >= 0 /\ last[2] >= 0
             /\ smoothed \in Pressures
             /\ paper \subseteq Screen /\ trail \subseteq Screen
             /\ felt \subseteq Pressures
             /\ drew \in {"nothing", "dot", "segment"}

InkInit == /\ cur_tool = "None" /\ drawing = FALSE /\ last = None
           /\ smoothed = 0
           /\ paper = {} /\ trail = {} /\ felt = {} /\ drew = "nothing"

-----------------------------------------------------------------------------
(* What is stamped. *)

Radii == PEN_RADIUS .. PEN_RADIUS + CLASSES \union {ERASER_RADIUS}

\* stamp_disk; Draw::put_pixel leaves out what is off the screen.
stamp_disk(c, r) ==
  {p \in Screen : (p[1] - c[1]) * (p[1] - c[1]) + (p[2] - c[2]) * (p[2] - c[2]) <= r * r}

Span(a, b) == max(a - b, b - a)

\* Mutant of Steps: as many stamps as the shorter side has pixels.
StepsShort(p, q) == max(min(Span(p[1], q[1]), Span(p[2], q[2])), 1)

Steps(p, q) == max(max(Span(p[1], q[1]), Span(p[2], q[2])), 1)

\* a / n rounded, a tie upwards or downwards.
Rounded(a, n, up) == IF up THEN (2 * a + n) \div (2 * n) ELSE (2 * a + n - 1) \div (2 * n)

\* The centre of stamp i on the way from p to q.
Centre(p, q, i, up) ==
  LET n == Steps(p, q)
  IN  <<Rounded(p[1] * n + (q[1] - p[1]) * i, n, up),
        Rounded(p[2] * n + (q[2] - p[2]) * i, n, up)>>

\* Where a quotient of f32s, itself inexact, may break a tie either way.
Ties(p, q) == {i \in 0 .. Steps(p, q) : Centre(p, q, i, TRUE) # Centre(p, q, i, FALSE)}

\* The pixels of a segment, when the ties in "ups" are rounded upwards.
Stamped(p, q, r, ups) ==
  UNION {stamp_disk(Centre(p, q, i, i \in ups), r) : i \in 0 .. Steps(p, q)}

Segments(p, q, r) == {Stamped(p, q, r, ups) : ups \in SUBSET Ties(p, q)}

\* stroke_segment: the sets of pixels it can write, tabulated.
stroke_segment ==
  [w \in Positions \X Positions \X Radii |-> Segments(w[1], w[2], w[3])]

-----------------------------------------------------------------------------
(* One frame. *)

Erasing(ev) == ev.tool = "Eraser"
Down(ev) == ev.touch /\ ev.at[1] >= 0 /\ ev.at[2] >= 0

\* A stroke that a change of tool does not end.
Continues(ev) == drawing /\ ev.tool = cur_tool

\* Mutant of Smooth: the first sample of a stroke is averaged with the last
\* one of the stroke before.
SmoothAlways(ev) == IF Erasing(ev) THEN {smoothed}
                    ELSE min(smoothed, ev.pressure) .. max(smoothed, ev.pressure)

\* PressureSmoother: reset and feed by the first sample of a pen stroke, fed by
\* the others, not looked at by an eraser.
Smooth(ev) == IF Erasing(ev) THEN {smoothed}
              ELSE IF Continues(ev)
                THEN min(smoothed, ev.pressure) .. max(smoothed, ev.pressure)
                ELSE {ev.pressure}

\* pen_radius of the value just fed, or the eraser's.
radius(ev, s) == IF Erasing(ev) THEN ERASER_RADIUS ELSE PEN_RADIUS + s

\* What a mark leaves behind.
Put(ev, pixels, before) ==
  /\ paper' = IF Erasing(ev) THEN paper \ pixels ELSE paper \union pixels
  /\ trail' = before \union pixels
  /\ felt' = (IF Continues(ev) THEN felt ELSE {})
               \union (IF Erasing(ev) THEN {} ELSE {ev.pressure})
  /\ cur_tool' = ev.tool /\ drawing' = TRUE /\ last' = ev.at

\* Mutant of dot: the interpolation starts where the last stroke ended.
dot_joined(ev) ==
  /\ Down(ev) /\ ~Continues(ev)
  /\ drew' = "dot"
  /\ \E s \in Smooth(ev) :
       /\ smoothed' = s
       /\ Put(ev, IF last = None THEN stamp_disk(ev.at, radius(ev, s))
                                 ELSE UNION stroke_segment[<<last, ev.at, radius(ev, s)>>], {})

\* The first touch of a stroke.
dot(ev) ==
  /\ Down(ev) /\ ~Continues(ev)
  /\ drew' = "dot"
  /\ \E s \in Smooth(ev) : smoothed' = s /\ Put(ev, stamp_disk(ev.at, radius(ev, s)), {})

\* A touch after another of the same stroke.
segment(ev) ==
  /\ Down(ev) /\ Continues(ev) /\ last # None
  /\ drew' = "segment"
  /\ \E s \in Smooth(ev) :
       /\ smoothed' = s
       /\ \E pixels \in stroke_segment[<<last, ev.at, radius(ev, s)>>] : Put(ev, pixels, trail)

\* Mutant of pass: a frame off the screen ends the stroke's last point only.
pass_forgets(ev) ==
  /\ ~Down(ev)
  /\ drew' = "nothing"
  /\ cur_tool' = ev.tool
  /\ drawing' = (Continues(ev) /\ ev.touch)
  /\ last' = None
  /\ trail' = IF drawing' THEN trail ELSE {}
  /\ felt' = IF drawing' THEN felt ELSE {}
  /\ UNCHANGED <<smoothed, paper>>

\* A frame that draws nothing: a lift ends the stroke, a touch off the screen
\* does not.
pass(ev) ==
  /\ ~Down(ev)
  /\ drew' = "nothing"
  /\ cur_tool' = ev.tool
  /\ drawing' = (Continues(ev) /\ ev.touch)
  /\ last' = IF ev.tool = cur_tool /\ (drawing => ev.touch) THEN last ELSE None
  /\ trail' = IF drawing' THEN trail ELSE {}
  /\ felt' = IF drawing' THEN felt ELSE {}
  /\ UNCHANGED <<smoothed, paper>>

\* F24: one scope fills the screen with white, in the middle of a stroke too.
clear == /\ paper' = {} /\ trail' = {}
         /\ UNCHANGED <<cur_tool, drawing, last, smoothed, felt, drew>>

InkNext == (\E ev \in PenEvents : dot(ev) \/ segment(ev) \/ pass(ev)) \/ clear

InkSpec == InkInit /\ [][InkNext]_ink

-----------------------------------------------------------------------------
(* What the strokes look like. *)

Near(p, q) == /\ p[1] - q[1] \in -1 .. 1
              /\ p[2] - q[2] \in -1 .. 1

\* Sets of pixels in one piece, diagonal neighbours counted: every part has a
\* neighbour in the rest.
Pieces == {S \in SUBSET Screen :
             \A A \in (SUBSET S) \ {{}, S} : \E p \in A, q \in S \ A : Near(p, q)}

\* "Fast strokes don't leave gaps" (main.rs:95-96): however far apart the
\* samples, also where the pen runs along or over the edge of the screen or a
\* clear comes in between, the pixels of a stroke hang together, and all of
\* them hold its ink, or none if it erases.
NoGaps == /\ trail \in Pieces
          /\ IF cur_tool = "Eraser" THEN trail \intersect paper = {} ELSE trail \subseteq paper

\* The width of a pen stroke stays between the lightest and the heaviest
\* pressure of that stroke, whatever came before it (main.rs:54-79, 181-184).
WidthOfStroke ==
  drawing /\ cur_tool # "Eraser" =>
    /\ \E f \in felt : f <= smoothed
    /\ \E f \in felt : smoothed <= f

\* What a frame marks reaches the point the pen is at, if that is on the
\* screen, and lies along the stroke: nothing further than the radius from the
\* box of the last and the new point, so no streak across the screen from where
\* another stroke ended (main.rs:93-107, 171-172, 187-196).
MarkStep ==
  trail' # trail /\ trail' # {} =>
    LET on   == drawing /\ cur_tool' = cur_tool
        from == IF on THEN last ELSE last'
        r    == IF cur_tool' = "Eraser" THEN ERASER_RADIUS ELSE PEN_RADIUS + smoothed'
    IN  /\ last' \in Screen => last' \in trail'
        /\ \A p \in trail' \ (IF on THEN trail ELSE {}) :
             /\ p[1] \in min(from[1], last'[1]) - r .. max(from[1], last'[1]) + r
             /\ p[2] \in min(from[2], last'[2]) - r .. max(from[2], last'[2]) + r
AlongStroke == [][MarkStep]_ink

\* The machine of Strokes, with the geometry left out: the smoother holds this
\* stroke's pressure when its value lies among those the stroke has felt.
Plain == INSTANCE Strokes WITH
           last     <- last # None,
           smoother <- IF drawing /\ (\E f \in felt : f <= smoothed)
                                  /\ (\E f \in felt : smoothed <= f)
                         THEN "fresh" ELSE "stale",
           unbroken <- drawing

\* Every frame of the pen is one frame of that machine, and the clear key is
\* none: neither breaks a stroke in two.
ImplementsStrokes == Plain!StrokeSpec
=============================================================================
