------------------------------ MODULE InkProofs ------------------------------
(***************************************************************************)
(* Theorems about Ink, for every screen size, every radius and every pen.  *)
(***************************************************************************)
EXTENDS Ink, GeomProofs, LeastProofs

LEMMA PositionType == Positions \subseteq Int \X Int
BY Dimensions DEF Positions, buf_to_screen

LEMMA NoneIsNoPosition == None \notin Positions
BY PositionType, InkAssumption

LEMMA PressureType ==
  ASSUME NEW s \in Pressures, NEW f \in Pressures
  PROVE  min(s, f) .. max(s, f) \subseteq Pressures
BY InkAssumption DEF Pressures, min, max

LEMMA RadiusType ==
  ASSUME NEW ev \in PenEvents, NEW s \in Pressures
  PROVE  radius(ev, s) \in Radii
BY InkAssumption DEF Radii, radius, Pressures

LEMMA StampType == \A c, r : stamp_disk(c, r) \subseteq Screen
BY DEF stamp_disk

LEMMA SegmentType ==
  ASSUME NEW p \in Positions, NEW q \in Positions, NEW r \in Radii,
         NEW pixels \in stroke_segment[<<p, q, r>>]
  PROVE  pixels \subseteq Screen
<1>1. stroke_segment[<<p, q, r>>] = Segments(p, q, r)
  BY DEF stroke_segment
<1>2. \A ups : Stamped(p, q, r, ups) \subseteq Screen
  BY StampType DEF Stamped
<1> QED BY <1>1, <1>2 DEF Segments

LEMMA SmoothType ==
  ASSUME InkTypeOK, NEW ev \in PenEvents, NEW s \in Smooth(ev)
  PROVE  s \in Pressures
BY PressureType DEF InkTypeOK, PenEvents, Smooth

-----------------------------------------------------------------------------
(* Type correctness. *)

LEMMA PutType ==
  ASSUME InkTypeOK, NEW ev \in PenEvents, NEW pixels \in SUBSET Screen,
         NEW before \in SUBSET Screen, Down(ev), Put(ev, pixels, before)
  PROVE  /\ cur_tool' \in Tools /\ drawing' \in BOOLEAN
         /\ last' \in Positions
         /\ last' # None /\ last'[1] >= 0 /\ last'[2] >= 0
         /\ paper' \subseteq Screen /\ trail' \subseteq Screen
         /\ felt' \subseteq Pressures
BY NoneIsNoPosition DEF InkTypeOK, PenEvents, Down, Put

LEMMA InitTyped == InkInit => InkTypeOK
<1>1. 0 \in Pressures
  BY InkAssumption DEF Pressures
<1> QED BY <1>1, InkAssumption DEF InkInit, InkTypeOK

LEMMA InkNextType == InkTypeOK /\ [InkNext]_ink => InkTypeOK'
<1> SUFFICES ASSUME InkTypeOK, [InkNext]_ink PROVE InkTypeOK'
  OBVIOUS
<1>1. ASSUME NEW ev \in PenEvents, dot(ev) PROVE InkTypeOK'
  <2>1. PICK s \in Smooth(ev) : smoothed' = s /\ Put(ev, stamp_disk(ev.at, radius(ev, s)), {})
    BY <1>1 DEF dot
  <2>2. s \in Pressures /\ Down(ev) /\ drew' = "dot"
    BY <1>1, SmoothType DEF dot
  <2> QED BY <2>1, <2>2, StampType, PutType DEF InkTypeOK
<1>2. ASSUME NEW ev \in PenEvents, segment(ev) PROVE InkTypeOK'
  <2>1. PICK s \in Smooth(ev) :
          smoothed' = s /\ \E pixels \in stroke_segment[<<last, ev.at, radius(ev, s)>>] :
                             Put(ev, pixels, trail)
    BY <1>2 DEF segment
  <2>2. s \in Pressures /\ Down(ev) /\ drew' = "segment"
    BY <1>2, SmoothType DEF segment
  <2>3. last \in Positions /\ ev.at \in Positions /\ radius(ev, s) \in Radii
    BY <1>2, <2>2, RadiusType DEF segment, InkTypeOK, PenEvents
  <2> QED BY <2>1, <2>2, <2>3, SegmentType, PutType DEF InkTypeOK
<1>3. ASSUME NEW ev \in PenEvents, pass(ev) PROVE InkTypeOK'
  BY <1>3 DEF pass, PenEvents, Continues, InkTypeOK
<1>4. CASE clear
  BY <1>4 DEF clear, InkTypeOK
<1>5. CASE UNCHANGED ink
  BY <1>5 DEF ink, InkTypeOK
<1> QED BY <1>1, <1>2, <1>3, <1>4, <1>5 DEF InkNext

\* A stroke in progress has a last point, which is not off the left or the top
\* edge, and nothing off the screen is ever written: for every screen size.
THEOREM InkTypeCorrect == InkSpec => []InkTypeOK
<1>1. InkInit => InkTypeOK
  BY InitTyped
<1> QED BY <1>1, InkNextType, PTL DEF InkSpec

-----------------------------------------------------------------------------
(* The width of a stroke. *)

\* The smoothed value lies among the pressures of the stroke.
Among(s, F) == (\E f \in F : f <= s) /\ (\E f \in F : s <= f)

\* WidthOfStroke is not inductive alone: an eraser has felt nothing.
WidthInv == /\ drawing /\ cur_tool # "Eraser" => Among(smoothed, felt)
            /\ drawing /\ cur_tool = "Eraser" => felt = {}

LEMMA FedStaysAmong ==
  ASSUME NEW s \in Pressures, NEW f \in Pressures, NEW F \in SUBSET Pressures,
         Among(s, F), NEW t \in min(s, f) .. max(s, f)
  PROVE  Among(t, F \union {f})
<1>1. s \in Int /\ f \in Int /\ t \in Int /\ F \subseteq Int
  BY InkAssumption DEF Pressures, min, max
<1>2. \E g \in F \union {f} : g <= t
  <2>1. CASE f <= s
    BY <1>1, <2>1 DEF min, max
  <2>2. CASE s <= f
    BY <1>1, <2>2 DEF min, max, Among
  <2> QED BY <1>1, <2>1, <2>2
<1>3. \E g \in F \union {f} : t <= g
  <2>1. CASE f < s
    <3>1. t <= s
      BY <1>1, <2>1 DEF min, max
    <3>2. PICK g \in F : s <= g
      BY DEF Among
    <3> QED BY <1>1, <3>1, <3>2
  <2>2. CASE ~(f < s)
    BY <1>1, <2>2 DEF min, max
  <2> QED BY <2>1, <2>2
<1> QED BY <1>2, <1>3 DEF Among

\* A mark keeps the smoothed value among what its stroke has felt.
LEMMA MarkWidth ==
  ASSUME InkTypeOK, WidthInv, NEW ev \in PenEvents, NEW s \in Smooth(ev), smoothed' = s,
         NEW pixels, NEW before, Put(ev, pixels, before)
  PROVE  WidthInv'
<1>1. drawing' = TRUE /\ cur_tool' = ev.tool
  BY DEF Put
<1>2. CASE Erasing(ev)
  <2>1. felt' = {}
    BY <1>2 DEF Put, Erasing, Continues, WidthInv
  <2> QED BY <1>1, <1>2, <2>1 DEF WidthInv, Erasing
<1>3. CASE ~Erasing(ev) /\ Continues(ev)
  <2>1. s \in min(smoothed, ev.pressure) .. max(smoothed, ev.pressure)
    BY <1>3 DEF Smooth
  <2>2. felt' = felt \union {ev.pressure} /\ Among(smoothed, felt)
    BY <1>3 DEF Put, Continues, Erasing, WidthInv
  <2>3. Among(s, felt \union {ev.pressure})
    BY <2>1, <2>2, FedStaysAmong DEF InkTypeOK, PenEvents
  <2> QED BY <1>1, <1>3, <2>2, <2>3 DEF WidthInv, Erasing
<1>4. CASE ~Erasing(ev) /\ ~Continues(ev)
  <2>1. s = ev.pressure /\ felt' = {ev.pressure}
    BY <1>4 DEF Smooth, Put
  <2>2. s <= s
    BY SmoothType, InkAssumption DEF Pressures
  <2> QED BY <1>1, <1>4, <2>1, <2>2 DEF WidthInv, Erasing, Among
<1> QED BY <1>2, <1>3, <1>4

LEMMA WidthStep == InkTypeOK /\ WidthInv /\ [InkNext]_ink => WidthInv'
<1> SUFFICES ASSUME InkTypeOK, WidthInv, [InkNext]_ink PROVE WidthInv'
  OBVIOUS
<1>1. ASSUME NEW ev \in PenEvents, dot(ev) \/ segment(ev) PROVE WidthInv'
  BY <1>1, MarkWidth DEF dot, segment
<1>2. ASSUME NEW ev \in PenEvents, pass(ev) PROVE WidthInv'
  BY <1>2 DEF pass, Continues, WidthInv, Among
<1>3. CASE clear
  BY <1>3 DEF clear, WidthInv, Among
<1>4. CASE UNCHANGED ink
  BY <1>4 DEF ink, WidthInv, Among
<1> QED BY <1>1, <1>2, <1>3, <1>4 DEF InkNext

LEMMA WidthInvariance == InkSpec => [](InkTypeOK /\ WidthInv)
<1>1. InkInit => InkTypeOK /\ WidthInv
  BY InitTyped DEF InkInit, WidthInv
<1> QED BY <1>1, InkNextType, WidthStep, PTL DEF InkSpec

\* However the pen's pressure moves, and whatever strokes, lifts, erasures and
\* clears came before, the width of a stroke comes from its own pressures.
THEOREM WidthIsOfTheStroke == InkSpec => []WidthOfStroke
<1>1. WidthInv => WidthOfStroke
  BY DEF WidthInv, WidthOfStroke, Among
<1> QED BY <1>1, WidthInvariance, PTL

-----------------------------------------------------------------------------
(* Ink implements Strokes. *)

\* What Strokes sees of a frame.
Shade(ev) == [tool |-> ev.tool, touch |-> ev.touch, on |-> ev.at[1] >= 0 /\ ev.at[2] >= 0]

Smoother == IF drawing /\ (\E f \in felt : f <= smoothed) /\ (\E f \in felt : smoothed <= f)
              THEN "fresh" ELSE "stale"

\* The guards of a frame mean the same in both.
LEMMA ShadeAgrees ==
  ASSUME NEW ev \in PenEvents
  PROVE  /\ Shade(ev) \in Plain!Events
         /\ Shade(ev).tool = ev.tool /\ Shade(ev).touch = ev.touch
         /\ Plain!Touching(Shade(ev)) <=> Down(ev)
         /\ Plain!During(Shade(ev)) <=> Continues(ev)
         /\ Plain!From(Shade(ev)) <=> last # None /\ ev.tool = cur_tool
<1> DEFINE on == ev.at[1] >= 0 /\ ev.at[2] >= 0
<1>1. on \in BOOLEAN /\ ev.tool \in Tools /\ ev.touch \in BOOLEAN
  BY DEF PenEvents
<1>2. Shade(ev) = [tool |-> ev.tool, touch |-> ev.touch, on |-> on]
  BY DEF Shade
<1>3. Down(ev) <=> ev.touch /\ on
  BY DEF Down
<1> HIDE DEF on
<1>4. /\ Shade(ev) \in Plain!Events
      /\ Shade(ev).tool = ev.tool /\ Shade(ev).touch = ev.touch /\ Shade(ev).on = on
  BY <1>1, <1>2 DEF Plain!Events
<1> QED BY <1>3, <1>4
        DEF Plain!Touching, Plain!During, Plain!From, Plain!Swapped, Continues

\* What is left to show of a frame: its six effects, as Strokes has them.
LEMMA ShadeSteps ==
  ASSUME InkTypeOK, InkTypeOK', NEW ev \in PenEvents,
         cur_tool' = ev.tool,
         drawing' <=> Down(ev) \/ (Continues(ev) /\ ev.touch),
         (last # None)' <=> Plain!LastAfter(Shade(ev)),
         Smoother' = Plain!SmootherAfter(Shade(ev)),
         drew' = Plain!Mark(Shade(ev)),
         drawing' <=> drew' # "nothing" \/ (drawing /\ ev.touch /\ ev.tool = cur_tool)
  PROVE  Plain!Stroke(Shade(ev))
<1>1. drawing' \in BOOLEAN /\ Plain!LastAfter(Shade(ev)) \in BOOLEAN
  <2>1. Shade(ev).touch \in BOOLEAN
    BY ShadeAgrees DEF PenEvents
  <2> QED BY <2>1, ShadeAgrees DEF InkTypeOK, Plain!LastAfter, Plain!Touching
<1>2. drawing' = (Plain!Touching(Shade(ev)) \/ (Plain!During(Shade(ev)) /\ Shade(ev).touch))
  BY <1>1, ShadeAgrees
<1>3. drawing' = (drew' # "nothing" \/ (drawing /\ Shade(ev).touch /\ Shade(ev).tool = cur_tool))
  BY <1>1, ShadeAgrees
<1>4. (last # None)' = Plain!LastAfter(Shade(ev))
  BY <1>1
<1> QED BY <1>2, <1>3, <1>4, ShadeAgrees DEF Plain!Stroke, Smoother

LEMMA InkNextImplements ==
  ASSUME InkTypeOK, InkTypeOK', WidthInv, WidthInv', [InkNext]_ink
  PROVE  [Plain!StrokeNext]_Plain!stroke
<1>1. ASSUME NEW ev \in PenEvents, dot(ev) PROVE Plain!Stroke(Shade(ev))
  <2>1. /\ cur_tool' = ev.tool /\ drawing' = TRUE /\ last' = ev.at /\ drew' = "dot"
        /\ Down(ev) /\ ~Continues(ev) /\ last' # None
    BY <1>1, NoneIsNoPosition DEF dot, Put, PenEvents
  <2>2. Smoother' = Plain!SmootherAfter(Shade(ev))
    BY <2>1, ShadeAgrees DEF Smoother, Plain!SmootherAfter, WidthInv, Among
  <2>3. drew' = Plain!Mark(Shade(ev)) /\ Plain!LastAfter(Shade(ev))
    BY <2>1, ShadeAgrees DEF Plain!Mark, Plain!LastAfter
  <2> QED BY <2>1, <2>2, <2>3, ShadeSteps
<1>2. ASSUME NEW ev \in PenEvents, segment(ev) PROVE Plain!Stroke(Shade(ev))
  <2>1. /\ cur_tool' = ev.tool /\ drawing' = TRUE /\ last' = ev.at /\ drew' = "segment"
        /\ Down(ev) /\ Continues(ev) /\ last' # None /\ last # None
    BY <1>2, NoneIsNoPosition DEF segment, Put, PenEvents
  <2>2. drawing /\ ev.touch /\ ev.tool = cur_tool
    BY <2>1 DEF Continues, Down
  <2>3. Smoother' = Smoother
    BY <2>1, <2>2 DEF Smoother, WidthInv, Among
  <2>4. Plain!SmootherAfter(Shade(ev)) = Smoother
    BY <2>1, <2>2, ShadeAgrees DEF Plain!SmootherAfter, Smoother
  <2>5. drew' = Plain!Mark(Shade(ev)) /\ Plain!LastAfter(Shade(ev))
    BY <2>1, <2>2, ShadeAgrees DEF Plain!Mark, Plain!LastAfter
  <2> QED BY <2>1, <2>2, <2>3, <2>4, <2>5, ShadeSteps
<1>3. ASSUME NEW ev \in PenEvents, pass(ev) PROVE Plain!Stroke(Shade(ev))
  <2>1. /\ cur_tool' = ev.tool /\ drew' = "nothing" /\ ~Down(ev)
        /\ drawing' = (Continues(ev) /\ ev.touch)
        /\ last' = IF ev.tool = cur_tool /\ (drawing => ev.touch) THEN last ELSE None
    BY <1>3 DEF pass
  <2>2. Smoother' = IF Continues(ev) /\ ev.touch THEN Smoother ELSE "stale"
    BY <1>3, <2>1 DEF pass, Smoother, Continues
  <2>3. Smoother' = Plain!SmootherAfter(Shade(ev))
    BY <2>1, <2>2, ShadeAgrees DEF Plain!SmootherAfter, Smoother
  <2>4. drew' = Plain!Mark(Shade(ev))
    BY <2>1, ShadeAgrees DEF Plain!Mark
  <2>5. last' # None <=> Plain!LastAfter(Shade(ev))
    BY <2>1, ShadeAgrees DEF Plain!LastAfter, Continues
  <2> QED BY <2>1, <2>3, <2>4, <2>5, ShadeSteps DEF Continues
<1>4. CASE clear
  BY <1>4 DEF clear, Plain!stroke
<1>5. CASE UNCHANGED ink
  BY <1>5 DEF ink, Plain!stroke
<1>6. ASSUME NEW ev \in PenEvents, Plain!Stroke(Shade(ev))
      PROVE  Plain!StrokeNext
  BY <1>6, ShadeAgrees DEF Plain!StrokeNext
<1> QED BY <1>1, <1>2, <1>3, <1>4, <1>5, <1>6 DEF InkNext

\* Where the pen is, how wide it draws and what the screen holds do not change
\* what counts as a stroke: for every screen, pen and eraser.
THEOREM InkImplementsStrokes == InkSpec => ImplementsStrokes
<1>1. InkInit => Plain!StrokeInit
  BY DEF InkInit, Plain!StrokeInit
<1>2. InkTypeOK /\ InkTypeOK' /\ WidthInv /\ WidthInv' /\ [InkNext]_ink
        => [Plain!StrokeNext]_Plain!stroke
  BY InkNextImplements
<1> QED BY <1>1, <1>2, WidthInvariance, PTL DEF InkSpec, ImplementsStrokes, Plain!StrokeSpec

-----------------------------------------------------------------------------
(* No gaps: what keeps a segment in one piece. *)

LEMMA Scaled ==
  ASSUME NEW n \in Nat \ {0}, NEW j \in Int
  PROVE  /\ j >= 2 => n * j >= 2 * n
         /\ j >= 1 => n * j >= n
         /\ j <= -2 => n * j <= -2 * n
         /\ j <= -1 => n * j <= -n
         /\ n * j \in Int
OBVIOUS

\* A rounded quotient is within half of the exact one.
LEMMA RoundedNear ==
  ASSUME NEW n \in Nat \ {0}, NEW a \in Int, NEW up \in BOOLEAN
  PROVE  /\ Rounded(a, n, up) \in Int
         /\ 2 * a - n <= 2 * (n * Rounded(a, n, up))
         /\ 2 * (n * Rounded(a, n, up)) <= 2 * a + n
<1>1. ASSUME NEW x \in Int
      PROVE  /\ x \div (2 * n) \in Int
             /\ 2 * (n * (x \div (2 * n))) <= x
             /\ x < 2 * (n * (x \div (2 * n))) + 2 * n
  <2> DEFINE m == 2 * n
  <2>1. m \in Nat \ {0} /\ m > 0
    OBVIOUS
  <2>2. x \div m \in Int /\ m * (x \div m) <= x /\ x < m * (x \div m) + m
    <3> HIDE DEF m
    <3> QED BY <2>1
  <2> QED BY <2>2
<1>2. /\ up => Rounded(a, n, up) = (2 * a + n) \div (2 * n)
      /\ ~up => Rounded(a, n, up) = (2 * a + n - 1) \div (2 * n)
  BY DEF Rounded
<1>3. PICK x \in Int : /\ 2 * a + n - 1 <= x /\ x <= 2 * a + n
                      /\ Rounded(a, n, up) = x \div (2 * n)
  <2>1. 2 * a + n \in Int /\ 2 * a + n - 1 \in Int /\ 2 * a + n - 1 <= 2 * a + n
    OBVIOUS
  <2>2. CASE up
    <3>1. PICK w \in Int : w = 2 * a + n
      OBVIOUS
    <3>2. Rounded(a, n, up) = w \div (2 * n)
      BY <1>2, <2>2, <3>1
    <3>3. 2 * a + n - 1 <= w /\ w <= 2 * a + n
      BY <3>1
    <3> QED BY <3>2, <3>3
  <2>3. CASE ~up
    <3>1. PICK w \in Int : w = 2 * a + n - 1
      OBVIOUS
    <3>2. Rounded(a, n, up) = w \div (2 * n)
      BY <1>2, <2>3, <3>1
    <3>3. 2 * a + n - 1 <= w /\ w <= 2 * a + n
      BY <3>1
    <3> QED BY <3>2, <3>3
  <2> QED BY <2>2, <2>3
<1> DEFINE k == x \div (2 * n)
           y == n * k
<1>4. k \in Int /\ 2 * y <= x /\ x < 2 * y + 2 * n
  BY <1>1
<1>5. y \in Int
  BY <1>4
<1>6. 2 * a - n <= 2 * y /\ 2 * y <= 2 * a + n
  <2> HIDE DEF y
  <2> QED BY <1>3, <1>4, <1>5
<1> HIDE DEF k
<1>7. Rounded(a, n, up) = k
  BY <1>3 DEF k
<1> QED BY <1>4, <1>6, <1>7

\* An exact quotient is not moved by rounding.
LEMMA RoundedExact ==
  ASSUME NEW n \in Nat \ {0}, NEW j \in Int, NEW up \in BOOLEAN
  PROVE  Rounded(n * j, n, up) = j
<1> DEFINE k == Rounded(n * j, n, up)
<1>1. PICK a \in Int : a = n * j
  BY Scaled
<1>2. k \in Int /\ 2 * a - n <= 2 * (n * k) /\ 2 * (n * k) <= 2 * a + n
  BY <1>1, RoundedNear
<1> HIDE DEF k
<1>3. PICK g \in Int : g = k - j
  BY <1>2
<1>4. n * g = n * k - a
  BY <1>1, <1>2, <1>3
<1>5. n * g < n /\ -n < n * g
  <2> DEFINE z == n * k
             y == n * g
  <2>1. z \in Int /\ y = z - a /\ 2 * a - n <= 2 * z /\ 2 * z <= 2 * a + n
    BY <1>2, <1>4
  <2> HIDE DEF y, z
  <2>2. y < n /\ -n < y
    BY <2>1
  <2> QED BY <2>2 DEF y
<1>6. /\ g >= 1 => n * g >= n
      /\ g <= -1 => n * g <= -n
  BY Scaled
<1>7. g = 0
  BY <1>5, <1>6
<1> QED BY <1>2, <1>3, <1>7 DEF k

\* One step of the interpolation moves the rounded coordinate by at most one,
\* whichever way ties go: d is the span of the axis, n the longer span.
LEMMA RoundedStep ==
  ASSUME NEW n \in Nat \ {0}, NEW a \in Int, NEW d \in Int, -n <= d, d <= n,
         NEW up \in BOOLEAN, NEW vp \in BOOLEAN,
         d \in {-n, n} => \E j \in Int : a = n * j
  PROVE  Rounded(a + d, n, vp) - Rounded(a, n, up) \in -1 .. 1
<1> DEFINE k == Rounded(a, n, up)
           m == Rounded(a + d, n, vp)
<1>1. /\ k \in Int /\ 2 * a - n <= 2 * (n * k) /\ 2 * (n * k) <= 2 * a + n
      /\ m \in Int /\ 2 * (a + d) - n <= 2 * (n * m) /\ 2 * (n * m) <= 2 * (a + d) + n
  BY RoundedNear
<1> HIDE DEF k, m
<1>2. n * (m - k) = n * m - n * k /\ n * m \in Int /\ n * k \in Int
  BY <1>1
<1> DEFINE y == n * m
           z == n * k
<1>3. CASE d \notin {-n, n}
  <2>1. y - z < 2 * n /\ -2 * n < y - z
    <3>1. /\ y \in Int /\ z \in Int /\ 2 * a - n <= 2 * z /\ 2 * z <= 2 * a + n
          /\ 2 * (a + d) - n <= 2 * y /\ 2 * y <= 2 * (a + d) + n
      BY <1>1, <1>2
    <3>2. -n < d /\ d < n
      BY <1>3
    <3> HIDE DEF y, z
    <3> QED BY <3>1, <3>2
  <2>2. n * (m - k) < 2 * n /\ -2 * n < n * (m - k)
    BY <1>2, <2>1
  <2>3. PICK g \in Int : g = m - k
    BY <1>1
  <2>4. n * g < 2 * n /\ -2 * n < n * g
    BY <2>2, <2>3
  <2>5. /\ g >= 2 => n * g >= 2 * n
        /\ g <= -2 => n * g <= -2 * n
    BY Scaled
  <2>6. g \in -1 .. 1
    BY <2>4, <2>5
  <2> QED BY <2>3, <2>6 DEF k, m
<1>4. CASE d \in {-n, n}
  <2>1. PICK j \in Int : a = n * j
    BY <1>4
  <2>2. k = j
    BY <2>1, RoundedExact DEF k
  <2>3. CASE d = n
    <3>1. PICK c \in Int : c = j + 1
      OBVIOUS
    <3>2. a + d = n * c
      BY <2>1, <2>3, <3>1
    <3>3. m = c
      BY <3>2, RoundedExact DEF m
    <3> QED BY <2>1, <2>2, <3>1, <3>3 DEF k, m
  <2>4. CASE d = -n
    <3>1. PICK c \in Int : c = j - 1
      OBVIOUS
    <3>2. a + d = n * c
      BY <2>1, <2>4, <3>1
    <3>3. m = c
      BY <3>2, RoundedExact DEF m
    <3> QED BY <2>1, <2>2, <3>1, <3>3 DEF k, m
  <2> QED BY <1>4, <2>3, <2>4
<1> QED BY <1>3, <1>4 DEF k, m

\* Along one axis: the span d is at most the number of steps.
LEMMA AxisStep ==
  ASSUME NEW n \in Nat \ {0}, NEW a \in Int, NEW d \in Int, -n <= d, d <= n,
         NEW i \in Int, NEW up \in BOOLEAN, NEW vp \in BOOLEAN
  PROVE  Rounded(a * n + d * (i + 1), n, vp) - Rounded(a * n + d * i, n, up) \in -1 .. 1
<1>1. PICK b \in Int : b = a * n + d * i
  OBVIOUS
<1>2. a * n + d * (i + 1) = b + d
  BY <1>1
<1>3. ASSUME d \in {-n, n}
      PROVE  \E j \in Int : b = n * j
  <2>1. CASE d = n
    <3>1. b = a * n + n * i
      BY <1>1, <2>1
    <3>2. a * n + n * i = n * (a + i) /\ a + i \in Int
      OBVIOUS
    <3> QED BY <3>1, <3>2
  <2>2. CASE d = -n
    <3>1. b = a * n + (-n) * i
      BY <1>1, <2>2
    <3>2. a * n + (-n) * i = n * (a - i) /\ a - i \in Int
      OBVIOUS
    <3> QED BY <3>1, <3>2
  <2> QED BY <1>3, <2>1, <2>2
<1>4. Rounded(b + d, n, vp) - Rounded(b, n, up) \in -1 .. 1
  BY <1>3, RoundedStep
<1> QED BY <1>1, <1>2, <1>4

LEMMA AxisEnds ==
  ASSUME NEW n \in Nat \ {0}, NEW a \in Int, NEW d \in Int, NEW i \in Int,
         NEW up \in BOOLEAN
  PROVE  /\ i = 0 => Rounded(a * n + d * i, n, up) = a
         /\ i = n => Rounded(a * n + d * i, n, up) = a + d
<1>1. PICK b \in Int : b = a * n + d * i
  OBVIOUS
<1>2. ASSUME i = 0
      PROVE  Rounded(b, n, up) = a
  <2>1. b = n * a
    BY <1>1, <1>2
  <2> QED BY <2>1, RoundedExact
<1>3. ASSUME i = n
      PROVE  Rounded(b, n, up) = a + d
  <2>1. PICK c \in Int : c = a + d
    OBVIOUS
  <2>2. b = n * c
    BY <1>1, <1>3, <2>1
  <2> QED BY <2>1, <2>2, RoundedExact
<1> QED BY <1>1, <1>2, <1>3

\* A segment leaves no gap between its stamps (main.rs:95-107): it begins at
\* the last point, ends at the new one, and from one stamp to the next the
\* centre moves by at most a pixel on each axis, wherever the points are and
\* whichever way the division breaks its ties.
THEOREM StampsAreNear ==
  ASSUME NEW p \in Int \X Int, NEW q \in Int \X Int,
         NEW up \in BOOLEAN, NEW vp \in BOOLEAN
  PROVE  /\ Centre(p, q, 0, up) = p
         /\ Centre(p, q, Steps(p, q), up) = q
         /\ \A i \in 0 .. Steps(p, q) - 1 :
              Near(Centre(p, q, i + 1, vp), Centre(p, q, i, up))
<1> DEFINE n == Steps(p, q)
           d == q[1] - p[1]
           e == q[2] - p[2]
<1>1. /\ n \in Nat \ {0}
      /\ d \in Int /\ -n <= d /\ d <= n
      /\ e \in Int /\ -n <= e /\ e <= n
      /\ p[1] \in Int /\ p[2] \in Int /\ q[1] \in Int /\ q[2] \in Int
      /\ p = <<p[1], p[2]>> /\ q = <<q[1], q[2]>>
  BY DEF Steps, Span, max
<1>2. ASSUME NEW i \in Int, NEW t \in BOOLEAN
      PROVE  Centre(p, q, i, t) = <<Rounded(p[1] * n + d * i, n, t), Rounded(p[2] * n + e * i, n, t)>>
  BY DEF Centre
<1> HIDE DEF n, d, e
<1>3. ASSUME NEW i \in Int
      PROVE  /\ Rounded(p[1] * n + d * (i + 1), n, vp) - Rounded(p[1] * n + d * i, n, up) \in -1 .. 1
             /\ Rounded(p[2] * n + e * (i + 1), n, vp) - Rounded(p[2] * n + e * i, n, up) \in -1 .. 1
  BY <1>1, AxisStep
<1>4. ASSUME NEW i \in Int
      PROVE  /\ i = 0 => /\ Rounded(p[1] * n + d * i, n, up) = p[1]
                         /\ Rounded(p[2] * n + e * i, n, up) = p[2]
             /\ i = n => /\ Rounded(p[1] * n + d * i, n, up) = p[1] + d
                         /\ Rounded(p[2] * n + e * i, n, up) = p[2] + e
  BY <1>1, AxisEnds
<1>5. Centre(p, q, 0, up) = p
  <2>1. PICK i \in Int : i = 0
    OBVIOUS
  <2> QED BY <1>1, <1>2, <1>4, <2>1
<1>6. Centre(p, q, n, up) = q
  <2>1. p[1] + d = q[1] /\ p[2] + e = q[2]
    BY <1>1 DEF d, e
  <2>2. n \in Int
    BY <1>1
  <2> QED BY <1>1, <1>2, <1>4, <2>1, <2>2
<1>7. ASSUME NEW i \in 0 .. n - 1
      PROVE  Near(Centre(p, q, i + 1, vp), Centre(p, q, i, up))
  <2>1. i \in Int /\ i + 1 \in Int
    BY <1>1
  <2>2. Centre(p, q, i, up) = <<Rounded(p[1] * n + d * i, n, up), Rounded(p[2] * n + e * i, n, up)>>
    BY <1>2, <2>1
  <2>3. Centre(p, q, i + 1, vp) =
          <<Rounded(p[1] * n + d * (i + 1), n, vp), Rounded(p[2] * n + e * (i + 1), n, vp)>>
    BY <1>2, <2>1
  <2> QED BY <1>3, <2>1, <2>2, <2>3 DEF Near
<1> QED BY <1>5, <1>6, <1>7 DEF n

\* Rounding does not leave the whole numbers that are on its way.
LEMMA RoundedBounds ==
  ASSUME NEW n \in Nat \ {0}, NEW a \in Int, NEW j \in Int, NEW up \in BOOLEAN
  PROVE  /\ n * j <= a => j <= Rounded(a, n, up)
         /\ a <= n * j => Rounded(a, n, up) <= j
<1> DEFINE k == Rounded(a, n, up)
<1>1. k \in Int /\ 2 * a - n <= 2 * (n * k) /\ 2 * (n * k) <= 2 * a + n
  BY RoundedNear
<1> HIDE DEF k
<1>2. PICK g \in Int : g = j - k
  BY <1>1
<1>3. n * g = n * j - n * k /\ n * j \in Int /\ n * k \in Int
  BY <1>1, <1>2
<1>4. /\ g >= 1 => n * g >= n
      /\ g <= -1 => n * g <= -n
  BY Scaled
<1> DEFINE y == n * j
           z == n * k
           w == n * g
<1>5. /\ w = y - z /\ y \in Int /\ z \in Int /\ w \in Int
      /\ 2 * a - n <= 2 * z /\ 2 * z <= 2 * a + n
      /\ g >= 1 => w >= n
      /\ g <= -1 => w <= -n
  BY <1>1, <1>3, <1>4
<1> HIDE DEF y, z, w
<1>6. y <= a => g <= 0
  BY <1>5
<1>7. a <= y => 0 <= g
  BY <1>5
<1> QED BY <1>1, <1>2, <1>6, <1>7 DEF k, y

\* Along one axis the stamps stay between the two ends.
LEMMA AxisBox ==
  ASSUME NEW n \in Nat \ {0}, NEW a \in Int, NEW d \in Int, NEW i \in 0 .. n,
         NEW up \in BOOLEAN
  PROVE  /\ Rounded(a * n + d * i, n, up) \in Int
         /\ min(a, a + d) <= Rounded(a * n + d * i, n, up)
         /\ Rounded(a * n + d * i, n, up) <= max(a, a + d)
<1>1. PICK b \in Int : b = a * n + d * i
  OBVIOUS
<1>2. n * a = a * n /\ n * (a + d) = a * n + d * n
  OBVIOUS
<1>3. d >= 0 => 0 <= d * i /\ d * i <= d * n
  OBVIOUS
<1>4. d <= 0 => d * n <= d * i /\ d * i <= 0
  OBVIOUS
<1>5. CASE d >= 0
  <2>1. n * a <= b /\ b <= n * (a + d)
    BY <1>1, <1>2, <1>3, <1>5
  <2>2. min(a, a + d) = a /\ max(a, a + d) = a + d
    BY <1>5 DEF min, max
  <2> QED BY <1>1, <2>1, <2>2, RoundedBounds, RoundedNear
<1>6. CASE d < 0
  <2>1. n * (a + d) <= b /\ b <= n * a
    BY <1>1, <1>2, <1>4, <1>6
  <2>2. min(a, a + d) = a + d /\ max(a, a + d) = a
    BY <1>6 DEF min, max
  <2> QED BY <1>1, <2>1, <2>2, RoundedBounds, RoundedNear
<1> QED BY <1>5, <1>6

\* The centres of a segment's stamps lie in the box of its two points.
LEMMA CentreBox ==
  ASSUME NEW p \in Int \X Int, NEW q \in Int \X Int, NEW i \in 0 .. Steps(p, q),
         NEW up \in BOOLEAN
  PROVE  /\ Centre(p, q, i, up) \in Int \X Int
         /\ Centre(p, q, i, up)[1] \in min(p[1], q[1]) .. max(p[1], q[1])
         /\ Centre(p, q, i, up)[2] \in min(p[2], q[2]) .. max(p[2], q[2])
<1> DEFINE n == Steps(p, q)
           d == q[1] - p[1]
           e == q[2] - p[2]
<1>1. /\ n \in Nat \ {0} /\ i \in 0 .. n
      /\ d \in Int /\ e \in Int /\ p[1] \in Int /\ p[2] \in Int
      /\ p[1] + d = q[1] /\ p[2] + e = q[2] /\ q[1] \in Int /\ q[2] \in Int
  BY DEF Steps, Span, max
<1>2. Centre(p, q, i, up) = <<Rounded(p[1] * n + d * i, n, up), Rounded(p[2] * n + e * i, n, up)>>
  BY DEF Centre
<1> HIDE DEF n, d, e
<1> DEFINE x == Rounded(p[1] * n + d * i, n, up)
           y == Rounded(p[2] * n + e * i, n, up)
<1>3. x \in Int /\ min(p[1], q[1]) <= x /\ x <= max(p[1], q[1])
  BY <1>1, AxisBox
<1>4. y \in Int /\ min(p[2], q[2]) <= y /\ y <= max(p[2], q[2])
  BY <1>1, AxisBox
<1>5. /\ min(p[1], q[1]) \in Int /\ max(p[1], q[1]) \in Int
      /\ min(p[2], q[2]) \in Int /\ max(p[2], q[2]) \in Int
  BY <1>1 DEF min, max
<1> HIDE DEF x, y
<1>6. Centre(p, q, i, up) = <<x, y>>
  BY <1>2 DEF x, y
<1> QED BY <1>3, <1>4, <1>5, <1>6

-----------------------------------------------------------------------------
(* No gaps: what is in one piece. *)

LEMMA NearScreen ==
  ASSUME NEW p \in Screen, NEW q \in Screen
  PROVE  Near(p, q) => Near(q, p)
BY Dimensions DEF Screen, Near

\* A set is in one piece when from each of its pixels some step within the set
\* comes closer to one of them.
LEMMA PieceByDescent ==
  ASSUME NEW S \in SUBSET Screen, NEW a \in S, NEW m \in [S -> Nat],
         \A q \in S \ {a} : \E p \in S : m[p] < m[q] /\ Near(p, q)
  PROVE  S \in Pieces
<1> SUFFICES ASSUME NEW A \in SUBSET S, A # {}, A # S
             PROVE  \E p \in A, q \in S \ A : Near(p, q)
  BY DEF Pieces
<1>1. PICK B \in {A, S \ A} : a \notin B
  OBVIOUS
<1>2. B \subseteq S /\ B # {}
  OBVIOUS
<1> DEFINE T == {m[q] : q \in B}
<1>3. PICK k \in T : \A l \in T : k <= l
  <2>1. T \subseteq Nat /\ T # {}
    BY <1>2
  <2> HIDE DEF T
  <2> QED BY <2>1, LeastElement
<1>4. PICK q \in B : m[q] = k
  OBVIOUS
<1>5. q \in S \ {a}
  BY <1>1, <1>2
<1>6. PICK p \in S : m[p] < m[q] /\ Near(p, q)
  BY <1>5
<1>7. p \notin B
  <2> SUFFICES ASSUME p \in B PROVE FALSE
    OBVIOUS
  <2>1. m[p] \in T /\ m[p] \in Nat /\ m[q] \in Nat
    BY <1>5
  <2>2. m[q] <= m[p]
    BY <1>3, <1>4, <2>1
  <2> QED BY <1>6, <2>1, <2>2
<1>8. Near(q, p)
  BY <1>5, <1>6, NearScreen
<1> QED BY <1>5, <1>6, <1>7, <1>8

\* Two pieces with a pixel in common are one piece.
LEMMA PiecesJoin ==
  ASSUME NEW S \in Pieces, NEW T \in Pieces, NEW a \in S \intersect T
  PROVE  S \union T \in Pieces
<1>1. S \subseteq Screen /\ T \subseteq Screen
  BY DEF Pieces
<1> SUFFICES ASSUME NEW A \in SUBSET (S \union T), A # {}, A # S \union T
             PROVE  \E p \in A, q \in (S \union T) \ A : Near(p, q)
  BY <1>1 DEF Pieces
<1>2. ASSUME NEW U \in {S, T}, A \intersect U # {}, A \intersect U # U
      PROVE  \E p \in A, q \in (S \union T) \ A : Near(p, q)
  <2>1. A \intersect U \in (SUBSET U) \ {{}, U}
    BY <1>2
  <2>2. \E p \in A \intersect U, q \in U \ (A \intersect U) : Near(p, q)
    BY <2>1 DEF Pieces
  <2> QED BY <2>2
<1>3. \E U \in {S, T} : A \intersect U # {} /\ A \intersect U # U
  OBVIOUS
<1> QED BY <1>2, <1>3

-----------------------------------------------------------------------------
(* Disks. *)

LEMMA Squares ==
  ASSUME NEW u \in Int, NEW v \in Int, (0 <= u /\ u <= v) \/ (v <= u /\ u <= 0)
  PROVE  u * u <= v * v /\ 0 <= u * u /\ u * u \in Int /\ v * v \in Int
OBVIOUS

\* A disk does not reach further than its radius.
LEMMA DiskReach ==
  ASSUME NEW a \in Int, NEW b \in Int, NEW r \in Nat, a * a + b * b <= r * r
  PROVE  -r <= a /\ a <= r /\ -r <= b /\ b <= r
<1>1. ASSUME NEW x \in Int, x * x <= r * r
      PROVE  -r <= x /\ x <= r
  <2>1. x >= r + 1 => (r + 1) * (r + 1) <= x * x
    BY Squares
  <2>2. x <= -(r + 1) => (-(r + 1)) * (-(r + 1)) <= x * x
    BY Squares
  <2>3. /\ (-(r + 1)) * (-(r + 1)) = r * r + 2 * r + 1
        /\ (r + 1) * (r + 1) = r * r + 2 * r + 1
        /\ r * r \in Int /\ x * x \in Int
    OBVIOUS
  <2> QED BY <1>1, <2>1, <2>2, <2>3
<1>2. 0 <= a * a /\ 0 <= b * b /\ a * a \in Int /\ b * b \in Int /\ r * r \in Int
  BY Squares
<1>3. a * a <= r * r /\ b * b <= r * r
  BY <1>2
<1> QED BY <1>1, <1>3

LEMMA StampBox ==
  ASSUME NEW c \in Int \X Int, NEW r \in Nat, NEW p \in stamp_disk(c, r)
  PROVE  p[1] \in c[1] - r .. c[1] + r /\ p[2] \in c[2] - r .. c[2] + r
<1> DEFINE a == p[1] - c[1]
           b == p[2] - c[2]
<1>1. /\ p[1] \in Int /\ p[2] \in Int /\ c[1] \in Int /\ c[2] \in Int
      /\ a * a + b * b <= r * r
  BY Dimensions DEF stamp_disk, Screen
<1>2. a \in Int /\ b \in Int
  BY <1>1
<1>3. a = p[1] - c[1] /\ b = p[2] - c[2]
  OBVIOUS
<1> HIDE DEF a, b
<1>4. -r <= a /\ a <= r /\ -r <= b /\ b <= r
  BY <1>1, <1>2, DiskReach
<1> QED BY <1>1, <1>2, <1>3, <1>4

\* Where the pen can mark: on the screen, or one row below it.
Points == (0 .. SCREEN_W - 1) \X (0 .. SCREEN_H)

\* The pixel that every disk around such a point holds.
Foot(c) == <<c[1], min(c[2], SCREEN_H - 1)>>

LEMMA DownIsPoint ==
  ASSUME NEW at \in Positions, at[1] >= 0, at[2] >= 0
  PROVE  at \in Points
BY Dimensions DEF Positions, Points, buf_to_screen

LEMMA FootType ==
  ASSUME NEW c \in Points
  PROVE  /\ Foot(c) \in Screen
         /\ c \in Int \X Int
         /\ Foot(c)[1] = c[1]
         /\ Foot(c)[2] = c[2] \/ (c[2] = SCREEN_H /\ Foot(c)[2] = c[2] - 1)
         /\ c \in Screen => Foot(c) = c
BY Dimensions DEF Points, Foot, Screen, min

LEMMA FeetNear ==
  ASSUME NEW c \in Points, NEW d \in Points, Near(c, d)
  PROVE  Near(Foot(c), Foot(d))
BY Dimensions DEF Points, Foot, Near, min

LEMMA StampFoot ==
  ASSUME NEW c \in Points, NEW r \in Nat \ {0}
  PROVE  Foot(c) \in stamp_disk(c, r)
<1> DEFINE a == Foot(c)[1] - c[1]
           b == Foot(c)[2] - c[2]
<1>1. a = 0 /\ b \in {0, -1} /\ Foot(c) \in Screen
  BY FootType, Dimensions DEF Points
<1>2. 1 <= r * r /\ r * r \in Int
  BY Squares
<1> HIDE DEF a, b
<1>3. a * a + b * b \in {0, 1}
  BY <1>1
<1>4. a * a + b * b <= r * r
  BY <1>2, <1>3
<1> QED BY <1>1, <1>4 DEF a, b, stamp_disk

\* One pixel closer.
Toward(x, y) == IF x < y THEN x + 1 ELSE IF y < x THEN x - 1 ELSE x

LEMMA TowardCloser ==
  ASSUME NEW x \in Int, NEW y \in Int
  PROVE  /\ Span(x, y) \in Nat /\ Span(Toward(x, y), y) \in Int
         /\ Span(Toward(x, y), y) <= Span(x, y)
         /\ x # y => Span(Toward(x, y), y) < Span(x, y)
BY DEF Toward, Span, max

\* A disk, cut off at the edges of the screen, is one piece.
LEMMA StampPiece ==
  ASSUME NEW c \in Points, NEW r \in Nat \ {0}
  PROVE  stamp_disk(c, r) \in Pieces
<1> DEFINE S == stamp_disk(c, r)
           f == Foot(c)
           m == [q \in S |-> Span(q[1], f[1]) + Span(q[2], f[2])]
<1>1. S \in SUBSET Screen /\ f \in S
  BY StampType, StampFoot
<1>2. ASSUME NEW q \in Screen
      PROVE  Span(q[1], f[1]) + Span(q[2], f[2]) \in Nat
  BY FootType, Dimensions DEF Screen, Span, max
<1>3. m \in [S -> Nat]
  BY <1>1, <1>2
<1>4. ASSUME NEW q \in S \ {f}
      PROVE  \E p \in S : m[p] < m[q] /\ Near(p, q)
  <2> DEFINE x == Toward(q[1], f[1])
             y == Toward(q[2], f[2])
  <2>1. /\ q \in Screen /\ q[1] \in 0 .. SCREEN_W - 1 /\ q[2] \in 0 .. SCREEN_H - 1
        /\ f[1] \in 0 .. SCREEN_W - 1 /\ f[2] \in 0 .. SCREEN_H - 1
        /\ c[1] = f[1] /\ c[2] \in Int
        /\ f[2] = c[2] \/ (f[2] = c[2] - 1 /\ c[2] = SCREEN_H)
        /\ f[1] # q[1] \/ f[2] # q[2]
    <3>1. q \in Screen /\ f \in Screen /\ q # f
      BY <1>1
    <3>2. \A p \in Screen : /\ p = <<p[1], p[2]>>
                            /\ p[1] \in 0 .. SCREEN_W - 1 /\ p[2] \in 0 .. SCREEN_H - 1
      BY DEF Screen
    <3>3. f[1] # q[1] \/ f[2] # q[2]
      <4> HIDE DEF f
      <4> QED BY <3>1, <3>2, Zenon
    <3>4. /\ c[1] = f[1] /\ c \in Int \X Int
          /\ f[2] = c[2] \/ (f[2] = c[2] - 1 /\ c[2] = SCREEN_H)
      BY FootType
    <3> HIDE DEF f, S
    <3> QED BY <3>1, <3>2, <3>3, <3>4
  <2> HIDE DEF f
  <2>2. x \in 0 .. SCREEN_W - 1 /\ y \in 0 .. SCREEN_H - 1
    BY <2>1, Dimensions DEF Toward
  <2>3. Near(<<x, y>>, q)
    BY <2>1, Dimensions DEF Toward, Near
  <2>4. Span(x, f[1]) + Span(y, f[2]) < Span(q[1], f[1]) + Span(q[2], f[2])
    <3>1. q[1] \in Int /\ q[2] \in Int /\ f[1] \in Int /\ f[2] \in Int
      BY <2>1
    <3>2. q[1] # f[1] \/ q[2] # f[2]
      BY <2>1
    <3> HIDE DEF x, y
    <3>3. /\ Span(q[1], f[1]) \in Nat /\ Span(x, f[1]) \in Int
          /\ Span(x, f[1]) <= Span(q[1], f[1])
          /\ q[1] # f[1] => Span(x, f[1]) < Span(q[1], f[1])
      BY <3>1, TowardCloser DEF x
    <3>4. /\ Span(q[2], f[2]) \in Nat /\ Span(y, f[2]) \in Int
          /\ Span(y, f[2]) <= Span(q[2], f[2])
          /\ q[2] # f[2] => Span(y, f[2]) < Span(q[2], f[2])
      BY <3>1, TowardCloser DEF y
    <3> QED BY <3>2, <3>3, <3>4
  <2>5. /\ (0 <= x - c[1] /\ x - c[1] <= q[1] - c[1]) \/ (q[1] - c[1] <= x - c[1] /\ x - c[1] <= 0)
        /\ (0 <= y - c[2] /\ y - c[2] <= q[2] - c[2]) \/ (q[2] - c[2] <= y - c[2] /\ y - c[2] <= 0)
    BY <2>1, Dimensions DEF Toward
  <2> DEFINE u == x - c[1]
             v == y - c[2]
             g == q[1] - c[1]
             h == q[2] - c[2]
  <2>6. u \in Int /\ v \in Int /\ g \in Int /\ h \in Int
    BY <2>1, <2>2, Dimensions
  <2>7. g * g + h * h <= r * r
    BY DEF stamp_disk
  <2>8. /\ (0 <= u /\ u <= g) \/ (g <= u /\ u <= 0)
        /\ (0 <= v /\ v <= h) \/ (h <= v /\ v <= 0)
    BY <2>5
  <2>9. u * u + v * v <= r * r
    <3> HIDE DEF u, v, g, h
    <3>1. u * u <= g * g /\ v * v <= h * h
      BY <2>6, <2>8, Squares
    <3>2. u * u \in Int /\ v * v \in Int /\ g * g \in Int /\ h * h \in Int /\ r * r \in Int
      BY <2>6
    <3> QED BY <2>7, <3>1, <3>2
  <2>10. <<x, y>> \in S
    <3> HIDE DEF x, y
    <3>1. <<x, y>> \in Screen /\ <<x, y>>[1] = x /\ <<x, y>>[2] = y
      BY <2>2 DEF Screen
    <3> QED BY <2>9, <3>1 DEF stamp_disk
  <2> HIDE DEF x, y, S
  <2> QED BY <2>3, <2>4, <2>10
<1> HIDE DEF S, f, m
<1>5. S \in Pieces
  BY <1>1, <1>3, <1>4, PieceByDescent
<1> QED BY <1>5 DEF S

-----------------------------------------------------------------------------
(* Segments. *)

LEMMA PointsBox ==
  ASSUME NEW p \in Points, NEW q \in Points, NEW c \in Int \X Int,
         c[1] \in min(p[1], q[1]) .. max(p[1], q[1]),
         c[2] \in min(p[2], q[2]) .. max(p[2], q[2])
  PROVE  c \in Points
<1>1. c[1] \in 0 .. SCREEN_W - 1 /\ c[2] \in 0 .. SCREEN_H
  BY Dimensions DEF Points, min, max
<1> QED BY <1>1 DEF Points

\* Whatever lies between two points it can mark, the pen can mark.
LEMMA CentrePoint ==
  ASSUME NEW p \in Points, NEW q \in Points, NEW i \in 0 .. Steps(p, q), NEW up \in BOOLEAN
  PROVE  Centre(p, q, i, up) \in Points
<1>1. p \in Int \X Int /\ q \in Int \X Int
  BY FootType
<1> QED BY <1>1, CentreBox, PointsBox

LEMMA StepsType ==
  ASSUME NEW p \in Int \X Int, NEW q \in Int \X Int
  PROVE  Steps(p, q) \in Nat \ {0}
BY DEF Steps, Span, max

\* A segment is one piece from its first to its last point, whichever way its
\* ties are rounded (stroke_segment).
LEMMA SegmentPiece ==
  ASSUME NEW p \in Points, NEW q \in Points, NEW r \in Nat \ {0}, NEW ups
  PROVE  /\ Stamped(p, q, r, ups) \in Pieces
         /\ Foot(p) \in Stamped(p, q, r, ups) /\ Foot(q) \in Stamped(p, q, r, ups)
         /\ stamp_disk(q, r) \subseteq Stamped(p, q, r, ups)
<1> DEFINE n == Steps(p, q)
           C(i) == Centre(p, q, i, i \in ups)
           D(i) == stamp_disk(C(i), r)
           S == Stamped(p, q, r, ups)
<1>1. n \in Nat \ {0} /\ p \in Int \X Int /\ q \in Int \X Int
  BY FootType, StepsType
<1>0. ASSUME NEW i
      PROVE  \E up \in BOOLEAN : C(i) = Centre(p, q, i, up)
  <2>1. i \in ups => C(i) = Centre(p, q, i, TRUE)
    BY DEF Centre, Rounded
  <2>2. i \notin ups => C(i) = Centre(p, q, i, FALSE)
    BY DEF Centre, Rounded
  <2> QED BY <2>1, <2>2
<1>2. ASSUME NEW i \in 0 .. n
      PROVE  C(i) \in Points /\ D(i) \in Pieces /\ Foot(C(i)) \in D(i)
  <2>1. PICK up \in BOOLEAN : C(i) = Centre(p, q, i, up)
    BY <1>0
  <2>2. C(i) \in Points
    BY <2>1, CentrePoint
  <2> HIDE DEF C
  <2> QED BY <2>2, StampPiece, StampFoot
<1>3. S = UNION {D(i) : i \in 0 .. n}
  BY DEF Stamped
<1>4. C(0) = p /\ C(n) = q
  <2>1. PICK up \in BOOLEAN : C(0) = Centre(p, q, 0, up)
    BY <1>0
  <2>2. PICK vp \in BOOLEAN : C(n) = Centre(p, q, n, vp)
    BY <1>0
  <2> HIDE DEF C
  <2> QED BY <1>1, <2>1, <2>2, StampsAreNear
<1>5. ASSUME NEW i \in 0 .. n - 1
      PROVE  Near(Foot(C(i + 1)), Foot(C(i)))
  <2>1. Near(C(i + 1), C(i))
    <3>1. PICK up \in BOOLEAN : C(i) = Centre(p, q, i, up)
      BY <1>0
    <3>2. PICK vp \in BOOLEAN : C(i + 1) = Centre(p, q, i + 1, vp)
      BY <1>0
    <3> HIDE DEF C
    <3> QED BY <1>1, <3>1, <3>2, StampsAreNear
  <2>2. i \in 0 .. n /\ i + 1 \in 0 .. n
    BY <1>1
  <2> HIDE DEF C
  <2> QED BY <1>2, <2>1, <2>2, FeetNear
<1> HIDE DEF n, C
<1>6. S \in SUBSET Screen
  BY <1>3, StampType
<1>7. ASSUME NEW A \in SUBSET S, A # {}, A # S
      PROVE  \E a \in A, b \in S \ A : Near(a, b)
  <2> SUFFICES ASSUME \A a \in A, b \in S \ A : ~Near(a, b)
               PROVE  FALSE
    BY <1>7
  <2> DEFINE I == {i \in 0 .. n : D(i) \subseteq A}
  <2>1. ASSUME NEW i \in 0 .. n, D(i) \intersect A # {}
        PROVE  i \in I
    <3> SUFFICES ASSUME D(i) \intersect A # D(i) PROVE FALSE
      OBVIOUS
    <3>1. D(i) \intersect A \in (SUBSET D(i)) \ {{}, D(i)}
      BY <2>1
    <3> HIDE DEF D
    <3>2. D(i) \in Pieces /\ D(i) \subseteq S
      BY <1>2, <1>3
    <3>3. \E a \in D(i) \intersect A, b \in D(i) \ (D(i) \intersect A) : Near(a, b)
      BY <3>1, <3>2 DEF Pieces
    <3> QED BY <3>2, <3>3
  <2>2. PICK x \in 0 .. n : x \in I
    <3>1. PICK a \in A : a \in S
      BY <1>7
    <3>2. PICK i \in 0 .. n : a \in D(i)
      BY <1>3, <3>1
    <3> QED BY <2>1, <3>2
  <2>3. PICK y \in 0 .. n : y \notin I
    <3>1. PICK b \in S : b \notin A
      BY <1>7
    <3>2. PICK i \in 0 .. n : b \in D(i)
      BY <1>3, <3>1
    <3> QED BY <3>1, <3>2
  <2>4. ASSUME NEW i \in 0 .. n
        PROVE  /\ i \in I => Foot(C(i)) \in A
               /\ i \notin I => Foot(C(i)) \in S \ A
    <3>1. Foot(C(i)) \in D(i) /\ Foot(C(i)) \in S
      BY <1>2, <1>3
    <3> QED BY <2>1, <3>1
  <2> HIDE DEF I, D, S
  <2>5. PICK i \in 0 .. n - 1 : i \in I <=> i + 1 \notin I
    BY <1>1, <2>2, <2>3, Crossing
  <2>6. i \in 0 .. n /\ i + 1 \in 0 .. n
    BY <1>1
  <2>7. Near(Foot(C(i + 1)), Foot(C(i))) /\ Near(Foot(C(i)), Foot(C(i + 1)))
    <3>1. Foot(C(i)) \in Screen /\ Foot(C(i + 1)) \in Screen
      BY <1>2, <2>6, FootType
    <3> QED BY <1>5, <3>1, NearScreen
  <2> QED BY <2>4, <2>5, <2>6, <2>7
<1>8. S \in Pieces
  BY <1>6, <1>7 DEF Pieces
<1>9. D(0) \subseteq S /\ D(n) \subseteq S /\ Foot(C(0)) \in D(0) /\ Foot(C(n)) \in D(n)
  BY <1>1, <1>2, <1>3
<1> QED BY <1>4, <1>8, <1>9

-----------------------------------------------------------------------------
(* The ink of a stroke. *)

\* NoGaps is not inductive alone: the next segment joins on only because the
\* stroke's last point is still in its ink, or nothing of it is left.
GapInv == NoGaps /\ (drawing /\ trail # {} => Foot(last) \in trail)

LEMMA RadiusPositive ==
  ASSUME NEW ev \in PenEvents, NEW s \in Pressures
  PROVE  radius(ev, s) \in Nat \ {0}
BY InkAssumption DEF radius, Pressures

\* What stroke_segment may write between two points.
LEMMA SegmentInk ==
  ASSUME NEW p \in Positions, NEW q \in Positions, NEW r \in Radii,
         NEW pixels \in stroke_segment[<<p, q, r>>]
  PROVE  \E ups : pixels = Stamped(p, q, r, ups)
<1>1. stroke_segment[<<p, q, r>>] = Segments(p, q, r)
  BY DEF stroke_segment
<1> QED BY <1>1 DEF Segments

\* New ink of the stroke's own tool keeps the whole stroke inked, or erased.
LEMMA PutInk ==
  ASSUME NEW ev, NEW pixels, NEW before, Put(ev, pixels, before),
         IF Erasing(ev) THEN before \intersect paper = {} ELSE before \subseteq paper
  PROVE  IF cur_tool' = "Eraser" THEN trail' \intersect paper' = {} ELSE trail' \subseteq paper'
BY DEF Put, Erasing

LEMMA EmptyPiece == {} \in Pieces
BY DEF Pieces

LEMMA GapStep == InkTypeOK /\ GapInv /\ [InkNext]_ink => GapInv'
<1> SUFFICES ASSUME InkTypeOK, GapInv, [InkNext]_ink PROVE GapInv'
  OBVIOUS
<1>1. ASSUME NEW ev \in PenEvents, dot(ev) PROVE GapInv'
  <2>1. PICK s \in Smooth(ev) : Put(ev, stamp_disk(ev.at, radius(ev, s)), {})
    BY <1>1 DEF dot
  <2>2. ev.at \in Points /\ radius(ev, s) \in Nat \ {0}
    BY <1>1, SmoothType, RadiusPositive, DownIsPoint DEF dot, Down, PenEvents
  <2>3. trail' = stamp_disk(ev.at, radius(ev, s)) /\ last' = ev.at
    BY <2>1 DEF Put
  <2>4. trail' \in Pieces /\ Foot(last') \in trail'
    BY <2>2, <2>3, StampPiece, StampFoot
  <2>5. IF cur_tool' = "Eraser" THEN trail' \intersect paper' = {} ELSE trail' \subseteq paper'
    BY <2>1, PutInk
  <2> QED BY <2>4, <2>5 DEF GapInv, NoGaps, Pieces, Near, Foot
<1>2. ASSUME NEW ev \in PenEvents, segment(ev) PROVE GapInv'
  <2>1. PICK s \in Smooth(ev) : \E pixels \in stroke_segment[<<last, ev.at, radius(ev, s)>>] :
                                  Put(ev, pixels, trail)
    BY <1>2 DEF segment
  <2>2. PICK pixels \in stroke_segment[<<last, ev.at, radius(ev, s)>>] : Put(ev, pixels, trail)
    BY <2>1
  <2>3. /\ drawing /\ cur_tool = ev.tool /\ last \in Positions /\ ev.at \in Positions
        /\ last \in Points /\ ev.at \in Points
        /\ radius(ev, s) \in Radii /\ radius(ev, s) \in Nat \ {0}
    BY <1>2, SmoothType, RadiusType, RadiusPositive, DownIsPoint
    DEF segment, Continues, Down, InkTypeOK, PenEvents
  <2>4. PICK ups : pixels = Stamped(last, ev.at, radius(ev, s), ups)
    BY <2>3, SegmentInk
  <2>5. pixels \in Pieces /\ Foot(last) \in pixels /\ Foot(ev.at) \in pixels
    BY <2>3, <2>4, SegmentPiece
  <2>6. trail' = trail \union pixels /\ last' = ev.at
    BY <2>2 DEF Put
  <2>7. trail' \in Pieces
    <3>1. CASE trail = {}
      BY <2>5, <2>6, <3>1
    <3>2. CASE trail # {}
      <4>1. trail \in Pieces /\ Foot(last) \in trail
        BY <2>3, <3>2 DEF GapInv, NoGaps
      <4> QED BY <2>5, <2>6, <4>1, PiecesJoin
    <3> QED BY <3>1, <3>2
  <2>8. IF cur_tool' = "Eraser" THEN trail' \intersect paper' = {} ELSE trail' \subseteq paper'
    BY <2>2, <2>3, PutInk DEF GapInv, NoGaps, Erasing
  <2> QED BY <2>5, <2>6, <2>7, <2>8 DEF GapInv, NoGaps, Pieces, Near, Foot
<1>3. ASSUME NEW ev \in PenEvents, pass(ev) PROVE GapInv'
  <2>1. CASE Continues(ev) /\ ev.touch
    <3>1. /\ cur_tool' = cur_tool /\ trail' = trail /\ paper' = paper /\ last' = last
          /\ drawing
      BY <1>3, <2>1 DEF pass, Continues
    <3> QED BY <3>1 DEF GapInv, NoGaps, Pieces, Near, Foot
  <2>2. CASE ~(Continues(ev) /\ ev.touch)
    <3>1. trail' = {}
      BY <1>3, <2>2 DEF pass
    <3> QED BY <3>1, EmptyPiece DEF GapInv, NoGaps, Pieces, Near, Foot
  <2> QED BY <2>1, <2>2
<1>4. CASE clear
  BY <1>4, EmptyPiece DEF clear, GapInv, NoGaps, Pieces, Near, Foot
<1>5. CASE UNCHANGED ink
  BY <1>5 DEF ink, GapInv, NoGaps, Pieces, Near, Foot
<1> QED BY <1>1, <1>2, <1>3, <1>4, <1>5 DEF InkNext

\* A stroke has no gaps (main.rs:95-107): however far apart its samples, over
\* the edges of the screen and through a clear, for every screen, radius and
\* tool, what it has written since is one piece, and all of it is its ink.
THEOREM StrokesHaveNoGaps == InkSpec => []NoGaps
<1>1. InkInit => GapInv
  BY EmptyPiece DEF InkInit, GapInv, NoGaps
<1>2. GapInv => NoGaps
  BY DEF GapInv
<1> QED BY <1>1, <1>2, InitTyped, InkNextType, GapStep, PTL DEF InkSpec

-----------------------------------------------------------------------------
(* Where the ink of a stroke is. *)

\* A segment's stamps stay within the radius of the box of its two points.
LEMMA SegmentBox ==
  ASSUME NEW p \in Points, NEW q \in Points, NEW r \in Nat, NEW ups,
         NEW x \in Stamped(p, q, r, ups)
  PROVE  /\ x[1] \in min(p[1], q[1]) - r .. max(p[1], q[1]) + r
         /\ x[2] \in min(p[2], q[2]) - r .. max(p[2], q[2]) + r
<1>1. PICK i \in 0 .. Steps(p, q) : x \in stamp_disk(Centre(p, q, i, i \in ups), r)
  BY DEF Stamped
<1>2. PICK up \in BOOLEAN : x \in stamp_disk(Centre(p, q, i, up), r)
  <2>1. i \in ups => Centre(p, q, i, i \in ups) = Centre(p, q, i, TRUE)
    BY DEF Centre, Rounded
  <2>2. i \notin ups => Centre(p, q, i, i \in ups) = Centre(p, q, i, FALSE)
    BY DEF Centre, Rounded
  <2> QED BY <1>1, <2>1, <2>2
<1> DEFINE c == Centre(p, q, i, up)
<1>3. /\ p \in Int \X Int /\ q \in Int \X Int
      /\ p[1] \in Int /\ p[2] \in Int /\ q[1] \in Int /\ q[2] \in Int
  BY FootType
<1>4. /\ c \in Int \X Int
      /\ c[1] \in min(p[1], q[1]) .. max(p[1], q[1])
      /\ c[2] \in min(p[2], q[2]) .. max(p[2], q[2])
  BY <1>3, CentreBox
<1> HIDE DEF c
<1>5. x[1] \in c[1] - r .. c[1] + r /\ x[2] \in c[2] - r .. c[2] + r
  BY <1>2, <1>4, StampBox DEF c
<1> QED BY <1>3, <1>4, <1>5 DEF min, max

\* Every mark reaches the pen and stays along its stroke.
LEMMA MarksAlong == InkTypeOK /\ [InkNext]_ink => MarkStep
<1> SUFFICES ASSUME InkTypeOK, [InkNext]_ink, trail' # trail, trail' # {}
             PROVE  MarkStep
  BY DEF MarkStep
<1> DEFINE on == drawing /\ cur_tool' = cur_tool
           from == IF on THEN last ELSE last'
           r == IF cur_tool' = "Eraser" THEN ERASER_RADIUS ELSE PEN_RADIUS + smoothed'
<1>1. ASSUME NEW ev \in PenEvents, NEW s \in Smooth(ev), Down(ev), smoothed' = s,
             NEW pixels, NEW before, Put(ev, pixels, before)
      PROVE  /\ last' = ev.at /\ ev.at \in Points /\ on = Continues(ev)
             /\ r = radius(ev, s) /\ r \in Nat \ {0} /\ r \in Radii
  <2>1. /\ last' = ev.at /\ cur_tool' = ev.tool /\ on = Continues(ev)
        /\ r = radius(ev, s)
    BY <1>1 DEF Put, Continues, radius, Erasing
  <2> QED BY <1>1, <2>1, SmoothType, RadiusType, RadiusPositive, DownIsPoint DEF Down, PenEvents
<1>2. ASSUME NEW ev \in PenEvents, dot(ev) PROVE MarkStep
  <2>1. PICK s \in Smooth(ev) : smoothed' = s /\ Put(ev, stamp_disk(ev.at, radius(ev, s)), {})
    BY <1>2 DEF dot
  <2>2. /\ last' = ev.at /\ ev.at \in Points /\ ~on
        /\ r = radius(ev, s) /\ r \in Nat \ {0}
    BY <1>1, <1>2, <2>1 DEF dot
  <2> HIDE DEF on, r
  <2>3. trail' = stamp_disk(ev.at, r)
    BY <2>1, <2>2 DEF Put
  <2>4. last' \in Screen => last' \in trail'
    BY <2>2, <2>3, FootType, StampFoot
  <2>5. ASSUME NEW p \in trail'
        PROVE  /\ p[1] \in min(last'[1], last'[1]) - r .. max(last'[1], last'[1]) + r
               /\ p[2] \in min(last'[2], last'[2]) - r .. max(last'[2], last'[2]) + r
    BY <2>2, <2>3, FootType, StampBox DEF min, max
  <2> QED BY <2>2, <2>4, <2>5 DEF MarkStep, on, r
<1>3. ASSUME NEW ev \in PenEvents, segment(ev) PROVE MarkStep
  <2>0. PICK s \in Smooth(ev) :
          smoothed' = s /\ \E pixels \in stroke_segment[<<last, ev.at, radius(ev, s)>>] :
                             Put(ev, pixels, trail)
    BY <1>3 DEF segment
  <2>1. PICK pixels \in stroke_segment[<<last, ev.at, radius(ev, s)>>] : Put(ev, pixels, trail)
    BY <2>0
  <2>2. /\ last' = ev.at /\ ev.at \in Points /\ on
        /\ r = radius(ev, s) /\ r \in Nat \ {0} /\ r \in Radii
    BY <1>1, <1>3, <2>0, <2>1 DEF segment
  <2>3. last \in Positions /\ ev.at \in Positions /\ last \in Points
    BY <1>3, DownIsPoint DEF segment, Continues, InkTypeOK, PenEvents
  <2> HIDE DEF on, r
  <2>4. PICK ups : pixels = Stamped(last, ev.at, r, ups)
    BY <2>1, <2>2, <2>3, SegmentInk
  <2>5. trail' = trail \union pixels
    BY <2>1 DEF Put
  <2>6. last' \in Screen => last' \in trail'
    BY <2>2, <2>3, <2>4, <2>5, FootType, SegmentPiece
  <2>7. ASSUME NEW p \in trail' \ trail
        PROVE  /\ p[1] \in min(last[1], last'[1]) - r .. max(last[1], last'[1]) + r
               /\ p[2] \in min(last[2], last'[2]) - r .. max(last[2], last'[2]) + r
    BY <2>2, <2>3, <2>4, <2>5, SegmentBox
  <2> QED BY <2>2, <2>6, <2>7 DEF MarkStep, on, r
<1>4. ASSUME NEW ev \in PenEvents, pass(ev) PROVE FALSE
  BY <1>4 DEF pass
<1>5. CASE clear
  BY <1>5 DEF clear
<1>6. CASE UNCHANGED ink
  BY <1>6 DEF ink
<1> QED BY <1>2, <1>3, <1>4, <1>5, <1>6 DEF InkNext

\* What a frame marks reaches the point the pen is at and lies within the
\* radius of the way there from the stroke's last point, and of that point
\* alone when a stroke begins: no streak across the screen from where another
\* stroke ended, for every screen, radius and pen (main.rs:163-209).
THEOREM MarksLieAlongTheStroke == InkSpec => AlongStroke
BY InitTyped, InkNextType, MarksAlong, PTL DEF InkSpec, AlongStroke
=============================================================================
