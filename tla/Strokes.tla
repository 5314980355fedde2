------------------------------ MODULE Strokes -------------------------------
(***************************************************************************)
(* How the note program turns the frames of the pen into strokes           *)
(* (hweink-note/src/main.rs:163-209), with nothing said of where the pen   *)
(* is or what the ink looks like.  A frame is kept to its tool, its touch  *)
(* flag and whether its position is on the screen.                         *)
(*                                                                         *)
(* Note runs this machine inside the program's loop; Ink implements it     *)
(* with positions, radii and pixels.                                       *)
(***************************************************************************)
CONSTANT Tools      \* the tools a PenEvent can name

ASSUME StrokesAssumption == {"None", "Pen", "Eraser"} \subseteq Tools

VARIABLES
  cur_tool, drawing,
  last,       \* whether there is a last point
  smoother,   \* whether the smoothed pressure is of this stroke only
  drew,       \* history: what the last frame drew
  unbroken    \* history: no lift and no other tool since the last point

stroke == <<cur_tool, drawing, last, smoother, drew, unbroken>>

Events == [tool : Tools, touch : BOOLEAN, on : BOOLEAN]

StrokeTypeOK == /\ cur_tool \in Tools /\ drawing \in BOOLEAN /\ last \in BOOLEAN
                /\ smoother \in {"fresh", "stale"}
                /\ drew \in {"nothing", "dot", "segment"} /\ unbroken \in BOOLEAN

StrokeInit == /\ cur_tool = "None" /\ drawing = FALSE /\ last = FALSE
              /\ smoother = "stale" /\ drew = "nothing" /\ unbroken = FALSE

-----------------------------------------------------------------------------
\* Mutant of Swapped: a change of tool is not looked at.
SwappedNever(ev) == FALSE

Touching(ev) == ev.touch /\ ev.on
Swapped(ev) == ev.tool # cur_tool

\* A change of tool ends the stroke before the frame is looked at.
During(ev) == drawing /\ ~Swapped(ev)
From(ev) == last /\ ~Swapped(ev)

\* What the frame draws: a dot where a stroke starts, else a segment.
Mark(ev) == IF ~Touching(ev) THEN "nothing"
            ELSE IF ~During(ev) THEN "dot"
            ELSE IF From(ev) THEN "segment" ELSE "nothing"

\* Mutant of LastAfter: a frame off the screen forgets the last point.
LastForgotten(ev) == Mark(ev) # "nothing"

\* The point drawn is kept; a lift forgets it.
LastAfter(ev) == IF Touching(ev) THEN ~During(ev) \/ From(ev)
                 ELSE From(ev) /\ (During(ev) => ev.touch)

\* Mutant of SmootherAfter: the first sample of a stroke is not a reset.
SmootherFed(ev) == smoother

\* The first sample of a pen stroke resets the smoother, the others feed it,
\* and an eraser leaves in it what another stroke put there.
SmootherAfter(ev) ==
  IF Touching(ev) /\ ~During(ev) THEN IF ev.tool = "Eraser" THEN "stale" ELSE "fresh"
  ELSE IF During(ev) /\ ev.touch THEN smoother ELSE "stale"

\* The match arm of a frame, whole.
Stroke(ev) ==
  /\ cur_tool' = ev.tool
  /\ drawing' = (Touching(ev) \/ (During(ev) /\ ev.touch))
  /\ last' = LastAfter(ev)
  /\ smoother' = SmootherAfter(ev)
  /\ drew' = Mark(ev)
  /\ unbroken' = (drew' # "nothing" \/ (unbroken /\ ev.touch /\ ev.tool = cur_tool))

StrokeNext == \E ev \in Events : Stroke(ev)

StrokeSpec == StrokeInit /\ [][StrokeNext]_stroke

-----------------------------------------------------------------------------
(* What the strokes promise, whoever runs the machine. *)

\* A segment joins two points only if in between the pen neither left the
\* screen's surface nor changed its tool, as far as the frames read tell
\* (main.rs:166-172, 192-201).
SegmentStep == drew' = "segment" /\ stroke' # stroke => unbroken /\ cur_tool' = cur_tool
SegmentsUnbroken == [][SegmentStep]_stroke

\* The width of a pen stroke comes from the pressure of that stroke alone,
\* whatever strokes, erasures and tool changes came before (main.rs:181-184).
FreshPressure == drawing /\ cur_tool # "Eraser" => smoother = "fresh"
=============================================================================
