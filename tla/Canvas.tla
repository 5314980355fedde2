------------------------------- MODULE Canvas -------------------------------
(***************************************************************************)
(* What the drawing half of libhweink promises its user, with nothing said *)
(* about rotation, dirty rectangles, flags or ioctls (draw.rs:1-20 and     *)
(* path.rs:85-87).  A picture goes through three layers: the canvas that   *)
(* writers draw on, the frame that is handed to the driver, and the glass. *)
(* A writer's strokes are a transaction: they reach the frame all at once, *)
(* when it commits, or never, and a writer commits at most once.  The      *)
(* glass never shows anything that the frame does not hold at that moment. *)
(*                                                                         *)
(* Draw implements this: see ImplementsCanvas there.                       *)
(***************************************************************************)
CONSTANTS Pixel,      \* positions of the picture
          Level,      \* what a pixel can be
          Blank,      \* what a fresh canvas is filled with
          Writers     \* the transactions that can be open together

VARIABLES
  canvas,     \* layer 1, one for all writers
  frame,      \* layer 2
  glass,      \* layer 3
  status,     \* of each writer: "closed", "open" or "spent"
  pending     \* the pixels each writer would bring to the frame

vars == <<canvas, frame, glass, status, pending>>

Init == /\ canvas = [p \in Pixel |-> Blank]
        /\ frame \in [Pixel -> Level]
        /\ glass = frame
        /\ status = [w \in Writers |-> "closed"]
        /\ pending = [w \in Writers |-> {}]

\* The glass takes over some pixels of the frame, or none.
Exposed == \A p \in Pixel : glass'[p] = glass[p] \/ glass'[p] = frame'[p]

Open(w) == /\ status[w] = "closed"
           /\ status' = [status EXCEPT ![w] = "open"]
           /\ UNCHANGED <<canvas, frame, glass, pending>>

\* An open writer draws inside what it then has pending.
Write(w) == /\ status[w] = "open"
            /\ pending[w] \subseteq pending'[w] /\ pending'[w] \subseteq Pixel
            /\ pending' = [pending EXCEPT ![w] = pending'[w]]
            /\ \A p \in Pixel \ pending'[w] : canvas'[p] = canvas[p]
            /\ UNCHANGED <<frame, glass, status>>

\* Drawing that nobody has pending: a raw write, or a write by a spent writer.
Scribble(w) == /\ status[w] # "closed"
               /\ UNCHANGED <<frame, glass, status, pending>>

\* The whole transaction reaches the frame, and nothing else does.  The writer
\* has had its turn.  A writer that unwinds may leave scribbles on the canvas.
Commit(w) == /\ status[w] = "open"
             /\ frame' = [p \in Pixel |-> IF p \in pending[w] THEN canvas'[p] ELSE frame[p]]
             /\ Exposed
             /\ \/ status' = [status EXCEPT ![w] = "spent"] /\ canvas' = canvas
                \/ status' = [status EXCEPT ![w] = "closed"]
             /\ pending' = [pending EXCEPT ![w] = {}]

\* The transaction is given up, or the writer that has had its turn goes away.
Abandon(w) == /\ \/ status[w] = "open" /\ status' = [status EXCEPT ![w] = "spent"]
                                       /\ canvas' = canvas
                 \/ status[w] = "spent" /\ status' = [status EXCEPT ![w] = "closed"]
              /\ pending' = [pending EXCEPT ![w] = {}]
              /\ UNCHANGED <<frame, glass>>

\* Drawing past the canvas, into the frame.
Direct == UNCHANGED <<canvas, glass, status, pending>>

Refresh == Exposed /\ UNCHANGED <<canvas, frame, status, pending>>

Next == \/ \E w \in Writers : Open(w) \/ Write(w) \/ Scribble(w) \/ Commit(w) \/ Abandon(w)
        \/ Direct
        \/ Refresh

Spec == Init /\ [][Next]_vars
=============================================================================
