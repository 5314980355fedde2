------------------------------- MODULE MCDraw -------------------------------
(***************************************************************************)
(* Small instances of Draw: a screen of four or two pixels, two grays and  *)
(* a few arguments for every call, chosen so that each is clipped, crossed *)
(* or out of bounds somewhere.                                             *)
(***************************************************************************)
EXTENDS Draw, TLC

Ink == 0
Paper == 1
TwoGrays == {Ink, Paper}

OnePoint == {<<0, 0>>}
CrossPoints == {<<1, 0>>, <<-1, 0>>}

\* One rectangle with its corners in order, and the same one with its corners
\* reversed; it reaches the edge that the rotation carries off the buffer.
BothWays(x1, y1, x2, y2) == {Rect(x1, y1, x2, y2), Rect(x2, y2, x1, y1)}
ColumnRects == BothWays(1, 0, 2, 2)
WideRects == BothWays(1, 0, 9, 1)

OneBatch == {[p \in {<<1, 0>>, <<5, 5>>} |-> Ink]}

\* Clipped by the left and the bottom edge.
Clipped == [img |-> [k \in 0 .. 3 |-> Ink], len |-> 4, width |-> 2, height |-> 2,
            x |-> -1, y |-> 1]
\* Wholly left of the screen: the column count wraps.
LeftOf == [img |-> [k \in 0 .. 4 |-> Ink], len |-> 5, width |-> 1, height |-> 5,
           x |-> -3, y |-> 0]
\* The same with an image long enough for every row of the wrapped copy.
LeftOfLong == [LeftOf EXCEPT !.img = [k \in 0 .. 7 |-> Ink], !.len = 8]

TwoImages == {Clipped, LeftOf}
WrappedImages == {Clipped, LeftOfLong}
OneMode == {"A2"}

Scopes == Permutations(Guards)
=============================================================================
