------------------------------ MODULE MCDevice ------------------------------
(***************************************************************************)
(* A small instance of Device: two processes, one with two handles, three  *)
(* surfaces and room for three descriptors each.                           *)
(***************************************************************************)
EXTENDS Device, TLC

CONSTANTS p1, p2, e1, e2, e3

TwoProcs == {p1, p2}
ThreeEbcs == {e1, e2, e3}
OwnerOf == e1 :> p1 @@ e2 :> p1 @@ e3 :> p2

Same == Permutations(Surfaces)
=============================================================================
