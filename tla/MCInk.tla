-------------------------------- MODULE MCInk -------------------------------
(***************************************************************************)
(* A small instance of Ink: a screen two pixels wide, long enough for a    *)
(* segment whose ends do not touch.                                        *)
(***************************************************************************)
EXTENDS Ink
=============================================================================
