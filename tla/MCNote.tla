------------------------------- MODULE MCNote -------------------------------
(***************************************************************************)
(* Small instances of Note: the program alone, or beside a process that    *)
(* has two handles and a surface of its own.                               *)
(***************************************************************************)
EXTENDS Note, TLC

CONSTANTS you, e2, e3

Alone == ebc :> me
WithYou == ebc :> me @@ e2 :> you @@ e3 :> you
=============================================================================
