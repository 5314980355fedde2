------------------------------- MODULE MCPen -------------------------------
(***************************************************************************)
(* Small instances of Pen: two tools and both axes, a queue of a few       *)
(* events, and chunks that cut frames and hold more than one.              *)
(***************************************************************************)
EXTENDS Pen

TwoToolsAndAxes == {"BTN_TOOL_PEN", "BTN_TOOL_RUBBER", "ABS_X", "ABS_Y"}
=============================================================================
