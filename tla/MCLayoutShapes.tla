---------------------------- MODULE MCLayoutShapes -----------------------------
(* Layouts for up to eighteen users, one more than any layout has places   *)
(* for, on the canvas of the default mixResolution (360 by 640), on the     *)
(* same one turned, and on a square.                                        *)
EXTENDS LayoutShapes

SomeCanvases == {[width |-> 9, height |-> 16], [width |-> 16, height |-> 9],
                 [width |-> 1, height |-> 1]}
=============================================================================
