------------------------- MODULE MCRecorderService -------------------------
(* Instances of RecorderService. *)
EXTENDS RecorderService

CONSTANTS s1, s2, u1, nobody

MCOneSession == {s1}
MCTwoSessions == {s1, s2}
MCOneUser == {u1}
MCNobody == nobody
=============================================================================
