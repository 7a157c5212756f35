---------------------------- MODULE MCAsyncQueue ----------------------------
(* Instances of AsyncQueue: two engine threads, as two recorders have. *)
EXTENDS AsyncQueue

CONSTANTS p1, p2

MCProducers == {p1, p2}
MCCapacities == {0, 1}
=============================================================================
