---------------------------- MODULE MCMixLayout ----------------------------
(* Instances of MixLayout. *)
EXTENDS MixLayout

CONSTANTS s1, s2, u1, u2, u3, u4, nobody

MCOneSession == {s1}
MCTwoSessions == {s1, s2}
MCOneUser == {u1}
MCTwoUsers == {u1, u2}
MCFourUsers == {u1, u2, u3, u4}
MCNobody == nobody
Symmetry == Permutations({s1, s2}) \cup Permutations({u1, u2, u3, u4})
=============================================================================
