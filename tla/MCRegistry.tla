---------------------------- MODULE MCRegistry -----------------------------
(* Model values for Registry: the ids two sessions draw, which are reused   *)
(* as soon as there are three leases, and a clock.                          *)
EXTENDS Registry, TLC

CONSTANTS s1, s2

MCTwoSessions == {s1, s2}
Symmetry == Permutations(SessionId)
=============================================================================
