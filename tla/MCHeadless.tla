---------------------------- MODULE MCHeadless -----------------------------
(* Model values for Headless: two threads that open, one that closes, and  *)
(* as many workers and session ids as the configuration asks for.          *)
EXTENDS Headless, TLC

CONSTANTS w1, w2, w3, s1, s2, o1, o2, c1

TwoWorkers == {w1, w2}
ThreeWorkers == {w1, w2, w3}
TwoSessions == {s1, s2}
OneOpener == {o1}
TwoOpeners == {o1, o2}
OneCloser == {c1}
Symmetry == Permutations(Worker) \cup Permutations(SessionId) \cup Permutations(Opener)
=============================================================================
