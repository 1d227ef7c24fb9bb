----------------------------- MODULE MCRuntime -----------------------------
(* Model values for Runtime: two threads of the host, of which c1 may be *)
(* the one that its execution gate needs.                                *)
EXTENDS Runtime, TLC

CONSTANTS c1, c2

OneCaller == {c1}
TwoCallers == {c1, c2}
Ungated == {}
=============================================================================
