--------------------------- MODULE MCControlPlane ---------------------------
(* Model values for ControlPlane: a GUI and a headless session, and two    *)
(* providers, each of which may give no tool, one of two, or one twice.    *)
EXTENDS ControlPlane

CONSTANTS r1, r2, g1, w1

TwoCalls == {r1, r2}
OneGui == {g1}
OneWorker == {w1}
TwoNames == {"a", "b"}
SomeOffers == {<<>>, <<"a">>, <<"b">>, <<"b", "b">>}
=============================================================================
