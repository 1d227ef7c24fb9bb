--------------------------- MODULE MCRegistryFile ---------------------------
(* Model values for RegistryFile: process p has two threads, process q one. *)
EXTENDS RegistryFile, TLC

CONSTANTS p, q, t1, t2, u1

MCProcess == {p, q}
MCThread == {t1, t2, u1}
MCHome == (t1 :> p) @@ (t2 :> p) @@ (u1 :> q)
=============================================================================
