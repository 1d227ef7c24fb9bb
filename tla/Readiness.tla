----------------------------- MODULE Readiness -----------------------------
(***************************************************************************)
(* What the part of HeadlessSessionManager.open between the launch and the *)
(* registration promises the rest of it: it decides, once and in the end,  *)
(* what to do with the worker.                                             *)
(*                                                                         *)
(* A worker is called ready on the strength of one look: at one instant    *)
(* before the deadline it had announced its endpoint and was running.  By  *)
(* the time of the verdict it may have died, and what answered the probe   *)
(* may be somebody else: no promise is made that it still runs.  A worker  *)
(* that is turned down has stopped, unless the call itself raises.         *)
(***************************************************************************)
VARIABLES
  alive,     (* the worker process runs                                     *)
  bound,     (* it has announced the endpoint it listens on                 *)
  late,      (* the deadline has passed                                     *)
  verdict    (* "open", "seen" after the look, "ready", "failed", "raised"  *)

Init == alive = TRUE /\ bound = FALSE /\ late = FALSE /\ verdict = "open"

Bind == alive /\ bound' = TRUE /\ UNCHANGED <<alive, late, verdict>>

Die == alive' = FALSE /\ UNCHANGED <<bound, late, verdict>>

Expire == late' = TRUE /\ UNCHANGED <<alive, bound, verdict>>

Look ==
  /\ verdict = "open" /\ alive /\ bound /\ ~late
  /\ verdict' = "seen"
  /\ UNCHANGED <<alive, bound, late>>

Decide ==
  /\ \/ verdict = "seen" /\ verdict' \in {"open", "ready", "raised"}
     \/ verdict = "open" /\ ~alive /\ verdict' = "failed"
     \/ verdict = "open" /\ alive /\ verdict' = "raised"
  /\ UNCHANGED <<alive, bound, late>>

Next == Bind \/ Die \/ Expire \/ Look \/ Decide

Spec ==
  /\ Init
  /\ [][Next]_<<alive, bound, late, verdict>>
  /\ <>(verdict \in {"ready", "failed", "raised"})
=============================================================================
