----------------------------- MODULE LeaseTable -----------------------------
(***************************************************************************)
(* What InstanceRegistry promises the owners of sessions: a session id is  *)
(* held by at most one lease at a time; every grant is a lease that was    *)
(* never granted before; a lease that has ended never comes back and is    *)
(* never moved to another session.  Leases end because their owner gives   *)
(* them up, because a cleanup takes them, or all at once when the file is  *)
(* lost; the table does not say which.  A grant does not touch any other   *)
(* lease, unless the registration finds the file unusable: then all others *)
(* are gone.                                                               *)
(***************************************************************************)
EXTENDS Integers

CONSTANT SessionId

VARIABLES
  granted,   (* leases are numbered by grants: how many there were          *)
  holder     (* holder[s]: the lease that holds session s, 0 for none       *)

Init ==
  /\ granted = 0
  /\ holder = [s \in SessionId |-> 0]

(* The leases of the sessions in S end. *)
End(S) ==
  /\ holder' = [s \in SessionId |-> IF s \in S THEN 0 ELSE holder[s]]
  /\ UNCHANGED granted

(* A new lease for a free session. *)
Grant(s) ==
  /\ holder[s] = 0
  /\ granted' = granted + 1
  /\ holder' = [holder EXCEPT ![s] = granted']

(* A new lease after all the others were lost. *)
GrantAfterLoss(s) ==
  /\ granted' = granted + 1
  /\ holder' = [u \in SessionId |-> IF u = s THEN granted' ELSE 0]

Next ==
  \/ \E S \in SUBSET SessionId : End(S)
  \/ \E s \in SessionId : Grant(s) \/ GrantAfterLoss(s)

Spec == Init /\ [][Next]_<<granted, holder>>
=============================================================================
