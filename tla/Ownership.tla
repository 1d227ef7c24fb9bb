----------------------------- MODULE Ownership ------------------------------
(***************************************************************************)
(* What HeadlessSessionManager promises about worker processes: from its   *)
(* launch to its disposal a worker is in exactly one pair of hands.  It    *)
(* belongs to the `open` call that launched it, then perhaps to an entry   *)
(* of the table of managed sessions, and is taken out of the table by one  *)
(* call, which disposes of it.  Nobody drops a worker on the way, and      *)
(* nobody disposes of one that somebody else holds.                        *)
(***************************************************************************)
CONSTANTS
  Worker,     (* worker processes                                           *)
  Opener,     (* calls of open                                              *)
  SessionId,  (* entries of the table                                       *)
  Taker       (* calls that take a worker out of the table to stop it       *)

VARIABLE hands   (* hands[w]: who holds w; {} when it was disposed of *)

Unborn == {"unborn"}

Init == hands = [w \in Worker |-> Unborn]

Pass(w, from, to) ==
  /\ hands[w] = from
  /\ hands' = [hands EXCEPT ![w] = to]

(* Launched; ready and registered; not ready or not registered. *)
Launch(w, o) == Pass(w, Unborn, {o})
Keep(w, o, s) == Pass(w, {o}, {s})
Discard(w, o) == Pass(w, {o}, {})

(* Closed, or its lease was lost; stopped. *)
Take(w, s, t) == Pass(w, {s}, {t})
Stop(w, t) == Pass(w, {t}, {})

Next ==
  \E w \in Worker :
    \/ \E o \in Opener : Launch(w, o) \/ Discard(w, o)
    \/ \E o \in Opener, s \in SessionId : Keep(w, o, s)
    \/ \E s \in SessionId, t \in Taker : Take(w, s, t)
    \/ \E t \in Taker : Stop(w, t)

Spec == Init /\ [][Next]_hands
=============================================================================
