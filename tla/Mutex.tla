------------------------------- MODULE Mutex -------------------------------
(***************************************************************************)
(* What `FileLock` promises to `InstanceRegistry`: one thread of one       *)
(* process at a time is inside the `with FileLock(...)` block, whatever    *)
(* the threads and the processes of the machine do.  A holder leaves       *)
(* either because the block ends or because its process dies.              *)
(***************************************************************************)
CONSTANTS
  Thread,   (* every thread of every process that shares the lock file *)
  NoThread  (* the lock is free                                        *)

VARIABLE holder

Init == holder = NoThread

Acquire(t) ==
  /\ holder = NoThread
  /\ holder' = t

Release(t) ==
  /\ holder = t
  /\ holder' = NoThread

Next == \E t \in Thread : Acquire(t) \/ Release(t)

Spec == Init /\ [][Next]_holder
=============================================================================
