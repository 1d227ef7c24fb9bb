------------------------------ MODULE Registry ------------------------------
(***************************************************************************)
(* src/local_runtime/registry.py: InstanceRegistry, as its clients see it. *)
(* Every method runs inside one `with FileLock(...)` block, and FileLock   *)
(* implements a mutex (ImplementsMutex in FileLock.tla), so a method is    *)
(* one step.  What happens before the block is not part of that step:      *)
(* register and cleanup_stale read the clock, then wait for the lock, up   *)
(* to LockWait.                                                            *)
(*                                                                         *)
(* Clients are the most general ones: any call, at any time, with any      *)
(* lease ever issued and the session it was issued for, however long ago.  *)
(*                                                                         *)
(* Faults says what the environment may do to the file:                    *)
(*   "damage"     somebody else removes it or writes something malformed   *)
(*   "read"       opening or reading a good file fails                     *)
(*   "move"       setting an unreadable file aside fails                   *)
(*   "write"      writing or renaming the temporary file fails             *)
(*   "nonfinite"  a client registers metadata with a NaN or an infinity,   *)
(*                which json.dump writes and as_json_object refuses        *)
(***************************************************************************)
EXTENDS Store, Sequences

CONSTANTS
  Faults,     (* the faults that may happen                                 *)
  MaxAge,     (* the max_age of cleanup_stale                               *)
  LockWait,   (* the longest wait for the file lock                         *)
  MaxLease,   (* bound of the model: leases issued                          *)
  MaxNow      (* bound of the model: ticks of the clock                     *)

ASSUME RegistryAssumption ==
  /\ Faults \subseteq {"damage", "read", "move", "write", "nonfinite"}
  /\ MaxAge \in Nat
  /\ LockWait \in Nat
  /\ MaxLease \in Nat
  /\ MaxNow \in Nat

VARIABLES
  file,      (* what is at `path`: nothing, a store, a store that as_json_  *)
             (* object refuses, or something malformed                      *)
  store,     (* the store in the file; EmptyStore when there is none        *)
  corrupt,   (* what the `.corrupt` file holds                              *)
  grants,    (* history: grants[l] is the session of lease l and the time   *)
             (* its owner last registered or renewed it, and whether a      *)
             (* heartbeat of it was ever refused                            *)
  now,       (* the wall clock                                              *)
  last       (* the last call and its result                                *)

vars == <<file, store, corrupt, grants, now, last>>

FileKind == {"absent", "store", "nonfinite", "malformed"}
Lease == 1..Len(grants)

Grant == [sid : SessionId, heard : Nat, refused : BOOLEAN]

Call(op, s, l, result) == [op |-> op, sid |-> s, lease |-> l, result |-> result]
NoCall == Call("none", NoSession, 0, "raised")

TypeOK ==
  /\ file \in FileKind
  /\ StoreOK(store)
  /\ corrupt \in FileKind
  /\ grants \in Seq(Grant)
  /\ now \in Nat
  /\ last \in [op : {"none", "register", "heartbeat", "unregister", "expire",
                     "cleanup", "inspect"},
               sid : SessionId \cup {NoSession},
               lease : Nat,
               result : {"ok", "refused", "raised"}]

Init ==
  /\ file = "absent"
  /\ store = EmptyStore
  /\ corrupt = "absent"
  /\ grants = <<>>
  /\ now = 0
  /\ last = NoCall

-----------------------------------------------------------------------------
(* _read and _write *)

(* What _read may find: the view it returns, and what it leaves at `path`  *)
(* and in the `.corrupt` file.  A file it cannot use is moved aside, and   *)
(* read as an empty store; if the move fails it stays where it is.         *)
ReadOutcome ==
  LET Good == [view |-> store, file |-> file, corrupt |-> corrupt]
      Moved == [view |-> EmptyStore, file |-> "absent", corrupt |-> file]
      Stuck == [view |-> EmptyStore, file |-> file, corrupt |-> corrupt]
  IN (IF file \in {"absent", "store"} THEN {Good} ELSE {})
     \cup (IF \/ file \in {"nonfinite", "malformed"}
              \/ file = "store" /\ "read" \in Faults
           THEN {Moved} \cup (IF "move" \in Faults THEN {Stuck} ELSE {})
           ELSE {})

(* _write replaces the file by the new store in one os.replace. *)
Write(found, new, kind) ==
  /\ file' = kind
  /\ store' = new
  /\ corrupt' = found.corrupt

(* The method returns without _write, or _write raises: only what _read *)
(* did to the file remains.                                              *)
NoWrite(found) ==
  /\ file' = found.file
  /\ store' = IF found.file = "absent" THEN EmptyStore ELSE store
  /\ corrupt' = found.corrupt

(* Whether lease l is the lease of an active record of s. *)
Owns(view, s, l) == s \in DOMAIN view.sessions /\ view.sessions[s].lease = l

-----------------------------------------------------------------------------
(* The methods *)

(* A register that hands out an id of its own choice, taken or not. *)
RegisterAnyId(s, started, kind) ==
  /\ Len(grants) < MaxLease
  /\ \E found \in ReadOutcome :
       LET l == Len(grants) + 1
           sessions == Put(found.view.sessions, s, [lease |-> l, beat |-> started])
           active == IF found.view.active \in DOMAIN sessions
                     THEN found.view.active ELSE s
       IN Write(found, WithSessions(found.view, sessions, active), kind)
  /\ grants' = Append(grants, [sid |-> s, heard |-> now, refused |-> FALSE])
  /\ last' = Call("register", s, Len(grants) + 1, "ok")
  /\ UNCHANGED now

(* A register that prefers the newest session. *)
RegisterPrefersNew(s, started, kind) ==
  /\ Len(grants) < MaxLease
  /\ \E found \in ReadOutcome :
       /\ s \notin DOMAIN found.view.sessions
       /\ LET l == Len(grants) + 1
              sessions == Put(found.view.sessions, s, [lease |-> l, beat |-> started])
          IN Write(found, WithSessions(found.view, sessions, s), kind)
  /\ grants' = Append(grants, [sid |-> s, heard |-> now, refused |-> FALSE])
  /\ last' = Call("register", s, Len(grants) + 1, "ok")
  /\ UNCHANGED now

(* register: a new id, a new lease, `now` read before the lock was taken. *)
Register(s, started, kind) ==
  /\ Len(grants) < MaxLease
  /\ \E found \in ReadOutcome :
       /\ s \notin DOMAIN found.view.sessions
       /\ LET l == Len(grants) + 1
              sessions == Put(found.view.sessions, s, [lease |-> l, beat |-> started])
              active == IF found.view.active \in DOMAIN sessions
                        THEN found.view.active ELSE s
          IN Write(found, WithSessions(found.view, sessions, active), kind)
  /\ grants' = Append(grants, [sid |-> s, heard |-> now, refused |-> FALSE])
  /\ last' = Call("register", s, Len(grants) + 1, "ok")
  /\ UNCHANGED now

(* A heartbeat that answers from what it read and forgets to write. *)
HeartbeatUnwritten(s, l) ==
  \E found \in ReadOutcome :
    /\ NoWrite(found)
    /\ IF Owns(found.view, s, l)
       THEN /\ grants' = [grants EXCEPT ![l].heard = now]
            /\ last' = Call("heartbeat", s, l, "ok")
       ELSE /\ grants' = [grants EXCEPT ![l].refused = TRUE]
            /\ last' = Call("heartbeat", s, l, "refused")
    /\ UNCHANGED now

(* A heartbeat that takes a record cleanup_stale may reap for a lost one. *)
HeartbeatRefusesStale(s, l) ==
  \E found \in ReadOutcome :
    /\ IF Owns(found.view, s, l) /\ found.view.sessions[s].beat >= now - MaxAge
       THEN /\ Write(found, [found.view EXCEPT !.sessions[s].beat = now], "store")
            /\ grants' = [grants EXCEPT ![l].heard = now]
            /\ last' = Call("heartbeat", s, l, "ok")
       ELSE /\ NoWrite(found)
            /\ grants' = [grants EXCEPT ![l].refused = TRUE]
            /\ last' = Call("heartbeat", s, l, "refused")
    /\ UNCHANGED now

(* heartbeat *)
Heartbeat(s, l) ==
  \E found \in ReadOutcome :
    /\ IF Owns(found.view, s, l)
       THEN /\ Write(found, [found.view EXCEPT !.sessions[s].beat = now], "store")
            /\ grants' = [grants EXCEPT ![l].heard = now]
            /\ last' = Call("heartbeat", s, l, "ok")
       ELSE /\ NoWrite(found)
            /\ grants' = [grants EXCEPT ![l].refused = TRUE]
            /\ last' = Call("heartbeat", s, l, "refused")
    /\ UNCHANGED now

(* An unregister that ignores whose lease it is. *)
UnregisterAny(s, l) ==
  \E found \in ReadOutcome :
    /\ IF s \in DOMAIN found.view.sessions
       THEN /\ Write(found, Drop(found.view, {s}), "store")
            /\ last' = Call("unregister", s, l, "ok")
       ELSE /\ NoWrite(found)
            /\ last' = Call("unregister", s, l, "refused")
    /\ UNCHANGED <<grants, now>>

(* unregister; a caller without a lease is refused by the same test, since *)
(* no record has lease 0.                                                  *)
Unregister(s, l) ==
  \E found \in ReadOutcome :
    /\ IF Owns(found.view, s, l)
       THEN /\ Write(found, Drop(found.view, {s}), "store")
            /\ last' = Call("unregister", s, l, "ok")
       ELSE /\ NoWrite(found)
            /\ last' = Call("unregister", s, l, "refused")
    /\ UNCHANGED <<grants, now>>

(* An expire that forgets the session it took out of the active ones. *)
ExpireForgets(s, l) ==
  \E found \in ReadOutcome :
    /\ IF s \in DOMAIN found.view.sessions /\ (l # 0 => Owns(found.view, s, l))
       THEN /\ Write(found, Drop(found.view, {s}), "store")
            /\ last' = Call("expire", s, l, "ok")
       ELSE /\ NoWrite(found)
            /\ last' = Call("expire", s, l, "refused")
    /\ UNCHANGED <<grants, now>>

(* An expire that copies the record instead of moving it. *)
ExpireCopies(s, l) ==
  \E found \in ReadOutcome :
    /\ IF s \in DOMAIN found.view.sessions /\ (l # 0 => Owns(found.view, s, l))
       THEN /\ Write(found, [MoveToExpired(found.view, {s}) EXCEPT
                               !.sessions = found.view.sessions], "store")
            /\ last' = Call("expire", s, l, "ok")
       ELSE /\ NoWrite(found)
            /\ last' = Call("expire", s, l, "refused")
    /\ UNCHANGED <<grants, now>>

(* expire; without a lease (l = 0) it takes whatever record s has. *)
Expire(s, l) ==
  \E found \in ReadOutcome :
    /\ IF s \in DOMAIN found.view.sessions /\ (l # 0 => Owns(found.view, s, l))
       THEN /\ Write(found, MoveToExpired(found.view, {s}), "store")
            /\ last' = Call("expire", s, l, "ok")
       ELSE /\ NoWrite(found)
            /\ last' = Call("expire", s, l, "refused")
    /\ UNCHANGED <<grants, now>>

(* cleanup_stale, whose cutoff was computed when the clock read `started`. *)
CleanupStale(started) ==
  \E found \in ReadOutcome :
    LET stale == {s \in DOMAIN found.view.sessions :
                    found.view.sessions[s].beat < started - MaxAge}
    IN /\ IF stale # {}
          THEN Write(found, MoveToExpired(found.view, stale), "store")
          ELSE NoWrite(found)
       /\ last' = Call("cleanup", NoSession, 0, "ok")
       /\ UNCHANGED <<grants, now>>

(* get, list, active and expired change nothing but what _read changes. *)
Inspect ==
  \E found \in ReadOutcome :
    /\ NoWrite(found)
    /\ last' = Call("inspect", NoSession, 0, "ok")
    /\ UNCHANGED <<grants, now>>

(* A method raises: before it reads (an unbound port, FileLockTimeoutError) *)
(* or in _write, which removes its temporary file.                          *)
Fail ==
  /\ \/ UNCHANGED <<file, store, corrupt>>
     \/ "write" \in Faults /\ \E found \in ReadOutcome : NoWrite(found)
  /\ last' = NoCall
  /\ UNCHANGED <<grants, now>>

-----------------------------------------------------------------------------
(* The environment *)

Tick ==
  /\ now < MaxNow
  /\ now' = now + 1
  /\ UNCHANGED <<file, store, corrupt, grants, last>>

Damage ==
  /\ "damage" \in Faults
  /\ file' \in {"absent", "malformed"}
  /\ store' = EmptyStore
  /\ last' = NoCall
  /\ UNCHANGED <<corrupt, grants, now>>

(* The clock readings of calls that get the lock now. *)
Started == {m \in 0..now : now - m <= LockWait}

(* What register may write: json.dump accepts what _read will refuse. *)
Writable == {"store"} \cup ({"nonfinite"} \cap Faults)

Next ==
  \/ \E s \in SessionId, m \in Started, kind \in Writable : Register(s, m, kind)
  \/ \E l \in Lease : \/ Heartbeat(grants[l].sid, l)
                      \/ Unregister(grants[l].sid, l)
                      \/ Expire(grants[l].sid, l)
  \/ \E s \in SessionId : Expire(s, 0) \/ Unregister(s, 0)
  \/ \E m \in Started : CleanupStale(m)
  \/ Inspect
  \/ Fail
  \/ Tick
  \/ Damage

Spec == Init /\ [][Next]_vars

-----------------------------------------------------------------------------
(* "A well-formed store is never set aside": only what somebody else      *)
(* damaged ends up in the `.corrupt` file.                                 *)
OnlyMalformedSetAside == corrupt \in {"absent", "malformed"}

(* The preferred session of `active` is the oldest active one, whatever    *)
(* order sessions end in, and there is none only when there are none: a    *)
(* preference never dangles and never jumps to a newcomer.                 *)
ActiveIsOldest == store.active = FirstSession(store.sessions)

(* The history only tells of leases that are over: the entry of an id that *)
(* has been reused is older than the record now active under it, and no    *)
(* lease is both active and expired.                                       *)
HistoryIsPast ==
  /\ \A s \in DOMAIN store.expired, u \in DOMAIN store.sessions :
       store.expired[s].lease # store.sessions[u].lease
  /\ \A s \in DOMAIN store.expired \cap DOMAIN store.sessions :
       store.expired[s].lease < store.sessions[s].lease

(* "Keep expired history bounded by insertion order": _trim_expired keeps  *)
(* at most its limit of entries, in places of their own.                   *)
HistoryBounded ==
  /\ Cardinality(DOMAIN store.expired) <= ExpiredLimit
  /\ \A s, u \in DOMAIN store.expired :
       store.expired[s].place = store.expired[u].place => s = u

(* A refused heartbeat is final, which is why the owners stop their worker *)
(* or adapter when they get one: the lease is not, and will not be, the    *)
(* lease of an active record.                                              *)
RefusalIsFinal ==
  \A l \in Lease : grants[l].refused => ~Owns(store, grants[l].sid, l)

(* "An old owner cannot unregister a record that reuses its id": an active *)
(* record goes away only through the lease it was issued with, through an  *)
(* expire that names no lease, or through a cleanup.                       *)
Fenced ==
  [][\A s \in DOMAIN store.sessions :
       LeaseAt(store', s) # LeaseAt(store, s) =>
         \/ /\ last'.op \in {"unregister", "expire"}
            /\ last'.sid = s
            /\ last'.lease = LeaseAt(store, s)
         \/ last'.op = "expire" /\ last'.sid = s /\ last'.lease = 0
         \/ last'.op = "cleanup"]_vars

(* cleanup_stale leaves alone the session of every owner it has heard of   *)
(* within max_age, give or take the time spent waiting for the file lock.  *)
ReapsOnlySilent ==
  [][\A s \in DOMAIN store.sessions :
       last'.op = "cleanup" /\ s \notin DOMAIN store'.sessions
         => now - grants[LeaseAt(store, s)].heard > MaxAge - LockWait]_vars

(* A session that was expired is found by `expired`, with its own record,  *)
(* even if the history is full and even if its id is in it already.        *)
ExpireRemembers ==
  [][\A s \in DOMAIN store.sessions :
       last'.op = "expire" /\ s \notin DOMAIN store'.sessions
         => /\ s \in DOMAIN store'.expired
            /\ store'.expired[s].lease = LeaseAt(store, s)]_vars

-----------------------------------------------------------------------------
(* The registry implements the table of leases, under every fault. *)
L == INSTANCE LeaseTable
       WITH granted <- Len(grants),
            holder <- [s \in SessionId |-> LeaseAt(store, s)]

ImplementsLeaseTable == L!Spec
=============================================================================
