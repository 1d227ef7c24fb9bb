------------------------------- MODULE Store -------------------------------
(***************************************************************************)
(* src/local_runtime/registry.py: what the JSON file of the registry holds *)
(* and how one method changes it between `_read` and `_write`.             *)
(*                                                                         *)
(* A store is a record of                                                  *)
(*   sessions   a partial function from session ids to active records,     *)
(*   active     the preferred session id, or NoSession (JSON null),        *)
(*   expired    a partial function from session ids to history entries,    *)
(*   inserted   the number of insertions into `expired` so far.            *)
(* Of an InstanceRecord the store keeps the lease and the last heartbeat;  *)
(* mode, endpoint, label, identity and metadata ride along unread.  Leases *)
(* are numbered in the order they are issued.  Python dicts and JSON       *)
(* objects keep insertion order and every insertion into `sessions` comes  *)
(* with a new lease, so the order of `sessions` is the order of leases.    *)
(* `expired` may be written under an old key, which keeps its place: an    *)
(* entry has an explicit place, taken from `inserted`.                     *)
(***************************************************************************)
EXTENDS Integers, FiniteSets, Functions

CONSTANTS
  SessionId,     (* the values of secrets.token_hex(4)                      *)
  NoSession,     (* no preferred session                                    *)
  ExpiredLimit   (* the length of the expired history (64)                  *)

ASSUME StoreAssumption ==
  /\ IsFiniteSet(SessionId)
  /\ NoSession \notin SessionId
  /\ ExpiredLimit \in Nat \ {0}

(* What the file holds when it is absent or was moved aside. *)
EmptyStore ==
  [sessions |-> [s \in {} |-> 0], active |-> NoSession,
   expired |-> [s \in {} |-> 0], inserted |-> 0]

(* A function from some of S to T. *)
IsPartial(f, S, T) == DOMAIN f \subseteq S /\ f \in [DOMAIN f -> T]

(* The shape of a store, as `_collections` and `_record_or_none` see it. *)
SessionRecord == [lease : Nat, beat : Nat]
HistoryEntry == [lease : Nat, place : Nat]

StoreOK(st) ==
  /\ st = [sessions |-> st.sessions, active |-> st.active,
           expired |-> st.expired, inserted |-> st.inserted]
  /\ IsPartial(st.sessions, SessionId, SessionRecord)
  /\ st.active \in SessionId \cup {NoSession}
  /\ IsPartial(st.expired, SessionId, HistoryEntry)
  /\ st.inserted \in Nat

(* The lease number under which s is active, 0 if it is not. *)
LeaseAt(store, s) ==
  IF s \in DOMAIN store.sessions THEN store.sessions[s].lease ELSE 0

(* The store with other sessions and another preferred one. *)
WithSessions(store, sessions, active) ==
  [sessions |-> sessions, active |-> active,
   expired |-> store.expired, inserted |-> store.inserted]

(* d[s] = v *)
Put(d, s, v) == [u \in DOMAIN d \cup {s} |-> IF u = s THEN v ELSE d[u]]

(* next(iter(sessions), 0): a default that is not JSON null. *)
FirstSessionOrZero(sessions) ==
  IF DOMAIN sessions = {}
  THEN 0
  ELSE CHOOSE s \in DOMAIN sessions :
         \A u \in DOMAIN sessions : sessions[s].lease <= sessions[u].lease

(* next(iter(sessions), None) *)
FirstSession(sessions) ==
  IF DOMAIN sessions = {}
  THEN NoSession
  ELSE CHOOSE s \in DOMAIN sessions :
         \A u \in DOMAIN sessions : sessions[s].lease <= sessions[u].lease

(* The store after `del sessions[s]` for every s in S, with the preferred *)
(* session chosen anew when it is among them.                             *)
Drop(store, S) ==
  LET rest == Restrict(store.sessions, DOMAIN store.sessions \ S)
  IN WithSessions(store, rest,
       IF store.active \in S THEN FirstSession(rest) ELSE store.active)

(* Pop the first entries until at most ExpiredLimit are left: an entry     *)
(* stays when fewer than ExpiredLimit entries come after it.               *)
TrimExpired(expired) ==
  Restrict(expired,
    {s \in DOMAIN expired :
       Cardinality({u \in DOMAIN expired : expired[s].place < expired[u].place})
         < ExpiredLimit})

(* Move the sessions of S into the history, in the order of `sessions`: an *)
(* id that is there already keeps its place, the others go to the end.     *)
MoveToExpired(store, S) ==
  LET old == store.expired
      new == S \ DOMAIN old
      Rank(s) == Cardinality({u \in new :
                   store.sessions[u].lease <= store.sessions[s].lease})
      Entry(s) == [lease |-> store.sessions[s].lease,
                   place |-> IF s \in new THEN store.inserted + Rank(s)
                             ELSE old[s].place]
      all == [s \in DOMAIN old \cup S |-> IF s \in S THEN Entry(s) ELSE old[s]]
  IN [sessions |-> Drop(store, S).sessions,
      active |-> Drop(store, S).active,
      expired |-> TrimExpired(all),
      inserted |-> store.inserted + Cardinality(new)]
=============================================================================
