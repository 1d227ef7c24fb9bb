--------------------------- MODULE RegistryProofs --------------------------
(***************************************************************************)
(* Theorems about Registry, for every set of session ids, every length of  *)
(* the history, every max_age and, unless a theorem says otherwise, every  *)
(* set of faults.  The inductive invariant says that the file is always a  *)
(* store as StoreProofs describes it, whichever method wrote it last.      *)
(***************************************************************************)
EXTENDS Registry, StoreProofs

IInv ==
  /\ TypeOK
  /\ StoreInv(store, grants)

(* What _read returns is the store in the file or the empty one. *)
LEMMA ReadView ==
  ASSUME IInv, NEW found \in ReadOutcome
  PROVE  /\ found.view \in {store, EmptyStore}
         /\ found.file \in FileKind
         /\ found.corrupt \in FileKind
         /\ StoreInv(found.view, grants)
<1>1. /\ found.view \in {store, EmptyStore}
      /\ found.file \in FileKind
      /\ found.corrupt \in FileKind
  BY DEF IInv, TypeOK, ReadOutcome, FileKind
<1>. QED
  BY <1>1, EmptyStoreInv DEF IInv

LEMMA EmptyStoreSessions == \A s : LeaseAt(EmptyStore, s) = 0 /\ DOMAIN EmptyStore.sessions = {}
  BY DEF LeaseAt, EmptyStore

(* The file after a method that writes, and after one that does not. *)
LEMMA WriteInv ==
  ASSUME IInv, NEW found \in ReadOutcome, NEW new, NEW kind \in FileKind,
         Write(found, new, kind), StoreInv(new, grants')
  PROVE  /\ file' \in FileKind /\ corrupt' \in FileKind
         /\ StoreInv(store', grants') /\ StoreOK(store')
  BY ReadView DEF Write, StoreInv

LEMMA NoWriteInv ==
  ASSUME IInv, NEW found \in ReadOutcome, NoWrite(found)
  PROVE  /\ file' \in FileKind /\ corrupt' \in FileKind
         /\ StoreInv(store', grants) /\ StoreOK(store')
  BY ReadView, EmptyStoreInv DEF NoWrite, StoreInv, IInv

(* The entries of grants, and grants after an entry changed. *)
LEMMA GrantOf ==
  ASSUME IInv, NEW l \in Lease
  PROVE  grants[l] \in Grant /\ grants[l].sid \in SessionId /\ l \in Nat
<1>1. grants[l] \in Grant /\ l \in Nat
  BY DEF IInv, TypeOK, Lease
<1>. QED
  BY <1>1 DEF Grant

LEMMA GrantsExcept ==
  ASSUME IInv, NEW l \in Lease, NEW g \in Grant, g.sid = grants[l].sid,
         grants' = [grants EXCEPT ![l] = g]
  PROVE  /\ grants' \in Seq(Grant)
         /\ Len(grants') = Len(grants)
         /\ \A k \in 1..Len(grants) : grants'[k].sid = grants[k].sid
<1>1. grants \in Seq(Grant) /\ l \in 1..Len(grants)
  BY DEF IInv, TypeOK, Lease
<1>. HIDE DEF Grant
<1>. QED
  BY <1>1

-----------------------------------------------------------------------------
LEMMA InitIInv == Init => IInv
  BY EmptyStoreInv
  DEF Init, IInv, TypeOK, FileKind, Grant, NoCall, Call, StoreInv

LEMMA RegisterKeepsIInv ==
  ASSUME IInv, NEW s \in SessionId, NEW m \in Started, NEW kind \in Writable,
         Register(s, m, kind)
  PROVE  IInv'
<1> DEFINE grant == [sid |-> s, heard |-> now, refused |-> FALSE]
           l == Len(grants) + 1
<1>1. PICK found \in ReadOutcome :
        /\ s \notin DOMAIN found.view.sessions
        /\ LET sessions == Put(found.view.sessions, s, [lease |-> l, beat |-> m])
               active == IF found.view.active \in DOMAIN sessions
                         THEN found.view.active ELSE s
           IN Write(found, WithSessions(found.view, sessions, active), kind)
  BY DEF Register
<1>2. /\ grants \in Seq(Grant) /\ grant \in Grant /\ grant.sid = s
      /\ grants' = Append(grants, grant) /\ m \in Nat /\ l \in Nat
      /\ kind \in FileKind
  BY DEF IInv, TypeOK, Grant, Register, Started, Writable, FileKind
<1> DEFINE sessions == Put(found.view.sessions, s, [lease |-> l, beat |-> m])
           active == IF found.view.active \in DOMAIN sessions
                     THEN found.view.active ELSE s
           new == WithSessions(found.view, sessions, active)
<1>3. StoreInv(new, grants')
  BY <1>1, <1>2, ReadView, PutInv
<1>4. /\ file' \in FileKind /\ corrupt' \in FileKind
      /\ StoreInv(store', grants') /\ StoreOK(store')
  BY <1>1, <1>2, <1>3, WriteInv
<1>5. grants' \in Seq(Grant)
  BY <1>2
<1>. QED
  BY <1>2, <1>4, <1>5 DEF IInv, TypeOK, Register, Call

LEMMA HeartbeatKeepsIInv ==
  ASSUME IInv, NEW l \in Lease, Heartbeat(grants[l].sid, l)
  PROVE  IInv'
<1> DEFINE s == grants[l].sid
<1>1. PICK found \in ReadOutcome :
        IF Owns(found.view, s, l)
        THEN /\ Write(found, [found.view EXCEPT !.sessions[s].beat = now], "store")
             /\ grants' = [grants EXCEPT ![l].heard = now]
             /\ last' = Call("heartbeat", s, l, "ok")
        ELSE /\ NoWrite(found)
             /\ grants' = [grants EXCEPT ![l].refused = TRUE]
             /\ last' = Call("heartbeat", s, l, "refused")
  BY DEF Heartbeat
<1>2. grants \in Seq(Grant) /\ s \in SessionId /\ l \in Nat /\ now \in Nat
  BY GrantOf DEF IInv, TypeOK
<1>3. /\ grants' \in Seq(Grant)
      /\ Len(grants') = Len(grants)
      /\ \A k \in 1..Len(grants) : grants'[k].sid = grants[k].sid
  <2>1. \/ grants' = [grants EXCEPT ![l] = [grants[l] EXCEPT !.heard = now]]
        \/ grants' = [grants EXCEPT ![l] = [grants[l] EXCEPT !.refused = TRUE]]
    BY <1>1
  <2>2. /\ [grants[l] EXCEPT !.heard = now] \in Grant
        /\ [grants[l] EXCEPT !.heard = now].sid = grants[l].sid
        /\ [grants[l] EXCEPT !.refused = TRUE] \in Grant
        /\ [grants[l] EXCEPT !.refused = TRUE].sid = grants[l].sid
    BY <1>2, GrantOf DEF Grant
  <2>. QED
    BY <2>1, <2>2, GrantsExcept
<1>4. /\ file' \in FileKind /\ corrupt' \in FileKind
      /\ StoreInv(store', grants') /\ StoreOK(store')
  <2>1. CASE Owns(found.view, s, l)
    <3> DEFINE new == [found.view EXCEPT !.sessions[s].beat = now]
    <3>1. StoreInv(new, grants)
      BY <1>2, <2>1, ReadView, RenewInv DEF Owns
    <3>2. StoreInv(new, grants')
      BY <1>3, <3>1, StoreInvSameSids
    <3>3. Write(found, new, "store")
      BY <1>1, <2>1
    <3>. QED
      BY <3>2, <3>3, WriteInv DEF FileKind
  <2>2. CASE ~Owns(found.view, s, l)
    <3>1. NoWrite(found)
      BY <1>1, <2>2
    <3>. QED
      BY <1>3, <3>1, NoWriteInv, StoreInvSameSids
  <2>. QED
    BY <2>1, <2>2
<1>5. /\ last' \in {Call("heartbeat", s, l, "ok"), Call("heartbeat", s, l, "refused")}
      /\ now' = now
  BY <1>1 DEF Heartbeat
<1>. QED
  BY <1>2, <1>3, <1>4, <1>5 DEF IInv, TypeOK, Call

LEMMA UnregisterKeepsIInv ==
  ASSUME IInv, NEW s \in SessionId, NEW l \in Nat, Unregister(s, l)
  PROVE  IInv'
<1>1. PICK found \in ReadOutcome :
        IF Owns(found.view, s, l)
        THEN Write(found, Drop(found.view, {s}), "store")
        ELSE NoWrite(found)
  BY DEF Unregister
<1>2. grants' = grants
  BY DEF Unregister
<1>3. /\ file' \in FileKind /\ corrupt' \in FileKind
      /\ StoreInv(store', grants') /\ StoreOK(store')
  <2>1. CASE Owns(found.view, s, l)
    <3>1. StoreInv(Drop(found.view, {s}), grants')
      BY <1>2, <2>1, ReadView, DropInv DEF Owns
    <3>. QED
      BY <1>1, <2>1, <3>1, WriteInv DEF FileKind
  <2>2. CASE ~Owns(found.view, s, l)
    BY <1>1, <1>2, <2>2, NoWriteInv
  <2>. QED
    BY <2>1, <2>2
<1>. QED
  BY <1>2, <1>3 DEF IInv, TypeOK, Unregister, Call

LEMMA ExpireKeepsIInv ==
  ASSUME IInv, NEW s \in SessionId, NEW l \in Nat, Expire(s, l)
  PROVE  IInv'
<1>1. PICK found \in ReadOutcome :
        \/ /\ s \in DOMAIN found.view.sessions
           /\ Write(found, MoveToExpired(found.view, {s}), "store")
        \/ NoWrite(found)
  BY DEF Expire
<1>2. grants' = grants
  BY DEF Expire
<1>3. /\ file' \in FileKind /\ corrupt' \in FileKind
      /\ StoreInv(store', grants') /\ StoreOK(store')
  <2>1. CASE NoWrite(found)
    BY <1>2, <2>1, NoWriteInv
  <2>2. CASE /\ s \in DOMAIN found.view.sessions
             /\ Write(found, MoveToExpired(found.view, {s}), "store")
    <3>1. StoreInv(MoveToExpired(found.view, {s}), grants')
      BY <1>2, <2>2, ReadView, MoveInv
    <3>. QED
      BY <2>2, <3>1, WriteInv DEF FileKind
  <2>. QED
    BY <1>1, <2>1, <2>2
<1>. QED
  BY <1>2, <1>3 DEF IInv, TypeOK, Expire, Call

LEMMA CleanupKeepsIInv ==
  ASSUME IInv, NEW m \in Started, CleanupStale(m)
  PROVE  IInv'
<1>1. PICK found \in ReadOutcome :
        \E S \in SUBSET DOMAIN found.view.sessions :
          \/ Write(found, MoveToExpired(found.view, S), "store")
          \/ NoWrite(found)
  BY DEF CleanupStale
<1>2. grants' = grants
  BY DEF CleanupStale
<1>3. /\ file' \in FileKind /\ corrupt' \in FileKind
      /\ StoreInv(store', grants') /\ StoreOK(store')
  <2>1. CASE NoWrite(found)
    BY <1>2, <2>1, NoWriteInv
  <2>2. ASSUME NEW S \in SUBSET DOMAIN found.view.sessions,
               Write(found, MoveToExpired(found.view, S), "store")
        PROVE  /\ file' \in FileKind /\ corrupt' \in FileKind
               /\ StoreInv(store', grants') /\ StoreOK(store')
    <3>1. StoreInv(MoveToExpired(found.view, S), grants')
      BY <1>2, ReadView, MoveInv
    <3>. QED
      BY <2>2, <3>1, WriteInv DEF FileKind
  <2>. QED
    BY <1>1, <2>1, <2>2
<1>. QED
  BY <1>2, <1>3 DEF IInv, TypeOK, CleanupStale, Call

(* get, list, active and expired, a method that raises, the clock, and *)
(* whoever damages the file.                                           *)
LEMMA OtherKeepsIInv ==
  ASSUME IInv, Inspect \/ Fail \/ Tick \/ Damage
  PROVE  IInv'
<1>1. CASE Inspect
  BY <1>1, NoWriteInv DEF Inspect, IInv, TypeOK, Call
<1>2. CASE Fail
  BY <1>2, NoWriteInv DEF Fail, IInv, TypeOK, NoCall, Call
<1>3. CASE Tick
  BY <1>3 DEF Tick, IInv, TypeOK
<1>4. CASE Damage
  BY <1>4, EmptyStoreInv DEF Damage, IInv, TypeOK, NoCall, Call, StoreInv, FileKind
<1>. QED
  BY <1>1, <1>2, <1>3, <1>4

LEMMA NextKeepsIInv == IInv /\ [Next]_vars => IInv'
<1>. SUFFICES ASSUME IInv, [Next]_vars PROVE IInv'
  OBVIOUS
<1>1. \A l \in Lease : grants[l].sid \in SessionId /\ l \in Nat
  BY GrantOf
<1>2. CASE \E s \in SessionId, m \in Started, kind \in Writable : Register(s, m, kind)
  BY <1>2, RegisterKeepsIInv
<1>3. CASE \E l \in Lease : \/ Heartbeat(grants[l].sid, l)
                            \/ Unregister(grants[l].sid, l)
                            \/ Expire(grants[l].sid, l)
  BY <1>1, <1>3, HeartbeatKeepsIInv, UnregisterKeepsIInv, ExpireKeepsIInv
<1>4. CASE \E s \in SessionId : Expire(s, 0) \/ Unregister(s, 0)
  BY <1>4, ExpireKeepsIInv, UnregisterKeepsIInv
<1>5. CASE \E m \in Started : CleanupStale(m)
  BY <1>5, CleanupKeepsIInv
<1>6. CASE Inspect \/ Fail \/ Tick \/ Damage
  BY <1>6, OtherKeepsIInv
<1>7. CASE UNCHANGED vars
  BY <1>7 DEF vars, IInv, TypeOK, StoreInv
<1>. QED
  BY <1>2, <1>3, <1>4, <1>5, <1>6, <1>7 DEF Next

(* The file is always a store that the methods keep in order. *)
THEOREM InductiveInvariant == Spec => []IInv
  BY InitIInv, NextKeepsIInv, PTL DEF Spec

-----------------------------------------------------------------------------
(* The variables stay in their types, whatever happens to the file. *)
THEOREM TypeCorrect == Spec => []TypeOK
<1>1. IInv => TypeOK
  BY DEF IInv
<1>. QED
  BY <1>1, InductiveInvariant, PTL

(* The preferred session never dangles: it is the oldest active one. *)
THEOREM ActiveIsOldestHolds == Spec => []ActiveIsOldest
<1>1. IInv => ActiveIsOldest
  BY DEF IInv, StoreInv, ActiveIsOldest
<1>. QED
  BY <1>1, InductiveInvariant, PTL

(* The expired history tells only of leases that are over. *)
THEOREM HistoryIsPastHolds == Spec => []HistoryIsPast
<1>1. IInv => HistoryIsPast
  BY DEF IInv, StoreInv, LeasesIssued, Past, HistoryIsPast
<1>. QED
  BY <1>1, InductiveInvariant, PTL

(* The expired history never outgrows its limit. *)
THEOREM HistoryBoundedHolds == Spec => []HistoryBounded
<1>1. IInv => HistoryBounded
  BY DEF IInv, StoreInv, Placed, HistoryBounded
<1>. QED
  BY <1>1, InductiveInvariant, PTL
-----------------------------------------------------------------------------
(* What one step does to the leases of the active sessions: those of some *)
(* set of sessions end, or one is granted, and then either nothing else   *)
(* changes or everything else is lost.                                    *)
Ends(S) ==
  \A s \in SessionId :
    LeaseAt(store', s) = IF s \in S THEN 0 ELSE LeaseAt(store, s)

Grants(s) ==
  /\ Len(grants') = Len(grants) + 1
  /\ grants'[Len(grants) + 1] = [sid |-> s, heard |-> now, refused |-> FALSE]
  /\ \A l \in Lease : grants'[l] = grants[l]
  /\ \/ /\ LeaseAt(store, s) = 0
        /\ \A u \in SessionId :
             LeaseAt(store', u) = IF u = s THEN Len(grants) + 1 ELSE LeaseAt(store, u)
     \/ \A u \in SessionId :
          LeaseAt(store', u) = IF u = s THEN Len(grants) + 1 ELSE 0

LEMMA LeaseType ==
  ASSUME IInv, NEW s \in SessionId
  PROVE  /\ LeaseAt(store, s) \in 0..Len(grants)
         /\ s \in DOMAIN store.sessions <=> LeaseAt(store, s) # 0
         /\ \A l \in Lease : Owns(store, s, l) <=> LeaseAt(store, s) = l
<1>1. grants \in Seq(Grant)
  BY DEF IInv, TypeOK
<1>2. Len(grants) \in Nat
  BY <1>1
<1>. QED
  BY <1>2 DEF IInv, StoreInv, LeasesIssued, LeaseAt, Owns, Lease

LEMMA NoWriteEnds ==
  ASSUME IInv, NEW found \in ReadOutcome, NoWrite(found)
  PROVE  \E S \in SUBSET SessionId : Ends(S)
<1>1. store' \in {store, EmptyStore}
  BY DEF NoWrite
<1>2. store' = store => Ends({})
  BY DEF Ends
<1>3. store' = EmptyStore => Ends(SessionId)
  BY EmptyStoreSessions DEF Ends
<1>. QED
  BY <1>1, <1>2, <1>3

LEMMA RestrictEnds ==
  ASSUME IInv, NEW found \in ReadOutcome, NEW S,
         store'.sessions
           = Restrict(found.view.sessions, DOMAIN found.view.sessions \ S)
  PROVE  \E T \in SUBSET SessionId : Ends(T)
<1>1. CASE found.view = store
  <2>1. Ends(S \cap SessionId)
    BY <1>1 DEF Ends, LeaseAt, Restrict
  <2>. QED
    BY <2>1
<1>2. CASE found.view = EmptyStore
  <2>1. Ends(SessionId)
    BY <1>2, EmptyStoreSessions DEF Ends, LeaseAt, Restrict
  <2>. QED
    BY <2>1
<1>. QED
  BY <1>1, <1>2, ReadView

LEMMA SessionsLeft ==
  \A view, S : /\ Drop(view, S).sessions
                   = Restrict(view.sessions, DOMAIN view.sessions \ S)
              /\ MoveToExpired(view, S).sessions
                   = Restrict(view.sessions, DOMAIN view.sessions \ S)
  BY DEF Drop, WithSessions, MoveToExpired

LEMMA RegisterGrants ==
  ASSUME IInv, NEW s \in SessionId, NEW m \in Started, NEW kind \in Writable,
         Register(s, m, kind)
  PROVE  Grants(s)
<1>1. PICK found \in ReadOutcome :
        /\ s \notin DOMAIN found.view.sessions
        /\ store'.sessions = Put(found.view.sessions, s,
                                [lease |-> Len(grants) + 1, beat |-> m])
  BY DEF Register, Write, WithSessions
<1>2. /\ Len(grants') = Len(grants) + 1
      /\ grants'[Len(grants) + 1] = [sid |-> s, heard |-> now, refused |-> FALSE]
      /\ \A l \in Lease : grants'[l] = grants[l]
  BY DEF Register, Lease, IInv, TypeOK, Grant
<1>3. CASE found.view = store
  BY <1>1, <1>2, <1>3 DEF Grants, LeaseAt, Put
<1>4. CASE found.view = EmptyStore
  BY <1>1, <1>2, <1>4, EmptyStoreSessions DEF Grants, LeaseAt, Put
<1>. QED
  BY <1>3, <1>4, ReadView

LEMMA HeartbeatEnds ==
  ASSUME IInv, NEW l \in Lease, Heartbeat(grants[l].sid, l)
  PROVE  \E S \in SUBSET SessionId : Ends(S)
<1> DEFINE s == grants[l].sid
<1>1. PICK found \in ReadOutcome :
        \/ /\ Owns(found.view, s, l)
           /\ Write(found, [found.view EXCEPT !.sessions[s].beat = now], "store")
        \/ NoWrite(found)
  BY DEF Heartbeat
<1>2. CASE NoWrite(found)
  BY <1>2, NoWriteEnds
<1>3. CASE /\ Owns(found.view, s, l)
           /\ Write(found, [found.view EXCEPT !.sessions[s].beat = now], "store")
  <2>1. found.view = store
    BY <1>3, ReadView, EmptyStoreSessions DEF Owns
  <2>2. store' = [store EXCEPT !.sessions[s].beat = now]
    BY <1>3, <2>1 DEF Write
  <2>3. /\ DOMAIN store'.sessions = DOMAIN store.sessions
        /\ \A u \in DOMAIN store.sessions :
             store'.sessions[u].lease = store.sessions[u].lease
    BY <2>2 DEF IInv, StoreInv, StoreOK, IsPartial, SessionRecord
  <2>4. Ends({})
    BY <2>3 DEF Ends, LeaseAt
  <2>. QED
    BY <2>4
<1>. QED
  BY <1>1, <1>2, <1>3

LEMMA LeaseStep ==
  ASSUME IInv, [Next]_vars
  PROVE  \/ /\ Len(grants') = Len(grants)
            /\ \E S \in SUBSET SessionId : Ends(S)
         \/ \E s \in SessionId : Grants(s)
<1>0. \A l \in Lease : grants[l].sid \in SessionId /\ l \in Nat
  BY GrantOf
<1>1. CASE \E s \in SessionId, m \in Started, kind \in Writable : Register(s, m, kind)
  BY <1>1, RegisterGrants
<1>2. ASSUME NEW l \in Lease, Heartbeat(grants[l].sid, l)
      PROVE  Len(grants') = Len(grants) /\ \E S \in SUBSET SessionId : Ends(S)
  <2>1. Len(grants') = Len(grants)
    BY <1>2 DEF Heartbeat, IInv, TypeOK
  <2>. QED
    BY <1>2, <2>1, HeartbeatEnds
<1>3. ASSUME NEW s \in SessionId, NEW l \in Nat, Unregister(s, l) \/ Expire(s, l)
      PROVE  Len(grants') = Len(grants) /\ \E S \in SUBSET SessionId : Ends(S)
  <2>1. Len(grants') = Len(grants)
    BY <1>3 DEF Unregister, Expire
  <2>2. PICK found \in ReadOutcome :
          \/ NoWrite(found)
          \/ store' = Drop(found.view, {s})
          \/ store' = MoveToExpired(found.view, {s})
    BY <1>3 DEF Unregister, Expire, Write
  <2>3. \/ NoWrite(found)
        \/ store'.sessions = Restrict(found.view.sessions, DOMAIN found.view.sessions \ {s})
    BY <2>2, SessionsLeft
  <2>. QED
    BY <2>1, <2>3, NoWriteEnds, RestrictEnds
<1>4. ASSUME NEW m \in Started, CleanupStale(m)
      PROVE  Len(grants') = Len(grants) /\ \E S \in SUBSET SessionId : Ends(S)
  <2>1. Len(grants') = Len(grants)
    BY <1>4 DEF CleanupStale
  <2>2. PICK found \in ReadOutcome :
          \/ NoWrite(found)
          \/ \E S : store' = MoveToExpired(found.view, S)
    BY <1>4 DEF CleanupStale, Write
  <2>3. ASSUME NEW S, store' = MoveToExpired(found.view, S)
        PROVE  \E T \in SUBSET SessionId : Ends(T)
    <3>1. store'.sessions = Restrict(found.view.sessions, DOMAIN found.view.sessions \ S)
      BY <2>3, SessionsLeft, Zenon
    <3>. QED
      BY <3>1, RestrictEnds
  <2>. QED
    BY <2>1, <2>2, <2>3, NoWriteEnds
<1>5. CASE Inspect \/ Fail
  <2>1. /\ grants' = grants
        /\ store' = store \/ \E found \in ReadOutcome : NoWrite(found)
    BY <1>5 DEF Inspect, Fail
  <2>2. store' = store => Ends({})
    BY DEF Ends
  <2>. QED
    BY <2>1, <2>2, NoWriteEnds
<1>6. CASE Tick \/ UNCHANGED vars
  <2>1. grants' = grants /\ Ends({})
    BY <1>6 DEF Tick, vars, Ends
  <2>. QED
    BY <2>1
<1>7. CASE Damage
  <2>1. grants' = grants /\ Ends(SessionId)
    BY <1>7, EmptyStoreSessions DEF Damage, Ends
  <2>. QED
    BY <2>1
<1>. QED
  BY <1>0, <1>1, <1>2, <1>3, <1>4, <1>5, <1>6, <1>7 DEF Next

(* Whatever happens to the file, the registry is a table of leases that are *)
(* granted once and end once: no fault brings a lease back, gives it to     *)
(* another session, or lets two leases hold one session.                    *)
THEOREM Refinement == Spec => ImplementsLeaseTable
<1> DEFINE holder == [s \in SessionId |-> LeaseAt(store, s)]
<1>1. Init => L!Init
  BY EmptyStoreSessions DEF Init, L!Init
<1>2. ASSUME IInv, [Next]_vars
      PROVE  L!Next
  <2>0. Len(grants) \in Nat
    BY <1>2 DEF IInv, TypeOK
  <2>1. CASE Len(grants') = Len(grants) /\ \E S \in SUBSET SessionId : Ends(S)
    <3>. PICK S \in SUBSET SessionId : Ends(S)
      BY <2>1
    <3>1. L!End(S)
      BY <2>1 DEF L!End, Ends
    <3>. QED
      BY <3>1 DEF L!Next
  <2>2. ASSUME NEW s \in SessionId, Grants(s)
        PROVE  L!Next
    <3>1. L!Grant(s) \/ L!GrantAfterLoss(s)
      BY <2>0, <2>2 DEF L!Grant, L!GrantAfterLoss, Grants
    <3>. QED
      BY <3>1 DEF L!Next
  <2>. QED
    BY <1>2, <2>1, <2>2, LeaseStep
<1>. QED
  BY <1>1, <1>2, InductiveInvariant, PTL DEF Spec, ImplementsLeaseTable, L!Spec
-----------------------------------------------------------------------------
(* A refused lease stays out of the table: an old lease is never granted *)
(* again, and it was out of the table when its heartbeat was refused.    *)
LEMMA RefusedStaysOut ==
  ASSUME "move" \notin Faults, IInv, RefusalIsFinal, [Next]_vars
  PROVE  RefusalIsFinal'
<1>0. IInv'
  BY NextKeepsIInv
<1>1. grants \in Seq(Grant) /\ Len(grants) \in Nat
  BY DEF IInv, TypeOK
(* what a lease that was out of the table may do *)
<1>2. ASSUME NEW l \in Lease, NEW s \in SessionId, LeaseAt(store, s) # l
      PROVE  LeaseAt(store', s) # l
  <2>1. LeaseAt(store', s) \in {0, LeaseAt(store, s), Len(grants) + 1}
    BY LeaseStep DEF Ends, Grants
  <2>2. l \in 1..Len(grants)
    BY DEF Lease
  <2>. QED
    BY <1>1, <1>2, <2>1, <2>2
<1>3. \A l \in Lease : grants[l].sid \in SessionId
  BY GrantOf
<1>4. ASSUME NEW l \in Lease', l \in Lease, grants'[l].sid = grants[l].sid,
             grants'[l].refused = grants[l].refused, grants'[l].refused
      PROVE  ~Owns(store', grants'[l].sid, l)
  BY <1>0, <1>2, <1>3, <1>4, LeaseType DEF RefusalIsFinal, Owns, LeaseAt
<1>5. ASSUME NEW s \in SessionId, Grants(s)
      PROVE  RefusalIsFinal'
  BY <1>1, <1>4, <1>5 DEF Grants, RefusalIsFinal, Lease
<1>6. CASE grants' = grants
  BY <1>4, <1>6 DEF RefusalIsFinal, Lease
<1>7. ASSUME NEW k \in Lease, Heartbeat(grants[k].sid, k)
      PROVE  RefusalIsFinal'
  <2> DEFINE s == grants[k].sid
  <2>1. PICK found \in ReadOutcome :
          IF Owns(found.view, s, k)
          THEN grants' = [grants EXCEPT ![k].heard = now]
          ELSE /\ NoWrite(found)
               /\ grants' = [grants EXCEPT ![k].refused = TRUE]
    BY <1>7 DEF Heartbeat
  <2>2. Lease' = Lease
    BY <2>1, <1>1 DEF Lease
  <2>3. \A l \in Lease : /\ grants'[l].sid = grants[l].sid
                         /\ l # k => grants'[l].refused = grants[l].refused
    <3>1. \/ grants' = [grants EXCEPT ![k] = [grants[k] EXCEPT !.heard = now]]
          \/ grants' = [grants EXCEPT ![k] = [grants[k] EXCEPT !.refused = TRUE]]
      BY <2>1
    <3>2. /\ [grants[k] EXCEPT !.heard = now].sid = grants[k].sid
          /\ [grants[k] EXCEPT !.refused = TRUE].sid = grants[k].sid
      BY GrantOf DEF Grant
    <3>3. \A l \in Lease : \A g :
            grants' = [grants EXCEPT ![k] = g] => grants'[l] = IF l = k THEN g ELSE grants[l]
      BY <1>1 DEF Lease
    <3>. QED
      BY <3>1, <3>2, <3>3
  <2>4. CASE Owns(found.view, s, k)
    <3>1. \A l \in Lease : grants'[l].refused = grants[l].refused
      BY <1>1, <2>1, <2>4, GrantOf DEF Lease, Grant
    <3>. QED
      BY <1>4, <2>2, <2>3, <3>1 DEF RefusalIsFinal
  <2>5. CASE ~Owns(found.view, s, k)
    <3>1. NoWrite(found)
      BY <2>1, <2>5
    <3>2. \/ found.view = store /\ store' \in {store, EmptyStore}
          \/ store' = EmptyStore
      BY <3>1 DEF ReadOutcome, NoWrite
    <3>3. ~Owns(store', s, k)
      BY <2>5, <3>2, EmptyStoreSessions DEF Owns
    <3>. QED
      BY <1>4, <2>2, <2>3, <3>3 DEF RefusalIsFinal
  <2>. QED
    BY <2>4, <2>5
<1>. QED
  BY <1>3, <1>5, <1>6, <1>7, RegisterGrants
  DEF Next, vars, Unregister, Expire, CleanupStale, Inspect, Fail, Tick, Damage

(* As long as an unreadable file can be set aside, an owner that is refused *)
(* once has lost its lease for good and may stop what it owns.              *)
THEOREM RefusalIsFinalHolds ==
  ASSUME "move" \notin Faults
  PROVE  Spec => []RefusalIsFinal
<1>1. Init => RefusalIsFinal
  BY DEF Init, RefusalIsFinal, Lease
<1>2. IInv /\ RefusalIsFinal /\ [Next]_vars => RefusalIsFinal'
  BY RefusedStaysOut
<1>. QED
  BY <1>1, <1>2, InductiveInvariant, PTL DEF Spec

-----------------------------------------------------------------------------
(* Faults that take sessions away by themselves. *)
LossFaults == {"damage", "read", "nonfinite"}

(* Without them `path` has a store or nothing, and _read returns it. *)
FileInv ==
  /\ file \in {"absent", "store"}
  /\ file = "absent" => store = EmptyStore

LEMMA FaithfulRead ==
  ASSUME Faults \cap LossFaults = {}, FileInv, NEW found \in ReadOutcome
  PROVE  found.view = store /\ found.file = file
  BY DEF LossFaults, FileInv, ReadOutcome

LEMMA NoWriteKeeps ==
  ASSUME Faults \cap LossFaults = {}, FileInv, NEW found \in ReadOutcome,
         NoWrite(found)
  PROVE  store' = store /\ file' = file
  BY FaithfulRead DEF NoWrite, FileInv

LEMMA FileInvKept ==
  ASSUME Faults \cap LossFaults = {}, FileInv, [Next]_vars
  PROVE  FileInv'
<1>1. \A found \in ReadOutcome : \A new :
        Write(found, new, "store") => FileInv'
  BY DEF Write, FileInv
<1>2. \A found \in ReadOutcome : NoWrite(found) => FileInv'
  BY NoWriteKeeps DEF FileInv
<1>3. ASSUME NEW s \in SessionId, NEW m \in Started, NEW kind \in Writable,
             Register(s, m, kind)
      PROVE  FileInv'
  <2>1. kind = "store"
    BY DEF Writable, LossFaults
  <2>. QED
    BY <1>1, <1>3, <2>1 DEF Register
<1>4. ASSUME NEW s, NEW l, Heartbeat(s, l) \/ Unregister(s, l) \/ Expire(s, l)
      PROVE  FileInv'
  BY <1>1, <1>2, <1>4 DEF Heartbeat, Unregister, Expire
<1>5. ASSUME NEW m, CleanupStale(m)
      PROVE  FileInv'
  BY <1>1, <1>2, <1>5 DEF CleanupStale
<1>6. CASE Inspect \/ Fail \/ Tick \/ UNCHANGED vars
  BY <1>2, <1>6 DEF Inspect, Fail, Tick, vars, FileInv
<1>7. ~Damage
  BY DEF Damage, LossFaults
<1>. QED
  BY <1>3, <1>4, <1>5, <1>6, <1>7 DEF Next

(* The lease of one session before and after a step. *)
FencedStep ==
  \A s \in DOMAIN store.sessions :
    LeaseAt(store', s) # LeaseAt(store, s) =>
      \/ /\ last'.op \in {"unregister", "expire"}
         /\ last'.sid = s
         /\ last'.lease = LeaseAt(store, s)
      \/ last'.op = "expire" /\ last'.sid = s /\ last'.lease = 0
      \/ last'.op = "cleanup"

LEMMA StepIsFenced ==
  ASSUME Faults \cap LossFaults = {}, FileInv, IInv, [Next]_vars
  PROVE  FencedStep
<1>1. \A found \in ReadOutcome : NoWrite(found) => FencedStep
  BY NoWriteKeeps DEF FencedStep
<1>2. ASSUME NEW s \in SessionId, NEW m \in Started, NEW kind \in Writable,
             Register(s, m, kind)
      PROVE  FencedStep
  <2>1. PICK found \in ReadOutcome :
          /\ s \notin DOMAIN found.view.sessions
          /\ store'.sessions = Put(found.view.sessions, s,
                                  [lease |-> Len(grants) + 1, beat |-> m])
    BY <1>2 DEF Register, Write, WithSessions
  <2>. QED
    BY <2>1, FaithfulRead DEF FencedStep, LeaseAt, Put
<1>3. ASSUME NEW l \in Lease, Heartbeat(grants[l].sid, l)
      PROVE  FencedStep
  <2> DEFINE s == grants[l].sid
  <2>1. PICK found \in ReadOutcome :
          \/ /\ Owns(found.view, s, l)
             /\ store' = [found.view EXCEPT !.sessions[s].beat = now]
          \/ NoWrite(found)
    BY <1>3 DEF Heartbeat, Write
  <2>2. CASE Owns(found.view, s, l) /\ store' = [found.view EXCEPT !.sessions[s].beat = now]
    <3>1. \A u \in DOMAIN store.sessions : LeaseAt(store', u) = LeaseAt(store, u)
      BY <2>2, FaithfulRead
      DEF LeaseAt, IInv, StoreInv, StoreOK, IsPartial, SessionRecord
    <3>. QED
      BY <3>1 DEF FencedStep
  <2>. QED
    BY <1>1, <2>1, <2>2
<1>4. ASSUME NEW s \in SessionId, NEW l \in Nat, Unregister(s, l)
      PROVE  FencedStep
  <2>1. PICK found \in ReadOutcome :
          \/ /\ Owns(found.view, s, l)
             /\ store' = Drop(found.view, {s})
             /\ last' = Call("unregister", s, l, "ok")
          \/ NoWrite(found)
    BY <1>4 DEF Unregister, Write
  <2>2. CASE /\ Owns(found.view, s, l)
             /\ store' = Drop(found.view, {s})
             /\ last' = Call("unregister", s, l, "ok")
    <3>1. store'.sessions = Restrict(store.sessions, DOMAIN store.sessions \ {s})
      BY <2>2, FaithfulRead, SessionsLeft, Zenon
    <3>2. \A u \in DOMAIN store.sessions :
            LeaseAt(store', u) # LeaseAt(store, u) => u = s
      BY <3>1 DEF LeaseAt, Restrict
    <3>3. l = LeaseAt(store, s)
      BY <2>2, FaithfulRead DEF Owns, LeaseAt
    <3>4. last'.op = "unregister" /\ last'.sid = s /\ last'.lease = l
      BY <2>2 DEF Call
    <3>. QED
      BY <3>2, <3>3, <3>4 DEF FencedStep
  <2>. QED
    BY <1>1, <2>1, <2>2
<1>5. ASSUME NEW s \in SessionId, NEW l \in Nat, Expire(s, l)
      PROVE  FencedStep
  <2>1. PICK found \in ReadOutcome :
          \/ /\ l # 0 => Owns(found.view, s, l)
             /\ store' = MoveToExpired(found.view, {s})
             /\ last' = Call("expire", s, l, "ok")
          \/ NoWrite(found)
    BY <1>5 DEF Expire, Write
  <2>2. CASE /\ l # 0 => Owns(found.view, s, l)
             /\ store' = MoveToExpired(found.view, {s})
             /\ last' = Call("expire", s, l, "ok")
    <3>1. store'.sessions = Restrict(store.sessions, DOMAIN store.sessions \ {s})
      BY <2>2, FaithfulRead, SessionsLeft, Zenon
    <3>2. \A u \in DOMAIN store.sessions :
            LeaseAt(store', u) # LeaseAt(store, u) => u = s
      BY <3>1 DEF LeaseAt, Restrict
    <3>3. l # 0 => l = LeaseAt(store, s)
      BY <2>2, FaithfulRead DEF Owns, LeaseAt
    <3>4. last'.op = "expire" /\ last'.sid = s /\ last'.lease = l
      BY <2>2 DEF Call
    <3>. QED
      BY <3>2, <3>3, <3>4 DEF FencedStep
  <2>. QED
    BY <1>1, <2>1, <2>2
<1>6. ASSUME NEW m \in Started, CleanupStale(m)
      PROVE  FencedStep
  BY <1>6 DEF CleanupStale, FencedStep, Call
<1>7. CASE Inspect \/ Fail
  BY <1>1, <1>7 DEF Inspect, Fail, FencedStep
<1>8. CASE Tick \/ UNCHANGED vars
  BY <1>8 DEF Tick, vars, FencedStep
<1>9. ~Damage
  BY DEF Damage, LossFaults
<1>10. \A l \in Lease : grants[l].sid \in SessionId /\ l \in Nat
  BY GrantOf
<1>. QED
  BY <1>2, <1>3, <1>4, <1>5, <1>6, <1>7, <1>8, <1>9, <1>10 DEF Next

(* Nobody but the owner of its lease, an expire that names no lease, and    *)
(* cleanup_stale takes an active record away: not an owner whose session id *)
(* was drawn again, however late its call arrives.                          *)
THEOREM FencedHolds ==
  ASSUME Faults \cap LossFaults = {}
  PROVE  Spec => Fenced
<1>1. Init => FileInv
  BY DEF Init, FileInv
<1>2. FileInv /\ [Next]_vars => FileInv'
  BY FileInvKept
<1>3. FileInv /\ IInv /\ [Next]_vars => [FencedStep]_vars
  BY StepIsFenced
<1>. QED
  BY <1>1, <1>2, <1>3, InductiveInvariant, PTL DEF Spec, Fenced, FencedStep

-----------------------------------------------------------------------------
(* `last` names the method. *)
LEMMA OpNamed ==
  /\ \A s, m, kind : Register(s, m, kind) => last'.op = "register"
  /\ \A s, l : /\ Heartbeat(s, l) => last'.op = "heartbeat"
               /\ Unregister(s, l) => last'.op = "unregister"
               /\ Expire(s, l) => last'.op = "expire"
  /\ \A m : CleanupStale(m) => last'.op = "cleanup"
  /\ Inspect => last'.op = "inspect"
  /\ Fail \/ Damage => last'.op = "none"
<1>1. \A s, m, kind : Register(s, m, kind) => last'.op = "register"
  BY DEF Register, Call
<1>2. \A s, l : Heartbeat(s, l) => last'.op = "heartbeat"
  BY DEF Heartbeat, Call
<1>3. \A s, l : Unregister(s, l) => last'.op = "unregister"
  BY DEF Unregister, Call
<1>4. \A s, l : Expire(s, l) => last'.op = "expire"
  BY DEF Expire, Call
<1>5. \A m : CleanupStale(m) => last'.op = "cleanup"
  BY DEF CleanupStale, Call
<1>6. Inspect => last'.op = "inspect"
  BY DEF Inspect, Call
<1>7. Fail \/ Damage => last'.op = "none"
  BY DEF Fail, Damage, NoCall, Call
<1>. QED
  BY <1>1, <1>2, <1>3, <1>4, <1>5, <1>6, <1>7

-----------------------------------------------------------------------------
(* What ExpireRemembers says of one step. *)
RememberStep ==
  \A s \in DOMAIN store.sessions :
    last'.op = "expire" /\ s \notin DOMAIN store'.sessions
      => /\ s \in DOMAIN store'.expired
         /\ store'.expired[s].lease = LeaseAt(store, s)

LEMMA StepRemembers ==
  ASSUME Faults \cap LossFaults = {}, FileInv, IInv, [Next]_vars
  PROVE  RememberStep
<1>1. \A found \in ReadOutcome : NoWrite(found) => RememberStep
  BY NoWriteKeeps DEF RememberStep
<1>2. ASSUME NEW s \in SessionId, NEW l \in Nat, Expire(s, l)
      PROVE  RememberStep
  <2>1. PICK found \in ReadOutcome :
          \/ /\ s \in DOMAIN found.view.sessions
             /\ store' = MoveToExpired(found.view, {s})
          \/ NoWrite(found)
    BY <1>2 DEF Expire, Write
  <2>2. CASE s \in DOMAIN found.view.sessions /\ store' = MoveToExpired(found.view, {s})
    <3>1. s \in DOMAIN store.sessions /\ store' = MoveToExpired(store, {s})
      BY <2>2, FaithfulRead
    <3>2. store'.sessions = Restrict(store.sessions, DOMAIN store.sessions \ {s})
      BY <3>1, SessionsLeft, Zenon
    <3>3. \A u \in DOMAIN store.sessions : u \notin DOMAIN store'.sessions => u = s
      BY <3>2 DEF Restrict
    <3>4. s \in DOMAIN store'.expired /\ store'.expired[s].lease = store.sessions[s].lease
      BY <3>1, MovedIsRemembered DEF IInv
    <3>. QED
      BY <3>1, <3>3, <3>4 DEF RememberStep, LeaseAt
  <2>. QED
    BY <1>1, <2>1, <2>2
<1>3. ASSUME last'.op # "expire" \/ store' = store
      PROVE  RememberStep
  BY <1>3 DEF RememberStep
<1>4. \A l \in Lease : grants[l].sid \in SessionId /\ l \in Nat
  BY GrantOf
<1>5. CASE \/ \E s \in SessionId, m \in Started, kind \in Writable : Register(s, m, kind)
           \/ \E l \in Lease : \/ Heartbeat(grants[l].sid, l)
                               \/ Unregister(grants[l].sid, l)
           \/ \E s \in SessionId : Unregister(s, 0)
           \/ \E m \in Started : CleanupStale(m)
           \/ Inspect \/ Fail \/ Damage
  <2>1. last'.op # "expire"
    BY <1>5, OpNamed
  <2>. QED
    BY <1>3, <2>1
<1>6. CASE Tick \/ UNCHANGED vars
  BY <1>3, <1>6 DEF Tick, vars
<1>. QED
  BY <1>2, <1>4, <1>5, <1>6 DEF Next

(* A session that an expire took is found by `expired` with its own        *)
(* record, however full the history is and whether or not its id is in it. *)
THEOREM ExpireRemembersHolds ==
  ASSUME Faults \cap LossFaults = {}
  PROVE  Spec => ExpireRemembers
<1>1. Init => FileInv
  BY DEF Init, FileInv
<1>2. FileInv /\ [Next]_vars => FileInv'
  BY FileInvKept
<1>3. FileInv /\ IInv /\ [Next]_vars => [RememberStep]_vars
  BY StepRemembers
<1>. QED
  BY <1>1, <1>2, <1>3, InductiveInvariant, PTL DEF Spec, ExpireRemembers, RememberStep

-----------------------------------------------------------------------------
(* The heartbeat in a record is at most LockWait older than what the       *)
(* registry last heard of the owner: register reads the clock before it    *)
(* waits for the lock, heartbeat after.                                    *)
Fresh(st, g) ==
  \A s \in DOMAIN st.sessions :
    g[st.sessions[s].lease].heard <= st.sessions[s].beat + LockWait

LEMMA FreshView ==
  ASSUME Fresh(store, grants), IInv, NEW found \in ReadOutcome
  PROVE  Fresh(found.view, grants)
  BY ReadView, EmptyStoreSessions DEF Fresh

(* A method that keeps or removes records keeps them fresh. *)
LEMMA FreshLeft ==
  ASSUME Fresh(store, grants), IInv, NEW found \in ReadOutcome, grants' = grants,
         \/ NoWrite(found)
         \/ \E S : store'.sessions =
                     Restrict(found.view.sessions, DOMAIN found.view.sessions \ S)
  PROVE  Fresh(store', grants')
<1>1. CASE NoWrite(found)
  BY <1>1, EmptyStoreSessions DEF NoWrite, Fresh
<1>2. ASSUME NEW S, store'.sessions =
                      Restrict(found.view.sessions, DOMAIN found.view.sessions \ S)
      PROVE  Fresh(store', grants')
  BY <1>2, FreshView DEF Fresh, Restrict
<1>. QED
  BY <1>1, <1>2

LEMMA RegisterKeepsFresh ==
  ASSUME Fresh(store, grants), IInv,
         NEW s \in SessionId, NEW m \in Started, NEW kind \in Writable,
         Register(s, m, kind)
  PROVE  Fresh(store', grants')
<1> DEFINE n == Len(grants) + 1
<1>1. PICK found \in ReadOutcome :
        store'.sessions = Put(found.view.sessions, s, [lease |-> n, beat |-> m])
  BY DEF Register, Write, WithSessions
<1>2. Grants(s)
  BY RegisterGrants
<1>3. grants'[n].heard = now /\ now <= m + LockWait
  BY <1>2, RegistryAssumption DEF Grants, Started, IInv, TypeOK
<1>4. \A u \in DOMAIN found.view.sessions :
        grants'[found.view.sessions[u].lease] = grants[found.view.sessions[u].lease]
  BY <1>2, ReadView DEF Grants, StoreInv, LeasesIssued, Lease
<1>. HIDE DEF n
<1>. QED
  BY <1>1, <1>3, <1>4, FreshView DEF Fresh, Put

LEMMA HeartbeatKeepsFresh ==
  ASSUME Fresh(store, grants), IInv, NEW l \in Lease, Heartbeat(grants[l].sid, l)
  PROVE  Fresh(store', grants')
<1> DEFINE s == grants[l].sid
<1>1. PICK found \in ReadOutcome :
        IF Owns(found.view, s, l)
        THEN /\ store' = [found.view EXCEPT !.sessions[s].beat = now]
             /\ grants' = [grants EXCEPT ![l].heard = now]
        ELSE /\ NoWrite(found)
             /\ grants' = [grants EXCEPT ![l].refused = TRUE]
  BY DEF Heartbeat, Write
<1>2. /\ grants \in Seq(Grant) /\ now \in Nat /\ LockWait \in Nat
      /\ \A k \in Lease : grants[k] \in Grant
  BY GrantOf, RegistryAssumption DEF IInv, TypeOK
<1>3. CASE Owns(found.view, s, l)
  <2>1. found.view = store
    BY <1>3, ReadView, EmptyStoreSessions DEF Owns
  <2>2. store' = [store EXCEPT !.sessions[s].beat = now] /\ s \in DOMAIN store.sessions
    BY <1>1, <1>3, <2>1 DEF Owns
  <2>3. /\ DOMAIN store'.sessions = DOMAIN store.sessions
        /\ \A u \in DOMAIN store.sessions :
             /\ store'.sessions[u].lease = store.sessions[u].lease
             /\ store'.sessions[u].beat = IF u = s THEN now ELSE store.sessions[u].beat
    BY <2>2 DEF IInv, StoreInv, StoreOK, IsPartial, SessionRecord
  <2>4. \A k \in Lease : grants'[k].heard = IF k = l THEN now ELSE grants[k].heard
    BY <1>1, <1>2, <1>3 DEF Lease, Grant
  <2>5. \A u \in DOMAIN store.sessions :
          /\ store.sessions[u].lease \in Lease
          /\ store.sessions[u].lease = l <=> u = s
    BY <1>3, <2>1 DEF IInv, StoreInv, LeasesIssued, Lease, Owns
  <2>6. now <= now + LockWait
    BY <1>2
  <2>. QED
    BY <2>3, <2>4, <2>5, <2>6 DEF Fresh
<1>4. CASE ~Owns(found.view, s, l)
  <2>1. \A k \in Lease : grants'[k].heard = grants[k].heard
    <3>1. grants' = [grants EXCEPT ![l] = [grants[l] EXCEPT !.refused = TRUE]]
      BY <1>1, <1>4
    <3>2. [grants[l] EXCEPT !.refused = TRUE].heard = grants[l].heard
      BY <1>2 DEF Grant
    <3>3. \A k \in Lease : \A g :
            grants' = [grants EXCEPT ![l] = g] => grants'[k] = IF k = l THEN g ELSE grants[k]
      BY <1>2 DEF Lease
    <3>. QED
      BY <3>1, <3>2, <3>3
  <2>2. store' = store \/ store' = EmptyStore
    BY <1>1, <1>4 DEF NoWrite
  <2>3. \A u \in DOMAIN store.sessions : store.sessions[u].lease \in Lease
    BY DEF IInv, StoreInv, LeasesIssued, Lease
  <2>. QED
    BY <2>1, <2>2, <2>3, EmptyStoreSessions DEF Fresh
<1>. QED
  BY <1>3, <1>4

LEMMA FreshKept ==
  ASSUME Fresh(store, grants), IInv, [Next]_vars
  PROVE  Fresh(store', grants')
<1>1. ASSUME NEW s, NEW l, Unregister(s, l) \/ Expire(s, l)
      PROVE  Fresh(store', grants')
  <2>1. PICK found \in ReadOutcome :
          \/ NoWrite(found)
          \/ store' = Drop(found.view, {s})
          \/ store' = MoveToExpired(found.view, {s})
    BY <1>1 DEF Unregister, Expire, Write
  <2>2. \/ NoWrite(found)
        \/ store'.sessions = Restrict(found.view.sessions, DOMAIN found.view.sessions \ {s})
    BY <2>1, SessionsLeft
  <2>. QED
    BY <1>1, <2>2, FreshLeft DEF Unregister, Expire
<1>2. ASSUME NEW m, CleanupStale(m)
      PROVE  Fresh(store', grants')
  <2>1. PICK found \in ReadOutcome :
          \/ NoWrite(found)
          \/ \E S : store' = MoveToExpired(found.view, S)
    BY <1>2 DEF CleanupStale, Write
  <2>2. ASSUME NEW S, store' = MoveToExpired(found.view, S)
        PROVE  store'.sessions = Restrict(found.view.sessions, DOMAIN found.view.sessions \ S)
    BY <2>2, SessionsLeft, Zenon
  <2>. QED
    BY <1>2, <2>1, <2>2, FreshLeft DEF CleanupStale
<1>3. CASE Inspect \/ Fail
  <2>1. /\ grants' = grants
        /\ store' = store \/ \E found \in ReadOutcome : NoWrite(found)
    BY <1>3 DEF Inspect, Fail
  <2>. QED
    BY <2>1, FreshLeft
<1>4. CASE Tick \/ Damage \/ UNCHANGED vars
  BY <1>4, EmptyStoreSessions DEF Tick, Damage, vars, Fresh
<1>. QED
  BY <1>1, <1>2, <1>3, <1>4, RegisterKeepsFresh, HeartbeatKeepsFresh DEF Next

(* What ReapsOnlySilent says of one step. *)
SilentStep ==
  \A s \in DOMAIN store.sessions :
    last'.op = "cleanup" /\ s \notin DOMAIN store'.sessions
      => now - grants[LeaseAt(store, s)].heard > MaxAge - LockWait

LEMMA StepReapsOnlySilent ==
  ASSUME Faults \cap LossFaults = {}, FileInv, IInv, Fresh(store, grants), [Next]_vars
  PROVE  SilentStep
<1>1. \A found \in ReadOutcome : NoWrite(found) => SilentStep
  BY NoWriteKeeps DEF SilentStep
<1>2. ASSUME NEW m \in Started, CleanupStale(m)
      PROVE  SilentStep
  <2> DEFINE stale(view) == {s \in DOMAIN view.sessions : view.sessions[s].beat < m - MaxAge}
  <2>1. PICK found \in ReadOutcome :
          \/ store' = MoveToExpired(found.view, stale(found.view))
          \/ NoWrite(found)
    BY <1>2 DEF CleanupStale, Write
  <2>2. CASE store' = MoveToExpired(found.view, stale(found.view))
    <3>1. store' = MoveToExpired(store, stale(store))
      BY <2>2, FaithfulRead
    <3>2. store'.sessions = Restrict(store.sessions, DOMAIN store.sessions \ stale(store))
      BY <3>1, SessionsLeft, Zenon
    <3>3. \A s \in DOMAIN store.sessions :
            s \notin DOMAIN store'.sessions => store.sessions[s].beat < m - MaxAge
      BY <3>2 DEF Restrict
    <3>4. /\ m \in Nat /\ now \in Nat /\ m <= now /\ MaxAge \in Nat /\ LockWait \in Nat
      BY RegistryAssumption DEF Started, IInv, TypeOK
    <3>5. ASSUME NEW s \in DOMAIN store.sessions, store.sessions[s].beat < m - MaxAge
          PROVE  now - grants[LeaseAt(store, s)].heard > MaxAge - LockWait
      <4>1. /\ LeaseAt(store, s) = store.sessions[s].lease
            /\ store.sessions[s].lease \in Lease
            /\ store.sessions[s].beat \in Nat
        BY DEF LeaseAt, IInv, StoreInv, StoreOK, IsPartial, SessionRecord, LeasesIssued, Lease
      <4>2. grants[LeaseAt(store, s)].heard \in Nat
        BY <4>1, GrantOf DEF Grant
      <4>3. grants[LeaseAt(store, s)].heard <= store.sessions[s].beat + LockWait
        BY <4>1 DEF Fresh
      <4>. QED
        BY <3>4, <3>5, <4>1, <4>2, <4>3
    <3>. QED
      BY <3>3, <3>5 DEF SilentStep
  <2>. QED
    BY <1>1, <2>1, <2>2
<1>3. ASSUME last'.op # "cleanup" \/ store' = store
      PROVE  SilentStep
  BY <1>3 DEF SilentStep
<1>4. CASE \/ \E s \in SessionId, m \in Started, kind \in Writable : Register(s, m, kind)
           \/ \E l \in Lease : \/ Heartbeat(grants[l].sid, l)
                               \/ Unregister(grants[l].sid, l)
                               \/ Expire(grants[l].sid, l)
           \/ \E s \in SessionId : Expire(s, 0) \/ Unregister(s, 0)
           \/ Inspect \/ Fail \/ Damage
  <2>1. last'.op # "cleanup"
    BY <1>4, OpNamed
  <2>. QED
    BY <1>3, <2>1
<1>5. CASE Tick \/ UNCHANGED vars
  BY <1>3, <1>5 DEF Tick, vars
<1>. QED
  BY <1>2, <1>4, <1>5 DEF Next

(* cleanup_stale reaps only a session whose owner the registry has not     *)
(* heard of for max_age, less the time a caller may wait for the lock.     *)
THEOREM ReapsOnlySilentHolds ==
  ASSUME Faults \cap LossFaults = {}
  PROVE  Spec => ReapsOnlySilent
<1> DEFINE Heard == Fresh(store, grants)
<1>1. Init => FileInv /\ Heard
  BY EmptyStoreSessions DEF Init, FileInv, Fresh
<1>2. IInv /\ FileInv /\ Heard /\ [Next]_vars => FileInv' /\ Heard'
  BY FileInvKept, FreshKept
<1>3. FileInv /\ IInv /\ Heard /\ [Next]_vars => [SilentStep]_vars
  BY StepReapsOnlySilent
<1>. HIDE DEF Heard
<1>. QED
  BY <1>1, <1>2, <1>3, InductiveInvariant, PTL DEF Spec, ReapsOnlySilent, SilentStep
-----------------------------------------------------------------------------
(* What is at `path` can be read back unless somebody else damaged it. *)
ReadableInv == file # "nonfinite" /\ OnlyMalformedSetAside

LEMMA ReadableKept ==
  ASSUME Faults \cap {"read", "nonfinite"} = {}, IInv, ReadableInv, [Next]_vars
  PROVE  ReadableInv'
<1>1. \A found \in ReadOutcome :
        found.file # "nonfinite" /\ found.corrupt \in {"absent", "malformed"}
  BY DEF IInv, TypeOK, FileKind, ReadableInv, OnlyMalformedSetAside, ReadOutcome
<1>2. \A found \in ReadOutcome : \A new : Write(found, new, "store") => ReadableInv'
  BY <1>1 DEF Write, ReadableInv, OnlyMalformedSetAside
<1>3. \A found \in ReadOutcome : NoWrite(found) => ReadableInv'
  BY <1>1 DEF NoWrite, ReadableInv, OnlyMalformedSetAside
<1>4. ASSUME NEW s \in SessionId, NEW m \in Started, NEW kind \in Writable,
             Register(s, m, kind)
      PROVE  ReadableInv'
  <2>1. kind = "store"
    BY DEF Writable
  <2>. QED
    BY <1>2, <1>4, <2>1 DEF Register
<1>5. ASSUME NEW s, NEW l, Heartbeat(s, l) \/ Unregister(s, l) \/ Expire(s, l)
      PROVE  ReadableInv'
  BY <1>2, <1>3, <1>5 DEF Heartbeat, Unregister, Expire
<1>6. ASSUME NEW m, CleanupStale(m)
      PROVE  ReadableInv'
  BY <1>2, <1>3, <1>6 DEF CleanupStale
<1>7. CASE Inspect \/ Fail \/ Tick \/ Damage \/ UNCHANGED vars
  BY <1>3, <1>7 DEF Inspect, Fail, Tick, Damage, vars, ReadableInv, OnlyMalformedSetAside
<1>. QED
  BY <1>4, <1>5, <1>6, <1>7 DEF Next

(* A store the registry wrote is set aside only after it could not be read  *)
(* or after NaN got into it: where neither happens, the `.corrupt` file     *)
(* holds what somebody else damaged (registry.py, _read).                   *)
THEOREM OnlyMalformedSetAsideHolds ==
  ASSUME Faults \cap {"read", "nonfinite"} = {}
  PROVE  Spec => []OnlyMalformedSetAside
<1>1. Init => ReadableInv
  BY DEF Init, ReadableInv, OnlyMalformedSetAside
<1>2. IInv /\ ReadableInv /\ [Next]_vars => ReadableInv'
  BY ReadableKept
<1>3. ReadableInv => OnlyMalformedSetAside
  BY DEF ReadableInv
<1>. QED
  BY <1>1, <1>2, <1>3, InductiveInvariant, PTL DEF Spec
=============================================================================
