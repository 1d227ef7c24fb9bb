---------------------------- MODULE StoreProofs ----------------------------
(***************************************************************************)
(* Lemmas about the operators of Store: what each of them does to the      *)
(* facts that hold of every store the registry writes.  RegistryProofs     *)
(* cites them, one for each method of InstanceRegistry.                    *)
(***************************************************************************)
EXTENDS Store, Sequences, FiniteSetTheorems, WellFoundedInduction, TLAPS

(* The least element of a set of natural numbers.  NatLessThanWellFounded *)
(* and WFMin take no operator, so they can be cited.                      *)
LEMMA NatMin ==
  ASSUME NEW T \in SUBSET Nat, T # {}
  PROVE  \E n \in T : \A m \in T : n <= m
<1> DEFINE R == OpToRel(<, Nat)
<1>1. IsWellFoundedOn(R, Nat)
  BY NatLessThanWellFounded
<1>2. \A x, y \in Nat : y < x => <<y, x>> \in R
  BY DEF OpToRel
<1>. HIDE DEF R
<1>3. \E x \in T : \A y \in T : ~ (<<y, x>> \in R)
  BY <1>1, WFMin
<1>4. \E x \in T : \A y \in T : ~ (y < x)
  BY <1>2, <1>3, Zenon
<1>. QED
  BY <1>4

-----------------------------------------------------------------------------
(* FirstSession of a non-empty dict is its entry with the least lease. *)
LEMMA FirstSessionLeast ==
  ASSUME NEW d, IsPartial(d, SessionId, SessionRecord), DOMAIN d # {}
  PROVE  /\ FirstSession(d) \in DOMAIN d
         /\ \A u \in DOMAIN d : d[FirstSession(d)].lease <= d[u].lease
<1> DEFINE T == {d[s].lease : s \in DOMAIN d}
<1>1. T \in SUBSET Nat /\ T # {}
  BY DEF IsPartial, SessionRecord
<1>2. \E n \in T : \A m \in T : n <= m
  BY <1>1, NatMin
<1>3. \E s \in DOMAIN d : \A u \in DOMAIN d : d[s].lease <= d[u].lease
  BY <1>2
<1>. QED
  BY <1>3 DEF FirstSession

LEMMA FirstSessionType ==
  ASSUME NEW d, IsPartial(d, SessionId, SessionRecord)
  PROVE  FirstSession(d) \in SessionId \cup {NoSession}
  BY FirstSessionLeast DEF FirstSession, IsPartial

(* With leases that differ there is only one first session. *)
LEMMA FirstSessionUnique ==
  ASSUME NEW d, IsPartial(d, SessionId, SessionRecord),
         \A s, u \in DOMAIN d : d[s].lease = d[u].lease => s = u,
         NEW f \in DOMAIN d, \A u \in DOMAIN d : d[f].lease <= d[u].lease
  PROVE  FirstSession(d) = f
<1>1. /\ FirstSession(d) \in DOMAIN d
      /\ d[FirstSession(d)].lease <= d[f].lease
  BY FirstSessionLeast
<1>2. d[FirstSession(d)].lease = d[f].lease
  BY <1>1 DEF IsPartial, SessionRecord
<1>. QED
  BY <1>1, <1>2

-----------------------------------------------------------------------------
(* What holds of every store the registry writes, when g[l].sid is the     *)
(* session that lease l was issued for: leases were issued for the session *)
(* they are stored under, the history is older than the active records,    *)
(* the preferred session is the oldest, and the history is bounded.        *)
LeasesIssued(d, g) ==
  \A s \in DOMAIN d : d[s].lease \in 1..Len(g) /\ g[d[s].lease].sid = s

Past(st) ==
  \A s \in DOMAIN st.expired \cap DOMAIN st.sessions :
    st.expired[s].lease < st.sessions[s].lease

(* The places in the history are distinct and were all given out. *)
Placed(e, n) ==
  /\ \A s \in DOMAIN e : e[s].place \in 1..n
  /\ \A s, u \in DOMAIN e : e[s].place = e[u].place => s = u

StoreInv(st, g) ==
  /\ StoreOK(st)
  /\ LeasesIssued(st.sessions, g)
  /\ LeasesIssued(st.expired, g)
  /\ Past(st)
  /\ st.active = FirstSession(st.sessions)
  /\ Placed(st.expired, st.inserted)
  /\ Cardinality(DOMAIN st.expired) <= ExpiredLimit

LEMMA EmptyStoreInv ==
  ASSUME NEW g
  PROVE  StoreInv(EmptyStore, g)
  BY FS_EmptySet, StoreAssumption
  DEF StoreInv, EmptyStore, StoreOK, IsPartial, LeasesIssued, Past, FirstSession, Placed

(* The invariant does not depend on when owners were heard of. *)
LEMMA StoreInvSameSids ==
  ASSUME NEW st, NEW g, NEW h, StoreInv(st, g), Len(h) = Len(g),
         \A l \in 1..Len(g) : h[l].sid = g[l].sid
  PROVE  StoreInv(st, h)
  BY DEF StoreInv, LeasesIssued

(* register: a new session with a new lease. *)
LEMMA PutInv ==
  ASSUME NEW T, NEW st, NEW g \in Seq(T), StoreInv(st, g),
         NEW s \in SessionId \ DOMAIN st.sessions, NEW started \in Nat,
         NEW grant \in T, grant.sid = s,
         NEW new, NEW active,
         new = Put(st.sessions, s, [lease |-> Len(g) + 1, beat |-> started]),
         active = IF st.active \in DOMAIN new THEN st.active ELSE s
  PROVE  StoreInv(WithSessions(st, new, active), Append(g, grant))
<1> DEFINE h == Append(g, grant)
           st2 == WithSessions(st, new, active)
<1>0. /\ Len(g) \in Nat
      /\ Len(h) = Len(g) + 1
      /\ \A l \in 1..Len(g) : h[l] = g[l]
      /\ h[Len(g) + 1].sid = s
  OBVIOUS
<1>1. IsPartial(new, SessionId, SessionRecord)
  BY <1>0 DEF StoreInv, StoreOK, IsPartial, SessionRecord, Put
<1>2. active \in SessionId
  BY <1>1, StoreAssumption DEF StoreInv, StoreOK, IsPartial
<1>3. /\ st2.sessions = new /\ st2.active = active
      /\ st2.expired = st.expired /\ st2.inserted = st.inserted
      /\ StoreOK(st2)
  BY <1>1, <1>2 DEF StoreInv, StoreOK, WithSessions
<1>4. LeasesIssued(new, h)
  <2>1. \A u \in DOMAIN st.sessions : st.sessions[u].lease \in 1..Len(g)
    BY DEF StoreInv, LeasesIssued
  <2>. QED
    BY <1>0, <2>1 DEF StoreInv, LeasesIssued, Put
<1>5. LeasesIssued(st.expired, h)
  BY <1>0 DEF StoreInv, LeasesIssued
<1>6. Past(st2)
  <2>1. \A u \in DOMAIN st.expired : st.expired[u].lease \in 1..Len(g)
    BY DEF StoreInv, LeasesIssued
  <2>2. \A u \in DOMAIN new :
          new[u].lease = IF u = s THEN Len(g) + 1 ELSE st.sessions[u].lease
    BY DEF Put
  <2>3. DOMAIN new = DOMAIN st.sessions \cup {s}
    BY DEF Put
  <2>. QED
    BY <1>0, <1>3, <2>1, <2>2, <2>3 DEF StoreInv, Past
<1>7. active = FirstSession(new)
  <2>1. \A u, v \in DOMAIN new : new[u].lease = new[v].lease => u = v
    BY <1>4 DEF LeasesIssued
  <2>2. CASE DOMAIN st.sessions = {}
    <3>1. DOMAIN new = {s} /\ active = s
      BY <2>2, StoreAssumption DEF StoreInv, FirstSession, Put
    <3>. QED
      BY <1>1, <3>1, FirstSessionLeast
  <2>3. CASE DOMAIN st.sessions # {}
    <3>1. /\ st.active \in DOMAIN st.sessions
          /\ \A u \in DOMAIN st.sessions :
               st.sessions[st.active].lease <= st.sessions[u].lease
      BY <2>3, FirstSessionLeast DEF StoreInv, StoreOK
    <3>2. active = st.active /\ active \in DOMAIN new
      BY <3>1 DEF Put
    <3>3. \A u \in DOMAIN new : new[active].lease <= new[u].lease
      BY <1>0, <3>1, <3>2 DEF StoreInv, LeasesIssued, Put
    <3>. QED
      BY <1>1, <2>1, <3>2, <3>3, FirstSessionUnique
  <2>. QED
    BY <2>2, <2>3
<1>. QED
  BY <1>3, <1>4, <1>5, <1>6, <1>7 DEF StoreInv

(* heartbeat: a new time in a record keeps its lease. *)
LEMMA RenewInv ==
  ASSUME NEW st, NEW g, StoreInv(st, g),
         NEW s \in DOMAIN st.sessions, NEW time \in Nat
  PROVE  StoreInv([st EXCEPT !.sessions[s].beat = time], g)
<1> DEFINE st2 == [st EXCEPT !.sessions[s].beat = time]
           d == st.sessions
           e == [d EXCEPT ![s].beat = time]
<1>1. /\ st2.sessions = e /\ st2.active = st.active
      /\ st2.expired = st.expired /\ st2.inserted = st.inserted
      /\ st2 = [sessions |-> e, active |-> st.active,
                expired |-> st.expired, inserted |-> st.inserted]
  BY DEF StoreInv, StoreOK
<1>2. /\ DOMAIN e = DOMAIN d
      /\ \A u \in DOMAIN d : e[u].lease = d[u].lease
      /\ IsPartial(e, SessionId, SessionRecord)
  BY DEF StoreInv, StoreOK, IsPartial, SessionRecord
<1>3. StoreOK(st2)
  BY <1>1, <1>2 DEF StoreInv, StoreOK
<1>4. FirstSession(e) = FirstSession(d)
  <2>1. CASE DOMAIN d = {}
    BY <1>2, <2>1 DEF FirstSession
  <2>2. CASE DOMAIN d # {}
    <3>1. /\ FirstSession(d) \in DOMAIN d
          /\ \A u \in DOMAIN d : d[FirstSession(d)].lease <= d[u].lease
      BY <2>2, FirstSessionLeast DEF StoreInv, StoreOK
    <3>2. \A u, v \in DOMAIN e : e[u].lease = e[v].lease => u = v
      BY <1>2 DEF StoreInv, LeasesIssued
    <3>. QED
      BY <1>2, <3>1, <3>2, FirstSessionUnique
  <2>. QED
    BY <2>1, <2>2
<1>5. LeasesIssued(e, g) /\ Past(st2)
  BY <1>1, <1>2 DEF StoreInv, LeasesIssued, Past
<1>. QED
  BY <1>1, <1>3, <1>4, <1>5 DEF StoreInv

(* unregister: sessions go away. *)
LEMMA DropInv ==
  ASSUME NEW st, NEW g, StoreInv(st, g),
         NEW S \in SUBSET DOMAIN st.sessions
  PROVE  /\ StoreInv(Drop(st, S), g)
         /\ Drop(st, S).sessions = Restrict(st.sessions, DOMAIN st.sessions \ S)
         /\ Drop(st, S).expired = st.expired
         /\ Drop(st, S).inserted = st.inserted
<1> DEFINE d == st.sessions
           rest == Restrict(d, DOMAIN d \ S)
<1>1. /\ DOMAIN rest = DOMAIN d \ S
      /\ \A u \in DOMAIN rest : rest[u] = d[u]
      /\ IsPartial(rest, SessionId, SessionRecord)
  BY DEF StoreInv, StoreOK, IsPartial, Restrict
<1>2. FirstSession(rest) \in SessionId \cup {NoSession}
  BY <1>1, FirstSessionType
<1>3. /\ Drop(st, S).sessions = rest
      /\ Drop(st, S).expired = st.expired
      /\ Drop(st, S).inserted = st.inserted
      /\ Drop(st, S).active = IF st.active \in S THEN FirstSession(rest) ELSE st.active
      /\ StoreOK(Drop(st, S))
  BY <1>1, <1>2 DEF StoreInv, StoreOK, Drop, WithSessions
<1>4. st.active \notin S => st.active = FirstSession(rest)
  <2>. SUFFICES ASSUME st.active \notin S PROVE st.active = FirstSession(rest)
    OBVIOUS
  <2>1. CASE DOMAIN d = {}
    BY <1>1, <2>1 DEF StoreInv, FirstSession
  <2>2. CASE DOMAIN d # {}
    <3>1. /\ st.active \in DOMAIN rest
          /\ \A u \in DOMAIN rest : rest[st.active].lease <= rest[u].lease
      BY <1>1, <2>2, FirstSessionLeast DEF StoreInv, StoreOK
    <3>2. \A u, v \in DOMAIN rest : rest[u].lease = rest[v].lease => u = v
      BY <1>1 DEF StoreInv, LeasesIssued
    <3>. QED
      BY <1>1, <3>1, <3>2, FirstSessionUnique
  <2>. QED
    BY <2>1, <2>2
<1>5. Drop(st, S).active = FirstSession(rest)
  BY <1>3, <1>4
<1>6. Past(Drop(st, S)) /\ LeasesIssued(rest, g)
  BY <1>1, <1>3 DEF StoreInv, LeasesIssued, Past
<1>. QED
  BY <1>3, <1>5, <1>6 DEF StoreInv

-----------------------------------------------------------------------------
(* _trim_expired takes entries away until at most ExpiredLimit are left. *)
LEMMA TrimSubset ==
  ASSUME NEW e
  PROVE  /\ DOMAIN TrimExpired(e) \subseteq DOMAIN e
         /\ \A s \in DOMAIN TrimExpired(e) : TrimExpired(e)[s] = e[s]
  BY DEF TrimExpired, Restrict

LEMMA TrimBounded ==
  ASSUME NEW e, NEW n \in Nat, Placed(e, n), IsFiniteSet(DOMAIN e)
  PROVE  Cardinality(DOMAIN TrimExpired(e)) <= ExpiredLimit
<1> DEFINE K == DOMAIN TrimExpired(e)
           After(s) == {u \in DOMAIN e : e[s].place < e[u].place}
<1>1. K = {s \in DOMAIN e : Cardinality(After(s)) < ExpiredLimit}
  BY DEF TrimExpired, Restrict
<1>. SUFFICES Cardinality(K) <= ExpiredLimit
  OBVIOUS
<1>. HIDE DEF K
<1>2. IsFiniteSet(K)
  BY <1>1, FS_Subset
<1>3. CASE K = {}
  BY <1>3, FS_EmptySet, StoreAssumption
<1>4. CASE K # {}
  <2> DEFINE T == {e[s].place : s \in K}
  <2>1. T \in SUBSET Nat /\ T # {}
    <3>1. \A s \in K : e[s].place \in 1..n
      BY <1>1, Zenon DEF Placed
    <3>. QED
      BY <1>4, <3>1
  <2>2. \E m \in T : \A k \in T : m <= k
    BY <2>1, NatMin
  <2>3. PICK s \in K : \A u \in K : e[s].place <= e[u].place
    BY <2>2
  <2>4. K \ {s} \subseteq After(s)
    BY <1>1, <2>3 DEF Placed
  <2>5. IsFiniteSet(After(s))
    BY FS_Subset
  <2>6. /\ Cardinality(K \ {s}) <= Cardinality(After(s))
        /\ Cardinality(After(s)) < ExpiredLimit
    BY <1>1, <2>4, <2>5, FS_Subset
  <2>7. Cardinality(K \ {s}) = Cardinality(K) - 1
    BY <1>2, FS_RemoveElement
  <2>8. /\ Cardinality(K) \in Nat
        /\ Cardinality(K \ {s}) \in Nat
        /\ Cardinality(After(s)) \in Nat
    BY <1>2, <2>5, FS_CardinalityType, FS_RemoveElement
  <2>. HIDE DEF After
  <2>. QED
    BY <2>6, <2>7, <2>8, StoreAssumption
<1>. QED
  BY <1>3, <1>4

(* Entries that join the history get places of their own, in the order of *)
(* their leases.                                                          *)
LEMMA RankDistinct ==
  ASSUME NEW d, NEW new, IsFiniteSet(new), new \subseteq DOMAIN d,
         IsPartial(d, SessionId, SessionRecord),
         \A s, u \in DOMAIN d : d[s].lease = d[u].lease => s = u,
         NEW s \in new, NEW u \in new
  PROVE  LET UpTo(v) == {w \in new : d[w].lease <= d[v].lease}
         IN  /\ Cardinality(UpTo(s)) \in 1..Cardinality(new)
             /\ Cardinality(UpTo(s)) = Cardinality(UpTo(u)) => s = u
<1> DEFINE UpTo(v) == {w \in new : d[w].lease <= d[v].lease}
<1>0. \A v \in new : d[v].lease \in Nat
  BY DEF IsPartial, SessionRecord
<1>1. ASSUME NEW v \in new
      PROVE  /\ IsFiniteSet(UpTo(v))
             /\ Cardinality(UpTo(v)) \in 1..Cardinality(new)
  <2>1. /\ IsFiniteSet(UpTo(v))
        /\ Cardinality(UpTo(v)) <= Cardinality(new)
    BY FS_Subset
  <2>2. UpTo(v) # {}
    BY <1>0
  <2>. QED
    BY <2>1, <2>2, FS_EmptySet, FS_CardinalityType
<1>2. ASSUME NEW v \in new, NEW w \in new, d[v].lease <= d[w].lease,
             Cardinality(UpTo(v)) = Cardinality(UpTo(w))
      PROVE  v = w
  <2>1. UpTo(v) \subseteq UpTo(w)
    BY <1>0, <1>2
  <2>2. UpTo(v) = UpTo(w)
    BY <1>1, <1>2, <2>1, FS_Subset
  <2>3. d[w].lease <= d[v].lease
    BY <1>0, <2>2
  <2>. QED
    BY <1>0, <1>2, <2>3
<1>3. d[s].lease <= d[u].lease \/ d[u].lease <= d[s].lease
  BY <1>0
<1>. QED
  BY <1>1, <1>2, <1>3

(* expire and cleanup_stale: sessions move into the history. *)
LEMMA MoveInv ==
  ASSUME NEW st, NEW g, StoreInv(st, g),
         NEW S \in SUBSET DOMAIN st.sessions
  PROVE  /\ StoreInv(MoveToExpired(st, S), g)
         /\ MoveToExpired(st, S).sessions
              = Restrict(st.sessions, DOMAIN st.sessions \ S)
<1> DEFINE d == st.sessions
           old == st.expired
           new == S \ DOMAIN old
           Rank(s) == Cardinality({u \in new : d[u].lease <= d[s].lease})
           Entry(s) == [lease |-> d[s].lease,
                        place |-> IF s \in new THEN st.inserted + Rank(s)
                                  ELSE old[s].place]
           all == [s \in DOMAIN old \cup S |-> IF s \in S THEN Entry(s) ELSE old[s]]
           count == st.inserted + Cardinality(new)
           st2 == MoveToExpired(st, S)
<1>1. /\ st2 = [sessions |-> Drop(st, S).sessions, active |-> Drop(st, S).active,
                expired |-> TrimExpired(all), inserted |-> count]
      /\ st2.sessions = Drop(st, S).sessions
      /\ st2.active = Drop(st, S).active
      /\ st2.expired = TrimExpired(all)
      /\ st2.inserted = count
  BY DEF MoveToExpired
<1>2. /\ StoreInv(Drop(st, S), g)
      /\ Drop(st, S).sessions = Restrict(d, DOMAIN d \ S)
  BY DropInv
<1>3. /\ IsPartial(d, SessionId, SessionRecord)
      /\ IsPartial(old, SessionId, HistoryEntry)
      /\ st.inserted \in Nat
      /\ \A s, u \in DOMAIN d : d[s].lease = d[u].lease => s = u
  BY DEF StoreInv, StoreOK, LeasesIssued
<1>4. /\ IsFiniteSet(new) /\ new \subseteq DOMAIN d /\ Cardinality(new) \in Nat
      /\ DOMAIN all \subseteq SessionId /\ IsFiniteSet(DOMAIN all)
      /\ DOMAIN all = DOMAIN old \cup S /\ all = [s \in DOMAIN all |-> all[s]]
  BY <1>3, StoreAssumption, FS_Subset, FS_CardinalityType DEF IsPartial
<1>5. \A s, u \in new : /\ Rank(s) \in 1..Cardinality(new)
                        /\ Rank(s) = Rank(u) => s = u
  BY <1>3, <1>4, RankDistinct
<1>. HIDE DEF Rank
<1>6. ASSUME NEW s \in DOMAIN all
      PROVE  /\ s \in S => all[s].lease = d[s].lease
             /\ s \notin S => all[s].lease = old[s].lease
             /\ s \in new => all[s].place = st.inserted + Rank(s)
             /\ s \notin new => s \in DOMAIN old /\ all[s].place = old[s].place
             /\ all[s] \in HistoryEntry
  BY <1>3, <1>4, <1>5 DEF IsPartial, SessionRecord, HistoryEntry
<1>. HIDE DEF all
<1>7. Placed(all, count)
  <2>1. \A s \in DOMAIN old : old[s].place \in 1..st.inserted
    BY DEF StoreInv, Placed
  <2>2. \A s, u \in DOMAIN old : old[s].place = old[u].place => s = u
    BY DEF StoreInv, Placed
  <2>3. \A s \in DOMAIN all : s \in new \/ s \in DOMAIN old
    BY <1>4
  <2>. HIDE DEF new
  <2>4. \A s \in DOMAIN all : all[s].place \in 1..count
    BY <1>3, <1>4, <1>5, <1>6, <2>1, <2>3
  <2>5. ASSUME NEW s \in DOMAIN all, NEW u \in DOMAIN all,
               all[s].place = all[u].place
        PROVE  s = u
    BY <1>3, <1>4, <1>5, <1>6, <2>1, <2>2, <2>3, <2>5
  <2>. QED
    BY <2>4, <2>5 DEF Placed
<1>8. IsPartial(all, SessionId, HistoryEntry) /\ count \in Nat
  BY <1>3, <1>4, <1>6 DEF IsPartial
<1>9. LeasesIssued(all, g)
  BY <1>6 DEF StoreInv, LeasesIssued
<1>10. \A s \in DOMAIN all \cap (DOMAIN d \ S) : all[s].lease < d[s].lease
  BY <1>6 DEF StoreInv, Past
<1>. HIDE DEF count
<1>11. /\ DOMAIN TrimExpired(all) \subseteq DOMAIN all
       /\ \A s \in DOMAIN TrimExpired(all) : TrimExpired(all)[s] = all[s]
       /\ Cardinality(DOMAIN TrimExpired(all)) <= ExpiredLimit
  BY <1>4, <1>7, <1>8, TrimSubset, TrimBounded
<1>12. IsPartial(st2.expired, SessionId, HistoryEntry)
  <2>1. TrimExpired(all) = [s \in DOMAIN TrimExpired(all) |-> TrimExpired(all)[s]]
    BY DEF TrimExpired, Restrict
  <2>. QED
    BY <1>1, <1>8, <1>11, <2>1 DEF IsPartial
<1>13. StoreOK(st2)
  BY <1>1, <1>2, <1>8, <1>12 DEF StoreInv, StoreOK
<1>14. Placed(st2.expired, st2.inserted) /\ LeasesIssued(st2.expired, g)
  BY <1>1, <1>7, <1>9, <1>11 DEF Placed, LeasesIssued
<1>15. Past(st2)
  BY <1>1, <1>2, <1>10, <1>11 DEF Past, Restrict
<1>. QED
  BY <1>1, <1>2, <1>11, <1>13, <1>14, <1>15 DEF StoreInv

(* expire: the entry of the session is in the history afterwards.  An id   *)
(* that is new there comes last, after every entry; one that is there      *)
(* already keeps its place, but then the history does not grow.            *)
LEMMA MovedIsRemembered ==
  ASSUME NEW st, NEW g, StoreInv(st, g), NEW s \in DOMAIN st.sessions
  PROVE  LET e == MoveToExpired(st, {s}).expired
         IN  s \in DOMAIN e /\ e[s].lease = st.sessions[s].lease
<1> DEFINE d == st.sessions
           old == st.expired
           new == {s} \ DOMAIN old
           Rank(v) == Cardinality({u \in new : d[u].lease <= d[v].lease})
           Entry(v) == [lease |-> d[v].lease,
                        place |-> IF v \in new THEN st.inserted + Rank(v)
                                  ELSE old[v].place]
           all == [v \in DOMAIN old \cup {s} |-> IF v \in {s} THEN Entry(v) ELSE old[v]]
           after == {u \in DOMAIN all : all[s].place < all[u].place}
<1>1. MoveToExpired(st, {s}).expired = TrimExpired(all)
  BY DEF MoveToExpired
<1>2. /\ IsPartial(d, SessionId, SessionRecord)
      /\ st.inserted \in Nat
      /\ IsFiniteSet(DOMAIN old)
      /\ Cardinality(DOMAIN old) \in Nat
      /\ Cardinality(DOMAIN old) <= ExpiredLimit
      /\ \A u \in DOMAIN old : old[u].place \in 1..st.inserted
  BY StoreAssumption, FS_Subset, FS_CardinalityType
  DEF StoreInv, StoreOK, IsPartial, Placed
<1>3. /\ DOMAIN all = DOMAIN old \cup {s}
      /\ all[s].lease = d[s].lease
      /\ s \in DOMAIN old => all[s].place = old[s].place
      /\ s \notin DOMAIN old => all[s].place = st.inserted + Rank(s)
      /\ \A u \in DOMAIN old : u # s => all[u] = old[u]
  OBVIOUS
<1>4. s \notin DOMAIN old => Rank(s) = 1
  <2>1. d[s].lease \in Nat
    BY <1>2 DEF IsPartial, SessionRecord
  <2>2. s \notin DOMAIN old => {u \in new : d[u].lease <= d[s].lease} = {s}
    BY <2>1
  <2> QED
    BY <2>2, FS_Singleton
<1> HIDE DEF all, Rank
<1>5. Cardinality(after) < ExpiredLimit
  <2>1. CASE s \notin DOMAIN old
    <3>1. after = {}
      BY <1>2, <1>3, <1>4, <2>1
    <3> QED
      BY <3>1, FS_EmptySet, StoreAssumption
  <2>2. CASE s \in DOMAIN old
    <3>1. after \subseteq DOMAIN old \ {s}
      BY <1>2, <1>3, <2>2
    <3>2. /\ IsFiniteSet(DOMAIN old \ {s})
          /\ Cardinality(DOMAIN old \ {s}) = Cardinality(DOMAIN old) - 1
      BY <1>2, <2>2, FS_RemoveElement
    <3>3. /\ Cardinality(after) <= Cardinality(DOMAIN old \ {s})
          /\ Cardinality(after) \in Nat
      BY <3>1, <3>2, FS_Subset, FS_CardinalityType
    <3> HIDE DEF after, old
    <3> QED
      BY <1>2, <3>2, <3>3, StoreAssumption
  <2> QED
    BY <2>1, <2>2
<1>6. s \in DOMAIN TrimExpired(all) /\ TrimExpired(all)[s] = all[s]
  BY <1>3, <1>5 DEF TrimExpired, Restrict
<1> QED
  BY <1>1, <1>3, <1>6
=============================================================================
