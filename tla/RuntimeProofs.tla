---------------------------- MODULE RuntimeProofs ----------------------------
(***************************************************************************)
(* Theorems about Runtime, for any number of callers, leases and servers,  *)
(* with or without a gate, and under every set of faults.                  *)
(***************************************************************************)
EXTENDS Runtime, SequenceTheorems, TLAPS

(* The lines a caller can be at, and those of a heartbeat thread. *)
CallerAt == {"idle", "start", "bind", "ping", "register", "stop", "unregister",
             "take", "close"}
BeatAt == {"unborn", "wait", "read", "renew", "lost", "expire", "ended", "raised",
           "take", "close"}

(* Each thread is at a line of its own code; the heartbeat threads born so *)
(* far are those of the leases issued so far.                              *)
Roles ==
  /\ \A c \in Caller : thread[c].at \in CallerAt
  /\ \A g \in Beat : /\ thread[g].at \in BeatAt
                     /\ thread[g].at = "unborn" <=> g > Len(grants)

(* A start is alone with `_lock` and there is no record as long as it has  *)
(* it; what it pings and registers is an endpoint.                         *)
StartsAlone ==
  /\ lock # NoCaller => record = NoLease
  /\ \A c \in Caller :
       /\ thread[c].at \in {"bind", "ping", "register"} => lock = c
       /\ thread[c].at \in {"ping", "register"} => thread[c].server # NoServer

(* The record is the latest lease or none.  A heartbeat thread never       *)
(* renews a lease older than its own, and once one is refused it is gone   *)
(* for good.                                                               *)
LatestLease ==
  /\ record \in {NoLease, Len(grants)}
  /\ \A g \in Beat :
       /\ thread[g].at \in {"renew", "lost"} => thread[g].lease >= g
       /\ thread[g].at \in {"lost", "expire"} => thread[g].lease \notin registered

(* While there is a record its heartbeat thread is alive and not told to   *)
(* stop, or an exception of the registry has ended it.                     *)
WatchedOrRaised ==
  record # NoLease =>
    /\ ~stopping
    /\ thread[record].at \in {"wait", "read", "renew", "lost", "raised"}

IInv ==
  /\ TypeOK
  /\ Roles
  /\ StartsAlone
  /\ LatestLease
  /\ NoOrphanServer
  /\ LeaseHasOwner
  /\ WatchedOrRaised

(* What a thread's entry is a member of. *)
ThreadState == [at : Location, lease : Lease \cup {NoLease}, server : 0..bound]

-----------------------------------------------------------------------------
(* Callers are no numbers, the numbers of a run are natural. *)
LEMMA Numbers ==
  ASSUME TypeOK
  PROVE  /\ Len(grants) \in Nat /\ bound \in Nat /\ server \in Nat /\ record \in Nat
         /\ MaxLease \in Nat /\ MaxBound \in Nat
         /\ Lease \subseteq Beat
         /\ \A t \in Thread : t \in Caller <=> t \notin Beat
  BY RuntimeAssumption, McpServerAssumption, SMT
  DEF TypeOK, ServerTypeOK, Lease, Thread, Beat, NoLease

LEMMA ThreadTyped ==
  ASSUME TypeOK, NEW t \in Thread
  PROVE  /\ thread[t] \in ThreadState
         /\ thread[t].at \in Location
         /\ thread[t].lease \in Lease \cup {NoLease}
         /\ thread[t].lease \in Nat
         /\ thread[t].server \in 0..bound
<1>1. thread[t] \in ThreadState
  BY DEF TypeOK, ThreadState
<1> QED
  BY <1>1, Numbers, SMT DEF ThreadState, Lease, NoLease

(* A step that binds no server and issues no lease keeps the types. *)
LEMMA StepTyped ==
  ASSUME TypeOK, UNCHANGED <<bound, grants>>,
         server' \in {server, NoServer}, listening' \subseteq listening,
         lock' \in Caller \cup {NoCaller}, record' \in {record, NoLease},
         stopping' \in BOOLEAN,
         registered' \subseteq registered, abandoned' \subseteq Lease,
         NEW t \in Thread, NEW s \in ThreadState, thread' = [thread EXCEPT ![t] = s]
  PROVE  TypeOK'
<1>1. thread' \in [Thread -> ThreadState]
  BY DEF TypeOK, ThreadState
<1>2. Lease' = Lease /\ ThreadState' = ThreadState
  BY DEF Lease, ThreadState
<1>3. ServerTypeOK'
  BY McpServerAssumption, SMT DEF TypeOK, ServerTypeOK, NoServer
<1> QED
  BY <1>1, <1>2, <1>3 DEF TypeOK, ThreadState

(* The entry of a thread that moved to another line. *)
LEMMA MoveTyped ==
  ASSUME TypeOK, NEW t \in Thread, NEW to \in Location,
         thread' = [thread EXCEPT ![t].at = to]
  PROVE  /\ [thread[t] EXCEPT !.at = to] \in ThreadState
         /\ thread' = [thread EXCEPT ![t] = [thread[t] EXCEPT !.at = to]]
         /\ thread'[t].at = to
         /\ thread'[t].lease = thread[t].lease
         /\ thread'[t].server = thread[t].server
         /\ \A u \in Thread : u # t => thread'[u] = thread[u]
<1>1. thread[t] \in ThreadState /\ DOMAIN thread = Thread
  BY ThreadTyped DEF TypeOK
<1> QED
  BY <1>1, SMT DEF ThreadState

(* The entry of a thread that was given a new one. *)
LEMMA SetTyped ==
  ASSUME TypeOK, NEW t \in Thread, NEW s, thread' = [thread EXCEPT ![t] = s]
  PROVE  thread'[t] = s /\ \A u \in Thread : u # t => thread'[u] = thread[u]
  BY DEF TypeOK

-----------------------------------------------------------------------------
LEMMA InitInv == Init => IInv
<1> SUFFICES ASSUME Init PROVE IInv
  OBVIOUS
<1>1. \A t \in Thread : thread[t] = At(IF t \in Caller THEN "idle" ELSE "unborn")
  BY DEF Init
<1>2. grants = <<>> /\ Len(grants) = 0
  BY SMT DEF Init
<1>3. TypeOK
  <2>1. \A t \in Thread : thread[t] \in ThreadState
    BY <1>1, SMT DEF At, ThreadState, Location, NoLease, NoServer, Init, ServerInit
  <2>2. grants \in Seq(1..bound) /\ Len(grants) <= MaxLease
    BY <1>2, RuntimeAssumption, SMT
  <2>3. ServerTypeOK
    BY McpServerAssumption, SMT DEF Init, ServerInit, ServerTypeOK, NoServer
  <2> QED
    BY <2>1, <2>2, <2>3 DEF Init, TypeOK, ThreadState
<1>4. Roles
  <2>1. \A c \in Caller : thread[c].at = "idle"
    <3>1. \A c \in Caller : thread[c] = At("idle")
      BY <1>1 DEF Thread
    <3>2. At("idle").at = "idle"
      BY SMT DEF At
    <3> QED
      BY <3>1, <3>2
  <2>2. \A g \in Beat : thread[g].at = "unborn" /\ g > Len(grants)
    <3> SUFFICES ASSUME NEW g \in Beat PROVE thread[g].at = "unborn" /\ g > Len(grants)
      OBVIOUS
    <3>1. g \notin Caller /\ g \in Thread
      BY <1>3, Numbers DEF Thread
    <3>2. g > 0
      BY RuntimeAssumption, SMT DEF Beat
    <3> QED
      <4>1. thread[g] = At("unborn")
        BY <1>1, <3>1
      <4>2. At("unborn").at = "unborn"
        BY SMT DEF At
      <4> QED
        BY <1>2, <3>2, <4>1, <4>2
  <2> QED
    BY <2>1, <2>2 DEF Roles, CallerAt, BeatAt
<1>5. StartsAlone /\ LatestLease /\ NoOrphanServer /\ LeaseHasOwner /\ WatchedOrRaised
  BY <1>1, <1>2, SMT DEF Init, ServerInit, StartsAlone, LatestLease, NoOrphanServer,
     LeaseHasOwner, WatchedOrRaised, At, Thread, NoLease
<1> QED
  BY <1>3, <1>4, <1>5 DEF IInv

(* The lines at which a thread has the adapter's server to look after. *)
Keeping == {"ping", "register", "unregister", "expire", "take"}

(* A thread that only goes on to another line, and does not let go of what *)
(* it has in hand.                                                         *)
LEMMA MoveKeepsInv ==
  ASSUME IInv, NEW t \in Thread, NEW to \in Location,
         thread' = [thread EXCEPT ![t].at = to],
         UNCHANGED <<serverVars, stateVars, leaseVars>>,
         t \in Caller => to \in CallerAt,
         t \in Beat => to \in BeatAt \ {"unborn"} /\ thread[t].at # "unborn",
         thread[t].at \notin {"close", "unregister"},
         thread[t].at \in Keeping => to \in Keeping,
         to \notin {"bind", "renew", "expire"},
         to \in {"ping", "register"} => thread[t].at \in {"ping", "register"},
         to = "lost" => thread[t].at = "renew" /\ thread[t].lease \notin registered,
         t = record => to \in {"wait", "read", "renew", "lost", "raised"}
  PROVE  IInv'
<1>0. TypeOK
  BY DEF IInv
<1>1. /\ thread'[t].at = to
      /\ thread'[t].lease = thread[t].lease
      /\ thread'[t].server = thread[t].server
      /\ \A u \in Thread : u # t => thread'[u] = thread[u]
  BY <1>0, MoveTyped
<1>2. TypeOK'
  BY <1>0, MoveTyped, StepTyped
     DEF TypeOK, serverVars, stateVars, leaseVars
<1>3. Roles'
  BY <1>1, <1>0, Numbers DEF IInv, Roles, Thread, Beat, leaseVars
<1>4. StartsAlone' /\ LatestLease'
  BY <1>1 DEF IInv, StartsAlone, LatestLease, Thread, Beat, serverVars, stateVars, leaseVars
<1>5. NoOrphanServer'
  BY <1>1 DEF IInv, NoOrphanServer, Keeping, serverVars, stateVars
<1>6. LeaseHasOwner'
  BY <1>1 DEF IInv, LeaseHasOwner, Thread, leaseVars, stateVars
<1>7. WatchedOrRaised'
  <2>1. record # NoLease => record \in Thread
    BY <1>0, Numbers DEF TypeOK, Thread, NoLease
  <2> QED
    BY <1>1, <2>1 DEF IInv, WatchedOrRaised, stateVars
<1> QED
  BY <1>2, <1>3, <1>4, <1>5, <1>6, <1>7 DEF IInv

(* A socket keeps its owner, if the server stays in its field and no thread *)
(* that is about to close one goes on.                                      *)
SocketsOwned ==
  \A n \in listening :
    n = server \/ \E t \in Thread : thread[t].at = "close" /\ thread[t].server = n

LEMMA SocketsKeepOwners ==
  ASSUME NoOrphanServer, UNCHANGED serverVars,
         \A t \in Thread : thread[t].at = "close" => thread'[t] = thread[t]
  PROVE  SocketsOwned'
  BY DEF NoOrphanServer, SocketsOwned, serverVars

(* The steps that only move a thread on. *)
LEMMA CallerMovesKeepInv ==
  ASSUME IInv, NEW c \in Caller,
         \/ CallStart(c) \/ CallStop(c) \/ StartPing(c) \/ StartPingFails(c)
         \/ StartRegisterRaises(c)
  PROVE  IInv'
<1>1. /\ c \in Thread /\ c \notin Beat
      /\ record # c
  BY Numbers, RuntimeAssumption DEF IInv, Thread
<1> QED
  BY <1>1, MoveKeepsInv
     DEF CallStart, CallStop, StartPing, StartPingFails, StartRegisterRaises, Goto,
         Location, CallerAt, Keeping

(* `with self._lock` at the head of start. *)
LEMMA StartEnterKeepsInv ==
  ASSUME IInv, NEW c \in Caller, StartEnter(c)
  PROVE  IInv'
<1>0. TypeOK /\ c \in Thread /\ c \notin Beat /\ record # c
  BY Numbers, RuntimeAssumption DEF IInv, Thread
<1>1. CASE record # NoLease
  BY <1>0, <1>1, MoveKeepsInv
     DEF StartEnter, Goto, Location, CallerAt, Keeping, stateVars
<1>2. CASE record = NoLease
  <2>1. /\ lock = NoCaller /\ lock' = c
        /\ thread[c].at = "start"
        /\ thread' = [thread EXCEPT ![c].at = "bind"]
        /\ UNCHANGED <<serverVars, record, stopping, leaseVars>>
    BY <1>2 DEF StartEnter, Goto
  <2>2. /\ thread'[c].at = "bind"
        /\ \A u \in Thread : u # c => thread'[u] = thread[u]
    BY <1>0, <2>1, MoveTyped DEF Location
  <2>3. TypeOK'
    BY <1>0, <2>1, MoveTyped, StepTyped
       DEF TypeOK, serverVars, leaseVars, Location
  <2>4. Roles' /\ LatestLease'
    BY <1>0, <2>1, <2>2 DEF IInv, Roles, CallerAt, LatestLease, Thread, leaseVars
  <2>5. StartsAlone'
    BY <1>2, <2>1, <2>2, RuntimeAssumption DEF IInv, StartsAlone, Thread
  <2>6. NoOrphanServer' /\ LeaseHasOwner' /\ WatchedOrRaised'
    BY <1>0, <1>2, <2>1, <2>2
       DEF IInv, NoOrphanServer, LeaseHasOwner, WatchedOrRaised, Thread, serverVars, leaseVars
  <2> QED
    BY <2>3, <2>4, <2>5, <2>6 DEF IInv
<1> QED
  BY <1>1, <1>2

(* LocalMcpServer.start gives the server that is there, or a new one. *)
LEMMA StartBindKeepsInv ==
  ASSUME IInv, NEW c \in Caller, StartBind(c)
  PROVE  IInv'
<1>0. TypeOK /\ c \in Thread /\ c \notin Beat
  BY Numbers DEF IInv, Thread
<1>1. PICK n \in 1..MaxBound :
        /\ ServerStart(n)
        /\ thread' = [thread EXCEPT ![c].at = "ping", ![c].server = n]
  BY DEF StartBind
<1>2. /\ thread[c].at = "bind"
      /\ UNCHANGED <<stateVars, leaseVars>>
  BY DEF StartBind
<1>3. /\ server' = n /\ n \in 1..bound'
      /\ bound' \in Nat /\ bound <= bound' /\ bound' <= MaxBound
      /\ listening \subseteq listening' /\ listening' \subseteq listening \cup {n}
      /\ server # NoServer => UNCHANGED serverVars
  BY <1>0, <1>1, Numbers, SMT
     DEF ServerStart, serverVars, NoServer, TypeOK, ServerTypeOK
<1> DEFINE s == [thread[c] EXCEPT !.at = "ping", !.server = n]
<1>4. /\ thread' = [thread EXCEPT ![c] = s]
      /\ thread'[c] = s
      /\ \A u \in Thread : u # c => thread'[u] = thread[u]
  <2>1. thread' = [thread EXCEPT ![c] = s]
    BY <1>1
  <2> QED
    BY <1>0, <2>1, SetTyped
<1>5. s.at = "ping" /\ s.lease = thread[c].lease /\ s.server = n
  BY <1>0, ThreadTyped DEF ThreadState
<1>6. TypeOK'
  <2>1. 0..bound \subseteq 0..bound' /\ 1..bound \subseteq 1..bound'
    BY <1>0, <1>3, Numbers, SMT
  <2>2. ServerTypeOK'
    BY <1>0, <1>3, <2>1, Numbers, SMT DEF TypeOK, ServerTypeOK
  <2>3. grants' \in Seq(1..bound')
    <3>1. grants \in Seq(1..bound) /\ grants' = grants
      BY <1>0, <1>2 DEF TypeOK, leaseVars
    <3> QED
      BY <2>1, <3>1, SeqMonotonic
  <2>4. Lease' = Lease
    BY <1>2 DEF Lease, leaseVars
  <2>5. thread' \in [Thread -> ThreadState']
    <3>1. ThreadState \subseteq ThreadState'
      BY <2>1, <2>4 DEF ThreadState
    <3>2. s \in ThreadState'
      <4>1. thread[c] \in ThreadState' /\ n \in 0..bound'
        BY <1>0, <1>3, <3>1, ThreadTyped, SMT
      <4> QED
        BY <4>1 DEF ThreadState, Location
    <3> QED
      BY <1>0, <1>4, <3>1, <3>2 DEF TypeOK, ThreadState
  <2> QED
    BY <1>0, <1>2, <2>2, <2>3, <2>4, <2>5
       DEF TypeOK, ThreadState, stateVars, leaseVars
<1>7. Roles' /\ LatestLease'
  BY <1>0, <1>2, <1>4, <1>5
     DEF IInv, Roles, CallerAt, LatestLease, Thread, stateVars, leaseVars
<1>8. StartsAlone'
  BY <1>2, <1>3, <1>4, <1>5, SMT DEF IInv, StartsAlone, NoServer, Thread, stateVars
<1>9. NoOrphanServer'
  <2>1. \A m \in listening' :
          m = server' \/ \E t \in Thread : thread'[t].at = "close" /\ thread'[t].server = m
    <3> SUFFICES ASSUME NEW m \in listening', m # n
                 PROVE  \E t \in Thread : thread'[t].at = "close" /\ thread'[t].server = m
      BY <1>3
    <3>1. m \in listening /\ m # server
      <4>1. m \in listening
        BY <1>3
      <4>2. CASE server = NoServer
        BY <1>0, <4>1, <4>2, SMT DEF TypeOK, ServerTypeOK, NoServer
      <4>3. CASE server # NoServer
        BY <1>3, <4>1, <4>3 DEF serverVars
      <4> QED
        BY <4>1, <4>2, <4>3
    <3>2. PICK t \in Thread : thread[t].at = "close" /\ thread[t].server = m
      BY <3>1 DEF IInv, NoOrphanServer
    <3> QED
      BY <1>2, <1>4, <3>2
  <2>2. thread'[c].at = "ping"
    BY <1>4, <1>5
  <2> QED
    BY <1>0, <2>1, <2>2 DEF NoOrphanServer
<1>10. LeaseHasOwner' /\ WatchedOrRaised'
  <2>1. record # NoLease => record # c
    BY <1>0, Numbers, RuntimeAssumption
  <2>2. record # NoLease => record \in Thread
    BY <1>0, Numbers DEF TypeOK, Thread, NoLease
  <2> QED
    BY <1>2, <1>4, <2>1, <2>2
       DEF IInv, LeaseHasOwner, WatchedOrRaised, Thread, stateVars, leaseVars
<1> QED
  BY <1>6, <1>7, <1>8, <1>9, <1>10 DEF IInv

(* Nothing was bound, and the start gives `_lock` back. *)
LEMMA StartBindRaisesKeepsInv ==
  ASSUME IInv, NEW c \in Caller, StartBindRaises(c)
  PROVE  IInv'
<1>0. TypeOK /\ c \in Thread /\ c \notin Beat /\ c # record
  BY Numbers, RuntimeAssumption DEF IInv, Thread
<1>1. /\ thread[c].at = "bind" /\ lock = c
      /\ thread' = [thread EXCEPT ![c] = At("idle")]
      /\ lock' = NoCaller
      /\ server = NoServer
      /\ UNCHANGED <<serverVars, record, stopping, leaseVars>>
  BY DEF StartBindRaises, Return, IInv, StartsAlone
<1>2. At("idle").at = "idle" /\ At("idle") \in ThreadState
  BY <1>0, Numbers, SMT DEF At, ThreadState, Location, NoLease, NoServer
<1>3. thread'[c] = At("idle") /\ \A u \in Thread : u # c => thread'[u] = thread[u]
  BY <1>0, <1>1, SetTyped
<1>4. TypeOK'
  BY <1>0, <1>1, <1>2, StepTyped DEF TypeOK, serverVars, leaseVars
<1>5. Roles' /\ LatestLease' /\ LeaseHasOwner'
  BY <1>0, <1>1, <1>2, <1>3
     DEF IInv, Roles, CallerAt, LatestLease, LeaseHasOwner, Thread, leaseVars
<1>6. StartsAlone'
  BY <1>0, <1>1, <1>2, <1>3 DEF IInv, StartsAlone, Thread
<1>7. NoOrphanServer' /\ WatchedOrRaised'
  <2>1. record # NoLease => record \in Thread
    BY <1>0, Numbers DEF TypeOK, Thread, NoLease
  <2> QED
    BY <1>0, <1>1, <1>2, <1>3, <2>1 DEF IInv, NoOrphanServer, WatchedOrRaised, Thread, serverVars
<1> QED
  BY <1>4, <1>5, <1>6, <1>7 DEF IInv

(* A lease is issued, it is the record, and its heartbeat thread is born. *)
LEMMA StartRegisterKeepsInv ==
  ASSUME IInv, NEW c \in Caller, StartRegister(c)
  PROVE  IInv'
<1> DEFINE l == Len(grants) + 1
           n == thread[c].server
<1>0. /\ TypeOK /\ c \in Thread /\ c \notin Beat
      /\ lock = c /\ lock # NoCaller /\ record = NoLease
      /\ n \in 1..bound
  <2>1. TypeOK /\ c \in Thread /\ c \notin Beat
    BY Numbers DEF IInv, Thread
  <2>2. lock = c /\ lock # NoCaller /\ record = NoLease /\ n # NoServer
    BY RuntimeAssumption DEF IInv, StartsAlone, StartRegister
  <2>3. n \in 1..bound
    BY <2>1, <2>2, ThreadTyped, Numbers, SMT DEF NoServer
  <2> QED
    BY <2>1, <2>2, <2>3
<1>1. /\ Len(grants) < MaxLease
      /\ grants' = Append(grants, n)
      /\ registered' = registered \cup {l}
      /\ record' = l
      /\ thread' = [thread EXCEPT ![c] = At("idle"), ![l] = At("wait")]
      /\ stopping' = FALSE
      /\ lock' = NoCaller
      /\ UNCHANGED <<serverVars, abandoned>>
  BY DEF StartRegister
<1>2. /\ l \in Beat /\ l \in Thread /\ l # c /\ l \in Nat /\ l # NoLease
      /\ l \notin Lease
      /\ thread[l].at = "unborn"
  <2>1. l \in Beat /\ l \in Nat /\ l # NoLease /\ l \notin Lease /\ l > Len(grants)
    BY <1>0, <1>1, Numbers, SMT DEF Beat, NoLease, Lease
  <2> QED
    BY <1>0, <2>1 DEF IInv, Roles, Thread
<1>3. /\ At("idle").at = "idle" /\ At("wait").at = "wait"
      /\ At("idle") \in ThreadState /\ At("wait") \in ThreadState
  BY <1>0, Numbers, SMT DEF At, ThreadState, Location, NoLease, NoServer
<1>4. /\ thread'[c] = At("idle") /\ thread'[l] = At("wait")
      /\ \A u \in Thread : u \notin {c, l} => thread'[u] = thread[u]
  BY <1>0, <1>1, <1>2 DEF TypeOK
<1>5. /\ grants' \in Seq(1..bound) /\ Len(grants') = l
      /\ Lease' = Lease \cup {l}
  <2>1. grants \in Seq(1..bound)
    BY <1>0 DEF TypeOK
  <2>2. grants' \in Seq(1..bound) /\ Len(grants') = l
    BY <1>0, <1>1, <2>1, SMT
  <2> QED
    BY <1>0, <2>2, Numbers, SMT DEF Lease
<1> HIDE DEF l, n
<1>6. TypeOK'
  <2>1. ThreadState \subseteq ThreadState'
    BY <1>1, <1>5 DEF ThreadState, serverVars
  <2>2. thread' \in [Thread -> ThreadState']
    BY <1>0, <1>1, <1>2, <1>3, <1>4, <2>1 DEF TypeOK, ThreadState
  <2>3. l <= MaxLease
    BY <1>0, <1>1, Numbers, SMT DEF l
  <2>4. /\ registered' \subseteq Lease' /\ abandoned' \subseteq Lease' /\ record' \in Lease'
        /\ grants' \in Seq(1..bound') /\ ServerTypeOK'
    BY <1>0, <1>1, <1>5 DEF TypeOK, ServerTypeOK, serverVars
  <2> QED
    BY <1>1, <1>5, <2>2, <2>3, <2>4 DEF TypeOK, ThreadState
<1>7. Roles'
  <2>1. \A g \in Beat : g > l <=> g > Len(grants) /\ g # l
    BY <1>0, Numbers, SMT DEF Beat, l
  <2> QED
    BY <1>0, <1>2, <1>3, <1>4, <1>5, <2>1 DEF IInv, Roles, CallerAt, BeatAt, Thread
<1>8. StartsAlone'
  BY <1>0, <1>1, <1>2, <1>3, <1>4, Numbers DEF IInv, StartsAlone, Thread
<1>9. LatestLease'
  <2>1. \A g \in Beat : g # l => thread'[g] = thread[g] /\ thread[g].lease # l
    BY <1>0, <1>2, <1>4, ThreadTyped DEF Thread
  <2>2. thread'[l].at = "wait"
    BY <1>3, <1>4
  <2>3. \A g \in Beat :
          /\ thread'[g].at \in {"renew", "lost"} => thread'[g].lease >= g
          /\ thread'[g].at \in {"lost", "expire"} => thread'[g].lease \notin registered'
    <3> SUFFICES ASSUME NEW g \in Beat, g # l
                 PROVE  /\ thread[g].at \in {"renew", "lost"} => thread[g].lease >= g
                        /\ thread[g].at \in {"lost", "expire"} =>
                             thread[g].lease \notin registered'
      BY <2>1, <2>2
    <3>1. thread[g].lease \in registered' <=> thread[g].lease \in registered
      BY <1>1, <2>1
    <3> QED
      BY <3>1 DEF IInv, LatestLease
  <2> QED
    BY <1>1, <1>5, <2>3 DEF LatestLease
<1>10. NoOrphanServer'
  <2>1. \A t \in Thread : thread[t].at = "close" => t \notin {c, l}
    BY <1>2 DEF StartRegister
  <2>2. SocketsOwned'
    BY <1>1, <1>4, <2>1, SocketsKeepOwners DEF IInv
  <2> QED
    BY <1>1, <1>2, <2>2 DEF NoOrphanServer, SocketsOwned
<1>11. LeaseHasOwner'
  <2>1. \A u \in Caller : thread[u].at = "unregister" => thread'[u] = thread[u]
    BY <1>0, <1>2, <1>4 DEF StartRegister, Thread, IInv, Roles
  <2> QED
    <3> SUFFICES ASSUME NEW k \in registered' \ abandoned', k # l
                 PROVE  \E u \in Caller : /\ thread'[u].at = "unregister"
                                          /\ thread'[u].lease = k
      BY <1>1 DEF LeaseHasOwner
    <3>1. k \in registered \ abandoned /\ k # record
      BY <1>0, <1>1, Numbers, SMT DEF TypeOK, Lease, NoLease
    <3>2. PICK u \in Caller : thread[u].at = "unregister" /\ thread[u].lease = k
      BY <3>1 DEF IInv, LeaseHasOwner
    <3> QED
      BY <2>1, <3>2
<1>12. WatchedOrRaised'
  BY <1>1, <1>3, <1>4 DEF WatchedOrRaised
<1> QED
  BY <1>6, <1>7, <1>8, <1>9, <1>10, <1>11, <1>12 DEF IInv

(* The lock block of stop takes the record and sets the event. *)
LEMMA StopEnterKeepsInv ==
  ASSUME IInv, NEW c \in Caller, StopEnter(c)
  PROVE  IInv'
<1> DEFINE s == [thread[c] EXCEPT !.at = "unregister", !.lease = record]
<1>0. TypeOK /\ c \in Thread /\ c \notin Beat
  BY Numbers DEF IInv, Thread
<1>1. /\ thread[c].at = "stop"
      /\ thread' = [thread EXCEPT ![c] = s]
      /\ lock = NoCaller /\ record' = NoLease /\ stopping' = TRUE
      /\ UNCHANGED <<serverVars, lock, leaseVars>>
  BY DEF StopEnter
<1>2. /\ s.at = "unregister" /\ s.lease = record /\ s \in ThreadState
  BY <1>0, ThreadTyped DEF ThreadState, TypeOK, Location
<1>3. thread'[c] = s /\ \A u \in Thread : u # c => thread'[u] = thread[u]
  BY <1>0, <1>1, SetTyped
<1>4. TypeOK'
  BY <1>0, <1>1, <1>2, StepTyped DEF TypeOK, serverVars, leaseVars
<1>5. Roles' /\ StartsAlone' /\ LatestLease'
  BY <1>0, <1>1, <1>2, <1>3
     DEF IInv, Roles, CallerAt, StartsAlone, LatestLease, Thread, leaseVars
<1> HIDE DEF s
<1>6. NoOrphanServer'
  <2>1. SocketsOwned'
    BY <1>1, <1>3, SocketsKeepOwners DEF IInv
  <2> QED
    BY <1>0, <1>2, <1>3, <2>1 DEF NoOrphanServer, SocketsOwned
<1>7. LeaseHasOwner'
  <2>1. \A u \in Caller : thread[u].at = "unregister" => thread'[u] = thread[u]
    BY <1>1, <1>3 DEF Thread
  <2> QED
    BY <1>1, <1>2, <1>3, <2>1 DEF IInv, LeaseHasOwner, leaseVars
<1>8. WatchedOrRaised'
  BY <1>1 DEF WatchedOrRaised
<1> QED
  BY <1>4, <1>5, <1>6, <1>7, <1>8 DEF IInv

(* The lease goes back, or the registry raises and is held to blame. *)
LEMMA StopUnregisterKeepsInv ==
  ASSUME IInv, NEW c \in Caller, StopUnregister(c)
  PROVE  IInv'
<1>0. TypeOK /\ c \in Thread /\ c \notin Beat /\ c # record
  BY Numbers, RuntimeAssumption DEF IInv, Thread
<1>1. /\ thread[c].at = "unregister"
      /\ thread' = [thread EXCEPT ![c].at = "take"]
      /\ registered' \subseteq registered
      /\ abandoned \subseteq abandoned' /\ abandoned' \subseteq Lease
      /\ registered' \ abandoned' \subseteq (registered \ abandoned) \ {thread[c].lease}
      /\ UNCHANGED <<serverVars, stateVars, grants>>
  BY <1>0, ThreadTyped DEF StopUnregister, Goto, TypeOK
<1>2. /\ thread'[c].at = "take"
      /\ \A u \in Thread : u # c => thread'[u] = thread[u]
  BY <1>0, <1>1, MoveTyped DEF Location
<1>3. TypeOK'
  BY <1>0, <1>1, MoveTyped, StepTyped DEF TypeOK, Location, serverVars, stateVars
<1>4. Roles' /\ StartsAlone' /\ LatestLease'
  BY <1>0, <1>1, <1>2
     DEF IInv, Roles, CallerAt, StartsAlone, LatestLease, Thread, stateVars
<1>5. NoOrphanServer'
  BY <1>0, <1>1, <1>2 DEF IInv, NoOrphanServer, serverVars, stateVars
<1>6. LeaseHasOwner'
  BY <1>0, <1>1, <1>2 DEF IInv, LeaseHasOwner, Thread, stateVars
<1>7. WatchedOrRaised'
  <2>1. record # NoLease => record \in Thread
    BY <1>0, Numbers DEF TypeOK, Thread, NoLease
  <2> QED
    BY <1>0, <1>1, <1>2, <2>1 DEF IInv, WatchedOrRaised, stateVars
<1> QED
  BY <1>3, <1>4, <1>5, <1>6, <1>7 DEF IInv

(* adapter.stop takes the server out of the adapter's hands, *)
LEMMA AdapterTakeKeepsInv ==
  ASSUME IInv, NEW t \in Thread, AdapterTake(t)
  PROVE  IInv'
<1> DEFINE s == [thread[t] EXCEPT !.at = "close", !.server = server]
<1>0. TypeOK
  BY DEF IInv
<1>1. /\ thread[t].at = "take"
      /\ thread' = [thread EXCEPT ![t] = s]
      /\ server' = NoServer
      /\ UNCHANGED <<listening, bound, stateVars, leaseVars>>
  BY DEF AdapterTake, ServerTake
<1>2. s.at = "close" /\ s.server = server /\ s \in ThreadState
  BY <1>0, ThreadTyped DEF ThreadState, TypeOK, ServerTypeOK, Location
<1>3. thread'[t] = s /\ \A u \in Thread : u # t => thread'[u] = thread[u]
  BY <1>0, <1>1, SetTyped
<1> HIDE DEF s
<1>4. TypeOK'
  BY <1>0, <1>1, <1>2, StepTyped DEF TypeOK, stateVars, leaseVars
<1>5. Roles' /\ StartsAlone' /\ LatestLease'
  BY <1>1, <1>2, <1>3 DEF IInv, Roles, CallerAt, BeatAt, StartsAlone, LatestLease, Thread,
                          stateVars, leaseVars
<1>6. NoOrphanServer'
  BY <1>1, <1>2, <1>3 DEF IInv, NoOrphanServer
<1>7. LeaseHasOwner'
  BY <1>1, <1>2, <1>3 DEF IInv, LeaseHasOwner, Thread, stateVars, leaseVars
<1>8. WatchedOrRaised'
  <2>1. record # NoLease => record \in Thread
    BY <1>0, Numbers DEF TypeOK, Thread, NoLease
  <2> QED
    BY <1>1, <1>3, <2>1 DEF IInv, WatchedOrRaised, stateVars
<1> QED
  BY <1>4, <1>5, <1>6, <1>7, <1>8 DEF IInv

(* and closes its socket. *)
LEMMA AdapterCloseKeepsInv ==
  ASSUME IInv, NEW t \in Thread, AdapterClose(t)
  PROVE  IInv'
<1> DEFINE s == At(IF t \in Caller THEN "idle" ELSE "ended")
<1>0. TypeOK
  BY DEF IInv
<1>1. /\ thread[t].at = "close"
      /\ thread' = [thread EXCEPT ![t] = s]
      /\ lock' = IF lock = t THEN NoCaller ELSE lock
      /\ listening' = listening \ {thread[t].server}
      /\ UNCHANGED <<server, bound, record, stopping, leaseVars>>
  BY DEF AdapterClose, ServerClose, Return
<1>2. /\ s.at = IF t \in Caller THEN "idle" ELSE "ended"
      /\ s \in ThreadState
  BY <1>0, Numbers, SMT DEF At, ThreadState, Location, NoLease, NoServer
<1>3. thread'[t] = s /\ \A u \in Thread : u # t => thread'[u] = thread[u]
  BY <1>0, <1>1, SetTyped
<1> HIDE DEF s
<1>4. TypeOK'
  BY <1>0, <1>1, <1>2, StepTyped DEF TypeOK, leaseVars
<1>5. Roles' /\ LatestLease'
  BY <1>0, <1>1, <1>2, <1>3, Numbers
     DEF IInv, Roles, CallerAt, BeatAt, LatestLease, Thread, leaseVars
<1>6. StartsAlone'
  BY <1>1, <1>2, <1>3 DEF IInv, StartsAlone, Thread
<1>7. NoOrphanServer'
  BY <1>1, <1>2, <1>3 DEF IInv, NoOrphanServer
<1>8. LeaseHasOwner'
  BY <1>1, <1>2, <1>3 DEF IInv, LeaseHasOwner, Thread, leaseVars
<1>9. WatchedOrRaised'
  <2>1. record # NoLease => record \in Thread
    BY <1>0, Numbers DEF TypeOK, Thread, NoLease
  <2> QED
    BY <1>1, <1>3, <2>1 DEF IInv, WatchedOrRaised
<1> QED
  BY <1>4, <1>5, <1>6, <1>7, <1>8, <1>9 DEF IInv

-----------------------------------------------------------------------------
(* A heartbeat thread wakes, and renews what it has read. *)
LEMMA BeatMovesKeepInv ==
  ASSUME IInv, NEW g \in Beat, BeatWakes(g) \/ BeatRenews(g)
  PROVE  IInv'
<1>0. TypeOK /\ g \in Thread /\ g \notin Caller
  BY Numbers DEF IInv, Thread
<1>1. CASE BeatWakes(g)
  <2>1. g = record => ~stopping
    <3>1. g # NoLease
      BY <1>0, Numbers, SMT DEF Beat, NoLease
    <3> QED
      BY <3>1 DEF IInv, WatchedOrRaised
  <2> QED
    BY <1>0, <1>1, <2>1, MoveKeepsInv DEF BeatWakes, Goto, Location, BeatAt, Keeping
<1>2. CASE BeatRenews(g)
  <2>1. PICK to \in {"wait", "lost", "raised"} :
          /\ thread[g].at = "renew"
          /\ thread' = [thread EXCEPT ![g].at = to]
          /\ to = "lost" => thread[g].lease \notin registered
    BY <1>2 DEF BeatRenews, Goto
  <2>2. UNCHANGED <<serverVars, stateVars, leaseVars>>
    BY <1>2 DEF BeatRenews
  <2>3. to \in Location
    BY DEF Location
  <2> QED
    BY <1>0, <2>1, <2>2, <2>3, MoveKeepsInv DEF BeatAt, Keeping
<1> QED
  BY <1>1, <1>2

(* It reads the latest lease, which is no older than its own. *)
LEMMA BeatReadsKeepsInv ==
  ASSUME IInv, NEW g \in Beat, BeatReads(g)
  PROVE  IInv'
<1> DEFINE to == IF record = NoLease THEN "ended" ELSE "renew"
           s == [thread[g] EXCEPT !.at = to, !.lease = record]
<1>0. TypeOK /\ g \in Thread /\ g \notin Caller
  BY Numbers DEF IInv, Thread
<1>1. /\ thread[g].at = "read"
      /\ thread' = [thread EXCEPT ![g] = s]
      /\ UNCHANGED <<serverVars, stateVars, leaseVars>>
  BY DEF BeatReads
<1>2. s.at = to /\ s.lease = record /\ s \in ThreadState
  BY <1>0, ThreadTyped DEF ThreadState, TypeOK, Location
<1>3. thread'[g] = s /\ \A u \in Thread : u # g => thread'[u] = thread[u]
  BY <1>0, <1>1, SetTyped
<1>4. record # NoLease => record >= g
  <2>1. g \in Nat /\ ~(g > Len(grants))
    BY <1>0, <1>1, Numbers, SMT DEF IInv, Roles, Beat
  <2> QED
    BY <1>0, <2>1, Numbers, SMT DEF IInv, LatestLease
<1> HIDE DEF s
<1>5. TypeOK'
  BY <1>0, <1>1, <1>2, StepTyped DEF TypeOK, serverVars, stateVars, leaseVars
<1>6. Roles' /\ StartsAlone'
  BY <1>0, <1>1, <1>2, <1>3
     DEF IInv, Roles, BeatAt, StartsAlone, Thread, stateVars, leaseVars
<1>7. LatestLease'
  BY <1>0, <1>1, <1>2, <1>3, <1>4
     DEF IInv, LatestLease, Thread, stateVars, leaseVars
<1>8. NoOrphanServer'
  <2>1. SocketsOwned'
    BY <1>1, <1>3, SocketsKeepOwners DEF IInv
  <2> QED
    BY <1>1, <1>3, <2>1 DEF IInv, NoOrphanServer, SocketsOwned, serverVars, stateVars
<1>9. LeaseHasOwner'
  BY <1>0, <1>1, <1>3 DEF IInv, LeaseHasOwner, Thread, stateVars, leaseVars
<1>10. WatchedOrRaised'
  <2>1. record # NoLease => record \in Thread
    BY <1>0, Numbers DEF TypeOK, Thread, NoLease
  <2> QED
    BY <1>1, <1>2, <1>3, <2>1 DEF IInv, WatchedOrRaised, stateVars
<1> QED
  BY <1>5, <1>6, <1>7, <1>8, <1>9, <1>10 DEF IInv

(* A thread whose lease was refused takes the record only if it is that    *)
(* lease; the thread of a newer record goes on.                            *)
LEMMA BeatLosesKeepsInv ==
  ASSUME IInv, NEW g \in Beat, BeatLoses(g)
  PROVE  IInv'
<1>0. TypeOK /\ g \in Thread /\ g \notin Caller /\ g # NoLease
  BY Numbers, SMT DEF IInv, Thread, Beat, NoLease
<1>1. CASE record # thread[g].lease
  <2>1. /\ thread[g].at = "lost"
        /\ thread' = [thread EXCEPT ![g].at = "ended"]
        /\ UNCHANGED <<serverVars, stateVars, leaseVars>>
    BY <1>1 DEF BeatLoses, Goto, stateVars
  <2>2. g # record
    <3>1. thread[g].lease >= g /\ thread[g].lease \in Lease \cup {NoLease}
      BY <1>0, <2>1, ThreadTyped DEF IInv, LatestLease
    <3>2. record = g => thread[g].lease = record
      BY <1>0, <3>1, Numbers, SMT DEF IInv, LatestLease, Lease, Beat, NoLease
    <3> QED
      BY <1>1, <3>2
  <2> QED
    BY <1>0, <2>1, <2>2, MoveKeepsInv DEF Location, BeatAt, Keeping
<1>2. CASE record = thread[g].lease
  <2>1. /\ thread[g].at = "lost"
        /\ thread' = [thread EXCEPT ![g].at = "expire"]
        /\ record' = NoLease /\ stopping' = TRUE
        /\ UNCHANGED <<serverVars, lock, leaseVars>>
    BY <1>2 DEF BeatLoses, Goto
  <2>2. /\ thread'[g].at = "expire"
        /\ thread'[g].lease = thread[g].lease
        /\ \A u \in Thread : u # g => thread'[u] = thread[u]
    BY <1>0, <2>1, MoveTyped DEF Location
  <2>3. TypeOK'
    BY <1>0, <2>1, MoveTyped, StepTyped DEF TypeOK, Location, serverVars, leaseVars
  <2>4. Roles' /\ StartsAlone' /\ LatestLease'
    BY <1>0, <2>1, <2>2 DEF IInv, Roles, BeatAt, StartsAlone, LatestLease, Thread, leaseVars
  <2>5. NoOrphanServer'
    <3>1. SocketsOwned'
      BY <2>1, <2>2, SocketsKeepOwners DEF IInv
    <3> QED
      BY <1>0, <2>2, <3>1 DEF NoOrphanServer, SocketsOwned
  <2>6. LeaseHasOwner'
    <3>1. record \notin registered
      BY <1>2, <2>1 DEF IInv, LatestLease
    <3> QED
      BY <1>0, <2>1, <2>2, <3>1 DEF IInv, LeaseHasOwner, Thread, leaseVars
  <2>7. WatchedOrRaised'
    BY <2>1 DEF WatchedOrRaised
  <2> QED
    BY <2>3, <2>4, <2>5, <2>6, <2>7 DEF IInv
<1> QED
  BY <1>1, <1>2

(* expire with a lease that is lost already changes nothing in the registry. *)
LEMMA BeatExpiresKeepsInv ==
  ASSUME IInv, NEW g \in Beat, BeatExpires(g)
  PROVE  IInv'
<1>0. TypeOK /\ g \in Thread /\ g \notin Caller /\ g # NoLease
  BY Numbers, SMT DEF IInv, Thread, Beat, NoLease
<1>1. /\ thread[g].at = "expire"
      /\ thread' = [thread EXCEPT ![g].at = "take"]
      /\ UNCHANGED <<serverVars, stateVars, leaseVars>>
  BY DEF BeatExpires, Goto, leaseVars, IInv, LatestLease
<1>2. g # record
  BY <1>0, <1>1 DEF IInv, WatchedOrRaised
<1> QED
  BY <1>0, <1>1, <1>2, MoveKeepsInv DEF Location, BeatAt, Keeping

(* The registry loses a lease. *)
LEMMA LeaseLostKeepsInv ==
  ASSUME IInv, NEW l \in Lease, LeaseLost(l)
  PROVE  IInv'
<1>1. /\ registered' \subseteq registered
      /\ UNCHANGED <<serverVars, stateVars, thread, grants, abandoned>>
  BY DEF LeaseLost
<1>2. TypeOK'
  BY <1>1 DEF IInv, TypeOK, ServerTypeOK, Lease, serverVars, stateVars
<1>3. Roles' /\ StartsAlone' /\ LatestLease' /\ LeaseHasOwner' /\ WatchedOrRaised'
  BY <1>1 DEF IInv, Roles, StartsAlone, LatestLease, LeaseHasOwner, WatchedOrRaised, stateVars
<1>4. NoOrphanServer'
  BY <1>1 DEF IInv, NoOrphanServer, serverVars, stateVars
<1> QED
  BY <1>2, <1>3, <1>4 DEF IInv

-----------------------------------------------------------------------------
LEMMA NextKeepsInv == IInv /\ [Next]_vars => IInv'
<1> SUFFICES ASSUME IInv, [Next]_vars PROVE IInv'
  OBVIOUS
<1>1. ASSUME NEW c \in Caller, CallStart(c) \/ CallStop(c) \/ CallStep(c)
      PROVE  IInv'
  <2>1. c \in Thread
    BY DEF Thread
  <2> QED
    BY <1>1, <2>1, CallerMovesKeepInv, StartEnterKeepsInv, StartBindKeepsInv,
       StartBindRaisesKeepsInv, StartRegisterKeepsInv, StopEnterKeepsInv,
       StopUnregisterKeepsInv, AdapterTakeKeepsInv, AdapterCloseKeepsInv
       DEF CallStep
<1>2. ASSUME NEW g \in Beat, BeatStep(g)
      PROVE  IInv'
  <2>1. g \in Thread
    BY DEF Thread
  <2> QED
    BY <1>2, <2>1, BeatMovesKeepInv, BeatReadsKeepsInv, BeatLosesKeepsInv,
       BeatExpiresKeepsInv, AdapterTakeKeepsInv, AdapterCloseKeepsInv
       DEF BeatStep
<1>3. CASE UNCHANGED vars
  BY <1>3 DEF vars, serverVars, stateVars, leaseVars, IInv, TypeOK, ServerTypeOK, Lease,
     Roles, StartsAlone, LatestLease, NoOrphanServer, LeaseHasOwner, WatchedOrRaised
<1> QED
  BY <1>1, <1>2, <1>3, LeaseLostKeepsInv DEF Next

(* Callers and heartbeat threads are where their code says, with what it *)
(* says they have in hand.                                               *)
THEOREM InductiveInvariant == Spec => []IInv
  BY InitInv, NextKeepsInv, PTL DEF Spec

(* Every variable has its type: leases and servers are numbers issued. *)
THEOREM TypeCorrect == Spec => []TypeOK
<1>1. IInv => TypeOK
  BY DEF IInv
<1> QED
  BY <1>1, InductiveInvariant, PTL

(* Nothing serves on when nobody is left to stop it, through whatever       *)
(* starts, stops and lost leases (runtime.py 46-113, transport.py).         *)
THEOREM NoOrphanServerHolds == Spec => []NoOrphanServer
<1>1. IInv => NoOrphanServer
  BY DEF IInv
<1> QED
  BY <1>1, InductiveInvariant, PTL

(* A lease that stands is the runtime's record, or a stop is about to give *)
(* it back, unless the registry raised when it was given back.             *)
THEOREM LeaseHasOwnerHolds == Spec => []LeaseHasOwner
<1>1. IInv => LeaseHasOwner
  BY DEF IInv
<1> QED
  BY <1>1, InductiveInvariant, PTL

(* Only an exception of registry.heartbeat ends a thread where it stands. *)
NoneRaised == \A t \in Thread : thread[t].at # "raised"

LEMMA NextKeepsNoneRaised ==
  ASSUME "renew" \notin Faults, IInv, NoneRaised, [Next]_vars
  PROVE  NoneRaised'
<1>0. TypeOK /\ \A t \in Thread : thread[t] \in ThreadState
  BY ThreadTyped DEF IInv
<1>1. ASSUME NEW t \in Thread, NEW u \in Thread,
             CallStart(t) \/ CallStop(t) \/ CallStep(t) \/ BeatStep(t)
      PROVE  thread'[u].at # "raised"
  <2> USE <1>0 DEF NoneRaised, TypeOK, ThreadState, Goto, Return, At, Thread
  <2>1. CASE CallStart(t) \/ CallStop(t)
    BY <2>1 DEF CallStart, CallStop
  <2>2. CASE StartEnter(t) \/ StartBind(t) \/ StartBindRaises(t) \/ StartPing(t)
    BY <2>2 DEF StartEnter, StartBind, StartBindRaises, StartPing
  <2>3. CASE StartPingFails(t) \/ StartRegister(t) \/ StartRegisterRaises(t)
    BY <2>3 DEF StartPingFails, StartRegister, StartRegisterRaises
  <2>4. CASE StopEnter(t) \/ StopUnregister(t) \/ AdapterTake(t) \/ AdapterClose(t)
    BY <2>4 DEF StopEnter, StopUnregister, AdapterTake, AdapterClose
  <2>5. CASE BeatWakes(t) \/ BeatReads(t) \/ BeatRenews(t) \/ BeatLoses(t)
             \/ BeatExpires(t)
    BY <1>1, <2>5 DEF BeatWakes, BeatReads, BeatRenews, BeatLoses, BeatExpires
  <2> QED
    BY <1>1, <2>1, <2>2, <2>3, <2>4, <2>5 DEF CallStep, BeatStep
<1>2. ASSUME NEW l \in Lease, LeaseLost(l)
      PROVE  NoneRaised'
  BY <1>2 DEF LeaseLost, NoneRaised
<1>3. CASE UNCHANGED vars
  BY <1>3 DEF vars, NoneRaised
<1> QED
  BY <1>1, <1>2, <1>3 DEF Next, NoneRaised, Thread

(* "Renew the lease until shutdown or ownership loss": unless the registry  *)
(* raises, the heartbeat thread of the start that got the record is alive   *)
(* and not told to stop, over any number of restarts (runtime.py 90-107).   *)
THEOREM WatchedHolds ==
  ASSUME "renew" \notin Faults
  PROVE  Spec => []Watched
<1>1. Init => NoneRaised
  BY DEF Init, NoneRaised, At, Thread
<1>2. IInv /\ NoneRaised /\ [Next]_vars => NoneRaised'
  BY NextKeepsNoneRaised
<1>3. IInv /\ NoneRaised => Watched
  <2> SUFFICES ASSUME IInv, NoneRaised, record # NoLease
               PROVE  ~stopping /\ thread[record].at \in {"wait", "read", "renew", "lost"}
    BY DEF Watched
  <2>1. record \in Thread
    BY Numbers DEF IInv, TypeOK, Thread, NoLease
  <2> QED
    BY <2>1 DEF IInv, WatchedOrRaised, NoneRaised
<1> QED
  BY <1>1, <1>2, <1>3, InductiveInvariant, PTL DEF Spec

-----------------------------------------------------------------------------
(* One thread of the host that starts and stops in turn, and a registry     *)
(* that neither loses a lease nor refuses to take one back.                 *)
Quiet ==
  /\ \A c, d \in Caller : c = d
  /\ Faults \cap {"lease", "unregister"} = {}

(* Then the adapter's server is open as long as it is its server, every     *)
(* lease that stands is for it, no heartbeat thread ever stops it, and who  *)
(* does has withdrawn the record first.                                     *)
Sole ==
  /\ abandoned = {}
  /\ record # NoLease => record \in registered
  /\ server # NoServer => server \in listening
  /\ \A l \in registered : grants[l] = server
  /\ \A g \in Beat : thread[g].at \notin {"expire", "take", "close"}
  /\ \A c \in Caller :
       /\ thread[c].at \in {"unregister", "take", "close"} => record = NoLease
       /\ thread[c].at = "close" => server = NoServer
       /\ thread[c].at \in {"ping", "register"} => thread[c].server = server

(* Without a record, no lease stands but the one a stop is giving back. *)
LEMMA NoneRegistered ==
  ASSUME Quiet, IInv, Sole, NEW c \in Caller, thread[c].at # "unregister",
         record = NoLease
  PROVE  registered = {}
<1> SUFFICES ASSUME NEW l \in registered PROVE FALSE
  OBVIOUS
<1>1. l # NoLease
  BY SMT DEF IInv, TypeOK, Lease, NoLease
<1>2. \A d \in Caller : d = c
  BY DEF Quiet
<1> QED
  BY <1>1, <1>2 DEF IInv, LeaseHasOwner, Sole

(* The steps of a caller, which is the only one. *)
LEMMA CallKeepsSole ==
  ASSUME Quiet, IInv, Sole, NEW c \in Caller, CallStart(c) \/ CallStop(c) \/ CallStep(c)
  PROVE  Sole'
<1>0. /\ TypeOK /\ c \in Thread /\ c \notin Beat
      /\ \A d \in Caller : d = c
  BY Numbers DEF IInv, Thread, Quiet
<1>1. ASSUME NEW to \in Location, thread' = [thread EXCEPT ![c].at = to],
             UNCHANGED <<serverVars, record, leaseVars>>,
             to \in {"unregister", "take", "close"} => record = NoLease,
             to # "close",
             to \in {"ping", "register"} => thread[c].at \in {"ping", "register"}
      PROVE  Sole'
  <2>1. /\ thread'[c].at = to /\ thread'[c].server = thread[c].server
        /\ \A u \in Thread : u # c => thread'[u] = thread[u]
    BY <1>0, <1>1, MoveTyped
  <2>2. \A g \in Beat : thread'[g] = thread[g]
    BY <1>0, <2>1 DEF Thread
  <2> QED
    BY <1>0, <1>1, <2>1, <2>2 DEF Sole, serverVars, leaseVars
<1>2. CASE CallStart(c) \/ CallStop(c) \/ StartEnter(c) \/ StartPing(c)
  BY <1>1, <1>2 DEF CallStart, CallStop, StartEnter, StartPing, Goto, Location, stateVars
<1>3. CASE StartPingFails(c) \/ StartRegisterRaises(c)
  <2>1. record = NoLease
    BY <1>3, RuntimeAssumption
       DEF IInv, StartsAlone, StartPingFails, StartRegisterRaises, Goto
  <2> QED
    BY <1>1, <1>3, <2>1
       DEF StartPingFails, StartRegisterRaises, Goto, Location, stateVars
<1>4. CASE StartBind(c)
  <2>1. PICK n \in 1..MaxBound :
          /\ ServerStart(n)
          /\ thread' = [thread EXCEPT ![c].at = "ping", ![c].server = n]
    BY <1>4 DEF StartBind
  <2>2. UNCHANGED <<stateVars, leaseVars>> /\ thread[c].at = "bind"
    BY <1>4 DEF StartBind
  <2>3. /\ server' = n /\ n \in listening'
        /\ record = NoLease /\ registered = {}
    <3>1. record = NoLease
      BY <2>2, RuntimeAssumption DEF IInv, StartsAlone
    <3>2. registered = {}
      BY <2>2, <3>1, NoneRegistered
    <3> QED
      BY <2>1, <3>1, <3>2 DEF ServerStart, serverVars, Sole
  <2> DEFINE s == [thread[c] EXCEPT !.at = "ping", !.server = n]
  <2>4. thread'[c] = s /\ \A u \in Thread : u # c => thread'[u] = thread[u]
    <3>1. thread' = [thread EXCEPT ![c] = s]
      BY <2>1
    <3> QED
      BY <1>0, <3>1, SetTyped
  <2>5. s.at = "ping" /\ s.server = n
    BY <1>0, ThreadTyped DEF ThreadState
  <2>6. \A g \in Beat : thread'[g] = thread[g]
    BY <1>0, <2>4 DEF Thread
  <2> QED
    BY <1>0, <2>2, <2>3, <2>4, <2>5, <2>6 DEF Sole, stateVars, leaseVars
<1>5. ASSUME thread' = [thread EXCEPT ![c] = At("idle")], server' = server,
             server # NoServer => server \in listening',
             UNCHANGED <<record, leaseVars>>
      PROVE  Sole'
  <2>1. At("idle").at = "idle"
    BY SMT DEF At
  <2>2. thread'[c] = At("idle") /\ \A g \in Beat : thread'[g] = thread[g]
    BY <1>0, <1>5, SetTyped DEF Thread
  <2> QED
    BY <1>0, <1>5, <2>1, <2>2 DEF Sole, leaseVars
<1>6. CASE StartBindRaises(c)
  BY <1>5, <1>6 DEF StartBindRaises, Return, serverVars, Sole
<1>7. CASE AdapterClose(c)
  <2>1. server = NoServer
    BY <1>7 DEF AdapterClose, Sole
  <2> QED
    BY <1>5, <1>7, <2>1 DEF AdapterClose, ServerClose, Return
<1>8. CASE StartRegister(c)
  <2> DEFINE l == Len(grants) + 1
             n == thread[c].server
  <2>1. record = NoLease /\ registered = {} /\ n = server
    <3>1. record = NoLease /\ thread[c].at = "register"
      BY <1>8, RuntimeAssumption DEF IInv, StartsAlone, StartRegister
    <3> QED
      BY <3>1, NoneRegistered DEF Sole
  <2>2. /\ grants' = Append(grants, n)
        /\ registered' = registered \cup {l}
        /\ record' = l
        /\ thread' = [thread EXCEPT ![c] = At("idle"), ![l] = At("wait")]
        /\ UNCHANGED <<serverVars, abandoned>>
    BY <1>8 DEF StartRegister
  <2>3. grants'[l] = server /\ l \in Beat
    <3>1. grants \in Seq(1..bound) /\ n \in 1..bound
      <4>1. n # NoServer
        BY <1>8 DEF IInv, StartsAlone, StartRegister
      <4> QED
        BY <1>0, <4>1, ThreadTyped, Numbers, SMT DEF TypeOK, NoServer
    <3>2. grants'[l] = n
      BY <2>2, <3>1, SMT
    <3>3. Len(grants) < MaxLease
      BY <1>8 DEF StartRegister
    <3> QED
      BY <1>0, <2>1, <3>2, <3>3, Numbers, SMT DEF Beat
  <2>4. /\ At("idle").at = "idle" /\ At("wait").at = "wait"
        /\ thread'[c] = At("idle")
        /\ \A g \in Beat : thread'[g] = IF g = l THEN At("wait") ELSE thread[g]
    <3>1. At("idle").at = "idle" /\ At("wait").at = "wait"
      BY SMT DEF At
    <3>2. l \in Thread /\ l # c
      BY <1>0, <2>3 DEF Thread
    <3> HIDE DEF l
    <3> QED
      BY <1>0, <2>2, <3>1, <3>2 DEF TypeOK, Thread
  <2> HIDE DEF l, n
  <2> QED
    BY <1>0, <2>1, <2>2, <2>3, <2>4 DEF Sole, serverVars
<1>9. CASE StopEnter(c)
  <2> DEFINE s == [thread[c] EXCEPT !.at = "unregister", !.lease = record]
  <2>1. /\ thread' = [thread EXCEPT ![c] = s]
        /\ record' = NoLease
        /\ UNCHANGED <<serverVars, leaseVars>>
    BY <1>9 DEF StopEnter
  <2>2. s.at = "unregister"
    BY <1>0, ThreadTyped DEF ThreadState
  <2>3. thread'[c] = s /\ \A g \in Beat : thread'[g] = thread[g]
    BY <1>0, <2>1, SetTyped DEF Thread
  <2> QED
    BY <1>0, <2>1, <2>2, <2>3 DEF Sole, serverVars, leaseVars
<1>10. CASE StopUnregister(c)
  <2>1. /\ thread[c].at = "unregister"
        /\ thread' = [thread EXCEPT ![c].at = "take"]
        /\ registered' \subseteq registered
        /\ UNCHANGED <<serverVars, stateVars, grants, abandoned>>
    BY <1>10 DEF StopUnregister, Goto, Quiet
  <2>2. thread'[c].at = "take" /\ \A g \in Beat : thread'[g] = thread[g]
    BY <1>0, <2>1, MoveTyped DEF Location, Thread
  <2> QED
    BY <1>0, <2>1, <2>2 DEF Sole, serverVars, stateVars
<1>11. CASE AdapterTake(c)
  <2> DEFINE s == [thread[c] EXCEPT !.at = "close", !.server = server]
  <2>1. /\ thread[c].at = "take"
        /\ thread' = [thread EXCEPT ![c] = s]
        /\ server' = NoServer
        /\ UNCHANGED <<stateVars, leaseVars>>
    BY <1>11 DEF AdapterTake, ServerTake
  <2>2. record = NoLease /\ registered = {}
    <3>1. record = NoLease
      BY <2>1 DEF Sole
    <3> QED
      BY <2>1, <3>1, NoneRegistered
  <2>3. s.at = "close"
    BY <1>0, ThreadTyped DEF ThreadState
  <2>4. thread'[c] = s /\ \A g \in Beat : thread'[g] = thread[g]
    BY <1>0, <2>1, SetTyped DEF Thread
  <2> QED
    BY <1>0, <2>1, <2>2, <2>3, <2>4 DEF Sole, stateVars, leaseVars
<1> QED
  BY <1>2, <1>3, <1>4, <1>6, <1>7, <1>8, <1>9, <1>10, <1>11 DEF CallStep

(* The steps of a heartbeat thread: its record is never refused. *)
LEMMA BeatKeepsSole ==
  ASSUME Quiet, IInv, Sole, NEW g \in Beat, BeatStep(g)
  PROVE  Sole'
<1>0. TypeOK /\ g \in Thread /\ g \notin Caller
  BY Numbers DEF IInv, Thread
<1>1. ASSUME NEW s, thread' = [thread EXCEPT ![g] = s],
             s.at \notin {"expire", "take", "close"},
             UNCHANGED <<serverVars, record, leaseVars>>
      PROVE  Sole'
  <2>1. thread'[g] = s /\ \A u \in Thread : u # g => thread'[u] = thread[u]
    BY <1>0, <1>1, SetTyped
  <2> QED
    BY <1>0, <1>1, <2>1 DEF Sole, Thread, serverVars, leaseVars
<1>2. ASSUME NEW to \in Location, thread' = [thread EXCEPT ![g].at = to],
             to \notin {"expire", "take", "close"},
             UNCHANGED <<serverVars, record, leaseVars>>
      PROVE  Sole'
  <2>1. /\ thread' = [thread EXCEPT ![g] = [thread[g] EXCEPT !.at = to]]
        /\ [thread[g] EXCEPT !.at = to].at = to
    BY <1>0, <1>2, MoveTyped, ThreadTyped DEF ThreadState
  <2> QED
    BY <1>1, <1>2, <2>1
<1>3. CASE BeatWakes(g) \/ BeatRenews(g)
  BY <1>2, <1>3 DEF BeatWakes, BeatRenews, Goto, Location, stateVars
<1>4. CASE BeatReads(g)
  <2> DEFINE to == IF record = NoLease THEN "ended" ELSE "renew"
             s == [thread[g] EXCEPT !.at = to, !.lease = record]
  <2>1. thread' = [thread EXCEPT ![g] = s] /\ UNCHANGED <<serverVars, stateVars, leaseVars>>
    BY <1>4 DEF BeatReads
  <2>2. s.at = to
    BY <1>0, ThreadTyped DEF ThreadState
  <2>3. s.at \notin {"expire", "take", "close"}
    BY <2>2
  <2> HIDE DEF s
  <2> QED
    BY <1>1, <2>1, <2>3 DEF stateVars
<1>5. CASE BeatLoses(g)
  <2>1. thread[g].at = "lost" /\ thread[g].lease \notin registered
    BY <1>5 DEF BeatLoses, Goto, IInv, LatestLease
  <2>2. thread[g].lease # NoLease
    BY <1>0, <2>1, ThreadTyped, SMT DEF IInv, LatestLease, Beat, NoLease
  <2>3. record # thread[g].lease
    BY <2>1, <2>2 DEF Sole
  <2> QED
    BY <1>2, <1>5, <2>3 DEF BeatLoses, Goto, Location
<1>6. ~BeatExpires(g) /\ ~AdapterTake(g) /\ ~AdapterClose(g)
  BY DEF Sole, BeatExpires, AdapterTake, AdapterClose, Goto
<1> QED
  BY <1>3, <1>4, <1>5, <1>6 DEF BeatStep

LEMMA NextKeepsSole ==
  ASSUME Quiet, IInv, Sole, [Next]_vars
  PROVE  Sole'
<1>1. CASE UNCHANGED vars
  BY <1>1 DEF vars, serverVars, stateVars, leaseVars, Sole
<1>2. \A l \in Lease : ~LeaseLost(l)
  BY DEF Quiet, LeaseLost
<1> QED
  BY <1>1, <1>2, CallKeepsSole, BeatKeepsSole DEF Next

(* "Release the lease, then stop the adapter": with one thread that starts  *)
(* and stops, whatever fails to bind, to register or to renew, a lease that *)
(* stands publishes an endpoint that listens.  What can leave a dead        *)
(* endpoint published is a second thread, a lease lost before its heartbeat *)
(* thread notices, or an unregister that raises (runtime.py 46-113).        *)
THEOREM PublishedIsServedHolds ==
  ASSUME Quiet
  PROVE  Spec => []PublishedIsServed
<1>1. Init => Sole
  <2> SUFFICES ASSUME Init PROVE Sole
    OBVIOUS
  <2>1. IInv
    BY InitInv
  <2>2. \A t \in Thread : thread[t] = At(IF t \in Caller THEN "idle" ELSE "unborn")
    BY DEF Init
  <2>3. At("idle").at = "idle" /\ At("unborn").at = "unborn"
    BY SMT DEF At
  <2>4. /\ \A c \in Caller : thread[c].at = "idle"
        /\ \A g \in Beat : thread[g].at = "unborn"
    BY <2>1, <2>2, <2>3, Numbers DEF IInv, Thread
  <2> QED
    BY <2>4 DEF Init, ServerInit, Sole
<1>2. IInv /\ Sole /\ [Next]_vars => Sole'
  BY NextKeepsSole
<1>3. IInv /\ Sole => PublishedIsServed
  <2> SUFFICES ASSUME IInv, Sole, NEW l \in registered PROVE grants[l] \in listening
    BY DEF PublishedIsServed
  <2>1. grants[l] \in 1..bound
    <3>1. grants \in Seq(1..bound) /\ l \in 1..Len(grants)
      BY DEF IInv, TypeOK, Lease
    <3> QED
      BY <3>1, ElementOfSeq
  <2>2. server # NoServer
    <3>1. grants[l] = server /\ bound \in Nat
      BY Numbers DEF Sole, IInv
    <3> QED
      BY <2>1, <3>1, SMT DEF NoServer
  <2> QED
    BY <2>2 DEF Sole
<1> QED
  BY <1>1, <1>2, <1>3, InductiveInvariant, PTL DEF Spec
=============================================================================
