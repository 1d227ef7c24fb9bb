------------------------------ MODULE Runtime ------------------------------
(***************************************************************************)
(* src/local_runtime/runtime.py, MultiModeRuntime, with the adapter that   *)
(* the package has, gui.py's GuiAdapter over transport.py's LocalMcpServer. *)
(*                                                                         *)
(* `start` holds `_lock` from its first line to its last, adapter.start    *)
(* and registry.register included.  `stop` and the heartbeat threads hold  *)
(* it for single blocks and call the registry and adapter.stop outside.    *)
(* Every start that succeeds leaves a daemon thread of its own behind, all *)
(* of them share the event `_stop`.                                        *)
(*                                                                         *)
(* The registry is the set of leases that stand: its methods are one step  *)
(* (Registry, FileLock) and a lease is never issued twice.                 *)
(*                                                                         *)
(* Faults says what may go wrong around it:                                *)
(*   "bind"        LocalMcpServer.start raises                             *)
(*   "register", "renew", "unregister"   that registry method raises       *)
(*   "lease"       a lease is lost (cleaned up, or the file damaged)       *)
(***************************************************************************)
EXTENDS McpServer, Sequences

CONSTANTS
  Caller,      (* threads of the host that call start and stop              *)
  MainThread,  (* those on which the execution gate runs every handler;     *)
               (* none when the gate is _direct_execution                   *)
  NoCaller,
  Faults,
  MaxLease     (* bound of the model: leases issued; then register raises   *)

ASSUME RuntimeAssumption ==
  /\ MainThread \subseteq Caller
  /\ NoCaller \notin Caller
  /\ Caller \cap Nat = {}
  /\ MaxLease \in Nat
  /\ Faults \subseteq {"bind", "register", "renew", "unregister", "lease"}

VARIABLES
  lock,        (* the start call that holds `_lock`                         *)
  record,      (* the lease in `record`                                     *)
  stopping,    (* the event `_stop`                                         *)
  thread,      (* where each caller and each heartbeat thread is            *)
  grants,      (* grants[l] is the server whose endpoint lease l publishes  *)
  registered,  (* the leases that stand in the registry                     *)
  abandoned    (* history: the leases whose unregister raised               *)

stateVars == <<lock, record, stopping>>
leaseVars == <<grants, registered, abandoned>>
vars == <<serverVars, stateVars, thread, leaseVars>>

NoLease == 0
Lease == 1..Len(grants)

(* The heartbeat thread of the start that got lease l has the number l. *)
Beat == 1..MaxLease
Thread == Caller \cup Beat

At(place) == [at |-> place, lease |-> NoLease, server |-> NoServer]

Location == {"idle", "start", "bind", "ping", "register", "stop", "unregister",
             "unborn", "wait", "read", "renew", "lost", "expire", "ended", "raised",
             "take", "close"}

TypeOK ==
  /\ ServerTypeOK
  /\ lock \in Caller \cup {NoCaller}
  /\ grants \in Seq(1..bound)
  /\ Len(grants) <= MaxLease
  /\ record \in Lease \cup {NoLease}
  /\ stopping \in BOOLEAN
  /\ thread \in [Thread -> [at : Location, lease : Lease \cup {NoLease},
                            server : 0..bound]]
  /\ registered \subseteq Lease
  /\ abandoned \subseteq Lease

Init ==
  /\ ServerInit
  /\ lock = NoCaller
  /\ record = NoLease
  /\ stopping = FALSE
  /\ thread = [t \in Thread |-> At(IF t \in Caller THEN "idle" ELSE "unborn")]
  /\ grants = <<>>
  /\ registered = {}
  /\ abandoned = {}

Goto(t, from, to) ==
  /\ thread[t].at = from
  /\ thread' = [thread EXCEPT ![t].at = to]

(* Thread t is done with its call, and with `_lock` if it was its own. *)
Return(t) ==
  /\ thread' = [thread EXCEPT ![t] = At(IF t \in Caller THEN "idle" ELSE "ended")]
  /\ lock' = IF lock = t THEN NoCaller ELSE lock

-----------------------------------------------------------------------------
(* start *)

CallStart(c) ==
  /\ bound < MaxBound
  /\ Len(grants) < MaxLease
  /\ Goto(c, "idle", "start")
  /\ UNCHANGED <<serverVars, stateVars, leaseVars>>

(* A start that does not look whether the runtime is running. *)
StartAgain(c) ==
  /\ lock = NoCaller
  /\ Goto(c, "start", "bind")
  /\ lock' = c
  /\ UNCHANGED <<serverVars, record, stopping, leaseVars>>

(* `with self._lock`: a running runtime returns its record. *)
StartEnter(c) ==
  /\ lock = NoCaller
  /\ IF record # NoLease
     THEN Goto(c, "start", "idle") /\ UNCHANGED lock
     ELSE Goto(c, "start", "bind") /\ lock' = c
  /\ UNCHANGED <<serverVars, record, stopping, leaseVars>>

(* GuiAdapter.start: LocalMcpServer.start, *)
StartBind(c) ==
  /\ thread[c].at = "bind"
  /\ \E n \in 1..MaxBound :
       /\ ServerStart(n)
       /\ thread' = [thread EXCEPT ![c].at = "ping", ![c].server = n]
  /\ UNCHANGED <<stateVars, leaseVars>>

(* unless a new one cannot be bound; *)
StartBindRaises(c) ==
  /\ "bind" \in Faults \/ bound = MaxBound
  /\ thread[c].at = "bind"
  /\ server = NoServer
  /\ Return(c)
  /\ UNCHANGED <<serverVars, record, stopping, leaseVars>>

(* then a ping of the endpoint.  The execution gate runs its handler when *)
(* the host's main thread is free.                                        *)
StartPing(c) ==
  /\ thread[c].server \in listening
  /\ \A m \in MainThread : thread[m].at = "idle"
  /\ Goto(c, "ping", "register")
  /\ UNCHANGED <<serverVars, stateVars, leaseVars>>

(* A ping that fails and leaves the server to itself. *)
StartPingForgets(c) ==
  /\ thread[c].at = "ping"
  /\ Return(c)
  /\ UNCHANGED <<serverVars, record, stopping, leaseVars>>

(* The ping fails, or its two seconds pass: the server is stopped again. *)
StartPingFails(c) ==
  /\ Goto(c, "ping", "take")
  /\ UNCHANGED <<serverVars, stateVars, leaseVars>>

(* A start that keeps the endpoint's number where it needs the lease. *)
StartKeepsEndpoint(c) ==
  /\ thread[c].at = "register"
  /\ Len(grants) < MaxLease
  /\ grants' = Append(grants, thread[c].server)
  /\ LET l == Len(grants) + 1
     IN /\ registered' = registered \cup {l}
        /\ record' = thread[c].server
        /\ thread' = [thread EXCEPT ![c] = At("idle"), ![l] = At("wait")]
  /\ stopping' = FALSE
  /\ lock' = NoCaller
  /\ UNCHANGED <<serverVars, abandoned>>

(* The endpoint is registered, `_stop` is cleared and a heartbeat thread  *)
(* started; of this only the registry and the event are seen before       *)
(* `_lock` is released, and by threads that would not act on it.          *)
StartRegister(c) ==
  /\ thread[c].at = "register"
  /\ Len(grants) < MaxLease
  /\ grants' = Append(grants, thread[c].server)
  /\ LET l == Len(grants) + 1
     IN /\ registered' = registered \cup {l}
        /\ record' = l
        /\ thread' = [thread EXCEPT ![c] = At("idle"), ![l] = At("wait")]
  /\ stopping' = FALSE
  /\ lock' = NoCaller
  /\ UNCHANGED <<serverVars, abandoned>>

(* register raises: the adapter is stopped. *)
StartRegisterRaises(c) ==
  /\ "register" \in Faults \/ Len(grants) = MaxLease
  /\ Goto(c, "register", "take")
  /\ UNCHANGED <<serverVars, stateVars, leaseVars>>

-----------------------------------------------------------------------------
(* stop *)

CallStop(c) ==
  /\ Goto(c, "idle", "stop")
  /\ UNCHANGED <<serverVars, stateVars, leaseVars>>

(* A stop that joins the heartbeat thread before it tells it to end. *)
StopJoinsFirst(c) ==
  /\ lock = NoCaller
  /\ thread[c].at = "stop"
  /\ record # NoLease => thread[record].at \in {"ended", "raised"}
  /\ thread' = [thread EXCEPT ![c].at = "unregister", ![c].lease = record]
  /\ record' = NoLease
  /\ stopping' = TRUE
  /\ UNCHANGED <<serverVars, lock, leaseVars>>

(* The lock block; the join of the heartbeat thread that follows it ends   *)
(* with the thread or after two seconds, which is to say at any time.      *)
StopEnter(c) ==
  /\ lock = NoCaller
  /\ thread[c].at = "stop"
  /\ thread' = [thread EXCEPT ![c].at = "unregister", ![c].lease = record]
  /\ record' = NoLease
  /\ stopping' = TRUE
  /\ UNCHANGED <<serverVars, lock, leaseVars>>

(* The lease, if there was one, is given back; an exception is kept for *)
(* later.                                                               *)
StopUnregister(c) ==
  /\ Goto(c, "unregister", "take")
  /\ \/ /\ registered' = registered \ {thread[c].lease}
        /\ UNCHANGED abandoned
     \/ /\ "unregister" \in Faults
        /\ thread[c].lease # NoLease
        /\ abandoned' = abandoned \cup {thread[c].lease}
        /\ UNCHANGED registered
  /\ UNCHANGED <<serverVars, stateVars, grants>>

(* adapter.stop, in a stop, a start that failed or a heartbeat thread. *)
AdapterTake(t) ==
  /\ thread[t].at = "take"
  /\ ServerTake
  /\ thread' = [thread EXCEPT ![t].at = "close", ![t].server = server]
  /\ UNCHANGED <<stateVars, leaseVars>>

AdapterClose(t) ==
  /\ thread[t].at = "close"
  /\ ServerClose(thread[t].server)
  /\ Return(t)
  /\ UNCHANGED <<record, stopping, leaseVars>>

-----------------------------------------------------------------------------
(* _heartbeat_loop *)

(* The interval passes, or the event is set by then. *)
BeatWakes(g) ==
  /\ Goto(g, "wait", IF stopping THEN "ended" ELSE "read")
  /\ UNCHANGED <<serverVars, stateVars, leaseVars>>

(* The record is read in a lock block. *)
BeatReads(g) ==
  /\ lock = NoCaller
  /\ thread[g].at = "read"
  /\ thread' = [thread EXCEPT ![g].at = IF record = NoLease THEN "ended" ELSE "renew",
                              ![g].lease = record]
  /\ UNCHANGED <<serverVars, stateVars, leaseVars>>

(* registry.heartbeat: renewed, refused, or an exception, which ends the *)
(* thread and nothing else.                                              *)
BeatRenews(g) ==
  /\ \/ thread[g].lease \in registered /\ Goto(g, "renew", "wait")
     \/ thread[g].lease \notin registered /\ Goto(g, "renew", "lost")
     \/ "renew" \in Faults /\ Goto(g, "renew", "raised")
  /\ UNCHANGED <<serverVars, stateVars, leaseVars>>

(* A thread that withdraws the record and leaves the rest to a stop. *)
BeatOnlyForgets(g) ==
  /\ lock = NoCaller
  /\ record' = IF record = thread[g].lease THEN NoLease ELSE record
  /\ stopping' = (stopping \/ record = thread[g].lease)
  /\ Goto(g, "lost", "ended")
  /\ UNCHANGED <<serverVars, lock, leaseVars>>

(* The lease is lost: if the record is still the one refused, it goes. *)
BeatLoses(g) ==
  /\ lock = NoCaller
  /\ IF record # thread[g].lease
     THEN Goto(g, "lost", "ended") /\ UNCHANGED <<record, stopping>>
     ELSE Goto(g, "lost", "expire") /\ record' = NoLease /\ stopping' = TRUE
  /\ UNCHANGED <<serverVars, lock, leaseVars>>

(* expire with the lost lease, its exceptions suppressed. *)
BeatExpires(g) ==
  /\ Goto(g, "expire", "take")
  /\ registered' = registered \ {thread[g].lease}
  /\ UNCHANGED <<serverVars, stateVars, grants, abandoned>>

LeaseLost(l) ==
  /\ "lease" \in Faults
  /\ l \in registered
  /\ registered' = registered \ {l}
  /\ UNCHANGED <<serverVars, stateVars, thread, grants, abandoned>>

-----------------------------------------------------------------------------
(* What a thread does once it was called or started. *)
CallStep(c) ==
  \/ StartEnter(c) \/ StartBind(c) \/ StartBindRaises(c) \/ StartPing(c)
  \/ StartPingFails(c) \/ StartRegister(c) \/ StartRegisterRaises(c)
  \/ StopEnter(c) \/ StopUnregister(c) \/ AdapterTake(c) \/ AdapterClose(c)

BeatStep(g) ==
  \/ BeatWakes(g) \/ BeatReads(g) \/ BeatRenews(g) \/ BeatLoses(g) \/ BeatExpires(g)
  \/ AdapterTake(g) \/ AdapterClose(g)

Next ==
  \/ \E c \in Caller : CallStart(c) \/ CallStop(c) \/ CallStep(c)
  \/ \E g \in Beat : BeatStep(g)
  \/ \E l \in Lease : LeaseLost(l)

Spec == Init /\ [][Next]_vars

(* The interpreter runs every thread and every wait has a timeout; nobody  *)
(* has to call.  Weak fairness gets a thread through `_lock`, since the    *)
(* bounds also limit how often a start takes it.                           *)
Fairness ==
  /\ \A c \in Caller : WF_vars(CallStep(c))
  /\ \A g \in Beat : WF_vars(BeatStep(g))

FairSpec == Spec /\ Fairness

-----------------------------------------------------------------------------
(* Nothing serves on when nobody is left to stop it: a socket that listens *)
(* is the adapter's, or in the hands of the thread about to close it, and  *)
(* the adapter has one only while the runtime has a record or some thread  *)
(* is on its way to give it one or to stop it.                             *)
NoOrphanServer ==
  /\ \A n \in listening :
       n = server \/ \E t \in Thread : thread[t].at = "close" /\ thread[t].server = n
  /\ server # NoServer =>
       \/ record # NoLease
       \/ \E t \in Thread :
            thread[t].at \in {"ping", "register", "unregister", "expire", "take"}

(* No lease outlives the runtime's interest in it: one that stands is the  *)
(* runtime's record, or a stop is about to give it back, or has raised     *)
(* because the registry would not take it.                                 *)
LeaseHasOwner ==
  \A l \in registered \ abandoned :
    \/ l = record
    \/ \E c \in Caller : thread[c].at = "unregister" /\ thread[c].lease = l

(* "Renew the lease until shutdown or ownership loss": while the runtime   *)
(* has a record, after however many restarts, the thread of the start that *)
(* got it is alive and not told to stop.  An exception of the registry's   *)
(* heartbeat breaks this (runtime.py 97).                                  *)
Watched ==
  record # NoLease =>
    /\ ~stopping
    /\ thread[record].at \in {"wait", "read", "renew", "lost"}

(* When a lease is lost, what it published goes down: the heartbeat thread *)
(* or a stop sees to it, whatever the registry's other methods do.  When   *)
(* its heartbeat raises and ends that thread, nobody does: it is Watched   *)
(* that is broken then, and this is not promised.                          *)
LostLeaseStops ==
  \A l \in Beat :
    record = l /\ l \notin registered ~>
      \/ l \in Lease /\ grants[l] \notin listening
      \/ thread[l].at = "raised"

(* Every start and every stop returns: also when the gate needs the very   *)
(* thread that calls, and when they wait for one another.                  *)
CallsReturn == \A c \in Caller : thread[c].at # "idle" ~> thread[c].at = "idle"

(* "Start the adapter, publish it only after it reports ready" and "release *)
(* the lease, then stop the adapter": a lease that stands publishes an      *)
(* endpoint that listens.                                                   *)
PublishedIsServed == \A l \in registered : grants[l] \in listening
=============================================================================
