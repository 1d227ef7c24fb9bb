------------------------------ MODULE Headless ------------------------------
(***************************************************************************)
(* src/local_runtime/headless.py: HeadlessSessionManager.  Any number of   *)
(* threads call open and close, one thread calls close_all, and the        *)
(* manager's own daemon thread renews leases.  They share `_processes` and *)
(* `_closed` under `_lock`; every `with self._lock` block is one step,     *)
(* since nobody else can look at what it guards before it ends.  What      *)
(* happens between two blocks is a step of its own.                        *)
(*                                                                         *)
(* The registry is seen from here as a table from session ids to leases;   *)
(* Registry.tla models it.  A worker is registered at most once, so the    *)
(* lease of a worker is named by the worker.                               *)
(*                                                                         *)
(* Faults says what may go wrong around the manager:                       *)
(*   "crash"      a worker exits by itself                                 *)
(*   "lease"      a lease is lost (a cleanup elsewhere, a damaged file)    *)
(*   "registry"   a registry method raises (FileLockTimeoutError, OSError) *)
(*   "terminate"  a worker survives kill() for five seconds and _terminate *)
(*                raises TimeoutExpired                                    *)
(*   "probe"      the readiness probe raises instead of returning False    *)
(*   "reuse"      a session id is drawn again after its record is gone     *)
(***************************************************************************)
EXTENDS Naturals, FiniteSets

CONSTANTS
  Worker,      (* worker processes                                          *)
  SessionId,   (* ids the registry may give out                             *)
  Opener,      (* threads that call open                                    *)
  Closer,      (* threads that call close                                   *)
  Shutdown,    (* the thread that calls close_all                           *)
  None,        (* Python's None                                             *)
  Faults

ASSUME HeadlessAssumption ==
  /\ Faults \subseteq {"crash", "lease", "registry", "terminate", "probe", "reuse"}
  /\ None \notin Worker \cup SessionId
  /\ Shutdown \notin Closer

Taker == Closer \cup {Shutdown}

VARIABLES
  process,     (* process[w]: "unborn", "running", "exited" or "killed"     *)
  opening,     (* opening[o]: where an open call is, and its worker         *)
  closing,     (* closing[c]: where a close call is, its session and worker *)
  remaining,   (* the session ids close_all has yet to close                *)
  beating,     (* where _heartbeat_loop is, its session, lease and worker   *)
  leases,      (* what is left of the tuple the loop iterates over          *)
  processes,   (* `_processes`: the worker, and lease, of a session id      *)
  closed,      (* `_closed`, set together with `_heartbeat_stop`            *)
  registered,  (* registered[s]: the lease that holds s in the registry     *)
  drawn        (* the session ids given out so far                          *)

vars == <<process, opening, closing, remaining, beating, leases, processes,
          closed, registered, drawn>>

TypeOK ==
  /\ process \in [Worker -> {"unborn", "running", "exited", "killed"}]
  /\ opening \in [Opener -> [at : {"idle", "launch", "handshake", "probe",
                                   "register", "discard"},
                             worker : Worker \cup {None}]]
  /\ closing \in [Taker -> [at : {"idle", "join", "loop", "terminate",
                                  "unregister", "done", "raised"},
                            sid : SessionId \cup {None},
                            worker : Worker \cup {None}]]
  /\ remaining \subseteq SessionId
  /\ beating \in [at : {"wait", "list", "beat", "pop", "expire", "terminate", "ended", "raised"},
                  sid : SessionId \cup {None},
                  lease : Worker \cup {None},
                  worker : Worker \cup {None}]
  /\ leases \subseteq SessionId \X Worker
  /\ processes \in [SessionId -> Worker \cup {None}]
  /\ closed \in BOOLEAN
  /\ registered \in [SessionId -> Worker \cup {None}]
  /\ drawn \subseteq SessionId

Init ==
  /\ process = [w \in Worker |-> "unborn"]
  /\ opening = [o \in Opener |-> [at |-> "idle", worker |-> None]]
  /\ closing = [c \in Taker |-> [at |-> "idle", sid |-> None, worker |-> None]]
  /\ remaining = {}
  /\ beating = [at |-> "wait", sid |-> None, lease |-> None, worker |-> None]
  /\ leases = {}
  /\ processes = [s \in SessionId |-> None]
  /\ closed = FALSE
  /\ registered = [s \in SessionId |-> None]
  /\ drawn = {}

(* _terminate(process): a worker that still runs is stopped, gently or not; *)
(* if even kill() does not do it in time the call raises.                   *)
Terminate(w) ==
  process' = [process EXCEPT ![w] = IF @ = "running" THEN "killed" ELSE @]

TerminateRaises(w) ==
  /\ "terminate" \in Faults
  /\ process[w] = "running"
  /\ UNCHANGED process

-----------------------------------------------------------------------------
(* open *)

OpenTo(o, from, to) ==
  /\ opening[o].at = from
  /\ opening' = [opening EXCEPT ![o].at = to]

(* The call is over, by a return or by an exception. *)
OpenEnds(o, from) ==
  /\ opening[o].at = from
  /\ opening' = [opening EXCEPT ![o] = [at |-> "idle", worker |-> None]]

(* with self._lock: self._ensure_open(), which raises when closed. *)
OpenCheck(o) ==
  /\ ~closed
  /\ OpenTo(o, "idle", "launch")
  /\ UNCHANGED <<process, closing, remaining, beating, leases, processes,
                 closed, registered, drawn>>

(* The launcher returns a process, with or without the pipes it must have. *)
Launch(o, w) ==
  /\ opening[o].at = "launch"
  /\ process[w] = "unborn"
  /\ process' = [process EXCEPT ![w] = "running"]
  /\ \E at \in {"handshake", "discard"} :
       opening' = [opening EXCEPT ![o] = [at |-> at, worker |-> w]]
  /\ UNCHANGED <<closing, remaining, beating, leases, processes, closed,
                 registered, drawn>>

(* The launcher raises OSError. *)
LaunchFails(o) ==
  /\ OpenEnds(o, "launch")
  /\ UNCHANGED <<process, closing, remaining, beating, leases, processes,
                 closed, registered, drawn>>

(* _wait_for_endpoint: an announcement, or None for a timeout, a closed *)
(* stdout, or no announcement at all.                                   *)
Handshake(o) ==
  /\ \E to \in {"probe", "discard"} : OpenTo(o, "handshake", to)
  /\ UNCHANGED <<process, closing, remaining, beating, leases, processes,
                 closed, registered, drawn>>

(* _wait_ready: a worker found dead is not ready, nor one that does not  *)
(* answer in time.  One that answers is, and it may be dead by then: the *)
(* process is looked at before a probe and not after it.                 *)
WaitReady(o) ==
  /\ \E to \in {"register", "discard"} : OpenTo(o, "probe", to)
  /\ UNCHANGED <<process, closing, remaining, beating, leases, processes,
                 closed, registered, drawn>>

(* The probe raises: nothing in open catches it. *)
ProbeRaises(o) ==
  /\ "probe" \in Faults
  /\ OpenEnds(o, "probe")
  /\ UNCHANGED <<process, closing, remaining, beating, leases, processes,
                 closed, registered, drawn>>

(* A registration without the second look at `_closed`. *)
RegisterSessionLate(o, s) ==
  /\ OpenEnds(o, "register")
  /\ registered[s] = None
  /\ s \in drawn => "reuse" \in Faults
  /\ registered' = [registered EXCEPT ![s] = opening[o].worker]
  /\ processes' = [processes EXCEPT ![s] = opening[o].worker]
  /\ drawn' = drawn \cup {s}
  /\ UNCHANGED <<process, closing, remaining, beating, leases, closed>>

(* The lock block that publishes the session: it is looked at once more *)
(* whether the manager is open, then the worker is registered and kept. *)
RegisterSession(o, s) ==
  /\ ~closed
  /\ OpenEnds(o, "register")
  /\ registered[s] = None
  /\ s \in drawn => "reuse" \in Faults
  /\ registered' = [registered EXCEPT ![s] = opening[o].worker]
  /\ processes' = [processes EXCEPT ![s] = opening[o].worker]
  /\ drawn' = drawn \cup {s}
  /\ UNCHANGED <<process, closing, remaining, beating, leases, closed>>

(* _ensure_open or register raises: no record, the worker goes. *)
RegisterRaises(o) ==
  /\ closed \/ "registry" \in Faults
  /\ OpenTo(o, "register", "discard")
  /\ UNCHANGED <<process, closing, remaining, beating, leases, processes,
                 closed, registered, drawn>>

(* A failing open that forgets its worker. *)
DiscardNothing(o) ==
  /\ OpenEnds(o, "discard")
  /\ UNCHANGED <<process, closing, remaining, beating, leases, processes,
                 closed, registered, drawn>>

(* open terminates the worker it could not publish, and raises. *)
Discard(o) ==
  /\ OpenEnds(o, "discard")
  /\ \/ Terminate(opening[o].worker)
     \/ TerminateRaises(opening[o].worker)
  /\ UNCHANGED <<closing, remaining, beating, leases, processes, closed,
                 registered, drawn>>

-----------------------------------------------------------------------------
(* close and close_all *)

(* with self._lock: owned = self._processes.pop(session_id, None), in a  *)
(* call of close or in the loop of close_all; without a worker the call  *)
(* returns False.                                                        *)
ClosePop(c, s) ==
  /\ \/ c \in Closer /\ closing[c].at = "idle"
     \/ c = Shutdown /\ closing[c].at = "loop" /\ s \in remaining
  /\ closing' =
       IF processes[s] = None
       THEN closing
       ELSE [closing EXCEPT ![c] =
               [at |-> "terminate", sid |-> s, worker |-> processes[s]]]
  /\ processes' = [processes EXCEPT ![s] = None]
  /\ remaining' = IF c = Shutdown THEN remaining \ {s} ELSE remaining
  /\ UNCHANGED <<process, opening, beating, leases, closed, registered, drawn>>

(* close goes on in the loop of close_all, or the call is over. *)
CloseEnds(c, to) ==
  closing' = [closing EXCEPT ![c] =
                [at |-> IF c = Shutdown THEN to ELSE "idle",
                 sid |-> None, worker |-> None]]

(* The worker goes first, *)
CloseTerminate(c) ==
  /\ closing[c].at = "terminate"
  /\ \/ /\ Terminate(closing[c].worker)
        /\ closing' = [closing EXCEPT ![c].at = "unregister"]
     \/ /\ TerminateRaises(closing[c].worker)
        /\ CloseEnds(c, "raised")
  /\ UNCHANGED <<opening, remaining, beating, leases, processes, closed,
                 registered, drawn>>

(* A close that stops the worker and keeps its record. *)
CloseKeepsRecord(c) ==
  /\ closing[c].at = "unregister"
  /\ CloseEnds(c, "loop")
  /\ UNCHANGED <<process, opening, remaining, beating, leases, processes,
                 closed, registered, drawn>>

(* then the lease is given back, if it is still this worker's. *)
CloseUnregister(c) ==
  LET s == closing[c].sid
  IN /\ closing[c].at = "unregister"
     /\ \/ /\ registered' =
                [registered EXCEPT ![s] = IF @ = closing[c].worker THEN None ELSE @]
           /\ CloseEnds(c, "loop")
        \/ /\ "registry" \in Faults
           /\ UNCHANGED registered
           /\ CloseEnds(c, "raised")
     /\ UNCHANGED <<process, opening, remaining, beating, leases, processes,
                    closed, drawn>>

(* close_all: `_closed` and `_heartbeat_stop` are set in one lock block.    *)
(* It may be called again, by the interpreter's exit after an earlier call. *)
CloseAll ==
  /\ closing[Shutdown].at \in {"idle", "done", "raised"}
  /\ closed' = TRUE
  /\ closing' = [closing EXCEPT ![Shutdown].at = "join"]
  /\ UNCHANGED <<process, opening, remaining, beating, leases, processes,
                 registered, drawn>>

(* A close_all that lists the workers where it needs the ids. *)
CloseAllListWorkers ==
  /\ closing[Shutdown].at = "join"
  /\ remaining' = {processes[s] : s \in SessionId} \ {None}
  /\ closing' = [closing EXCEPT ![Shutdown].at = "loop"]
  /\ UNCHANGED <<process, opening, beating, leases, processes, closed,
                 registered, drawn>>

(* The heartbeat thread ends, or two seconds pass; then the ids in the *)
(* table are listed.                                                   *)
CloseAllList ==
  /\ closing[Shutdown].at = "join"
  /\ remaining' = {s \in SessionId : processes[s] # None}
  /\ closing' = [closing EXCEPT ![Shutdown].at = "loop"]
  /\ UNCHANGED <<process, opening, beating, leases, processes, closed,
                 registered, drawn>>

CloseAllEnds ==
  /\ closing[Shutdown].at = "loop"
  /\ remaining = {}
  /\ closing' = [closing EXCEPT ![Shutdown].at = "done"]
  /\ UNCHANGED <<process, opening, remaining, beating, leases, processes,
                 closed, registered, drawn>>

-----------------------------------------------------------------------------
(* _heartbeat_loop *)

Beating(at) == [at |-> at, sid |-> None, lease |-> None, worker |-> None]

(* The interval passes, and `_heartbeat_stop` was not set by then. *)
HeartbeatWakes ==
  /\ beating.at = "wait"
  /\ ~closed
  /\ beating' = Beating("list")
  /\ UNCHANGED <<process, opening, closing, remaining, leases, processes,
                 closed, registered, drawn>>

(* The owned leases are listed in a lock block. *)
HeartbeatLists ==
  /\ beating.at = "list"
  /\ leases' = {<<s, processes[s]>> : s \in {u \in SessionId : processes[u] # None}}
  /\ beating' = Beating("beat")
  /\ UNCHANGED <<process, opening, closing, remaining, processes, closed,
                 registered, drawn>>

(* `_heartbeat_stop` is set: the loop ends. *)
HeartbeatStops ==
  /\ beating.at = "wait"
  /\ closed
  /\ beating' = Beating("ended")
  /\ UNCHANGED <<process, opening, closing, remaining, leases, processes,
                 closed, registered, drawn>>

(* A heartbeat whose answer is taken the wrong way round. *)
HeartbeatMisread(s, w) ==
  /\ beating.at = "beat"
  /\ <<s, w>> \in leases
  /\ leases' = leases \ {<<s, w>>}
  /\ beating' = IF registered[s] = w
                THEN [at |-> "pop", sid |-> s, lease |-> w, worker |-> None]
                ELSE Beating("beat")
  /\ UNCHANGED <<process, opening, closing, remaining, processes, closed,
                 registered, drawn>>

(* registry.heartbeat for the next lease of the list: renewed, refused, or *)
(* an exception, which ends the thread.                                    *)
Heartbeat(s, w) ==
  /\ beating.at = "beat"
  /\ <<s, w>> \in leases
  /\ \/ /\ registered[s] = w
        /\ beating' = Beating("beat")
        /\ leases' = leases \ {<<s, w>>}
     \/ /\ registered[s] # w
        /\ beating' = [at |-> "pop", sid |-> s, lease |-> w, worker |-> None]
        /\ leases' = leases \ {<<s, w>>}
     \/ /\ "registry" \in Faults
        /\ beating' = Beating("raised")
        /\ leases' = {}
  /\ UNCHANGED <<process, opening, closing, remaining, processes, closed,
                 registered, drawn>>

(* The list is done: back to waiting. *)
HeartbeatRests ==
  /\ beating.at = "beat"
  /\ leases = {}
  /\ beating' = Beating("wait")
  /\ UNCHANGED <<process, opening, closing, remaining, leases, processes,
                 closed, registered, drawn>>

(* A loop that reaps the worker of the session without taking it out. *)
HeartbeatPeeks ==
  /\ beating.at = "pop"
  /\ beating' = IF processes[beating.sid] = None
                THEN Beating("beat")
                ELSE [at |-> "expire", sid |-> beating.sid,
                      lease |-> beating.lease, worker |-> processes[beating.sid]]
  /\ UNCHANGED <<process, opening, closing, remaining, leases, processes,
                 closed, registered, drawn>>

(* The lease is lost: whatever worker the session has is taken. *)
HeartbeatPops ==
  /\ beating.at = "pop"
  /\ beating' = IF processes[beating.sid] = None
                THEN Beating("beat")
                ELSE [at |-> "expire", sid |-> beating.sid,
                      lease |-> beating.lease, worker |-> processes[beating.sid]]
  /\ processes' = [processes EXCEPT ![beating.sid] = None]
  /\ UNCHANGED <<process, opening, closing, remaining, leases, closed,
                 registered, drawn>>

(* expire with the lost lease; its exceptions are suppressed. *)
HeartbeatExpires ==
  /\ beating.at = "expire"
  /\ registered' = [registered EXCEPT ![beating.sid] =
                      IF @ = beating.lease THEN None ELSE @]
  /\ beating' = [beating EXCEPT !.at = "terminate"]
  /\ UNCHANGED <<process, opening, closing, remaining, leases, processes,
                 closed, drawn>>

(* A loop that expires the lease and leaves the worker running. *)
HeartbeatReapsNothing ==
  /\ beating.at = "terminate"
  /\ beating' = Beating("beat")
  /\ UNCHANGED <<process, opening, closing, remaining, leases, processes,
                 closed, registered, drawn>>

(* The worker goes; an exception ends the thread. *)
HeartbeatReaps ==
  /\ beating.at = "terminate"
  /\ \/ /\ Terminate(beating.worker)
        /\ beating' = Beating("beat")
        /\ UNCHANGED leases
     \/ /\ TerminateRaises(beating.worker)
        /\ beating' = Beating("raised")
        /\ leases' = {}
  /\ UNCHANGED <<opening, closing, remaining, processes, closed, registered, drawn>>

-----------------------------------------------------------------------------
(* The environment *)

WorkerExits(w) ==
  /\ "crash" \in Faults
  /\ process[w] = "running"
  /\ process' = [process EXCEPT ![w] = "exited"]
  /\ UNCHANGED <<opening, closing, remaining, beating, leases, processes,
                 closed, registered, drawn>>

LeaseLost(s) ==
  /\ "lease" \in Faults
  /\ registered[s] # None
  /\ registered' = [registered EXCEPT ![s] = None]
  /\ UNCHANGED <<process, opening, closing, remaining, beating, leases,
                 processes, closed, drawn>>

-----------------------------------------------------------------------------
(* What a call does once it was made. *)
OpenStep(o) ==
  \/ \E w \in Worker : Launch(o, w)
  \/ LaunchFails(o) \/ Handshake(o) \/ WaitReady(o) \/ ProbeRaises(o)
  \/ \E s \in SessionId : RegisterSession(o, s)
  \/ RegisterRaises(o) \/ Discard(o)

CloseStep(c) == CloseTerminate(c) \/ CloseUnregister(c)

CloseAllStep ==
  \/ CloseAllList
  \/ \E s \in SessionId : ClosePop(Shutdown, s)
  \/ CloseStep(Shutdown)
  \/ CloseAllEnds

HeartbeatStep ==
  \/ HeartbeatWakes \/ HeartbeatStops \/ HeartbeatLists
  \/ \E s \in SessionId, w \in Worker : Heartbeat(s, w)
  \/ HeartbeatRests \/ HeartbeatPops \/ HeartbeatExpires \/ HeartbeatReaps

Next ==
  \/ \E o \in Opener : OpenCheck(o) \/ OpenStep(o)
  \/ \E c \in Closer : CloseStep(c) \/ \E s \in SessionId : ClosePop(c, s)
  \/ CloseAll \/ CloseAllStep
  \/ HeartbeatStep
  \/ \E w \in Worker : WorkerExits(w)
  \/ \E s \in SessionId : LeaseLost(s)

Spec == Init /\ [][Next]_vars

(* Threads keep running and every wait in them has a timeout: a call that  *)
(* was made goes on, and the daemon thread beats.  Nobody has to call open *)
(* or close, and nothing has to go wrong.                                  *)
Fairness ==
  /\ \A o \in Opener : WF_vars(OpenStep(o))
  /\ \A c \in Closer : WF_vars(CloseStep(c))
  /\ WF_vars(CloseAllStep)
  /\ WF_vars(HeartbeatStep)

FairSpec == Spec /\ Fairness

-----------------------------------------------------------------------------
(* Whose hands a worker is in. *)
OpenedBy(w) == {o \in Opener : opening[o].worker = w}
KeptAs(w) == {s \in SessionId : processes[s] = w}
TakenBy(w) == {c \in Taker : closing[c].worker = w /\ closing[c].at = "terminate"}
ReapedBy(w) == {h \in {"heartbeat"} : beating.worker = w}
HandsOf(w) == OpenedBy(w) \cup KeptAs(w) \cup TakenBy(w) \cup ReapedBy(w)

(* "Own one isolated worker process per headless session": a running worker *)
(* is always in the hands of the call that launches it, in the table, or in *)
(* the hands of the call that took it out to stop it.                       *)
NoOrphan == \A w \in Worker : process[w] = "running" => HandsOf(w) # {}

(* A session is in the registry only while its worker is in the table, or  *)
(* while the call that took it out is on its way to give the lease back:   *)
(* no record outlives the manager's interest in it.                        *)
PublishedIsManaged ==
  \A s \in SessionId : registered[s] # None =>
    \/ processes[s] = registered[s]
    \/ \E c \in Taker : /\ closing[c].at \in {"terminate", "unregister"}
                        /\ closing[c].sid = s
                        /\ closing[c].worker = registered[s]

(* When close_all has returned, no session is left in the table and none   *)
(* gets in any more, even from an open call that was already waiting for   *)
(* its worker; whatever an earlier call of close_all left over, this one   *)
(* took.                                                                   *)
ShutdownIsComplete ==
  closing[Shutdown].at = "done" => \A s \in SessionId : processes[s] = None

(* The heartbeat thread stops a worker only for a lease that is lost: never *)
(* one whose own lease still stands.                                        *)
ReapsOnlyTheLost ==
  beating.at \in {"expire", "terminate"} => registered[beating.sid] # beating.worker

(* README, lifecycle 3: "stop heartbeat, give the lease back, then stop the *)
(* worker": a worker the manager has stopped is not in the registry.        *)
UnregisterBeforeStop ==
  \A s \in SessionId : registered[s] # None => process[registered[s]] # "killed"

(* "When a lease is lost its worker is reclaimed": by the next heartbeat,   *)
(* by a close, or by the shutdown.                                          *)
LostLeaseReclaimed ==
  \A s \in SessionId, w \in Worker :
    processes[s] = w /\ registered[s] # w ~> process[w] \in {"exited", "killed"}

(* Once close_all was called no worker keeps running: not one in the table, *)
(* not one some open call still waits for, not one another call took out.   *)
ShutdownStopsWorkers ==
  closed ~> [](\A w \in Worker : process[w] # "running")

-----------------------------------------------------------------------------
(* The abstract hands of a worker. *)
Own == INSTANCE Ownership
         WITH Taker <- Taker \cup {"heartbeat"},
              hands <- [w \in Worker |-> IF process[w] = "unborn"
                                         THEN {"unborn"} ELSE HandsOf(w)]

(* Every worker passes from hand to hand as Ownership prescribes, and is   *)
(* never in two.                                                           *)
ImplementsOwnership == Own!Spec
=============================================================================
