------------------------------- MODULE Router -------------------------------
(***************************************************************************)
(* src/local_runtime/router.py, InstanceRouter, with the client half of    *)
(* transport.py it forwards through.  A routed call reads the registry in  *)
(* one lock section (list) or in two (get, then expired), asks the         *)
(* verifier, and makes a single HTTP request with a timeout.  Between any  *)
(* two of these the sessions come and go, and a loopback port that was     *)
(* closed may be bound by somebody else.                                   *)
(*                                                                         *)
(* A session is here a status in the registry and whoever listens on its   *)
(* port; Runtime, Headless and Registry say how both come about.  Ids are  *)
(* not drawn twice.  The verifier is a callback of the application that is *)
(* given the record, and may accept it, refuse it or raise as it likes.    *)
(***************************************************************************)
EXTENDS Integers, FiniteSets

CONSTANTS
  Call,        (* the threads that call the control plane, once each        *)
  Gui,         (* sessions that a MultiModeRuntime owns                     *)
  Worker,      (* sessions of the control plane's headless manager          *)
  NoSession,   (* no `session_id`, or an empty one                          *)
  Verifying    (* the router has a verifier                                 *)

ASSUME RouterAssumption ==
  /\ Gui \cap Worker = {}
  /\ NoSession \notin Gui \cup Worker
  /\ Verifying \in BOOLEAN

Session == Gui \cup Worker

VARIABLES
  status,      (* where the registry has the session                        *)
  listener,    (* who listens on its port: the session, nobody, or another  *)
  call,        (* where a call is, what it was given, chose and answered,   *)
               (* and the session whose record the verifier has accepted    *)
  job,         (* what became of the request it sent, and who has it        *)
  runs,        (* how often a handler has run it                            *)
  seen         (* history: the answers of `_select` that were right at some *)
               (* instant while the call selected                           *)

routeVars == <<status, listener, call, job, runs>>

Refusals == {"expired", "missing", "nobody", "several", "unverified"}
Selecting == {"get", "history", "list", "verify"}

RouterTypeOK ==
  /\ status \in [Session -> {"unborn", "active", "expired", "gone"}]
  /\ listener \in [Session -> {"nobody", "itself", "stranger"}]
  /\ job \in [Call -> {"unsent", "itself", "stranger", "ran", "lost"}]
  /\ runs \in [Call -> Nat]
  /\ seen \in [Call -> SUBSET ((Refusals \cup {"chosen"}) \X
                               (Session \cup {NoSession}))]

RouterInit ==
  /\ status = [s \in Session |-> "unborn"]
  /\ listener = [s \in Session |-> "nobody"]
  /\ call = [r \in Call |-> [at |-> "idle", asked |-> NoSession,
                             chosen |-> NoSession, verified |-> NoSession,
                             answer |-> "none"]]
  /\ job = [r \in Call |-> "unsent"]
  /\ runs = [r \in Call |-> 0]
  /\ seen = [r \in Call |-> {}]

Active == {s \in Session : status[s] = "active"}

Goto(r, from, to) ==
  /\ call[r].at = from
  /\ call' = [call EXCEPT ![r].at = to]

Answer(r, answer) ==
  call' = [call EXCEPT ![r].at = "done", ![r].answer = answer]

-----------------------------------------------------------------------------
(* route, _select *)

(* The session id is taken out of the arguments. *)
Route(r, s) ==
  /\ call[r].at = "idle"
  /\ call' = [call EXCEPT ![r].at = IF s = NoSession THEN "list" ELSE "get",
                          ![r].asked = s]
  /\ UNCHANGED <<status, listener, job, runs>>

Choose(r, s) ==
  call' = [call EXCEPT ![r].at = IF Verifying THEN "verify" ELSE "send",
                       ![r].chosen = s]

(* registry.get *)
Get(r) ==
  /\ call[r].at = "get"
  /\ IF call[r].asked \in Active THEN Choose(r, call[r].asked)
                                 ELSE Goto(r, "get", "history")
  /\ UNCHANGED <<status, listener, job, runs>>

(* registry.expired *)
LookupExpired(r) ==
  /\ call[r].at = "history"
  /\ Answer(r, IF status[call[r].asked] = "expired" THEN "expired" ELSE "missing")
  /\ UNCHANGED <<status, listener, job, runs>>

(* A router that takes the first session there is. *)
ListTakesAny(r) ==
  /\ call[r].at = "list"
  /\ \/ \E s \in Active : Choose(r, s)
     \/ Active = {} /\ Answer(r, "nobody")
  /\ UNCHANGED <<status, listener, job, runs>>

(* registry.list: only a sole session is chosen without being named. *)
List(r) ==
  /\ call[r].at = "list"
  /\ \/ \E s \in Session : Active = {s} /\ Choose(r, s)
     \/ Active = {} /\ Answer(r, "nobody")
     \/ Cardinality(Active) > 1 /\ Answer(r, "several")
  /\ UNCHANGED <<status, listener, job, runs>>

(* A router that goes on when the verifier refuses. *)
VerifyPasses(r) ==
  /\ Goto(r, "verify", "send")
  /\ UNCHANGED <<status, listener, job, runs>>

(* The verifier accepts the record that was chosen, refuses it, or raises. *)
Verify(r) ==
  /\ call[r].at = "verify"
  /\ \/ call' = [call EXCEPT ![r].at = "send", ![r].verified = call[r].chosen]
     \/ \E a \in {"unverified", "failed", "invalid"} : Answer(r, a)
  /\ UNCHANGED <<status, listener, job, runs>>

(* A registry method raises (FileLockTimeoutError, OSError). *)
RegistryRaises(r) ==
  /\ call[r].at \in {"get", "history", "list"}
  /\ Answer(r, "failed")
  /\ UNCHANGED <<status, listener, job, runs>>

-----------------------------------------------------------------------------
(* JsonRpcClient.request, and the handler thread at the other end *)

(* The connection is refused, or the request is with a handler thread. *)
Send(r) ==
  /\ call[r].at = "send"
  /\ LET at == listener[call[r].chosen]
     IN IF at = "nobody"
        THEN Answer(r, "failed") /\ UNCHANGED job
        ELSE Goto(r, "send", "wait") /\ job' = [job EXCEPT ![r] = at]
  /\ UNCHANGED <<status, listener, runs>>

Pending == {"itself", "stranger"}

(* A handler thread runs the request; LocalMcpServer.stop does not wait for *)
(* it and it does not look whether the server was stopped.                  *)
Execute(r) ==
  /\ job[r] \in Pending
  /\ job' = [job EXCEPT ![r] = "ran"]
  /\ runs' = [runs EXCEPT ![r] = @ + 1]
  /\ UNCHANGED <<status, listener, call>>

(* Its process ends, or the connection breaks, before that. *)
Lose(r) ==
  /\ job[r] \in Pending
  /\ job' = [job EXCEPT ![r] = "lost"]
  /\ UNCHANGED <<status, listener, call, runs>>

(* The response: a result; an error, whose code the client drops; or one  *)
(* the client cannot take (too long, no JSON, another id), a ValueError.  *)
(* The response of a lost request does not come.                          *)
Receive(r) ==
  /\ call[r].at = "wait"
  /\ \/ job[r] = "ran" /\ \E a \in {"result", "failed", "invalid"} : Answer(r, a)
     \/ job[r] = "lost" /\ Answer(r, "failed")
  /\ UNCHANGED <<status, listener, job, runs>>

(* A client that tries again when its time is up. *)
GiveUpRetries(r) ==
  /\ Goto(r, "wait", "send")
  /\ UNCHANGED <<status, listener, job, runs>>

(* A client that waits for as long as its request is with somebody. *)
GiveUpNever(r) ==
  /\ call[r].at = "wait"
  /\ job[r] \notin Pending
  /\ Answer(r, "failed")
  /\ UNCHANGED <<status, listener, job, runs>>

(* The timeout: TimeoutError is an OSError, and nothing is taken back. *)
GiveUp(r) ==
  /\ call[r].at = "wait"
  /\ Answer(r, "failed")
  /\ UNCHANGED <<status, listener, job, runs>>

(* LocalMcpServer._dispatch: the error code an answer leaves with.  Only   *)
(* MultiMcpError has -32000; the remote's own errors come as RuntimeError. *)
Code(answer) ==
  CASE answer \in Refusals \cup {"lifecycle", "duplicate"} -> -32000
    [] answer \in {"invalid", "notowned"} -> -32602
    [] answer = "failed" -> -32603
    [] OTHER -> 0

-----------------------------------------------------------------------------
(* The sessions as the router meets them *)

(* A session is registered.  What answered the probe before that may be    *)
(* down again by then, or have been somebody else after a worker's death.  *)
Register(s) ==
  /\ status[s] = "unborn"
  /\ status' = [status EXCEPT ![s] = "active"]
  /\ \E at \in {"itself", "nobody", "stranger"} :
       listener' = [listener EXCEPT ![s] = at]

(* MultiModeRuntime.start *)
Publish(g) ==
  /\ Register(g)
  /\ UNCHANGED <<call, job, runs>>

(* MultiModeRuntime.stop gives the lease back and closes the endpoint later. *)
Withdraw(g) ==
  /\ status[g] = "active"
  /\ status' = [status EXCEPT ![g] = "gone"]
  /\ UNCHANGED <<listener, call, job, runs>>

(* Another process finds the record stale, *)
Expire(s) ==
  /\ status[s] = "active"
  /\ status' = [status EXCEPT ![s] = "expired"]
  /\ UNCHANGED <<listener, call, job, runs>>

(* and the bounded history drops it in the end. *)
Trim(s) ==
  /\ status[s] = "expired"
  /\ status' = [status EXCEPT ![s] = "gone"]
  /\ UNCHANGED <<listener, call, job, runs>>

(* The endpoint goes down, with its record or without. *)
Down(s) ==
  /\ listener[s] = "itself"
  /\ listener' = [listener EXCEPT ![s] = "nobody"]
  /\ UNCHANGED <<status, call, job, runs>>

(* The system gives its port to another server. *)
Rebind(s) ==
  /\ status[s] # "unborn"
  /\ listener[s] = "nobody"
  /\ listener' = [listener EXCEPT ![s] = "stranger"]
  /\ UNCHANGED <<status, call, job, runs>>

-----------------------------------------------------------------------------
(* The answers that are right at an instant for a call that asked for s. *)
Truths(s) ==
  IF s # NoSession
  THEN {<<IF s \in Active THEN "chosen"
          ELSE IF status[s] = "expired" THEN "expired" ELSE "missing", s>>}
  ELSE IF Active = {} THEN {<<"nobody", s>>}
  ELSE IF Cardinality(Active) > 1 THEN {<<"several", s>>}
  ELSE {"chosen"} \X Active

(* Kept by a conjunct of Next, for the calls that are selecting. *)
Observe ==
  seen' = [r \in Call |->
             IF {call[r].at, call'[r].at} \cap Selecting = {} THEN seen[r]
             ELSE seen[r] \cup Truths(call[r].asked)' ]
=============================================================================
