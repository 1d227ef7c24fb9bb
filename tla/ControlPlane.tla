---------------------------- MODULE ControlPlane ----------------------------
(***************************************************************************)
(* src/local_runtime/server.py, ControlPlane.dispatch: many callers at     *)
(* once, each with one request, over the sessions of Router and the tools  *)
(* of Catalog.  sessions/open and sessions/close go to the headless        *)
(* manager (Headless has its inside), sessions/cleanup to the registry,    *)
(* and every tool call to the router.  ping, tools/list, sessions/list and *)
(* local methods change nothing and are left out.                          *)
(***************************************************************************)
EXTENDS Router, Catalog

ASSUME ControlPlaneAssumption == Refresher = Call

VARIABLE owned   (* the ids in the manager's `_processes`                   *)

vars == <<routeVars, seen, tools, collected, owned>>
catalogVars == <<tools, collected>>

Place == Selecting \cup {"idle", "send", "wait", "terminate", "unregister",
                         "refresh", "done"}
Reply == Refusals \cup {"none", "result", "failed", "invalid", "notowned", "closed",
                        "opened", "lifecycle", "cleaned", "refreshed", "duplicate"}

TypeOK ==
  /\ RouterTypeOK
  /\ CatalogTypeOK
  /\ call \in [Call -> [at : Place, asked : Session \cup {NoSession},
                        chosen : Session \cup {NoSession},
                        verified : Session \cup {NoSession}, answer : Reply]]
  /\ owned \subseteq Worker

Init == RouterInit /\ CatalogInit /\ owned = {}

(* The process of worker w ends, its handler threads and requests with it. *)
Kill(w) ==
  /\ listener' = [listener EXCEPT ![w] = IF @ = "itself" THEN "nobody" ELSE @]
  /\ job' = [r \in Call |-> IF call[r].chosen = w /\ job[r] = "itself"
                            THEN "lost" ELSE job[r]]
  /\ UNCHANGED runs

-----------------------------------------------------------------------------
(* Session methods *)

(* sessions/open: the manager publishes a worker and keeps it, *)
Open(r, w) ==
  /\ call[r].at = "idle"
  /\ Register(w)
  /\ owned' = owned \cup {w}
  /\ Answer(r, "opened")
  /\ UNCHANGED <<job, runs, catalogVars>>

(* or there is no manager, no worker, or no input reference. *)
OpenFails(r) ==
  /\ call[r].at = "idle"
  /\ \E a \in {"lifecycle", "failed", "invalid"} : Answer(r, a)
  /\ UNCHANGED <<status, listener, job, runs, owned, catalogVars>>

(* A close that does not look whose session it is. *)
CloseTakesAny(r, s) ==
  /\ call[r].at = "idle"
  /\ call' = [call EXCEPT ![r].at = "terminate", ![r].asked = s, ![r].chosen = s]
  /\ owned' = owned \ {s}
  /\ UNCHANGED <<status, listener, job, runs, catalogVars>>

(* sessions/close: the manager takes the worker out of its table, if it is *)
(* there,                                                                  *)
Close(r, s) ==
  /\ call[r].at = "idle"
  /\ IF s \in owned
     THEN call' = [call EXCEPT ![r].at = "terminate", ![r].asked = s, ![r].chosen = s]
     ELSE Answer(r, "notowned")
  /\ owned' = owned \ {s}
  /\ UNCHANGED <<status, listener, job, runs, catalogVars>>

(* stops it, *)
CloseTerminates(r) ==
  /\ Goto(r, "terminate", "unregister")
  /\ Kill(call[r].chosen)
  /\ UNCHANGED <<status, owned, catalogVars>>

(* or fails to: a worker that will not die is out of the table, may live  *)
(* on, and its lease stands until somebody finds it stale;                *)
CloseTerminateRaises(r) ==
  /\ call[r].at = "terminate"
  /\ Answer(r, "failed")
  /\ UNCHANGED <<status, listener, job, runs, owned, catalogVars>>

(* A close that leaves the record to the next cleanup. *)
CloseLeavesRecord(r) ==
  /\ call[r].at = "unregister"
  /\ Answer(r, "closed")
  /\ UNCHANGED <<status, listener, job, runs, owned, catalogVars>>

(* and gives its lease back; a lease that is lost by then makes it answer  *)
(* as if the session had not been the manager's.                           *)
CloseUnregisters(r) ==
  /\ call[r].at = "unregister"
  /\ LET s == call[r].chosen
     IN IF s \in Active
        THEN Answer(r, "closed") /\ status' = [status EXCEPT ![s] = "gone"]
        ELSE Answer(r, "notowned") /\ UNCHANGED status
  /\ UNCHANGED <<listener, job, runs, owned, catalogVars>>

(* The registry raises instead. *)
CloseRaises(r) ==
  /\ call[r].at = "unregister"
  /\ Answer(r, "failed")
  /\ UNCHANGED <<status, listener, job, runs, owned, catalogVars>>

(* sessions/cleanup: the stale ones, whichever they are, expire at once. *)
Cleanup(r) ==
  /\ call[r].at = "idle"
  /\ \E S \in SUBSET Active :
       status' = [s \in Session |-> IF s \in S THEN "expired" ELSE status[s]]
  /\ Answer(r, "cleaned")
  /\ UNCHANGED <<listener, job, runs, owned, catalogVars>>

(* The manager's heartbeat finds that a lease is lost and stops the worker, *)
(* or tries to.                                                             *)
Reclaim(w) ==
  /\ w \in owned \ Active
  /\ owned' = owned \ {w}
  /\ Kill(w) \/ UNCHANGED <<listener, job, runs>>
  /\ UNCHANGED <<status, call, catalogVars>>

-----------------------------------------------------------------------------
(* ToolCatalog.refresh, by a thread of the host *)

RefreshStarts(r) ==
  /\ Goto(r, "idle", "refresh")
  /\ UNCHANGED <<status, listener, job, runs, owned, catalogVars>>

Refresh(r) ==
  /\ call[r].at = "refresh"
  /\ \/ \E offer \in Offers : Collects(r, offer) /\ UNCHANGED call
     \/ \E offer \in Offers : Duplicate(r, offer) /\ Answer(r, "duplicate")
     \/ ProviderRaises(r) /\ Answer(r, "failed")
     \/ Publishes(r) /\ Answer(r, "refreshed")
  /\ UNCHANGED <<status, listener, job, runs, owned>>

-----------------------------------------------------------------------------
Begin(r) ==
  \/ \E s \in Session \cup {NoSession} : Route(r, s) /\ UNCHANGED <<owned, catalogVars>>
  \/ \E s \in Session : Close(r, s)
  \/ \E w \in Worker : Open(r, w)
  \/ OpenFails(r) \/ Cleanup(r) \/ RefreshStarts(r)

(* A routed call after its first step. *)
RouteStep(r) ==
  /\ \/ Get(r) \/ LookupExpired(r) \/ List(r) \/ RegistryRaises(r) \/ Verify(r)
     \/ Send(r) \/ Receive(r) \/ GiveUp(r)
  /\ UNCHANGED <<owned, catalogVars>>

CallStep(r) ==
  /\ \/ RouteStep(r) \/ CloseTerminates(r) \/ CloseTerminateRaises(r)
     \/ CloseUnregisters(r) \/ CloseRaises(r) \/ Refresh(r)
  /\ Observe

(* The other end, the owners of the sessions, and the system. *)
Outside ==
  \/ /\ \/ \E r \in Call : Execute(r) \/ Lose(r)
        \/ \E g \in Gui : Publish(g) \/ Withdraw(g)
        \/ \E s \in Session : Expire(s) \/ Trim(s) \/ Down(s) \/ Rebind(s)
     /\ UNCHANGED <<owned, catalogVars>>
  \/ \E w \in Worker : Reclaim(w)

Next ==
  \/ \E r \in Call : Begin(r) /\ Observe
  \/ \E r \in Call : CallStep(r)
  \/ Outside /\ Observe

Spec == Init /\ [][Next]_vars

(* A thread that was called runs on; nobody has to call, no handler has to *)
(* run a request, and no session has to do anything.                       *)
FairSpec == Spec /\ \A r \in Call : WF_vars(CallStep(r))

-----------------------------------------------------------------------------
(* What a call is told about sessions was so at some instant while it     *)
(* asked, although it asks twice: the session it named had expired, was   *)
(* not there, or was there; or there was none, one, or more than one.     *)
VerdictWasTrue ==
  \A r \in Call :
    /\ call[r].chosen # NoSession /\ call[r].at \in {"verify", "send", "wait"} =>
         <<"chosen", call[r].chosen>> \in seen[r]
    /\ call[r].answer \in Refusals \ {"unverified"} =>
         <<call[r].answer, call[r].asked>> \in seen[r]

(* "Verification has to fail closed": with a verifier nothing leaves for   *)
(* any endpoint, whoever listens there, unless the verifier has accepted   *)
(* the very record that was selected, in the same call; a refusal and an   *)
(* exception both keep the request in.  Who has the port by the time the   *)
(* request arrives is not the verifier's to say, and not claimed.          *)
FailsClosed ==
  \A r \in Call :
    Verifying /\ (job[r] # "unsent" \/ runs[r] > 0) =>
      call[r].chosen # NoSession /\ call[r].verified = call[r].chosen

(* No request is run twice; who has a result, has it from one run; and the *)
(* error code -32000 means that no session has run the request or will.    *)
ExecutedAsAnswered ==
  \A r \in Call :
    /\ runs[r] <= 1
    /\ call[r].answer = "result" => runs[r] = 1
    /\ Code(call[r].answer) = -32000 => runs[r] = 0 /\ job[r] \notin Pending

(* A close that found the session in the table has stopped the worker and  *)
(* the session is not published any more, also when the answer is that it  *)
(* was not owned; and of several closes at most one is told it was closed. *)
CloseEnds ==
  \A r \in Call :
    /\ call[r].answer \in {"closed", "notowned"} /\ call[r].chosen # NoSession =>
         call[r].chosen \notin Active /\ listener[call[r].chosen] # "itself"
    /\ \A q \in Call : call[r].answer = "closed" /\ call[q].answer = "closed" =>
         r = q \/ call[r].chosen # call[q].chosen

(* "The control plane closes only sessions the manager owns": no step of a *)
(* request takes an endpoint down or gives a lease back, save a close that *)
(* took that very worker from the table.  The session of a GUI is ended by *)
(* its owner, or expires.                                                  *)
ClosesOnlyItsOwn ==
  [][\A r \in Call, s \in Session :
       /\ call'[r] # call[r]
       /\ \/ listener[s] = "itself" /\ listener'[s] # "itself"
          \/ status[s] = "active" /\ status'[s] = "gone"
       => s \in Worker /\ call[r].chosen = s]_vars

(* Every call is answered, whether its session runs the request, keeps it  *)
(* for ever, dies or was never there.  The client's time-out is one step   *)
(* here; in the code it bounds each operation on the socket, so that a     *)
(* peer who keeps sending a little can put it off.                         *)
CallsAnswered ==
  \A r \in Call : call[r].at # "idle" ~> call[r].at = "done"
=============================================================================
