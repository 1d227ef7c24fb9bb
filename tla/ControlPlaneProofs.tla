-------------------------- MODULE ControlPlaneProofs --------------------------
(***************************************************************************)
(* Theorems about ControlPlane, and with it about Router and Catalog, for  *)
(* any number of calls, sessions and providers, with and without a         *)
(* verifier.                                                               *)
(***************************************************************************)
EXTENDS ControlPlane, FiniteSetTheorems, SequenceTheorems, TLAPS

(* What a call has in hand at each line. *)
Lines(r) ==
  /\ call[r].at \in {"idle", "refresh", "get", "history", "list"} =>
       call[r].chosen = NoSession
  /\ call[r].at \in {"get", "history"} => call[r].asked \in Session
  /\ call[r].at \in {"idle", "list"} => call[r].asked = NoSession
  /\ call[r].at \in {"verify", "send", "wait"} => call[r].chosen \in Session
  /\ call[r].at # "done" => call[r].answer = "none"
  /\ call[r].at = "verify" => Verifying

(* What a call knows of its session: that it has seen it, that it was      *)
(* missing if it is not in the history now, that its record was accepted.  *)
Knows(r) ==
  /\ call[r].at \in {"verify", "send", "wait"} => <<"chosen", call[r].chosen>> \in seen[r]
  /\ call[r].at = "history" =>
       \/ <<"missing", call[r].asked>> \in seen[r]
       \/ status[call[r].asked] \in {"expired", "gone"}
  /\ call[r].at = "send" /\ Verifying => call[r].verified = call[r].chosen
  /\ job[r] # "unsent" /\ Verifying =>
       call[r].chosen \in Session /\ call[r].verified = call[r].chosen
  /\ call[r].answer \in Refusals \ {"unverified"} =>
       <<call[r].answer, call[r].asked>> \in seen[r]

(* A request exists from its sending on, and is run at most once. *)
Sent(r) ==
  /\ runs[r] = IF job[r] = "ran" THEN 1 ELSE 0
  /\ call[r].at \notin {"wait", "done"} => job[r] = "unsent"
  /\ call[r].answer = "result" => job[r] = "ran"
  /\ call[r].answer \in Refusals \cup {"lifecycle", "duplicate"} => job[r] = "unsent"

(* A close past the table has stopped its worker, for good. *)
Closed(r) ==
  /\ call[r].at = "unregister" => listener[call[r].chosen] # "itself"
  /\ call[r].answer \in {"closed", "notowned"} /\ call[r].chosen # NoSession =>
       /\ call[r].chosen \in Session
       /\ status[call[r].chosen] \in {"expired", "gone"}
       /\ listener[call[r].chosen] # "itself"

CallInv(r) == Lines(r) /\ Knows(r) /\ Sent(r) /\ Closed(r)

(* A worker that a close took from the table is in no other hands. *)
Taking(r) == call[r].at \in {"terminate", "unregister"} \/ call[r].answer = "closed"

Table ==
  /\ \A w \in owned : status[w] # "unborn"
  /\ \A r \in Call :
       Taking(r) =>
         /\ call[r].chosen \in Worker
         /\ call[r].chosen \notin owned
         /\ status[call[r].chosen] # "unborn"
         /\ \A q \in Call : Taking(q) /\ call[q].chosen = call[r].chosen => q = r

(* No collection has a name twice, and the published one is a whole one. *)
Disjoint(c) ==
  \A i, j \in DOMAIN c :
    \A k \in DOMAIN c[i], l \in DOMAIN c[j] : c[i][k] = c[j][l] => i = j /\ k = l

Snapshots == NeverHalfRefreshed /\ \A r \in Refresher : Disjoint(collected[r])

(* Nobody listens for a session before it is registered. *)
Unseen == \A s \in Session : status[s] = "unborn" => listener[s] # "itself"

IInv ==
  /\ TypeOK
  /\ Unseen
  /\ \A r \in Call : CallInv(r)
  /\ Table
  /\ Snapshots

-----------------------------------------------------------------------------
(* What any step may do to a session, and to the request of a call that    *)
(* does not send one in this step.                                         *)
CallRecord == [at : Place, asked : Session \cup {NoSession},
               chosen : Session \cup {NoSession},
               verified : Session \cup {NoSession}, answer : Reply]

Ages ==
  /\ status' \in [Session -> {"unborn", "active", "expired", "gone"}]
  /\ listener' \in [Session -> {"nobody", "itself", "stranger"}]
  /\ \A s \in Session :
       /\ \/ status'[s] = status[s]
          \/ status[s] = "unborn" /\ status'[s] = "active"
          \/ status[s] = "active" /\ status'[s] \in {"expired", "gone"}
          \/ status[s] = "expired" /\ status'[s] = "gone"
       /\ listener'[s] = "itself" =>
            listener[s] = "itself" \/ (status[s] = "unborn" /\ status'[s] = "active")

JobsTyped ==
  /\ job' \in [Call -> {"unsent", "itself", "stranger", "ran", "lost"}]
  /\ runs' \in [Call -> Nat]

JobStep(r) ==
  \/ job'[r] = job[r] /\ runs'[r] = runs[r]
  \/ job[r] \in Pending /\ job'[r] = "ran" /\ runs'[r] = runs[r] + 1
  \/ job[r] \in Pending /\ job'[r] = "lost" /\ runs'[r] = runs[r]

(* The call of r is all that changes among the calls. *)
OnlyCall(r) ==
  /\ call' \in [Call -> CallRecord]
  /\ \A q \in Call : q # r => call'[q] = call[q]

(* seen only grows, and has what was true while the call selected. *)
LEMMA SeenGrows ==
  ASSUME Observe, NEW r \in Call
  PROVE  /\ seen[r] \subseteq seen'[r]
         /\ call[r].at \in Selecting \/ call'[r].at \in Selecting =>
              Truths(call[r].asked)' \subseteq seen'[r]
<1>1. seen'[r] = IF {call[r].at, call'[r].at} \cap Selecting = {} THEN seen[r]
                 ELSE seen[r] \cup Truths(call[r].asked)'
  BY DEF Observe
<1> QED
  BY <1>1

LEMMA SeenTyped ==
  ASSUME TypeOK, Observe, Ages, call' \in [Call -> CallRecord]
  PROVE  seen' \in [Call -> SUBSET ((Refusals \cup {"chosen"}) \X (Session \cup {NoSession}))]
<1> DEFINE Answers == (Refusals \cup {"chosen"}) \X (Session \cup {NoSession})
<1>1. \A r \in Call : Truths(call[r].asked)' \subseteq Answers
  <2> SUFFICES ASSUME NEW r \in Call PROVE Truths(call[r].asked)' \subseteq Answers
    OBVIOUS
  <2>1. call'[r].asked \in Session \cup {NoSession}
    BY DEF CallRecord
  <2> QED
    BY <2>1 DEF Truths, Refusals, Active
<1>2. \A r \in Call : seen[r] \subseteq Answers
  BY DEF TypeOK, RouterTypeOK
<1>3. \A r \in Call : seen'[r] \subseteq Answers
  BY <1>1, <1>2 DEF Observe
<1>4. seen' = [r \in Call |-> seen'[r]]
  BY DEF Observe
<1> QED
  BY <1>3, <1>4

(* A call that does not move in this step keeps what it has and knows. *)
LEMMA QuietKeepsCallInv ==
  ASSUME TypeOK, Observe, Ages, NEW r \in Call, CallInv(r),
         call'[r] = call[r], JobStep(r), Taking(r) => status[call[r].chosen] # "unborn",
         Taking(r) => call[r].chosen \in Session
  PROVE  CallInv(r)'
<1>1. seen[r] \subseteq seen'[r]
  BY SeenGrows
<1>2. Lines(r)'
  BY DEF CallInv, Lines
<1>3. Knows(r)'
  <2>1. job'[r] # "unsent" => job[r] # "unsent"
    BY DEF JobStep, Pending
  <2> QED
    BY <1>1, <2>1 DEF CallInv, Knows, Lines, Ages
<1>4. Sent(r)'
  <2>1. runs'[r] = IF job'[r] = "ran" THEN 1 ELSE 0
    BY SMT DEF CallInv, Sent, JobStep, Pending
  <2> QED
    BY <2>1 DEF CallInv, Sent, JobStep, Pending
<1>5. Closed(r)'
  BY DEF CallInv, Closed, Ages, Taking
<1> QED
  BY <1>2, <1>3, <1>4, <1>5 DEF CallInv

LEMMA CallTyped ==
  ASSUME TypeOK, NEW r \in Call
  PROVE  /\ call \in [Call -> CallRecord]
         /\ call[r] \in CallRecord
         /\ call[r].at \in Place
         /\ call[r].asked \in Session \cup {NoSession}
         /\ call[r].chosen \in Session \cup {NoSession}
         /\ call[r].verified \in Session \cup {NoSession}
         /\ call[r].answer \in Reply
  BY DEF TypeOK, CallRecord

(* What a call's entry is after Goto, after Answer, and after a choice. *)
LEMMA GotoCall ==
  ASSUME TypeOK, NEW r \in Call, NEW to \in Place, NEW from, Goto(r, from, to)
  PROVE  /\ OnlyCall(r) /\ call[r].at = from
         /\ call'[r].at = to /\ call'[r].asked = call[r].asked
         /\ call'[r].chosen = call[r].chosen /\ call'[r].answer = call[r].answer
         /\ call'[r].verified = call[r].verified
  BY CallTyped DEF Goto, OnlyCall, CallRecord

LEMMA AnswerCall ==
  ASSUME TypeOK, NEW r \in Call, NEW a \in Reply, Answer(r, a)
  PROVE  /\ OnlyCall(r)
         /\ call'[r].at = "done" /\ call'[r].asked = call[r].asked
         /\ call'[r].chosen = call[r].chosen /\ call'[r].answer = a
         /\ call'[r].verified = call[r].verified
  BY CallTyped DEF Answer, OnlyCall, CallRecord, Place

LEMMA ChooseCall ==
  ASSUME TypeOK, NEW r \in Call, NEW s \in Session, Choose(r, s)
  PROVE  /\ OnlyCall(r)
         /\ call'[r].at = (IF Verifying THEN "verify" ELSE "send")
         /\ call'[r].asked = call[r].asked
         /\ call'[r].chosen = s /\ call'[r].answer = call[r].answer
         /\ call'[r].verified = call[r].verified
  BY CallTyped DEF Choose, OnlyCall, CallRecord, Place, Selecting

-----------------------------------------------------------------------------
(* Ways in which a step keeps the table: it takes nothing out of it but    *)
(* what is lost, and no call begins to close.                              *)
LEMMA TableKept ==
  ASSUME Table, Ages, owned' \subseteq owned, owned \subseteq Session,
         \A r \in Call : Taking(r)' => Taking(r) /\ call'[r].chosen = call[r].chosen,
         \A r \in Call : Taking(r) => call[r].chosen \in Session
  PROVE  Table'
  BY DEF Table, Ages

LEMMA UnseenKept ==
  ASSUME Unseen, Ages
  PROVE  Unseen'
  BY DEF Unseen, Ages

(* The catalog is left alone. *)
LEMMA SnapshotsKept ==
  ASSUME Snapshots, UNCHANGED catalogVars
  PROVE  Snapshots'
  BY DEF Snapshots, NeverHalfRefreshed, Disjoint, catalogVars

(* A session that a call has in hand is a session. *)
LEMMA InHand ==
  ASSUME IInv
  PROVE  /\ TypeOK /\ Unseen /\ Table /\ Snapshots /\ owned \subseteq Session
         /\ \A r \in Call : /\ CallInv(r) /\ Lines(r) /\ Knows(r) /\ Sent(r) /\ Closed(r)
                            /\ Taking(r) => /\ call[r].chosen \in Session
                                            /\ status[call[r].chosen] # "unborn"
  BY DEF IInv, CallInv, Table, TypeOK, Session

(* A step of one call, which leaves catalog and table alone. *)
LEMMA OneCallKeepsInv ==
  ASSUME IInv, Observe, NEW r \in Call, OnlyCall(r), Ages, JobsTyped,
         \A q \in Call : q # r => JobStep(q),
         UNCHANGED <<owned, catalogVars>>,
         Taking(r)' => Taking(r) /\ call'[r].chosen = call[r].chosen,
         CallInv(r)'
  PROVE  IInv'
<1>1. \A q \in Call : CallInv(q)'
  BY InHand, QuietKeepsCallInv DEF OnlyCall
<1>2. Table'
  <2>1. \A q \in Call : Taking(q)' => Taking(q) /\ call'[q].chosen = call[q].chosen
    BY DEF OnlyCall, Taking
  <2> QED
    BY <2>1, InHand, TableKept
<1>3. TypeOK'
  BY InHand, SeenTyped
     DEF TypeOK, RouterTypeOK, CatalogTypeOK, OnlyCall, Ages, JobsTyped, CallRecord, catalogVars
<1> QED
  BY <1>1, <1>2, <1>3, InHand, UnseenKept, SnapshotsKept DEF IInv

(* The same when only the call itself changes. *)
LEMMA StillWorld ==
  ASSUME TypeOK
  PROVE  /\ UNCHANGED <<status, listener>> => Ages
         /\ UNCHANGED <<job, runs>> => JobsTyped /\ \A q \in Call : JobStep(q)
  BY DEF TypeOK, RouterTypeOK, Ages, JobsTyped, JobStep

(* An answer that says nothing of a session. *)
LEMMA AnswerKeepsInv ==
  ASSUME IInv, Observe, NEW r \in Call,
         NEW a \in {"failed", "invalid", "lifecycle", "opened", "cleaned",
                    "unverified", "notowned", "refreshed", "duplicate", "result"},
         Answer(r, a), Ages, UNCHANGED <<job, runs>>,
         a \in {"lifecycle", "unverified", "duplicate"} => job[r] = "unsent",
         a = "result" => job[r] = "ran",
         a = "notowned" => call[r].chosen = NoSession
  PROVE  CallInv(r)' /\ OnlyCall(r) /\ ~Taking(r)'
<1>1. a \in Reply
  BY DEF Reply, Refusals
<1>2. /\ OnlyCall(r)
      /\ call'[r].at = "done" /\ call'[r].asked = call[r].asked
      /\ call'[r].chosen = call[r].chosen /\ call'[r].answer = a
      /\ call'[r].verified = call[r].verified
  BY <1>1, InHand, AnswerCall
<1>3. Lines(r)' /\ Closed(r)'
  BY <1>2 DEF Lines, Closed
<1>4. Knows(r)'
  BY <1>2, InHand, SeenGrows DEF Knows, Refusals
<1>5. Sent(r)'
  BY <1>2, InHand DEF Sent, Refusals
<1> QED
  BY <1>2, <1>3, <1>4, <1>5 DEF CallInv, Taking

-----------------------------------------------------------------------------
(* route, _select *)

LEMMA RouteKeepsInv ==
  ASSUME IInv, Observe, NEW r \in Call, NEW s \in Session \cup {NoSession}, Route(r, s),
         UNCHANGED <<owned, catalogVars>>
  PROVE  IInv'
<1>1. TypeOK /\ Lines(r) /\ Knows(r) /\ Sent(r) /\ Closed(r)
  BY InHand
<1>2. /\ call[r].at = "idle" /\ OnlyCall(r)
      /\ call'[r].at = (IF s = NoSession THEN "list" ELSE "get")
      /\ call'[r].asked = s
      /\ call'[r].chosen = call[r].chosen /\ call'[r].answer = call[r].answer
      /\ call'[r].verified = call[r].verified
  BY <1>1, CallTyped DEF Route, OnlyCall, CallRecord, Place, Selecting
<1>3. UNCHANGED <<status, listener, job, runs>>
  BY DEF Route
<1>4. CallInv(r)' /\ ~Taking(r)'
  BY <1>1, <1>2, <1>3, RouterAssumption
     DEF CallInv, Lines, Knows, Sent, Closed, Taking, Refusals, Session
<1> QED
  BY <1>1, <1>2, <1>3, <1>4, StillWorld, OneCallKeepsInv

(* A session that is chosen was there when it was. *)
LEMMA ChooseKeepsInv ==
  ASSUME IInv, Observe, NEW r \in Call, NEW s \in Session, Choose(r, s),
         call[r].at \in {"get", "list"}, call[r].at = "get" => call[r].asked = s,
         s \in Active, call[r].at = "list" => Active = {s},
         UNCHANGED <<status, listener, job, runs, owned, catalogVars>>
  PROVE  IInv'
<1>1. TypeOK /\ Lines(r) /\ Knows(r) /\ Sent(r) /\ Closed(r)
  BY InHand
<1>2. /\ OnlyCall(r)
      /\ call'[r].at = (IF Verifying THEN "verify" ELSE "send")
      /\ call'[r].asked = call[r].asked
      /\ call'[r].chosen = s /\ call'[r].answer = call[r].answer
      /\ call'[r].verified = call[r].verified
  BY <1>1, ChooseCall
<1>3. <<"chosen", s>> \in seen'[r]
  <2>1. Truths(call[r].asked)' \subseteq seen'[r]
    BY SeenGrows DEF Selecting
  <2>2. Active' = Active
    BY DEF Active
  <2>3. CASE call[r].at = "get"
    BY <1>2, <2>1, <2>2, <2>3, RouterAssumption DEF Truths, Session
  <2>4. CASE call[r].at = "list"
    <3>1. call'[r].asked = NoSession /\ Active' = {s}
      BY <1>1, <1>2, <2>2, <2>4 DEF Lines
    <3>2. ~(Cardinality({s}) > 1)
      BY FS_Singleton, SMT
    <3> QED
      BY <2>1, <3>1, <3>2 DEF Truths
  <2> QED
    BY <2>3, <2>4
<1>4. Lines(r)' /\ Sent(r)' /\ Closed(r)' /\ ~Taking(r)'
  BY <1>1, <1>2, RouterAssumption DEF Lines, Sent, Closed, Taking, Refusals
<1>5. Knows(r)'
  BY <1>1, <1>2, <1>3 DEF Knows, Lines, Sent, Refusals
<1> QED
  BY <1>1, <1>2, <1>4, <1>5, StillWorld, OneCallKeepsInv DEF CallInv

(* registry.get: what is not there may be missing, or expired by now. *)
LEMMA GetKeepsInv ==
  ASSUME IInv, Observe, NEW r \in Call, Get(r), UNCHANGED <<owned, catalogVars>>
  PROVE  IInv'
<1>1. TypeOK /\ Lines(r) /\ Knows(r) /\ Sent(r) /\ Closed(r)
  BY InHand
<1>2. call[r].at = "get" /\ UNCHANGED <<status, listener, job, runs>>
  BY DEF Get
<1>3. call[r].asked \in Session /\ call[r].asked # NoSession
  BY <1>1, <1>2, RouterAssumption DEF Lines, Session
<1>4. CASE call[r].asked \in Active
  BY <1>2, <1>3, <1>4, ChooseKeepsInv DEF Get
<1>5. CASE call[r].asked \notin Active
  <2>1. /\ OnlyCall(r) /\ call'[r].at = "history" /\ call'[r].asked = call[r].asked
        /\ call'[r].chosen = call[r].chosen /\ call'[r].answer = call[r].answer
        /\ call'[r].verified = call[r].verified
    BY <1>1, <1>5, GotoCall DEF Get, Place, Selecting
  <2>2. \/ <<"missing", call[r].asked>> \in seen'[r]
        \/ status[call[r].asked] = "expired"
    <3>1. Truths(call[r].asked)' \subseteq seen'[r]
      BY <1>2, SeenGrows DEF Selecting
    <3>2. Active' = Active
      BY <1>2 DEF Active
    <3> QED
      BY <1>2, <1>3, <1>5, <2>1, <3>1, <3>2 DEF Truths
  <2>3. Lines(r)' /\ Sent(r)' /\ Closed(r)' /\ ~Taking(r)'
    BY <1>1, <1>2, <1>3, <2>1 DEF Lines, Sent, Closed, Taking, Refusals
  <2>4. Knows(r)'
    BY <1>1, <1>2, <2>1, <2>2 DEF Knows, Sent, Lines, Refusals
  <2> QED
    BY <1>1, <1>2, <2>1, <2>3, <2>4, StillWorld, OneCallKeepsInv DEF CallInv
<1> QED
  BY <1>4, <1>5

(* A refusal by the registry, which was true at some instant. *)
LEMMA RefusalKeepsInv ==
  ASSUME IInv, Observe, NEW r \in Call, NEW a \in {"expired", "missing", "nobody", "several"},
         call[r].at \in {"history", "list"}, Answer(r, a),
         <<a, call[r].asked>> \in seen'[r],
         UNCHANGED <<status, listener, job, runs, owned, catalogVars>>
  PROVE  IInv'
<1>1. TypeOK /\ Lines(r) /\ Knows(r) /\ Sent(r) /\ Closed(r)
  BY InHand
<1>2. /\ OnlyCall(r)
      /\ call'[r].at = "done" /\ call'[r].asked = call[r].asked
      /\ call'[r].chosen = call[r].chosen /\ call'[r].answer = a
      /\ call'[r].verified = call[r].verified
  BY <1>1, AnswerCall DEF Reply, Refusals
<1>3. Lines(r)' /\ Sent(r)' /\ Closed(r)' /\ ~Taking(r)'
  BY <1>1, <1>2 DEF Lines, Sent, Closed, Taking
<1>4. Knows(r)'
  BY <1>1, <1>2 DEF Knows, Sent
<1> QED
  BY <1>1, <1>2, <1>3, <1>4, StillWorld, OneCallKeepsInv DEF CallInv

(* registry.expired, after registry.get: "missing" was true then, or is   *)
(* true now.                                                               *)
LEMMA LookupExpiredKeepsInv ==
  ASSUME IInv, Observe, NEW r \in Call, LookupExpired(r), UNCHANGED <<owned, catalogVars>>
  PROVE  IInv'
<1> DEFINE s == call[r].asked
           a == IF status[s] = "expired" THEN "expired" ELSE "missing"
<1>1. TypeOK /\ Knows(r)
  BY InHand
<1>2. /\ call[r].at = "history" /\ Answer(r, a)
      /\ UNCHANGED <<status, listener, job, runs>>
  BY DEF LookupExpired
<1>3. call'[r].asked = s
  BY <1>1, <1>2, AnswerCall DEF Reply, Refusals
<1>4. <<a, s>> \in seen'[r]
  <2>1. Truths(s)' \subseteq seen'[r] /\ seen[r] \subseteq seen'[r]
    BY <1>2, SeenGrows DEF Selecting
  <2>2. Active' = Active
    BY <1>2 DEF Active
  <2>3. s # NoSession
    BY <1>2, InHand, RouterAssumption DEF CallInv, Lines, Session, IInv
  <2>4. CASE status[s] = "expired"
    BY <1>2, <1>3, <2>1, <2>2, <2>3, <2>4 DEF Truths, Active
  <2>5. CASE status[s] # "expired"
    BY <1>1, <1>2, <1>3, <2>1, <2>2, <2>3, <2>5 DEF Truths, Active, Knows
  <2> QED
    BY <2>4, <2>5
<1> QED
  BY <1>2, <1>4, RefusalKeepsInv

(* registry.list *)
LEMMA ListKeepsInv ==
  ASSUME IInv, Observe, NEW r \in Call, List(r), UNCHANGED <<owned, catalogVars>>
  PROVE  IInv'
<1>1. TypeOK /\ Lines(r)
  BY InHand
<1>2. /\ call[r].at = "list" /\ call[r].asked = NoSession
      /\ UNCHANGED <<status, listener, job, runs>>
  BY <1>1 DEF List, Lines
<1>3. Truths(call[r].asked)' \subseteq seen'[r] /\ Active' = Active
  BY <1>2, SeenGrows DEF Selecting, Active
<1>4. ASSUME NEW s \in Session, Active = {s}, Choose(r, s)
      PROVE  IInv'
  BY <1>2, <1>4, ChooseKeepsInv
<1>5. CASE Active = {} /\ Answer(r, "nobody")
  <2>1. call'[r].asked = NoSession
    BY <1>1, <1>2, <1>5, AnswerCall DEF Reply, Refusals
  <2>2. <<"nobody", call[r].asked>> \in seen'[r]
    BY <1>2, <1>3, <1>5, <2>1 DEF Truths
  <2> QED
    BY <1>2, <1>5, <2>2, RefusalKeepsInv
<1>6. CASE Cardinality(Active) > 1 /\ Answer(r, "several")
  <2>1. call'[r].asked = NoSession
    BY <1>1, <1>2, <1>6, AnswerCall DEF Reply, Refusals
  <2>2. Active # {}
    BY <1>6, FS_EmptySet, SMT
  <2>3. <<"several", call[r].asked>> \in seen'[r]
    BY <1>2, <1>3, <1>6, <2>1, <2>2 DEF Truths
  <2> QED
    BY <1>2, <1>6, <2>3, RefusalKeepsInv
<1> QED
  BY <1>4, <1>5, <1>6 DEF List

(* The verifier: only a record it accepts passes. *)
LEMMA VerifyKeepsInv ==
  ASSUME IInv, Observe, NEW r \in Call, Verify(r), UNCHANGED <<owned, catalogVars>>
  PROVE  IInv'
<1>1. TypeOK /\ Lines(r) /\ Knows(r) /\ Sent(r) /\ Closed(r)
  BY InHand
<1>2. call[r].at = "verify" /\ UNCHANGED <<status, listener, job, runs>>
  BY DEF Verify
<1>3. CASE call' = [call EXCEPT ![r].at = "send", ![r].verified = call[r].chosen]
  <2>1. /\ OnlyCall(r) /\ call'[r].at = "send" /\ call'[r].asked = call[r].asked
        /\ call'[r].chosen = call[r].chosen /\ call'[r].answer = call[r].answer
        /\ call'[r].verified = call[r].chosen
    BY <1>1, <1>3, CallTyped DEF OnlyCall, CallRecord, Place
  <2>2. Lines(r)' /\ Sent(r)' /\ Closed(r)' /\ ~Taking(r)'
    BY <1>1, <1>2, <2>1 DEF Lines, Sent, Closed, Taking, Refusals
  <2>3. Knows(r)'
    BY <1>1, <1>2, <2>1, SeenGrows DEF Knows, Lines, Sent, Refusals
  <2> QED
    BY <1>1, <1>2, <2>1, <2>2, <2>3, StillWorld, OneCallKeepsInv DEF CallInv
<1>4. ASSUME NEW a \in {"unverified", "failed", "invalid"}, Answer(r, a)
      PROVE  IInv'
  <2>1. job[r] = "unsent"
    BY <1>1, <1>2 DEF Sent
  <2> QED
    BY <1>1, <1>2, <1>4, <2>1, AnswerKeepsInv, StillWorld, OneCallKeepsInv
<1> QED
  BY <1>3, <1>4 DEF Verify

-----------------------------------------------------------------------------
(* The request *)

(* The connection is refused, or the request reaches whoever listens. *)
LEMMA SendKeepsInv ==
  ASSUME IInv, Observe, NEW r \in Call, Send(r), UNCHANGED <<owned, catalogVars>>
  PROVE  IInv'
<1> DEFINE at == listener[call[r].chosen]
<1>1. TypeOK /\ Lines(r) /\ Knows(r) /\ Sent(r) /\ Closed(r)
  BY InHand
<1>2. call[r].at = "send" /\ UNCHANGED <<status, listener, runs>>
  BY DEF Send
<1>3. CASE at = "nobody"
  <2>1. Answer(r, "failed") /\ UNCHANGED job
    BY <1>3 DEF Send
  <2> QED
    BY <1>1, <1>2, <2>1, AnswerKeepsInv, StillWorld, OneCallKeepsInv
<1>4. CASE at # "nobody"
  <2>1. Goto(r, "send", "wait") /\ job' = [job EXCEPT ![r] = at]
    BY <1>4 DEF Send
  <2>2. /\ OnlyCall(r) /\ call'[r].at = "wait" /\ call'[r].asked = call[r].asked
        /\ call'[r].chosen = call[r].chosen /\ call'[r].answer = call[r].answer
        /\ call'[r].verified = call[r].verified
    BY <1>1, <2>1, GotoCall DEF Place
  <2>3. at \in Pending
    <3>1. call[r].chosen \in Session
      BY <1>1, <1>2 DEF Lines
    <3> QED
      BY <1>1, <1>4, <3>1 DEF TypeOK, RouterTypeOK, Pending
  <2>4. /\ job'[r] = at /\ JobsTyped
        /\ \A q \in Call : q # r => JobStep(q)
    BY <1>1, <1>2, <2>1, <2>3 DEF TypeOK, RouterTypeOK, JobsTyped, JobStep, Pending
  <2>5. Lines(r)' /\ Closed(r)' /\ ~Taking(r)'
    BY <1>1, <1>2, <2>2 DEF Lines, Closed, Taking
  <2>6. Sent(r)'
    BY <1>1, <1>2, <2>2, <2>3, <2>4 DEF Sent, Lines, Pending, Refusals
  <2>7. Knows(r)'
    BY <1>1, <1>2, <2>2, SeenGrows DEF Knows, Lines, Refusals
  <2> QED
    BY <1>1, <1>2, <2>2, <2>4, <2>5, <2>6, <2>7, StillWorld, OneCallKeepsInv DEF CallInv
<1> QED
  BY <1>3, <1>4

(* The registry raises, the response comes, or the time is up. *)
LEMMA AnswersKeepInv ==
  ASSUME IInv, Observe, NEW r \in Call, RegistryRaises(r) \/ Receive(r) \/ GiveUp(r),
         UNCHANGED <<owned, catalogVars>>
  PROVE  IInv'
<1>1. TypeOK
  BY InHand
<1>2. PICK a \in {"failed", "result", "invalid"} :
        Answer(r, a) /\ (a = "result" => job[r] = "ran")
  BY DEF RegistryRaises, Receive, GiveUp
<1>3. UNCHANGED <<status, listener, job, runs>>
  BY DEF RegistryRaises, Receive, GiveUp
<1> QED
  BY <1>1, <1>2, <1>3, AnswerKeepsInv, StillWorld, OneCallKeepsInv

(* The handler thread runs the request, or it is lost. *)
LEMMA HandlerKeepsInv ==
  ASSUME IInv, Observe, NEW r \in Call, Execute(r) \/ Lose(r),
         UNCHANGED <<owned, catalogVars>>
  PROVE  IInv'
<1>1. TypeOK
  BY InHand
<1>2. JobsTyped /\ \A q \in Call : JobStep(q)
  <2>1. CASE Execute(r)
    <3>1. runs[r] + 1 \in Nat
      BY <1>1, SMT DEF TypeOK, RouterTypeOK
    <3> QED
      BY <1>1, <2>1, <3>1 DEF Execute, TypeOK, RouterTypeOK, JobsTyped, JobStep
  <2>2. CASE Lose(r)
    BY <1>1, <2>2 DEF Lose, TypeOK, RouterTypeOK, JobsTyped, JobStep
  <2> QED
    BY <2>1, <2>2
<1>3. Ages /\ UNCHANGED call
  BY <1>1, StillWorld DEF Execute, Lose
<1>4. OnlyCall(r)
  BY <1>1, <1>3, CallTyped DEF OnlyCall
<1>5. CallInv(r)'
  BY <1>2, <1>3, InHand, QuietKeepsCallInv
<1>6. Taking(r)' => Taking(r) /\ call'[r].chosen = call[r].chosen
  BY <1>3 DEF Taking
<1> QED
  BY <1>2, <1>3, <1>4, <1>5, <1>6, OneCallKeepsInv

(* The owners of the sessions, and the system. *)
LEMMA SessionsKeepInv ==
  ASSUME IInv, Observe,
         \/ \E g \in Gui : Publish(g) \/ Withdraw(g)
         \/ \E s \in Session : Expire(s) \/ Trim(s) \/ Down(s) \/ Rebind(s),
         UNCHANGED <<owned, catalogVars>>
  PROVE  IInv'
<1>1. TypeOK
  BY InHand
<1>2. UNCHANGED <<call, job, runs>>
  BY DEF Publish, Withdraw, Expire, Trim, Down, Rebind
<1>3. Ages
  <2>1. CASE \E g \in Gui : Publish(g) \/ Withdraw(g)
    BY <1>1, <2>1 DEF Publish, Register, Withdraw, TypeOK, RouterTypeOK, Ages, Session
  <2>2. CASE \E s \in Session : Expire(s) \/ Trim(s) \/ Down(s) \/ Rebind(s)
    BY <1>1, <2>2 DEF Expire, Trim, Down, Rebind, TypeOK, RouterTypeOK, Ages
  <2> QED
    BY <2>1, <2>2
<1>4. \A q \in Call : CallInv(q)'
  BY <1>1, <1>2, <1>3, InHand, QuietKeepsCallInv, StillWorld
<1>5. Table'
  <2>1. \A q \in Call : Taking(q)' => Taking(q) /\ call'[q].chosen = call[q].chosen
    BY <1>2 DEF Taking
  <2> QED
    BY <1>3, <2>1, InHand, TableKept
<1>6. TypeOK'
  BY <1>1, <1>2, <1>3, SeenTyped
     DEF TypeOK, RouterTypeOK, CatalogTypeOK, Ages, CallRecord, catalogVars
<1> QED
  BY <1>3, <1>4, <1>5, <1>6, InHand, UnseenKept, SnapshotsKept DEF IInv

-----------------------------------------------------------------------------
(* Session methods *)

(* The invariant from its parts, for a step that changes the table. *)
LEMMA TableStepKeepsInv ==
  ASSUME IInv, Observe, NEW r \in Call, OnlyCall(r), Ages, JobsTyped,
         \A q \in Call : q # r => JobStep(q),
         UNCHANGED catalogVars, owned' \subseteq Worker, Table', CallInv(r)'
  PROVE  IInv'
<1>1. \A q \in Call : CallInv(q)'
  BY InHand, QuietKeepsCallInv DEF OnlyCall
<1>2. TypeOK'
  BY InHand, SeenTyped
     DEF TypeOK, RouterTypeOK, CatalogTypeOK, OnlyCall, Ages, JobsTyped, CallRecord, catalogVars
<1> QED
  BY <1>1, <1>2, InHand, UnseenKept, SnapshotsKept DEF IInv

(* An opened worker is new, so no close has it in hand. *)
LEMMA OpenKeepsInv ==
  ASSUME IInv, Observe, NEW r \in Call, NEW w \in Worker, Open(r, w)
  PROVE  IInv'
<1>1. TypeOK /\ w \in Session
  BY InHand DEF Session
<1>2. /\ status[w] = "unborn"
      /\ status' = [status EXCEPT ![w] = "active"]
      /\ \E at \in {"itself", "nobody", "stranger"} : listener' = [listener EXCEPT ![w] = at]
      /\ owned' = owned \cup {w}
      /\ Answer(r, "opened")
      /\ UNCHANGED <<job, runs, catalogVars>>
  BY DEF Open, Register
<1>3. Ages
  BY <1>1, <1>2 DEF TypeOK, RouterTypeOK, Ages
<1>4. CallInv(r)' /\ OnlyCall(r) /\ ~Taking(r)'
  BY <1>2, <1>3, AnswerKeepsInv
<1>5. Table'
  <2>1. \A q \in Call : Taking(q)' => /\ Taking(q) /\ call'[q].chosen = call[q].chosen
                                      /\ call[q].chosen # w
    BY <1>2, <1>4, InHand DEF OnlyCall, Taking
  <2>2. \A s \in Session : status[s] # "unborn" => status'[s] # "unborn"
    BY <1>3 DEF Ages
  <2>3. status'[w] = "active"
    BY <1>1, <1>2 DEF TypeOK, RouterTypeOK
  <2> QED
    BY <1>2, <2>1, <2>2, <2>3, InHand DEF Table
<1>6. owned' \subseteq Worker
  BY <1>1, <1>2 DEF TypeOK
<1> QED
  BY <1>1, <1>2, <1>3, <1>4, <1>5, <1>6, StillWorld, TableStepKeepsInv

(* A close takes the worker out of the table, so that no other has it. *)
LEMMA CloseKeepsInv ==
  ASSUME IInv, Observe, NEW r \in Call, NEW s \in Session, Close(r, s)
  PROVE  IInv'
<1>1. /\ TypeOK /\ Table /\ Lines(r) /\ Knows(r) /\ Sent(r) /\ Closed(r)
      /\ Ages
      /\ call[r].at = "idle" /\ owned' = owned \ {s}
      /\ UNCHANGED <<status, listener, job, runs, catalogVars>>
  BY InHand, StillWorld DEF Close
<1>2. CASE s \notin owned
  <2>1. Answer(r, "notowned") /\ owned' = owned
    BY <1>1, <1>2 DEF Close
  <2>2. call[r].chosen = NoSession
    BY <1>1 DEF Lines
  <2>3. CallInv(r)' /\ OnlyCall(r) /\ ~Taking(r)'
    BY <1>1, <2>1, <2>2, AnswerKeepsInv
  <2> QED
    BY <1>1, <2>1, <2>3, StillWorld, OneCallKeepsInv
<1>3. CASE s \in owned
  <2>1. call' = [call EXCEPT ![r].at = "terminate", ![r].asked = s, ![r].chosen = s]
    BY <1>3 DEF Close
  <2>2. /\ OnlyCall(r)
        /\ call'[r].at = "terminate" /\ call'[r].asked = s
        /\ call'[r].chosen = s /\ call'[r].answer = call[r].answer
        /\ call'[r].verified = call[r].verified
    BY <1>1, <2>1, CallTyped DEF OnlyCall, CallRecord, Place
  <2>3. Lines(r)' /\ Sent(r)' /\ Closed(r)'
    BY <1>1, <2>2 DEF Lines, Sent, Closed, Refusals
  <2>4. Knows(r)'
    BY <1>1, <2>2 DEF Knows, Lines, Sent, Refusals
  <2>5. Table'
    <3>1. \A q \in Call : q # r =>
            /\ Taking(q)' => Taking(q) /\ call'[q].chosen = call[q].chosen
            /\ Taking(q)' => call'[q].chosen # s
      BY <1>1, <1>3, <2>2 DEF OnlyCall, Taking, Table
    <3>2. s \in Worker /\ status[s] # "unborn" /\ s \notin owned'
      BY <1>1, <1>3 DEF TypeOK, Table
    <3>3. \A q \in Call :
            Taking(q)' => /\ call'[q].chosen \in Worker
                          /\ call'[q].chosen \notin owned'
                          /\ status'[call'[q].chosen] # "unborn"
      BY <1>1, <2>2, <3>1, <3>2 DEF Table
    <3>4. \A p, q \in Call :
            Taking(p)' /\ Taking(q)' /\ call'[q].chosen = call'[p].chosen => q = p
      BY <1>1, <2>2, <3>1 DEF Table
    <3> QED
      BY <1>1, <3>3, <3>4 DEF Table
  <2>6. owned' \subseteq Worker
    BY <1>1 DEF TypeOK
  <2> QED
    BY <1>1, <2>2, <2>3, <2>4, <2>5, <2>6, StillWorld, TableStepKeepsInv DEF CallInv
<1> QED
  BY <1>2, <1>3

(* The end of a worker is the end of the requests its handlers had. *)
LEMMA KillStep ==
  ASSUME TypeOK, NEW w \in Session, Kill(w), UNCHANGED status
  PROVE  Ages /\ JobsTyped /\ (\A q \in Call : JobStep(q)) /\ listener'[w] # "itself"
<1>1. Ages /\ listener'[w] # "itself"
  BY DEF Kill, TypeOK, RouterTypeOK, Ages
<1>2. JobsTyped /\ \A q \in Call : JobStep(q)
  BY DEF Kill, TypeOK, RouterTypeOK, JobsTyped, JobStep, Pending
<1> QED
  BY <1>1, <1>2

LEMMA CloseTerminatesKeepsInv ==
  ASSUME IInv, Observe, NEW r \in Call, CloseTerminates(r)
  PROVE  IInv'
<1>1. /\ TypeOK /\ Lines(r) /\ Knows(r) /\ Sent(r) /\ Closed(r)
      /\ call[r].at = "terminate" /\ Taking(r) /\ call[r].chosen \in Session
      /\ Kill(call[r].chosen)
      /\ UNCHANGED <<status, owned, catalogVars>>
  BY InHand DEF CloseTerminates, Goto, Taking
<1>2. /\ OnlyCall(r) /\ call'[r].at = "unregister" /\ call'[r].asked = call[r].asked
      /\ call'[r].chosen = call[r].chosen /\ call'[r].answer = call[r].answer
      /\ call'[r].verified = call[r].verified
  BY <1>1, GotoCall DEF CloseTerminates, Place
<1>3. /\ Ages /\ JobsTyped /\ (\A q \in Call : JobStep(q))
      /\ listener'[call[r].chosen] # "itself"
  BY <1>1, KillStep
<1>4. job[r] = "unsent" /\ job'[r] = "unsent" /\ runs'[r] = runs[r]
  BY <1>1, <1>3 DEF Sent, JobStep, Pending
<1>5. Lines(r)' /\ Sent(r)' /\ Closed(r)'
  BY <1>1, <1>2, <1>3, <1>4 DEF Lines, Sent, Closed, Refusals
<1>6. Knows(r)'
  BY <1>1, <1>2, <1>4 DEF Knows, Lines, Refusals
<1> QED
  BY <1>1, <1>2, <1>3, <1>5, <1>6, OneCallKeepsInv DEF CallInv

(* The worker will not die, and its lease stands. *)
LEMMA CloseTerminateRaisesKeepsInv ==
  ASSUME IInv, Observe, NEW r \in Call, CloseTerminateRaises(r)
  PROVE  IInv'
<1>1. TypeOK /\ Answer(r, "failed") /\ UNCHANGED <<status, listener, job, runs, owned, catalogVars>>
  BY InHand DEF CloseTerminateRaises
<1> QED
  BY <1>1, AnswerKeepsInv, StillWorld, OneCallKeepsInv

(* The lease goes back, or was lost, or the registry raises. *)
LEMMA CloseEndsKeepsInv ==
  ASSUME IInv, Observe, NEW r \in Call, CloseUnregisters(r) \/ CloseRaises(r)
  PROVE  IInv'
<1> DEFINE s == call[r].chosen
<1>1. /\ TypeOK /\ Lines(r) /\ Knows(r) /\ Sent(r) /\ Closed(r)
      /\ call[r].at = "unregister" /\ Taking(r) /\ s \in Session
      /\ status[s] # "unborn" /\ listener[s] # "itself"
      /\ UNCHANGED <<listener, job, runs, owned, catalogVars>>
  BY InHand DEF CloseUnregisters, CloseRaises, Taking, Closed
<1>2. PICK a \in {"closed", "notowned", "failed"} :
        /\ Answer(r, a)
        /\ a = "closed" => status' = [status EXCEPT ![s] = "gone"] /\ status[s] = "active"
        /\ a = "notowned" => status' = status /\ status[s] # "active"
        /\ a = "failed" => status' = status
  <2>1. CASE CloseRaises(r)
    BY <2>1 DEF CloseRaises
  <2>2. CASE CloseUnregisters(r) /\ s \in Active
    BY <2>2 DEF CloseUnregisters, Active
  <2>3. CASE CloseUnregisters(r) /\ s \notin Active
    BY <1>1, <2>3 DEF CloseUnregisters, Active
  <2> QED
    BY <2>1, <2>2, <2>3
<1>3. Ages
  BY <1>1, <1>2 DEF TypeOK, RouterTypeOK, Ages
<1>4. /\ OnlyCall(r)
      /\ call'[r].at = "done" /\ call'[r].asked = call[r].asked
      /\ call'[r].chosen = s /\ call'[r].answer = a
      /\ call'[r].verified = call[r].verified
  BY <1>1, <1>2, AnswerCall DEF Reply, Refusals
<1>5. a \in {"closed", "notowned"} => status'[s] \in {"expired", "gone"}
  BY <1>1, <1>2 DEF TypeOK, RouterTypeOK
<1>6. Lines(r)' /\ Sent(r)' /\ Closed(r)'
  BY <1>1, <1>4, <1>5 DEF Lines, Sent, Closed, Refusals
<1>7. Knows(r)'
  BY <1>1, <1>4 DEF Knows, Sent, Refusals
<1>8. JobsTyped /\ \A q \in Call : JobStep(q)
  BY <1>1, StillWorld
<1> QED
  BY <1>1, <1>3, <1>4, <1>6, <1>7, <1>8, OneCallKeepsInv DEF CallInv

(* sessions/open without success, and sessions/cleanup. *)
LEMMA OpenFailsKeepsInv ==
  ASSUME IInv, Observe, NEW r \in Call, OpenFails(r)
  PROVE  IInv'
<1>1. TypeOK /\ job[r] = "unsent" /\ UNCHANGED <<status, listener, job, runs, owned, catalogVars>>
  BY InHand DEF OpenFails, Sent
<1>2. PICK a \in {"lifecycle", "failed", "invalid"} : Answer(r, a)
  BY DEF OpenFails
<1> QED
  BY <1>1, <1>2, AnswerKeepsInv, StillWorld, OneCallKeepsInv

LEMMA CleanupKeepsInv ==
  ASSUME IInv, Observe, NEW r \in Call, Cleanup(r)
  PROVE  IInv'
<1>1. /\ TypeOK /\ Answer(r, "cleaned")
      /\ UNCHANGED <<listener, job, runs, owned, catalogVars>>
  BY InHand DEF Cleanup
<1>2. Ages
  BY <1>1 DEF Cleanup, TypeOK, RouterTypeOK, Ages, Active
<1> QED
  BY <1>1, <1>2, AnswerKeepsInv, StillWorld, OneCallKeepsInv

(* The manager's heartbeat stops a worker of the table. *)
LEMMA ReclaimKeepsInv ==
  ASSUME IInv, Observe, NEW w \in Worker, Reclaim(w)
  PROVE  IInv'
<1>1. /\ TypeOK /\ w \in Session /\ owned' = owned \ {w}
      /\ Kill(w) \/ UNCHANGED <<listener, job, runs>>
      /\ UNCHANGED <<status, call, catalogVars>>
  BY InHand DEF Reclaim, Session
<1>2. Ages /\ JobsTyped /\ \A q \in Call : JobStep(q)
  BY <1>1, KillStep, StillWorld
<1>3. \A q \in Call : CallInv(q)'
  BY <1>1, <1>2, InHand, QuietKeepsCallInv
<1>4. Table'
  <2>1. \A q \in Call : Taking(q)' => Taking(q) /\ call'[q].chosen = call[q].chosen
    BY <1>1 DEF Taking
  <2> QED
    BY <1>1, <1>2, <2>1, InHand, TableKept
<1>5. TypeOK'
  BY <1>1, <1>2, SeenTyped
     DEF TypeOK, RouterTypeOK, CatalogTypeOK, Ages, JobsTyped, CallRecord, catalogVars
<1> QED
  BY <1>1, <1>2, <1>3, <1>4, <1>5, InHand, UnseenKept, SnapshotsKept DEF IInv

-----------------------------------------------------------------------------
(* ToolCatalog.refresh *)

(* Collections are the sequences of offers, one for each provider at most. *)
LEMMA CollectionIsSeq ==
  ASSUME NEW c \in Collections
  PROVE  /\ c \in Seq(Offers) /\ Len(c) \in 0..Providers /\ DOMAIN c = 1..Len(c)
<1>1. PICK n \in 0..Providers : c \in [1..n -> Offers]
  BY DEF Collections
<1>2. n \in Nat
  BY <1>1, CatalogAssumption, SMT
<1>3. c \in Seq(Offers)
  BY <1>1, <1>2, SeqDef
<1>4. Len(c) = n
  BY <1>1, <1>2, <1>3, LenProperties, SMT
<1> QED
  BY <1>1, <1>3, <1>4

LEMMA SeqIsCollection ==
  ASSUME NEW c \in Seq(Offers), Len(c) <= Providers
  PROVE  c \in Collections
<1>1. c \in [1..Len(c) -> Offers] /\ Len(c) \in Nat
  BY LenProperties
<1>2. Len(c) \in 0..Providers
  BY <1>1, CatalogAssumption, SMT
<1> QED
  BY <1>1, <1>2 DEF Collections

(* A collection grows by names that are not taken, and has none twice. *)
LEMMA CollectGrows ==
  ASSUME NEW c \in Collections, NEW offer \in Offers, Len(c) < Providers, Disjoint(c),
         Names(offer) \cap UNION {Names(c[i]) : i \in DOMAIN c} = {},
         \A k, l \in DOMAIN offer : offer[k] = offer[l] => k = l
  PROVE  Append(c, offer) \in Collections /\ Disjoint(Append(c, offer))
<1> DEFINE d == Append(c, offer)
<1>1. c \in Seq(Offers) /\ Len(c) \in Nat /\ DOMAIN c = 1..Len(c)
  BY CollectionIsSeq, SMT
<1>2. /\ d \in Seq(Offers) /\ Len(d) = Len(c) + 1 /\ DOMAIN d = 1..(Len(c) + 1)
      /\ \A i \in 1..Len(c) : d[i] = c[i]
      /\ d[Len(c) + 1] = offer
  BY <1>1, AppendProperties, LenProperties
<1>3. d \in Collections
  <2>1. Len(d) <= Providers
    BY <1>1, <1>2, CatalogAssumption, SMT
  <2> QED
    BY <1>2, <2>1, SeqIsCollection
<1>4. \A i \in 1..Len(c) : \A k \in DOMAIN c[i], l \in DOMAIN offer : c[i][k] # offer[l]
  BY <1>1 DEF Names
<1> HIDE DEF d
<1>5. ASSUME NEW i \in DOMAIN d, NEW j \in DOMAIN d,
             NEW k \in DOMAIN d[i], NEW l \in DOMAIN d[j], d[i][k] = d[j][l]
      PROVE  i = j /\ k = l
  <2>1. /\ i \in 1..Len(c) \/ i = Len(c) + 1
        /\ j \in 1..Len(c) \/ j = Len(c) + 1
    BY <1>1, <1>2, SMT
  <2>2. CASE i \in 1..Len(c) /\ j \in 1..Len(c)
    BY <1>1, <1>2, <1>5, <2>2 DEF Disjoint
  <2>3. CASE i \in 1..Len(c) /\ j = Len(c) + 1
    BY <1>2, <1>4, <1>5, <2>3
  <2>4. CASE i = Len(c) + 1 /\ j \in 1..Len(c)
    BY <1>2, <1>4, <1>5, <2>4
  <2>5. CASE i = Len(c) + 1 /\ j = Len(c) + 1
    BY <1>2, <1>5, <2>5
  <2> QED
    BY <2>1, <2>2, <2>3, <2>4, <2>5
<1> QED
  BY <1>3, <1>5 DEF Disjoint, d

LEMMA EmptyCollection == <<>> \in Collections /\ Disjoint(<<>>) /\ Len(<<>>) = 0
<1>1. <<>> \in Seq(Offers) /\ Len(<<>>) = 0 /\ 0 <= Providers
  BY CatalogAssumption, EmptySeq, SMT
<1>2. DOMAIN <<>> = {}
  BY SMT
<1> QED
  BY <1>1, <1>2, SeqIsCollection DEF Disjoint

(* The invariant from its parts, for a step of one call and the catalog. *)
LEMMA RefreshStepKeepsInv ==
  ASSUME IInv, Observe, NEW r \in Call, OnlyCall(r), CallInv(r)', ~Taking(r)',
         UNCHANGED <<status, listener, job, runs, owned>>,
         CatalogTypeOK', Snapshots'
  PROVE  IInv'
<1>1. TypeOK /\ Ages /\ JobsTyped /\ \A q \in Call : JobStep(q)
  BY InHand, StillWorld
<1>2. \A q \in Call : CallInv(q)'
  BY <1>1, InHand, QuietKeepsCallInv DEF OnlyCall
<1>3. Table'
  <2>1. \A q \in Call : Taking(q)' => Taking(q) /\ call'[q].chosen = call[q].chosen
    BY DEF OnlyCall, Taking
  <2> QED
    BY <1>1, <2>1, InHand, TableKept
<1>4. TypeOK'
  BY <1>1, SeenTyped
     DEF TypeOK, RouterTypeOK, OnlyCall, Ages, JobsTyped, CallRecord
<1> QED
  BY <1>1, <1>2, <1>3, <1>4, InHand, UnseenKept DEF IInv

LEMMA RefreshStartsKeepsInv ==
  ASSUME IInv, Observe, NEW r \in Call, RefreshStarts(r)
  PROVE  IInv'
<1>1. TypeOK /\ Lines(r) /\ Knows(r) /\ Sent(r) /\ Closed(r)
  BY InHand
<1>2. Goto(r, "idle", "refresh") /\ UNCHANGED <<status, listener, job, runs, owned, catalogVars>>
  BY DEF RefreshStarts
<1>3. /\ OnlyCall(r) /\ call[r].at = "idle"
      /\ call'[r].at = "refresh" /\ call'[r].asked = call[r].asked
      /\ call'[r].chosen = call[r].chosen /\ call'[r].answer = call[r].answer
      /\ call'[r].verified = call[r].verified
  BY <1>1, <1>2, GotoCall DEF Place
<1>4. Lines(r)' /\ Sent(r)' /\ Closed(r)' /\ ~Taking(r)'
  BY <1>1, <1>2, <1>3 DEF Lines, Sent, Closed, Taking, Refusals
<1>5. Knows(r)'
  BY <1>1, <1>2, <1>3 DEF Knows, Lines, Sent, Refusals
<1> QED
  BY <1>1, <1>2, <1>3, <1>4, <1>5, StillWorld, OneCallKeepsInv DEF CallInv

(* A provider gives its names, gives one that is taken, raises, or all have *)
(* given theirs and the snapshot is replaced.                               *)
LEMMA RefreshKeepsInv ==
  ASSUME IInv, Observe, NEW r \in Call, Refresh(r)
  PROVE  IInv'
<1>1. /\ TypeOK /\ CatalogTypeOK /\ Snapshots /\ Sent(r) /\ CallInv(r) /\ ~Taking(r)
      /\ call[r].at = "refresh"
      /\ UNCHANGED <<status, listener, job, runs, owned>>
      /\ r \in Refresher /\ collected[r] \in Collections /\ Disjoint(collected[r])
  BY InHand, ControlPlaneAssumption
     DEF Refresh, TypeOK, CatalogTypeOK, Snapshots, Taking, CallInv, Lines
<1>2. Ages /\ JobsTyped /\ (\A q \in Call : JobStep(q)) /\ job[r] = "unsent"
  BY <1>1, StillWorld DEF Sent
<1>3. ASSUME NEW c \in Collections, Disjoint(c), collected' = [collected EXCEPT ![r] = c],
             tools' = tools \/ (tools' = collected[r] /\ Len(collected[r]) = Providers)
      PROVE  CatalogTypeOK' /\ Snapshots'
  <2>1. CatalogTypeOK' /\ \A q \in Refresher : Disjoint(collected'[q])
    BY <1>1, <1>3 DEF CatalogTypeOK, Snapshots
  <2>2. NeverHalfRefreshed'
    BY <1>1, <1>3 DEF NeverHalfRefreshed, Snapshots, Disjoint
  <2> QED
    BY <2>1, <2>2 DEF Snapshots, Disjoint
<1>4. ASSUME NEW offer \in Offers, Collects(r, offer), UNCHANGED call
      PROVE  IInv'
  <2>1. Append(collected[r], offer) \in Collections /\ Disjoint(Append(collected[r], offer))
    BY <1>1, <1>4, CollectGrows DEF Collects, IsNew, Taken
  <2>2. CatalogTypeOK' /\ Snapshots'
    BY <1>3, <1>4, <2>1 DEF Collects
  <2>3. OnlyCall(r) /\ ~Taking(r)'
    BY <1>1, <1>4, CallTyped DEF OnlyCall, Taking
  <2>4. CallInv(r)'
    BY <1>1, <1>2, <1>4, QuietKeepsCallInv
  <2> QED
    BY <1>1, <2>2, <2>3, <2>4, RefreshStepKeepsInv
<1>5. ASSUME NEW a \in {"duplicate", "failed"}, Abandons(r), Answer(r, a)
      PROVE  IInv'
  <2>1. CatalogTypeOK' /\ Snapshots'
    BY <1>3, <1>5, EmptyCollection DEF Abandons
  <2>2. CallInv(r)' /\ OnlyCall(r) /\ ~Taking(r)'
    BY <1>1, <1>2, <1>5, AnswerKeepsInv
  <2> QED
    BY <1>1, <2>1, <2>2, RefreshStepKeepsInv
<1>6. CASE Publishes(r) /\ Answer(r, "refreshed")
  <2>1. CatalogTypeOK' /\ Snapshots'
    BY <1>3, <1>6, EmptyCollection DEF Publishes
  <2>2. CallInv(r)' /\ OnlyCall(r) /\ ~Taking(r)'
    BY <1>1, <1>2, <1>6, AnswerKeepsInv
  <2> QED
    BY <1>1, <2>1, <2>2, RefreshStepKeepsInv
<1> QED
  BY <1>4, <1>5, <1>6 DEF Refresh, Duplicate, ProviderRaises

-----------------------------------------------------------------------------
(* The invariant *)

LEMMA InitInv == Init => IInv
<1> SUFFICES ASSUME Init PROVE IInv
  OBVIOUS
<1>1. /\ status = [s \in Session |-> "unborn"]
      /\ listener = [s \in Session |-> "nobody"]
      /\ call = [r \in Call |-> [at |-> "idle", asked |-> NoSession,
                                 chosen |-> NoSession, verified |-> NoSession,
                                 answer |-> "none"]]
      /\ job = [r \in Call |-> "unsent"]
      /\ runs = [r \in Call |-> 0]
      /\ seen = [r \in Call |-> {}]
      /\ tools = <<>> /\ collected = [r \in Refresher |-> <<>>] /\ owned = {}
  BY DEF Init, RouterInit, CatalogInit
<1>2. CatalogTypeOK /\ Snapshots
  BY <1>1, EmptyCollection DEF CatalogTypeOK, Snapshots, NeverHalfRefreshed, Disjoint
<1>3. TypeOK
  BY <1>1, <1>2 DEF TypeOK, RouterTypeOK, Place, Selecting, Reply, Refusals
<1>4. \A r \in Call : CallInv(r)
  BY <1>1 DEF CallInv, Lines, Knows, Sent, Closed, Refusals
<1>5. Table /\ Unseen
  BY <1>1 DEF Table, Taking, Unseen
<1> QED
  BY <1>2, <1>3, <1>4, <1>5 DEF IInv

LEMMA BeginKeepsInv ==
  ASSUME IInv, Observe, NEW r \in Call, Begin(r)
  PROVE  IInv'
<1>1. ASSUME NEW s \in Session \cup {NoSession}, Route(r, s), UNCHANGED <<owned, catalogVars>>
      PROVE  IInv'
  BY <1>1, RouteKeepsInv
<1>2. ASSUME NEW s \in Session, Close(r, s)
      PROVE  IInv'
  BY <1>2, CloseKeepsInv
<1>3. ASSUME NEW w \in Worker, Open(r, w)
      PROVE  IInv'
  BY <1>3, OpenKeepsInv
<1>4. CASE OpenFails(r)
  BY <1>4, OpenFailsKeepsInv
<1>5. CASE Cleanup(r)
  BY <1>5, CleanupKeepsInv
<1>6. CASE RefreshStarts(r)
  BY <1>6, RefreshStartsKeepsInv
<1> QED
  BY <1>1, <1>2, <1>3, <1>4, <1>5, <1>6 DEF Begin

LEMMA CallStepKeepsInv ==
  ASSUME IInv, NEW r \in Call, CallStep(r)
  PROVE  IInv'
<1>1. Observe
  BY DEF CallStep
<1>2. CASE RouteStep(r)
  <2>1. UNCHANGED <<owned, catalogVars>>
    BY <1>2 DEF RouteStep
  <2>2. CASE Get(r)
    BY <1>1, <2>1, <2>2, GetKeepsInv
  <2>3. CASE LookupExpired(r)
    BY <1>1, <2>1, <2>3, LookupExpiredKeepsInv
  <2>4. CASE List(r)
    BY <1>1, <2>1, <2>4, ListKeepsInv
  <2>5. CASE Verify(r)
    BY <1>1, <2>1, <2>5, VerifyKeepsInv
  <2>6. CASE Send(r)
    BY <1>1, <2>1, <2>6, SendKeepsInv
  <2>7. CASE RegistryRaises(r) \/ Receive(r) \/ GiveUp(r)
    BY <1>1, <2>1, <2>7, AnswersKeepInv
  <2> QED
    BY <1>2, <2>2, <2>3, <2>4, <2>5, <2>6, <2>7 DEF RouteStep
<1>3. CASE CloseTerminates(r)
  BY <1>1, <1>3, CloseTerminatesKeepsInv
<1>4. CASE CloseUnregisters(r) \/ CloseRaises(r)
  BY <1>1, <1>4, CloseEndsKeepsInv
<1>5. CASE Refresh(r)
  BY <1>1, <1>5, RefreshKeepsInv
<1>6. CASE CloseTerminateRaises(r)
  BY <1>1, <1>6, CloseTerminateRaisesKeepsInv
<1> QED
  BY <1>2, <1>3, <1>4, <1>5, <1>6 DEF CallStep

LEMMA OutsideKeepsInv ==
  ASSUME IInv, Outside, Observe
  PROVE  IInv'
<1>1. ASSUME NEW r \in Call, Execute(r) \/ Lose(r), UNCHANGED <<owned, catalogVars>>
      PROVE  IInv'
  BY <1>1, HandlerKeepsInv
<1>2. CASE /\ \/ \E g \in Gui : Publish(g) \/ Withdraw(g)
              \/ \E s \in Session : Expire(s) \/ Trim(s) \/ Down(s) \/ Rebind(s)
           /\ UNCHANGED <<owned, catalogVars>>
  BY <1>2, SessionsKeepInv
<1>3. ASSUME NEW w \in Worker, Reclaim(w)
      PROVE  IInv'
  BY <1>3, ReclaimKeepsInv
<1> QED
  BY <1>1, <1>2, <1>3 DEF Outside

LEMMA StutterKeepsInv ==
  ASSUME IInv, UNCHANGED vars
  PROVE  IInv'
<1>1. UNCHANGED <<status, listener, call, job, runs, seen, tools, collected, owned>>
  BY DEF vars, routeVars
<1>2. TypeOK' /\ Unseen' /\ Table' /\ Snapshots'
  BY <1>1 DEF IInv, Unseen, TypeOK, RouterTypeOK, CatalogTypeOK, Table, Taking, Snapshots,
              NeverHalfRefreshed, Disjoint
<1>3. \A r \in Call : CallInv(r)'
  BY <1>1 DEF IInv, CallInv, Lines, Knows, Sent, Closed
<1> QED
  BY <1>2, <1>3 DEF IInv

LEMMA NextKeepsInv == IInv /\ [Next]_vars => IInv'
<1> SUFFICES ASSUME IInv, [Next]_vars PROVE IInv'
  OBVIOUS
<1>1. ASSUME NEW r \in Call, Begin(r), Observe
      PROVE  IInv'
  BY <1>1, BeginKeepsInv
<1>2. ASSUME NEW r \in Call, CallStep(r)
      PROVE  IInv'
  BY <1>2, CallStepKeepsInv
<1>3. CASE Outside /\ Observe
  BY <1>3, OutsideKeepsInv
<1>4. CASE UNCHANGED vars
  BY <1>4, StutterKeepsInv
<1> QED
  BY <1>1, <1>2, <1>3, <1>4 DEF Next

(* What a call has in hand and knows at each of its lines, what became of  *)
(* its request, and who has which worker of the table, in every state of   *)
(* the control plane.                                                      *)
THEOREM InductiveInvariant == Spec => []IInv
  BY InitInv, NextKeepsInv, PTL DEF Spec

-----------------------------------------------------------------------------
(* What it means *)

(* The calls, sessions, requests and snapshots have the values they are    *)
(* declared with.                                                          *)
THEOREM TypeCorrect == Spec => []TypeOK
<1>1. IInv => TypeOK
  BY DEF IInv
<1> QED
  BY <1>1, InductiveInvariant, PTL

(* What InstanceRouter tells a call about sessions was so at some instant  *)
(* while it asked, however sessions come, expire and go between its two    *)
(* lock sections and the verifier.                                         *)
THEOREM VerdictWasTrueHolds == Spec => []VerdictWasTrue
<1>1. IInv => VerdictWasTrue
  BY DEF IInv, CallInv, Knows, VerdictWasTrue
<1> QED
  BY <1>1, InductiveInvariant, PTL

(* With a verifier, no request leaves for the endpoint of a record that    *)
(* the verifier has not accepted in that call (router.py 50-54); who has   *)
(* the port is not part of the statement.                                  *)
THEOREM FailsClosedHolds == Spec => []FailsClosed
<1>1. IInv => FailsClosed
  <2> SUFFICES ASSUME IInv, Verifying, NEW r \in Call, job[r] # "unsent" \/ runs[r] > 0
               PROVE  call[r].chosen # NoSession /\ call[r].verified = call[r].chosen
    BY DEF FailsClosed
  <2>1. Knows(r) /\ Sent(r)
    BY InHand
  <2>2. job[r] # "unsent"
    BY <2>1, SMT DEF Sent
  <2> QED
    BY <2>1, <2>2, RouterAssumption DEF Knows, Session
<1> QED
  BY <1>1, InductiveInvariant, PTL

(* The code -32000 is left to the errors of the library.                   *)
LEMMA CodeOfLibraryErrors ==
  ASSUME NEW a, Code(a) = -32000
  PROVE  a \in Refusals \cup {"lifecycle", "duplicate"}
<1>1. CASE a \in {"invalid", "notowned"} /\ a \notin Refusals \cup {"lifecycle", "duplicate"}
  BY <1>1, SMT DEF Code, Refusals
<1>2. CASE a = "failed"
  BY <1>2, SMT DEF Code, Refusals
<1>3. CASE a \notin Refusals \cup {"lifecycle", "duplicate", "invalid", "notowned", "failed"}
  BY <1>3, SMT DEF Code, Refusals
<1> QED
  BY <1>1, <1>2, <1>3

(* No request is run twice, a result comes from one run, and -32000 means  *)
(* that no session has run the request or will.                            *)
THEOREM ExecutedAsAnsweredHolds == Spec => []ExecutedAsAnswered
<1>1. IInv => ExecutedAsAnswered
  <2> SUFFICES ASSUME IInv, NEW r \in Call
               PROVE  /\ runs[r] <= 1
                      /\ call[r].answer = "result" => runs[r] = 1
                      /\ Code(call[r].answer) = -32000 => runs[r] = 0 /\ job[r] \notin Pending
    BY DEF ExecutedAsAnswered
  <2>1. Sent(r)
    BY DEF IInv, CallInv
  <2>2. runs[r] <= 1 /\ (call[r].answer = "result" => runs[r] = 1)
    BY <2>1, SMT DEF Sent
  <2>3. ASSUME Code(call[r].answer) = -32000
        PROVE  runs[r] = 0 /\ job[r] \notin Pending
    BY <2>1, <2>3, CodeOfLibraryErrors DEF Sent, Pending
  <2> QED
    BY <2>2, <2>3
<1> QED
  BY <1>1, InductiveInvariant, PTL

(* A close that found its session in the manager's table has stopped it    *)
(* and it is published no more; one close at most is told so.              *)
THEOREM CloseEndsHolds == Spec => []CloseEnds
<1>1. IInv => CloseEnds
  <2> SUFFICES ASSUME IInv PROVE CloseEnds
    OBVIOUS
  <2>1. \A r \in Call : Closed(r)
    BY DEF IInv, CallInv
  <2>2. \A r, q \in Call :
          call[r].answer = "closed" /\ call[q].answer = "closed" =>
            r = q \/ call[r].chosen # call[q].chosen
    BY DEF IInv, Table, Taking
  <2> QED
    BY <2>1, <2>2 DEF CloseEnds, Closed, Active
<1> QED
  BY <1>1, InductiveInvariant, PTL

(* However many threads refresh, tools/list sees no snapshot but one that  *)
(* one thread collected from every provider, with no name twice.           *)
THEOREM NeverHalfRefreshedHolds == Spec => []NeverHalfRefreshed
<1>1. IInv => NeverHalfRefreshed
  BY DEF IInv, Snapshots
<1> QED
  BY <1>1, InductiveInvariant, PTL

-----------------------------------------------------------------------------
(* A step of a request moves the call of that request and no other. *)
LEMMA OwnCallOnly ==
  ASSUME TypeOK, NEW p \in Call, Begin(p) \/ CallStep(p), NEW r \in Call, call'[r] # call[r]
  PROVE  r = p
<1>1. CASE Begin(p)
  BY <1>1, CallTyped
     DEF Begin, Route, Close, Open, OpenFails, Cleanup, RefreshStarts, Goto, Answer
<1>2. CASE CallStep(p)
  <2>1. CASE RouteStep(p)
    BY <2>1, CallTyped
       DEF RouteStep, Get, LookupExpired, List, RegistryRaises, Verify, Send, Receive, GiveUp,
           Choose, Goto, Answer
  <2>2. CASE \/ CloseTerminates(p) \/ CloseTerminateRaises(p) \/ CloseUnregisters(p)
             \/ CloseRaises(p)
    BY <2>2, CallTyped
       DEF CloseTerminates, CloseTerminateRaises, CloseUnregisters, CloseRaises, Goto, Answer
  <2>3. CASE Refresh(p)
    BY <2>3, CallTyped DEF Refresh, Answer
  <2> QED
    BY <1>2, <2>1, <2>2, <2>3 DEF CallStep
<1> QED
  BY <1>1, <1>2

(* A step of a request that takes an endpoint down or a record back is a   *)
(* close that is past the table.                                           *)
LEMMA EndingIsClosing ==
  ASSUME TypeOK, Unseen, NEW r \in Call, Begin(r) \/ CallStep(r), NEW s \in Session,
         \/ listener[s] = "itself" /\ listener'[s] # "itself"
         \/ status[s] = "active" /\ status'[s] = "gone"
  PROVE  Taking(r) /\ call[r].chosen = s
<1>1. ~Begin(r)
  <2>1. ~\E w \in Worker : Open(r, w)
    BY DEF Open, Register, TypeOK, RouterTypeOK, Unseen
  <2>2. ~Cleanup(r)
    BY DEF Cleanup, TypeOK, RouterTypeOK, Active
  <2> QED
    BY <2>1, <2>2 DEF Begin, Route, Close, OpenFails, RefreshStarts
<1>2. ~RouteStep(r) /\ ~CloseTerminateRaises(r) /\ ~CloseRaises(r) /\ ~Refresh(r)
  BY DEF RouteStep, Get, LookupExpired, List, RegistryRaises, Verify, Send, Receive, GiveUp,
         CloseTerminateRaises, CloseRaises, Refresh
<1>3. CASE CloseTerminates(r)
  BY <1>3 DEF CloseTerminates, Kill, Goto, TypeOK, RouterTypeOK, Taking
<1>4. CASE CloseUnregisters(r)
  BY <1>4 DEF CloseUnregisters, TypeOK, RouterTypeOK, Taking
<1> QED
  BY <1>1, <1>2, <1>3, <1>4 DEF CallStep

(* What ClosesOnlyItsOwn says of one step. *)
OwnClosingStep ==
  \A r \in Call, s \in Session :
    /\ call'[r] # call[r]
    /\ \/ listener[s] = "itself" /\ listener'[s] # "itself"
       \/ status[s] = "active" /\ status'[s] = "gone"
    => s \in Worker /\ call[r].chosen = s

(* No request but a close that took that very worker from the manager's    *)
(* table takes an endpoint down or gives a lease back.                     *)
THEOREM ClosesOnlyItsOwnHolds == Spec => ClosesOnlyItsOwn
<1>1. IInv /\ [Next]_vars => [OwnClosingStep]_vars
  <2> SUFFICES ASSUME IInv, [Next]_vars, NEW r \in Call, NEW s \in Session,
                      call'[r] # call[r],
                      \/ listener[s] = "itself" /\ listener'[s] # "itself"
                      \/ status[s] = "active" /\ status'[s] = "gone"
               PROVE  s \in Worker /\ call[r].chosen = s
    BY DEF OwnClosingStep
  <2>1. ~Outside /\ ~UNCHANGED vars
    BY DEF Outside, Execute, Lose, Publish, Withdraw, Expire, Trim, Down, Rebind, Reclaim,
           vars, routeVars
  <2>2. Begin(r) \/ CallStep(r)
    BY <2>1, InHand, OwnCallOnly DEF Next
  <2>3. Taking(r) /\ call[r].chosen = s
    BY <2>2, InHand, EndingIsClosing
  <2> QED
    BY <2>3 DEF IInv, Table
<1> QED
  BY <1>1, InductiveInvariant, PTL DEF Spec, ClosesOnlyItsOwn, OwnClosingStep
=============================================================================
