--------------------------- MODULE HeadlessProofs ---------------------------
(***************************************************************************)
(* Proofs about Headless.tla, for any number of workers, session ids and   *)
(* threads.  What the manager promises rests on one fact: a worker is      *)
(* never in two hands at once (Exclusive).  The fact needs session ids     *)
(* that are not drawn twice, since open overwrites the entry of an id that *)
(* comes back; that is the assumption NoReuse of most theorems.            *)
(***************************************************************************)
EXTENDS Headless, TLAPS

NoReuse == "reuse" \notin Faults

-----------------------------------------------------------------------------
(* The loop is busy with a lease that was refused. *)
Refused == beating.at \in {"pop", "expire", "terminate"}

(* A call holds a worker exactly while it is at a place that needs one. *)
Hands ==
  /\ \A o \in Opener :
       opening[o].worker = None <=> opening[o].at \in {"idle", "launch"}
  /\ \A c \in Taker :
       closing[c].worker = None
         <=> closing[c].at \notin {"terminate", "unregister"}
  /\ beating.worker = None <=> beating.at \notin {"expire", "terminate"}
  /\ Refused => beating.sid \in SessionId

(* Nobody holds a worker that was not launched yet. *)
Born ==
  \A w \in Worker : process[w] = "unborn" =>
    /\ \A o \in Opener : opening[o].worker # w
    /\ \A s \in SessionId : processes[s] # w
    /\ \A c \in Taker : closing[c].worker # w
    /\ beating.worker # w

(* No worker is in two hands. *)
Exclusive ==
  /\ \A o, u \in Opener : opening[o].worker = opening[u].worker
                          /\ opening[o].worker # None => o = u
  /\ \A s, t \in SessionId : processes[s] = processes[t]
                             /\ processes[s] # None => s = t
  /\ \A c, d \in Taker : closing[c].worker = closing[d].worker
                         /\ closing[c].worker # None => c = d
  /\ \A o \in Opener : opening[o].worker # None =>
       /\ \A s \in SessionId : processes[s] # opening[o].worker
       /\ \A c \in Taker : closing[c].worker # opening[o].worker
       /\ beating.worker # opening[o].worker
  /\ \A s \in SessionId : processes[s] # None =>
       /\ \A c \in Taker : closing[c].worker # processes[s]
       /\ beating.worker # processes[s]
  /\ \A c \in Taker : closing[c].worker # None =>
       beating.worker # closing[c].worker

(* An id in the table or in the registry has been drawn, and the registry *)
(* knows a session of the table by its own lease or not at all.            *)
Drawn ==
  \A s \in SessionId :
    /\ processes[s] # None \/ registered[s] # None => s \in drawn
    /\ processes[s] # None => registered[s] \in {None, processes[s]}

(* Under the id of a lease the loop knows, there is that lease or none; *)
(* under the id of a lease that was refused, there is none for good.    *)
LeaseOf(s, w) ==
  /\ s \in drawn
  /\ processes[s] \in {None, w}
  /\ registered[s] \in {None, w}

KnownLeases ==
  /\ \A s \in SessionId, w \in Worker : <<s, w>> \in leases => LeaseOf(s, w)
  /\ Refused => /\ beating.sid \in drawn
                /\ registered[beating.sid] = None

(* What close_all has left to do. *)
Unlisted == \A s \in SessionId : processes[s] # None => s \in remaining

Shutting ==
  /\ closing[Shutdown].at # "idle" => closed
  /\ closing[Shutdown].at \in {"loop", "terminate", "unregister"} => Unlisted
  /\ closing[Shutdown].at = "done" => \A s \in SessionId : processes[s] = None

IInv == TypeOK /\ Hands /\ Born /\ Exclusive /\ Drawn /\ KnownLeases /\ Shutting

-----------------------------------------------------------------------------
(* The initial states satisfy the invariant. *)
LEMMA Initially == Init => IInv
<1> USE HeadlessAssumption DEF Init
<1>1. Init => TypeOK
  <2> SUFFICES ASSUME Init PROVE TypeOK
    OBVIOUS
  <2>1. opening \in [Opener -> [at : {"idle", "launch", "handshake", "probe",
                                     "register", "discard"},
                               worker : Worker \cup {None}]]
    OBVIOUS
  <2>2. closing \in [Taker -> [at : {"idle", "join", "loop", "terminate",
                                    "unregister", "done", "raised"},
                              sid : SessionId \cup {None},
                              worker : Worker \cup {None}]]
    OBVIOUS
  <2>3. beating \in [at : {"wait", "list", "beat", "pop", "expire", "terminate",
                          "ended", "raised"},
                    sid : SessionId \cup {None},
                    lease : Worker \cup {None},
                    worker : Worker \cup {None}]
    OBVIOUS
  <2>. QED BY <2>1, <2>2, <2>3 DEF TypeOK
<1>2. Init => Hands /\ Born /\ Exclusive
  BY DEF Hands, Refused, Born, Exclusive
<1>3. Init => Drawn /\ KnownLeases /\ Shutting
  BY DEF Drawn, KnownLeases, Refused, Shutting, Taker
<1>. QED BY <1>1, <1>2, <1>3 DEF IInv

(* WaitReady moves its call on, and nothing else. *)
LEMMA WaitReadyKeeps ==
  ASSUME TypeOK, NEW o \in Opener, WaitReady(o)
  PROVE  /\ \A u \in Opener : opening'[u].worker = opening[u].worker
         /\ UNCHANGED <<process, closing, remaining, beating, leases, processes,
                        closed, registered, drawn>>
<1>1. opening' = [opening EXCEPT ![o].at = opening'[o].at]
  BY DEF WaitReady, OpenTo
<1>. QED BY <1>1 DEF WaitReady, TypeOK

(* Steps preserve the types: an id is only looked up where there is one. *)
LEMMA TypeNext ==
  TypeOK /\ Hands /\ [Next]_vars => TypeOK'
<1> SUFFICES ASSUME TypeOK, Hands, [Next]_vars
    PROVE  TypeOK'
  OBVIOUS
<1> USE HeadlessAssumption
<1>1. ASSUME NEW o \in Opener, OpenCheck(o) PROVE TypeOK'
  BY <1>1 DEF OpenCheck, OpenTo, TypeOK
<1>2. ASSUME NEW o \in Opener, NEW w \in Worker, Launch(o, w) PROVE TypeOK'
  BY <1>2 DEF Launch, TypeOK
<1>3. ASSUME NEW o \in Opener, LaunchFails(o) PROVE TypeOK'
  BY <1>3 DEF LaunchFails, OpenEnds, TypeOK
<1>4. ASSUME NEW o \in Opener, Handshake(o) PROVE TypeOK'
  BY <1>4 DEF Handshake, OpenTo, TypeOK
<1>5. ASSUME NEW o \in Opener, WaitReady(o) PROVE TypeOK'
  BY <1>5 DEF WaitReady, OpenTo, TypeOK
<1>6. ASSUME NEW o \in Opener, ProbeRaises(o) PROVE TypeOK'
  BY <1>6 DEF ProbeRaises, OpenEnds, TypeOK
<1>7. ASSUME NEW o \in Opener, NEW s \in SessionId, RegisterSession(o, s)
      PROVE  TypeOK'
  BY <1>7 DEF RegisterSession, OpenEnds, TypeOK
<1>8. ASSUME NEW o \in Opener, RegisterRaises(o) PROVE TypeOK'
  BY <1>8 DEF RegisterRaises, OpenTo, TypeOK
<1>9. ASSUME NEW o \in Opener, Discard(o) PROVE TypeOK'
  BY <1>9 DEF Discard, OpenEnds, Terminate, TerminateRaises, TypeOK
<1>10. ASSUME NEW c \in Taker, NEW s \in SessionId, ClosePop(c, s)
       PROVE  TypeOK'
  BY <1>10 DEF ClosePop, TypeOK
<1>11. ASSUME NEW c \in Taker, CloseTerminate(c) PROVE TypeOK'
  BY <1>11 DEF CloseTerminate, CloseEnds, Terminate, TerminateRaises, TypeOK,
       Taker
<1>12. ASSUME NEW c \in Taker, CloseUnregister(c) PROVE TypeOK'
  BY <1>12 DEF CloseUnregister, CloseEnds, TypeOK
<1>13. ASSUME CloseAll PROVE TypeOK'
  BY <1>13 DEF CloseAll, TypeOK, Taker
<1>14. ASSUME CloseAllList PROVE TypeOK'
  BY <1>14 DEF CloseAllList, TypeOK, Taker
<1>15. ASSUME CloseAllEnds PROVE TypeOK'
  BY <1>15 DEF CloseAllEnds, TypeOK, Taker
<1>16. ASSUME HeartbeatWakes PROVE TypeOK'
  BY <1>16 DEF HeartbeatWakes, Beating, TypeOK
<1>17. ASSUME HeartbeatLists PROVE TypeOK'
  BY <1>17 DEF HeartbeatLists, Beating, TypeOK
<1>18. ASSUME HeartbeatStops PROVE TypeOK'
  BY <1>18 DEF HeartbeatStops, Beating, TypeOK
<1>19. ASSUME NEW s \in SessionId, NEW w \in Worker, Heartbeat(s, w)
       PROVE  TypeOK'
  BY <1>19 DEF Heartbeat, Beating, TypeOK
<1>20. ASSUME HeartbeatRests PROVE TypeOK'
  BY <1>20 DEF HeartbeatRests, Beating, TypeOK
<1>21. ASSUME HeartbeatPops PROVE TypeOK'
  BY <1>21 DEF HeartbeatPops, Beating, TypeOK, Hands, Refused
<1>22. ASSUME HeartbeatExpires PROVE TypeOK'
  BY <1>22 DEF HeartbeatExpires, TypeOK
<1>23. ASSUME HeartbeatReaps PROVE TypeOK'
  BY <1>23 DEF HeartbeatReaps, Beating, Terminate, TerminateRaises, TypeOK
<1>24. ASSUME NEW w \in Worker, WorkerExits(w) PROVE TypeOK'
  BY <1>24 DEF WorkerExits, TypeOK
<1>25. ASSUME NEW s \in SessionId, LeaseLost(s) PROVE TypeOK'
  BY <1>25 DEF LeaseLost, TypeOK
<1>26. CASE UNCHANGED vars
  BY <1>26 DEF vars, TypeOK
<1>. QED BY <1>1, <1>2, <1>3, <1>4, <1>5, <1>6, <1>7, <1>8, <1>9, <1>10,
      <1>11, <1>12, <1>13, <1>14, <1>15, <1>16, <1>17, <1>18, <1>19, <1>20,
      <1>21, <1>22, <1>23, <1>24, <1>25, <1>26 DEF Next, OpenStep, CloseStep,
      CloseAllStep, HeartbeatStep, Taker

(* Calls take a worker up and put it down at the right places. *)
LEMMA HandsNext ==
  TypeOK /\ Hands /\ [Next]_vars => Hands'
<1> SUFFICES ASSUME TypeOK, Hands, [Next]_vars
    PROVE  Hands'
  OBVIOUS
<1> USE HeadlessAssumption
<1>1. ASSUME NEW o \in Opener, OpenCheck(o) PROVE Hands'
  BY <1>1 DEF OpenCheck, OpenTo, Hands, Refused
<1>2. ASSUME NEW o \in Opener, NEW w \in Worker, Launch(o, w) PROVE Hands'
  BY <1>2 DEF Launch, Hands, Refused
<1>3. ASSUME NEW o \in Opener, LaunchFails(o) PROVE Hands'
  BY <1>3 DEF LaunchFails, OpenEnds, Hands, Refused
<1>4. ASSUME NEW o \in Opener, Handshake(o) PROVE Hands'
  BY <1>4 DEF Handshake, OpenTo, Hands, Refused
<1>5. ASSUME NEW o \in Opener, WaitReady(o) PROVE Hands'
  BY <1>5 DEF WaitReady, OpenTo, TypeOK, Hands, Refused
<1>6. ASSUME NEW o \in Opener, ProbeRaises(o) PROVE Hands'
  BY <1>6 DEF ProbeRaises, OpenEnds, Hands, Refused
<1>7. ASSUME NEW o \in Opener, NEW s \in SessionId, RegisterSession(o, s)
      PROVE  Hands'
  BY <1>7 DEF RegisterSession, OpenEnds, Hands, Refused
<1>8. ASSUME NEW o \in Opener, RegisterRaises(o) PROVE Hands'
  BY <1>8 DEF RegisterRaises, OpenTo, Hands, Refused
<1>9. ASSUME NEW o \in Opener, Discard(o) PROVE Hands'
  BY <1>9 DEF Discard, OpenEnds, Terminate, TerminateRaises, Hands, Refused
<1>10. ASSUME NEW c \in Taker, NEW s \in SessionId, ClosePop(c, s) PROVE Hands'
  BY <1>10 DEF ClosePop, Hands, Refused
<1>11. ASSUME NEW c \in Taker, CloseTerminate(c) PROVE Hands'
  BY <1>11 DEF CloseTerminate, CloseEnds, Terminate, TerminateRaises, TypeOK,
       Hands, Refused
<1>12. ASSUME NEW c \in Taker, CloseUnregister(c) PROVE Hands'
  BY <1>12 DEF CloseUnregister, CloseEnds, TypeOK, Hands, Refused
<1>13. ASSUME CloseAll PROVE Hands'
  BY <1>13 DEF CloseAll, Hands, Refused
<1>14. ASSUME CloseAllList PROVE Hands'
  BY <1>14 DEF CloseAllList, Hands, Refused
<1>15. ASSUME CloseAllEnds PROVE Hands'
  BY <1>15 DEF CloseAllEnds, Hands, Refused
<1>16. ASSUME HeartbeatWakes PROVE Hands'
  BY <1>16 DEF HeartbeatWakes, Beating, Hands, Refused
<1>17. ASSUME HeartbeatLists PROVE Hands'
  BY <1>17 DEF HeartbeatLists, Beating, Hands, Refused
<1>18. ASSUME HeartbeatStops PROVE Hands'
  BY <1>18 DEF HeartbeatStops, Beating, Hands, Refused
<1>19. ASSUME NEW s \in SessionId, NEW w \in Worker, Heartbeat(s, w)
       PROVE  Hands'
  BY <1>19 DEF Heartbeat, Beating, Hands, Refused
<1>20. ASSUME HeartbeatRests PROVE Hands'
  BY <1>20 DEF HeartbeatRests, Beating, Hands, Refused
<1>21. ASSUME HeartbeatPops PROVE Hands'
  BY <1>21 DEF HeartbeatPops, Beating, Hands, Refused
<1>22. ASSUME HeartbeatExpires PROVE Hands'
  BY <1>22 DEF HeartbeatExpires, Hands, Refused
<1>23. ASSUME HeartbeatReaps PROVE Hands'
  BY <1>23 DEF HeartbeatReaps, Beating, Terminate, TerminateRaises, Hands,
       Refused
<1>24. ASSUME NEW w \in Worker, WorkerExits(w) PROVE Hands'
  BY <1>24 DEF WorkerExits, Hands, Refused
<1>25. ASSUME NEW s \in SessionId, LeaseLost(s) PROVE Hands'
  BY <1>25 DEF LeaseLost, Hands, Refused
<1>26. CASE UNCHANGED vars
  BY <1>26 DEF vars, Hands, Refused
<1>. QED BY <1>1, <1>2, <1>3, <1>4, <1>5, <1>6, <1>7, <1>8, <1>9, <1>10,
      <1>11, <1>12, <1>13, <1>14, <1>15, <1>16, <1>17, <1>18, <1>19, <1>20,
      <1>21, <1>22, <1>23, <1>24, <1>25, <1>26 DEF Next, OpenStep, CloseStep,
      CloseAllStep, HeartbeatStep, Taker

(* A worker gets into a hand by Launch, then from hand to hand. *)
LEMMA BornNext ==
  TypeOK /\ Hands /\ Born /\ [Next]_vars => Born'
<1> SUFFICES ASSUME TypeOK, Hands, Born, [Next]_vars
    PROVE  Born'
  OBVIOUS
<1> USE HeadlessAssumption
<1>1. ASSUME NEW o \in Opener, OpenCheck(o) PROVE Born'
  BY <1>1 DEF OpenCheck, OpenTo, Born
<1>2. ASSUME NEW o \in Opener, NEW w \in Worker, Launch(o, w) PROVE Born'
  BY <1>2 DEF Launch, TypeOK, Born
<1>3. ASSUME NEW o \in Opener, LaunchFails(o) PROVE Born'
  BY <1>3 DEF LaunchFails, OpenEnds, Born
<1>4. ASSUME NEW o \in Opener, Handshake(o) PROVE Born'
  BY <1>4 DEF Handshake, OpenTo, Born
<1>5. ASSUME NEW o \in Opener, WaitReady(o) PROVE Born'
  BY <1>5 DEF WaitReady, OpenTo, TypeOK, Taker, Born
<1>6. ASSUME NEW o \in Opener, ProbeRaises(o) PROVE Born'
  BY <1>6 DEF ProbeRaises, OpenEnds, Born
<1>7. ASSUME NEW o \in Opener, NEW s \in SessionId, RegisterSession(o, s)
      PROVE  Born'
  BY <1>7 DEF RegisterSession, OpenEnds, Born
<1>8. ASSUME NEW o \in Opener, RegisterRaises(o) PROVE Born'
  BY <1>8 DEF RegisterRaises, OpenTo, Born
<1>9. ASSUME NEW o \in Opener, Discard(o) PROVE Born'
  BY <1>9 DEF Discard, OpenEnds, Terminate, TerminateRaises, TypeOK, Born
<1>10. ASSUME NEW c \in Taker, NEW s \in SessionId, ClosePop(c, s) PROVE Born'
  BY <1>10 DEF ClosePop, Born
<1>11. ASSUME NEW c \in Taker, CloseTerminate(c) PROVE Born'
  BY <1>11 DEF CloseTerminate, CloseEnds, Terminate, TerminateRaises, TypeOK,
       Born
<1>12. ASSUME NEW c \in Taker, CloseUnregister(c) PROVE Born'
  BY <1>12 DEF CloseUnregister, CloseEnds, TypeOK, Born
<1>13. ASSUME CloseAll PROVE Born'
  BY <1>13 DEF CloseAll, Born
<1>14. ASSUME CloseAllList PROVE Born'
  BY <1>14 DEF CloseAllList, Born
<1>15. ASSUME CloseAllEnds PROVE Born'
  BY <1>15 DEF CloseAllEnds, Born
<1>16. ASSUME HeartbeatWakes PROVE Born'
  BY <1>16 DEF HeartbeatWakes, Beating, Born
<1>17. ASSUME HeartbeatLists PROVE Born'
  BY <1>17 DEF HeartbeatLists, Beating, Born
<1>18. ASSUME HeartbeatStops PROVE Born'
  BY <1>18 DEF HeartbeatStops, Beating, Born
<1>19. ASSUME NEW s \in SessionId, NEW w \in Worker, Heartbeat(s, w)
       PROVE  Born'
  BY <1>19 DEF Heartbeat, Beating, Born
<1>20. ASSUME HeartbeatRests PROVE Born'
  BY <1>20 DEF HeartbeatRests, Beating, Born
<1>21. ASSUME HeartbeatPops PROVE Born'
  BY <1>21 DEF HeartbeatPops, Beating, Hands, Refused, Born
<1>22. ASSUME HeartbeatExpires PROVE Born'
  BY <1>22 DEF HeartbeatExpires, Born
<1>23. ASSUME HeartbeatReaps PROVE Born'
  BY <1>23 DEF HeartbeatReaps, Beating, Terminate, TerminateRaises, TypeOK,
       Born
<1>24. ASSUME NEW w \in Worker, WorkerExits(w) PROVE Born'
  BY <1>24 DEF WorkerExits, Born
<1>25. ASSUME NEW s \in SessionId, LeaseLost(s) PROVE Born'
  BY <1>25 DEF LeaseLost, Born
<1>26. CASE UNCHANGED vars
  BY <1>26 DEF vars, Born
<1>. QED BY <1>1, <1>2, <1>3, <1>4, <1>5, <1>6, <1>7, <1>8, <1>9, <1>10,
      <1>11, <1>12, <1>13, <1>14, <1>15, <1>16, <1>17, <1>18, <1>19, <1>20,
      <1>21, <1>22, <1>23, <1>24, <1>25, <1>26 DEF Next, OpenStep, CloseStep,
      CloseAllStep, HeartbeatStep, Taker

(* Whoever passes a worker on no longer holds it. *)
LEMMA ExclusiveNext ==
  NoReuse /\ TypeOK /\ Hands /\ Born /\ Drawn /\ Exclusive /\ [Next]_vars
    => Exclusive'
<1> SUFFICES ASSUME NoReuse, TypeOK, Hands, Born, Drawn, Exclusive,
      [Next]_vars
    PROVE  Exclusive'
  OBVIOUS
<1> USE HeadlessAssumption
<1>1. ASSUME NEW o \in Opener, OpenCheck(o) PROVE Exclusive'
  BY <1>1 DEF OpenCheck, OpenTo, Exclusive
<1>2. ASSUME NEW o \in Opener, NEW w \in Worker, Launch(o, w) PROVE Exclusive'
  BY <1>2 DEF Launch, Born, Exclusive
<1>3. ASSUME NEW o \in Opener, LaunchFails(o) PROVE Exclusive'
  BY <1>3 DEF LaunchFails, OpenEnds, Exclusive
<1>4. ASSUME NEW o \in Opener, Handshake(o) PROVE Exclusive'
  BY <1>4 DEF Handshake, OpenTo, Exclusive
<1>5. ASSUME NEW o \in Opener, WaitReady(o) PROVE Exclusive'
  BY <1>5, WaitReadyKeeps DEF Exclusive
<1>6. ASSUME NEW o \in Opener, ProbeRaises(o) PROVE Exclusive'
  BY <1>6 DEF ProbeRaises, OpenEnds, Exclusive
<1>7. ASSUME NEW o \in Opener, NEW s \in SessionId, RegisterSession(o, s)
      PROVE  Exclusive'
  BY <1>7 DEF RegisterSession, OpenEnds, TypeOK, Exclusive
<1>8. ASSUME NEW o \in Opener, RegisterRaises(o) PROVE Exclusive'
  BY <1>8 DEF RegisterRaises, OpenTo, Exclusive
<1>9. ASSUME NEW o \in Opener, Discard(o) PROVE Exclusive'
  BY <1>9 DEF Discard, OpenEnds, Terminate, TerminateRaises, Exclusive
<1>10. ASSUME NEW c \in Taker, NEW s \in SessionId, ClosePop(c, s)
       PROVE  Exclusive'
  BY <1>10 DEF ClosePop, TypeOK, Exclusive
<1>11. ASSUME NEW c \in Taker, CloseTerminate(c) PROVE Exclusive'
  <2>1. \A d \in Taker : closing'[d].worker \in {closing[d].worker, None}
    BY <1>11 DEF CloseTerminate, CloseEnds, TypeOK
  <2>. QED BY <1>11, <2>1 DEF CloseTerminate, Exclusive
<1>12. ASSUME NEW c \in Taker, CloseUnregister(c) PROVE Exclusive'
  <2>1. \A d \in Taker : closing'[d].worker \in {closing[d].worker, None}
    BY <1>12 DEF CloseUnregister, CloseEnds, TypeOK
  <2>. QED BY <1>12, <2>1 DEF CloseUnregister, Exclusive
<1>13. ASSUME CloseAll PROVE Exclusive'
  BY <1>13 DEF CloseAll, Exclusive
<1>14. ASSUME CloseAllList PROVE Exclusive'
  BY <1>14 DEF CloseAllList, Exclusive
<1>15. ASSUME CloseAllEnds PROVE Exclusive'
  BY <1>15 DEF CloseAllEnds, Exclusive
<1>16. ASSUME HeartbeatWakes PROVE Exclusive'
  BY <1>16 DEF HeartbeatWakes, Beating, Exclusive
<1>17. ASSUME HeartbeatLists PROVE Exclusive'
  BY <1>17 DEF HeartbeatLists, Beating, Exclusive
<1>18. ASSUME HeartbeatStops PROVE Exclusive'
  BY <1>18 DEF HeartbeatStops, Beating, Exclusive
<1>19. ASSUME NEW s \in SessionId, NEW w \in Worker, Heartbeat(s, w)
       PROVE  Exclusive'
  BY <1>19 DEF Heartbeat, Beating, Exclusive
<1>20. ASSUME HeartbeatRests PROVE Exclusive'
  BY <1>20 DEF HeartbeatRests, Beating, Exclusive
<1>21. ASSUME HeartbeatPops PROVE Exclusive'
  BY <1>21 DEF HeartbeatPops, Beating, TypeOK, Hands, Refused, Exclusive
<1>22. ASSUME HeartbeatExpires PROVE Exclusive'
  BY <1>22 DEF HeartbeatExpires, Exclusive
<1>23. ASSUME HeartbeatReaps PROVE Exclusive'
  BY <1>23 DEF HeartbeatReaps, Beating, Terminate, TerminateRaises, Exclusive
<1>24. ASSUME NEW w \in Worker, WorkerExits(w) PROVE Exclusive'
  BY <1>24 DEF WorkerExits, Exclusive
<1>25. ASSUME NEW s \in SessionId, LeaseLost(s) PROVE Exclusive'
  BY <1>25 DEF LeaseLost, Exclusive
<1>26. CASE UNCHANGED vars
  BY <1>26 DEF vars, Exclusive
<1>. QED BY <1>1, <1>2, <1>3, <1>4, <1>5, <1>6, <1>7, <1>8, <1>9, <1>10,
      <1>11, <1>12, <1>13, <1>14, <1>15, <1>16, <1>17, <1>18, <1>19, <1>20,
      <1>21, <1>22, <1>23, <1>24, <1>25, <1>26 DEF Next, OpenStep, CloseStep,
      CloseAllStep, HeartbeatStep, Taker

(* An id is drawn before it is used. *)
LEMMA DrawnNext ==
  TypeOK /\ Hands /\ Drawn /\ [Next]_vars => Drawn'
<1> SUFFICES ASSUME TypeOK, Hands, Drawn, [Next]_vars
    PROVE  Drawn'
  OBVIOUS
<1> USE HeadlessAssumption
<1>1. ASSUME NEW o \in Opener, NEW s \in SessionId, RegisterSession(o, s)
      PROVE  Drawn'
  BY <1>1 DEF RegisterSession, OpenEnds, TypeOK, Drawn
<1>2. ASSUME NEW c \in Taker, NEW s \in SessionId, ClosePop(c, s) PROVE Drawn'
  BY <1>2 DEF ClosePop, Drawn
<1>3. ASSUME NEW c \in Taker, CloseUnregister(c) PROVE Drawn'
  BY <1>3 DEF CloseUnregister, CloseEnds, TypeOK, Drawn
<1>4. ASSUME HeartbeatPops PROVE Drawn'
  BY <1>4 DEF HeartbeatPops, Drawn
<1>5. ASSUME HeartbeatExpires PROVE Drawn'
  BY <1>5 DEF HeartbeatExpires, Drawn
<1>6. ASSUME NEW s \in SessionId, LeaseLost(s) PROVE Drawn'
  BY <1>6 DEF LeaseLost, Drawn
<1>7. CASE UNCHANGED <<processes, registered, drawn>>
  BY <1>7 DEF Drawn
<1>. QED BY <1>1, <1>2, <1>3, <1>4, <1>5, <1>6, <1>7 DEF Next, OpenStep,
         CloseStep, CloseAllStep, HeartbeatStep, Taker, vars, OpenCheck,
         Launch, LaunchFails, Handshake, WaitReady, ProbeRaises,
         RegisterRaises, Discard, CloseTerminate, CloseAll, CloseAllList,
         CloseAllEnds, HeartbeatWakes, HeartbeatLists, HeartbeatStops,
         Heartbeat, HeartbeatRests, HeartbeatReaps, WorkerExits, OpenTo,
         OpenEnds, Terminate, TerminateRaises, CloseEnds

(* A lease that is lost stays lost, and no other one takes its id. *)
LEMMA KnownLeasesNext ==
  NoReuse /\ TypeOK /\ Hands /\ Drawn /\ KnownLeases /\ [Next]_vars
    => KnownLeases'
<1> SUFFICES ASSUME NoReuse, TypeOK, Hands, Drawn, KnownLeases, [Next]_vars
    PROVE  KnownLeases'
  OBVIOUS
<1> USE HeadlessAssumption
<1>1. ASSUME NEW o \in Opener, NEW s \in SessionId, RegisterSession(o, s)
      PROVE  KnownLeases'
  BY <1>1 DEF RegisterSession, OpenEnds, Refused, NoReuse, KnownLeases,
       LeaseOf
<1>2. ASSUME NEW c \in Taker, NEW s \in SessionId, ClosePop(c, s)
      PROVE  KnownLeases'
  BY <1>2 DEF ClosePop, Refused, KnownLeases, LeaseOf
<1>3. ASSUME NEW c \in Taker, CloseUnregister(c) PROVE KnownLeases'
  BY <1>3 DEF CloseUnregister, CloseEnds, TypeOK, Refused, KnownLeases,
       LeaseOf
<1>4. ASSUME HeartbeatLists PROVE KnownLeases'
  <2>1. \A s \in SessionId, w \in Worker :
          <<s, w>> \in leases' => processes[s] = w
    BY <1>4, Zenon DEF HeartbeatLists
  <2>2. /\ UNCHANGED <<processes, registered, drawn>>
        /\ beating'.at = "beat"
    BY <1>4 DEF HeartbeatLists, Beating
  <2>. QED BY <2>1, <2>2 DEF Drawn, KnownLeases, Refused, LeaseOf
<1>5. ASSUME NEW s \in SessionId, NEW w \in Worker, Heartbeat(s, w)
      PROVE  KnownLeases'
  BY <1>5 DEF Heartbeat, Beating, Refused, KnownLeases, LeaseOf
<1>6. ASSUME HeartbeatRests PROVE KnownLeases'
  BY <1>6 DEF HeartbeatRests, Beating, Refused, KnownLeases
<1>7. ASSUME HeartbeatPops PROVE KnownLeases'
  BY <1>7 DEF HeartbeatPops, Beating, Refused, KnownLeases, LeaseOf
<1>8. ASSUME HeartbeatExpires PROVE KnownLeases'
  BY <1>8 DEF HeartbeatExpires, Refused, KnownLeases, LeaseOf
<1>9. ASSUME HeartbeatReaps PROVE KnownLeases'
  BY <1>9 DEF HeartbeatReaps, Beating, Terminate, TerminateRaises, Refused,
       KnownLeases, LeaseOf
<1>10. ASSUME HeartbeatWakes PROVE KnownLeases'
  BY <1>10 DEF HeartbeatWakes, Beating, Refused, KnownLeases, LeaseOf
<1>11. ASSUME HeartbeatStops PROVE KnownLeases'
  BY <1>11 DEF HeartbeatStops, Beating, Refused, KnownLeases, LeaseOf
<1>12. ASSUME NEW s \in SessionId, LeaseLost(s) PROVE KnownLeases'
  BY <1>12 DEF LeaseLost, Refused, KnownLeases, LeaseOf
<1>13. CASE UNCHANGED <<processes, registered, drawn, leases, beating>>
  BY <1>13 DEF Refused, KnownLeases, LeaseOf
<1>. QED BY <1>1, <1>2, <1>3, <1>4, <1>5, <1>6, <1>7, <1>8, <1>9, <1>10,
      <1>11, <1>12, <1>13 DEF Next, OpenStep, CloseStep, CloseAllStep,
      HeartbeatStep, Taker, vars, OpenCheck, Launch, LaunchFails, Handshake,
      WaitReady, ProbeRaises, RegisterRaises, Discard, CloseTerminate,
      CloseAll, CloseAllList, CloseAllEnds, WorkerExits, OpenTo, OpenEnds,
      Terminate, TerminateRaises, CloseEnds

(* After `_closed` is set no session gets in. *)
LEMMA ShuttingNext ==
  TypeOK /\ Hands /\ Shutting /\ [Next]_vars => Shutting'
<1> SUFFICES ASSUME TypeOK, Hands, Shutting, [Next]_vars
    PROVE  Shutting'
  OBVIOUS
<1> USE HeadlessAssumption
<1>1. ASSUME NEW o \in Opener, NEW s \in SessionId, RegisterSession(o, s)
      PROVE  Shutting'
  BY <1>1 DEF RegisterSession, OpenEnds, Shutting
<1>2. ASSUME NEW c \in Taker, NEW s \in SessionId, ClosePop(c, s)
      PROVE  Shutting'
  BY <1>2 DEF ClosePop, TypeOK, Shutting, Unlisted
<1>3. ASSUME NEW c \in Taker, CloseTerminate(c) PROVE Shutting'
  BY <1>3 DEF CloseTerminate, CloseEnds, Terminate, TerminateRaises, TypeOK,
       Taker, Shutting, Unlisted
<1>4. ASSUME NEW c \in Taker, CloseUnregister(c) PROVE Shutting'
  BY <1>4 DEF CloseUnregister, CloseEnds, TypeOK, Taker, Shutting, Unlisted
<1>5. ASSUME CloseAll PROVE Shutting'
  BY <1>5 DEF CloseAll, Shutting
<1>6. ASSUME CloseAllList PROVE Shutting'
  BY <1>6 DEF CloseAllList, Shutting, Unlisted
<1>7. ASSUME CloseAllEnds PROVE Shutting'
  BY <1>7 DEF CloseAllEnds, Shutting, Unlisted
<1>8. ASSUME HeartbeatPops PROVE Shutting'
  BY <1>8 DEF HeartbeatPops, Shutting, Unlisted
<1>9. CASE UNCHANGED <<processes, remaining, closing, closed>>
  BY <1>9 DEF Shutting, Unlisted
<1>. QED BY <1>1, <1>2, <1>3, <1>4, <1>5, <1>6, <1>7, <1>8, <1>9 DEF Next,
         OpenStep, CloseStep, CloseAllStep, HeartbeatStep, Taker, vars,
         OpenCheck, Launch, LaunchFails, Handshake, WaitReady, ProbeRaises,
         RegisterRaises, Discard, HeartbeatWakes, HeartbeatLists,
         HeartbeatStops, Heartbeat, HeartbeatRests, HeartbeatExpires,
         HeartbeatReaps, WorkerExits, LeaseLost, OpenTo, OpenEnds, Terminate,
         TerminateRaises

-----------------------------------------------------------------------------
(* The invariant holds in every reachable state, unless an id is drawn twice. *)
THEOREM InductiveInvariant == ASSUME NoReuse PROVE Spec => []IInv
<1>1. IInv /\ [Next]_vars => IInv'
  BY TypeNext, HandsNext, BornNext, ExclusiveNext, DrawnNext, KnownLeasesNext,
     ShuttingNext DEF IInv
<1>. QED BY Initially, <1>1, PTL DEF Spec

(* Every variable keeps its type, even if ids are drawn twice. *)
THEOREM TypeCorrect == Spec => []TypeOK
<1>1. Init => TypeOK /\ Hands
  BY Initially DEF IInv
<1>. QED BY <1>1, TypeNext, HandsNext, PTL DEF Spec

(* After close_all no session is left in the table and none gets in, under *)
(* every fault.                                                            *)
THEOREM ShutdownIsCompleteHolds == Spec => []ShutdownIsComplete
<1>1. Init => TypeOK /\ Hands /\ Shutting
  BY Initially DEF IInv
<1>2. Shutting => ShutdownIsComplete
  BY DEF Shutting, ShutdownIsComplete
<1>. QED BY <1>1, <1>2, TypeNext, HandsNext, ShuttingNext, PTL DEF Spec

(* The heartbeat thread stops only workers whose lease is lost. *)
THEOREM ReapsOnlyTheLostHolds ==
  ASSUME NoReuse PROVE Spec => []ReapsOnlyTheLost
<1>1. IInv => ReapsOnlyTheLost
  BY HeadlessAssumption DEF IInv, Hands, Refused, KnownLeases,
       ReapsOnlyTheLost
<1>. QED BY <1>1, InductiveInvariant, PTL

(* A worker goes from hand to hand, or it is stopped. *)
LEMMA NoOrphanNext ==
  Faults \cap {"terminate", "probe"} = {} /\ NoReuse /\ IInv /\ NoOrphan
    /\ [Next]_vars => NoOrphan'
<1> SUFFICES ASSUME Faults \cap {"terminate", "probe"} = {}, NoReuse, IInv,
      NoOrphan, [Next]_vars
    PROVE  NoOrphan'
  OBVIOUS
<1> USE HeadlessAssumption
<1>1. ASSUME NEW o \in Opener, OpenCheck(o) PROVE NoOrphan'
  BY <1>1 DEF OpenCheck, OpenTo, NoOrphan, HandsOf, OpenedBy, KeptAs, TakenBy,
       ReapedBy
<1>2. ASSUME NEW o \in Opener, NEW w \in Worker, Launch(o, w) PROVE NoOrphan'
  BY <1>2 DEF Launch, TypeOK, IInv, Hands, NoOrphan, HandsOf, OpenedBy,
       KeptAs, TakenBy, ReapedBy
<1>3. ASSUME NEW o \in Opener, LaunchFails(o) PROVE NoOrphan'
  BY <1>3 DEF LaunchFails, OpenEnds, IInv, Hands, NoOrphan, HandsOf, OpenedBy,
       KeptAs, TakenBy, ReapedBy
<1>4. ASSUME NEW o \in Opener, Handshake(o) PROVE NoOrphan'
  BY <1>4 DEF Handshake, OpenTo, NoOrphan, HandsOf, OpenedBy, KeptAs, TakenBy,
       ReapedBy
<1>5. ASSUME NEW o \in Opener, WaitReady(o) PROVE NoOrphan'
  BY <1>5, WaitReadyKeeps
     DEF IInv, NoOrphan, HandsOf, OpenedBy, KeptAs, TakenBy, ReapedBy
<1>6. ASSUME NEW o \in Opener, ProbeRaises(o) PROVE NoOrphan'
  BY <1>6 DEF ProbeRaises, OpenEnds
<1>7. ASSUME NEW o \in Opener, NEW s \in SessionId, RegisterSession(o, s)
      PROVE  NoOrphan'
  BY <1>7 DEF RegisterSession, OpenEnds, TypeOK, IInv, NoReuse, Drawn,
       NoOrphan, HandsOf, OpenedBy, KeptAs, TakenBy, ReapedBy
<1>8. ASSUME NEW o \in Opener, RegisterRaises(o) PROVE NoOrphan'
  BY <1>8 DEF RegisterRaises, OpenTo, NoOrphan, HandsOf, OpenedBy, KeptAs,
       TakenBy, ReapedBy
<1>9. ASSUME NEW o \in Opener, Discard(o) PROVE NoOrphan'
  BY <1>9 DEF Discard, OpenEnds, Terminate, TerminateRaises, TypeOK, IInv,
       NoOrphan, HandsOf, OpenedBy, KeptAs, TakenBy, ReapedBy
<1>10. ASSUME NEW c \in Taker, NEW s \in SessionId, ClosePop(c, s)
       PROVE  NoOrphan'
  BY <1>10 DEF ClosePop, TypeOK, IInv, NoOrphan, HandsOf, OpenedBy, KeptAs,
       TakenBy, ReapedBy
<1>11. ASSUME NEW c \in Taker, CloseTerminate(c) PROVE NoOrphan'
  BY <1>11 DEF CloseTerminate, CloseEnds, Terminate, TerminateRaises, TypeOK,
       IInv, NoOrphan, HandsOf, OpenedBy, KeptAs, TakenBy, ReapedBy
<1>12. ASSUME NEW c \in Taker, CloseUnregister(c) PROVE NoOrphan'
  BY <1>12 DEF CloseUnregister, CloseEnds, TypeOK, IInv, NoOrphan, HandsOf,
       OpenedBy, KeptAs, TakenBy, ReapedBy
<1>13. ASSUME CloseAll PROVE NoOrphan'
  BY <1>13 DEF CloseAll, NoOrphan, HandsOf, OpenedBy, KeptAs, TakenBy,
       ReapedBy
<1>14. ASSUME CloseAllList PROVE NoOrphan'
  BY <1>14 DEF CloseAllList, NoOrphan, HandsOf, OpenedBy, KeptAs, TakenBy,
       ReapedBy
<1>15. ASSUME CloseAllEnds PROVE NoOrphan'
  BY <1>15 DEF CloseAllEnds, NoOrphan, HandsOf, OpenedBy, KeptAs, TakenBy,
       ReapedBy
<1>16. ASSUME HeartbeatWakes PROVE NoOrphan'
  BY <1>16 DEF HeartbeatWakes, IInv, Hands, NoOrphan, HandsOf, OpenedBy,
       KeptAs, TakenBy, ReapedBy
<1>17. ASSUME HeartbeatLists PROVE NoOrphan'
  BY <1>17 DEF HeartbeatLists, IInv, Hands, NoOrphan, HandsOf, OpenedBy,
       KeptAs, TakenBy, ReapedBy
<1>18. ASSUME HeartbeatStops PROVE NoOrphan'
  BY <1>18 DEF HeartbeatStops, IInv, Hands, NoOrphan, HandsOf, OpenedBy,
       KeptAs, TakenBy, ReapedBy
<1>19. ASSUME NEW s \in SessionId, NEW w \in Worker, Heartbeat(s, w)
       PROVE  NoOrphan'
  BY <1>19 DEF Heartbeat, IInv, Hands, NoOrphan, HandsOf, OpenedBy, KeptAs,
       TakenBy, ReapedBy
<1>20. ASSUME HeartbeatRests PROVE NoOrphan'
  BY <1>20 DEF HeartbeatRests, IInv, Hands, NoOrphan, HandsOf, OpenedBy,
       KeptAs, TakenBy, ReapedBy
<1>21. ASSUME HeartbeatPops PROVE NoOrphan'
  BY <1>21 DEF HeartbeatPops, IInv, Hands, NoOrphan, HandsOf, OpenedBy,
       KeptAs, TakenBy, ReapedBy
<1>22. ASSUME HeartbeatExpires PROVE NoOrphan'
  BY <1>22 DEF HeartbeatExpires, NoOrphan, HandsOf, OpenedBy, KeptAs, TakenBy,
       ReapedBy
<1>23. ASSUME HeartbeatReaps PROVE NoOrphan'
  BY <1>23 DEF HeartbeatReaps, Terminate, TerminateRaises, TypeOK, IInv,
       NoOrphan, HandsOf, OpenedBy, KeptAs, TakenBy, ReapedBy
<1>24. ASSUME NEW w \in Worker, WorkerExits(w) PROVE NoOrphan'
  BY <1>24 DEF WorkerExits, NoOrphan, HandsOf, OpenedBy, KeptAs, TakenBy,
       ReapedBy
<1>25. ASSUME NEW s \in SessionId, LeaseLost(s) PROVE NoOrphan'
  BY <1>25 DEF LeaseLost, NoOrphan, HandsOf, OpenedBy, KeptAs, TakenBy,
       ReapedBy
<1>26. CASE UNCHANGED vars
  BY <1>26 DEF vars, NoOrphan, HandsOf, OpenedBy, KeptAs, TakenBy, ReapedBy
<1>. QED BY <1>1, <1>2, <1>3, <1>4, <1>5, <1>6, <1>7, <1>8, <1>9, <1>10,
      <1>11, <1>12, <1>13, <1>14, <1>15, <1>16, <1>17, <1>18, <1>19, <1>20,
      <1>21, <1>22, <1>23, <1>24, <1>25, <1>26 DEF Next, OpenStep, CloseStep,
      CloseAllStep, HeartbeatStep, Taker

(* Who takes a session out of the table takes its lease along. *)
LEMMA ManagedNext ==
  Faults \cap {"terminate", "registry"} = {} /\ NoReuse /\ IInv
    /\ PublishedIsManaged /\ [Next]_vars => PublishedIsManaged'
<1> SUFFICES ASSUME Faults \cap {"terminate", "registry"} = {}, NoReuse, IInv,
      PublishedIsManaged, [Next]_vars
    PROVE  PublishedIsManaged'
  OBVIOUS
<1> USE HeadlessAssumption
<1>1. ASSUME NEW o \in Opener, OpenCheck(o) PROVE PublishedIsManaged'
  BY <1>1 DEF OpenCheck, OpenTo, PublishedIsManaged
<1>2. ASSUME NEW o \in Opener, NEW w \in Worker, Launch(o, w)
      PROVE  PublishedIsManaged'
  BY <1>2 DEF Launch, PublishedIsManaged
<1>3. ASSUME NEW o \in Opener, LaunchFails(o) PROVE PublishedIsManaged'
  BY <1>3 DEF LaunchFails, OpenEnds, PublishedIsManaged
<1>4. ASSUME NEW o \in Opener, Handshake(o) PROVE PublishedIsManaged'
  BY <1>4 DEF Handshake, OpenTo, PublishedIsManaged
<1>5. ASSUME NEW o \in Opener, WaitReady(o) PROVE PublishedIsManaged'
  BY <1>5 DEF WaitReady, OpenTo, PublishedIsManaged
<1>6. ASSUME NEW o \in Opener, ProbeRaises(o) PROVE PublishedIsManaged'
  BY <1>6 DEF ProbeRaises, OpenEnds, PublishedIsManaged
<1>7. ASSUME NEW o \in Opener, NEW s \in SessionId, RegisterSession(o, s)
      PROVE  PublishedIsManaged'
  BY <1>7 DEF RegisterSession, OpenEnds, TypeOK, IInv, PublishedIsManaged
<1>8. ASSUME NEW o \in Opener, RegisterRaises(o) PROVE PublishedIsManaged'
  BY <1>8 DEF RegisterRaises, OpenTo, PublishedIsManaged
<1>9. ASSUME NEW o \in Opener, Discard(o) PROVE PublishedIsManaged'
  BY <1>9 DEF Discard, OpenEnds, Terminate, TerminateRaises,
       PublishedIsManaged
<1>10. ASSUME NEW c \in Taker, NEW s \in SessionId, ClosePop(c, s)
       PROVE  PublishedIsManaged'
  BY <1>10 DEF ClosePop, TypeOK, IInv, PublishedIsManaged
<1>11. ASSUME NEW c \in Taker, CloseTerminate(c) PROVE PublishedIsManaged'
  BY <1>11 DEF CloseTerminate, CloseEnds, Terminate, TerminateRaises, TypeOK,
       IInv, PublishedIsManaged
<1>12. ASSUME NEW c \in Taker, CloseUnregister(c) PROVE PublishedIsManaged'
  BY <1>12 DEF CloseUnregister, CloseEnds, TypeOK, IInv, KnownLeases,
       PublishedIsManaged
<1>13. ASSUME CloseAll PROVE PublishedIsManaged'
  BY <1>13 DEF CloseAll, PublishedIsManaged
<1>14. ASSUME CloseAllList PROVE PublishedIsManaged'
  BY <1>14 DEF CloseAllList, PublishedIsManaged
<1>15. ASSUME CloseAllEnds PROVE PublishedIsManaged'
  BY <1>15 DEF CloseAllEnds, PublishedIsManaged
<1>16. ASSUME HeartbeatWakes PROVE PublishedIsManaged'
  BY <1>16 DEF HeartbeatWakes, PublishedIsManaged
<1>17. ASSUME HeartbeatLists PROVE PublishedIsManaged'
  BY <1>17 DEF HeartbeatLists, PublishedIsManaged
<1>18. ASSUME HeartbeatStops PROVE PublishedIsManaged'
  BY <1>18 DEF HeartbeatStops, PublishedIsManaged
<1>19. ASSUME NEW s \in SessionId, NEW w \in Worker, Heartbeat(s, w)
       PROVE  PublishedIsManaged'
  BY <1>19 DEF Heartbeat, PublishedIsManaged
<1>20. ASSUME HeartbeatRests PROVE PublishedIsManaged'
  BY <1>20 DEF HeartbeatRests, PublishedIsManaged
<1>21. ASSUME HeartbeatPops PROVE PublishedIsManaged'
  BY <1>21 DEF HeartbeatPops, IInv, Refused, KnownLeases, PublishedIsManaged
<1>22. ASSUME HeartbeatExpires PROVE PublishedIsManaged'
  BY <1>22 DEF HeartbeatExpires, PublishedIsManaged
<1>23. ASSUME HeartbeatReaps PROVE PublishedIsManaged'
  BY <1>23 DEF HeartbeatReaps, Terminate, TerminateRaises, PublishedIsManaged
<1>24. ASSUME NEW w \in Worker, WorkerExits(w) PROVE PublishedIsManaged'
  BY <1>24 DEF WorkerExits, PublishedIsManaged
<1>25. ASSUME NEW s \in SessionId, LeaseLost(s) PROVE PublishedIsManaged'
  BY <1>25 DEF LeaseLost, PublishedIsManaged
<1>26. CASE UNCHANGED vars
  BY <1>26 DEF vars, PublishedIsManaged
<1>. QED BY <1>1, <1>2, <1>3, <1>4, <1>5, <1>6, <1>7, <1>8, <1>9, <1>10,
      <1>11, <1>12, <1>13, <1>14, <1>15, <1>16, <1>17, <1>18, <1>19, <1>20,
      <1>21, <1>22, <1>23, <1>24, <1>25, <1>26 DEF Next, OpenStep, CloseStep,
      CloseAllStep, HeartbeatStep, Taker

(* No running worker is ever left alone by its last owner, if neither the  *)
(* probe nor _terminate raises.                                            *)
THEOREM NoOrphanHolds ==
  ASSUME NoReuse, Faults \cap {"terminate", "probe"} = {}
  PROVE  Spec => []NoOrphan
<1>1. Init => NoOrphan
  BY DEF Init, NoOrphan
<1>. QED BY <1>1, InductiveInvariant, NoOrphanNext, PTL DEF Spec

(* Every record in the registry has a worker in the table, or one that is  *)
(* being closed, if neither the registry nor _terminate raises.            *)
THEOREM PublishedIsManagedHolds ==
  ASSUME NoReuse, Faults \cap {"terminate", "registry"} = {}
  PROVE  Spec => []PublishedIsManaged
<1>1. Init => PublishedIsManaged
  BY DEF Init, PublishedIsManaged
<1>. QED BY <1>1, InductiveInvariant, ManagedNext, PTL DEF Spec

-----------------------------------------------------------------------------
(* The hands of a worker as Ownership sees them. *)
Hold(w) == IF process[w] = "unborn" THEN {"unborn"} ELSE HandsOf(w)

(* Who holds a worker is the only one to do so. *)
OnlyHand ==
  \A w \in Worker :
    /\ \A o \in Opener : opening[o].worker = w => Hold(w) = {o}
    /\ \A s \in SessionId : processes[s] = w => Hold(w) = {s}
    /\ \A c \in Taker : closing[c].worker = w /\ closing[c].at = "terminate"
                         => Hold(w) = {c}
    /\ beating.worker = w => Hold(w) = {"heartbeat"}

LEMMA IsOnlyHand == IInv => OnlyHand
<1> SUFFICES ASSUME IInv, NEW w \in Worker PROVE OnlyHand!(w)
  BY DEF OnlyHand
<1> USE HeadlessAssumption
    DEF IInv, Exclusive, Hold, HandsOf, OpenedBy, KeptAs, TakenBy, ReapedBy
<1>1. ASSUME NEW o \in Opener, opening[o].worker = w PROVE Hold(w) = {o}
  BY <1>1 DEF Born
<1>2. ASSUME NEW s \in SessionId, processes[s] = w PROVE Hold(w) = {s}
  BY <1>2 DEF Born
<1>3. ASSUME NEW c \in Taker, closing[c].worker = w, closing[c].at = "terminate"
      PROVE  Hold(w) = {c}
  BY <1>3 DEF Born
<1>4. ASSUME beating.worker = w PROVE Hold(w) = {"heartbeat"}
  BY <1>4 DEF Born
<1>. QED BY <1>1, <1>2, <1>3, <1>4

(* A step that changes the hands of one worker passes that worker on. *)
LEMMA PassOf ==
  ASSUME NEW w \in Worker, NEW from, NEW to,
         Hold(w) = from, Hold(w)' = to,
         \A v \in Worker : v # w => Hold(v)' = Hold(v)
  PROVE  Own!Pass(w, from, to)
<1>. DEFINE hands == [v \in Worker |-> Hold(v)]
<1>1. hands' = [hands EXCEPT ![w] = to] /\ hands[w] = from
  OBVIOUS
<1>. QED BY <1>1 DEF Own!Pass, Hold

(* A step after which everybody holds what they held before passes none. *)
LEMMA NonePassed ==
  ASSUME TypeOK,
         \A o \in Opener : opening'[o].worker = opening[o].worker,
         \A s \in SessionId : processes'[s] = processes[s],
         \A c \in Taker, w \in Worker :
           closing'[c].worker = w /\ closing'[c].at = "terminate" <=>
           closing[c].worker = w /\ closing[c].at = "terminate",
         beating'.worker = beating.worker,
         \A w \in Worker : process'[w] = "unborn" <=> process[w] = "unborn"
  PROVE  \A w \in Worker : Hold(w)' = Hold(w)
<1>. TAKE w \in Worker
<1>1. OpenedBy(w)' = OpenedBy(w)
  BY DEF OpenedBy
<1>2. KeptAs(w)' = KeptAs(w)
  BY DEF KeptAs
<1>3. TakenBy(w)' = TakenBy(w)
  BY DEF TakenBy
<1>4. ReapedBy(w)' = ReapedBy(w)
  BY DEF ReapedBy
<1>. QED BY <1>1, <1>2, <1>3, <1>4 DEF Hold, HandsOf

(* Every step passes one worker on, or none. *)
LEMMA StepMaps ==
  ASSUME NoReuse, IInv, IInv', OnlyHand', [Next]_vars
  PROVE  [Own!Next]_[w \in Worker |-> Hold(w)]
<1>. DEFINE hands == [w \in Worker |-> Hold(w)]
<1> USE HeadlessAssumption
<1>1. ASSUME NEW o \in Opener, NEW w \in Worker, Launch(o, w)
      PROVE  [Own!Next]_hands
  <2>1. PICK x \in Worker : x = w
    BY <1>1 DEF Launch
  <2>2. Hold(x) = {"unborn"}
    BY <1>1, <2>1, IsOnlyHand DEF Launch, OnlyHand, Hold
  <2>3. Hold(x)' = {o}
    BY <1>1, <2>1, OnlyHand' DEF Launch, IInv, TypeOK, OnlyHand
  <2>4. \A v \in Worker : v # x => Hold(v)' = Hold(v)
    <3>. SUFFICES ASSUME NEW v \in Worker, v # x PROVE Hold(v)' = Hold(v)
      OBVIOUS
    <3>1. OpenedBy(v)' = OpenedBy(v)
      BY <1>1, <2>1 DEF Launch, IInv, Hands, OpenedBy
    <3>2. KeptAs(v)' = KeptAs(v)
      BY <1>1, <2>1 DEF Launch, KeptAs
    <3>3. TakenBy(v)' = TakenBy(v)
      BY <1>1, <2>1 DEF Launch, TakenBy
    <3>4. ReapedBy(v)' = ReapedBy(v)
      BY <1>1, <2>1 DEF Launch, ReapedBy
    <3>5. process'[v] = "unborn" <=> process[v] = "unborn"
      BY <1>1, <2>1 DEF Launch
    <3>. QED BY <3>1, <3>2, <3>3, <3>4, <3>5 DEF Hold, HandsOf
  <2>5. Own!Pass(x, {"unborn"}, {o})
    BY <2>2, <2>3, <2>4, PassOf
  <2>. QED BY <2>5, Zenon DEF Own!Next, Own!Launch, Own!Unborn
<1>2. ASSUME NEW o \in Opener, ProbeRaises(o)
      PROVE  [Own!Next]_hands
  <2>1. PICK x \in Worker : x = opening[o].worker
    BY <1>2 DEF ProbeRaises, OpenEnds, IInv, TypeOK, Hands
  <2>2. Hold(x) = {o}
    BY <1>2, <2>1, IsOnlyHand DEF ProbeRaises, OpenEnds, OnlyHand
  <2>3. Hold(x)' = {}
    <3>1. OpenedBy(x)' = {}
      BY <1>2, <2>1 DEF ProbeRaises, OpenEnds, IInv, TypeOK, Exclusive,
           OpenedBy
    <3>2. KeptAs(x)' = {}
      BY <1>2, <2>1 DEF ProbeRaises, OpenEnds, IInv, Exclusive, KeptAs
    <3>3. TakenBy(x)' = {}
      BY <1>2, <2>1 DEF ProbeRaises, OpenEnds, IInv, Exclusive, TakenBy
    <3>4. ReapedBy(x)' = {}
      BY <1>2, <2>1 DEF ProbeRaises, OpenEnds, IInv, Exclusive, ReapedBy
    <3>5. process'[x] # "unborn"
      BY <1>2, <2>1 DEF ProbeRaises, OpenEnds, IInv, Born
    <3>. QED BY <3>1, <3>2, <3>3, <3>4, <3>5 DEF Hold, HandsOf
  <2>4. \A v \in Worker : v # x => Hold(v)' = Hold(v)
    <3>. SUFFICES ASSUME NEW v \in Worker, v # x PROVE Hold(v)' = Hold(v)
      OBVIOUS
    <3>1. OpenedBy(v)' = OpenedBy(v)
      BY <1>2, <2>1 DEF ProbeRaises, OpenEnds, OpenedBy
    <3>2. KeptAs(v)' = KeptAs(v)
      BY <1>2, <2>1 DEF ProbeRaises, OpenEnds, KeptAs
    <3>3. TakenBy(v)' = TakenBy(v)
      BY <1>2, <2>1 DEF ProbeRaises, OpenEnds, TakenBy
    <3>4. ReapedBy(v)' = ReapedBy(v)
      BY <1>2, <2>1 DEF ProbeRaises, OpenEnds, ReapedBy
    <3>5. process'[v] = "unborn" <=> process[v] = "unborn"
      BY <1>2, <2>1 DEF ProbeRaises, OpenEnds
    <3>. QED BY <3>1, <3>2, <3>3, <3>4, <3>5 DEF Hold, HandsOf
  <2>5. Own!Pass(x, {o}, {})
    BY <2>2, <2>3, <2>4, PassOf
  <2>. QED BY <2>5, Zenon DEF Own!Next, Own!Discard
<1>3. ASSUME NEW o \in Opener, NEW s \in SessionId, RegisterSession(o, s)
      PROVE  [Own!Next]_hands
  <2>1. PICK x \in Worker : x = opening[o].worker
    BY <1>3 DEF RegisterSession, OpenEnds, IInv, TypeOK, Hands
  <2>2. Hold(x) = {o}
    BY <1>3, <2>1, IsOnlyHand DEF RegisterSession, OpenEnds, OnlyHand
  <2>3. Hold(x)' = {s}
    BY <1>3, <2>1, OnlyHand' DEF RegisterSession, OpenEnds, IInv, TypeOK,
         OnlyHand
  <2>4. \A v \in Worker : v # x => Hold(v)' = Hold(v)
    <3>. SUFFICES ASSUME NEW v \in Worker, v # x PROVE Hold(v)' = Hold(v)
      OBVIOUS
    <3>1. OpenedBy(v)' = OpenedBy(v)
      BY <1>3, <2>1 DEF RegisterSession, OpenEnds, OpenedBy
    <3>2. KeptAs(v)' = KeptAs(v)
      BY <1>3, <2>1 DEF RegisterSession, OpenEnds, NoReuse, Drawn, IInv,
           KeptAs
    <3>3. TakenBy(v)' = TakenBy(v)
      BY <1>3, <2>1 DEF RegisterSession, OpenEnds, TakenBy
    <3>4. ReapedBy(v)' = ReapedBy(v)
      BY <1>3, <2>1 DEF RegisterSession, OpenEnds, ReapedBy
    <3>5. process'[v] = "unborn" <=> process[v] = "unborn"
      BY <1>3, <2>1 DEF RegisterSession, OpenEnds
    <3>. QED BY <3>1, <3>2, <3>3, <3>4, <3>5 DEF Hold, HandsOf
  <2>5. Own!Pass(x, {o}, {s})
    BY <2>2, <2>3, <2>4, PassOf
  <2>. QED BY <2>5, Zenon DEF Own!Next, Own!Keep
<1>4. ASSUME NEW o \in Opener, Discard(o)
      PROVE  [Own!Next]_hands
  <2>1. PICK x \in Worker : x = opening[o].worker
    BY <1>4 DEF Discard, OpenEnds, Terminate, TerminateRaises, IInv, TypeOK,
         Hands
  <2>2. Hold(x) = {o}
    BY <1>4, <2>1, IsOnlyHand DEF Discard, OpenEnds, Terminate,
         TerminateRaises, OnlyHand
  <2>3. Hold(x)' = {}
    <3>1. OpenedBy(x)' = {}
      BY <1>4, <2>1 DEF Discard, OpenEnds, Terminate, TerminateRaises, IInv,
           TypeOK, Exclusive, OpenedBy
    <3>2. KeptAs(x)' = {}
      BY <1>4, <2>1 DEF Discard, OpenEnds, Terminate, TerminateRaises, IInv,
           Exclusive, KeptAs
    <3>3. TakenBy(x)' = {}
      BY <1>4, <2>1 DEF Discard, OpenEnds, Terminate, TerminateRaises, IInv,
           Exclusive, TakenBy
    <3>4. ReapedBy(x)' = {}
      BY <1>4, <2>1 DEF Discard, OpenEnds, Terminate, TerminateRaises, IInv,
           Exclusive, ReapedBy
    <3>5. process'[x] # "unborn"
      BY <1>4, <2>1 DEF Discard, OpenEnds, Terminate, TerminateRaises, IInv,
           TypeOK, Born
    <3>. QED BY <3>1, <3>2, <3>3, <3>4, <3>5 DEF Hold, HandsOf
  <2>4. \A v \in Worker : v # x => Hold(v)' = Hold(v)
    <3>. SUFFICES ASSUME NEW v \in Worker, v # x PROVE Hold(v)' = Hold(v)
      OBVIOUS
    <3>1. OpenedBy(v)' = OpenedBy(v)
      BY <1>4, <2>1 DEF Discard, OpenEnds, Terminate, TerminateRaises,
           OpenedBy
    <3>2. KeptAs(v)' = KeptAs(v)
      BY <1>4, <2>1 DEF Discard, OpenEnds, Terminate, TerminateRaises, KeptAs
    <3>3. TakenBy(v)' = TakenBy(v)
      BY <1>4, <2>1 DEF Discard, OpenEnds, Terminate, TerminateRaises, TakenBy
    <3>4. ReapedBy(v)' = ReapedBy(v)
      BY <1>4, <2>1 DEF Discard, OpenEnds, Terminate, TerminateRaises,
           ReapedBy
    <3>5. process'[v] = "unborn" <=> process[v] = "unborn"
      BY <1>4, <2>1 DEF Discard, OpenEnds, Terminate, TerminateRaises, IInv,
           TypeOK
    <3>. QED BY <3>1, <3>2, <3>3, <3>4, <3>5 DEF Hold, HandsOf
  <2>5. Own!Pass(x, {o}, {})
    BY <2>2, <2>3, <2>4, PassOf
  <2>. QED BY <2>5, Zenon DEF Own!Next, Own!Discard
<1>5. ASSUME NEW c \in Taker, NEW s \in SessionId, ClosePop(c, s)
      PROVE  [Own!Next]_hands
  <2>1. CASE processes[s] = None
    <3>1. \A w \in Worker : Hold(w)' = Hold(w)
      BY <1>5, <2>1, NonePassed DEF ClosePop, IInv
    <3>. QED BY <3>1
  <2>2. CASE processes[s] # None
    <3>1. PICK x \in Worker : x = processes[s]
      BY <1>5, <2>2 DEF ClosePop, IInv, TypeOK
    <3>2. Hold(x) = {s}
      BY <1>5, <2>2, <3>1, IsOnlyHand DEF ClosePop, OnlyHand
    <3>3. Hold(x)' = {c}
      BY <1>5, <2>2, <3>1, OnlyHand' DEF ClosePop, IInv, TypeOK, OnlyHand
    <3>4. \A v \in Worker : v # x => Hold(v)' = Hold(v)
      <4>. SUFFICES ASSUME NEW v \in Worker, v # x PROVE Hold(v)' = Hold(v)
        OBVIOUS
      <4>1. OpenedBy(v)' = OpenedBy(v)
        BY <1>5, <2>2, <3>1 DEF ClosePop, OpenedBy
      <4>2. KeptAs(v)' = KeptAs(v)
        BY <1>5, <2>2, <3>1 DEF ClosePop, KeptAs
      <4>3. TakenBy(v)' = TakenBy(v)
        BY <1>5, <2>2, <3>1 DEF ClosePop, TakenBy
      <4>4. ReapedBy(v)' = ReapedBy(v)
        BY <1>5, <2>2, <3>1 DEF ClosePop, ReapedBy
      <4>5. process'[v] = "unborn" <=> process[v] = "unborn"
        BY <1>5, <2>2, <3>1 DEF ClosePop
      <4>. QED BY <4>1, <4>2, <4>3, <4>4, <4>5 DEF Hold, HandsOf
    <3>5. Own!Pass(x, {s}, {c})
      BY <3>2, <3>3, <3>4, PassOf
    <3>. QED BY <3>5, Zenon DEF Own!Next, Own!Take
  <2>. QED BY <2>1, <2>2
<1>6. ASSUME NEW c \in Taker, CloseTerminate(c)
      PROVE  [Own!Next]_hands
  <2>1. PICK x \in Worker : x = closing[c].worker
    BY <1>6 DEF CloseTerminate, CloseEnds, Terminate, TerminateRaises, IInv,
         TypeOK, Hands
  <2>2. Hold(x) = {c}
    BY <1>6, <2>1, IsOnlyHand DEF CloseTerminate, CloseEnds, Terminate,
         TerminateRaises, OnlyHand
  <2>3. Hold(x)' = {}
    <3>1. OpenedBy(x)' = {}
      BY <1>6, <2>1 DEF CloseTerminate, CloseEnds, Terminate, TerminateRaises,
           IInv, Exclusive, OpenedBy
    <3>2. KeptAs(x)' = {}
      BY <1>6, <2>1 DEF CloseTerminate, CloseEnds, Terminate, TerminateRaises,
           IInv, Exclusive, KeptAs
    <3>3. TakenBy(x)' = {}
      BY <1>6, <2>1 DEF CloseTerminate, CloseEnds, Terminate, TerminateRaises,
           IInv, TypeOK, Exclusive, TakenBy
    <3>4. ReapedBy(x)' = {}
      BY <1>6, <2>1 DEF CloseTerminate, CloseEnds, Terminate, TerminateRaises,
           IInv, Exclusive, ReapedBy
    <3>5. process'[x] # "unborn"
      BY <1>6, <2>1 DEF CloseTerminate, CloseEnds, Terminate, TerminateRaises,
           IInv, TypeOK, Born
    <3>. QED BY <3>1, <3>2, <3>3, <3>4, <3>5 DEF Hold, HandsOf
  <2>4. \A v \in Worker : v # x => Hold(v)' = Hold(v)
    <3>. SUFFICES ASSUME NEW v \in Worker, v # x PROVE Hold(v)' = Hold(v)
      OBVIOUS
    <3>1. OpenedBy(v)' = OpenedBy(v)
      BY <1>6, <2>1 DEF CloseTerminate, CloseEnds, Terminate, TerminateRaises,
           OpenedBy
    <3>2. KeptAs(v)' = KeptAs(v)
      BY <1>6, <2>1 DEF CloseTerminate, CloseEnds, Terminate, TerminateRaises,
           KeptAs
    <3>3. TakenBy(v)' = TakenBy(v)
      BY <1>6, <2>1 DEF CloseTerminate, CloseEnds, Terminate, TerminateRaises,
           IInv, TypeOK, TakenBy
    <3>4. ReapedBy(v)' = ReapedBy(v)
      BY <1>6, <2>1 DEF CloseTerminate, CloseEnds, Terminate, TerminateRaises,
           ReapedBy
    <3>5. process'[v] = "unborn" <=> process[v] = "unborn"
      BY <1>6, <2>1 DEF CloseTerminate, CloseEnds, Terminate, TerminateRaises,
           IInv, TypeOK
    <3>. QED BY <3>1, <3>2, <3>3, <3>4, <3>5 DEF Hold, HandsOf
  <2>5. Own!Pass(x, {c}, {})
    BY <2>2, <2>3, <2>4, PassOf
  <2>. QED BY <2>5, Zenon DEF Own!Next, Own!Stop
<1>7. ASSUME HeartbeatPops
      PROVE  [Own!Next]_hands
  <2>1. CASE processes[beating.sid] = None
    <3>1. \A w \in Worker : Hold(w)' = Hold(w)
      BY <1>7, <2>1, NonePassed DEF HeartbeatPops, Beating, IInv, Hands
    <3>. QED BY <3>1
  <2>2. CASE processes[beating.sid] # None
    <3>1. PICK x \in Worker : x = processes[beating.sid]
      BY <1>7, <2>2 DEF HeartbeatPops, IInv, TypeOK
    <3>2. Hold(x) = {beating.sid}
      BY <1>7, <2>2, <3>1, IsOnlyHand DEF HeartbeatPops, IInv, TypeOK,
           OnlyHand
    <3>3. Hold(x)' = {"heartbeat"}
      BY <1>7, <2>2, <3>1, OnlyHand' DEF HeartbeatPops, OnlyHand
    <3>4. \A v \in Worker : v # x => Hold(v)' = Hold(v)
      <4>. SUFFICES ASSUME NEW v \in Worker, v # x PROVE Hold(v)' = Hold(v)
        OBVIOUS
      <4>1. OpenedBy(v)' = OpenedBy(v)
        BY <1>7, <2>2, <3>1 DEF HeartbeatPops, OpenedBy
      <4>2. KeptAs(v)' = KeptAs(v)
        BY <1>7, <2>2, <3>1 DEF HeartbeatPops, KeptAs
      <4>3. TakenBy(v)' = TakenBy(v)
        BY <1>7, <2>2, <3>1 DEF HeartbeatPops, TakenBy
      <4>4. ReapedBy(v)' = ReapedBy(v)
        BY <1>7, <2>2, <3>1 DEF HeartbeatPops, IInv, Hands, ReapedBy
      <4>5. process'[v] = "unborn" <=> process[v] = "unborn"
        BY <1>7, <2>2, <3>1 DEF HeartbeatPops
      <4>. QED BY <4>1, <4>2, <4>3, <4>4, <4>5 DEF Hold, HandsOf
    <3>5. Own!Pass(x, {beating.sid}, {"heartbeat"})
      BY <3>2, <3>3, <3>4, PassOf
    <3>6. beating.sid \in SessionId
      BY <1>7, <2>2 DEF IInv, Hands, Refused, HeartbeatPops
    <3>. QED BY <3>5, <3>6, Zenon DEF Own!Next, Own!Take
  <2>. QED BY <2>1, <2>2
<1>8. ASSUME HeartbeatReaps
      PROVE  [Own!Next]_hands
  <2>1. PICK x \in Worker : x = beating.worker
    BY <1>8 DEF HeartbeatReaps, Terminate, TerminateRaises, IInv, TypeOK,
         Hands
  <2>2. Hold(x) = {"heartbeat"}
    BY <1>8, <2>1, IsOnlyHand DEF HeartbeatReaps, Terminate, TerminateRaises,
         OnlyHand
  <2>3. Hold(x)' = {}
    <3>1. OpenedBy(x)' = {}
      BY <1>8, <2>1 DEF HeartbeatReaps, Terminate, TerminateRaises, IInv,
           Exclusive, OpenedBy
    <3>2. KeptAs(x)' = {}
      BY <1>8, <2>1 DEF HeartbeatReaps, Terminate, TerminateRaises, IInv,
           Exclusive, KeptAs
    <3>3. TakenBy(x)' = {}
      BY <1>8, <2>1 DEF HeartbeatReaps, Terminate, TerminateRaises, IInv,
           Exclusive, TakenBy
    <3>4. ReapedBy(x)' = {}
      BY <1>8, <2>1 DEF HeartbeatReaps, Beating, Terminate, TerminateRaises,
           ReapedBy
    <3>5. process'[x] # "unborn"
      BY <1>8, <2>1 DEF HeartbeatReaps, Terminate, TerminateRaises, IInv,
           TypeOK, Born
    <3>. QED BY <3>1, <3>2, <3>3, <3>4, <3>5 DEF Hold, HandsOf
  <2>4. \A v \in Worker : v # x => Hold(v)' = Hold(v)
    <3>. SUFFICES ASSUME NEW v \in Worker, v # x PROVE Hold(v)' = Hold(v)
      OBVIOUS
    <3>1. OpenedBy(v)' = OpenedBy(v)
      BY <1>8, <2>1 DEF HeartbeatReaps, Terminate, TerminateRaises, OpenedBy
    <3>2. KeptAs(v)' = KeptAs(v)
      BY <1>8, <2>1 DEF HeartbeatReaps, Terminate, TerminateRaises, KeptAs
    <3>3. TakenBy(v)' = TakenBy(v)
      BY <1>8, <2>1 DEF HeartbeatReaps, Terminate, TerminateRaises, TakenBy
    <3>4. ReapedBy(v)' = ReapedBy(v)
      BY <1>8, <2>1 DEF HeartbeatReaps, Beating, Terminate, TerminateRaises,
           ReapedBy
    <3>5. process'[v] = "unborn" <=> process[v] = "unborn"
      BY <1>8, <2>1 DEF HeartbeatReaps, Terminate, TerminateRaises, IInv,
           TypeOK
    <3>. QED BY <3>1, <3>2, <3>3, <3>4, <3>5 DEF Hold, HandsOf
  <2>5. Own!Pass(x, {"heartbeat"}, {})
    BY <2>2, <2>3, <2>4, PassOf
  <2>. QED BY <2>5, Zenon DEF Own!Next, Own!Stop
<1>9. ASSUME NEW o \in Opener, OpenCheck(o)
      PROVE  \A w \in Worker : Hold(w)' = Hold(w)
  BY <1>9, NonePassed DEF OpenCheck, OpenTo, IInv
<1>10. ASSUME NEW o \in Opener, LaunchFails(o)
      PROVE  \A w \in Worker : Hold(w)' = Hold(w)
  BY <1>10, NonePassed DEF LaunchFails, OpenEnds, IInv, Hands
<1>11. ASSUME NEW o \in Opener, Handshake(o)
      PROVE  \A w \in Worker : Hold(w)' = Hold(w)
  BY <1>11, NonePassed DEF Handshake, OpenTo, IInv
<1>12. ASSUME NEW o \in Opener, WaitReady(o)
      PROVE  \A w \in Worker : Hold(w)' = Hold(w)
  BY <1>12, WaitReadyKeeps, NonePassed DEF IInv
<1>13. ASSUME NEW o \in Opener, RegisterRaises(o)
      PROVE  \A w \in Worker : Hold(w)' = Hold(w)
  BY <1>13, NonePassed DEF RegisterRaises, OpenTo, IInv
<1>14. ASSUME NEW c \in Taker, CloseUnregister(c)
      PROVE  \A w \in Worker : Hold(w)' = Hold(w)
  <2>1. closing'[c].worker = None /\ closing[c].at # "terminate"
    BY <1>14 DEF CloseUnregister, CloseEnds, IInv, TypeOK
  <2>2. \A d \in Taker : d # c => closing'[d] = closing[d]
    BY <1>14 DEF CloseUnregister, CloseEnds, IInv, TypeOK
  <2>3. \A d \in Taker, w \in Worker :
          closing'[d].worker = w /\ closing'[d].at = "terminate" <=>
          closing[d].worker = w /\ closing[d].at = "terminate"
    BY <2>1, <2>2
  <2>. QED BY <1>14, <2>3, NonePassed DEF CloseUnregister, IInv
<1>15. ASSUME CloseAll
      PROVE  \A w \in Worker : Hold(w)' = Hold(w)
  BY <1>15, NonePassed DEF CloseAll, IInv
<1>16. ASSUME CloseAllList
      PROVE  \A w \in Worker : Hold(w)' = Hold(w)
  BY <1>16, NonePassed DEF CloseAllList, IInv
<1>17. ASSUME CloseAllEnds
      PROVE  \A w \in Worker : Hold(w)' = Hold(w)
  BY <1>17, NonePassed DEF CloseAllEnds, IInv
<1>18. ASSUME HeartbeatWakes
      PROVE  \A w \in Worker : Hold(w)' = Hold(w)
  BY <1>18, NonePassed DEF HeartbeatWakes, Beating, IInv, Hands
<1>19. ASSUME HeartbeatLists
      PROVE  \A w \in Worker : Hold(w)' = Hold(w)
  BY <1>19, NonePassed DEF HeartbeatLists, Beating, IInv, Hands
<1>20. ASSUME HeartbeatStops
      PROVE  \A w \in Worker : Hold(w)' = Hold(w)
  BY <1>20, NonePassed DEF HeartbeatStops, Beating, IInv, Hands
<1>21. ASSUME NEW s \in SessionId, NEW u \in Worker, Heartbeat(s, u)
      PROVE  \A w \in Worker : Hold(w)' = Hold(w)
  BY <1>21, NonePassed DEF Heartbeat, Beating, IInv, Hands
<1>22. ASSUME HeartbeatRests
      PROVE  \A w \in Worker : Hold(w)' = Hold(w)
  BY <1>22, NonePassed DEF HeartbeatRests, Beating, IInv, Hands
<1>23. ASSUME HeartbeatExpires
      PROVE  \A w \in Worker : Hold(w)' = Hold(w)
  BY <1>23, NonePassed DEF HeartbeatExpires, IInv
<1>24. ASSUME NEW u \in Worker, WorkerExits(u)
      PROVE  \A w \in Worker : Hold(w)' = Hold(w)
  BY <1>24, NonePassed DEF WorkerExits, IInv
<1>25. ASSUME NEW s \in SessionId, LeaseLost(s)
      PROVE  \A w \in Worker : Hold(w)' = Hold(w)
  BY <1>25, NonePassed DEF LeaseLost, IInv
<1>26. ASSUME UNCHANGED vars
      PROVE  \A w \in Worker : Hold(w)' = Hold(w)
  BY <1>26, NonePassed DEF vars, IInv
<1>. QED BY <1>1, <1>2, <1>3, <1>4, <1>5, <1>6, <1>7, <1>8, <1>9, <1>10,
      <1>11, <1>12, <1>13, <1>14, <1>15, <1>16, <1>17, <1>18, <1>19, <1>20,
      <1>21, <1>22, <1>23, <1>24, <1>25, <1>26 DEF Next, OpenStep, CloseStep,
      CloseAllStep, HeartbeatStep, Taker

(* The manager implements Ownership, under every fault but an id that comes *)
(* back: each worker has one owner at a time, and is disposed of once.      *)
THEOREM Refinement == ASSUME NoReuse PROVE Spec => ImplementsOwnership
<1>1. Init => Own!Init
  BY DEF Init, Own!Init, Own!Unborn
<1>2. IInv /\ IInv' /\ OnlyHand' /\ [Next]_vars =>
        [Own!Next]_[w \in Worker |-> IF process[w] = "unborn"
                                     THEN {"unborn"} ELSE HandsOf(w)]
  BY StepMaps DEF Hold
<1>. QED BY <1>1, <1>2, InductiveInvariant, IsOnlyHand, PTL
         DEF Spec, ImplementsOwnership, Own!Spec
=============================================================================
