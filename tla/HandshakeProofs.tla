-------------------------- MODULE HandshakeProofs --------------------------
(***************************************************************************)
(* Type correctness of the handshake, and that no step of it decides       *)
(* otherwise than Readiness lets it, for pipes of any capacity and any     *)
(* number of lines.  That it decides in the end is liveness, for TLC.      *)
(***************************************************************************)
EXTENDS Handshake, SequenceTheorems, TLAPS

(* An announcement on its way to open, and open beyond it, tell of a worker *)
(* that is bound; and open reports a failure only when it has ended.        *)
Told ==
  /\ (\E i \in 1..Len(stdout) : stdout[i] = "announcement") => bound
  /\ announced = <<"endpoint">> => bound
  /\ opener \in {"poll", "probe", "ready"} => bound
  /\ opener \in {"wait", "failed"} => worker = "ended"

(* The queue has one place. *)
OnePlace == announced \in {<<>>, <<"endpoint">>, <<"none">>}

IInv == TypeOK /\ OnePlace /\ Told

(* The answers the queue may hold are short sequences, and distinct. *)
LEMMA Answers ==
  /\ <<>> \in Seq({"endpoint", "none"}) /\ Len(<<>>) = 0
  /\ \A a \in {"endpoint", "none"} :
       /\ <<a>> \in Seq({"endpoint", "none"})
       /\ Len(<<a>>) = 1
       /\ Head(<<a>>) = a
       /\ Tail(<<a>>) = <<>>
       /\ <<a>> # <<>>
  /\ <<"endpoint">> # <<"none">>
<1>1. <<>> \in Seq({"endpoint", "none"}) /\ Len(<<>>) = 0
  BY EmptySeq
<1>2. ASSUME NEW a \in {"endpoint", "none"}
      PROVE  /\ <<a>> \in Seq({"endpoint", "none"})
             /\ Len(<<a>>) = 1
             /\ Head(<<a>>) = a
             /\ Tail(<<a>>) = <<>>
             /\ <<a>> # <<>>
  BY SMT
<1>3. <<"endpoint">> # <<"none">>
  BY SMT
<1> QED
  BY <1>1, <1>2, <1>3

(* So a queue of one place is typed. *)
LEMMA OnePlaceTyped ==
  ASSUME NEW q \in {<<>>, <<"endpoint">>, <<"none">>}
  PROVE  q \in Seq({"endpoint", "none"}) /\ Len(q) <= 1
<1>1. 0 <= 1 /\ 1 <= 1
  BY SMT
<1> QED
  BY <1>1, Answers

(* The handshake starts typed and with nothing told. *)
LEMMA InitInv == Init => IInv
<1> SUFFICES ASSUME Init PROVE IInv
  OBVIOUS
<1>1. OnePlace
  BY DEF Init, OnePlace
<1>2. stdout \in Seq({"announcement", "log"}) /\ Len(stdout) = 0
  BY EmptySeq DEF Init
<1>3. TypeOK
  <2>1. announced \in Seq({"endpoint", "none"}) /\ Len(announced) <= 1
    BY <1>1, OnePlaceTyped DEF OnePlace
  <2>2. /\ Len(stdout) <= Capacity
        /\ stderr \in 0..Capacity
        /\ writes \in 0..MaxWrites
    BY <1>2, HandshakeAssumption, SMT DEF Init
  <2> QED
    BY <1>2, <2>1, <2>2 DEF Init, TypeOK
<1>4. Told
  BY <1>2, Answers, SMT DEF Init, Told
<1> QED
  BY <1>1, <1>3, <1>4 DEF IInv

(* What is put into the queue is one answer, and only if it was empty. *)
LEMMA PutOne ==
  ASSUME OnePlace, NEW a \in {"endpoint", "none"}, Put(a)
  PROVE  /\ OnePlace'
         /\ announced' = announced \/ announced' = <<a>>
         /\ reader' \in {reader, "ended"}
  BY DEF OnePlace, Put

(* The worker's own steps: an announcement binds, nothing unbinds. *)
LEMMA WorkerKeepsInv ==
  ASSUME IInv, Announce \/ Log \/ Exit
  PROVE  IInv'
<1>1. CASE Announce
  <2>1. /\ stdout' \in Seq({"announcement", "log"})
        /\ Len(stdout') = Len(stdout) + 1
    BY <1>1, SMT DEF IInv, TypeOK, Announce
  <2>2. TypeOK'
    BY <1>1, <2>1, HandshakeAssumption, SMT DEF IInv, TypeOK, Announce, readerVars
  <2>3. OnePlace' /\ Told'
    BY <1>1, SMT DEF IInv, OnePlace, Told, Announce, readerVars
  <2> QED
    BY <2>2, <2>3 DEF IInv
<1>2. CASE Log
  <2>1. CASE /\ Len(stdout) < Capacity
             /\ stdout' = Append(stdout, "log")
             /\ UNCHANGED stderr
    <3>1. /\ stdout' \in Seq({"announcement", "log"})
          /\ Len(stdout') = Len(stdout) + 1
          /\ \A i \in 1..Len(stdout') :
               stdout'[i] = "announcement" => i \in 1..Len(stdout) /\ stdout[i] = "announcement"
      BY <2>1, SMT DEF IInv, TypeOK
    <3>2. TypeOK'
      BY <1>2, <2>1, <3>1, HandshakeAssumption, SMT DEF IInv, TypeOK, Log, readerVars
    <3>3. OnePlace' /\ Told'
      BY <1>2, <3>1, SMT DEF IInv, OnePlace, Told, Log, readerVars
    <3> QED
      BY <3>2, <3>3 DEF IInv
  <2>2. CASE stderr < Capacity /\ stderr' = stderr + 1 /\ UNCHANGED stdout
    BY <1>2, <2>2, HandshakeAssumption, SMT DEF IInv, TypeOK, OnePlace, Told, Log, readerVars
  <2> QED
    BY <1>2, <2>1, <2>2 DEF Log
<1>3. CASE Exit
  BY <1>3, SMT DEF IInv, TypeOK, OnePlace, Told, Exit, readerVars
<1> QED
  BY <1>1, <1>2, <1>3

(* The reader passes on what it has read. *)
LEMMA ReaderKeepsInv ==
  ASSUME IInv, ReaderStep \/ ReadRaises
  PROVE  IInv'
<1>1. CASE Read
  <2>1. /\ stdout' \in Seq({"announcement", "log"})
        /\ Len(stdout') = Len(stdout) - 1
        /\ \A i \in 1..Len(stdout') : i + 1 \in 1..Len(stdout) /\ stdout'[i] = stdout[i + 1]
    BY <1>1, SMT DEF IInv, TypeOK, Read
  <2>2. Line = "announcement" => bound
    <3>1. 1 \in 1..Len(stdout) /\ Line = stdout[1]
      BY <1>1, SMT DEF IInv, TypeOK, Read, Line
    <3> QED
      BY <3>1 DEF IInv, Told
  <2>3. /\ OnePlace'
        /\ announced' = announced \/ (announced' = <<"endpoint">> /\ bound)
        /\ reader' \in {reader, "ended"}
        /\ signaled' \in BOOLEAN
    <3>1. CASE ~signaled /\ Line = "announcement"
      <4>1. Put("endpoint") /\ signaled' = TRUE
        BY <1>1, <3>1 DEF Read
      <4> QED
        BY <2>2, <3>1, <4>1, PutOne DEF IInv
    <3>2. CASE ~(~signaled /\ Line = "announcement")
      BY <1>1, <3>2 DEF Read, IInv, TypeOK, OnePlace
    <3> QED
      BY <3>1, <3>2
  <2>4. Len(announced') <= 1 /\ announced' \in Seq({"endpoint", "none"})
    BY <2>3, OnePlaceTyped DEF OnePlace
  <2>5. TypeOK'
    <3>1. Len(stdout') <= Capacity
      BY <2>1, HandshakeAssumption, SMT DEF IInv, TypeOK
    <3> QED
      BY <1>1, <2>1, <2>3, <2>4, <3>1 DEF IInv, TypeOK, Read, workerVars
  <2>6. Told'
    BY <1>1, <2>1, <2>3, SMT DEF IInv, Told, Read, workerVars
  <2> QED
    BY <2>3, <2>5, <2>6 DEF IInv
<1>2. CASE ReadEnds \/ ReadRaises
  BY <1>2, SMT DEF IInv, TypeOK, OnePlace, Told, ReadEnds, ReadRaises, workerVars
<1>3. CASE SignalNone
  <2>1. announced' \in {announced, <<"none">>}
    BY <1>3 DEF SignalNone
  <2>2. OnePlace'
    BY <2>1 DEF IInv, OnePlace
  <2>3. Len(announced') <= 1 /\ announced' \in Seq({"endpoint", "none"})
    BY <2>2, OnePlaceTyped DEF OnePlace
  <2>4. TypeOK'
    BY <1>3, <2>3, SMT DEF IInv, TypeOK, SignalNone, workerVars
  <2>5. Told'
    BY <1>3, <2>1, SMT DEF IInv, Told, SignalNone, workerVars
  <2> QED
    BY <2>2, <2>4, <2>5 DEF IInv
<1> QED
  BY <1>1, <1>2, <1>3 DEF ReaderStep

(* The drain thread and the clock tell nothing. *)
LEMMA OthersKeepInv ==
  ASSUME IInv, Drain \/ DrainRaises \/ Deadline
  PROVE  IInv'
<1>1. stderr' \in 0..Capacity
  BY HandshakeAssumption, SMT DEF IInv, TypeOK, Drain, DrainRaises, Deadline
<1>2. CASE Drain
  BY <1>1, <1>2 DEF IInv, TypeOK, OnePlace, Told, Drain, workerVars, readerVars
<1>3. CASE DrainRaises
  BY <1>1, <1>3 DEF IInv, TypeOK, OnePlace, Told, DrainRaises, workerVars, readerVars
<1>4. CASE Deadline
  BY <1>1, <1>4 DEF IInv, TypeOK, OnePlace, Told, Deadline, workerVars, readerVars
<1> QED
  BY <1>2, <1>3, <1>4

(* open goes on to probe only with an endpoint, and gives up by _terminate. *)
LEMMA OpenerKeepsInv ==
  ASSUME IInv, OpenerStep
  PROVE  IInv'
<1>1. CASE GetEndpoint
  <2>1. announced' = <<>> /\ (Head(announced) = "endpoint" => bound)
    BY <1>1, SMT DEF GetEndpoint, IInv, OnePlace, Told
  <2> QED
    BY <1>1, <2>1, SMT DEF IInv, TypeOK, OnePlace, Told, GetEndpoint, workerVars
<1>2. CASE StartReader \/ GetEmpty \/ Poll
  BY <1>2, SMT DEF IInv, TypeOK, OnePlace, Told, StartReader, GetEmpty, Poll,
                   Decided, workerVars, readerVars
<1>3. CASE Probe \/ Terminate \/ TerminateRaises \/ Fail
  BY <1>3, SMT DEF IInv, TypeOK, OnePlace, Told, Probe, Terminate, TerminateRaises,
                   Fail, Decided, workerVars, readerVars
<1> QED
  BY <1>1, <1>2, <1>3 DEF OpenerStep

(* The invariant is inductive. *)
THEOREM InductiveInvariant == Spec => []IInv
<1>1. IInv /\ [Next]_vars => IInv'
  <2> SUFFICES ASSUME IInv, [Next]_vars PROVE IInv'
    OBVIOUS
  <2>1. CASE Announce \/ Log \/ Exit
    BY <2>1, WorkerKeepsInv
  <2>2. CASE ReaderStep \/ ReadRaises
    BY <2>2, ReaderKeepsInv
  <2>3. CASE Drain \/ DrainRaises \/ Deadline
    BY <2>3, OthersKeepInv
  <2>4. CASE OpenerStep
    BY <2>4, OpenerKeepsInv
  <2>5. CASE UNCHANGED vars
    BY <2>5 DEF IInv, TypeOK, OnePlace, Told, vars, workerVars, readerVars
  <2> QED
    BY <2>1, <2>2, <2>3, <2>4, <2>5 DEF Next
<1> QED
  BY <1>1, InitInv, PTL DEF Spec

(* Every variable has its type: no pipe holds more than its capacity and  *)
(* the queue never more than one answer.                                  *)
THEOREM TypeCorrect == Spec => []TypeOK
<1>1. IInv => TypeOK
  BY DEF IInv
<1> QED
  BY <1>1, InductiveInvariant, PTL

(* The safety half of ImplementsReadiness: open decides at most once, says *)
(* "ready" only after a look, before its deadline, at a worker that had    *)
(* announced itself and ran, and "failed" only of one that has stopped.    *)
THEOREM DecidesAsReadiness ==
  Spec => /\ R!Init
          /\ [][R!Next]_<<worker = "running", bound, late,
                          IF opener \in Decided THEN opener
                          ELSE IF opener = "probe" THEN "seen" ELSE "open">>
<1> DEFINE verdict == IF opener \in Decided THEN opener
                      ELSE IF opener = "probe" THEN "seen" ELSE "open"
           mapped == <<worker = "running", bound, late, verdict>>
<1>1. Init => R!Init
  BY DEF Init, R!Init, Decided
<1>2. IInv /\ [Next]_vars => [R!Next]_mapped
  <2> SUFFICES ASSUME IInv, [Next]_vars PROVE [R!Next]_mapped
    OBVIOUS
  <2>1. CASE Announce
    BY <2>1 DEF Announce, R!Next, R!Bind
  <2>2. CASE Exit
    BY <2>2 DEF Exit, R!Next, R!Die
  <2>3. CASE Deadline
    BY <2>3 DEF Deadline, workerVars, R!Next, R!Expire
  <2>4. CASE Log \/ ReaderStep \/ ReadRaises \/ Drain \/ DrainRaises
    BY <2>4 DEF Log, ReaderStep, Read, ReadEnds, SignalNone, ReadRaises, Drain,
                DrainRaises, workerVars
  <2>5. CASE StartReader \/ GetEndpoint \/ GetEmpty
    BY <2>5 DEF StartReader, GetEndpoint, GetEmpty, Decided, workerVars
  <2>6. CASE Poll
    BY <2>6 DEF Poll, IInv, TypeOK, Told, Decided, workerVars, R!Next, R!Look
  <2>7. CASE Probe
    BY <2>7 DEF Probe, Decided, workerVars, R!Next, R!Decide
  <2>8. CASE Terminate
    BY <2>8 DEF Terminate, Decided, R!Next, R!Die
  <2>9. CASE TerminateRaises \/ Fail
    BY <2>9 DEF TerminateRaises, Fail, IInv, Told, Decided, workerVars, R!Next, R!Decide
  <2>10. CASE UNCHANGED vars
    BY <2>10 DEF vars, workerVars
  <2> QED
    BY <2>1, <2>2, <2>3, <2>4, <2>5, <2>6, <2>7, <2>8, <2>9, <2>10 DEF Next, OpenerStep
<1> QED
  BY <1>1, <1>2, InductiveInvariant, PTL DEF Spec
=============================================================================
