-------------------------- MODULE FileLockProofs ---------------------------
(***************************************************************************)
(* Theorems about FileLock, for every set of processes and threads and     *)
(* whether or not unlocking and closing may fail.  Everything rests on one inductive   *)
(* invariant, IInv: it ties each layer of the lock to the places where a   *)
(* thread may own it.                                                      *)
(***************************************************************************)
EXTENDS FileLock, TLAPS

(* The flock is owned inside the block, and after it if LOCK_UN raised. *)
FlockHeld ==
  \A t \in Thread :
    /\ pc[t] = "held" => flock = t
    /\ flock = t => /\ pc[t] \in {"held", "release"}
                    /\ pc[t] = "release" => "unlock" \in raised[Home[t]] /\ fd[t]

(* The process-local lock is owned from its acquisition to its release, *)
(* and only by a thread of that process.                                *)
ThreadLockHeld ==
  \A t \in Thread, p \in Process :
    (tlock[p] = t) <=> (Home[t] = p /\ pc[t] \notin {"idle", "enter"})

(* A descriptor is open from os.open to os.close, or to the end of __exit__ *)
(* if one of its calls raised.                                              *)
DescriptorHeld ==
  \A t \in Thread :
    /\ pc[t] \in {"flock", "held"} => fd[t]
    /\ fd[t] => /\ pc[t] \in {"flock", "held", "close", "release", "abort"}
                /\ pc[t] = "release" => raised[Home[t]] # {}

(* What a process still has of a FileLock it dropped, and from which call. *)
Abandoned ==
  \A p \in Process :
    /\ flock = p => "unlock" \in raised[p]
    /\ tlock[p] \in Process => tlock[p] = p /\ "close" \in raised[p]
    /\ p \in leaked => raised[p] # {}

IInv ==
  /\ TypeOK
  /\ FlockHeld
  /\ ThreadLockHeld
  /\ DescriptorHeld
  /\ Abandoned

-----------------------------------------------------------------------------
LEMMA InitIInv == Init => IInv
  BY HomeAssumption
  DEF Init, IInv, TypeOK, Location, FlockHeld, ThreadLockHeld, DescriptorHeld,
      Abandoned

(* The steps of __enter__. *)
LEMMA EnterKeepsIInv ==
  ASSUME IInv, NEW t \in Thread,
         \/ Enter(t) \/ AcquireThreadLock(t) \/ TimeoutThreadLock(t)
         \/ OpenLockFile(t) \/ OpenLockFileFails(t) \/ AcquireFlock(t)
         \/ TimeoutFlock(t) \/ AbortEnter(t) \/ AbortRaises(t)
  PROVE  IInv'
<1> USE HomeAssumption
    DEF IInv, TypeOK, Location, FlockHeld, ThreadLockHeld, DescriptorHeld, Abandoned,
        Goto
<1>1. CASE Enter(t)
  BY <1>1 DEF Enter
<1>2. CASE AcquireThreadLock(t)
  BY <1>2 DEF AcquireThreadLock
<1>3. CASE TimeoutThreadLock(t)
  BY <1>3 DEF TimeoutThreadLock
<1>4. CASE OpenLockFile(t)
  BY <1>4 DEF OpenLockFile
<1>5. CASE OpenLockFileFails(t)
  BY <1>5 DEF OpenLockFileFails
<1>6. CASE AcquireFlock(t)
  BY <1>6 DEF AcquireFlock
<1>7. CASE TimeoutFlock(t)
  BY <1>7 DEF TimeoutFlock
<1>8. CASE AbortEnter(t)
  BY <1>8 DEF AbortEnter
<1>9. CASE AbortRaises(t)
  BY <1>9 DEF AbortRaises, Raises
<1>. QED
  BY <1>1, <1>2, <1>3, <1>4, <1>5, <1>6, <1>7, <1>8, <1>9

(* The steps of __exit__. *)
LEMMA ExitKeepsIInv ==
  ASSUME IInv, NEW t \in Thread,
         \/ Unlock(t) \/ UnlockFails(t) \/ CloseLockFile(t) \/ CloseFails(t)
         \/ ReleaseThreadLock(t)
  PROVE  IInv'
<1> USE HomeAssumption
    DEF IInv, TypeOK, Location, FlockHeld, ThreadLockHeld, DescriptorHeld, Abandoned,
        Goto
<1>1. CASE Unlock(t)
  BY <1>1 DEF Unlock
<1>2. CASE UnlockFails(t)
  BY <1>2 DEF UnlockFails, Raises
<1>3. CASE CloseLockFile(t)
  BY <1>3 DEF CloseLockFile
<1>4. CASE CloseFails(t)
  BY <1>4 DEF CloseFails, Raises
<1>5. CASE ReleaseThreadLock(t)
  BY <1>5 DEF ReleaseThreadLock
<1>. QED
  BY <1>1, <1>2, <1>3, <1>4, <1>5

(* The death of a process takes away everything its threads owned, and *)
(* nothing of the other processes.                                     *)
LEMMA CrashKeepsIInv ==
  ASSUME IInv, NEW p \in Process, Crash(p)
  PROVE  IInv'
<1> USE HomeAssumption DEF IInv, Crash
<1>1. TypeOK'
  BY DEF TypeOK, Location, ThreadsOf
<1>2. FlockHeld'
  BY DEF TypeOK, Location, FlockHeld, ThreadsOf
<1>3. ThreadLockHeld'
  BY DEF TypeOK, Location, ThreadLockHeld
<1>4. DescriptorHeld'
  BY DEF TypeOK, Location, DescriptorHeld
<1>5. Abandoned'
  BY DEF TypeOK, Abandoned, ThreadsOf
<1>. QED
  BY <1>1, <1>2, <1>3, <1>4, <1>5

LEMMA NextKeepsIInv == IInv /\ [Next]_vars => IInv'
<1>. SUFFICES ASSUME IInv, [Next]_vars PROVE IInv'
  OBVIOUS
<1>1. CASE \E t \in Thread : Enter(t) \/ Advance(t)
  BY <1>1, EnterKeepsIInv, ExitKeepsIInv DEF Advance
<1>2. CASE \E p \in Process : Crash(p)
  BY <1>2, CrashKeepsIInv
<1>3. CASE UNCHANGED vars
  BY <1>3
  DEF vars, IInv, TypeOK, FlockHeld, ThreadLockHeld, DescriptorHeld, Abandoned
<1>. QED
  BY <1>1, <1>2, <1>3 DEF Next

(* The inductive invariant of the two-layer lock. *)
THEOREM InductiveInvariant == Spec => []IInv
  BY InitIInv, NextKeepsIInv, PTL DEF Spec

-----------------------------------------------------------------------------
(* The variables stay in their types. *)
THEOREM TypeCorrect == Spec => []TypeOK
<1>1. IInv => TypeOK
  BY DEF IInv
<1>. QED
  BY <1>1, InductiveInvariant, PTL

(* At most one thread of all processes is inside the with block. *)
THEOREM MutualExclusionHolds == Spec => []MutualExclusion
<1>1. IInv => MutualExclusion
  BY DEF IInv, FlockHeld, MutualExclusion
<1>. QED
  BY <1>1, InductiveInvariant, PTL

(* A thread outside the block owns neither layer and no descriptor, and a *)
(* process keeps one only through the very call that was to give it back. *)
THEOREM OutsideOwnsNothingHolds == Spec => []OutsideOwnsNothing
<1>1. IInv => OutsideOwnsNothing
  BY DEF IInv, FlockHeld, ThreadLockHeld, DescriptorHeld, Abandoned, OutsideOwnsNothing
<1>. QED
  BY <1>1, InductiveInvariant, PTL

(* One thread of each process at most is past the process-local lock. *)
THEOREM OnePerProcessHolds == Spec => []OnePerProcess
<1>1. IInv => OnePerProcess
  BY HomeAssumption DEF IInv, ThreadLockHeld, OnePerProcess
<1>. QED
  BY <1>1, InductiveInvariant, PTL

-----------------------------------------------------------------------------
(* Under the invariant the abstract holder is the thread in the block. *)
LEMMA HolderOfHeld ==
  ASSUME IInv, NEW t \in Thread, pc[t] = "held"
  PROVE  Holder = t
<1>1. \A u \in Thread : pc[u] = "held" => u = t
  BY DEF IInv, FlockHeld
<1>. QED
  BY <1>1 DEF Holder

LEMMA HolderOfNone ==
  ASSUME \A t \in Thread : pc[t] # "held"
  PROVE  Holder = NoThread
  BY DEF Holder

(* A step either leaves the set of threads in the block alone, or takes *)
(* the only one out, or lets one in when it is empty.                   *)
LEMMA StepRefines ==
  ASSUME IInv, IInv', [Next]_vars
  PROVE  [M!Next]_Holder
<1> DEFINE In(t) == pc[t] = "held"
<1>1. CASE \A t \in Thread : In(t) <=> In(t)'
  <2>1. CASE \E t \in Thread : In(t)
    <3>. PICK t \in Thread : In(t)
      BY <2>1
    <3>1. Holder = t /\ Holder' = t
      BY <1>1, HolderOfHeld DEF Holder, IInv, FlockHeld
    <3>. QED
      BY <3>1
  <2>2. CASE \A t \in Thread : ~In(t)
    BY <1>1, <2>2 DEF Holder
  <2>. QED
    BY <2>1, <2>2
<1>2. ASSUME NEW t \in Thread, AcquireFlock(t)
      PROVE  M!Next
  <2>1. Holder = NoThread
    BY <1>2, HomeAssumption, HolderOfNone DEF AcquireFlock, IInv, FlockHeld
  <2>2. Holder' = t
    BY <1>2, HolderOfHeld
    DEF AcquireFlock, Goto, IInv, TypeOK, FlockHeld, Holder
  <2>. QED
    BY <2>1, <2>2 DEF M!Next, M!Acquire
<1>3. ASSUME NEW t \in Thread, In(t), ~In(t)'
      PROVE  M!Next
  <2>1. Holder = t
    BY <1>3, HolderOfHeld
  <2>2. Unlock(t) \/ UnlockFails(t) \/ \E p \in Process : Crash(p)
    BY <1>3
    DEF Next, vars, Advance, Goto, Enter, AcquireThreadLock, TimeoutThreadLock,
        OpenLockFile, OpenLockFileFails, AcquireFlock, TimeoutFlock, AbortEnter,
        AbortRaises, Unlock, UnlockFails, CloseLockFile, CloseFails,
        ReleaseThreadLock, IInv, TypeOK
  <2>3. \A u \in Thread : In(u)' => In(u)
    BY <2>2 DEF Unlock, UnlockFails, Goto, Crash, IInv, TypeOK
  <2>4. \A u \in Thread : ~In(u)'
    BY <1>3, <2>3 DEF IInv, FlockHeld
  <2>5. Holder' = NoThread
    BY <2>4 DEF Holder
  <2>. QED
    BY <2>1, <2>5 DEF M!Next, M!Release
<1>4. ASSUME NEW t \in Thread, ~In(t), In(t)'
      PROVE  AcquireFlock(t)
  BY <1>4
  DEF Next, vars, Advance, Goto, Enter, AcquireThreadLock, TimeoutThreadLock,
      OpenLockFile, OpenLockFileFails, TimeoutFlock, AbortEnter, AbortRaises,
      AcquireFlock, Unlock, UnlockFails, CloseLockFile, CloseFails,
      ReleaseThreadLock, Crash, IInv, TypeOK
<1>. QED
  BY <1>1, <1>2, <1>3, <1>4

(* FileLock implements the mutex InstanceRegistry relies on: timeouts,  *)
(* failing system calls, abandoned descriptors and crashes never let a  *)
(* second thread into the block.                                        *)
THEOREM Refinement == Spec => ImplementsMutex
<1>1. Init => M!Init
  BY HolderOfNone DEF Init, M!Init
<1>2. IInv /\ IInv' /\ [Next]_vars => [M!Next]_Holder
  BY StepRefines
<1>. QED
  BY <1>1, <1>2, InductiveInvariant, PTL DEF Spec, ImplementsMutex, M!Spec
=============================================================================
