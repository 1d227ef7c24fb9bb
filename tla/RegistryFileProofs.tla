------------------------- MODULE RegistryFileProofs -------------------------
(***************************************************************************)
(* Theorems about RegistryFile, for any threads, processes and number of   *)
(* updates: what a thread has read stays the content of the file until it  *)
(* has written, because the lock is its own for all that time.             *)
(***************************************************************************)
EXTENDS RegistryFile, FileLockProofs

fileAll == <<vars, fileVars>>

(* Only the thread in the block has a task. *)
TaskIsHeld == \A t \in Thread : task[t].at # "idle" => pc[t] = "held"

(* A reading is current until it is replaced by its update. *)
ReadingIsFresh ==
  \A t \in Thread : task[t].at \in {"change", "write", "replace"} => task[t].read = file

(* An update that is under way is within the bound. *)
UpdateFits ==
  \A t \in Thread : task[t].at \in {"write", "replace"} => task[t].read[t] < MaxUpdates

Places == {"idle", "change", "write", "replace", "unlink", "done"}

FileInv ==
  /\ IInv
  /\ file \in Content
  /\ task \in [Thread -> [at : Places, read : Content]]
  /\ TaskIsHeld
  /\ ReadingIsFresh
  /\ UpdateFits

-----------------------------------------------------------------------------
LEMMA NoTaskType == NoTask \in [at : Places, read : Content] /\ NoTask.at = "idle"
  BY RegistryFileAssumption DEF NoTask, Empty, Content, Places

LEMMA InitFileInv == FileInit => FileInv
<1>. SUFFICES ASSUME FileInit PROVE FileInv
  OBVIOUS
<1>1. IInv
  BY InitIInv DEF FileInit
<1>2. file \in Content
  BY RegistryFileAssumption DEF FileInit, Empty, Content
<1>3. task \in [Thread -> [at : Places, read : Content]]
  BY NoTaskType DEF FileInit
<1>4. TaskIsHeld /\ ReadingIsFresh /\ UpdateFits
  BY NoTaskType DEF FileInit, TaskIsHeld, ReadingIsFresh, UpdateFits
<1>. QED
  BY <1>1, <1>2, <1>3, <1>4 DEF FileInv

(* Every step of the block leaves the lock alone, every other is one of it. *)
LEMMA FileNextIsNext == [FileNext]_fileAll => [Next]_vars
  BY DEF FileNext, fileAll, fileVars, LockStep, FileCrash, Block, Read, WritesNothing,
         OpenTemporary, WriteTemporary, Replace, WriteRaises, Unlink, Next

(* A step of the lock moves no other thread. *)
LEMMA AdvanceMovesOne ==
  ASSUME TypeOK, NEW t \in Thread, Enter(t) \/ Advance(t)
  PROVE  /\ \A u \in Thread \ {t} : pc'[u] = pc[u]
         /\ Enter(t) => pc[t] = "idle"
  BY DEF TypeOK, Enter, Advance, Goto, AcquireThreadLock, TimeoutThreadLock,
         OpenLockFile, OpenLockFileFails, AcquireFlock, TimeoutFlock, AbortEnter,
         AbortRaises, Unlock, UnlockFails, CloseLockFile, CloseFails, ReleaseThreadLock

LEMMA EnterKeepsFile ==
  ASSUME FileInv, NEW t \in Thread, Enter(t), UNCHANGED fileVars
  PROVE  TaskIsHeld' /\ ReadingIsFresh' /\ UpdateFits'
<1>1. \A u \in Thread \ {t} : pc'[u] = pc[u]
  BY AdvanceMovesOne DEF FileInv, IInv
<1>2. pc[t] = "idle"
  BY AdvanceMovesOne DEF FileInv, IInv
<1>. QED
  BY <1>1, <1>2 DEF FileInv, TaskIsHeld, ReadingIsFresh, UpdateFits, fileVars

LEMMA LockStepKeepsFile ==
  ASSUME FileInv, NEW t \in Thread, LockStep(t)
  PROVE  /\ file' \in Content
         /\ task' \in [Thread -> [at : Places, read : Content]]
         /\ TaskIsHeld' /\ ReadingIsFresh' /\ UpdateFits'
<1>1. \A u \in Thread \ {t} : pc'[u] = pc[u]
  BY AdvanceMovesOne DEF FileInv, IInv, LockStep
<1>2. file' = file /\ task' = [task EXCEPT ![t] = NoTask]
  BY DEF LockStep
<1>3. task' \in [Thread -> [at : Places, read : Content]]
  BY <1>2, NoTaskType DEF FileInv
<1>4. task'[t].at = "idle" /\ \A u \in Thread \ {t} : task'[u] = task[u]
  BY <1>2, NoTaskType DEF FileInv
<1>. QED
  BY <1>1, <1>2, <1>3, <1>4 DEF FileInv, TaskIsHeld, ReadingIsFresh, UpdateFits

LEMMA CrashKeepsFile ==
  ASSUME FileInv, NEW p \in Process, FileCrash(p)
  PROVE  /\ file' \in Content
         /\ task' \in [Thread -> [at : Places, read : Content]]
         /\ TaskIsHeld' /\ ReadingIsFresh' /\ UpdateFits'
<1>1. file' = file
  BY DEF FileCrash
<1>2. task' = [t \in Thread |-> IF Home[t] = p THEN NoTask ELSE task[t]]
  BY DEF FileCrash
<1>3. \A t \in Thread : Home[t] # p => pc'[t] = pc[t]
  BY DEF FileCrash, Crash
<1>4. task' \in [Thread -> [at : Places, read : Content]]
  BY <1>2, NoTaskType DEF FileInv
<1>. QED
  BY <1>1, <1>2, <1>3, <1>4, NoTaskType
  DEF FileInv, TaskIsHeld, ReadingIsFresh, UpdateFits

(* The update that replaces the file is one on top of the file as it is. *)
LEMMA ReplaceUpdates ==
  ASSUME FileInv, NEW t \in Thread, Replace(t)
  PROVE  /\ pc[t] = "held"
         /\ file' = [file EXCEPT ![t] = @ + 1]
         /\ file' \in Content
<1>1. task[t].at = "replace" /\ pc[t] = "held"
  BY DEF Replace, At
<1>2. task[t].read = file /\ file[t] < MaxUpdates
  BY <1>1 DEF FileInv, ReadingIsFresh, UpdateFits
<1>3. file' = [file EXCEPT ![t] = @ + 1]
  BY <1>2 DEF Replace
<1>4. file[t] + 1 \in 0..MaxUpdates
  BY <1>2, RegistryFileAssumption DEF FileInv, Content
<1>. QED
  BY <1>1, <1>3, <1>4 DEF FileInv, Content

(* No other thread has a reading while t is inside. *)
LEMMA Alone ==
  ASSUME FileInv, NEW t \in Thread, pc[t] = "held"
  PROVE  \A u \in Thread \ {t} : task[u].at = "idle"
  BY DEF FileInv, IInv, FlockHeld, TaskIsHeld

LEMMA BlockKeepsFile ==
  ASSUME FileInv, NEW t \in Thread, Block(t)
  PROVE  /\ file' \in Content
         /\ task' \in [Thread -> [at : Places, read : Content]]
         /\ TaskIsHeld' /\ ReadingIsFresh' /\ UpdateFits'
<1>. USE DEF FileInv, TaskIsHeld, ReadingIsFresh, UpdateFits, At, Places, vars
<1>1. CASE Read(t)
  BY <1>1 DEF Read
<1>2. CASE WritesNothing(t)
  BY <1>2 DEF WritesNothing
<1>3. CASE OpenTemporary(t)
  BY <1>3 DEF OpenTemporary
<1>4. CASE WriteTemporary(t)
  BY <1>4 DEF WriteTemporary
<1>5. CASE Replace(t)
  <2>1. file' \in Content
    BY <1>5, ReplaceUpdates
  <2>2. pc' = pc /\ pc[t] = "held" /\ task' = [task EXCEPT ![t].at = "unlink"]
    BY <1>5 DEF Replace
  <2>3. \A u \in Thread \ {t} : task'[u].at = "idle"
    BY <2>2, Alone
  <2>. QED
    BY <2>1, <2>2, <2>3
<1>6. CASE WriteRaises(t)
  BY <1>6 DEF WriteRaises
<1>7. CASE Unlink(t)
  BY <1>7 DEF Unlink
<1>. QED
  BY <1>1, <1>2, <1>3, <1>4, <1>5, <1>6, <1>7 DEF Block

LEMMA FileNextKeepsFileInv == FileInv /\ [FileNext]_fileAll => FileInv'
<1>. SUFFICES ASSUME FileInv, [FileNext]_fileAll PROVE FileInv'
  OBVIOUS
<1>1. IInv'
  BY FileNextIsNext, NextKeepsIInv DEF FileInv
<1>2. CASE \E t \in Thread : Enter(t) /\ UNCHANGED fileVars
  BY <1>1, <1>2, EnterKeepsFile DEF FileInv, fileVars
<1>3. CASE \E t \in Thread : LockStep(t)
  BY <1>1, <1>3, LockStepKeepsFile DEF FileInv
<1>4. CASE \E t \in Thread : Block(t)
  BY <1>1, <1>4, BlockKeepsFile DEF FileInv
<1>5. CASE \E p \in Process : FileCrash(p)
  BY <1>1, <1>5, CrashKeepsFile DEF FileInv
<1>6. CASE UNCHANGED fileAll
  BY <1>1, <1>6
  DEF FileInv, fileAll, fileVars, vars, TaskIsHeld, ReadingIsFresh, UpdateFits
<1>. QED
  BY <1>2, <1>3, <1>4, <1>5, <1>6 DEF FileNext

(* Whoever is about to write has read what the file still holds. *)
THEOREM FileInductiveInvariant == FileSpec => []FileInv
<1>. QED
  BY InitFileInv, FileNextKeepsFileInv, PTL DEF FileSpec, fileAll

(* The lock, the file and the tasks stay well typed. *)
THEOREM FileTypeCorrect == FileSpec => []FileTypeOK
<1>1. FileInv => FileTypeOK
  BY DEF FileInv, IInv, FileTypeOK, Places
<1>. QED
  BY <1>1, FileInductiveInvariant, PTL

(* The file goes from one whole content to that content with one update of *)
(* the thread that holds the lock, whatever fails or dies (registry.py     *)
(* 190-226 under filelock.py 48-106).                                      *)
THEOREM UpdatesAreAtomicHolds == FileSpec => UpdatesAreAtomic
<1>1. FileInv /\ [FileNext]_fileAll =>
        (file' # file =>
           \E t \in Thread : pc[t] = "held" /\ file' = [file EXCEPT ![t] = @ + 1])
  <2>. SUFFICES ASSUME FileInv, [FileNext]_fileAll, file' # file
                PROVE  \E t \in Thread :
                         pc[t] = "held" /\ file' = [file EXCEPT ![t] = @ + 1]
    OBVIOUS
  <2>1. \E t \in Thread : Replace(t)
    BY DEF FileNext, fileAll, fileVars, LockStep, FileCrash, Block, Read,
           WritesNothing, OpenTemporary, WriteTemporary, WriteRaises, Unlink
  <2>. QED
    BY <2>1, ReplaceUpdates
<1>. QED
  BY <1>1, FileInductiveInvariant, PTL DEF FileSpec, UpdatesAreAtomic, fileAll
=============================================================================
