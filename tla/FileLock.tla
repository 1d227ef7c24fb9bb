----------------------------- MODULE FileLock ------------------------------
(***************************************************************************)
(* src/local_runtime/filelock.py: the lock that serializes every access to *)
(* the session registry.  It has two layers: a `threading.Lock` shared by  *)
(* the threads of one process (the `_locks` table) and an exclusive flock  *)
(* on the lock file, which belongs to the open file description a thread   *)
(* obtained with os.open.  Both waits are bounded by a timeout, os.open    *)
(* may fail, and a process may die at any point, in which case the kernel  *)
(* closes its descriptors and its in-memory lock is gone.  The calls that  *)
(* give the lock back may raise as well, and then not all of it is given.  *)
(*                                                                         *)
(* The model is the POSIX branch; the Windows branch has the same shape    *)
(* with msvcrt.locking, except that it ignores a failing unlock.           *)
(***************************************************************************)
CONSTANTS
  Process,        (* processes that open the same registry                  *)
  Thread,         (* their threads                                          *)
  Home,           (* Home[t] is the process of thread t                     *)
  NoThread,       (* nobody                                                 *)
  Faults          (* which calls that give back may raise OSError           *)

ASSUME HomeAssumption ==
  /\ Home \in [Thread -> Process]
  /\ NoThread \notin Thread
  /\ NoThread \notin Process
  /\ Thread \cap Process = {}
  /\ Faults \subseteq {"unlock", "close"}

VARIABLES
  pc,      (* where each thread is in __enter__ / __exit__                  *)
  tlock,   (* tlock[p]: the thread that holds the process-local Lock of p,  *)
           (* or p: locked, and nobody left who would release it            *)
  flock,   (* owner of the flock: a thread's open FileLock, or a process    *)
           (* that has the locked descriptor of a FileLock already dropped  *)
  fd,      (* fd[t]: `self._fd` of the FileLock that t uses is open         *)
  leaked,  (* processes with an open descriptor of a FileLock dropped       *)
  raised   (* history: which calls that give back have raised, by process   *)

vars == <<pc, tlock, flock, fd, leaked, raised>>

Location == {"idle", "enter", "open", "flock", "held", "close", "release", "abort"}

TypeOK ==
  /\ pc \in [Thread -> Location]
  /\ tlock \in [Process -> Thread \cup Process \cup {NoThread}]
  /\ flock \in Thread \cup Process \cup {NoThread}
  /\ fd \in [Thread -> BOOLEAN]
  /\ leaked \subseteq Process
  /\ raised \in [Process -> SUBSET Faults]

Init ==
  /\ pc = [t \in Thread |-> "idle"]
  /\ tlock = [p \in Process |-> NoThread]
  /\ flock = NoThread
  /\ fd = [t \in Thread |-> FALSE]
  /\ leaked = {}
  /\ raised = [p \in Process |-> {}]

Goto(t, from, to) ==
  /\ pc[t] = from
  /\ pc' = [pc EXCEPT ![t] = to]

(* A call raises OSError in thread t. *)
Raises(t, call) ==
  /\ call \in Faults
  /\ raised' = [raised EXCEPT ![Home[t]] = @ \cup {call}]

-----------------------------------------------------------------------------
(* __enter__ *)

(* A registry method builds its FileLock and enters the with statement. *)
Enter(t) ==
  /\ Goto(t, "idle", "enter")
  /\ UNCHANGED <<tlock, flock, fd, leaked, raised>>

(* A FileLock with a Lock of its own instead of the one of the path. *)
AcquireOwnLock(t) ==
  /\ Goto(t, "enter", "open")
  /\ tlock' = [tlock EXCEPT ![Home[t]] = t]
  /\ UNCHANGED <<flock, fd, leaked, raised>>

(* self._lock.acquire(timeout=...) succeeds. *)
AcquireThreadLock(t) ==
  /\ Goto(t, "enter", "open")
  /\ tlock[Home[t]] = NoThread
  /\ tlock' = [tlock EXCEPT ![Home[t]] = t]
  /\ UNCHANGED <<flock, fd, leaked, raised>>

(* ... or the deadline passes while another thread of the process has it. *)
TimeoutThreadLock(t) ==
  /\ Goto(t, "enter", "idle")
  /\ tlock[Home[t]] # NoThread
  /\ UNCHANGED <<tlock, flock, fd, leaked, raised>>

OpenLockFile(t) ==
  /\ Goto(t, "open", "flock")
  /\ fd' = [fd EXCEPT ![t] = TRUE]
  /\ UNCHANGED <<tlock, flock, leaked, raised>>

(* mkdir or os.open raises. *)
OpenLockFileFails(t) ==
  /\ Goto(t, "open", "abort")
  /\ UNCHANGED <<tlock, flock, fd, leaked, raised>>

(* A try with LOCK_NB that forgets that somebody else may own the lock. *)
AcquireFlockBlind(t) ==
  /\ Goto(t, "flock", "held")
  /\ flock' = t
  /\ UNCHANGED <<tlock, fd, leaked, raised>>

(* One try of the polling loop succeeds; a failing try only sleeps. *)
AcquireFlock(t) ==
  /\ Goto(t, "flock", "held")
  /\ flock = NoThread
  /\ flock' = t
  /\ UNCHANGED <<tlock, fd, leaked, raised>>

(* A polling loop without a deadline. *)
TimeoutFlockNever(t) ==
  /\ Goto(t, "flock", "abort")
  /\ flock = t
  /\ UNCHANGED <<tlock, flock, fd, leaked, raised>>

(* A try fails and the deadline has passed. *)
TimeoutFlock(t) ==
  /\ Goto(t, "flock", "abort")
  /\ flock # NoThread
  /\ UNCHANGED <<tlock, flock, fd, leaked, raised>>

(* An except clause that forgets to release the process-local lock. *)
AbortKeepsThreadLock(t) ==
  /\ Goto(t, "abort", "idle")
  /\ fd' = [fd EXCEPT ![t] = FALSE]
  /\ UNCHANGED <<tlock, flock, leaked, raised>>

(* The except clause of __enter__: close the descriptor if it is open, *)
(* release the process-local lock, raise.                              *)
AbortEnter(t) ==
  /\ Goto(t, "abort", "idle")
  /\ fd' = [fd EXCEPT ![t] = FALSE]
  /\ tlock' = [tlock EXCEPT ![Home[t]] = NoThread]
  /\ UNCHANGED <<flock, leaked, raised>>

(* os.close raises in the except clause: the release after it is skipped,  *)
(* and the exception of os.close is the one the caller sees.  Whether the  *)
(* system has closed the descriptor all the same is not known.             *)
AbortRaises(t) ==
  /\ fd[t]
  /\ Goto(t, "abort", "idle")
  /\ Raises(t, "close")
  /\ tlock' = [tlock EXCEPT ![Home[t]] = Home[t]]
  /\ fd' = [fd EXCEPT ![t] = FALSE]
  /\ leaked' \in {leaked, leaked \cup {Home[t]}}
  /\ UNCHANGED flock

-----------------------------------------------------------------------------
(* __exit__ *)

(* flock(fd, LOCK_UN) *)
Unlock(t) ==
  /\ Goto(t, "held", "close")
  /\ flock' = NoThread
  /\ UNCHANGED <<tlock, fd, leaked, raised>>

(* flock(fd, LOCK_UN) raises: os.close is skipped, the descriptor stays *)
(* open and locked, and the finally clause comes next.                   *)
UnlockFails(t) ==
  /\ Goto(t, "held", "release")
  /\ Raises(t, "unlock")
  /\ UNCHANGED <<tlock, flock, fd, leaked>>

(* A close that stores the value of a variable it did not mean. *)
CloseStoresFlock(t) ==
  /\ Goto(t, "close", "release")
  /\ fd' = [fd EXCEPT ![t] = flock]
  /\ UNCHANGED <<tlock, flock, leaked, raised>>

(* os.close(self._fd); self._fd = None *)
CloseLockFile(t) ==
  /\ Goto(t, "close", "release")
  /\ fd' = [fd EXCEPT ![t] = FALSE]
  /\ UNCHANGED <<tlock, flock, leaked, raised>>

(* os.close raises, and `self._fd = None` is skipped. *)
CloseFails(t) ==
  /\ Goto(t, "close", "release")
  /\ Raises(t, "close")
  /\ \E open \in BOOLEAN : fd' = [fd EXCEPT ![t] = open]
  /\ UNCHANGED <<tlock, flock, leaked>>

(* finally: self._lock.release().  The registry methods build a FileLock   *)
(* for one with statement and drop it here: a descriptor that is still     *)
(* open now, and the flock if it has it, stay with the process.            *)
ReleaseThreadLock(t) ==
  /\ Goto(t, "release", "idle")
  /\ tlock' = [tlock EXCEPT ![Home[t]] = NoThread]
  /\ flock' = IF flock = t THEN Home[t] ELSE flock
  /\ leaked' = IF fd[t] THEN leaked \cup {Home[t]} ELSE leaked
  /\ fd' = [fd EXCEPT ![t] = FALSE]
  /\ UNCHANGED raised

-----------------------------------------------------------------------------
ThreadsOf(p) == {t \in Thread : Home[t] = p}

(* Process p dies (and may come back with an empty `_locks` table): the    *)
(* kernel closes its descriptors and so drops the flock if p had it.       *)
Crash(p) ==
  /\ pc' = [t \in Thread |-> IF Home[t] = p THEN "idle" ELSE pc[t]]
  /\ fd' = [t \in Thread |-> IF Home[t] = p THEN FALSE ELSE fd[t]]
  /\ tlock' = [tlock EXCEPT ![p] = NoThread]
  /\ flock' = IF flock \in ThreadsOf(p) \cup {p} THEN NoThread ELSE flock
  /\ leaked' = leaked \ {p}
  /\ raised' = [raised EXCEPT ![p] = {}]

(* Steps a thread takes without being asked to, once it has entered. *)
Advance(t) ==
  \/ AcquireThreadLock(t) \/ TimeoutThreadLock(t)
  \/ OpenLockFile(t) \/ OpenLockFileFails(t)
  \/ AcquireFlock(t) \/ TimeoutFlock(t) \/ AbortEnter(t) \/ AbortRaises(t)
  \/ Unlock(t) \/ UnlockFails(t) \/ CloseLockFile(t) \/ CloseFails(t)
  \/ ReleaseThreadLock(t)

Next ==
  \/ \E t \in Thread : Enter(t) \/ Advance(t)
  \/ \E p \in Process : Crash(p)

Spec == Init /\ [][Next]_vars

(* The interpreter and the operating system keep running every thread that *)
(* can take a step, and the code inside the with block ends.  Entering is  *)
(* the caller's choice and a crash is nobody's duty: neither is fair.      *)
Fairness == \A t \in Thread : WF_vars(Advance(t))

FairSpec == Spec /\ Fairness

-----------------------------------------------------------------------------
(* Two threads, of one process or of two, are never inside the with block  *)
(* at once, even if processes die and unlocking or closing fails.          *)
MutualExclusion ==
  \A t, u \in Thread : pc[t] = "held" /\ pc[u] = "held" => t = u

(* Every path out of __enter__ and __exit__ gives back both layers and the *)
(* descriptor, the failing ones included, save where the very call that    *)
(* gives back has raised: a thread outside the block owns nothing, a flock *)
(* that stays with a process is the work of a raising LOCK_UN (filelock.py *)
(* 82 skips 83), a process-local lock locked for good that of a raising    *)
(* os.close (62 skips 64), and a descriptor left open that of either.  A   *)
(* timeout, a lock file that cannot be opened, another thread's failure    *)
(* or one of another process leave nothing behind.                         *)
OutsideOwnsNothing ==
  /\ \A t \in Thread : pc[t] \in {"idle", "enter"} =>
       /\ ~fd[t]
       /\ flock # t
       /\ \A p \in Process : tlock[p] # t
  /\ \A p \in Process :
       /\ flock = p => "unlock" \in raised[p]
       /\ tlock[p] = p => "close" \in raised[p]
       /\ p \in leaked => raised[p] # {}

(* Behind the process-local lock at most one thread of a process is        *)
(* anywhere near the lock file: threads of one process wait for each other *)
(* at the first layer, and what one of them meets at the flock is another  *)
(* process or a descriptor whose unlocking has raised.                     *)
OnePerProcess ==
  \A t, u \in Thread :
    /\ Home[t] = Home[u]
    /\ pc[t] \notin {"idle", "enter"}
    /\ pc[u] \notin {"idle", "enter"}
    => t = u

(* A thread that enters gets the lock or an exception: no interleaving of  *)
(* holders and waiters, no crash and no abandoned flock blocks it forever. *)
EnterReturns ==
  \A t \in Thread :
    pc[t] \in {"enter", "open", "flock", "abort"} ~> pc[t] \in {"held", "idle"}

-----------------------------------------------------------------------------
(* The abstract mutex: its holder is the thread inside the block. *)
Holder ==
  IF \E t \in Thread : pc[t] = "held"
  THEN CHOOSE t \in Thread : pc[t] = "held"
  ELSE NoThread

M == INSTANCE Mutex WITH holder <- Holder

(* The two-layer lock with timeouts, failures and crashes implements the   *)
(* abstract mutex: the block changes hands only through a free lock.       *)
ImplementsMutex == M!Spec
=============================================================================
