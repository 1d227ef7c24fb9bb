---------------------------- MODULE RegistryFile ----------------------------
(***************************************************************************)
(* src/local_runtime/registry.py, what a method does inside its            *)
(* `with FileLock(...)` block, over FileLock: it reads the file, and if it *)
(* has something to change it writes a new one beside it, moves that over  *)
(* the old one, and removes the temporary name, which after a move is not  *)
(* there.  Every step may raise, and the process may die before any of     *)
(* them; a temporary file it leaves behind is never read.  Registry has    *)
(* the methods themselves, and damaged files, and takes each for one step. *)
(*                                                                         *)
(* What the file holds is here how many updates of each thread are in it.  *)
(***************************************************************************)
EXTENDS FileLock, Naturals

CONSTANT MaxUpdates   (* bound of the model: updates each thread writes     *)

ASSUME RegistryFileAssumption == MaxUpdates \in Nat

VARIABLES
  file,    (* the content of the registry file                              *)
  task     (* where a thread is in its block, and what it has read          *)

fileVars == <<file, task>>

Content == [Thread -> 0..MaxUpdates]
Empty == [t \in Thread |-> 0]

NoTask == [at |-> "idle", read |-> Empty]

(* A file that is only begun. *)
Torn == [t \in {} |-> 0]

FileTypeOK ==
  /\ TypeOK
  /\ file \in Content \cup {Torn}
  /\ task \in [Thread -> [at : {"idle", "change", "write", "replace", "unlink", "done"},
                          read : Content \cup {Torn}]]

FileInit ==
  /\ Init
  /\ file = Empty
  /\ task = [t \in Thread |-> NoTask]

At(t, from, to) ==
  /\ pc[t] = "held"
  /\ task[t].at = from
  /\ task' = [task EXCEPT ![t].at = to]

-----------------------------------------------------------------------------
(* _read *)
Read(t) ==
  /\ pc[t] = "held"
  /\ task[t].at = "idle"
  /\ task' = [task EXCEPT ![t] = [at |-> "change", read |-> file]]
  /\ UNCHANGED <<vars, file>>

(* The method has nothing to change, refuses, or mkstemp raises. *)
WritesNothing(t) ==
  /\ At(t, "change", "done")
  /\ UNCHANGED <<vars, file>>

(* mkstemp *)
OpenTemporary(t) ==
  /\ task[t].read # Torn /\ task[t].read[t] < MaxUpdates
  /\ At(t, "change", "write")
  /\ UNCHANGED <<vars, file>>

(* A _write that has no temporary file. *)
WriteInPlace(t) ==
  /\ At(t, "write", "replace")
  /\ file' = Torn
  /\ UNCHANGED vars

(* dump, flush and fsync of the temporary file *)
WriteTemporary(t) ==
  /\ At(t, "write", "replace")
  /\ UNCHANGED <<vars, file>>

Replace(t) ==
  /\ At(t, "replace", "unlink")
  /\ file' = [task[t].read EXCEPT ![t] = @ + 1]
  /\ UNCHANGED vars

(* Writing or moving it raises: the finally clause comes next. *)
WriteRaises(t) ==
  /\ At(t, "write", "unlink") \/ At(t, "replace", "unlink")
  /\ UNCHANGED <<vars, file>>

Unlink(t) ==
  /\ At(t, "unlink", "done")
  /\ UNCHANGED <<vars, file>>

Block(t) ==
  \/ Read(t) \/ WritesNothing(t) \/ OpenTemporary(t) \/ WriteTemporary(t)
  \/ Replace(t) \/ WriteRaises(t) \/ Unlink(t)

-----------------------------------------------------------------------------
(* The lock, around the block. *)
LockStep(t) ==
  /\ Advance(t)
  /\ pc[t] = "held" => task[t].at = "done"
  /\ task' = [task EXCEPT ![t] = NoTask]
  /\ UNCHANGED file

FileCrash(p) ==
  /\ Crash(p)
  /\ task' = [t \in Thread |-> IF Home[t] = p THEN NoTask ELSE task[t]]
  /\ UNCHANGED file

FileNext ==
  \/ \E t \in Thread : Enter(t) /\ UNCHANGED fileVars
  \/ \E t \in Thread : LockStep(t) \/ Block(t)
  \/ \E p \in Process : FileCrash(p)

FileSpec == FileInit /\ [][FileNext]_<<vars, fileVars>>

(* As in FileLock: a thread that has entered runs on. *)
FileFairSpec ==
  FileSpec /\ \A t \in Thread : WF_<<vars, fileVars>>(LockStep(t) \/ Block(t))

-----------------------------------------------------------------------------
(* "The lock file and os.replace make updates across processes safe": the  *)
(* file changes only from one whole content to that content with the one   *)
(* update of the thread that holds the lock.  So none is ever lost to      *)
(* another thread's older reading, none is there in part, and a process    *)
(* that dies or fails while writing leaves what was there.                 *)
UpdatesAreAtomic ==
  [][file' # file =>
       \E t \in Thread : pc[t] = "held" /\ file' = [file EXCEPT ![t] = @ + 1]]_file
=============================================================================
