----------------------------- MODULE Handshake -----------------------------
(***************************************************************************)
(* src/local_runtime/headless.py, what open does between the launch of a   *)
(* worker and its registration: _wait_for_endpoint with its reader thread  *)
(* _consume_stdout and their one-place queue, the thread _drain_stderr,    *)
(* _wait_ready and, if that fails, _terminate.  Headless has the rest of   *)
(* open and sees of this only the verdict.                                 *)
(*                                                                         *)
(* The worker writes lines to two pipes of bounded capacity and cannot go  *)
(* on while the one it writes to is full; a line of stdout that does not   *)
(* parse is a "log" like any other.  The diagnostics are bounded deques    *)
(* that nobody waits for, and are left out.                                *)
(***************************************************************************)
EXTENDS Naturals, Sequences

CONSTANTS
  Capacity,    (* lines a pipe holds                                        *)
  MaxWrites    (* bound of the model: lines the worker writes to both pipes *)

ASSUME HandshakeAssumption == Capacity \in Nat \ {0} /\ MaxWrites \in Nat

VARIABLES
  worker,      (* "running" or "ended"                                      *)
  bound,       (* it has announced its endpoint                             *)
  writes,      (* lines written                                             *)
  stdout,      (* the lines in the pipe                                     *)
  stderr,      (* how many chunks are in the other                          *)
  reader,      (* where _consume_stdout is                                  *)
  signaled,    (* its variable of that name                                 *)
  announced,   (* the queue between reader and opener                       *)
  drain,       (* where _drain_stderr is                                    *)
  opener,      (* where open is                                             *)
  late         (* its deadline has passed                                   *)

workerVars == <<worker, bound, writes>>
readerVars == <<reader, signaled, announced>>
vars == <<workerVars, stdout, stderr, readerVars, drain, opener, late>>

(* open returns the endpoint, raises LifecycleError, or raises what a call *)
(* of it has raised.                                                       *)
Decided == {"ready", "failed", "raised"}

TypeOK ==
  /\ worker \in {"running", "ended"}
  /\ bound \in BOOLEAN
  /\ writes \in 0..MaxWrites
  /\ stdout \in Seq({"announcement", "log"})
  /\ Len(stdout) <= Capacity
  /\ stderr \in 0..Capacity
  /\ reader \in {"unborn", "read", "signal", "raised", "ended"}
  /\ signaled \in BOOLEAN
  /\ announced \in Seq({"endpoint", "none"})
  /\ Len(announced) <= 1
  /\ drain \in {"read", "raised", "ended"}
  /\ opener \in {"start", "get", "poll", "probe", "terminate", "wait"} \cup Decided
  /\ late \in BOOLEAN

(* open has launched the worker and started the drain thread. *)
Init ==
  /\ worker = "running"
  /\ bound = FALSE
  /\ writes = 0
  /\ stdout = <<>>
  /\ stderr = 0
  /\ reader = "unborn"
  /\ signaled = FALSE
  /\ announced = <<>>
  /\ drain = "read"
  /\ opener = "start"
  /\ late = FALSE

-----------------------------------------------------------------------------
(* The worker *)

(* It binds an endpoint and announces it, or announces it again, *)
Announce ==
  /\ worker = "running"
  /\ writes < MaxWrites
  /\ Len(stdout) < Capacity
  /\ bound' = TRUE
  /\ writes' = writes + 1
  /\ stdout' = Append(stdout, "announcement")
  /\ UNCHANGED <<worker, stderr, readerVars, drain, opener, late>>

(* or logs to one pipe or the other. *)
Log ==
  /\ worker = "running"
  /\ writes < MaxWrites
  /\ writes' = writes + 1
  /\ \/ /\ Len(stdout) < Capacity
        /\ stdout' = Append(stdout, "log")
        /\ UNCHANGED stderr
     \/ /\ stderr < Capacity
        /\ stderr' = stderr + 1
        /\ UNCHANGED stdout
  /\ UNCHANGED <<worker, bound, readerVars, drain, opener, late>>

Exit ==
  /\ worker = "running"
  /\ worker' = "ended"
  /\ UNCHANGED <<bound, writes, stdout, stderr, readerVars, drain, opener, late>>

-----------------------------------------------------------------------------
(* _consume_stdout *)

Line == Head(stdout)

(* put_nowait raises queue.Full, which the except clause does not name: *)
(* the thread ends.                                                     *)
Put(answer) ==
  IF announced = <<>>
  THEN announced' = <<answer>> /\ UNCHANGED reader
  ELSE reader' = "ended" /\ UNCHANGED announced

(* A reader that signals every announcement. *)
ReadSignalsEach ==
  /\ reader = "read"
  /\ stdout # <<>>
  /\ stdout' = Tail(stdout)
  /\ IF Line = "announcement"
     THEN Put("endpoint") /\ signaled' = TRUE
     ELSE UNCHANGED <<reader, announced, signaled>>
  /\ UNCHANGED <<workerVars, stderr, drain, opener, late>>

(* A line is read: the first announcement is signaled, all else is kept *)
(* for the diagnostics.                                                 *)
Read ==
  /\ reader = "read"
  /\ stdout # <<>>
  /\ stdout' = Tail(stdout)
  /\ IF ~signaled /\ Line = "announcement"
     THEN Put("endpoint") /\ signaled' = TRUE
     ELSE UNCHANGED <<reader, announced, signaled>>
  /\ UNCHANGED <<workerVars, stderr, drain, opener, late>>

(* The end of the stream, *)
ReadEnds ==
  /\ reader = "read"
  /\ worker = "ended"
  /\ stdout = <<>>
  /\ reader' = "signal"
  /\ UNCHANGED <<workerVars, stdout, stderr, signaled, announced, drain, opener, late>>

(* or reading it raises. *)
ReadRaises ==
  /\ reader = "read"
  /\ reader' = "raised"
  /\ UNCHANGED <<workerVars, stdout, stderr, signaled, announced, drain, opener, late>>

(* A finally clause that signals again, into a queue without a limit. *)
SignalAgain ==
  /\ reader \in {"signal", "raised"}
  /\ signaled' = TRUE
  /\ announced' = Append(announced, "none")
  /\ UNCHANGED <<workerVars, stdout, stderr, reader, drain, opener, late>>

(* The finally clause. *)
SignalNone ==
  /\ reader \in {"signal", "raised"}
  /\ ~signaled
  /\ signaled' = TRUE
  /\ announced' = IF announced = <<>> THEN <<"none">> ELSE announced
  /\ UNCHANGED <<workerVars, stdout, stderr, reader, drain, opener, late>>

-----------------------------------------------------------------------------
(* _drain_stderr: until the end of the stream, or until reading raises. *)

Drain ==
  /\ drain = "read"
  /\ \/ stderr > 0 /\ stderr' = stderr - 1 /\ UNCHANGED drain
     \/ worker = "ended" /\ stderr = 0 /\ drain' = "ended" /\ UNCHANGED stderr
  /\ UNCHANGED <<workerVars, stdout, readerVars, opener, late>>

DrainRaises ==
  /\ drain = "read"
  /\ drain' = "raised"
  /\ UNCHANGED <<workerVars, stdout, stderr, readerVars, opener, late>>

-----------------------------------------------------------------------------
(* open *)

Deadline ==
  /\ opener \notin Decided
  /\ late' = TRUE
  /\ UNCHANGED <<workerVars, stdout, stderr, readerVars, drain, opener>>

(* _wait_for_endpoint starts a reader only if there is time left. *)
StartReader ==
  /\ opener = "start"
  /\ opener' = IF late THEN "terminate" ELSE "get"
  /\ reader' = IF late THEN reader ELSE "read"
  /\ UNCHANGED <<workerVars, stdout, stderr, signaled, announced, drain, late>>

(* announced.get returns what the reader put, *)
GetEndpoint ==
  /\ opener = "get"
  /\ announced # <<>>
  /\ announced' = Tail(announced)
  /\ opener' = IF Head(announced) = "endpoint" THEN "poll" ELSE "terminate"
  /\ UNCHANGED <<workerVars, stdout, stderr, reader, signaled, drain, late>>

(* or raises Empty at the deadline. *)
GetEmpty ==
  /\ opener = "get"
  /\ late
  /\ announced = <<>>
  /\ opener' = "terminate"
  /\ UNCHANGED <<workerVars, stdout, stderr, readerVars, drain, late>>

(* A _wait_ready that does not ask whether the process has ended. *)
PollNothing ==
  /\ opener = "poll"
  /\ opener' = IF late THEN "terminate" ELSE "probe"
  /\ UNCHANGED <<workerVars, stdout, stderr, readerVars, drain, late>>

(* _wait_ready looks at the deadline and at the process before each probe; *)
Poll ==
  /\ opener = "poll"
  /\ opener' = IF late \/ worker = "ended" THEN "terminate" ELSE "probe"
  /\ UNCHANGED <<workerVars, stdout, stderr, readerVars, drain, late>>

(* one that answers counts, even if late and whatever has become of the  *)
(* worker since, and any other is repeated.  A probe may be any callable *)
(* and raise: nothing in open catches it.                                *)
Probe ==
  /\ opener = "probe"
  /\ opener' \in {"ready", "poll", "raised"}
  /\ UNCHANGED <<workerVars, stdout, stderr, readerVars, drain, late>>

(* _terminate: nothing is left of the worker, *)
Terminate ==
  /\ opener = "terminate"
  /\ worker' = "ended"
  /\ opener' = "wait"
  /\ UNCHANGED <<bound, writes, stdout, stderr, readerVars, drain, late>>

(* unless kill does not help: then the second wait raises. *)
TerminateRaises ==
  /\ opener = "terminate"
  /\ worker = "running"
  /\ opener' = "raised"
  /\ UNCHANGED <<workerVars, stdout, stderr, readerVars, drain, late>>

(* drain.join(timeout=1), the diagnostics, and LifecycleError. *)
Fail ==
  /\ opener = "wait"
  /\ opener' = "failed"
  /\ UNCHANGED <<workerVars, stdout, stderr, readerVars, drain, late>>

-----------------------------------------------------------------------------
ReaderStep == Read \/ ReadEnds \/ SignalNone
OpenerStep == StartReader \/ GetEndpoint \/ GetEmpty \/ Poll \/ Probe
              \/ Terminate \/ TerminateRaises \/ Fail

Next ==
  \/ Announce \/ Log \/ Exit \/ Deadline
  \/ ReaderStep \/ ReadRaises \/ Drain \/ DrainRaises \/ OpenerStep

Spec == Init /\ [][Next]_vars

(* The threads run and time passes; the worker does as it likes, and no *)
(* read has to raise.                                                   *)
FairSpec ==
  /\ Spec
  /\ WF_vars(ReaderStep) /\ WF_vars(Drain) /\ WF_vars(Deadline) /\ WF_vars(OpenerStep)

-----------------------------------------------------------------------------
(* A worker that outlived its kill when there was no time left to start a *)
(* reader: nobody reads from it.                                          *)
Unread == reader = "unborn" /\ opener = "raised"

(* "Both pipes must be consumed all the time": for as long as the worker   *)
(* lives, also when it announces late, twice or never, or open has raised, *)
(* a full pipe gets room again, unless reading from it has raised.         *)
WorkerNeverStuck ==
  /\ Len(stdout) = Capacity ~> \/ Len(stdout) < Capacity
                               \/ worker = "ended"
                               \/ reader = "raised"
                               \/ Unread
  /\ stderr = Capacity ~> stderr < Capacity \/ worker = "ended" \/ drain = "raised"

(* With its threads, its queue and its deadline the handshake decides as   *)
(* Readiness says: in the end and once; for a worker only if that one had  *)
(* announced itself in time and was found running after that; against one  *)
(* only when it has stopped.                                               *)
R == INSTANCE Readiness WITH
       alive <- worker = "running",
       verdict <- IF opener \in Decided THEN opener
                  ELSE IF opener = "probe" THEN "seen" ELSE "open"

ImplementsReadiness == R!Spec
=============================================================================
