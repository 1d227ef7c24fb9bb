# A TLA+ model of local-runtime

`local-runtime` lets several programs on one machine (a GUI, headless workers)
publish a loopback JSON-RPC endpoint in a shared registry, keep the registration
alive with a lease, and lets a control plane route calls to them. The package
has about 1750 lines in `src/src/local_runtime/`; the paths below are relative
to that directory unless they begin with `docs/`, `tests/` or `README.md` (the
repository's own).

The hard part of the program is not its data but its timing: files and tables
shared by threads and processes that stop, time out and die at any point. That
is what is modelled here.

## 1. The system

| Component | State it keeps | Operations | Talks to |
|---|---|---|---|
| **FileLock** (`filelock.py`) | `_locks` (one `threading.Lock` per path and process), the flock of the lock file, `_fd` | `__enter__`, `__exit__` | the operating system; used by every registry method |
| **InstanceRegistry** (`registry.py`) | a JSON file: `sessions`, `active_session`, `expired`; beside it a `.corrupt` file | `register`, `get`, `list`, `active`, `heartbeat`, `unregister`, `expire`, `expired`, `cleanup_stale` | FileLock; called by all components below |
| **HeadlessSessionManager** (`headless.py`) | `_processes`, `_closed`, `_heartbeat_stop`, one daemon thread, the worker processes | `open`, `close`, `close_all`, `_heartbeat_loop` | registry, workers; called by the control plane and by `atexit` |
| **Worker handshake** (`headless.py` 197-292) | a reader thread and a one-place queue per worker, bounded diagnostics | `_wait_for_endpoint`, `_consume_stdout`, `_wait_ready`, `_drain_stderr` | worker pipes, JSON-RPC `ping` |
| **MultiModeRuntime** (`runtime.py`) | `record`, `_heartbeat_thread`, `_stop` | `start`, `stop`, `_heartbeat_loop` | registry, one adapter |
| **GuiAdapter** (`gui.py`) | none of its own | `start`, `stop` | LocalMcpServer, the host's execution gate |
| **LocalMcpServer, JsonRpcClient** (`transport.py`) | `_server`, `_thread`, `_endpoint` | `start`, `stop`, `_handle_post`, `_dispatch`; `request` | sockets |
| **Router** (`router.py`) | none | `route`, `_select` | registry, JsonRpcClient |
| **ControlPlane** (`server.py`) | none | `dispatch` | registry, router, catalog, headless manager |
| **ToolCatalog** (`catalog.py`) | `_tools` | `refresh`, `list` | tool providers |
| **Types** (`types.py`), **errors** (`errors.py`) | immutable values | validation, JSON conversion | |

### What is hard in each, and what makes it correct

* **FileLock** has two layers because a flock does not order threads that share
  nothing but a process. Any step of `__enter__` and `__exit__` may fail, a
  process may die in any of them, and every wait times out. Correct: it
  excludes; a failing path gives both layers back; whoever enters gets an
  answer.
* **InstanceRegistry** is a lease table in a file anybody may damage. Ids are
  reused, owners are slow, and clocks are read before the lock is taken.
  Correct: a lease that ended is never effective again; cleanup spares owners
  it has heard of; the preferred session never dangles; the history is bounded
  and tells only of the past.
* **HeadlessSessionManager** has any number of `open` and `close` threads, a
  shutdown and a heartbeat thread that hand worker processes to each other
  between lock blocks. Correct: every worker is in exactly one pair of hands
  until it is stopped; no record and no worker is forgotten; a lost lease costs
  exactly its own worker; after a shutdown nothing runs.
* **Worker handshake**: a late announcement races the deadline; pipes must be
  drained for ever.
* **MultiModeRuntime**: `start`, `stop` and the heartbeat thread race; stop works
  outside the lock; a restart shares its event with a thread of the last run.
* **Router, ControlPlane**: read-then-act on the registry in one, two or three
  lock sections; a time-out says nothing about the call.
* **Transport, GuiAdapter**: stopping against requests in flight; the ready check
  goes through the host's own execution gate.
* **ToolCatalog**: concurrent refreshes built outside the lock.

The list of hazards with their lines is in `PROJECT.json`.

## 2. The modules

```
Mutex  <--implements--  FileLock         <-- FileLockProofs
                           ^ EXTENDS
                        RegistryFile     <-- MCRegistryFile, RegistryFileProofs
                           |  (a registry method is one step)
LeaseTable <--implements-- Registry      <-- MCRegistry, RegistryProofs
                           | EXTENDS Store <-- StoreProofs
                           |  (leases that are granted, stand, and are lost)
Ownership <--implements--  Headless      <-- MCHeadless, HeadlessProofs
                           |  (a verdict on a launched worker)
Readiness <--implements--  Handshake     <-- HandshakeProofs

McpServer <--EXTENDS--     Runtime       <-- MCRuntime, RuntimeProofs
                           |  (sessions that come, end, expire)
Router, Catalog <--EXTENDS-- ControlPlane <-- MCControlPlane, ControlPlaneProofs
```

Arrows down are abstractions: what one module shows in detail the next one
takes as a step. ControlPlane meets the sessions of Runtime and Headless as a
status in the registry and a listener on a port.

Several modules hold, beside an action, a variant of it with a mistake in it
(`AcquireFlockBlind`, `ExpireForgets`, `HeartbeatPeeks`, ...), each placed just
before the action and commented as such. They are not part of any `Next`; they
are what one puts in place of the action to see that a property would notice.

### FileLock (implements Mutex)

`pc[t]` is the line a thread has reached: `enter` (waiting for the process-local
lock, line 50), `open` (53-55), `flock` (polling, 97-104), `held` (inside the `with`
block), `close` and `release` (after LOCK_UN, after `os.close`), `abort` (the
`except` clause, 60-65). `tlock[p]` is the process-local lock, `flock` the owner of
the flock: the thread whose descriptor has it or, when LOCK_UN raised and `os.close`
was skipped (82, 83), the process in which the descriptor is still open after the
thread has gone. `fd[t]` says that `self._fd` is open; `leaked` are the processes
that keep a descriptor nobody knows of, `raised[p]` is history, the calls that give
something back and have raised. `tlock[p] = p` is a process-local lock that stays
locked for good: a raising `os.close` at 62 skips the release at 64 (`AbortRaises`),
and all later calls of that process time out. `Faults` says which of LOCK_UN
("unlock") and `os.close` ("close") may raise. A dead process's locks are dropped by
the kernel (`Crash`). A poll that fails before its deadline changes nothing and is no
step. The Windows branch makes the same steps, but a failing unlock is suppressed and
the descriptor closed, which the model has as `Unlock`, `CloseLockFile`.

`Mutex` is the promise: one holder, who changes only through "nobody".

### RegistryFile (over FileLock)

What a registry method does inside its `with FileLock(...)` block, on the whole
lock: `Read` (190-207), `OpenTemporary` (mkstemp, 215), `WriteTemporary` (dump,
flush, fsync, 219-222), `Replace` (223), `Unlink` (224-226), each of which may raise,
with a crash before any of them. The content is a count, per thread, of the
updates in the file, so that a lost or a torn update is visible. A temporary
file that a dead process leaves behind is read by nobody and not kept.

### Store and Registry (implement LeaseTable)

`Store` has the file's content and the pure operators on it: `FirstSession`
(`next(iter(sessions), None)`), `Drop`, `MoveToExpired`, `TrimExpired`. Leases are
numbered in the order of their issue; since each insertion into `sessions`
carries a new lease, the order of the dict is the order of the leases. In
`expired` an old key keeps its place, so an entry has an explicit place.

In `Registry` each method is one action, `_read`, the change, trim and `_write`
included. Its clients are the most general ones: any call, at any time, with any
lease ever issued and the session it was issued for. `ReadOutcome` is `_read`
with its quarantine, `Write` the final `os.replace`. `register` and
`cleanup_stale` read the clock before the lock (`Started`). `grants` is history:
which session a lease was issued for, when its owner last had a yes, and whether
it was ever refused; `last` is the last call and its result. The time `heard` is
the time at which the method returned, the one an owner knows; the file has the
time it read.

`LeaseTable` is the promise: an id is held by at most one lease, a lease is
granted once and ends once; only a grant that finds the file unusable may take
other leases with it.

### Headless (implements Ownership)

Every `with self._lock` block is one step, every call outside of one is a step
of its own. `opening[o].at` follows `open` (86-150), `closing[c].at` follows `close`
(152-159) and, for the thread `Shutdown`, `close_all` (161-171), whose loop makes
the steps of `close`; `beating.at` follows `_heartbeat_loop` (173-188), `leases` is
what is left of the tuple it iterates over. `processes`, `closed` are `_processes`
and `_closed` (set together with `_heartbeat_stop`). The registry is a table from
session ids to the worker whose lease holds them; a lease is named by its worker,
since a worker is registered once. `drawn` is history: the ids given out.

`Ownership` is the promise about workers: launched by an `open`, then discarded by
it or kept in the table, taken out by one call, stopped by that call. The
refinement mapping collects whoever holds the worker in the code: `HandsOf`.

### Handshake (implements Readiness)

`opener` follows `open` from the launch (92-127): `get` is `announced.get`, `poll`
the head of `_wait_ready`'s loop, `probe` the ping or the host's own probe,
`terminate` and `wait` the end of a worker that is not ready; `late` says that the
deadline has passed. The process is looked at before a probe (276) and not after it,
so `Probe` may say yes whatever has become of the worker since; it may also raise, as
may `_terminate` when a kill does not help (304), and `open` with them ("raised").
`reader` and `drain` are the threads `_consume_stdout` and `_drain_stderr`,
`announced` the queue of one place, `stdout` and `stderr` the pipes, which block the
worker when full. `ReadRaises` and `DrainRaises` are the except clauses at 247 and
291; a reader that ended so does not drain any more. `Readiness` is the promise, and
what the actions `Handshake` and `WaitReady` of Headless take as steps: one verdict,
in the end; "ready" only after a look, before the deadline, at a worker that ran and
had announced itself, and not that it runs still; "failed" only for one that has
stopped; and otherwise an exception.

### McpServer and Runtime

McpServer is LocalMcpServer's `start` and `stop`, cut where its lock is released: the
three fields are one, the number of the server bound; `listening` are the open
sockets. Runtime is MultiModeRuntime with GuiAdapter on top. `thread[c].at` follows a
caller through `start` (46-62, holding `lock`) and `stop` (66-88, holding it only for
the first block), `thread[l].at` the heartbeat thread of the start that got lease l
through `_heartbeat_loop` (92-113). `take` and `close` are adapter.stop, which all three
call, outside the lock except in a failing start. `stopping` is the event `_stop`,
which all heartbeat threads share. The registry is the set of leases that stand;
`grants` says which server a lease publishes. A two-second join or a ping's time-out
may end at any time. `StartPing` is the gate: it needs `MainThread` idle.

### Router, Catalog and ControlPlane

Each thread of `Call` makes one request. In Router `call[r].at` follows `route` and
`_select` (37-80): `get` and `history` or `list` are registry methods, `verify` the
callback, `send` and `wait` the client (`transport.py` 33-102). `job[r]` is the
request at the other end: with the session's handler thread, with a stranger who has
its port, run, or lost; nothing takes it back when the client gives up, and
`LocalMcpServer.stop` does not wait for it. `seen[r]` is history: which answers were
true at some instant of the selection; `call[r].verified` is the session whose record
the verifier has accepted in this call. It is given the record and no more (51-53),
and accepts, refuses or raises as it likes. What answered the probe of a session
may be down by the time it is registered, or somebody else (`Register`): a worker dies
before or after its probe, or a late stop closes the server of a start. `Code` is
`_dispatch`'s mapping of exceptions. Catalog has `refresh` provider by provider: each
gives a sequence of names, maybe none or one twice, or raises. ControlPlane
dispatches (38-95) and adds the manager's table `owned`; sessions/close makes the
three steps of `HeadlessSessionManager.close`, of which terminating and unregistering
may raise.

## 3. The runs

| Run | Configuration | Shows |
|---|---|---|
| `filelock` | 2 threads of one process, 1 of another, 1 update each; every step may fail, LOCK_UN and `os.close` included, processes may die; fair | `MutualExclusion`, `OutsideOwnsNothing`, `OnePerProcess`, `UpdatesAreAtomic` (action property), `EnterReturns` (liveness), `ImplementsMutex`, over RegistryFile |
| `registry` | 2 ids, 3 leases, 3 ticks, history of 1, lock wait and max age of 1 tick, failing writes | `Fenced`, `ReapsOnlySilent`, `ExpireRemembers` (action properties) |
| `registry_faults` | 2 ids, 3 leases, 1 tick; damage, unreadable file, failing write, non-finite metadata | `ActiveIsOldest`, `HistoryIsPast`, `RefusalIsFinal`, `ImplementsLeaseTable` |
| `headless` | 2 workers, 2 ids, an open thread, a close thread, close_all; crashes, lost leases; fair | `NoOrphan`, `PublishedIsManaged`, and the liveness properties `LostLeaseReclaimed`, `ShutdownStopsWorkers` |
| `headless_faults` | the same with two open threads; the registry, `_terminate` and the probe may also raise | `ShutdownIsComplete`, `ReapsOnlyTheLost`, `ImplementsOwnership` |
| `headless_stop_order` | no faults | violates `UnregisterBeforeStop` |
| `registry_read_error` | a read that fails | violates `OnlyMalformedSetAside` |
| `runtime` | 2 callers, one of them the gate's main thread; 2 leases, 2 servers; raising registry methods, lost leases, failing pings; fair | `NoOrphanServer`, `LeaseHasOwner`, and the liveness properties `LostLeaseStops`, `CallsReturn` |
| `runtime_registry_error` | the same callers; only `heartbeat` may raise | violates `Watched` |
| `runtime_late_stop` | 1 caller, no gate, 2 leases; leases may be lost | violates `PublishedIsServed` |
| `routing` | 2 requests of any kind, a GUI and a headless session, 2 providers, a verifier; fair | `VerdictWasTrue`, `FailsClosed`, `ExecutedAsAnswered`, `CloseEnds`, `NeverHalfRefreshed`, `ClosesOnlyItsOwn` (action property), `CallsAnswered` (liveness) |
| `handshake` | pipes of 2 lines, 6 lines written; fair | `WorkerNeverStuck` (liveness), `ImplementsReadiness` (safety and liveness) |

The type invariant of each module is checked by one of its runs.

**Why these bounds.** Three threads are the least with both a rival in the same
process and one in another; each property of FileLock speaks of two threads.
Two ids and three leases let a lease lose its id to a later one, with a
neighbour that must not be disturbed; a history of one entry is full after the
first expire, and is trimmed by the second; one tick of lock wait against one of
max age is the least at which a cleanup's cutoff is older than a renewal. Two
workers and two ids make two sessions that can be confused, and with two open
threads one can be published while the other is on its way. Ids are not reused
in the headless runs (see 5). `Symmetry` is used only in runs without liveness.
`MaxLease` and `MaxNow` appear as guards in `Register` and `Tick` and nowhere else.
Runtime: two leases make a restart that meets the leftovers of the first run, and
two callers a start and a stop, or two stops, at once; when the second lease or
the second server is spent, `register` or the bind raises, so those paths happen
too. `CallStart` has the bounds as a guard, so that a start which can only fail
is not called over and over. Routing: two requests can be a routed call and the
close, cleanup or open that pulls its session away, two closes of one session,
or two refreshes; two sessions are the least at which "several" is an answer,
and one of each kind shows that only the manager's may be closed. Two tool
names, of which a provider gives none, one, or one twice, let it clash with itself, with
another, or not. Handshake: with a capacity of two a pipe
is full while the other is not, and six lines fill both and still leave one to
block on. UpdatesAreAtomic needs two updates,
one of them stale: two threads make one each.
`MaxBound`, `MaxUpdates` and `MaxWrites` are guards of the same kind as `MaxLease`.
`CHECK_DEADLOCK FALSE` is said of the headless, routing and handshake runs only:
workers, requests and lines are used up in the end and the system may stop.

**Fairness.** FileLock: every thread that has entered takes its next step. The
interpreter schedules threads, both waits have a deadline, and the registry
methods inside the `with` block end. No thread has to enter and nobody has to
die. Note that a waiter is promised an answer, not the lock: weak fairness
gives no more, nor does polling. Headless: each call that was made goes on
(its waits have timeouts: `open` at most 60 s, a terminate 5 s and 5 s) and the
daemon thread goes on; no call has to be made and no fault has to happen. The
same holds of Runtime (every wait has a time-out: ping 2 s, join 2 s and 5 s, the
file lock 5 s), of Handshake (threads run, the deadline comes; the worker may do
nothing for ever, and no read has to raise) and of ControlPlane, where only the
threads of the callers are fair: a session may keep a request for ever, and what
answers the caller then is the client's time-out.

### What the violations show

* `runtime_registry_error`: one exception of `registry.heartbeat` (a lock time-out of 5 s
  is enough) ends the runtime's heartbeat thread (`runtime.py:97`), silently and with
  `record` still set. `start` returns that record again (47), nobody renews its lease or
  notices when it is lost, and its endpoint listens on, against the docstring at line 91,
  "Renew the lease until shutdown or ownership loss." The manager's heartbeat thread ends
  in the same way (`headless.py:179`): from then on no lease is renewed and no lost lease
  reclaims its worker until somebody closes, against the docstring at line 174 and
  `docs/runtime-contract.md:43`. The run `headless`, whose registry does not raise, says
  what that thread does otherwise; with the fault "registry" TLC finds
  `LostLeaseReclaimed` violated.
* `headless_stop_order`: `close` terminates a worker (`headless.py:158`) before it
  unregisters it (159). README.md:98 fixes the opposite order. Between the two, a
  router finds a session whose endpoint is dead, or somebody else's.
* `registry_read_error`: `_read` treats an OSError like bad JSON (`registry.py:208`)
  and moves a well-formed file aside. All leases are lost by one failing read,
  against the docstrings at lines 191 and 229 and `docs/runtime-contract.md:31`.
* `runtime_late_stop`: a heartbeat thread whose lease is lost withdraws the record
  under the lock (`runtime.py:102`) and stops the adapter later without it (109).
  `start` in between finds no record, is given the endpoint of the server that
  still listens, sees it answer the ping, registers it under a new lease and
  returns; then the late stop closes that server. What remains is a published
  session with a heartbeat thread that renews it and nobody who listens, against
  the docstrings at lines 30, 42 and 65 of `runtime.py`. `stop` has the same window
  at line 82.

## 4. What is proved

All proofs are about every value of the constants: any number of threads,
processes, sessions, workers, any history length, ages and clock.

**FileLockProofs.** `IInv` says who owns what at which line: the flock is a thread's
exactly while it is inside, the process-local lock from its acquisition to its
release, a descriptor is open only between `os.open` and `os.close`, and what a process still has
when no thread does was left by a call that raised (`Abandoned`).
`MutualExclusion` alone is not inductive: that a thread may take the flock safely
follows from who owns it. `MutualExclusionHolds`, `OutsideOwnsNothingHolds`,
`OnePerProcessHolds` and `Refinement` (to Mutex) follow.

**RegistryFileProofs.** `FileInv` adds to `IInv` that only the thread in the block has a
task, and that what it has read is what the file holds until its `Replace`: the
others cannot have changed it, as the lock is not theirs. Hence
`UpdatesAreAtomicHolds`: no crash and no failure loses or tears an update, for any
number of threads, processes and updates. This is why Registry may take a method
for one step.

**StoreProofs, RegistryProofs.** StoreProofs has one lemma per operator of Store:
each keeps `StoreInv` (leases are stored under the id they were issued for, the
history is older than the active records, the preferred session is the oldest,
places in the history are distinct, its length is bounded). RegistryProofs shows
that each method keeps it, because every read yields the store written last or
an empty one. `ActiveIsOldestHolds`, `HistoryIsPastHolds`, `HistoryBoundedHolds` (no
run repeats it: the length is one conjunct of `StoreInv`) and `Refinement` (to
LeaseTable) hold under every fault. `RefusalIsFinalHolds` assumes
that an unusable file can be moved aside (no "move" fault): otherwise a file
that cannot be read for a moment refuses a lease and honours it later.
`FencedHolds`, `ExpireRemembersHolds` and `ReapsOnlySilentHolds` assume that no fault loses
the file: then every read yields the store itself (`FaithfulRead`). `ExpireRemembers`
rests on `MovedIsRemembered` of StoreProofs: a new entry is last in the history and the
last is not trimmed; an id that is there already keeps its place, but then the history
does not grow. `ReapsOnlySilent` needs the invariant `Fresh`: the heartbeat in a record is
at most `LockWait` older than the last time its owner was heard, as `register` reads the
clock before it waits for the lock; the cutoff of the cleanup is as old, so a record
it reaps belongs to an owner silent for more than `MaxAge - LockWait`.
`OnlyMalformedSetAsideHolds` is the other side of the run `registry_read_error`: where reads
do not fail and metadata is finite, only what somebody damaged is set aside, so these
two are the only causes.

**HeadlessProofs.** `IInv` says that a call holds a worker exactly at the lines that
need one, that nobody holds a worker before its launch, that no worker is in two
hands (`Exclusive`), that the registry knows a session of the table by its own
lease or not at all, and what close_all has left to do. `ShutdownIsCompleteHolds`
and `TypeCorrect` hold under every fault. The others assume `NoReuse`: a session
id is not drawn twice. Ids are 32 random bits and `_new_id` compares them only
with active sessions; when an id comes back while its old entry is in `_processes`,
`open` overwrites that entry (`headless.py:144`) and the old worker is orphaned, and
a late refusal makes the heartbeat pop the new one (181). The assumption is
thus needed, not convenient. `NoOrphanHolds` assumes besides that workers can be
killed and that probes do not raise (a raising probe leaves `open` at 115-120
without terminating the worker), `PublishedIsManagedHolds` that the registry
answers. `Refinement` shows that every step of the manager passes on at most one
worker, as Ownership allows, under every fault but reuse.

**HandshakeProofs.** Whoever says that a worker is bound has it from the announcement: a
line in the pipe, an answer in the queue, `open` past `announced.get`. `IInv` (`Told`)
follows it, and `DecidesAsReadiness` concludes that no step looks or decides otherwise than
Readiness lets it, for any capacity and any number of lines: the safety half of
`ImplementsReadiness`.

**RuntimeProofs.** `IInv` says that callers and heartbeat threads are at lines of their
own code, that the threads born are those of the leases issued (`Roles`), that a start
is alone with `_lock` and there is no record meanwhile (`StartsAlone`), that the record
is the latest lease, that a heartbeat thread never renews a lease older than its own,
and that a lease once refused is gone for good (`LatestLease`). `Watched` is not
inductive without these: the thread of an earlier start may read the newer record, and
must not be able to take it for its own when it is refused. `NoOrphanServerHolds` and
`LeaseHasOwnerHolds` hold for any number of callers, restarts and servers, with any gate
and under every fault. `WatchedHolds` is the other side of `runtime_registry_error`: it
assumes that the registry's `heartbeat` does not raise ("renew" is no fault), and that
exception is thus the only thing that leaves a published runtime unwatched. What is
inductive under every fault is `WatchedOrRaised`, from which it follows.
`PublishedIsServedHolds` is the other side of `runtime_late_stop`: with one thread that
calls, no lost lease and no raising `unregister` (`Quiet`), a lease that stands
publishes an endpoint that listens, whatever fails to bind, register or renew; `Sole` is
what a caller and the adapter's server agree on then. Each assumption is needed: TLC
finds a counterexample without any one of them.

**ControlPlaneProofs.** `IInv` says, per call, what it has in hand at each line of `route`
and `_select` (`Lines`), what it knows of the session it asked for or chose (`Knows`), what
became of its request (`Sent`), and that a close past the table has stopped its worker for
good (`Closed`); for all calls together, that a worker taken from the table is in no
other hands (`Table`), that no collection of a refresh has a name twice (`Snapshots`), and
that nobody listens for a session before it is registered (`Unseen`). Three facts carry
the steps of the others: what was seen stays seen, a session's status only ages, a
request that was sent is run or lost once. `FailsClosedHolds` says
that no request leaves unless the verifier has accepted the very record that was
selected, in that call; who has the port when the request arrives is not claimed.
`VerdictWasTrueHolds`, `FailsClosedHolds`,
`ExecutedAsAnsweredHolds`, `CloseEndsHolds`, `NeverHalfRefreshedHolds` and `ClosesOnlyItsOwnHolds`
follow, for any number of calls, sessions and providers, with and without a verifier.

**Model-checked only.** The liveness properties `EnterReturns`,
`LostLeaseReclaimed`, `ShutdownStopsWorkers`, `LostLeaseStops`, `CallsReturn`,
`CallsAnswered`, `WorkerNeverStuck` and the liveness half of `ImplementsReadiness`:
liveness under fairness is out of the prover's reach. Every invariant and every
action property that a passing run checks is a theorem.

## 5. Abstractions and what is left out

* FileLock: an exception that is thrown into a thread between two lines (a
  KeyboardInterrupt after `flock` and before `return self`) is left out. Whether a
  raising `os.close` has closed the descriptor is not known, and both are modelled.
* A registry method is atomic: RegistryFile's `UpdatesAreAtomic` and FileLock's
  `ImplementsMutex` are the reason. An
  `__exit__` that raises after a successful `_write` (a failing LOCK_UN) would make
  a method raise although it took effect; the model has methods that raise
  with the file as `_read` left it.
* In Registry `_write` is its `os.replace`; RegistryFile has the rest of it.
* Wall clocks do not go back. Time-outs are steps that may be taken, not
  durations.
* A record's mode, endpoint, label, capabilities and metadata are not read by the
  registry and not modelled; of metadata the model keeps whether it is finite.
  Malformed single records, which `_read` drops, are not distinguished from a
  damaged file.
* `Path.exists` answers False when the file cannot be looked at; to the model that
  is an unreadable file that was not moved ("read" and "move" together).
* In Headless a registry call that raises has changed nothing; one call of
  close_all at a time; a launcher that raises anything but OSError ends `open` the
  same way. A worker that died by itself keeps its session: nothing in the code
  notices.
* In Headless `_wait_for_endpoint` and `_wait_ready` appear by their outcome,
  which Handshake shows; as there, a worker that died after the last look at it may be
  registered. The bounded diagnostics deques are not modelled.
* Handshake: a worker that outlives its kill when no time was left to start a reader
  writes to a pipe that nobody reads; `WorkerNeverStuck` says so (`Unread`).
* Runtime: `register`, the clearing of `_stop` and the start of the thread are one
  step, since `_lock` is held and the only others that look at the event are
  heartbeat threads of earlier runs, for which it is the same as to wake a moment
  earlier or later. A ping that raises `http.client.HTTPException`, which
  `gui.py:49` does not catch, would leave the server bound; it is left out, as is a
  thread that cannot be started.
* Router: session ids are not drawn twice. The verifier may accept, refuse
  or raise at will: it is asked about the record, and even with its yes, as without a
  verifier, a request may reach whoever has the port by then; nothing in the documents
  promises otherwise. The manager's
  open is one step (Headless has the others), its heartbeat's reclaiming too.
* The client's time-out is one step, `GiveUp`. In the code it bounds each operation on
  the socket (`transport.py:68`), so a peer who keeps sending a little can put it off;
  `CallsAnswered` is true of peers that do not.
* A request that is refused before anything is read (a `session_id` that is no
  string, an empty method name, arguments that are no object) is not modelled.
* ToolCatalog: two refreshes may publish in the order opposite to their
  collecting; the older snapshot then stays. The documents promise a whole
  snapshot, not the latest.

**Not modelled.** HTTP and JSON parsing and writing, size limits, notifications
(`transport.py` 174-190, 233-293): sequential input and output without state.
Validation in `types.py`, except finite numbers: sequential, tested directly.
Formatting of messages; exception classes and exports.

## 6. The plan

Built: FileLock, Registry, Headless (first part), RegistryFile, Handshake, Runtime,
Router, Catalog, ControlPlane (second part). Proved: every invariant, every action
property and the safety half of every refinement. What is left:

1. An abstract module of one published session, from its registration to the end of
   its endpoint, that Runtime and Headless implement and whose steps are those
   ControlPlane gives its sessions: today Router's `Register`, `Withdraw`, `Down` and
   `Expire` are justified by reading, not by a refinement.
2. With it, a proof that `registered` in Runtime is a LeaseTable of one id.
