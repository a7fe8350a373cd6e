# Verification of the svp task engine

TLA+ models, TLC runs and TLAPS proofs for the task engine of
`semanticvideo/svp`: the part of the repository that runs a build as a graph of
tasks on local and remote executors, survives lost workers and crashes, keeps
finished results on disk, and shares a worker's slots, memory and cache between
the coordinators that use it. It lives in `packages/svp-exec`, plus the code of
`tools/svp-builder` that opens its journal. `PROJECT.json` is the index:
components, runs, mutants, hazards, theorems, and for every definition that
models code the source lines it stands for.

## 1. The system

### 1.1 Parts, state and operations

| Part | State it keeps | Operations | Modelled by |
|---|---|---|---|
| **Scheduler** (`svp-exec/src/scheduler*.cpp`, `ready_set.cpp`, `ready_queue.cpp`) | a record per task (phase, attempts, executors to avoid, active leases, committed digest), the ready set and queue, `leases_`, a record per executor (slots in use, loss events and horizon, quarantine, backoff), the outcome | `run()`: apply resumed results, then rounds of dispatch, speculative dispatch, waiting for events, applying them, expiring leases; cancellation; failing the build | `Scheduler`, `BuildContract` |
| **Journal directory** (`recovery_journal.cpp`, `journal_cleanup.cpp`, `file_lock.cpp`, `journal_layout.cpp`, `journal_manifest.cpp`, builder's `build_journal_session.cpp`) | the tree `<output>-journal` and its lock file | `create`, `open`, `close`, `finish_success`, `remove_journal` by several processes | `JournalDirectory` |
| **Journal contents** (`journal_tasks.cpp`, `journal_artifact_store.cpp`, `verified_blob.cpp`, `journal_result_commit_sink.cpp`, `journal_resume.cpp`, `journal_scheduler_resume.cpp`, `journal_committed_results.cpp`) | task, artifact and attempt rows; `blobs/pending` and `blobs/completed` | record the graph, commit a result, resume, discard leftovers, reload | `RecoveryJournal`, `DurableResults` |
| **Remote executor** (`remote/src/remote_executor.cpp`, `worker_session_leases.cpp`) | sessions, their lease tables and send queues, session threads | `assign`, `cancel`, `lease_expired`, `close_idle_session`, `stop`; the session thread | `RemoteExecutor`, `ExecutorContract` |
| **Worker loop** (`worker_loop.cpp`, `worker/src/agent_session.cpp`) | running leases and their threads | read ASSIGN, CANCEL and SHUTDOWN; run; answer | `RemoteExecutor` (the other end of its sessions) |
| **In-process executor** (`in_process_executor.cpp`, `lease_heartbeats.cpp`) | job queue, running leases with their tokens, dropped leases, worker threads, the heartbeat thread | the same `Executor` interface | `InProcessExecutor`, `ExecutorContract` |
| **Worker cache** (`cas_*.cpp`, `worker/src/released_blobs.cpp`, the blob frames of `agent_session.cpp`, builder's `cas_output_pins.cpp`) | blob files with access times; per holder a lock file and a pin list; claims and release marks | pin, put, look up, verify, release, sweep, evict, by sessions and session processes | `WorkerCache` |
| **Worker admission** (`worker/src/slot_sharing.cpp`, `admission.cpp`, `memory_turns.cpp`) | slots and tickets per coordinator, admitted leases, the types waiting for memory | take a slot, admit, refuse, release, expire | `WorkerAdmission` |
| Loopback executor | child processes | the same `Executor` interface | its lease table, frame pump and worker loop are those of `RemoteExecutor` |
| Task graph, lease and retry policies | constants of one run | construction, critical path, durations | constants of `Scheduler` |
| Builder engine, fleet, batch builds, resize, interlace, calibration | plans, placements, staging scopes | build the graph, choose executors, publish outputs | not modelled |
| Package format, media, audio, vision, models, query, validation, tools | files | sequential or numerical | not modelled |

### 1.2 How the parts interact

```
 builder ──prepare()──▶ JournalDirectory ──owned journal──▶ RecoveryJournal
    │                                              ▲   │ committed results
    │ graph, executors                      commit │   ▼ (resume)
    └─────────────────────▶ Scheduler ──sink───────┘
                              │  ▲
             assign, cancel,  │  │ finished, failed, rejected, heartbeat
             lease_expired    ▼  │ (through the inbox)
                            Executor  ═══ frames over a connection ═══ worker
```

* The scheduler is one thread. Executors report from their own threads into an
  inbox which the loop drains once per round. A report may therefore come long
  after the scheduler gave up its lease, or never.
* `ResultCommitSink::commit()` is called by the scheduler's thread and returns
  only when the journal has the result. `BuildContract`, `DurableResults` and
  `ExecutorContract` state the interfaces between the parts. The composition
  rests on them: what `Scheduler` assumes of executors (a lease in `inflight` is
  reported at most once, in any order or never, and not after `stop()`) is what
  `ExecutorContract` allows, and what `RecoveryJournal.BeginCommit` assumes of
  its caller (a task that is not complete, after its dependencies) is what
  `BuildContract.Commit` promises. The resumed set the scheduler starts from may
  be any set of tasks, as a demotion in `RecoveryJournal.Resume` leaves it.
* Two builder processes for the same output meet only in the journal directory.
* Two coordinators meet in a worker agent, which serves each on a session of its
  own: `WorkerAdmission` decides which of their leases run, `WorkerCache` which of
  their blobs stay. Both are shared between sessions, admission under mutexes, the
  cache on disk, because the session processes use it too. `RemoteExecutor` takes
  from them only that an ASSIGN may be rejected and a task may fail.

### 1.3 What is hard

Reports that cross cancels, expiries and quarantines; duplicate attempts of one
task; losses that arrive one by one but are one event; the same clock read twice;
file-system steps of several processes around a lock file that is itself deleted;
crashes and power losses between staging, publishing, syncing and recording;
blobs that several tasks share; frames written after the mutex is released;
sessions that end while leases are added to them; `stop()` waiting for threads
that wait for a worker, or for task functions; eviction that reads the pins of other
processes while they come and go; a release, a new claim and a sweep of the same
blob; several coordinators and task types that wait for one worker. The list, line by
line, is `hazards` in `PROJECT.json`; every entry names the properties that cover it or says why none does yet.

## 2. The modules

Definitions keep the names of the code. A variable is a field of the code unless
its comment says that it belongs to the environment or is an observer.

### 2.1 Scheduler (`Scheduler`, `MCScheduler`, `SchedulerProofs`, `SchedulerOutcomeProofs`)

`SchedulerRun` as a state machine. `pc` is the place in `execute()`: `resume`,
then rounds of `loop`, `dispatch` (one executor after the other, `cursor`),
`speculate`, `check`, `wait` and `expire`. One action stands for one handler:
`OnDefectiveResult`, `OnFailedResult`, `OnCommit`, `OnCommitThrows`,
`OnDuplicate`, `OnInvalidResult`, `OnExecutorLost`, `OnRejected`,
`OnHeartbeat` and `IgnoreStaleReport` are the branches of `apply()`;
`BeginExpire`, `ExpireLease` and `EndExpire` are `expire_leases()`, whose list of
leases is collected before the first one is ended. What handlers share is an
operator: `Release`, `Abandoned` (quarantine), `AttemptFailed`,
`CountExecutorLoss`, `Requeue`, `Complete`, `Grant`.

Abstractions. The clock is reduced to the comparisons the code makes: a lease's
timer is running, lapsed or past its deadline, and an executor is in `declined`
while its backoff lasts; time may pass between any two steps, inside a dispatch
round too. The ready queue is a set with a total order `Rank`. A digest stands
for the outputs of a result. Durations, statistics, progress events and log lines
are left out. `MaxRejections` bounds rejections, which the code does not bound. Leases
granted within one clock tick are duplicated in the order of their numbers, where the
code compares their ids as strings; no property depends on it. `Return` stands for the end of `run()`, the
executors' `stop()` calls included; whether those return is a question to the
executors (`StopReturns`, `LeasesSettle`, and section 6.2).

One observer is more than a history: `sharing[e]` keeps the leases `e` held when its
latest loss was counted. `LossesShareAnEvent` says that none of them raises the count
again. The code does not keep that set; it compares grant numbers with `loss_horizon`.

`BuildContract` is the abstract specification: tasks taken over from an earlier
run, then at most one delivery per task after its dependencies, and success only
when everything is committed.

### 2.2 Journal directory (`JournalDirectory`, `MCJournalDirectory`, `JournalDirectoryProofs`)

Each process executes `BuildJournalSession::prepare()` in one of the three modes
as a sequence of file-system calls, one action each: the atomic `mkdir` of the
root, directories, `open(O_CREAT)`, `flock(LOCK_NB)`, the check that the locked
file is still the one at the path (and the retry), database, manifest, and the
entry-by-entry `remove_all`. Lock files are inodes, so a file that was unlinked
and locked is distinct from the one at the path. `Crash` is possible everywhere
and drops the lock; `IoError` makes a call fail, and `Fail` is what the code then
does: `create()` releases the lock and removes the tree, the others throw.

`overlap`, chosen in `Init`, selects the interleavings. If it is false, a process
starts only while the others are idle or use an established journal, and deletes
only when it is alone: the situations the lock was written for. If it is true
everything interleaves. `Starts` bounds the sessions in either case (`MaxStarts`,
`OverlapStarts`). `QuietlyOwned` and `QuietlyRecovers` are `JournalIsOwned` and
`FreshRecovers` for the first kind of behaviour. `LockExcludes` is about both kinds,
and about the moment `lock_file()` succeeds: the file locked is the one at the path,
and nobody who got through earlier holds it. Two overlapping sessions reach the case
the check of `same_file()` is for: one opens `build.lock`, the other deletes the
journal and makes it anew, and the first then gets the lock of a file nobody can find.

### 2.3 Journal contents (`RecoveryJournal`, `MCRecoveryJournal`, `RecoveryJournalProofs`)

One coordinator thread at a time, over any number of builds of one output. `pc`
follows `record_task_graph()`, then `commit()` (advance the task's state one edge
per transaction, stage every blob, publish by rename, sync the directory, the
transaction with artifact rows and state, the attempt row), and on `--resume` the
discarding of `pending/`, the transaction that verifies and demotes, the deletion
of unreferenced blobs after it, the recording of missing tasks and the reload. A
blob is named by its digest, so tasks can share one. A file under `completed/` is
absent, renamed but not durable, durable, damaged, or a replacement for a damaged
file that is not durable yet. `PowerLoss` undoes any renames that were not synced;
`Crash` undoes nothing; `Throw` is a failing call; `Damage` alters a blob on disk.
A SQLite transaction is atomic and durable when it ends (WAL, `synchronous=FULL`).

A deletion may fail, and the code ignores the error everywhere (`Leftovers`, counted
as a fault): a staged file stays in `pending/` as `litter`, an unreferenced one stays
under `completed/` and is remembered in the observer `stuck`. The second observer,
`cut`, has the files whose build ended between their rename and its
`sync_directory()`, until some later sync covers them. The three safety properties
say what the code guarantees with both: rows name durable blobs except damaged and cut
ones (`DurableRows`); a task is taken back only for such a blob (`NoWorkLost`); a build
under way has no garbage except what could not be deleted (`NoGarbage`). What the code
says without the exception, "never rows that point at missing bytes", is `NeverMissing`
and is violated (section 6).

`DurableResults` is the abstract specification: stored before acknowledged, a run
starts from exactly what is stored and only if the bytes of all of it verify then, and
nothing is withdrawn under a run. The disk may damage bytes at any time.

### 2.4 Remote executor (`RemoteExecutor`, `MCRemoteExecutor`, `RemoteExecutorProofs`)

The scheduler's thread, the thread that closes idle sessions, one thread per
session, and the worker at the other end with a thread per lease. What the code
does under the executor's mutex is one action. What it does after releasing it is
another: a frame to be written sits in `writing[t]`, a claimed lease whose event is
still to be delivered in `claim[s]`, the leases of an ended session in
`orphans[s]`. A connection is a FIFO queue each way; when it breaks the coordinator
still reads some prefix of what was under way. Towards the worker it holds
`SendBuffer` frames; a write blocks until there is room (`Writable`), as
`NwStream::write_all()` does, and a write on a connection that is gone fails at once.
`stop()` is a sequence of steps: write SHUTDOWN, wait for the session or the grace
period, cancel the stream, join. The write comes first and has no timeout, so the
grace period starts only when it has returned.

The worker follows the protocol. Left out: heartbeats (no state in the executor
depends on them; the scheduler models their effect), workers that break the
protocol on purpose, blob transfer and handshake contents, route selection, a bound on
the worker's answers under way (the session thread always reads), and
what a worker does after its connection is gone, which nobody can observe.

`ExecutorContract` is the abstract specification: at most one report per lease,
no lease dropped while the scheduler waits for it, nothing after `stop()`.

### 2.5 In-process executor (`InProcessExecutor`, `MCInProcessExecutor`, `InProcessExecutorProofs`)

The second implementation of `ExecutorContract`. The scheduler's thread calls
`assign`, `cancel` (also for an expiry) and `stop`, the worker threads run
`work()`, the heartbeat thread its rounds. A worker decides under the mutex
whether to report (`Decide`) and reports after leaving it (`Report`); a heartbeat
round is sent from a copy, outside the lock (`BeatDue`, `SendBeat`). The condition
variable is modelled with `notify_one`, `notify_all` and spurious wake-ups. A task
returns at any time or never, but once its token is set it returns.

### 2.6 Worker cache (`WorkerCache`, `MCWorkerCache`, `WorkerCacheProofs`)

Actors are the agent's sessions and the session processes. Each follows the code
call by call: opening the pin holder's lock file and locking it are two steps, with
the reader of the pins possibly in between; a pin is added under the shared eviction
lock; `remove_unpinned()` and `evict()` take it exclusively, read the live pins
holder by holder (probing and cleaning up after dead ones are steps of their own)
and delete file by file. BLOB_HAVE is pin, claim, look; BLOB_RELEASE is the release
and then the sweep from a copy of the candidates. `relied[a]` is an observer: what
`a` pinned and was then told is there. Faults are the death of a process or of the
whole agent, a file that goes bad, and file calls that fail: a pin list that cannot be
read to its end counts for what was read and the removal goes on (`ProbeMisread`), a
lock, directory or listing that gives an error ends the removal (`ProbeFails`), and a
file that cannot be deleted stays (`RemoveFails`, `EvictDeleteFails`).

Three more observers delimit what the properties excuse. `unread[a]` has the pins of
`a` that a remover failed to read; `PinsHonoured` excuses those and no others.
`skipped` says whether the latest sweep, or the latest eviction that got the lock, met
a failing call: an earlier failure excuses nothing, the next one must make up for it,
and an eviction that gave way to a busy lock is no excuse at all. `orphans` are the
processes that outlived the agent, which nobody sweeps or evicts after. A step that holds the
shared lock is atomic (it excludes only removers); pending files are private to
their writers and left out. Access times are ranks, one for each blob: `Touch` moves
a blob to the top, and `Listings` is what sorting by them yields. A process is either a `CasTaskArtifactAccess` or a
`CasOutputPins`, chosen in `Init`.

### 2.7 Worker admission (`WorkerAdmission`, `MCWorkerAdmission`, `WorkerAdmissionProofs`)

`assign()` is two calls with other sessions' calls in between: the slot, then the
memory; a refusal for memory gives the slot back in a third. Tickets only order the
waiting and are modelled as queues. Windows are steps: a wait lapses when nobody
refreshes it (`SlotWaitLapses`, `TurnLapses`), a rest ends (`RestOver`). The memory
measured and the estimates are combined as the ledger does, to what is left for one
more task; the measurement and the ledger's lock are one step (section 6.3). A
session stands for each coordinator. A declared slot count of zero (no limit) is in
the model but not in the instance.

## 3. The runs

Every run is `tlc -config <cfg> <module>`. Every property of a passing run has a
mutant in `PROJECT.json`: a change of one mapped definition, of the kind a slip in
that code would make, under which TLC finds the property violated.

| Run | Instance | What it checks |
|---|---|---|
| `scheduler` | 3 tasks, one dependency; a one-slot coordinator and a two-slot worker that refuses one task and is quarantined after two loss events; 2 attempts; 1 rejection; fairness | `LeaseBookkeeping`, `NoTaskLost`, `RetriesBounded`, `LossesShareAnEvent`, refinement of `BuildContract`, `Terminates`, `CancelEndsRun` |
| `speculative` | 2 independent tasks, speculation, 2 digests | late and conflicting duplicates: `CommittedExactlyOnce`, `SuccessIsDeterministic`, `CommitIsFinal` |
| `backoff_doc` | 2 one-slot executors | *violation* of `NoUsableExecutorIsTrue`, section 6 |
| `journal_directory` | 2 processes, crashes anywhere, fairness; either 4 sessions without overlap or 2 sessions with free interleaving | `QuietlyOwned` and `QuietlyRecovers` (without overlap), `LockExcludes` and `Settles` (both) |
| `journal_race_doc` | 2 processes, 3 sessions, free interleaving | *violation* of `JournalIsOwned`, section 6 |
| `recovery` | 3 tasks, 5 blobs of which one is shared and two are alternatives, 5 faults (failing deletions among them), fairness | `DurableRows`, `NoGarbage`, `SinkAccepts`, `NoWorkLost`, refinement of `DurableResults`, `BuildFinishes` |
| `missing_bytes_doc` | the same graph, 3 faults | *violation* of `NeverMissing`, section 6 |
| `remote_executor` | 2 leases, 2 sessions, a send buffer of 2 frames, 1 fault, fairness | `HonestWorkerIsTrusted`, `LossHasACause`, refinement of `ExecutorContract`, `StopReturns`, `EveryLeaseEnds` |
| `in_process` | 3 leases, 2 threads, fairness | refinement of `ExecutorContract`, `QuietOnceStopped`, `LeasesSettle` |
| `worker_cache` | 2 sessions of two coordinators, a session process of either kind, 1 blob, budget 0, 2 releases or a release and a fault | `PinsHonoured`, `ReleasedAreDeleted`, `BudgetEnforced` |
| `admission` | 2 coordinators with 4 leases of 2 types, 3 units of memory, 1 disturbance, fairness | `SlotsBounded`, `NoCoordinatorStarves`, `NoTypeStarves`, `WaitEnds` |
| `memory_turns_doc` | 2 coordinators with a lease each, no disturbance, fairness | *violation* of `NoTypeStarves`, section 6 |

Each module has one type invariant. `TypeOK` is checked in `scheduler`, `recovery`,
`remote_executor`, `worker_cache` and `admission`; in the last it includes that
slots and memory are booked for exactly the leases that are being admitted or run.

### Why the bounds are enough

* Scheduler. Two executors are the least with which avoiding an executor,
  preferring another one and duplicating an attempt mean anything; one has two
  slots, so that a quarantine finds another lease to abandon and two losses can
  share an event. A dependency, an independent task and a task one executor
  refuses give every way of being ready. Two attempts separate a retry from the
  last one. Nothing counts higher than these thresholds. Speculation and two
  digests are a run of their own, because they multiply the states and add no
  interaction with the dependency. The proofs of section 5 remove the bounds for
  the properties they cover.
* Journal directory. Every conflict is between two processes over one path. Four
  sessions are a build, its crash, a recovery attempt that crashes too, and
  another one; with free interleaving two sessions are enough for every pair of
  calls to meet. One relink retry stands for `kMaxRelinkRetries`: the loop's body
  does not depend on the count.
* Journal contents. Two tasks with a common blob and a third that needs both, one
  of them with two attempts that differ in their result record. Five faults cover
  a crash in a commit, one in the resume after it, a deletion that fails, damage, and
  one more (860 thousand states).
* Remote executor. Two leases are the least for a cancel of one to affect the
  other, two sessions for a retired one beside a live one. A buffer of two frames is
  filled by an ASSIGN and a CANCEL, or by an ASSIGN and the SHUTDOWN of an idle close,
  and leaves room for them to cross (540 thousand states).
* In-process executor. Three leases on two threads: both may hang while a third
  waits in the queue.
* Worker cache. Every property is about one blob, and blobs interact only through
  the order of eviction (which of several goes first is not checked: with one blob
  and budget 0 every blob must go that is not pinned) and through the candidates of a
  sweep; the proofs hold for any number of blobs. Two sessions and a process are a
  remover, a holder in the same agent and a holder that dies alone. Two releases are
  the least for a newer release to meet an older sweep. `MaxEvents` bounds releases
  and faults together: 2.6 million states.
* Worker admission. The least in which the two queues interact: two coordinators
  contend for the slots of one type while two types contend for memory, one of them
  too large to fit beside two of the other.

Deadlock is checked in the scheduler runs, where the ended run is the only
terminal state and stutters explicitly (`Terminated`). The other systems may come
to rest (every session budget used and nobody active; the build complete; the
executor stopped), so their configurations turn the check off, and the liveness
properties say that nothing comes to rest too early.

## 4. Fairness

* `Scheduler.FairSpec`: weak fairness of the loop's own steps. `inbox_.wait()`
  returns after `max_idle_wait` at the latest, so the thread never blocks. Nothing
  is assumed of executors: they may stay silent for ever. `Terminates` assumes in
  addition that the clock moves on (`ClockAdvances`: deadlines and backoffs pass).
  `CancelEndsRun` does not need it.
* `JournalDirectory.FairSpec`: a process that has begun a call makes its next
  file-system call. None of them blocks: `flock` is called with `LOCK_NB`.
* `RecoveryJournal.FairSpec`: the coordinator thread runs, attempts end in
  results, and the user resumes a build that ended early. Faults are bounded by
  `MaxFaults`, so "once faults stop" is a state every behaviour reaches.
* `RemoteExecutor.FairSpec`: the coordinator's threads run; a write ends when there
  is room or the stream is gone, and the grace period of `stop()` and
  the connector's reconnect window are timers. Nothing is assumed of the worker or
  the network. `StopReturns` has the premise that every connection has room again and
  again, or is down: a worker whose tasks hang but whose end still takes frames off
  the wire. It cannot be dropped (section 6.2). `EveryLeaseEnds` states what it needs of them in its premise
  (`WorkerRuns`): the worker reads, its tasks return, handshakes end.
* `InProcessExecutor.FairSpec`: the threads run; the scheduler goes on with its call
  and gives a lease up in the end, because every lease has a deadline; a task whose
  token is set returns, since task functions poll it (`cancellation_token.hpp`).
  Tasks without a set token may run for ever.
* `WorkerAdmission.FairSpec`: a coordinator with tasks asks again after its backoff,
  tasks end by their deadline, and the windows pass. It does not say in which order
  the askers come.
* `WorkerCache` states safety only: its calls wait for nothing but the eviction lock.

## 5. The proofs

`tlapm` proves the following for every value of the constants that satisfies the
named `ASSUME`s: any graph, fleet, policy, set of processes, sharing of blobs, any
bounds. TLC evaluates each `ASSUME` on every run of the module. Every invariant and
action property of the passing runs, and every refinement, has its theorem.

### 5.1 `SchedulerProofs`

Theorems `TypeCorrect`, `LeasesAccounted`, `ExactlyOnce`, `CommitsAreFinal` and
`Implementation` (of `BuildContract`), all from `Invariance: Spec => []IInv`.

None of the properties is inductive alone. `LeaseBookkeeping` speaks of running
states only and needs that a quarantined executor holds no lease (an expiry
abandons the others in the same step), so `IInv` has the parts `TaskLeases`,
`SlotCounts` and `QuarantineEmpty` for every state before the return. That a
dependency counter is never decremented below zero, which `TypeOK` includes, needs
`PendingCounts` (the counter is the number of dependencies that are not complete)
and that a task completes once (`PhaseComplete`). That a delivery comes after its
dependencies needs `DepsFirst` for ready and leased tasks, which needs
`PhaseLeased` (every lease belongs to a leased or committed task) and `PhaseReady`.
`CommittedExactlyOnce` is its own inductive part, with `BeforeStart` for resumed
tasks. `OutcomeAgrees` links `failure` to `status`, so that success is
never reported by a failed build.

Shared operators have a lemma each: `ReleaseKeepsBooks` (releasing a set of leases
keeps three records in agreement; cardinalities by `FiniteSetTheorems`),
`CompleteKeepsCounts`, `RequeueKeepsPhases`, `AttemptFailedIInv` (quarantine
included), `GrantIInv`. `NextIInv` then has one step per action.

### 5.2 `SchedulerOutcomeProofs`

What the build may rely on: `TasksAreKept` (`NoTaskLost`), `AttemptsAreBounded`
(`RetriesBounded` under `~Speculative`; with speculation it fails, section 6.2),
`SuccessAgrees` (`SuccessIsDeterministic`) and `LossesAreShared`
(`LossesShareAnEvent`, an action property). The first three come from
`OutcomeInvariance: Spec => []OInv`, where `OInv` is inductive relative to `IInv`.
`NoTaskLost` asks for more than phases: a waiting task must miss a dependency
(`WaitingBlocked`, so that the commit of the last one cannot overlook it) and a leased
task must hold a lease (`LeasedHeld`, so that no release leaves it leased by nobody).
`RetriesBounded` needs `AttemptsLeft` for leased tasks as well as ready ones, because a
rejection queues a task again without a look at the limit, and `OneLeaseEach`, because
the failure of an attempt ends the build only if no other runs. `DigestsAgree` keeps
every verified digest equal to the committed one until the build fails.
`LossesAreShared` needs `HorizonInvariance`: the leases that share the latest loss of
an executor all lie below its horizon (`HorizonCovers`). `LossStep` says that only a
lease at or above the horizon is counted and that horizon and counter move in that
step only, so a lease in `sharing` can never be the one that is counted.

### 5.3 `JournalDirectoryProofs`

`TypeCorrect` and `LockIsExclusive`, under every interleaving and for any number of
processes and sessions. The strengthening is `LockPhases` (which steps run with the
lock held) and `OneHolder` (an inode has one holder). `ThroughStep` says that a process
gets through `lock_file()` only in the step that finds the locked file at the path;
with `OneHolder`, nobody who got through before holds that file.

`OwnedWhenQuiet` and `RecoversWhenQuiet` (`QuietlyOwned`, `QuietlyRecovers`) use
`QuietInv` for behaviours without overlap. One process at a time creates, opens or
deletes (`OneBusy`). `AtLock`, `Creating`, `Opening` and `Removing` say what that
process knows of the directory at each step: which entries are there, and of whose
session. `Owning` says that while one build uses the journal, the others get no
further than the contended lock. `OneSession` is what makes a resumed journal
trustworthy: a database and a manifest that are both there are of one session, since
`create()` writes the manifest last and a deletion by a dead process leaves either of
them but never a mixture.

### 5.4 `RecoveryJournalProofs`

`TypeCorrect`, `SinkAlwaysAccepts` and `Implementation` (of `DurableResults`) from
`Inv`: `CommitInv` says what a commit in progress knows of its task, `DoneInv` that
a run counts exactly the committed tasks as complete, except the one whose
`commit()` has not returned. `RowsAreDurable`, `GarbageIsCollected` and
`WorkIsKept` use `Clean` in addition: `BlobInv` (a blob
that is not durable is being published now, or its build was cut short; a build that
runs has seen the bytes of every blob its rows name)
and `GarbageInv` (what the two directories can hold at each point of a build). None of
them assumes that deletions succeed.

### 5.5 `InProcessExecutorProofs`

`TypeCorrect`, `StopSilences` and `Implementation` (of `ExecutorContract`) from an
invariant with five parts besides the types. `OnePlace`: a lease is once in the queue
or at one thread, so a report or a drop really ends it. `Busy`: a thread has a lease
between taking and disposing of it. `KnownLeases`: what is held or reported was
assigned. `DropsAreAbandoned`: a result is dropped only after the scheduler gave the
lease up. `StopPhases`: which threads have ended at each stage of `stop()`. Three
lemmas say what appending, taking the head and erasing from the middle leave in the
queue.

### 5.6 `RemoteExecutorProofs`

`TypeCorrectness`, `HonestWorkersAreTrusted`, `LossesHaveACause` and
`ImplementsContract`, from `Invariance: Spec => []IInv`. The worker's frames are
judged by the lease table when they are read, so the invariant follows each lease
through every place it can be in between: waiting in the session's queue, being
written by `assign()` after the mutex was released, on the wire, at the worker,
answered. `OnTheWay` says that a lease under way belongs to its session, and that the
session knows it unless it is finished; `OnePlace` that it is in one place, once.
Without the second, an answer could meet a table from which an earlier answer to the
same lease removed it, and the session would end as a protocol error. Both have a
lemma for each kind of queue operation (`Appended`, `Removed`, `Shortened`, `Erased`).
`Order` (sessions are opened in turn and answer for their leases until they finish),
`Claims` and `Orphans` (a lease is with the table, a claim or the orphans of its own
session) and `Reports` carry the bookkeeping.

`LossHasACause` needs a reason before the report: `Causes` says that a session whose
link is down, whose worker is closing, or to which SHUTDOWN is under way, met a fault,
is being stopped, or was retired when it had no leases, which it then never gets again.

The refinement maps the contract's leases to `Held` and its reports to `LastEvent`.
`assign()` is `Assign`; `cancel()` and `lease_expired()` are `Abandon`; a delivered
claim and a reported orphan are `Report`; reading an answer to a cancelled lease and
the end of a session with cancelled leases are `Forget`; the first and the last step
of `stop()` are steps of the contract's stop, for which `StopOrder` shows that every
session thread has ended when `stop()` returns. Everything else stutters. The proofs
hold for every size of the send buffer.

### 5.7 `WorkerCacheProofs`

`PinsAreHonoured`, for any sessions, processes, blobs and faults. The invariant:
`LockHolder` (the exclusive lock is held exactly during the steps of a removal, and a
pin set is taken once), `PinFiles` (a holder's lock file is there and its list names
all it pinned; a reader of the pins never has its lock), `PinsRead` (what a remover has
read covers every holder it is done with, but for what it failed to read; a holder that appears meanwhile has pinned
nothing, because adding a pin needs the lock) and `Reliance` (actors rely on what they
pinned). `UnpinnedIsFree` is the conclusion: what a remover deletes, nobody relies on
except a holder whose pin it failed to read.

`TypeCorrectness`, `ReleasesAreNotLost` (`ReleasedAreDeleted`) and `BudgetIsMet`
(`BudgetEnforced`) use `Duties` in addition: whatever is left in the store that should
not be, somebody still has to remove.

* `UnclaimedAreSwept`: every released blob that nobody claims is some session's to
  sweep, because the session has its last sweep before it, is about to copy the
  candidates, or has the blob among them.
* `PinnedAreSwept`: if a remover must leave such a blob because of a pin it read, a
  session other than this removal's still has it to sweep. A holder is a session
  before its last sweep or a process of one (`Owned`).
* `Marked`, `Numbered`: such a blob has its mark, and a sweep that forgets a blob
  it deleted cannot take the mark of a newer release, because the release number it
  compares is an older one.
* `PinnedAreEvicted`, `Budget`: some session has still to evict, or one is deleting
  from a listing that covers the whole store with no pin to hold it back, or the
  store is within its budget.

`Duties` is stated apart for the two kinds of removal. A sweep in which a call failed
excuses the sweep's part until the next sweep copies its candidates, and an eviction in
which one failed the eviction's part until the next one has the lock
(`SweepFailsDuties`, `EvictFailsDuties`, `EvictDeleteFailsDuties`). An eviction that
gives way to a busy lock needs no excuse (`BusyDuties`): whoever holds the lock is a
session that has its own eviction still before it, or a pin being added, whose holder's
session has.

### 5.8 `WorkerAdmissionProofs`

`TypeCorrect` is inductive as it stands. `SlotsAreBounded` follows from it for a
non-empty set of coordinators: a slot taken without competition belongs to a
coordinator that keeps to its own limit, any other is below the limit of the taker.

### 5.9 Only model-checked

The liveness properties: `Terminates`, `CancelEndsRun`, `Settles`, `BuildFinishes`,
`StopReturns`, `EveryLeaseEnds`, `LeasesSettle`, `NoCoordinatorStarves`,
`NoTypeStarves`, `WaitEnds`. Liveness under fairness and `ENABLED` are beyond this
prover.

## 6. Where the code and its documentation disagree

### 6.1 Shown by a run

1. **A backoff that ends between two looks at the clock** (`backoff_doc`).
   `scheduler.hpp:56`: "the build waits rather than failing for lack of a usable
   executor". `dispatch()` and `any_executor_backing_off()` each read the clock; a
   backoff that ends between them fails the build with `no_usable_executor`.
2. **A journal deleted under its user** (`journal_race_doc`).
   `recovery_journal.hpp:34`: the lock is held "for its whole lifetime, so a second
   create() or open() for the same output fails". `remove_journal()` decides whether
   to lock from one look at `locks/` (`journal_cleanup.cpp:52`), and the error path of
   `create()` releases the lock before it removes the tree
   (`recovery_journal.cpp:163`). Where creations and deletions do not overlap,
   `JournalIsOwned` holds (`journal_directory`, `OwnedWhenQuiet`), and the lock itself excludes always
   (`LockIsExclusive`).
3. **Rows without bytes** (`missing_bytes_doc`). `journal_tasks.cpp:143`: "a crash after
   this point leaves unreferenced completed blobs (removed by resume), never rows that
   point at missing bytes". A blob found under `completed/` is shared without syncing
   the directory (`journal_artifact_store.cpp:62`). If the build that renamed it died
   before the sync and resume failed to delete it (`journal_resume.cpp:197` ignores the
   error), a power loss after the next commit takes it away under its rows. A second
   path needs no failing deletion: a damaged committed blob is replaced, the build dies
   before the sync, resume keeps the valid replacement, a later commit shares it; a power
   loss brings the damaged bytes back. `DurableRows` and `NoWorkLost` name exactly
   these files (`cut`). The next resume demotes the tasks: the cost is work done twice,
   never a wrong result (`ImplementsDurableResults`).
4. **A type that waits for ever** (`memory_turns_doc`). `memory_turns.hpp`: "No type
   starves". A type that did not fit waits only for the leases that ran when it was
   refused. If those end and another task of the running type is admitted before the
   waiting type asks again, the wait ends as fruitless and the type rests; asks that
   always come at the wrong moment repeat this. `FairSpec` lets every coordinator ask
   again and again and says nothing about when, as the code does. In `admission`,
   with more memory, the property holds.

### 6.2 Found by TLC, without a run of its own

The models contain these behaviours, and the properties of the runs are stated so that
they are exact about them. TLC shows each one when it is asked for the stronger claim.

* **Attempts beyond the limit.** `retry_policy.hpp:39`: "The build fails when a task
  reaches it with no attempt still running." With a speculative duplicate running, the
  failure that reaches `max_attempts` returns early (`scheduler_run.cpp:350`); if the
  duplicate is then rejected (298) or abandoned by a quarantine (427), the task is queued
  again without a look at `failed_attempts`. `RetriesBounded` fails in the instance of
  `speculative` with one attempt per task; without speculation it holds (`scheduler`,
  `AttemptsAreBounded`).
* **A stop without end.** `remote_executor.hpp:65`: "After SHUTDOWN and closing its
  output, how long a session may take to end before the connection is torn down". The
  SHUTDOWN is written before that period starts (`remote_executor.cpp:199`, 204), behind
  the writer's mutex (`frame_stream.cpp:29`) and without a timeout (`nw_stream.cpp:395`).
  A worker that is connected but has stopped reading holds `stop()`, and with it the
  scheduler's thread, for ever. The connection's keepalive notices a host that vanished,
  not a process that does not read. `Stopping ~> (stop = "stopped")`, which is
  `StopReturns` without its premise, fails in `remote_executor`: an unread ASSIGN and
  CANCEL fill the connection and `stop()` stays in `"write"`.
* **A pin list that cannot be read.** `cas_pin.hpp:18`: "eviction MUST NOT remove
  artifacts referenced by a live journal", and `cas_pin.cpp:92`: "refusing to evict is
  the only safe answer" where liveness is unknown. A list that cannot be opened or read
  counts as empty (`cas_pin.cpp:44`, 88) and what it pins is deleted under its holder.
  `PinsHonoured` without `unread` fails in `worker_cache`: a session pins a blob, is told
  that it is there, and another session's sweep misreads its list and deletes the blob.
* **A claim that does not hold.** `released_blobs.hpp:50`: "an earlier release of it no
  longer deletes it while this claim stands", and `:11`: "also between its sessions". A
  sweep works from a copy (`released_blobs.cpp:45`), and only pins protect what is
  claimed after it. A session that was refused its pin set because the sweep was just
  trying its new lock file, or that ended before the deletion, has none. In
  `worker_cache`, even without a fault, `RemoveUnpinned` deletes a blob with a claim. The
  blob is then sent again: the cost is a transfer.

### 6.3 Observed while modelling

Read in the code and represented in the models; no run is devoted to them.

* `cas_output_pins.cpp:18`: the store is emplaced before its pin set. If the pin set
  is refused, the next `store()` finds the store and calls `add()` on an empty
  optional; `WorkerCache.AddUndefined` takes that as the end of the process.
* `CasStore::pin_set()` also reports `busy` while `read_live_pins()` probes the new
  lock file of the same holder. An agent session then goes on without pins until it
  ends, so what it declared can be evicted (`PinSetBusy`).
* A corrupt blob is deleted by path after it was read (`cas_store.cpp:211`); a good
  copy published in between goes with it. The models count such a blob as `spoiled`.
* `admission.hpp` says concurrent sessions "cannot over-commit together", but the
  memory sample is taken before the ledger's lock. `WorkerAdmission` takes both in
  one step, so it does not show what a stale sample does.
* Slot tickets lapse by time (`slot_sharing.cpp:120`). The model lets one lapse only
  while its owner does not ask, and waits that overrun `max_wait` count as faults.
* A slot ticket is used up when the slot is taken, even if memory then refuses the
  lease; a waiting type's last ask is not refreshed by asks that fail earlier (for a
  slot, by yielding or under pressure), so its turn may lapse while it asks.
* CANCEL gives slot and memory back while the task may still be running.
* A lease cancelled on a live session stays in its table until a RESULT comes
  (`remote_executor.cpp:328`), which keeps that session from being closed as idle.
* Lease durations saturate (`lease_policy.cpp`) and the grant adds the current time
  (`scheduler_dispatch.cpp:103`); the sum overflows only for policies no caller sets.

## 7. What is not modelled

The repository has some 137,000 lines. `svp-exec`, where the concurrent, failing and
recovering code is, has 28,000 of them, many of them encodings, platform
wrappers and pairing. The others are mostly one-shot data processing: vision, audio
and media (47,000), package writers, readers, validators and queries (23,000), the
builder's stages and command line (31,000), tools. A state machine of that code would
have one action per function and no property beyond what unit tests state, so the
share of mapped lines is small by design, and no faithful extension would bring it
near a third of the repository.

* **Out of reach**: media, audio, vision and model code; calibration (measurements of
  the host); launchd, ssh and Network.framework wrappers; fleet keys and pairing.
* **Sequential and well tested by examples**: package format, writers, readers,
  validators, query, encodings and digests, command lines, progress rendering.
* **Abstracted**: SQLite (atomic, durable transactions), the file system (rename is
  atomic, `fsync` works), TLS and the byte stream (ordered, bounded towards the worker, may end at any time),
  digests (a digest identifies its bytes).
* **Left for later**: the loopback executor's child processes, the agent's handshake
  and process supervision, the builder's silence watch, `svpi_publication.cpp`, batch
  placement and retries, the critical path of `TaskGraph`.

## 8. Plan

Done: the scheduler, both halves of the journal, the remote and the in-process
executor, the worker loop, the worker's cache and its admission, with a proof of every
safety property and refinement. Next:

* models, each in place of or merged with an existing run: the loopback executor as
  a third implementation of `ExecutorContract`; `svpi_publication.cpp`; the builder's
  silence watch; batch placement and retries; operators for `TaskGraph`'s critical
  path and the saturating lease durations against reference definitions;
* proofs: the composition of section 1.2, that is, that the executors' contract is
  what `Scheduler` assumes of `inflight`.
