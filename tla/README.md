# TLA+ models of a2wave

a2wave turns agent CLIs (Claude Code, Codex, Cursor Agent, ...) into shared services. Its API server
(`apps/api`) admits requests as *runs*, queues them per agent, prepares a workspace (for SCM agents a
shared checkout or a worktree), starts a CLI process and settles the result. It runs as one process on
SQLite or as several replicas on PostgreSQL, and must survive cancels, retries, crashes, restarts and an
unreachable database in between. This directory holds TLA+ models of that core, checked by TLC on small
instances and, where marked, proved by TLAPS for every instance.

All paths below are under `src/apps/api/src/`.

## 1. Inventory

| Component | State it keeps | Operations | Hard behaviour | What makes it correct |
|---|---|---|---|---|
| Run queue (`engine/task-queue*.ts`) | `runs.status`, `ownerInstanceId`; order of the queue | admit, queue, promote | replicas decide at the same time; memory of one process is not visible to the others | never more CLIs than `maxConcurrency`; queued work moves |
| Execution lease registry (`engine/execution-lease-registry.ts`) | `leasesByRunId`, `settlingRunIds` in memory | reserve, complete, fire-and-forget durable release | completes on many paths; the release outlives the run | no lease without an executor |
| SCM workload leases (`lib/scm-workload-lifecycle.ts`) | `scm_workload_leases` | reserve, activate, release with retries | release in flight while the run is retried | a checkout in use has its active lease; a queued run its reservation |
| Sweepers and reapers (`lib/stale-lease-sweeper.ts`, `lib/scm-lease-sweeper.ts`, `lib/orphaned-run-reaper.ts`, `lib/reap-run-claim.ts`) | a candidate between liveness read and CAS | release orphans, fail or requeue runs of dead replicas | the verdict is stale when it is used | touch only what a dead replica left, and all of it |
| Startup recovery (`recoverOnStartup`) | lists read after the port opened | requeue, fail | works on a live queue | every interrupted run is resumed or settled |
| Run routes (`routes/runs.ts`, `routes/agents.ts`) | a request between two transactions | create, submit, follow-up, cancel, rerun, execute | check, then act | one CLI per row |
| Run lifecycle (`lib/run-lifecycle.ts`, `lib/execute-chat-run.ts`, `lib/run-startup.ts`) | `run_steps`, the executor | prepare, persist, finish, fail, clean up | the terminal transition is lost or fails | every path gives back lease, slot and step |
| Instance heartbeat (`lib/instance-heartbeat.ts`) | `instance_heartbeats`, `lastSuccessAt`, `lostOwnership` | beat, fence, release, prune | slow writes, late timers, clock skew | out of every checkout before a peer says dead |
| Graceful shutdown (`lib/graceful-shutdown.ts`, `index.ts`) | shutdown phase, hard timeout | drain, release, exit | drains hang | row released last; the process ends |
| SQLite transactions (`db/transaction.ts`, `lib/keyed-mutex.ts`) | the connection's transaction, the lock chain | `withTransaction`, `runExclusive` | every `await` yields to other contexts | owners atomic, bare writes not swallowed |
| Workspace removal (`lib/scm-workspace-removal*.ts`, `lib/workspace-cleanup-retry.ts`) | `scm_workspace_removals` with an attempt token; queues of releases to retry | reserve, remove, hand off, release, adopt | several removers on several replicas, lost replies, a run that picks the worktree | no removal under a run; a reservation belongs to one attempt and is resolved |
| SCM sync (`lib/p4-sync.ts`, `routes/scm-sources.ts`) | `scm_sources.sync_status`, path and stamp; `busyCheckouts` | claim, sync, index, settle, patch, delete, recover | sync against activation, a terminal write that fails, a fence | a checkout is not synced under a workload; the claim is given back |
| Evaluation queue (`engine/evaluation-queue*.ts`, `routes/evaluation.ts`) | `evaluation_tasks`, their results and leases | create, promote, run cases, cancel, delete, recover | outcome read and written in two steps; several replicas | one task per agent; terminal is final; no case left open; the queue drains |
| CLI process runner (`engine/cli-process-runner.ts`) | `activeProcesses`, kill timers, termination attempts | run, terminate, cancel, shut down | timers, events of the child and cancels in any order; descendants | no CLI goes on unseen; a terminated group is gone when the call returns |
| Job retry, idempotency, KB sync, A2A store, Feishu pending store, triggers | rows of their own | | redelivery, restart between two steps | not modelled yet, see section 8 |

`PROJECT.json` lists these and the parts that stay out (user interface, provider output parsers, file
storage, authentication, migrations) under `components`, and under `hazards` every place of the code that
is hard to test, with the property that would catch it.

How they interact: a route or trigger inserts a row and calls `tryAcquireSlot`, which counts slots, writes
the status and reserves the durable lease in one transaction, and reserves the execution lease in memory
afterwards. `executeChatRun` prepares the workspace, starts the CLI and calls the lifecycle, which settles row and
step, cleans the workspace, completes the execution lease (that starts the durable release) and calls
`scheduleNext`. Sweepers of every replica look at the same tables and at `instance_heartbeats`. Activation
of a workload and the claim of a sync look at each other's rows in one serialised transaction; the cleanup
of a worktree reserves it in the same way. The CLI itself is a child of `CliProcessRunner`, which the abort
signal of the execution lease and the shutdown reach.

## 2. Modules

| Module | What it is |
|---|---|
| `SlotPool` | abstract: members take and return `Size` slots |
| `RunQueue` | the run queue of one agent over all replicas, with leases, executors, sweepers, crashes and recovery |
| `MCRunQueue` | its instance for TLC (symmetry of replicas and clients) |
| `RunQueueProofs` | types of `RunQueue`; one turn per run, settled steps and no leaked lease while the replicas stay up |
| `RunQueueSlotProofs` | `RunQueue` implements `SlotPool`; capacity, guarded checkouts and kept reservations with crashes, one turn per run and careful reapers with restarts |
| `InstanceHeartbeat` | one life of one replica against the clock |
| `InstanceHeartbeatProofs` | the fail-stop argument |
| `SqliteTransaction` | async contexts on one SQLite connection |
| `SqliteTransactionProofs` | atomicity of owners, survival of bare writes |
| `DirectoryLock` | abstract: users share a directory, a writer has it alone |
| `WorkspaceRemoval` | one worktree, the runs that use it and everybody who removes it |
| `WorkspaceRemovalProofs` | a reservation names the attempt that acts on it, a removal excludes every user and every other removal |
| `ScmSync`, `MCScmSync` | one SCM source, its syncs and indexes, its workloads and its routes |
| `ScmSyncProofs` | a recorded revision belongs to the recorded place, a checkout has users or one writer |
| `EvaluationQueue`, `MCEvaluationQueue` | the evaluation tasks of one agent |
| `EvaluationQueueProofs` | one task replays at a time, a terminal status is final, its cases are settled |
| `CliProcess`, `MCCliProcess` | the child processes of one API process |
| `CliProcessProofs` | a live CLI is tracked, a terminated call and its waiter leave no process |

### RunQueue

An action is one database transaction with the synchronous code around it; what follows the next `await`
is a later action. State and code:

| Variable | Code |
|---|---|
| `run` | `runs`: `status`, `ownerInstanceId`; `old` is "`updatedAt` is before the owner's latest boot", `chat` is "`result` has a chatId" |
| `lease` | `scm_workload_leases` of the run: phase, owner, `old` as above |
| `step` | `run_steps` per turn |
| `req` | a handler between its first write and `tryAcquireSlot` |
| `ex` | `executeChatRun` or the execute route per turn: `admitted`, `ready`, `executing`, `cli`, `cleanup` |
| `turns` | executions a row has hosted (bounded) |
| `mem`, `settling` | `leasesByRunId`, `settlingRunIds` per replica |
| `reap` | the candidate of a reaper between its liveness read and its CAS |
| `up`, `beating`, `boots` | the process, its heartbeat row, how often each replica has restarted under its instance id |
| `recov` | `recoverOnStartup` and the list it works through |

Actions carry the names of the operations (`Submit`, `Create`, `Retry`, `FollowUp`, `Admit`, `Promote`,
`Prepare`, `Persist`, `Finish`, `Complete`, `Release`, `Cancel`, `Execute`, `ActivateExecuted`, `Delete`,
`SweepMem`, `SweepLease`, `ReapPick`, `ReapResolve`, `RecoverScan`, ...); `map` in `PROJECT.json` gives the
lines of each. The constant `Ops` selects the operations of a workload, so that a run can ask its question
without the divergences of section 5 in the way.

Abstractions, and why they are sound for the properties:

- The commit of an admission and `reserveExecutionLease` are one step. Lost: a cancel and the own sweep
  between the commit's reply and the continuation on PostgreSQL (listed as a hazard).
- Two durable releases of one run in flight count as one.
- The boot grace of recovery, the self-fence and the order of passes within one sweeper tick are left out:
  more behaviours than the code. A heartbeat expires only when the process is down; that is what
  `InstanceHeartbeat` establishes.
- A cancel's claim and its step update, and the status read after a lost CAS, are one step each.
- A client knows the id of a run once the request that created it is answered, unless `"listed"` is in
  `Ops`.
- In `RecoverScanStale` the age and the trigger source of a row are left open.
- Failure and recovery paths that await several writes are one step each: `RecoverRun` and `RecoverStale` (row,
  step and lease), `PrepareFail` and `StartupFail` (row, workspace cleanup, completion of the lease). Lost: a
  crash or another actor between those writes.
- Transactions are atomic also on SQLite; `SqliteTransaction` shows where that does not hold.
- The sync claim of a source is not modelled, so activation never loses to a sync.

### InstanceHeartbeat

One replica and the clock, in ticks. `sent`/`landed` is the upsert in flight, which takes any time and may
fail before or after it took effect; `last` is `lastSuccessAt`; `nextBeat` and `exitBy` are the interval
timer and the hard timeout, each at most `Lag` late; `busy` says that a workload of the replica is in a
checkout, `late` that one is which had passed `promotionsPaused` before the shutdown began and was activated
after it. The drains wait for the first kind. `PeerSaysDead` is `isInstanceOwnerDead` as a peer with a clock `Skew` ahead computes it. Assumed:
a write that failed does not land later, and the end of the process ends its CLIs with its container.
`canJudgePeerLiveness` is left out (peers judge at once, which is stricter).

### SqliteTransaction

Every statement is a step, so another context can run between any two. `open` is the owner of
`sqlite.inTransaction`, `log` its statements, `disk` the committed ones, `queue` the promise chain of
`withKeyedLock`. `withTransaction` joins an open transaction before it looks at the lock, as the code does.
A `COMMIT` that throws (`db/transaction.ts:228`, outside the `try`) is left out: it would leave the transaction
open with the lock released.

### WorkspaceRemoval

One worktree name of one source. `resv` is its reservation in `scm_workspace_removals` (token, owner), `tree`
whether the directory exists, `lease` and the run records the workloads that resolve, create and leave it.
Removers are the cleanup of a run, a deletion request, and the reconciler of each replica; the sweeper takes
over the worktree of a dead run. Each walks reserve, lock, recheck, remove, release or hand off, and a
database call that fails may have committed. `pend` holds the in-memory lists of releases and hand-offs a
replica retries. It implements `DirectoryLock`: runs in the worktree are the users, removers at work the writers
(`ExclusiveRemoval`). Abstractions: the removal on disk is one step that succeeds or fails; a failed creation
ends the run, where the code may go on in another directory. `PerAgent` selects the resolution of per-agent
worktrees, which does not look at reservations (section 5).

### ScmSync

One source with its row (`sync_status`, path, whether it is stamped, `deleting`), the checkout lock of each
replica, scheduled and manual syncs and reindexing, workloads, and the routes that bind, patch and delete the
source. The claim is a row write, the checkout lock memory of one process; the model keeps them apart. The
git or Perforce section is one step that succeeds or fails, the terminal write may fail, and so may the reset
after it. `Sites` are the dialects, kinds of source and workload, with the index or without. The port is open
before startup has looked at the row, as in `index.ts`. A turn whose worktree is unavailable falls back to the
shared checkout. A PATCH decides from a row it read earlier whether it changes the place: `seen` holds the places
the row has had since the process started, any of which such a request may have read, so the read and the write
are one step without losing what lies between them. `PatchResets` is the outcome that checks the claims and
resets the stamp, `PatchKeeps` the one that writes without a look. The source implements `DirectoryLock`
(`CheckoutExclusive`): workloads in the shared checkout and index runs are users, a sync or a deletion is a
writer.

Three history variables say what the code does not repair, so that the properties can speak of everything else:
`job.void` marks a job whose claim the reset at startup took away, `parted` that such a job or a PATCH with an old
verdict separated the row from its stamp, `stamp` is the place the last successful sync was of. The properties
without these exceptions are in section 5.

### EvaluationQueue

The tasks of one agent in creation order, each with its row, the statuses of its cases, its SCM lease and the
loop that runs it. Reading the outcome and writing it are two steps, as in `executeTask`. The reaper and the
sweeper of every replica, `gracefulShutdown`, the end of the process and startup recovery are actions. The
single slot is `SlotPool` with `Size` 1 (`OneTaskPerAgent`). Requests are served from the start of the process,
before its recovery. Every statement of the `try` block may throw, also the settlement and the summary after the
terminal write, and so may the writes of the `catch` block, the settlement of a cancel request and the recovery
(`Throw`, `RequestThrows`, `RecoverThrows`). The history variable `scar` keeps, per task, the three things nothing
repairs: recovery failed it under its executor (`mistaken`), a fenced process broke its loop off (`fenced`), its
last settlement threw (`threw`). Merged: the look at `promotionsPaused` and the claim after it
(`scheduleNextEvaluation`); the result rows of a recovered task and the release of its lease, whose failure the
code swallows and the sweep makes good (`RecoverResults`). `tryAcquireEvaluationSlot` is used by test adapters only
and is not modelled.

### CliProcess

Calls of `run()`, each with its `ActiveProcess`, and the processes behind it: the CLI and at most one
descendant, which holds the output pipes or not, in the process group or out of it. The operating system is
external: anything may exit at any time, SIGTERM may be ignored, SIGKILL and a successful taskkill are
obeyed. `close` comes when the CLI is gone and nobody holds the pipes. Left out: the line decoder (only that
it may throw), stdin, the text of stderr, and which reason is reported; a signal is never refused for want of
permission, for the CLIs run as the user of the server. Timers are not ordered by their delays.

## 3. Runs

Each row of `runs` in `PROJECT.json` is one question. Every property has a mutant there: a plausible bug
of the mapped definition under which TLC finds the property violated.

| Run | Instance | Properties |
|---|---|---|
| `replicas` | 2 replicas, SCM, 2 runs of 2 turns, 1 slot; submit, cancel, crash; fair | `Capacity` no more CLIs than slots over all replicas; `CheckoutGuarded` whoever is in a checkout holds its active lease; `QueuedKeepsReservation`; `ImplementsSlotPool`; `QueueDrains`, `OrphansSettle` after a crash |
| `temp_agent` | 3 replicas, each may crash and restart once, 1 run of 3 turns, no SCM; submit, cancel, crash, retention | `OneTurnPerFirstLife`, `ReapSparesLiveOwner`: the third replica is the peer that requeues and promotes between a reaper's read and its CAS; what happens on a replica that has itself restarted is excused |
| `retry_execute` | 1 replica, 3 runs, 2 slots; create, execute, cancel, retry, failing terminal transactions | `QueuedKeepsReservation`, `OneTurnPerRun`, `Capacity` |
| `execute_replicas` | 2 replicas; create, execute, cancel, retry, retention, follow-up | `StepsSettle`, `NoLeakedLease` |
| `sqlite_restart` | SQLite, one restart; fair | `OrphansSettle` |
| `heartbeat` | budget spent to the last tick; fair | `DeadOwnsNoCheckout`, also of late admissions until the replica deletes its row; `FencedExits` |
| `sqlite_transactions` | 2 transactions, 2 writers, 2 statements; fair | `OwnersAtomic`, `ExclusiveWritesSurvive`, `CallsReturn` |
| `removal` | 2 replicas, 2 runs, 1 deletion request, 2 faults, 2 tries; fair | `HeldByAttempt` whoever acts on a reservation made it; `ExclusiveRemoval` (refinement); `ReservationResolved` an unattended reservation goes away |
| `evaluation` | 2 replicas, 2 tasks, PostgreSQL with and without SCM, SQLite, a queue of length 0; 1 exception, crash, shutdown or fence; fair | `OneTaskPerAgent` (refinement); `TerminalIsFinal`; `CasesSettle` no open case under a terminal task without a scar; `QueueDrains` |
| `sync` | 2 replicas, 1 workload, 5 kinds of site, 2 paths, 1 failing operation, crash or fence; fair | `CheckoutExclusive` (refinement); `StampIsCurrent` the recorded revision is of the recorded place unless they were parted; `ClaimReleased` |
| `cli` | 2 calls, 1 or 2 task ids, POSIX and Windows, descendants; fair | `LiveIsTracked`; `TerminatedTreeIsGone`; `WaitersReap` when a cancel or shutdown returns nothing is left; `RunsSettle` |

Bounds. Two runs and one slot give a holder and a waiter, three runs and two slots a second holder. Two
turns give a turn and the retry or resume that meets its leftovers. Two replicas are the actor and the
peer; three add the bystander of an ABA, and with a restart of each and three turns a run is requeued twice under
ids that were used before. `MaxQueue = 1` makes the full queue reachable. One restart is
enough for marks of an earlier life. In `heartbeat` the constants keep the order of the code's (30 s,
240 s, 300 s, 24 h, 10 s) with no slack, so that each term of the budget decides a behaviour; the clock
runs past the death and the prune threshold. In `removal` two runs are the one that leaves and the one that
arrives, five tokens are enough for every reservation two faults allow (a reconciler's failing hand-off belongs to the
outage that failed its removal and is not counted again), and two tries make the end of the
budget reachable. In `evaluation` two tasks are the holder and the waiter, and the full queue is a site with
limit 0; the one fault may be of any kind, so a stop never meets an exception (the safety properties have also been
checked with two faults, site by site, up to 2.1 million states, and are proved for any number). In `sync` one workload meets the sync of its own and of the other replica, and two paths make a
patch visible. In `cli` the second call is the fallback that reuses a task id, or another task for
`shutdown`. Deadlock checking is off because every bounded workload
ends. Symmetry over replicas and clients is used in safety runs only.

Fairness. `RunQueue`: awaits resume, CLIs end (the worker timeout kills them), timers of the sweepers
fire on every live replica, a silent heartbeat expires, a stopped replica is restarted while the bound
allows. Strong fairness only for the pick of a reaper, whose scan takes every candidate in turn but can find a
candidate gone. Nothing is assumed of clients. `InstanceHeartbeat`: time advances and due timers fire;
nothing of writes and drains. `WorkspaceRemoval`, `EvaluationQueue`, `ScmSync`: awaits resume, the timers of
live replicas fire, and a stopped replica is started again (`docker-compose.yml` says `restart:
unless-stopped`); nothing is assumed of clients, and faults are bounded. `CliProcess`: timers fire, what was
killed dies, events are delivered, taskkill ends or times out; a CLI need never exit by itself.
`SqliteTransaction`: the event loop resumes callbacks; calls need never
arrive.

## 4. Proofs

| Theorem | Assumptions | Argument |
|---|---|---|
| `TypeCorrect` | `ConstantsOK` | `TypeInv` adds `Grounded`: a live request, executor or reap candidate refers to a replica and a run, and a turn can be restored only to a status it came from. Without it `Admit` and `PrepareFail` could write anything. |
| `QueueImplementsSlotPool` | `"execute" \notin Ops` | `SlotInv` (an absent row has no lease, no executor of the execute route); every action changes the slots of at most one run (`OneRunStep`), and each that adds one saw a free slot, where a replica counts at least what everybody sees (`FreeSlot`). |
| `RunsHostOneTurn`, `StepsAreSettled`, `LeasesAreNotLeaked` | `RouteWorkload`: no crash, no follow-up turn, no `"listed"` | `TurnInv`: a turn that has not settled its row is the latest of its run, and the row is running, cancelled or deleted (`TurnLatest`); an open step is that of the latest turn, which is still at it or has a running row (`StepOwned`); an execution lease has an executor or its row is deleted (`MemBacked`); no mark makes a live owner look dead (`RowMarked`, `FleetUp`); a request waits on a pending row that nobody else waits on (`ReqWaits`). `OneTurnPerRun` alone does not see that a retry or an execute finds only rows without a busy turn. |
| `CheckoutIsGuarded`, `QueuedRunsKeepReservation`, `CapacityHolds` | `TriggerWorkload`: submit, create, cancel, crash, and retention if the agent has no SCM; `MaxBoots = 0`: a crashed replica stays down | `OwnInv`: a live turn is the latest, on a replica that is up and owns the running row, or the row is cancelled or the turn cleans up after it (`TurnOwned`); with SCM it is registered in memory and has the active lease (`TurnLeased`), and who is registered is a live turn (`LeaseBacked`); a release is in flight only after the turn (`ReleaseLate`); a queued or running row has its lease (`RowReserved`); a reaper's candidate was owned by a replica that is dead for good (`ReapDead`), and one that is up beats (`FleetAlive`). `Capacity` follows from `QueueImplementsSlotPool` (`SlotsBounded`): by `TurnLeased` a CLI holds a slot. |
| `ReapersSpareLiveOwners`, `RequeuedRunsHostOneTurn` | `RestartWorkload`: submit, create, cancel, retention, failing terminal transactions, crashes and any number of restarts under the same id, SCM or not | `FirstInv`, about the replicas that are up in their first life: a turn of one is the latest of its run and its row names the replica or is settled (`FirstTurn`); no old mark names such a replica (`FirstMark`), and no reaper's candidate ever belonged to one (`ReapPast`), for a candidate is picked from a dead owner and a first life does not begin twice (`FirstShrinks`). So the CAS on the owner is safe however old the read. For a replica that has restarted, candidate and owner can be the same id, and both properties fail (`bug_reused_id`). |
| `HeartbeatTypeCorrect` | `TimesOK` | types per variable |
| `DeadReplicaOwnsNoCheckout` | `Budget` | what was admitted in time is out before the drains end (`BusyEarly`); a live, unfenced process renewed within `FenceAfter` and its row is at most a boot write older (`LiveRowIsFresh`); a closing one is gone within the interval, the hard timeout and two lags (`ShutdownInTime`); the budget covers the sum |
| `TransactionTypeCorrect`, `TransactionsAtomic`, `BareWritesSurvive` | `TasksOK` | `IInv`: whoever is past the lock is its holder, a transaction is open exactly while its owner is in its callback, an owner's statements are in its log, then all on disk or nowhere |
| `CallsTypeCorrect`, `LiveCliIsTracked`, `TerminatedCallsReap`, `WaitersReapCorrect` | `SitesOK` | `IInv`: a task id stands for a call exactly while it is active (`Tracked`), a result that waits or was returned is one of a CLI that exited (`Child`), and a force kill on POSIX leaves nothing in the group that could fork (`Reaped`). None of the properties is inductive without the last two: a call could return while its CLI lives, or its group could grow after the kill. A waiter's calls have ended (`WaitInv`), so the last theorem follows from the one before. |
| `RemovalTypeCorrect`, `RowNamesAttempt`, `RemovalIsExclusive` | `ConstantsOK`; the last one also `~PerAgent` (the worktree is one its runs name; a per-Agent worktree violates it, section 5) | `IInv`: nobody else remembers the token of an attempt at work (`HeldInv`); a run at work keeps a lease of this life on a live replica until it leaves (`RunInv`); an attempt at work is on a live replica (`RmInv`); from its decision to its end a removal meets no lease but its own (`ClearInv`), because admission needs a free row. `HeldByAttempt` alone does not see that a take-over forgets the old token, and `ExclusiveRemoval` needs `ClearInv` at the two steps that begin a removal and at the one that creates a worktree. |
| `SyncTypeCorrect` | `ConstantsOK` | `BaseInv`: types, a process that is down has no job (`LifeInv`), a source that is going has no agent and no workload (`DeleteInv`). |
| `StampsAreCurrent` | `ConstantsOK` | `ClaimInv`: whoever has claimed `syncStatus` or the index, and was not robbed of it by the reset at startup, sees its claim in the row, and no other claim is beside it; with it `StampInv`: the path such a job works on is the one in the row unless a PATCH has parted them, and what it will stamp has been synced. `StampIsCurrent` alone does not know what the job will write. |
| `CheckoutIsExclusive` | `ConstantsOK` | `WorkInv`: whoever is in the shared checkout by right is seen there, and while a job writes by right nobody is seen. Each side looks at the other's row in its own transaction, and `ClaimInv` makes the row tell the truth. |
| `EvaluationTypeCorrect` | `ConstantsOK` | `BaseInv`: types with the bound of the queue, the loop is at a case of the set, who works on a task is in a process. |
| `TerminalStatusIsFinal`, `OneTaskReplays` | `ConstantsOK` | `TaskInv`, for the tasks that are not mistaken: an executor before its terminal write has a running task, one task runs, its lease carries the owner and the boot of its executor's process, and recovery's list has tasks without an executor. A mistaken task was started once and is not started again. `ProcessInv`: who works is in a process that is up. The statuses are written without a look; they are safe because nobody else touches a running task whose executor lives. |
| `CasesAreSettled` | `ConstantsOK` | `SettleInv`, for the tasks without a scar: the cases before the loop's are settled, and an executor completes a task only at the end of the set; a stop turns whoever was at the task into the dead one that the property excuses. |

The `Budget` that the second heartbeat theorem needs is more than `fail-stop-timing.test.ts` adds up: two
event-loop lags, the clock skew and the latency of the boot write belong to it. With the constants of the
code 20 s are left for them (300 - 240 - 30 - 10).

Every step of `EvaluationQueue` is either about one task (`LocalStep`) or a step of a process; the first kind
is shown to keep the invariant once (`FrameBase`, `FrameTask`, `FrameSettle`), whatever the action. The attempt to prove
`CasesSettle` for any number of stops found a case that one stop does not reach: an executor whose failure
write throws leaves a running task without a process, the SQLite process that restarts fails it, and stops
again before it settles the result rows. The model now counts a recovery between its two writes among those that
can die (`Down`); a recovery that follows does not look at the task again, its status being terminal.

The workloads of the `RunQueue` theorems leave out the operations with which the property fails (section 5)
and a few with which the invariant does. With follow-up turns `OneTurnPerRun` fails (`bug_double_turn`) and
two turns on a row leak a lease (`bug_lost_lease`); a crash leaves steps open; execute breaks `Capacity`
(`bug_execute_cancelled`), retry on another replica `QueuedKeepsReservation` (`bug_retry_peer`) and
`CheckoutGuarded`, retention under a cancelled SCM
turn `Capacity` and `CheckoutGuarded` (last paragraph of section 5). With `"listed"`, where a client acts on
a row whose request is still under way, `ReqWaits` does not hold; no violation of `OneTurnPerRun` is known.

Only model-checked: liveness (outside the prover's reach), and `RunQueue` in the workloads between these two:
`Capacity` and `QueuedKeepsReservation` with execute, retry and failing transactions on one replica
(`retry_execute`), `StepsSettle` and `NoLeakedLease` with one follow-up at a time (`execute_replicas`).

## 5. Where the code and its comments disagree

One run is expected to fail; its finding is in `PROJECT.json`: `bug_double_turn` (`OneTurnPerRun`), two
follow-ups of one conversation both pass the status check.

Further configurations reproduce cases that the passing runs keep out; each violates the named property.

| Configuration | Property | What happens |
|---|---|---|
| `bug_resume_lease.cfg` | `QueuedKeepsReservation` | startup recovery requeues a run and deletes the lease that its promotion requires (`engine/task-queue.ts:474`) |
| `bug_joined_transaction.cfg` | `NoLostTransaction` | a transaction joins a stranger's and is rolled back with it after it returned (`db/transaction.ts:212`) |
| `bug_lost_lease.cfg` | `NoLeakedLease` | of two turns on one row, the loser of the terminal transition keeps its execution lease |
| `bug_turn_reservation.cfg` | `QueuedKeepsReservation` | a follow-up is queued on the lease that the release of the turn before then deletes (`lib/scm-workload-lifecycle.ts:380`) |
| `bug_retry_peer.cfg` | `QueuedKeepsReservation` | the guard of a retry looks at one process, the release runs in another (`routes/runs.ts:1479`) |
| `bug_reused_id.cfg` | `ReapSparesEveryOwner` | ids are reused (`db/schema.pg.ts:1505`): activation keeps an old mark (`lib/scm-workload-lifecycle.ts:272`), and a reaper takes the new life of a replica for the one it read about; with three turns `OneTurnPerRun` fails too |
| `bug_execute_unowned.cfg` | `OrphansSettle` | the execute route claims without an owner (`routes/runs.ts:1127`) |
| `bug_execute_cancelled.cfg` | `Capacity` | a run cancelled before its activation starts its CLI (`routes/runs.ts:1200`) |
| `bug_startup_fresh.cfg` | `RecoverySparesFreshRuns` | recovery settles a run the new process admitted (`engine/task-queue.ts:431`) |
| `bug_boot_credit.cfg` | `DeadOwnsNoCheckout` | the renewal state starts at the return of the boot write (`lib/instance-heartbeat.ts:193`), where every later write counts from its start |
| `bug_late_admission.cfg` | `DeadOwnsNothing` | `promotionsPaused` is read before the lock; the admission goes on after the drains (`engine/task-queue.ts:201`) |
| `bug_handoff_race.cfg` | `CleanupGuards` | a cleanup that is tried again acts on checks made before the reservation was free (`lib/workspace-cleanup-retry.ts:91`) |
| `bug_previous_life.cfg` | `SweepGuards` | the guard of the sweeper looks at the memory of this life only (`lib/scm-lease-sweeper.ts:111`) |
| `bug_reconciler_disown.cfg` | `AlwaysAdoptable` | a claim whose reply is lost, or a reconciler that cannot disown its adoption, leaves the row under a live owner that forgot it (`lib/scm-workspace-removal-reconciler.ts:271`) |
| `bug_per_agent_worktree.cfg` | `ExclusiveRemoval` | the resolution of a per-agent worktree does not look at reservations (`lib/agent-helpers.ts:1280`) |
| `bug_fenced_evaluation.cfg` | `CasesSettleUnlessThrown` | a fenced loop leaves its cases open (`routes/evaluation.ts:328` says every terminal path settles them); so does a settlement that throws in a cancel request (`1015`), in the catch block (`623`) or in recovery, which violates `CasesAlwaysSettle` |
| `bug_late_failure.cfg` | `TerminalIsAlwaysFinal` | the settlement or the summary after the terminal write throws, and the catch block writes `failed` over `completed` or `cancelled` (`routes/evaluation.ts:525`, `606`, `612`) |
| `bug_evaluation_recovery.cfg` | `EveryTaskAlone` | recovery fails a task that the new process has started since the port opened (`index.ts:690`, `740`) |
| `bug_abandoned_evaluation.cfg` | `AbandonedFail` | a task without SCM whose replica died stays running (no lease, hence no reaper) |
| `bug_rolling_evaluation.cfg` | `QueueDrains` | after a shutdown nothing but a restart or a request promotes the queue |
| `bug_degraded_turn.cfg` | `EveryoneExclusive` | a run that recorded a worktree in its last turn and falls back to the shared checkout in this one is not seen by a sync (`lib/scm-workload-lifecycle.ts:237`, `lib/agent-helpers.ts:1633`) |
| `bug_boot_reset.cfg` | `EveryoneExclusive` | startup resets a claim made since the port opened (`lib/p4-sync.ts:1020`) |
| `bug_stale_patch.cfg` | `StampIsAlwaysCurrent` | a PATCH that judged an old row unchanged writes its place under a sync or over a stamp, with no look at either claim (`routes/scm-sources.ts:326`, `388`) |
| `bug_fenced_sync.cfg` | `PreAcquiredSettles` | a fenced replica returns without giving back the claim of its caller (`lib/p4-sync.ts:590`) |
| `bug_escaped_child.cfg` | `RunsSettle` | a descendant that left the group, or on Windows outlived its parent, and holds the pipes keeps `run()` from returning after SIGKILL (`engine/cli-process-runner.ts:399`) |

Known strandings that no property covers: a crash can leave a step `running` under a settled row
(`StepsSettle` is checked without crashes); a pending row younger than 30 s at a restart stays pending;
a failed terminal transaction followed by a crash can leave a queued run without its lease; a startup recovery
of evaluations that stops between its two writes leaves result rows open, for the next one lists running
tasks only (the dead settler that `CasesSettle` excuses); and retention that deletes a cancelled SCM run under its executor lets the sweeper of stale
leases complete the execution lease and release the durable one while the CLI is still in the checkout.

## 6. Running

```
tlc -workers 2 -config replicas.cfg MCRunQueue
tlc -workers 2 -config heartbeat.cfg InstanceHeartbeat
tlc -workers 2 -config sqlite_transactions.cfg SqliteTransaction
tlc -workers 2 -config removal.cfg WorkspaceRemoval
tlc -workers 2 -config evaluation.cfg MCEvaluationQueue
tlc -workers 2 -config sync.cfg MCScmSync
tlc -workers 2 -config cli.cfg MCCliProcess
tlapm RunQueueProofs.tla
tlapm RunQueueSlotProofs.tla
tlapm InstanceHeartbeatProofs.tla
tlapm SqliteTransactionProofs.tla
tlapm CliProcessProofs.tla
tlapm WorkspaceRemovalProofs.tla
tlapm ScmSyncProofs.tla
tlapm EvaluationQueueProofs.tla
```

The largest runs (`execute_replicas`, `removal`) have half a million states; the longest takes about
three minutes.

## 7. Not modelled, and why

Most of the repository has no state of its own to get wrong: the web application and the command line client
(more than half of the lines), the parsers of provider output, the channel SDKs, file storage and indexes,
routes that read or write one row, schema and migrations are input, output and translation. A model of them
would repeat them. Authentication is outside the scope of these correctness properties. Of the components
that are modelled, these parts are left out: usage accounting, logs and webhooks of the run lifecycle; git
and p4 commands; what an evaluation sends and how it is judged; the line decoder of the CLI output. The
producers of runs listed in section 8 are not modelled yet. The map therefore covers a small share of the
repository's lines, and nearly all of the code that arbitrates between processes.

## 8. Plan

1. `RunQueue` with `SlotPool`, its runs and proofs (done).
2. `InstanceHeartbeat` with its proofs (done).
3. `SqliteTransaction` with its proofs (done).
4. `WorkspaceRemoval` with `DirectoryLock`, with its proofs (done).
5. `ScmSync` with `DirectoryLock`, with its proofs (done).
6. `EvaluationQueue`, the second client of `SlotPool`, with its proofs (done).
7. `CliProcess`: termination, force kill, late close, with its proofs (done).
8. The producers of runs: job retry chains, idempotency keys, the pending store of Feishu, triggers; then
   the knowledge base lease and the A2A task store.

Theorems still to prove: `Capacity`, `CheckoutGuarded` and `QueuedKeepsReservation` for execute and retry on
one replica, where a release in flight is known to the process that a retry asks (`settling`), and the
`"listed"` requests. Runs grow by merging questions of one component into one instance, not by adding
instances.
