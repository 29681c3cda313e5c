# TLA+ models of 143

143 is a coding-agent platform.  An API server accepts sessions and messages, a
PostgreSQL job queue carries them, worker nodes claim and run them, containers
execute the long turns, and recovery loops repair what crashes, deploys and
lost leases leave behind.  PostgreSQL is the only means by which these processes
coordinate.  This directory keeps TLA+ models of that coordination, the TLC
configurations that check them, and TLAPS proofs of the properties that matter
most.  Paths below are relative to the repository.

## 1. The system: inventory

| Part | State | Operations | What makes it hard |
|---|---|---|---|
| Node registry (`internal/cluster/node.go`, `internal/db/node_store.go`, `internal/worker/node_drain_watcher.go`) | a row per node: status, drain intent, last heartbeat; per process: a draining latch, the queues' draining flag | register, heartbeat, operator drain and resume, drain watcher, shutdown, stale-node scan | a heartbeat reads the latch and writes later; restarts under a drain; a live process declared dead |
| Job queue (`internal/db/jobs.go`) | the jobs table: status, attempts, lock token, lease, owner, pin, dedupe key | enqueue, claim, renew, terminal writes and retries fenced by the token, reclaim, cancel, terminalize, purge | lost answers, late writes of replaced owners, attempt refunds, dedupe under requeue |
| Worker loop (`internal/worker/worker.go`) | one job per slot, the lease as last confirmed, an expiry timer | poll, handler, renewal loop, decision between retry, failure and dead letter, hooks | a renewal that hangs while the lease runs out; ownership lost while the handler runs |
| Durable session executors (`internal/worker/session_executor_*.go`, `internal/db/session_executor_store.go`) | the executors table, a dispatcher per worker, a process per container | reserve, launch, hand off, boot, heartbeat, renew, finish, recover | a container that outlives its dispatcher, two terminal writes, two recovery paths |
| Retirement seals (`internal/db/node_retirement.go`, migration 312) | one seal per node generation, an advisory lock, the node row lock | seal, admit (triggers), own without a trigger, control writes, registration, deletion of the row | READ COMMITTED snapshots, lock order, admission racing the count, owners that only the count sees |
| Scheduler lock (`internal/cluster/scheduler_lock.go`) | a session-level advisory lock on a pooled connection | try, release | answers lost around a session lock, connections that go back to a pool |
| Thread inbox and runtimes (`internal/db/thread_inbox_store.go`, `thread_runtime_store.go`, `internal/services/agent/thread_runtime_delivery.go`) | entries with a delivery state, runtimes with a lease and two watermarks, in-memory handles | append, start a runtime, admit seeds, claim, write, acknowledge, dead-letter, replay, close, reap | writes whose outcome is unknown, replaced runtimes, order, watermarks versus receipts |
| Sandbox containers (`internal/db/session_store.go`, `session_sandbox_holder_store.go`, `internal/services/agent`, `internal/services/preview`) | the container and hold columns of a session, a preview's hold, leased holder rows, the container daemons | create and publish, join, fence, release, finalize and destroy; reserve, start, abort and stop a preview; collect; reconcile | six kinds of process decide to destroy; ids read earlier; hosts that cannot see each other's containers |
| Session publication (`internal/services/publicationintent`, `internal/db/session_publications.go`, `review_loops.go`, `internal/worker/handlers.go`, `internal/services/github`) | the publication row, review loops, the workspace and its revisions, branch and pull request on GitHub | request, prepare, gate, push, review, park, reuse, bypass, open, record, complete, reconcile, sweep | no lock spans two statements; evidence goes stale; a crash after every external effect |
| Automation targets (`internal/services/automations`, `internal/db/automation_*.go`) | a target row per pull request: lifecycle, observed head, epoch, head tie; runs; generations with their sessions; turn jobs | arrival, lookup, dispatch, attempts, completion, recovery, sweeps, lifecycle notices | deliveries late, twice, out of order or with equal timestamps; lookups that are stale when used or were answered from an earlier state; attempts that lost their token |
| Session and thread status, human input, code review, chat and issue ingress | status machines, leases and intents in tables of their own | see section 9 | not modelled |

`PROJECT.json` lists every component, with the reason where one is not
modelled, and the hazards, each at the line where it bites.

How they interact: a worker claims only while its node row admits it; the claim
gives it a token that every later statement presents; a session job is passed on
to an executor with that token; an executor runs a turn through a thread runtime
that has a lease of its own; each recovery loop takes back one kind of row.  The
retirement seal closes a node generation to all of them.  A turn runs in a
container that it shares with previews and later turns, and what it leaves in
the workspace is published by a job of the same queue.

## 2. Modules

| Module | Models |
|---|---|
| `NodeLifecycle` | the nodes table and the server processes |
| `JobRow` | one job row and the statements of `JobStore` as operators from row to row |
| `JobQueue` | the jobs table, the worker loops, recovery, cancellation, terminalization, retention |
| `JobOwnership` | the abstract specification that `JobQueue` implements |
| `LeaseRenewal` | one claimed job against a clock: `renewLeaseLoop`, handler, server, recovery scan |
| `SessionExecutor` | session jobs (with `JobRow`), dispatchers, executor rows, containers, recovery |
| `RetirementSeal` | seals, admissions, unguarded owners and control writes, statement by statement |
| `SchedulerLock` | replicas, their connection pools, the lock |
| `ThreadInbox` | inbox and runtimes of one thread, delivery on each node |
| `SandboxHolders` | one session's container: turns, preview, stop, collectors, reconciler, daemons |
| `Publication` | one changeset's way to a pull request, with its review |
| `AutomationTarget` | one pull request of a per-target automation: deliveries, runs, generations, turns |
| `MC...` | model values, symmetry and small sets for TLC (`LeaseRenewal` needs none) |
| `JobQueueProofs` | theorems about `JobQueue` and its refinement of `JobOwnership` |
| `CoordinationProofs` | theorems about `NodeLifecycle`, `RetirementSeal`, `LeaseRenewal` and `SchedulerLock` |
| `ThreadInboxLemmas`, `ThreadInboxProofs`, `ThreadInboxReplayProofs` | theorems about `ThreadInbox`: lemmas on its operators, the invariants of its rows, the count behind `NoSilentReplay` |
| `SessionExecutorProofs`, `SandboxHoldersProofs`, `AutomationTargetProofs` | theorems about the module they are named after |

### Conventions

* One SQL statement, or one transaction whose statements nobody can observe
  separately, is one step.  What the program reads first and uses later is kept
  in the state of the process that read it, so everything that may happen
  between is possible.
* A statement may fail without effect, or take effect without its answer
  arriving.  Both are alternatives of the action.
* Leases, heartbeats and `run_at` are reduced to whether they have passed, which
  may become true at any moment, except in `LeaseRenewal`, which has a clock.
  The untimed models therefore allow more than the code does: what holds in them
  holds for every clock, pause and delay.
* A lock token (a fresh uuid) is the next natural number; 0 is NULL.
* A definition `Name_Something`, `MutSomething` or `MutantSomething` right before `Name` is a
  deliberately wrong variant of it.  No specification uses it; it serves to
  confirm that a property fails when the code is changed in that way.
* History variables (`hooked`, `losses`, `won`, `took`, `sure`, `replays`, `late`
  of `RetirementSeal` and of `Publication`, `exposed`, `epochs`, `olds`, the field
  `after` of a heartbeat and `old` of a lookup) record what happened for the
  properties; no guard reads them, except that `replays` and `olds` are bounded.

## 3. From code to actions

**NodeLifecycle.**  `nodeRow[n]` is the row; `stale` says that the last
heartbeat is older than the 90 second threshold.  `proc[n]` is the server
process: `latched` is `NodeManager.draining`, `stopped` the draining flag of its
queues, `beats` the heartbeats in flight.  `HeartbeatOnce` is two actions
(`HeartbeatRead`, `HeartbeatWrite`) because it reads the latch before its
statement; the drain watcher is `WatchRead`, `WatchLatch`, `WatchStop`, the
shutdown routine `ShutdownStop`, `ShutdownLatch`, `ShutdownWrite`.

**JobRow, JobQueue.**  `row[j]` is the row, `worker[w]` the locals of `poll` in
one slot of a node.  `Poll` claims with a fresh token (`ClaimNextRunnable`);
`RenewLease` and `LeaseTimer` are the renewal loop without time;
`HandlerReturns` picks any outcome; `SkipWrite`, `SucceedJob`, `FailJob`,
`EnsureRetryWindow`, `RetryJob`, `DeadLetterJob` and `RunDeadLetterHooks` are the
rest of `poll` in the code's order.  The operators of `JobRow` are the `SET`
clauses; `Owned` is the `WHERE` clause that every fenced statement has.
Recovery is `ReclaimLostRunningJobs` (one statement over all rows) and
`ReclaimLostRunningSessionJobsForSession`.  `health` is what the statements read
of the nodes table and changes freely.

**JobOwnership.**  Jobs are absent, waiting, held or closed; an attempt takes a
waiting job under a number that was never used; an actor that takes itself for
the owner may commit only while its attempt holds the job; the platform may
revoke, withdraw or purge.  The refinement mapping is in `JobQueue`: the phase
is the status, the holder the lock token, the belief of a loop what `poll` has
claimed and not yet been told it lost.

**LeaseRenewal.**  The goroutine `renewLeaseLoop` with its ticker (which keeps
one tick), its expiry timer, the attempt with its deadline, the join of a
cancelled attempt; the server that may execute a statement late, after its
client has given up (`straggler`) or never; the recovery scan (`Reclaim`).

**SessionExecutor.**  `disp[n]` walks through `Dispatch`
(`ClearPreHandoffReservation`, `CreateStarting`, `Launch`, `RecordContainerID`,
`Handoff`, and the error paths `CleanupLaunched`, `MarkDispatchFailed`,
`DispatchError`); `proc[x]` through the container's `Run` (`BootLoad`,
`BootPoll`, `BootPause`, `MarkRunning`, `Heartbeat`, `ExecutorRenews`,
`MarkDraining`, `HandlerReturns`, `finishAttempt` as `FinishOk`,
`EnsureRetryWindow`, `FinishDeadLetter`, `FinishRetry`, `CloseExecutor`);
`ReclaimLost`, `ReclaimLostRunningJobs`, `TerminalizeRunningSessionJobs` and
`MarkDeployBudgetExpired` repair.  An executor whose job type has no handler
fails the job at once (`FailUnhandled`).  Every statement of a dispatcher may take
effect without its answer arriving, the two that reserve included: the row of a
`CreateStarting` whose answer was lost stays behind and the dispatcher goes to
its error path.  `WorkerCrash` ends a dispatcher, `Die` a container.

**RetirementSeal.**  `pc[p]` is the statement a transaction stands at, and the
locks it holds follow from it.  `Seal` is `SealRead` to `SealCommit`, the
admission triggers `AdmitBegin`, `TakeShared`, `CheckSeal`, `AdmitForeignKey`,
`AdmitCommit`, the node trigger `ControlBegin`, `ControlGuard`, `ControlCommit`.
A registration is an upsert, whose `BEFORE INSERT` trigger runs before the
conflict is found: it takes the shared lock first and the row second
(`RegisterBegin`, `RegisterRow`), where an update does it the other way round.
The seal counts more than the triggers guard: executors, turn holds, uploads and
sandbox holders become owners in one statement of their own (`WriteUnguarded`),
and `late` keeps those that were written since the last count.  `LeaseLapses` and
`PreviewRenews` are the leases; the first count looks at live owners, the second
at previews whatever their lease.  `OwnerEnds` takes an owner away, and
`DeleteRow` the node row, after which a sealer finds no row and gives up.

**SchedulerLock.**  `stage[r]` is the replica's position in `TryAcquire`, the tick
and `Release`; `conn` and `backend` are the two ends of a pooled connection.

**ThreadInbox.**  A runtime is started by `CreateStarting` (which also releases
the entries of expired predecessors), claims and admits its seeds (`ClaimSeeds`,
`StartSeedPhase`), executes and attaches (`Execute`, `Attach`), and ends by
`RunEnds`, `CloseFlush`, `CloseTerminal`, by the reaper (`ReclaimExpired`), or by
a crash.  `DeliverThreadInbox` on a node is `PollBegins`, `FlushDone` or
`FlushFails`, `Claim`, then per entry `DeadLetter` or `MarkDelivered`, and
`WriteAccepted`, `WriteRefused` with `ResetUnsent`, or `WriteUncertain`.
`Append`, `RetryRecoverable` and `CancelThread` come from outside.

**SandboxHolders.**  `row` is the sessions row (`container_id`,
`worker_node_id`, `turn_holding_container`, whether it is running, whether it is
a code review); `holder[t]` the leased row of a turn: live, lapsed but renewable,
revived by a late heartbeat, or none; `retained` the workspace a review keeps
between turns.  A turn is `TurnRead`, then `TurnCreate`, `TurnPublish` and what
follows a lost race (`TurnDropLoser`, `TurnDiagnose`, `TurnClearWinner`) or a
lost answer (`TurnDropUnheld`), or `TurnProbe`, `TurnReuse`, `TurnMoved` on a
recorded container, or `TurnRebuild`; then `TurnPin`, `TurnFence`
(`acquireReviewSetupHold`), `TurnOwn`, `TurnRun`; at its end `TurnEnd`,
`TurnRetain`, `TurnRelease`, `TurnFinalize`, `TurnDestroy`.  The preview is
`PreviewReserve` with `PreviewRead`, or the prewarming job with
`PreviewWarmRead` and `PreviewWarmReserve` in the other order; `acquireSandbox`
is `PreviewProbe` to `PreviewPublish`; `AbortReservation` and
`StopPreviewWithReason` are `PreviewAbort`... and `StopPreview`...; a publish
whose answer is lost makes it drop its container too (`PreviewDropFailed`).
`GcList`, `GcExpire`, `GcStaleReview`, `GcDestroy` are the host collector, and
`GcStartup` its pass at the start of a process, which has no grace period and may
list a container that is about to be published.  `RcList` to `RcDestroy` are the
start-up reconciler.  `exposed` keeps the containers listed by a start-up pass
before they were published, and those whose publisher was not told that it had
published.  The operators named after statements of `SessionStore` give the row
they leave.

**Publication.**  `pub` is the row, and the operators named after statements of
`SessionPublicationStore` give the row they leave; `w` holds what the open_pr
handler has read: the session at its start (`first`) and at its last reload
(`run`), the row, and whether the reviewed revision was still the session's.
A request is `RequestRead` and `RequestWrite`; it comes from an agent, a user or
an automation, and `auto` is the review policy of the session's automation: none,
zero passes, or some.  The handler is `WorkerClaim`, `WorkerPrepare`, `WorkerCheck`
(quiescence), `WorkerPolicy` (an automation's policy decides a row that asks for
no review yet), `WorkerGate` to `WorkerPark` (`ensurePublicationPrePRReview`: push
and record the branch, reload, look for a review to reuse or wait for, send, link,
park), `WorkerCreate` to `WorkerClose` (`CreatePR`, one step per external effect
and one per checkpoint), `WorkerComplete`, and `WorkerFinal` to `WorkerFinish` for a
draft; `Fails` is its deferred checkpoint with the queue's decision, and
`WorkerFault`, `WorkerSendFails`, `WorkerCrash` and `DeadLetterHook` are what goes
wrong.  `rl` is the thread that advances the review: `ReviewTurnEnds` or
`ReviewTurnFixes`, `ReviewPush`, `ReviewRecord` and `ReviewBind`
(`RefreshPublicationEvidence`), `MarkPassClean`, or `ReviewFault`.  The end of a loop
is a transaction of several statements: `tx` is the one that is open, it holds the
locks of what it has written, and `TerminalCommit` makes it visible.
`LinkReviewLoop` reads the loop without locking it, so it may link a row to a loop
that `tx` is ending (`late`).  `RestartStrandedPublicationLoop` is the sweep,
`ListReconcileCandidates`, `ReconcileResumes` and `ReconcileCompletes` the reconciler;
`ManualReview`, `CancelLoop`, `EditStart`, `EditEnd`, `PromotePendingSnapshot` and
`ClearPendingSnapshot` come from elsewhere.  Trees are numbered; a commit is named by its tree; tree 0 is
the base, which GitHub refuses as a pull request.  Workspace revisions are only
compared, so `rev` keeps what a recorded one still says: the current one, the
one the worker read, or an older one.

**AutomationTarget.**  `GitHub` changes the pull request and makes a delivery;
`sent` keeps what each one carried.  `Arrive` is `recordTargetArrival`: the
lifecycle rules (`ArrivalLifecycle`), the refusals, and the head rules
(`ObserveHead`: adopt a newer head, join the same one, drop an older push, keep
one that cannot be ordered as a candidate).  `LookUp` is the question a
dispatcher asks GitHub before its transaction, and the answer may be any state the
pull request was ever in (`olds` bounds how often it is an earlier one); every later
write of the target makes it worthless (`ChangedSince`).  `DispatchClosed`, `DispatchWait` and
`Dispatch` are the outcomes of the transaction (the first skips the run
of a pull request that the target or the answer calls closed), with `ResolveHead`, `Survivor`
and `SupersedeWaitingPush` as the code orders them; `ClaimPendingForPerRun` is
the way out to a session of its own.  A turn is `ClaimJob`, `ClaimAttempt`,
`StartTurn`, `EndAttempt` with its result marker, `ReleaseTurnHold`, `Complete`,
or `CompletePreflight`; `LeaseLapses`, `RenewLease`, `ReclaimJob`,
`HandlerReturns` and `RecoverAbandonedRun` are its failures.  The sweeps are
`FailTimedOutWaits`, `ResolveAmbiguityDeadline` and `ReleaseStrandedOwnership`;
`ApplyPullRequestClosed` and `ReopenTarget` are the lifecycle notices,
`SwitchToPerRun` and `UnsupportedWorkspace` retire a generation.

## 4. What the runs check

| Run | Instance | Shows |
|---|---|---|
| `node_lifecycle` | one node | an operator's drain keeps admission closed across restarts and heartbeats in flight; a drained process is advertised again only by a heartbeat it read before it drained, after the row was declared dead or the shutdown's write failed; a drain reaches the queues |
| `job_queue` | one job, two nodes, `MaxAttempts` 2, three claims | one owner per running job; hooks of a dead-lettered attempt at most once; attempts beyond the ceiling are paid for by losses; the queue implements `JobOwnership` |
| `job_table` | two jobs of one dedupe key, one node, two claims, session, code review, pins | the two are never both active; every running attempt ends |
| `session_executor` | one job claimed twice by a worker, two executors | an executor runs only what it was handed; completed means succeeded, under one token; a closed executor row stays closed; an executor that lost its job stops; a job nobody carries is taken back |
| `executor_strands` | the same with two workers | a disagreement, section 7 |
| `retirement_seal` | two sealers, a job, a preview, an owner without a trigger that may lapse, one control writer, a row that may be deleted | a sealed generation owns no job and no preview; whatever else it owns was written after the count; it stays drained and was drained when sealed; no circle of waiting transactions without a registration in it |
| `lease_renewal` | lease 60 s, interval 20 s, timeout 5 s in units of 5 s, cancellation at most 10 s, start at most 15 s late, clock to 150 s | the handler is fenced before the scan takes its job; one failed renewal does not cost the job |
| `scheduler_lock` | two replicas, two connections each | the lock is never on an idle pooled connection and is always given up again |
| `thread_inbox` | two messages, two runtimes, two nodes; or three messages, the second unformattable, one runtime, replays of one message | nothing is sent twice on its own; nothing is applied unconfirmed; nothing stays with a runtime that is over; input that may have arrived holds up what follows it |
| `sandbox_holders` | two turns, two hosts, two containers, one preview, two faults | the session names a removed container only if it is `exposed`; a preview that read under its hold keeps its container on the row; a fenced review turn keeps its container on the row while its lease lives |
| `publication` | both modes, an agent, a user and an automation, every policy, three loops, one retry, two events (one where the policy asks for passes) | a pending publication waits for a running review unless it was linked while that review ended; a passed gate rests on matching evidence or on a policy of no passes; completed means a pull request with its row; completed is final; a publication settles |
| `automation_target` | three deliveries, one old answer, `WaitingCap` 2, three families of behaviours | the observed head goes back only when GitHub gave an old answer; an epoch stands for one head; the newest epoch keeps a run; a live turn owns its session |

**Bounds.**  `MaxClaims` bounds the attempts ever started: with three, an
owner, its successor and a third one exist while the first still finishes late,
and one attempt beyond `MaxAttempts` is reached.  Two executors and two claims
let the container of the first attempt meet the dispatch of the second.  Two
runtimes let a replaced runtime go on beside its successor; a third would repeat
the same meeting.  Three messages put one before and one after the
unformattable one.  One node suffices for `node_lifecycle`, since nodes share
only the scan, whose effect on each row does not depend on the others; the
proofs cover any number.  The clock of `lease_renewal` runs for two and a half
leases: the loop's state after a confirmed renewal is that of its start, shifted
in time.  Two turns and two containers let a late reader meet a cleared id and
its replacement; `Budget` limits busy processes and faults together to three, so
that a turn, a sibling or preview, and a collector meet, or two of them with a
crash or lost answer between.  Two events in
`publication` are a request and one thing that goes wrong (a crash, a failed
call, a cancelled or manual review, an edit, a second request).  A session whose
automation asks for passes has the request only: its row is parked before
anything else and is then reviewed as an agent's is.  A loop slot that nobody can
name is used again, so three stand for any number of reviews one after another.

`MCSessionExecutor` takes the executor rows in the order of their names
(`FreshInOrder`): a row gets a fresh id, so the behaviours in which the second
name is taken first are the others with the names exchanged.

Two runs explore a union of families, given as a state constraint in the MC
module.  `MCThreadInbox` follows two runtimes over two messages without replays
(each seeded with at most one of them) and one runtime over three messages, one
of which is unformattable (`poison`) and one of which is replayed.
`MCAutomationTarget` follows pushes and a comment that race for the head in one
generation, two deliveries a second apart with everything that can happen to
their turns, and the closing, merging and reopening around one push; old answers
occur in the first family where pushes are a second apart, and in the third.
Their views
leave out what nothing reads any more: the lease and watermarks of a closed
runtime, the lookup of a run that has started, the marker of one that has ended.
The theorems of section 6 have none of these limits.  Symmetry is used for
interchangeable nodes, turns, containers and transactions, in runs without
liveness properties only.

`CHECK_DEADLOCK FALSE` stands where the model really may stop: when the bounded
claims, containers, runtimes, messages or the clock are used up.

## 5. Fairness

* `NodeFairness`: the drain watcher is a loop with a five second ticker in a live
  process; each of its three steps is weakly fair.  Nothing is assumed of
  heartbeats, operators or scans.
* `Fairness` of `JobQueue`: a handler returns (its context is cancelled when
  ownership is lost, and session jobs have a watchdog; that other handlers end by
  themselves is assumed) and `poll` goes on with what follows it; a lease that no
  live loop renews passes; some worker process runs the recovery loop.  Nothing
  is assumed of claims, enqueues or the health of nodes.
* `Fairness` of `SessionExecutor`: the heartbeat and renewal tickers of a running
  executor, the return of a handler whose context was cancelled, the passing of
  a lease that nobody renews, and the recovery of a job whose lease has passed.
* `LockFairness`: a replica goes on with what it has begun (the unlock has a deadline
  of five seconds; that a tick and the try for the lock end is assumed), and
  PostgreSQL notices a closed socket.
* `FairSpec` of `Publication`: the queue runs the open_pr job and its hook, the
  reconciler and the sweep are periodic, a turn ends and an upload is promoted
  (all weakly fair), and a transaction
  that has begun to end a review commits.  The review thread is strongly fair, because its wait for
  uploads is a `WaitGroup` that ends as soon as the last upload does
  (`WaitForPostPRSnapshotUploads`), while in the model a new upload can begin
  before the thread looks again.

Everything else is weak fairness.

## 6. What is proved

For all values of the constants (any finite or infinite sets of nodes, jobs,
slots, transactions, and all durations):

* `CoordinationProofs`, the registry: `NodeTypeCorrect`, `DrainIntentHolds`, `DrainIsFinal`.
  The invariant adds `LatchInv` (a watcher or shutdown that is past its latch
  has set it, and a heartbeat read after the drain says draining), so that only a
  heartbeat read before the drain is left to reopen admission.
* `JobQueueProofs`: `QueueTypeCorrect`, `OneOwnerPerJob`, `DedupeIsKept`,
  `HooksRunOnce`, `AttemptsAreAccounted`.  `QueueInv` adds `TokenInv` (a row has
  a token exactly while it runs, no token is from the future, no two loops share
  one) and `SyncInv` (the attempts that a loop scanned at its claim are still the
  row's while its token is): `poll` compares the scanned value, so the account of
  attempts needs it.  The proof first shows that every step has one of seven
  effects on each row (`RowEffects`) and one of five on each loop (`LoopEffects`),
  and then works with the effects alone.
  `QueueImplementsOwnership`, at the end of the module, is the refinement: initial
  states map to initial states and every step to a step or a stutter, from
  `QueueInv`.
* `SessionExecutorProofs`: `ExecutorTypes`, `ExecutorOwnership`, `ExecutorSuccess`,
  `ExecutorFinality`.  `ExecutorInv` adds that references point to rows that exist
  (`ReferenceInv`), that tokens are never from the future and that a dispatcher, an
  executor row and a container of one attempt carry the same one (`TokenInv`),
  and that what `won` records agrees with the rows (`WonInv`).  Every action is
  first reduced to its effect on each variable (`Effect`), and the invariants are
  shown from the effects.
* `SandboxHoldersProofs`: `RowDanglesOnlyExposed`, `HeldPreviewKeeps`,
  `FencedTurnKeeps`, for any number of turns, hosts, containers and faults.  The
  three properties are not inductive: `BoxInv` adds that what is recorded or in the
  making is `Sound` (handed out by a daemon, and neither removed nor
  `Condemned` by somebody who has decided to destroy it, unless it is `exposed`),
  that a container in the making is known to its maker only (`MakerInv`), so that
  an id which left the row cannot come back, and that a preview or turn which read
  under its hold still reads the same (`HoldInv`, `FenceInv`).  Actions are again
  reduced to effects first.
* `CoordinationProofs`, the seals: `SealTypeCorrect`, `SealIsExclusive` (jobs and
  previews), `SealMissesNone` (the owners without a trigger), `SealIsPermanent`,
  `SealNeedsDrain`, `NoCircularWait` (registrations excepted).  The invariant says
  what the locks give: shared and exclusive holders exclude each other, one
  transaction holds the row, and what a sealer has read stays true while it holds
  its locks, but for what `late` records.
* `CoordinationProofs`, the renewal loop and the scheduler lock: `HandlerIsFenced`,
  `OneFailureIsTolerated`, `LockIsNeverPooled`.  The timer stands at the last confirmed
  expiry, the clock never passes it while the handler runs, and the row's lease
  is never shorter than the one the loop believes in.  `OneFailureIsTolerated`
  says which durations the tolerance of one failure needs (`Margins`, a
  hypothesis of the theorem that the durations of the run satisfy and no code
  enforces): a late start and two intervals fit into a lease, and an attempt
  with its cancellation ends before the next tick.  `MarginInv` counts the ticks
  that are left before the lease ends.  `LockIsNeverPooled`: `LockInv` adds that a
  replica in a call has pinned a connection of its own pool that nobody else
  uses, that the lock's backend lives, and that a replica about to give its
  connection back does not hold the lock on it.
* `ThreadInboxProofs`, on the lemmas of `ThreadInboxLemmas`: `ClaimsAlwaysOwned`,
  `AppliedOnlyAccepted`, `UncertainHoldsUp`, for any numbers of messages and runtimes
  and any finite set of nodes.  `Rows` adds that one runtime of the thread is active
  at a time; `Memory` that what a receipt names was accepted and that a run which
  has not started left no trace; `AtHome` that a poll works for a runtime of its own
  node, so a replaced node cannot write in between.  That input which may have
  arrived holds up what follows is not a property of the rows alone: `HeldUp`
  speaks of what a node is about to write as well.
* `ThreadInboxReplayProofs`: `NeverReplaysSilently` is a matter of counting.
  `Credit` counts, for each message, what the agent has received, the writes in
  flight, the admitted seeds and the claim that is still possible; together they
  never exceed one more than the replays the user asked for.
* `AutomationTargetProofs`: `HeadKept` (the action property) and
  `TurnOwnsSession`, for any number of deliveries and of old answers.  `HeadInv` adds
  that of two deliveries the one with the later timestamp has the later head, that
  no delivery newer than the target's evidence, or than a state GitHub may answer
  with, carries an older head, and that a lookup which can still be used and was
  not an old answer is no older than the target row.  `OwnInv` adds
  that at most one run executes, that its generation exists and owns its session
  until that run ends, and what a turn job may be for each state of its run.

Assumptions: the sets of names are disjoint where a name must be unambiguous
(`NoneAssumption`, `QueueAssumption`, `ExecutorAssumption`, `SealAssumption`,
`LockAssumption`, `InboxAssumption`, `BoxAssumption`), the durations are positive and the loop starts within its
first lease (`RenewalAssumption`), the nodes of a thread are finitely many
(`InboxAssumption`), the bounds are positive (`BoundsAssumption`).

`ExecutorTypes` and the other type theorems state what no run lists as a property,
`TypeOK` of the queue excepted.

Only model-checked: liveness (fairness is out of the prover's reach),
`EpochNamesItsHead` and `HeadAlwaysCovered` of `AutomationTarget`, which need an
invariant about the whole history of epochs, and everything about `Publication`.

## 7. Where the code and its documentation disagree

* `executor_strands`.  *82-durable-session-executors.md* says that recovery marks
  stale handed-off executors lost before the generic reclaim, so that the
  active-executor index cannot strand a session.  The generic reclaim needs a
  lease that passed (60 s), the executor recovery a heartbeat older than 90 s: a
  dead executor loses its job to the generic path first, its row stays active,
  no statement closes it afterwards, and the next attempt fails on the index.

The next four are formulas of the modules that TLC refutes with the
configuration named; they are not among the runs.

* `UnsentIsRetried` of `ThreadInbox` (`MCInboxStuck.cfg`).  The delivery loop
  reports that an entry whose write was refused "remains claimed for retry"
  (`thread_runtime_delivery.go:715`).  An entry that the user replayed after the
  watermark had moved past it is claimed below the watermark, where the next
  claim does not look.
* `NeverAmbushed` of `SandboxHolders` (`MCSandboxReconciler.cfg`).  The comment of
  `ReconcileOrphanedContainers` says "only when the container is actually gone
  does it CAS-clear the row" and that containers which report alive are left
  untouched "so we never ambush a live turn".  The code clears whatever the probe
  said, the clear does not ask the turn's hold, and the container is destroyed: a
  turn that takes the container after the list loses it.
* `PublishesWhatWasReviewed` of `Publication` (`MCPublicationReviewed.cfg`).
  *123-agent-initiated-pr-publication.md* (lines 783-795 and 994) says that
  workspace movement outside a fix invalidates the evidence.
  `RefreshPublicationEvidence` pushes the tree it hydrated and binds the revision
  it reads after the upload: a turn of another thread that ends in between is
  bound as reviewed, and the pull request is opened on it.
* `ClosedTargetReleased` of `AutomationTarget` (`MCTargetReleased.cfg`).  The comment
  of the retirement (`automation_lifecycle.go:211`) says "Every path that ends a
  target's last piece of work calls it".  A dispatch that skips the last waiting
  run (`terminalizeWith`, `target_dispatch.go:690`), an arrival that is refused and
  a run that ends in its own session do not: the generation of a closed pull
  request stays active.

Met on the way, visible in the models, and not runs of their own:

* Queue and nodes.  A job that loses its worker is claimed beyond `max_attempts`
  (`AttemptAccounting` says by how much).  A scheduler tick goes on when the backend
  that holds its lock has ended.  After `ResumeOnRestart` of a node that was marked
  dead, a heartbeat of the old process can reopen admission before a restart.  A
  registration takes the two locks of a seal in the other order, so a sealer and a
  registration may wait for each other until PostgreSQL ends one of them.
* Inbox.  The reaper makes written, unacknowledged input uncertain, where its
  comment speaks of replay.  An entry below the watermark that the user replayed
  and whose write is refused is not selected again (`UnsentIsRetried` above).
* Containers.  A new worker process lists unreferenced containers once without a
  grace period; one that is published between the list and the removal is removed
  under its session (the first case of `exposed`).  A turn or preview whose publish
  succeeded without an answer destroys what the session now names (the second).
  `HolderHeartbeat` renews a lease that has lapsed, so a holder may come back after
  somebody acted on its absence (`revived`).  A preview that finds a dead orphan
  cannot clear it, because its own hold makes `ClearContainerID` refuse
  (`start_runner.go:1684` expects the retry to hydrate).  A turn that loses a race to
  a container of another host takes it for dead, since it asks its own daemon.
* Publication.  `CreatePR` does not take over the handoff mode of its parameters, so
  a draft-first publication is completed by the call that opens the draft, and the
  review that the comment at `handlers.go:12909` announces does not start.  An
  open_pr job newer than a failed publication reopens it as `not_required`, which
  drops the review the coordinator had asked for.  A crash between the creation of
  a review loop and the message that starts it, or its link, leaves a running loop
  that the sweep does not select (`Abandoned`).  A row that is linked to a loop in
  the moment of its end keeps a pending gate that neither the reconciler nor the
  sweep selects (`Overlooked`); only a user's bypass moves it.  An automation that
  asks for no pass and publishes draft-first has no reviewed head: after a crash
  past `RecordPRResolved` its retries compare with that missing head and fail, until
  the job is dead or the row waits for a person.  `PromotePendingSnapshot` replaces
  the snapshot of a turn that ended after the push with the pushed one.
* Automation targets.  `AdoptHead` has no guard on the timestamp, so an answer that
  GitHub gives from an earlier state moves the observed head back
  (`HeadNeverRegresses` says that nothing else does).

## 8. Assumptions and limits

* A PostgreSQL statement is atomic and `now()` is read when it is executed.
  `SKIP LOCKED` is an arbitrary choice among the rows that qualify: one row in a
  claim of the queue, any nonempty subset in `Claim` of `ThreadInbox`.  In
  `ThreadInbox` the snapshot of a statement that waits for a row lock is not
  modelled (a hazard notes it); `RetirementSeal` is the module that goes down to
  locks and snapshots.
* `LeaseRenewal` has one clock, as the code's comment asks for synchronised ones,
  and a loop that reacts to a due timer before the clock moves on.
* pgx closes a connection whose query failed.
* No statement of the code deletes a row of `nodes`; the tests of the seals delete
  one by hand, and `RetirementSeal` allows it (`DeleteRow`).  `NodeLifecycle` does
  not.
* `RetirementSeal` reduces a heartbeat's age and the deployment's drain event to an
  abort of the sealer, and has one generation of one node.
* A foreign key check takes `KEY SHARE` on the node row (PostgreSQL).
* `ThreadInbox` has one thread.  The acknowledgment through an activity phase and
  `CommitInboxDeliveryWithLease` have the same effect on it.  Reading the
  watermark and `CreateStarting`, and reading the runtime and repairing its
  watermark, are one step each.  Left out: statements without callers
  (`MarkDeliveryFailed`, `AdvanceDeliveryWithLease`), runtime statuses nothing
  sets, the history of batches.  An unformattable message stays unformattable.
* `SandboxHolders` has one session with one preview at a time whose snapshot
  exists.  A container that was created and not yet published is young for the
  collector (its grace periods exceed that time), any other may be old.
  The start-up pass has no grace period and lists it all the same.
  `sandbox_state` and the network of a recorded container are reduced to whether
  a probe lets the caller attach.  The fenced release of automation turns and
  the protection of sessions in recovery are left out.
* `SessionExecutor` has the jobs of one thread and one dispatcher slot per worker;
  dead-letter hooks are the subject of `JobQueue`.
* `Publication` has one primary changeset and one open_pr handler at a time (what a
  replaced handler may write is the subject of `JobQueue`).  Ensuring, bypassing
  and queueing a request are one step, its reads another.  Cancelling a loop stops its thread.
  Left out: execution switches, manual takeover, team reviewers, stacked
  changesets, the builder role, push leases, `pr_creation_state`, and pull
  requests closed or merged by others.
* `AutomationTarget` has one target.  A dispatch may be attempted at any time, so
  the wake outbox and the polling of its jobs are no state; a run that has waited
  and one that has not are the same; a fallback to a session of its own is always
  possible.  The lease of the turn job and that of its executor are one flag, and
  `late` is an attempt that lost its token and may still execute one statement
  that no token fences.  Left out: soft deletion, deliveries about checks, and a
  force push back to an earlier commit.
* Data is reduced to what the properties distinguish: payloads, priorities,
  error texts, metrics and logging are left out.

## 9. Plan

Next modules, in this order, each with its MC module and first properties:

1. `SessionStatus`: transitions of sessions and threads, the orchestrator's
   completion against cancellation, failure and the reaper.  Properties: a
   terminal session starts no turn; a cancelled turn is not completed.
2. `PreviewLease`: preview runtimes with their epochs and leases;
   `RetirementSeal` has their admission and `SandboxHolders` their hold.
3. Human input, code review scheduling, durable ingress.

Compositions: `NodeLifecycle` with `JobQueue` (the free `health` replaced by the
registry: no claim after a drain was acknowledged), `RetirementSeal` with
`SessionExecutor` (executors of a sealed generation).  Refinement: the reclaim
statements of `ThreadInbox` down to their row locks.  Pure functions:
`retryBackoff` and `retryableDurationExceeded` against a reference definition.

Next theorems: `EpochNamesItsHead` and `HeadAlwaysCovered` of `AutomationTarget`, and
the invariants of `Publication`.
