------------------------------ MODULE JobQueue ------------------------------
(***************************************************************************)
(* The Postgres job queue with leases and fencing tokens (internal/db/     *)
(* jobs.go) and the worker loops that consume it (internal/worker/         *)
(* worker.go), with the recovery scan, session terminalization, code       *)
(* review cancellation and retention that touch the same rows.             *)
(*                                                                         *)
(* A statement is one atomic step.  A fenced statement may also fail, or   *)
(* be applied without its answer reaching the worker.  Leases lapse and    *)
(* nodes change health at any moment, so the safety results hold whatever  *)
(* the clocks, the pauses and the network do.                              *)
(***************************************************************************)
EXTENDS JobRow, FiniteSets

CONSTANTS
  Jobs,          \* the rows that may be inserted
  Slots,         \* the worker loops of one process
  SessionJobs,   \* jobs of type run_agent or continue_session
  PrepJobs,      \* jobs of type prepare_code_review_workspace
  Pins,          \* the values of target_node_id in use
  DedupeKey,     \* (queue, dedupe_key) of a job, None for NULL
  MaxAttempts,   \* jobs.max_attempts
  MaxClaims,     \* bound: lock tokens issued in a behaviour
  OrgCap         \* session jobs of an organization requeued by one scan

ASSUME QueueAssumption ==
  /\ None \notin Jobs
  /\ SessionJobs \subseteq Jobs
  /\ PrepJobs \subseteq Jobs
  /\ Pins \subseteq Nodes \cup {None}
  /\ MaxAttempts \in Nat \ {0}
  /\ MaxClaims \in Nat
  /\ OrgCap \in Nat \ {0}

VARIABLES
  row,       \* the jobs table
  worker,    \* the local state of each worker loop
  health,    \* whether a node may claim (open), only keep what it has
             \* (closed: draining, or its queues latched) or is dead (lost)
  ended,     \* session jobs whose session is in a terminal status
  nextToken, \* the next lock token (uuid.New)
  hooked,    \* history: the attempts whose dead-letter hooks ran, per job
  losses     \* history: how often recovery requeued a job

vars == <<row, worker, health, ended, nextToken, hooked, losses>>

Workers == Nodes \X Slots

Outcomes == {"ok", "fatal", "error", "retry", "bounded"}

(* poll's locals: the claimed job with its token, attempts and retry       *)
(* window as scanned, the lostOwnership flag and the handler's result.     *)
WorkerState ==
  [pc: {"idle", "unhandled", "run", "done", "hooks"}, job: Jobs \cup {None},
   token: Nat, attempts: Nat, window: BOOLEAN, lost: BOOLEAN,
   out: Outcomes \cup {"none"}]

IdleWorker ==
  [pc |-> "idle", job |-> None, token |-> NoToken, attempts |-> 0,
   window |-> FALSE, lost |-> FALSE, out |-> "none"]

Init ==
  /\ row = [j \in Jobs |-> NoRow]
  /\ worker = [w \in Workers |-> IdleWorker]
  /\ health \in [Nodes -> {"open"}]
  /\ ended = {}
  /\ nextToken = 1
  /\ hooked = [j \in Jobs |-> {}]
  /\ losses = [j \in Jobs |-> 0]

-----------------------------------------------------------------------------
(* enqueueOn: ON CONFLICT DO NOTHING against the partial unique index on   *)
(* (queue, dedupe_key) of the pending and running rows.                    *)
Duplicates_PendingOnly(j) ==
  {i \in Jobs : DedupeKey[i] = DedupeKey[j] /\ row[i].status = "pending"}

Duplicates(j) ==
  {i \in Jobs : DedupeKey[i] = DedupeKey[j] /\ row[i].status \in ActiveStatus}

Enqueue(j) ==
  /\ row[j].status = "absent"
  /\ DedupeKey[j] = None \/ Duplicates(j) = {}
  /\ \E target \in Pins, due \in BOOLEAN :
       row' = [row EXCEPT ![j] = Inserted(target, due)]
  /\ UNCHANGED <<worker, health, ended, nextToken, hooked, losses>>

(* delete_expired_completed_jobs: dead-letter and cancelled rows stay.     *)
DeleteExpiredCompleted(j) ==
  /\ row[j].status \in {"succeeded", "failed"}
  /\ row' = [row EXCEPT ![j] = NoRow]
  /\ losses' = [losses EXCEPT ![j] = 0]
  /\ UNCHANGED <<worker, health, ended, nextToken, hooked>>

-----------------------------------------------------------------------------
(* The claim's WHERE clause.  SKIP LOCKED passes over rows that another    *)
(* transaction holds, so any row that qualifies may be the one returned.   *)
Claimable(n) ==
  {j \in Jobs :
     /\ row[j].status = "pending"
     /\ row[j].due
     /\ \/ row[j].target \in {None, n}
        \/ row[j].target \in Nodes /\ health[row[j].target] \in {"closed", "lost"}}

Holding(w, j, pc) ==
  [IdleWorker EXCEPT !.pc = pc, !.job = j, !.token = nextToken,
     !.attempts = row[j].attempts + 1, !.window = row[j].window]

Poll_TokenReused(w) ==
  /\ worker[w].pc = "idle"
  /\ health[w[1]] = "open"
  /\ \E j \in Claimable(w[1]) :
       /\ row' = [row EXCEPT ![j] = Claimed(@, w[1], nextToken)]
       /\ worker' = [worker EXCEPT ![w] = Holding(w, j, "run")]
  /\ UNCHANGED <<nextToken, health, ended, hooked, losses>>

(* poll: claim with a fresh token; a job type without a handler is failed  *)
(* at once.  The claim may commit without its answer arriving.             *)
Poll(w) ==
  /\ worker[w].pc = "idle"
  /\ health[w[1]] = "open"
  /\ nextToken <= MaxClaims
  /\ \E j \in Claimable(w[1]) :
       /\ row' = [row EXCEPT ![j] = Claimed(@, w[1], nextToken)]
       /\ \/ \E pc \in {"run", "unhandled"} :
               worker' = [worker EXCEPT ![w] = Holding(w, j, pc)]
          \/ UNCHANGED worker
  /\ nextToken' = nextToken + 1
  /\ UNCHANGED <<health, ended, hooked, losses>>

(* renewLeaseLoop's RenewLease: the fenced renewal, or its fallback that   *)
(* fails the job of a session that has ended, or the discovery that the    *)
(* token is no longer the row's.  A failed statement changes nothing; the  *)
(* fallback may be applied without its answer arriving.                    *)
RenewLease(w) ==
  LET j == worker[w].job
      mine == Owned(row[j], worker[w].token)
      learns == worker' = [worker EXCEPT ![w].lost = TRUE]
  IN /\ worker[w].pc = "run"
     /\ ~worker[w].lost
     /\ \/ /\ mine /\ j \notin ended
           /\ row' = [row EXCEPT ![j] = Renewed(@)]
           /\ UNCHANGED worker
        \/ /\ mine /\ j \in ended
           /\ row' = [row EXCEPT ![j] = Failed(@)]
           /\ learns \/ UNCHANGED worker
        \/ ~mine /\ learns /\ UNCHANGED row
     /\ UNCHANGED <<health, ended, nextToken, hooked, losses>>

(* The local timer at the last confirmed expiry fences the handler.        *)
LeaseTimer(w) ==
  /\ worker[w].pc = "run"
  /\ ~worker[w].lost
  /\ worker' = [worker EXCEPT ![w].lost = TRUE]
  /\ UNCHANGED <<row, health, ended, nextToken, hooked, losses>>

(* The handler returns and the renewal goroutine is joined.                *)
HandlerReturns(w) ==
  /\ worker[w].pc = "run"
  /\ \E out \in Outcomes :
       worker' = [worker EXCEPT ![w].pc = "done", ![w].out = out]
  /\ UNCHANGED <<row, health, ended, nextToken, hooked, losses>>

-----------------------------------------------------------------------------
(* A fenced write of row r by worker w: applied when the token is still    *)
(* the row's; otherwise, or when the statement fails, nothing changes.     *)
Put(w, r) ==
  \/ /\ Owned(row[worker[w].job], worker[w].token)
     /\ row' = [row EXCEPT ![worker[w].job] = r]
  \/ UNCHANGED row

Leave(w) == worker' = [worker EXCEPT ![w] = IdleWorker]

(* The handler has returned and ownership was not seen lost.               *)
Deciding(w) == worker[w].pc = "done" /\ ~worker[w].lost

Exhausted_OffByOne(w) == worker[w].attempts > MaxAttempts

Exhausted(w) == worker[w].attempts >= MaxAttempts

(* "lease lost during execution; skipping terminal write"                  *)
SkipWrite(w) ==
  /\ worker[w].pc = "done"
  /\ worker[w].lost
  /\ Leave(w)
  /\ UNCHANGED <<row, health, ended, nextToken, hooked, losses>>

SucceedJob(w) ==
  /\ Deciding(w)
  /\ worker[w].out = "ok"
  /\ Put(w, Succeeded(row[worker[w].job]))
  /\ Leave(w)
  /\ UNCHANGED <<health, ended, nextToken, hooked, losses>>

FailJob(w) ==
  /\ worker[w].pc = "unhandled"
  /\ Put(w, Failed(row[worker[w].job]))
  /\ Leave(w)
  /\ UNCHANGED <<health, ended, nextToken, hooked, losses>>

(* A retry bounded by MaxRetryDuration first makes its window durable.     *)
EnsureRetryWindow(w) ==
  LET j == worker[w].job
  IN /\ Deciding(w)
     /\ worker[w].out = "bounded"
     /\ ~worker[w].window
     /\ \/ /\ Owned(row[j], worker[w].token)
           /\ row' = [row EXCEPT ![j] = WindowStarted(@)]
           /\ worker' = [worker EXCEPT ![w].window = TRUE]
        \/ Put(w, WindowStarted(row[j])) /\ Leave(w)
     /\ UNCHANGED <<health, ended, nextToken, hooked, losses>>

Windowed(w) == worker[w].out = "bounded" /\ worker[w].window

DeadLetterJob_HooksUnchecked(w) ==
  /\ Deciding(w)
  /\ worker[w].out = "fatal" \/ (worker[w].out = "error" /\ Exhausted(w))
  /\ Put(w, DeadLettered(row[worker[w].job]))
  /\ worker' = [worker EXCEPT ![w].pc = "hooks"]
  /\ UNCHANGED <<health, ended, nextToken, hooked, losses>>

(* deadLetterJob: a fatal error, an error or consuming retry with no       *)
(* attempts left, or a retry past its window.  The hooks run only when the *)
(* write is known to have been applied.                                    *)
DeadLetterJob(w) ==
  LET j == worker[w].job
  IN /\ Deciding(w)
     /\ \/ worker[w].out \in {"fatal", "retry"}
        \/ worker[w].out \in {"error", "bounded"} /\ Exhausted(w)
        \/ Windowed(w)
     /\ \/ /\ Owned(row[j], worker[w].token)
           /\ row' = [row EXCEPT ![j] = DeadLettered(@)]
           /\ worker' = [worker EXCEPT ![w].pc = "hooks"]
        \/ Put(w, DeadLettered(row[j])) /\ Leave(w)
     /\ UNCHANGED <<health, ended, nextToken, hooked, losses>>

RunDeadLetterHooks(w) ==
  /\ worker[w].pc = "hooks"
  /\ hooked' = [hooked EXCEPT ![worker[w].job] = @ \cup {worker[w].token}]
  /\ Leave(w)
  /\ UNCHANGED <<row, health, ended, nextToken, losses>>

(* The rows retryJobWithDelayAt may write for a RetryableError: with the   *)
(* attempt refunded, or consumed while attempts remain; with a new pin, a  *)
(* cleared one or the old one; with the window reset only when refunded    *)
(* and not repinned.                                                       *)
Repinned(r) == {Retried(r)} \cup {RetriedTo(r, n) : n \in Pins}

RetryRows(w, r) ==
  {Refunded(q) : q \in Repinned(r)}
  \cup {WindowReset(Refunded(Retried(r)))}
  \cup (IF Exhausted(w) THEN {} ELSE Repinned(r))

RetryJob(w) ==
  LET r == row[worker[w].job]
  IN /\ Deciding(w)
     /\ \/ worker[w].out = "error" /\ ~Exhausted(w) /\ Put(w, Retried(r))
        \/ /\ worker[w].out = "retry" \/ Windowed(w)
           /\ \E q \in RetryRows(w, r) : Put(w, q)
     /\ Leave(w)
     /\ UNCHANGED <<health, ended, nextToken, hooked, losses>>

(* The process of node n dies and starts again with fresh queues.          *)
Crash(n) ==
  /\ worker' = [w \in Workers |-> IF w[1] = n THEN IdleWorker ELSE worker[w]]
  /\ UNCHANGED <<row, health, ended, nextToken, hooked, losses>>

-----------------------------------------------------------------------------
Lost_DeadNodesOnly ==
  {j \in Jobs : row[j].status = "running" /\ health[row[j].node] = "lost"}

(* The recovery scan's WHERE clause: the lease has passed, or the node     *)
(* that holds the lock is dead.                                            *)
Lost ==
  {j \in Jobs :
     /\ row[j].status = "running"
     /\ ~row[j].leased \/ (row[j].node \in Nodes /\ health[row[j].node] = "lost")}

Requeue(S) ==
  /\ row' = [j \in Jobs |-> IF j \in S THEN Reclaimed(row[j]) ELSE row[j]]
  /\ losses' = [j \in Jobs |-> IF j \in S THEN losses[j] + 1 ELSE losses[j]]
  /\ UNCHANGED <<worker, health, ended, nextToken, hooked>>

(* One scan requeues a batch: the rows another transaction holds are       *)
(* skipped, and at most OrgCap session jobs of an organization are taken.  *)
ReclaimLostRunningJobs ==
  \E S \in SUBSET Lost :
    /\ S # {}
    /\ Cardinality(S \cap SessionJobs) <= OrgCap
    /\ Requeue(S)

ReclaimLostRunningSessionJobsForSession(j) ==
  j \in Lost \cap SessionJobs /\ Requeue({j})

(* The reaper stops the running jobs of a session it has marked failed.    *)
TerminalizeRunningSessionJobs(j) ==
  /\ j \in SessionJobs
  /\ row[j].status = "running"
  /\ row' = [row EXCEPT ![j] = Failed(@)]
  /\ UNCHANGED <<worker, health, ended, nextToken, hooked, losses>>

CancelActiveCodeReviewPreparation(j) ==
  /\ j \in PrepJobs
  /\ row[j].status \in ActiveStatus
  /\ row' = [row EXCEPT ![j] = Cancelled(@)]
  /\ UNCHANGED <<worker, health, ended, nextToken, hooked, losses>>

-----------------------------------------------------------------------------
(* The environment: time, the node registry and the sessions.              *)
LeaseLapses(j) ==
  /\ row[j].leased
  /\ row' = [row EXCEPT ![j].leased = FALSE]
  /\ UNCHANGED <<worker, health, ended, nextToken, hooked, losses>>

RunAtPasses(j) ==
  /\ row[j].status = "pending"
  /\ ~row[j].due
  /\ row' = [row EXCEPT ![j].due = TRUE]
  /\ UNCHANGED <<worker, health, ended, nextToken, hooked, losses>>

HealthChanges(n) ==
  /\ \E h \in {"open", "closed", "lost"} : health' = [health EXCEPT ![n] = h]
  /\ UNCHANGED <<row, worker, ended, nextToken, hooked, losses>>

(* A session reaches a terminal status, or leaves it when it is resumed.   *)
SessionStatusChanges(j) ==
  /\ j \in SessionJobs
  /\ ended' = IF j \in ended THEN ended \ {j} ELSE ended \cup {j}
  /\ UNCHANGED <<row, worker, health, nextToken, hooked, losses>>

-----------------------------------------------------------------------------
JobStep(j) ==
  \/ Enqueue(j) \/ DeleteExpiredCompleted(j)
  \/ ReclaimLostRunningSessionJobsForSession(j)
  \/ TerminalizeRunningSessionJobs(j) \/ CancelActiveCodeReviewPreparation(j)
  \/ LeaseLapses(j) \/ RunAtPasses(j) \/ SessionStatusChanges(j)

(* The steps after the handler's return that end poll's iteration.         *)
Finish(w) ==
  \/ SkipWrite(w) \/ SucceedJob(w) \/ FailJob(w) \/ EnsureRetryWindow(w)
  \/ DeadLetterJob(w) \/ RunDeadLetterHooks(w) \/ RetryJob(w)

WorkerStep(w) ==
  \/ Poll(w) \/ RenewLease(w) \/ LeaseTimer(w) \/ HandlerReturns(w)
  \/ Finish(w)

Next ==
  \/ \E j \in Jobs : JobStep(j)
  \/ \E w \in Workers : WorkerStep(w)
  \/ \E n \in Nodes : Crash(n) \/ HealthChanges(n)
  \/ ReclaimLostRunningJobs

Spec == Init /\ [][Next]_vars

(* Types of the jobs table, of poll's locals and of the histories.         *)
TypeOK ==
  /\ row \in [Jobs -> Row]
  /\ worker \in [Workers -> WorkerState]
  /\ health \in [Nodes -> {"open", "closed", "lost"}]
  /\ ended \subseteq Jobs
  /\ nextToken \in Nat \ {0}
  /\ hooked \in [Jobs -> SUBSET Nat]
  /\ losses \in [Jobs -> Nat]

(* Worker w runs or is about to close the attempt that the row records.    *)
Holds(w, j) ==
  /\ worker[w].pc \in {"unhandled", "run", "done"}
  /\ worker[w].job = j
  /\ Owned(row[j], worker[w].token)

(* Handlers return and poll finishes its iteration; a lease that no live   *)
(* worker renews passes; every worker process runs the recovery loop.      *)
UnattendedLeaseLapses(j) ==
  LeaseLapses(j) /\ ~ \E w \in Workers : Holds(w, j)

Fairness ==
  /\ \A w \in Workers : WF_vars(HandlerReturns(w)) /\ WF_vars(Finish(w))
  /\ \A j \in Jobs : WF_vars(UnattendedLeaseLapses(j))
  /\ WF_vars(ReclaimLostRunningJobs)

FairSpec == Spec /\ Fairness

(* However often jobs are lost, requeued and claimed again, at most one    *)
(* worker loop holds the token of a running job: every other loop that     *)
(* still executes an older attempt is fenced (ClaimNextRunnable's fresh    *)
(* lock_token).                                                            *)
SingleOwner ==
  \A j \in Jobs : \A v, w \in Workers : Holds(v, j) /\ Holds(w, j) => v = w

(* The unique index on the dedupe key keeps its meaning under retries,     *)
(* reclaims and terminal writes: two jobs of one key are never both active *)
(* (enqueueOn).                                                            *)
DedupeHolds ==
  \A i, j \in Jobs :
    /\ DedupeKey[i] = DedupeKey[j] /\ DedupeKey[i] # None
    /\ row[i].status \in ActiveStatus /\ row[j].status \in ActiveStatus
    => i = j

(* Dead-letter hooks run for at most one attempt of a job, and only for a  *)
(* job that is dead-lettered for good (deadLetterJob runs them only when   *)
(* its fenced write was applied).                                          *)
HooksOnce ==
  \A j \in Jobs : \A t \in hooked[j] :
    row[j].status = "dead_letter" /\ hooked[j] = {t}

(* Attempts beyond max_attempts are exactly paid for by lost attempts: no  *)
(* sequence of errors, refunds and retries alone exceeds the ceiling       *)
(* (poll compares job.Attempts with job.MaxAttempts).                      *)
AttemptAccounting ==
  \A j \in Jobs :
    /\ row[j].status = "pending" => row[j].attempts < MaxAttempts + losses[j]
    /\ row[j].attempts <= MaxAttempts + losses[j]

(* The queue implements the abstract ownership protocol: an attempt's      *)
(* identity is fresh, and a worker that believes to own an attempt changes *)
(* the job only while that attempt holds it.                               *)
Believes(w) ==
  IF worker[w].pc \in {"unhandled", "run", "done"} /\ ~worker[w].lost
  THEN <<worker[w].job, worker[w].token>>
  ELSE None

PhaseOf(r) ==
  CASE r.status = "absent" -> "absent"
    [] r.status = "pending" -> "waiting"
    [] r.status = "running" -> "held"
    [] OTHER -> "closed"

Ownership == INSTANCE JobOwnership WITH
  Actors <- Workers, Nobody <- None,
  phase <- [j \in Jobs |-> PhaseOf(row[j])],
  holder <- [j \in Jobs |-> row[j].token],
  belief <- [w \in Workers |-> Believes(w)],
  issued <- nextToken - 1

ImplementsOwnership == Ownership!OwnSpec

(* No attempt is wedged: whatever happens to its worker, each running      *)
(* attempt ends by its owner's write or by recovery                        *)
(* (ReclaimLostRunningJobs).                                               *)
NoPermanentOrphan ==
  \A j \in Jobs : \A t \in 1..MaxClaims :
    Owned(row[j], t) ~> ~Owned(row[j], t)

=============================================================================
