-------------------------- MODULE SessionExecutor --------------------------
(***************************************************************************)
(* Durable session executors: a worker that claims a session job reserves  *)
(* an executor row, launches a container and hands the running job over    *)
(* with its lock token (internal/worker/session_executor_dispatch.go); the *)
(* container boots, runs the handler and closes the attempt (internal/     *)
(* worker/session_executor_runtime.go); recovery takes back what either of *)
(* them leaves behind (internal/db/session_executor_store.go, jobs.go).    *)
(*                                                                         *)
(* The jobs are those of one thread of one session.  Statements are atomic *)
(* and may fail, or be applied without their answer arriving.  Processes   *)
(* die, heartbeats and leases grow old at any moment.  The session's       *)
(* status, the health of the nodes and the lease of the thread's runtime   *)
(* change freely under other components: a guard on them is a choice.  An  *)
(* executor runs its handler without a dispatcher, so a handoff never      *)
(* nests.                                                                  *)
(***************************************************************************)
EXTENDS JobRow

CONSTANTS
  Jobs,         \* run_agent and continue_session jobs of the thread
  MaxAttempts,  \* jobs.max_attempts
  MaxClaims     \* bound: lock tokens issued in a behaviour

ASSUME ExecutorAssumption ==
  /\ None \notin Jobs
  /\ MaxAttempts \in Nat \ {0}
  /\ MaxClaims \in Nat

VARIABLES
  row,        \* the jobs table
  exec,       \* the session_executors table
  disp,       \* the worker loop of a node that dispatches a session job
  proc,       \* the executor processes, one container per executor row
  nextToken,  \* the next lock token
  won         \* history: the tokens whose success was recorded, per job

vars == <<row, exec, disp, proc, nextToken, won>>

ActiveExec == {"starting", "running", "draining"}

TerminalExec == {"completed", "requeued", "failed", "lost"}

ExecRow ==
  [status: {"absent"} \cup ActiveExec \cup TerminalExec, job: Jobs \cup {None},
   token: Nat, fresh: BOOLEAN]

NoExec ==
  [status |-> "absent", job |-> None, token |-> NoToken, fresh |-> FALSE]

Dispatcher ==
  [pc: {"idle", "clear", "create", "launch", "record", "handoff", "cleanup",
        "fail", "error"},
   job: Jobs \cup {None}, token: Nat, attempts: Nat, exec: Executors \cup {None}]

IdleDispatcher ==
  [pc |-> "idle", job |-> None, token |-> NoToken, attempts |-> 0,
   exec |-> None]

Outcomes == {"ok", "fatal", "error", "retry", "bounded"}

Process ==
  [pc: {"none", "boot", "wait", "pause", "claim", "unhandled", "run", "finish",
        "close", "gone"},
   attempts: Nat, lost: BOOLEAN,
   out: Outcomes \cup TerminalExec \cup {"none"}]

NoProcess ==
  [pc |-> "none", attempts |-> 0, lost |-> FALSE, out |-> "none"]

Gone == [NoProcess EXCEPT !.pc = "gone"]

Init ==
  /\ row = [j \in Jobs |-> NoRow]
  /\ exec = [x \in Executors |-> NoExec]
  /\ disp = [n \in Nodes |-> IdleDispatcher]
  /\ proc = [x \in Executors |-> NoProcess]
  /\ nextToken = 1
  /\ won = [j \in Jobs |-> {}]

-----------------------------------------------------------------------------
Enqueue(j) ==
  /\ row[j].status = "absent"
  /\ row' = [row EXCEPT ![j] = Inserted(None, TRUE)]
  /\ UNCHANGED <<exec, disp, proc, nextToken, won>>

(* The worker's claim, and the handler up to Dispatch.                     *)
Claim(n) ==
  /\ disp[n].pc = "idle"
  /\ nextToken <= MaxClaims
  /\ \E j \in Jobs :
       /\ row[j].status = "pending"
       /\ row[j].due
       /\ row' = [row EXCEPT ![j] = Claimed(@, n, nextToken)]
       /\ disp' = [disp EXCEPT ![n] =
            [pc |-> "clear", job |-> j, token |-> nextToken,
             attempts |-> row[j].attempts + 1, exec |-> None]]
  /\ nextToken' = nextToken + 1
  /\ UNCHANGED <<exec, proc, won>>

Advance(n, pc) == disp' = [disp EXCEPT ![n].pc = pc]

(* A fenced write of the job row: applied when the token is still the      *)
(* row's, otherwise (or when the statement fails) nothing changes.         *)
Put(j, t, r) ==
  \/ Owned(row[j], t) /\ row' = [row EXCEPT ![j] = r]
  \/ UNCHANGED row

(* The WHERE clause of the fenced executor statements.                     *)
ExecOwned(x, t, S) == exec[x].token = t /\ exec[x].status \in S

(* Reservations of the job that were never handed off.                     *)
Reservations(j) ==
  {x \in Executors :
     /\ exec[x].job = j
     /\ exec[x].status = "starting"
     /\ row[j].status = "running" /\ row[j].kind = "worker"}

ClearPreHandoffReservation(n) ==
  LET j == disp[n].job
  IN /\ disp[n].pc = "clear"
     /\ \/ /\ exec' = [x \in Executors |->
                IF x \in Reservations(j) THEN [exec[x] EXCEPT !.status = "failed"]
                                         ELSE exec[x]]
           /\ Advance(n, "create") \/ Advance(n, "error")
        \/ UNCHANGED exec /\ Advance(n, "error")
     /\ UNCHANGED <<row, proc, nextToken, won>>

(* The unique index on the active executors of a thread refuses a second.  *)
(* When the answer is lost the row stays, without a process that knows it. *)
CreateStarting(n) ==
  /\ disp[n].pc = "create"
  /\ \/ \E x \in Executors :
          /\ exec[x].status = "absent"
          /\ \A y \in Executors : exec[y].status \notin ActiveExec
          /\ exec' = [exec EXCEPT ![x] =
               [status |-> "starting", job |-> disp[n].job, token |-> disp[n].token,
                fresh |-> TRUE]]
          /\ \/ disp' = [disp EXCEPT ![n].pc = "launch", ![n].exec = x]
             \/ Advance(n, "error")
     \/ UNCHANGED exec /\ Advance(n, "error")
  /\ UNCHANGED <<row, proc, nextToken, won>>

(* The container may be running although Docker reported a failure; that   *)
(* branch does not remove it.                                              *)
Launch(n) ==
  LET x == disp[n].exec
      started == proc' = [proc EXCEPT ![x].pc = "boot"]
  IN /\ disp[n].pc = "launch"
     /\ \/ started /\ Advance(n, "record")
        \/ (started \/ UNCHANGED proc) /\ Advance(n, "fail")
     /\ UNCHANGED <<row, exec, nextToken, won>>

RecordContainerID(n) ==
  /\ disp[n].pc = "record"
  /\ \/ ExecOwned(disp[n].exec, disp[n].token, {"starting"}) /\ Advance(n, "handoff")
     \/ Advance(n, "cleanup")
  /\ UNCHANGED <<row, exec, proc, nextToken, won>>

(* The token stays; only the owner changes.  HandoffError ends poll's      *)
(* iteration without a write.                                              *)
Handoff(n) ==
  LET j == disp[n].job
      moved == HandedOff(row[j], disp[n].exec)
  IN /\ disp[n].pc = "handoff"
     /\ \/ /\ Owned(row[j], disp[n].token)
           /\ row' = [row EXCEPT ![j] = moved]
           /\ disp' = [disp EXCEPT ![n] = IdleDispatcher]
        \/ Put(j, disp[n].token, moved) /\ Advance(n, "cleanup")
     /\ UNCHANGED <<exec, proc, nextToken, won>>

(* cleanupLaunchedExecutor: forced removal, which may itself fail.         *)
CleanupLaunched(n) ==
  /\ disp[n].pc = "cleanup"
  /\ proc' = [proc EXCEPT ![disp[n].exec] = Gone] \/ UNCHANGED proc
  /\ Advance(n, "fail")
  /\ UNCHANGED <<row, exec, nextToken, won>>

(* MarkTerminalWithLease, applied or not.                                  *)
MarkTerminal(x, t, status) ==
  \/ /\ ExecOwned(x, t, ActiveExec)
     /\ exec' = [exec EXCEPT ![x].status = status]
  \/ UNCHANGED exec

MarkDispatchFailed(n) ==
  /\ disp[n].pc = "fail"
  /\ MarkTerminal(disp[n].exec, disp[n].token, "failed")
  /\ Advance(n, "error")
  /\ UNCHANGED <<row, proc, nextToken, won>>

(* poll after a failed Dispatch: an ordinary error.  A worker that has     *)
(* seen its lease lost writes nothing, like a write that fails.            *)
DispatchError(n) ==
  LET d == disp[n]
  IN /\ d.pc = "error"
     /\ Put(d.job, d.token, IF d.attempts >= MaxAttempts THEN DeadLettered(row[d.job])
                                                        ELSE Retried(row[d.job]))
     /\ disp' = [disp EXCEPT ![n] = IdleDispatcher]
     /\ UNCHANGED <<exec, proc, nextToken, won>>

(* terminalizeIfReferencedSessionTerminal: the job fails and its executor  *)
(* row is closed with it.                                                  *)
Closed(j) ==
  [x \in Executors |->
     IF /\ row[j].kind = "session_executor"
        /\ exec[x].job = j
        /\ ExecOwned(x, row[j].token, ActiveExec)
     THEN [exec[x] EXCEPT !.status = "failed"]
     ELSE exec[x]]

Terminalize(j) == row' = [row EXCEPT ![j] = Failed(@)] /\ exec' = Closed(j)

(* The claiming worker's renewal while it dispatches; a session that is    *)
(* over makes it stop the job instead.                                     *)
WorkerRenews(n) ==
  LET d == disp[n]
  IN /\ d.pc # "idle"
     /\ Owned(row[d.job], d.token)
     /\ \/ row' = [row EXCEPT ![d.job] = Renewed(@)] /\ UNCHANGED exec
        \/ Terminalize(d.job)
     /\ UNCHANGED <<disp, proc, nextToken, won>>

WorkerCrash(n) ==
  /\ disp[n].pc # "idle"
  /\ disp' = [disp EXCEPT ![n] = IdleDispatcher]
  /\ UNCHANGED <<row, exec, proc, nextToken, won>>

-----------------------------------------------------------------------------
(* Executor boot: the row must not be terminal.  The code's list of        *)
(* terminal statuses leaves out requeued.  An executor that cannot read    *)
(* its row, or later its job, leaves.                                      *)
BootLoad(x) ==
  /\ proc[x].pc = "boot"
  /\ \/ /\ exec[x].status \notin {"completed", "failed", "lost"}
        /\ proc' = [proc EXCEPT ![x].pc = "wait"]
     \/ proc' = [proc EXCEPT ![x] = Gone]
  /\ UNCHANGED <<row, exec, disp, nextToken, won>>

(* GetRunningForSessionExecutor.                                           *)
HandedTo_AnyKind(x) == Owned(row[exec[x].job], exec[x].token)

HandedTo(x) ==
  LET r == row[exec[x].job]
  IN Owned(r, exec[x].token) /\ r.kind = "session_executor" /\ r.owner = x

BootPoll(x) ==
  /\ proc[x].pc = "wait"
  /\ \/ proc' = [proc EXCEPT ![x] =
            IF HandedTo(x)
            THEN [@ EXCEPT !.pc = "claim", !.attempts = row[exec[x].job].attempts]
            ELSE [@ EXCEPT !.pc = "pause"]]
     \/ proc' = [proc EXCEPT ![x] = Gone]
  /\ UNCHANGED <<row, exec, disp, nextToken, won>>

(* Between two reads the boot timeout may fire.                            *)
BootPause(x) ==
  /\ proc[x].pc = "pause"
  /\ \/ proc' = [proc EXCEPT ![x].pc = "wait"]
     \/ proc' = [proc EXCEPT ![x].pc = "close", ![x].out = "failed"]
  /\ UNCHANGED <<row, exec, disp, nextToken, won>>

MarkRunning_AnyStatus(x) ==
  /\ proc[x].pc = "claim"
  /\ exec' = [exec EXCEPT ![x].status = "running", ![x].fresh = TRUE]
  /\ proc' = [proc EXCEPT ![x].pc = "run"]
  /\ UNCHANGED <<row, disp, nextToken, won>>

(* MarkRunningWithLease: an executor whose row was closed, or asked to     *)
(* drain, in the meantime leaves without a further write.                  *)
MarkRunning(x) ==
  LET ok == exec[x].status \in {"starting", "running"}
      running == exec' = [exec EXCEPT ![x].status = "running", ![x].fresh = TRUE]
  IN /\ proc[x].pc = "claim"
     /\ \/ /\ ok /\ running
           /\ \E pc \in {"run", "unhandled"} : proc' = [proc EXCEPT ![x].pc = pc]
        \/ /\ (ok /\ running) \/ UNCHANGED exec
           /\ proc' = [proc EXCEPT ![x] = Gone]
     /\ UNCHANGED <<row, disp, nextToken, won>>

CloseWith(x, status) == proc' = [proc EXCEPT ![x].pc = "close", ![x].out = status]

Leave(x) == proc' = [proc EXCEPT ![x] = Gone]

(* The executor's build has no handler for the job: the job fails, and     *)
(* then the executor, before any ownership loop was started.               *)
FailUnhandled(x) ==
  /\ proc[x].pc = "unhandled"
  /\ Put(exec[x].job, exec[x].token, Failed(row[exec[x].job]))
  /\ CloseWith(x, "failed")
  /\ UNCHANGED <<exec, disp, nextToken, won>>

(* HeartbeatWithLease: an executor whose row was closed learns its loss.   *)
Heartbeat(x) ==
  /\ proc[x].pc = "run"
  /\ ~proc[x].lost
  /\ \/ /\ exec[x].status \in ActiveExec
        /\ exec' = [exec EXCEPT ![x].fresh = TRUE]
        /\ UNCHANGED proc
     \/ /\ exec[x].status \notin ActiveExec
        /\ proc' = [proc EXCEPT ![x].lost = TRUE]
        /\ UNCHANGED exec
  /\ UNCHANGED <<row, disp, nextToken, won>>

ExecutorRenews_LossIsTransient(x) ==
  /\ proc[x].pc = "run"
  /\ ~proc[x].lost
  /\ HandedTo(x)
  /\ row' = [row EXCEPT ![exec[x].job] = Renewed(@)]
  /\ UNCHANGED <<exec, disp, proc, nextToken, won>>

(* RenewLeaseForSessionExecutor, with the same fallback as RenewLease.     *)
ExecutorRenews(x) ==
  LET j == exec[x].job
      learns == proc' = [proc EXCEPT ![x].lost = TRUE]
  IN /\ proc[x].pc = "run"
     /\ ~proc[x].lost
     /\ \/ /\ HandedTo(x)
           /\ row' = [row EXCEPT ![j] = Renewed(@)]
           /\ UNCHANGED <<exec, proc>>
        \/ /\ Owned(row[j], exec[x].token)
           /\ Terminalize(j)
           /\ learns \/ UNCHANGED proc
        \/ /\ ~HandedTo(x)
           /\ learns
           /\ UNCHANGED <<row, exec>>
     /\ UNCHANGED <<disp, nextToken, won>>

(* SIGTERM: the drain watcher marks the row; the cancelled handler returns *)
(* in its own time.                                                        *)
MarkDraining(x) ==
  /\ proc[x].pc = "run"
  /\ exec[x].status \in {"starting", "running"}
  /\ exec' = [exec EXCEPT ![x].status = "draining"]
  /\ UNCHANGED <<row, disp, proc, nextToken, won>>

(* The handler returns and both ownership loops are joined.                *)
HandlerReturns(x) ==
  /\ proc[x].pc = "run"
  /\ \/ /\ proc[x].lost
        /\ proc' = [proc EXCEPT ![x].pc = "close", ![x].out = "lost"]
     \/ /\ ~proc[x].lost
        /\ \E out \in Outcomes :
             proc' = [proc EXCEPT ![x].pc = "finish", ![x].out = out]
  /\ UNCHANGED <<row, exec, disp, nextToken, won>>

FinishOk_Unchecked(x) ==
  LET j == exec[x].job
      t == exec[x].token
  IN /\ proc[x].pc = "finish"
     /\ proc[x].out = "ok"
     /\ Put(j, t, Succeeded(row[j]))
     /\ won' = IF row' = row THEN won ELSE [won EXCEPT ![j] = @ \cup {t}]
     /\ CloseWith(x, "completed")
     /\ UNCHANGED <<exec, disp, nextToken>>

(* finishAttempt, success: the executor row is completed only when the     *)
(* job's success is known to be recorded.                                  *)
FinishOk(x) ==
  LET j == exec[x].job
      t == exec[x].token
  IN /\ proc[x].pc = "finish"
     /\ proc[x].out = "ok"
     /\ \/ /\ Owned(row[j], t)
           /\ row' = [row EXCEPT ![j] = Succeeded(@)]
           /\ won' = [won EXCEPT ![j] = @ \cup {t}]
           /\ CloseWith(x, "completed") \/ Leave(x)
        \/ UNCHANGED <<row, won>> /\ Leave(x)
     /\ UNCHANGED <<exec, disp, nextToken>>

(* A retry bounded in time first makes its window durable; the executor    *)
(* leaves without a further write when it cannot.                          *)
EnsureRetryWindow(x) ==
  LET j == exec[x].job
      t == exec[x].token
  IN /\ proc[x].pc = "finish"
     /\ proc[x].out = "bounded"
     /\ \/ /\ Owned(row[j], t)
           /\ row' = [row EXCEPT ![j] = WindowStarted(@)]
           /\ proc' = [proc EXCEPT ![x].out = "retry"]
        \/ Put(j, t, WindowStarted(row[j])) /\ Leave(x)
     /\ UNCHANGED <<exec, disp, nextToken, won>>

FinishDeadLetter(x) ==
  LET j == exec[x].job
  IN /\ proc[x].pc = "finish"
     /\ \/ proc[x].out \in {"fatal", "retry"}
        \/ proc[x].out = "error" /\ proc[x].attempts >= MaxAttempts
     /\ Put(j, exec[x].token, DeadLettered(row[j]))
     /\ CloseWith(x, "failed")
     /\ UNCHANGED <<exec, disp, nextToken, won>>

FinishRetry(x) ==
  LET j == exec[x].job
      spent == proc[x].attempts >= MaxAttempts
  IN /\ proc[x].pc = "finish"
     /\ \/ /\ proc[x].out \in {"error", "retry"} /\ ~spent
           /\ Put(j, exec[x].token, Retried(row[j]))
        \/ /\ proc[x].out = "retry"
           /\ Put(j, exec[x].token, Refunded(Retried(row[j])))
     /\ CloseWith(x, "requeued")
     /\ UNCHANGED <<exec, disp, nextToken, won>>

(* markExecutorTerminal, the executor's last write.                        *)
CloseExecutor(x) ==
  /\ proc[x].pc = "close"
  /\ MarkTerminal(x, exec[x].token, proc[x].out)
  /\ Leave(x)
  /\ UNCHANGED <<row, disp, nextToken, won>>

(* The container is killed.                                                *)
Die(x) ==
  /\ proc[x].pc \notin {"none", "gone"}
  /\ Leave(x)
  /\ UNCHANGED <<row, exec, disp, nextToken, won>>

-----------------------------------------------------------------------------
(* ReclaimLost's candidates: the heartbeat is old, and the job is the      *)
(* executor's and its lease has passed, or the reservation was never       *)
(* handed off, or the job is closed.                                       *)
Mine(x) == row[exec[x].job].token \in {NoToken, exec[x].token}

HandedOffStale(x) ==
  LET r == row[exec[x].job]
  IN Owned(r, exec[x].token) /\ r.kind = "session_executor" /\ ~r.leased

StaleExecutors ==
  {x \in Executors :
     /\ exec[x].status \in ActiveExec
     /\ ~exec[x].fresh
     /\ \/ HandedOffStale(x)
        \/ exec[x].status = "starting" /\ row[exec[x].job].kind = "worker" /\ Mine(x)
        \/ row[exec[x].job].status \in TerminalStatus /\ Mine(x)}

(* The executor is lost and its job requeued in one statement; a stale     *)
(* reservation, or one of a closed job, is failed.                         *)
Reclaim(x) ==
  LET j == exec[x].job
  IN /\ IF HandedOffStale(x)
        THEN /\ exec' = [exec EXCEPT ![x].status = "lost"]
             /\ row' = [row EXCEPT ![j] = Reclaimed(@)]
        ELSE exec' = [exec EXCEPT ![x].status = "failed"] /\ UNCHANGED row
     /\ UNCHANGED <<disp, proc, nextToken, won>>

(* The recovery loop, which may spare a thread with a leased runtime, and  *)
(* the targeted form for user input, which does not.                       *)
ReclaimLost == \E x \in StaleExecutors : Reclaim(x)

ReclaimLostRunningJobs_WorkersOnly(j) ==
  /\ row[j].status = "running"
  /\ row[j].kind = "worker"
  /\ row' = [row EXCEPT ![j] = Reclaimed(@)]
  /\ UNCHANGED <<exec, disp, proc, nextToken, won>>

(* The generic running-job recovery, which follows ReclaimLost in the loop *)
(* and does not look at the owner's kind.  The node that holds the lock    *)
(* may be dead at any moment, whether or not the lease has passed.         *)
ReclaimLostRunningJobs(j) ==
  /\ row[j].status = "running"
  /\ row' = [row EXCEPT ![j] = Reclaimed(@)]
  /\ UNCHANGED <<exec, disp, proc, nextToken, won>>

(* The reaper stops the running jobs of a session it has marked failed.    *)
TerminalizeRunningSessionJobs(j) ==
  /\ row[j].status = "running"
  /\ Terminalize(j)
  /\ UNCHANGED <<disp, proc, nextToken, won>>

(* MarkDeployBudgetExpiredByNode, for the executors past their deadline.   *)
MarkDeployBudgetExpired(x) ==
  /\ exec[x].status \in ActiveExec
  /\ exec' = [exec EXCEPT ![x].status = "draining"]
  /\ UNCHANGED <<row, disp, proc, nextToken, won>>

-----------------------------------------------------------------------------
(* The environment: time.                                                  *)
LeaseLapses(j) ==
  /\ row[j].leased
  /\ row' = [row EXCEPT ![j].leased = FALSE]
  /\ UNCHANGED <<exec, disp, proc, nextToken, won>>

RunAtPasses(j) ==
  /\ row[j].status = "pending" /\ ~row[j].due
  /\ row' = [row EXCEPT ![j].due = TRUE]
  /\ UNCHANGED <<exec, disp, proc, nextToken, won>>

HeartbeatAges(x) ==
  /\ exec[x].status \in ActiveExec
  /\ exec[x].fresh
  /\ exec' = [exec EXCEPT ![x].fresh = FALSE]
  /\ UNCHANGED <<row, disp, proc, nextToken, won>>

-----------------------------------------------------------------------------
Dispatching(n) ==
  \/ ClearPreHandoffReservation(n) \/ CreateStarting(n) \/ Launch(n)
  \/ RecordContainerID(n) \/ Handoff(n) \/ CleanupLaunched(n)
  \/ MarkDispatchFailed(n) \/ DispatchError(n)

Booting(x) ==
  \/ BootLoad(x) \/ BootPoll(x) \/ BootPause(x) \/ MarkRunning(x)
  \/ FailUnhandled(x)

Finishing(x) ==
  \/ FinishOk(x) \/ EnsureRetryWindow(x) \/ FinishDeadLetter(x)
  \/ FinishRetry(x) \/ CloseExecutor(x)

Next ==
  \/ \E j \in Jobs :
       \/ Enqueue(j) \/ ReclaimLostRunningJobs(j) \/ LeaseLapses(j)
       \/ TerminalizeRunningSessionJobs(j) \/ RunAtPasses(j)
  \/ \E n \in Nodes :
       Claim(n) \/ Dispatching(n) \/ WorkerRenews(n) \/ WorkerCrash(n)
  \/ \E x \in Executors :
       \/ Booting(x) \/ Heartbeat(x) \/ ExecutorRenews(x) \/ MarkDraining(x)
       \/ HandlerReturns(x) \/ Finishing(x) \/ Die(x) \/ MarkDeployBudgetExpired(x)
       \/ HeartbeatAges(x)
  \/ ReclaimLost

Spec == Init /\ [][Next]_vars

(* Types of both tables and of the processes.                              *)
ExecTypeOK ==
  /\ row \in [Jobs -> Row]
  /\ exec \in [Executors -> ExecRow]
  /\ disp \in [Nodes -> Dispatcher]
  /\ proc \in [Executors -> Process]
  /\ nextToken \in Nat \ {0}
  /\ won \in [Jobs -> SUBSET Nat]

(* An executor that executes under the job's current token was handed the  *)
(* job: it is the recorded owner, so no second executor and no inline      *)
(* attempt runs the same turn, however boot, handoff, cleanup and recovery *)
(* interleave (waitForRunningJob).                                         *)
RunsOnlyWhatItOwns ==
  \A x \in Executors :
    /\ proc[x].pc \in {"claim", "unhandled", "run", "finish"}
    /\ Owned(row[exec[x].job], exec[x].token)
    => /\ row[exec[x].job].kind = "session_executor"
       /\ row[exec[x].job].owner = x

(* A completed executor recorded its job's success, and no job succeeds    *)
(* under two tokens (finishAttempt).                                       *)
CompletedMeansSucceeded ==
  /\ \A x \in Executors :
       exec[x].status = "completed" => exec[x].token \in won[exec[x].job]
  /\ \A j \in Jobs : \A s, t \in won[j] : s = t

(* A closed executor row is never opened again: an executor that was       *)
(* declared lost or failed cannot come back (the status lists of           *)
(* MarkRunningWithLease, HeartbeatWithLease and MarkTerminalWithLease).    *)
TerminalIsFinal ==
  [][\A x \in Executors :
       exec[x].status \in TerminalExec => exec'[x].status = exec[x].status]_vars

-----------------------------------------------------------------------------
(* A process, of a worker or of an executor, that carries the attempt.     *)
Attended(j) ==
  \/ \E n \in Nodes : disp[n].job = j /\ disp[n].token = row[j].token
  \/ \E x \in Executors :
       /\ exec[x].job = j /\ exec[x].token = row[j].token
       /\ proc[x].pc \notin {"none", "gone"}

UnattendedLeaseLapses(j) == LeaseLapses(j) /\ ~Attended(j)

FencedHandlerReturns(x) == HandlerReturns(x) /\ proc[x].lost

(* The ownership loops tick, a cancelled handler returns, a lease that     *)
(* nobody renews passes, and the recovery loop runs.                       *)
Fairness ==
  /\ \A x \in Executors :
       /\ WF_vars(Heartbeat(x)) /\ WF_vars(ExecutorRenews(x))
       /\ WF_vars(FencedHandlerReturns(x))
  /\ \A j \in Jobs :
       /\ WF_vars(UnattendedLeaseLapses(j))
       /\ WF_vars(ReclaimLostRunningJobs(j) /\ ~row[j].leased)

FairSpec == Spec /\ Fairness

(* An executor that no longer owns its job stops executing it: it learns   *)
(* the loss from its renewals even while its row still accepts heartbeats  *)
(* (renewLoop).                                                            *)
FencedExecutorStops ==
  \A x \in Executors :
    (proc[x].pc = "run" /\ ~Owned(row[exec[x].job], exec[x].token))
      ~> proc[x].pc # "run"

(* A running job that no process carries any more is taken back, whoever   *)
(* owned it and whatever became of the executor row                        *)
(* (ReclaimLostRunningJobs).                                               *)
OrphanedJobRecovered ==
  \A j \in Jobs :
    (row[j].status = "running" /\ ~Attended(j)) ~> row[j].status # "running"

(* What docs/design/implemented/82-durable-session-executors.md says of    *)
(* recovery: a stale handed-off executor is marked lost together with the  *)
(* reclaim of its job, so that its active row cannot stand in the way of   *)
(* the next attempt.                                                       *)
LostExecutorNeverStrands ==
  \A x \in Executors, n \in Nodes :
    ~ /\ exec[x].status \in {"running", "draining"}
      /\ proc[x].pc = "gone"
      /\ ~exec[x].fresh
      /\ disp[n].pc = "create"
      /\ disp[n].job = exec[x].job
      /\ Owned(row[disp[n].job], disp[n].token)

=============================================================================
