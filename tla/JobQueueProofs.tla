--------------------------- MODULE JobQueueProofs ---------------------------
(***************************************************************************)
(* Theorems about the job queue, for any sets of jobs, nodes, slots and    *)
(* pins, any dedupe keys and any bounds.                                   *)
(*                                                                         *)
(* The argument has three layers.  The lemmas of the first say what each   *)
(* statement of JobRow does to a row.  Those of the second sum up what any *)
(* step does to one row (RowEffect) and to one worker loop (LoopEffect).   *)
(* The invariants, and the refinement, follow from these effects.          *)
(***************************************************************************)
EXTENDS JobQueue, TLAPS

(* Leaves are given half a minute of each prover. *)
USE SMTT(30), ZenonT(30)


(* q is row r ended by a statement that also clears the lock.              *)
Ends(r, q) ==
  /\ q \in Row
  /\ q.status \in TerminalStatus
  /\ q.token = NoToken
  /\ q.attempts = r.attempts

(* q waits to be claimed, with its lock cleared.                           *)
Waits(q) ==
  /\ q \in Row
  /\ q.status = "pending"
  /\ q.token = NoToken

(* q has the status, token and attempts of r.                              *)
Alike(r, q) ==
  /\ q \in Row
  /\ q.status = r.status
  /\ q.token = r.token
  /\ q.attempts = r.attempts

(* Unlocking a row keeps its type and its attempts and clears its token.   *)
LEMMA UnlockedRow ==
  ASSUME NEW r \in Row
  PROVE  /\ Unlocked(r) \in Row
         /\ Unlocked(r).token = NoToken
         /\ Unlocked(r).attempts = r.attempts
BY Zenon DEF Unlocked, Row, NoToken

(* The terminal writes leave a terminal row without a token.               *)
LEMMA EndedRows ==
  ASSUME NEW r \in Row
  PROVE  /\ Ends(r, Succeeded(r)) /\ Ends(r, Failed(r))
         /\ Ends(r, Cancelled(r))
         /\ Ends(r, DeadLettered(r)) /\ DeadLettered(r).status = "dead_letter"
<1> DEFINE u == Unlocked(r)
<1>1. u \in Row /\ u.token = NoToken /\ u.attempts = r.attempts
  BY UnlockedRow
<1> HIDE DEF u
<1>2. \A s \in TerminalStatus : Ends(r, [u EXCEPT !.status = s])
  BY <1>1 DEF Ends, Row, JobStatus, TerminalStatus
<1> QED
  BY <1>1, <1>2 DEF u, Succeeded, Failed, Cancelled, DeadLettered, TerminalStatus, Row

(* The retries and the recovery leave a pending row without a token.       *)
LEMMA WaitingRows ==
  ASSUME NEW r \in Row
  PROVE  /\ Waits(Retried(r)) /\ Retried(r).attempts = r.attempts
         /\ Waits(Reclaimed(r)) /\ Reclaimed(r).attempts = r.attempts
         /\ \A n \in Pins :
              Waits(RetriedTo(r, n)) /\ RetriedTo(r, n).attempts = r.attempts
<1> DEFINE u == Unlocked(r)
<1>1. u \in Row /\ u.token = NoToken /\ u.attempts = r.attempts
  BY UnlockedRow
<1> HIDE DEF u
<1>2. \A d \in BOOLEAN :
        LET q == [u EXCEPT !.status = "pending", !.due = d]
        IN  Waits(q) /\ q.attempts = r.attempts
  BY <1>1, ZenonT(30) DEF Waits, Row, JobStatus, ActiveStatus
<1>3. \A n \in Pins :
        LET q == [[u EXCEPT !.status = "pending", !.due = FALSE] EXCEPT !.target = n]
        IN  Waits(q) /\ q.attempts = r.attempts
  BY <1>1, QueueAssumption, Zenon DEF Waits, Row, JobStatus, ActiveStatus
<1> QED
  BY <1>2, <1>3, Zenon DEF u, Retried, Reclaimed, RetriedTo

(* A retry that does not consume an attempt gives one back.                *)
LEMMA RefundedRow ==
  ASSUME NEW r \in Row, Waits(r), r.attempts # 0
  PROVE  /\ Waits(Refunded(r)) /\ Refunded(r).attempts = r.attempts - 1
         /\ Waits(WindowReset(Refunded(r)))
         /\ WindowReset(Refunded(r)).attempts = r.attempts - 1
<1>1. Refunded(r) = [r EXCEPT !.attempts = r.attempts - 1]
  BY DEF Refunded
<1>2. r.attempts - 1 \in Nat
  BY DEF Row
<1> QED
  BY <1>1, <1>2, ZenonT(30) DEF WindowReset, Waits, Row

(* A retry row is either refunded or consumes an attempt that was left.    *)
LEMMA RetryRow ==
  ASSUME NEW w \in Workers, NEW r \in Row, r.attempts # 0, NEW q \in RetryRows(w, r)
  PROVE  /\ Waits(q)
         /\ \/ q.attempts = r.attempts - 1
            \/ ~Exhausted(w) /\ q.attempts = r.attempts
<1>1. \A p \in Repinned(r) : p \in Row /\ Waits(p) /\ p.attempts = r.attempts
  <2>1. Waits(Retried(r)) /\ Retried(r).attempts = r.attempts
    BY WaitingRows
  <2>2. \A n \in Pins :
          Waits(RetriedTo(r, n)) /\ RetriedTo(r, n).attempts = r.attempts
    BY WaitingRows
  <2>3. \A p : Waits(p) => p \in Row
    BY DEF Waits
  <2> QED
    BY <2>1, <2>2, <2>3 DEF Repinned
<1>2. Retried(r) \in Repinned(r)
  BY DEF Repinned
<1>3. CASE \E p \in Repinned(r) : q = Refunded(p)
  BY <1>1, <1>3, RefundedRow
<1>4. CASE q = WindowReset(Refunded(Retried(r)))
  BY <1>1, <1>2, <1>4, RefundedRow
<1>5. CASE ~Exhausted(w) /\ q \in Repinned(r)
  BY <1>1, <1>5
<1> QED
  BY <1>3, <1>4, <1>5 DEF RetryRows

(* Renewals and the passing of time leave a row alike.                     *)
LEMMA TouchedRows ==
  ASSUME NEW r \in Row
  PROVE  /\ Alike(r, Renewed(r))
         /\ Alike(r, WindowStarted(r))
         /\ Alike(r, [r EXCEPT !.leased = FALSE])
         /\ Alike(r, [r EXCEPT !.due = TRUE])
BY Zenon DEF Alike, Renewed, WindowStarted, Row

(* An absent and a newly inserted row have the type of a row.              *)
LEMMA NewRows ==
  /\ NoRow \in Row /\ NoRow.status = "absent"
  /\ NoRow.token = NoToken /\ NoRow.attempts = 0
  /\ \A target \in Pins, due \in BOOLEAN :
       Waits(Inserted(target, due)) /\ Inserted(target, due).attempts = 0
BY QueueAssumption, ZenonT(30)
   DEF NoRow, Row, JobStatus, ActiveStatus, NoToken, Inserted, Waits

(* A claim leaves a running row under the new token with one more attempt. *)
LEMMA ClaimedRow ==
  ASSUME NEW r \in Row, NEW n \in Nodes, NEW t \in Nat
  PROVE  /\ Claimed(r, n, t) \in Row
         /\ Claimed(r, n, t).status = "running"
         /\ Claimed(r, n, t).token = t
         /\ Claimed(r, n, t).attempts = r.attempts + 1
<1> DEFINE a == r.attempts + 1
<1>1. a \in Nat
  BY DEF Row
<1>2. Claimed(r, n, t) =
        [r EXCEPT !.status = "running", !.node = n, !.owner = n, !.kind = "worker",
                  !.token = t, !.leased = TRUE, !.attempts = a]
  BY DEF Claimed
<1> HIDE DEF a
<1>3. [r EXCEPT !.status = "running", !.node = n, !.owner = n] \in Row
  BY Zenon DEF Row, JobStatus, ActiveStatus
<1>4. \A q \in Row :
        [q EXCEPT !.kind = "worker", !.token = t, !.leased = TRUE, !.attempts = a] \in Row
  BY <1>1, ZenonT(30) DEF Row
<1>5. Claimed(r, n, t) \in Row /\ Claimed(r, n, t).attempts = a
  BY <1>2, <1>3, <1>4, ZenonT(30) DEF Row
<1> QED
  BY <1>2, <1>5 DEF a, Row

-----------------------------------------------------------------------------
(* Tokens: a row has one exactly while it runs, none was issued in the     *)
(* future, and no two loops have the same one.                             *)
TokenInv ==
  /\ \A j \in Jobs : /\ row[j].token < nextToken
                     /\ row[j].status = "running" <=> row[j].token # NoToken
  /\ \A w \in Workers :
       /\ worker[w].token < nextToken
       /\ worker[w].pc = "idle" => worker[w].token = NoToken
       /\ worker[w].pc # "idle" => worker[w].token # NoToken /\ worker[w].job \in Jobs
  /\ \A v, w \in Workers :
       worker[v].token = worker[w].token /\ worker[v].token # NoToken => v = w

(* The attempt count that a loop scanned is still the row's while its      *)
(* token is; a running row has been claimed.                               *)
SyncInv ==
  /\ \A j \in Jobs : row[j].status = "running" => row[j].attempts # 0
  /\ \A w \in Workers :
       /\ worker[w].pc = "unhandled" => ~worker[w].lost
       /\ worker[w].pc # "idle" /\ Owned(row[worker[w].job], worker[w].token)
            => worker[w].attempts = row[worker[w].job].attempts

(* What a step may do to one row.                                          *)
SameLosses(j) == losses'[j] = losses[j]

Touched(j) == Alike(row[j], row'[j]) /\ SameLosses(j)

Opened(j) ==
  /\ row[j].status = "absent"
  /\ DedupeKey[j] = None \/ Duplicates(j) = {}
  /\ Waits(row'[j]) /\ row'[j].attempts = 0
  /\ SameLosses(j)

Purged(j) ==
  /\ row[j].status \in {"succeeded", "failed"}
  /\ row'[j] = NoRow
  /\ losses'[j] = 0

Taken(j) ==
  /\ row[j].status = "pending"
  /\ row'[j] \in Row
  /\ row'[j].status = "running"
  /\ row'[j].token = nextToken
  /\ row'[j].attempts = row[j].attempts + 1
  /\ nextToken' = nextToken + 1
  /\ SameLosses(j)

Ended(j) ==
  row[j].status \in ActiveStatus /\ Ends(row[j], row'[j]) /\ SameLosses(j)

GivenBack(j) ==
  /\ row[j].status = "running"
  /\ Waits(row'[j])
  /\ \/ row'[j].attempts = row[j].attempts - 1
     \/ row'[j].attempts = row[j].attempts /\ row[j].attempts < MaxAttempts
  /\ SameLosses(j)

TakenBack(j) ==
  /\ row[j].status = "running"
  /\ Waits(row'[j])
  /\ row'[j].attempts = row[j].attempts
  /\ losses'[j] = losses[j] + 1

RowEffect(j) ==
  \/ Touched(j) \/ Opened(j) \/ Purged(j) \/ Taken(j)
  \/ Ended(j) \/ GivenBack(j) \/ TakenBack(j)

(* Rows that do not change are at most touched.                            *)
LEMMA UnchangedRows ==
  ASSUME TypeOK, UNCHANGED <<row, losses>>
  PROVE  \A j \in Jobs : RowEffect(j)
BY DEF TypeOK, RowEffect, Touched, Alike, SameLosses

(* A fenced write ends the owner's row or gives it back.                   *)
LEMMA PutEffect ==
  ASSUME TypeOK, NEW w \in Workers, NEW q, Put(w, q), UNCHANGED losses,
         LET j == worker[w].job
         IN  j \in Jobs /\ Owned(row[j], worker[w].token) =>
               \/ Ends(row[j], q)
               \/ Alike(row[j], q)
               \/ /\ Waits(q)
                  /\ \/ q.attempts = row[j].attempts - 1
                     \/ q.attempts = row[j].attempts /\ row[j].attempts < MaxAttempts
  PROVE  \A j \in Jobs : RowEffect(j)
<1>1. CASE UNCHANGED row
  BY <1>1, UnchangedRows
<1>2. CASE /\ Owned(row[worker[w].job], worker[w].token)
           /\ row' = [row EXCEPT ![worker[w].job] = q]
  <2> SUFFICES ASSUME NEW j \in Jobs PROVE RowEffect(j)
    OBVIOUS
  <2>1. CASE j = worker[w].job
    BY <1>2, <2>1 DEF TypeOK, Owned, RowEffect, Ended, GivenBack, Touched,
                      SameLosses, ActiveStatus
  <2>2. CASE j # worker[w].job
    BY <1>2, <2>2 DEF TypeOK, RowEffect, Touched, Alike, SameLosses
  <2> QED
    BY <2>1, <2>2
<1> QED
  BY <1>1, <1>2 DEF Put

(* Statements that change one row without fencing.                         *)
LEMMA JobStepRows ==
  ASSUME TypeOK, NEW i \in Jobs, JobStep(i)
  PROVE  \A j \in Jobs : RowEffect(j)
<1>0. row[i] \in Row
  BY DEF TypeOK
<1> SUFFICES ASSUME NEW j \in Jobs PROVE RowEffect(j)
  OBVIOUS
<1>1. CASE j # i /\ ~ReclaimLostRunningSessionJobsForSession(i)
  BY <1>1 DEF JobStep, Enqueue, DeleteExpiredCompleted, TerminalizeRunningSessionJobs,
     CancelActiveCodeReviewPreparation, LeaseLapses, RunAtPasses, SessionStatusChanges,
     RowEffect, Touched, Alike, SameLosses, TypeOK
<1>2. CASE ReclaimLostRunningSessionJobsForSession(i)
  BY <1>2, WaitingRows DEF ReclaimLostRunningSessionJobsForSession, Requeue, Lost,
     RowEffect, Touched, TakenBack, Alike, SameLosses, TypeOK
<1>3. CASE j = i /\ Enqueue(i)
  BY <1>3, NewRows DEF Enqueue, RowEffect, Opened, SameLosses, TypeOK
<1>4. CASE j = i /\ DeleteExpiredCompleted(i)
  BY <1>4 DEF DeleteExpiredCompleted, RowEffect, Purged, TypeOK
<1>5. CASE j = i /\ TerminalizeRunningSessionJobs(i)
  BY <1>0, <1>5, EndedRows DEF TerminalizeRunningSessionJobs, RowEffect, Ended,
     SameLosses, TypeOK, ActiveStatus
<1>6. CASE j = i /\ CancelActiveCodeReviewPreparation(i)
  BY <1>0, <1>6, EndedRows DEF CancelActiveCodeReviewPreparation, RowEffect, Ended,
     SameLosses, TypeOK
<1>7. CASE j = i /\ LeaseLapses(i)
  BY <1>0, <1>7, TouchedRows, Zenon DEF LeaseLapses, RowEffect, Touched, SameLosses, TypeOK
<1>8. CASE j = i /\ RunAtPasses(i)
  BY <1>0, <1>8, TouchedRows, Zenon DEF RunAtPasses, RowEffect, Touched, SameLosses, TypeOK
<1>9. CASE SessionStatusChanges(i)
  BY <1>9, UnchangedRows DEF SessionStatusChanges
<1> QED
  BY <1>1, <1>2, <1>3, <1>4, <1>5, <1>6, <1>7, <1>8, <1>9 DEF JobStep

(* The steps of a worker loop.                                             *)
LEMMA WorkerStepRows ==
  ASSUME TypeOK, TokenInv, SyncInv, NEW w \in Workers, WorkerStep(w)
  PROVE  \A j \in Jobs : RowEffect(j)
<1> DEFINE i == worker[w].job
<1>0. /\ \A j \in Jobs : row[j] \in Row
      /\ w[1] \in Nodes
      /\ nextToken \in Nat
  BY DEF TypeOK, Workers
<1>1. CASE Poll(w)
  <2>1. PICK j \in Jobs :
          /\ row[j].status = "pending"
          /\ row' = [row EXCEPT ![j] = Claimed(row[j], w[1], nextToken)]
          /\ nextToken' = nextToken + 1
          /\ UNCHANGED losses
    BY <1>1, Zenon DEF Poll, Claimable
  <2>2. Taken(j)
    BY <1>0, <2>1, ClaimedRow DEF Taken, SameLosses, TypeOK
  <2>3. \A k \in Jobs : k # j => Touched(k)
    BY <2>1 DEF Touched, Alike, SameLosses, TypeOK
  <2> QED
    BY <2>2, <2>3 DEF RowEffect
<1>2. CASE RenewLease(w)
  <2>1. i \in Jobs
    BY <1>2 DEF RenewLease, TokenInv
  <2>2. CASE Owned(row[i], worker[w].token) /\ row' = [row EXCEPT ![i] = Renewed(@)]
    <3>1. Put(w, Renewed(row[i])) /\ UNCHANGED losses
      BY <1>2, <2>2 DEF Put, RenewLease
    <3> QED
      BY <1>0, <2>1, <3>1, PutEffect, TouchedRows, Zenon
  <2>3. CASE Owned(row[i], worker[w].token) /\ row' = [row EXCEPT ![i] = Failed(@)]
    <3>1. Put(w, Failed(row[i])) /\ UNCHANGED losses
      BY <1>2, <2>3 DEF Put, RenewLease
    <3> QED
      BY <1>0, <2>1, <3>1, PutEffect, EndedRows
  <2>4. CASE UNCHANGED row
    BY <1>2, <2>4, UnchangedRows DEF RenewLease
  <2> QED
    BY <1>2, <2>2, <2>3, <2>4 DEF RenewLease
<1>3. CASE LeaseTimer(w) \/ HandlerReturns(w) \/ SkipWrite(w) \/ RunDeadLetterHooks(w)
  BY <1>3, UnchangedRows DEF LeaseTimer, HandlerReturns, SkipWrite, RunDeadLetterHooks
<1>4. CASE SucceedJob(w)
  BY <1>0, <1>4, PutEffect, EndedRows DEF SucceedJob
<1>5. CASE FailJob(w)
  BY <1>0, <1>5, PutEffect, EndedRows DEF FailJob
<1>6. CASE EnsureRetryWindow(w)
  <2>1. Put(w, WindowStarted(row[i])) /\ UNCHANGED losses
    BY <1>6 DEF EnsureRetryWindow, Put
  <2> QED
    BY <1>0, <2>1, PutEffect, TouchedRows, Zenon
<1>7. CASE DeadLetterJob(w)
  <2>1. Put(w, DeadLettered(row[i])) /\ UNCHANGED losses
    BY <1>7 DEF DeadLetterJob, Put
  <2> QED
    BY <1>0, <2>1, PutEffect, EndedRows
<1>8. CASE RetryJob(w)
  <2>1. PICK q : /\ Put(w, q) /\ UNCHANGED losses
                 /\ \/ ~Exhausted(w) /\ q = Retried(row[i])
                    \/ q \in RetryRows(w, row[i])
    BY <1>8 DEF RetryJob
  <2>2. ASSUME i \in Jobs, Owned(row[i], worker[w].token)
        PROVE  /\ Waits(q)
               /\ \/ q.attempts = row[i].attempts - 1
                  \/ q.attempts = row[i].attempts /\ row[i].attempts < MaxAttempts
    <3>1. row[i].attempts # 0 /\ worker[w].attempts = row[i].attempts
      BY <1>8, <2>2 DEF SyncInv, RetryJob, Deciding, Owned
    <3>2. \/ q.attempts = row[i].attempts - 1
          \/ ~Exhausted(w) /\ q.attempts = row[i].attempts
      BY <1>0, <2>1, <2>2, <3>1, RetryRow, WaitingRows
    <3>3. Waits(q)
      BY <1>0, <2>1, <2>2, <3>1, RetryRow, WaitingRows
    <3>4. row[i].attempts \in Nat
      BY <1>0, <2>2 DEF Row
    <3> QED
      BY <3>1, <3>2, <3>3, <3>4, QueueAssumption DEF Exhausted
  <2> QED
    BY <2>1, <2>2, PutEffect
<1> QED
  BY <1>1, <1>2, <1>3, <1>4, <1>5, <1>6, <1>7, <1>8 DEF WorkerStep, Finish

(* Every step of the queue has one of the named effects on each row.       *)
LEMMA RowEffects ==
  ASSUME TypeOK, TokenInv, SyncInv, [Next]_vars
  PROVE  \A j \in Jobs : RowEffect(j)
<1>1. CASE ReclaimLostRunningJobs
  BY <1>1, WaitingRows DEF ReclaimLostRunningJobs, Requeue, Lost, RowEffect, Touched,
     TakenBack, Alike, SameLosses, TypeOK
<1>2. CASE \E n \in Nodes : Crash(n) \/ HealthChanges(n)
  BY <1>2, UnchangedRows DEF Crash, HealthChanges
<1>3. CASE UNCHANGED vars
  BY <1>3, UnchangedRows DEF vars
<1> QED
  BY <1>1, <1>2, <1>3, JobStepRows, WorkerStepRows DEF Next

-----------------------------------------------------------------------------
(* What a step may do to one worker loop.                                  *)
Keeps(l, m) ==
  /\ m \in WorkerState
  /\ m.job = l.job
  /\ m.token = l.token
  /\ m.attempts = l.attempts

SameAttempt(w) == worker[w].pc # "idle" /\ Keeps(worker[w], worker'[w])

Proceeds(w) == SameAttempt(w) /\ worker'[w].pc \in {"run", "done"}

DeadLetters(w) ==
  /\ SameAttempt(w)
  /\ worker'[w].pc = "hooks"
  /\ Owned(row[worker[w].job], worker[w].token)
  /\ row'[worker[w].job].status = "dead_letter"

Claims(w) ==
  /\ worker[w].pc = "idle"
  /\ worker'[w] \in WorkerState
  /\ worker'[w].pc \in {"run", "unhandled"}
  /\ ~worker'[w].lost
  /\ worker'[w].token = nextToken
  /\ worker'[w].job \in Jobs
  /\ worker'[w].attempts = row'[worker'[w].job].attempts
  /\ nextToken' = nextToken + 1

LoopEffect(w) ==
  \/ worker'[w] = worker[w]
  \/ worker'[w] = IdleWorker
  \/ Proceeds(w) \/ DeadLetters(w) \/ Claims(w)

OneClaim == \A v, w \in Workers : Claims(v) /\ Claims(w) => v = w

(* An idle loop is a worker state without job, token or outcome.           *)
LEMMA IdleFacts ==
  /\ IdleWorker \in WorkerState /\ IdleWorker.pc = "idle"
  /\ IdleWorker.token = NoToken /\ ~IdleWorker.lost /\ IdleWorker.job = None
BY DEF IdleWorker, WorkerState, NoToken

(* A step that changes no loop, or only clears some, claims nothing.       *)
LEMMA ClearedLoops ==
  ASSUME \A w \in Workers : worker'[w] \in {worker[w], IdleWorker}
  PROVE  (\A w \in Workers : LoopEffect(w)) /\ OneClaim
BY IdleFacts DEF LoopEffect, OneClaim, Claims

(* A step of loop w leaves the others alone.                               *)
LEMMA OtherLoops ==
  ASSUME NEW w \in Workers, LoopEffect(w),
         \A v \in Workers : v # w => worker'[v] = worker[v]
  PROVE  (\A v \in Workers : LoopEffect(v)) /\ OneClaim
BY DEF LoopEffect, OneClaim, Claims

(* The updates of a loop's local fields keep what it claimed.              *)
LEMMA LoopFields ==
  ASSUME NEW l \in WorkerState
  PROVE  /\ Keeps(l, [l EXCEPT !.lost = TRUE])
         /\ Keeps(l, [l EXCEPT !.window = TRUE])
         /\ \A out \in Outcomes : Keeps(l, [l EXCEPT !.pc = "done", !.out = out])
         /\ Keeps(l, [l EXCEPT !.pc = "hooks"])
BY Zenon DEF WorkerState, Keeps

(* The effect of each step of poll on its loop.                            *)
LEMMA WorkerStepLoops ==
  ASSUME TypeOK, TokenInv, NEW w \in Workers, WorkerStep(w)
  PROVE  (\A v \in Workers : LoopEffect(v)) /\ OneClaim
<1>0. worker[w] \in WorkerState /\ worker \in [Workers -> WorkerState]
  BY DEF TypeOK
<1>1. CASE \/ Leave(w)
           \/ UNCHANGED worker
  BY <1>0, <1>1, ClearedLoops DEF Leave
<1>2. CASE worker' = [worker EXCEPT ![w].lost = TRUE] /\ worker[w].pc = "run"
  <2>1. worker'[w] = [worker[w] EXCEPT !.lost = TRUE]
    BY <1>0, <1>2
  <2>2. worker'[w].pc = worker[w].pc
    BY <1>0, <2>1 DEF WorkerState
  <2>3. Proceeds(w)
    BY <1>0, <1>2, <2>1, <2>2, LoopFields, Zenon DEF Proceeds, SameAttempt
  <2> QED
    BY <1>0, <1>2, <2>3, OtherLoops DEF LoopEffect
<1>3. CASE HandlerReturns(w)
  <2>1. PICK out \in Outcomes :
          worker' = [worker EXCEPT ![w] = [worker[w] EXCEPT !.pc = "done", !.out = out]]
    BY <1>0, <1>3, Zenon DEF HandlerReturns, WorkerState
  <2>2. /\ worker'[w] = [worker[w] EXCEPT !.pc = "done", !.out = out]
        /\ worker'[w].pc = "done" /\ worker[w].pc = "run"
    BY <1>0, <1>3, <2>1, Zenon DEF WorkerState, HandlerReturns
  <2>3. Proceeds(w)
    BY <1>0, <2>2, LoopFields, ZenonT(60) DEF Proceeds, SameAttempt
  <2> QED
    BY <1>0, <2>1, <2>3, OtherLoops DEF LoopEffect
<1>4. CASE worker' = [worker EXCEPT ![w].window = TRUE] /\ worker[w].pc = "done"
  <2>1. worker'[w] = [worker[w] EXCEPT !.window = TRUE]
    BY <1>0, <1>4
  <2>2. worker'[w].pc = worker[w].pc
    BY <1>0, <2>1 DEF WorkerState
  <2>3. Proceeds(w)
    BY <1>0, <1>4, <2>1, <2>2, LoopFields, Zenon DEF Proceeds, SameAttempt
  <2> QED
    BY <1>0, <1>4, <2>3, OtherLoops DEF LoopEffect
<1>5. CASE /\ DeadLetterJob(w) /\ worker' = [worker EXCEPT ![w].pc = "hooks"]
           /\ Owned(row[worker[w].job], worker[w].token)
           /\ row' = [row EXCEPT ![worker[w].job] = DeadLettered(@)]
  <2>1. worker[w].pc = "done" /\ worker[w].job \in Jobs
    BY <1>5 DEF DeadLetterJob, Deciding, TokenInv
  <2>2. row'[worker[w].job].status = "dead_letter"
    BY <1>5, <2>1, EndedRows DEF TypeOK
  <2>3. /\ worker'[w] = [worker[w] EXCEPT !.pc = "hooks"]
        /\ worker'[w].pc = "hooks"
    BY <1>0, <1>5 DEF WorkerState
  <2>4. DeadLetters(w)
    BY <1>0, <1>5, <2>1, <2>2, <2>3, LoopFields, Zenon DEF DeadLetters, SameAttempt
  <2> QED
    BY <1>0, <1>5, <2>4, OtherLoops DEF LoopEffect
<1>6. CASE Poll(w)
  <2>1. CASE UNCHANGED worker
    BY <2>1, <1>1
  <2>2. ASSUME NEW j \in Jobs, NEW pc \in {"run", "unhandled"},
               row' = [row EXCEPT ![j] = Claimed(@, w[1], nextToken)],
               worker' = [worker EXCEPT ![w] = Holding(w, j, pc)]
        PROVE  (\A v \in Workers : LoopEffect(v)) /\ OneClaim
    <3>1. row[j] \in Row /\ w[1] \in Nodes /\ nextToken \in Nat
      BY DEF TypeOK, Workers
    <3>2. row'[j].attempts = row[j].attempts + 1
      BY <2>2, <3>1, ClaimedRow DEF TypeOK
    <3>3. row[j].attempts + 1 \in Nat /\ row[j].window \in BOOLEAN
      BY <3>1 DEF Row
    <3> DEFINE h == Holding(w, j, pc)
               a == row[j].attempts + 1
    <3>4. /\ h.pc = pc /\ h.job = j /\ h.token = nextToken /\ h.attempts = a
          /\ ~h.lost
      BY DEF Holding, IdleWorker
    <3>5. h \in WorkerState
      <4> HIDE DEF a
      <4>1. h = [IdleWorker EXCEPT !.pc = pc, !.job = j, !.token = nextToken,
                   !.attempts = a, !.window = row[j].window]
        BY DEF Holding, a
      <4>2. a \in Nat
        BY <3>3 DEF a
      <4> HIDE DEF h
      <4> QED
        BY <3>1, <3>3, <4>1, <4>2, IdleFacts, Zenon DEF WorkerState
    <3>6. Claims(w)
      BY <1>0, <1>6, <2>2, <3>2, <3>4, <3>5 DEF Claims, Poll
    <3> QED
      BY <1>0, <2>2, <3>6, OtherLoops DEF LoopEffect
  <2> QED
    BY <1>6, <2>1, <2>2, Zenon DEF Poll, Claimable
<1> QED
  BY <1>1, <1>2, <1>3, <1>4, <1>5, <1>6
  DEF WorkerStep, Finish, RenewLease, LeaseTimer, SkipWrite, SucceedJob, FailJob,
      EnsureRetryWindow, DeadLetterJob, RunDeadLetterHooks, RetryJob, Deciding

(* Every step of the queue has one of the named effects on each loop, and  *)
(* at most one loop claims.                                                *)
LEMMA LoopEffects ==
  ASSUME TypeOK, TokenInv, [Next]_vars
  PROVE  (\A w \in Workers : LoopEffect(w)) /\ OneClaim
<1>1. CASE UNCHANGED worker
  BY <1>1, ClearedLoops
<1>2. CASE \E n \in Nodes : Crash(n)
  BY <1>2, ClearedLoops DEF Crash
<1>3. CASE \E j \in Jobs : JobStep(j)
  BY <1>1, <1>3 DEF JobStep, Enqueue, DeleteExpiredCompleted, TerminalizeRunningSessionJobs,
     CancelActiveCodeReviewPreparation, LeaseLapses, RunAtPasses, SessionStatusChanges,
     ReclaimLostRunningSessionJobsForSession, Requeue
<1> QED
  BY <1>1, <1>2, <1>3, WorkerStepLoops, Zenon
  DEF Next, vars, HealthChanges, ReclaimLostRunningJobs, Requeue

-----------------------------------------------------------------------------
(* The variables stay functions on their domains, and those that the       *)
(* effects do not speak of keep their types.                               *)
RestOK ==
  /\ health \in [Nodes -> {"open", "closed", "lost"}]
  /\ ended \subseteq Jobs
  /\ nextToken \in Nat \ {0}
  /\ hooked \in [Jobs -> SUBSET Nat]

(* Every step keeps the domains and types of the functions that TypeOK     *)
(* speaks of.                                                              *)
LEMMA Shapes ==
  ASSUME TypeOK, TokenInv, [Next]_vars
  PROVE  /\ row' = [j \in Jobs |-> row'[j]]
         /\ losses' = [j \in Jobs |-> losses'[j]]
         /\ worker' = [w \in Workers |-> worker'[w]]
         /\ RestOK'
<1> DEFINE Goal == /\ row' = [j \in Jobs |-> row'[j]]
                   /\ losses' = [j \in Jobs |-> losses'[j]]
                   /\ worker' = [w \in Workers |-> worker'[w]]
                   /\ RestOK'
<1>1. ASSUME NEW j \in Jobs, JobStep(j) PROVE Goal
  BY <1>1, QueueAssumption
  DEF JobStep, Enqueue, DeleteExpiredCompleted, TerminalizeRunningSessionJobs,
     CancelActiveCodeReviewPreparation, LeaseLapses, RunAtPasses, SessionStatusChanges,
     ReclaimLostRunningSessionJobsForSession, Requeue, TypeOK, RestOK
<1>2. ASSUME NEW w \in Workers, WorkerStep(w) PROVE Goal
  <2>1. CASE RunDeadLetterHooks(w)
    <3>1. worker[w].token \in Nat
      BY DEF TypeOK, WorkerState
    <3> QED
      BY <2>1, <3>1, Zenon DEF RunDeadLetterHooks, Leave, TypeOK, RestOK
  <2>2. CASE Poll(w)
    <3>1. PICK j \in Jobs :
            /\ row' = [row EXCEPT ![j] = Claimed(@, w[1], nextToken)]
            /\ \/ \E pc \in {"run", "unhandled"} :
                    worker' = [worker EXCEPT ![w] = Holding(w, j, pc)]
               \/ UNCHANGED worker
      BY <2>2, Zenon DEF Poll, Claimable
    <3>2. worker' = [v \in Workers |-> worker'[v]]
      BY <3>1 DEF TypeOK
    <3>3. /\ row' = [k \in Jobs |-> row'[k]]
          /\ losses' = [k \in Jobs |-> losses'[k]]
      BY <2>2, <3>1, Zenon DEF Poll, TypeOK
    <3>4. RestOK'
      BY <2>2 DEF Poll, TypeOK, RestOK
    <3> QED
      BY <3>2, <3>3, <3>4
  <2>3. CASE RenewLease(w) \/ LeaseTimer(w) \/ HandlerReturns(w)
    BY <2>3 DEF RenewLease, LeaseTimer, HandlerReturns, TypeOK, RestOK
  <2>4. CASE SkipWrite(w) \/ SucceedJob(w) \/ FailJob(w) \/ RetryJob(w)
    BY <2>4 DEF SkipWrite, SucceedJob, FailJob, RetryJob, Put, Leave, TypeOK, RestOK
  <2>5. CASE EnsureRetryWindow(w) \/ DeadLetterJob(w)
    BY <2>5 DEF EnsureRetryWindow, DeadLetterJob, Put, Leave, TypeOK, RestOK
  <2> QED
    BY <1>2, <2>1, <2>2, <2>3, <2>4, <2>5 DEF WorkerStep, Finish
<1>3. ASSUME NEW n \in Nodes, Crash(n) \/ HealthChanges(n) PROVE Goal
  BY <1>3 DEF Crash, HealthChanges, TypeOK, RestOK
<1>4. CASE ReclaimLostRunningJobs
  BY <1>4 DEF ReclaimLostRunningJobs, Requeue, TypeOK, RestOK
<1>5. CASE UNCHANGED vars
  BY <1>5 DEF vars, TypeOK, RestOK
<1> QED
  BY <1>1, <1>2, <1>3, <1>4, <1>5 DEF Next

(* TypeOK is kept by every step.                                           *)
LEMMA TypeStep ==
  ASSUME TypeOK, TokenInv, SyncInv, [Next]_vars
  PROVE  TypeOK'
<1>1. \A j \in Jobs : row'[j] \in Row
  BY RowEffects, NewRows DEF RowEffect, Touched, Opened, Purged, Taken, Ended,
     GivenBack, TakenBack, Alike, Waits, Ends
<1>2. \A j \in Jobs : losses'[j] \in Nat
  BY RowEffects DEF RowEffect, Touched, Opened, Purged, Taken, Ended,
     GivenBack, TakenBack, SameLosses, TypeOK
<1>3. \A w \in Workers : worker'[w] \in WorkerState
  BY LoopEffects, IdleFacts DEF LoopEffect, Proceeds, DeadLetters, SameAttempt, Keeps,
     Claims, TypeOK
<1> QED
  BY <1>1, <1>2, <1>3, Shapes DEF RestOK, TypeOK

(* Tokens only grow, so a token that was issued stays below the next one.  *)
LEMMA NextToken ==
  ASSUME TypeOK, [Next]_vars
  PROVE  nextToken' \in {nextToken, nextToken + 1}
BY ZenonT(30) DEF Next, JobStep, WorkerStep, Finish, Enqueue, DeleteExpiredCompleted,
   TerminalizeRunningSessionJobs, CancelActiveCodeReviewPreparation, LeaseLapses,
   RunAtPasses, SessionStatusChanges, ReclaimLostRunningSessionJobsForSession, Requeue,
   Poll, RenewLease, LeaseTimer, HandlerReturns, SkipWrite, SucceedJob, FailJob,
   EnsureRetryWindow, DeadLetterJob, RunDeadLetterHooks, RetryJob, Crash, HealthChanges,
   ReclaimLostRunningJobs, vars

(* Tokens in use were issued, and no two loops hold the same one: kept by  *)
(* every step.                                                             *)
LEMMA TokenStep ==
  ASSUME TypeOK, TokenInv, SyncInv, [Next]_vars
  PROVE  TokenInv'
<1>0. /\ nextToken \in Nat \ {0} /\ nextToken' \in {nextToken, nextToken + 1}
      /\ \A j \in Jobs : row[j].token \in Nat
      /\ \A w \in Workers : worker[w].token \in Nat
  BY NextToken DEF TypeOK, Row, WorkerState
<1>1. ASSUME NEW j \in Jobs
      PROVE  /\ row'[j].token < nextToken'
             /\ row'[j].status = "running" <=> row'[j].token # NoToken
  <2>1. RowEffect(j)
    BY RowEffects
  <2> QED
    BY <1>0, <2>1, NewRows DEF RowEffect, Touched, Opened, Purged, Taken, Ended,
       GivenBack, TakenBack, Alike, Waits, Ends, TokenInv, NoToken, TerminalStatus
<1>2. ASSUME NEW w \in Workers
      PROVE  /\ worker'[w].token < nextToken'
             /\ worker'[w].pc = "idle" => worker'[w].token = NoToken
             /\ worker'[w].pc # "idle" =>
                  worker'[w].token # NoToken /\ worker'[w].job \in Jobs
  <2>1. LoopEffect(w)
    BY LoopEffects
  <2> QED
    BY <1>0, <2>1, IdleFacts DEF LoopEffect, Proceeds, DeadLetters, SameAttempt, Keeps,
       Claims, TokenInv, NoToken
<1>3. ASSUME NEW v \in Workers, NEW w \in Workers,
             worker'[v].token = worker'[w].token, worker'[v].token # NoToken
      PROVE  v = w
  <2>1. LoopEffect(v) /\ LoopEffect(w)
    BY LoopEffects
  <2>2. CASE Claims(v) /\ Claims(w)
    BY <2>2, LoopEffects DEF OneClaim
  <2>3. CASE ~Claims(v) /\ ~Claims(w)
    BY <1>3, <2>1, <2>3, IdleFacts DEF LoopEffect, Proceeds, DeadLetters, SameAttempt,
       Keeps, TokenInv
  <2>4. ASSUME NEW x \in Workers, NEW y \in Workers, Claims(x), ~Claims(y), LoopEffect(y)
        PROVE  worker'[x].token = nextToken /\ worker'[y].token < nextToken
    BY <1>0, <2>4, IdleFacts DEF LoopEffect, Claims, Proceeds, DeadLetters, SameAttempt,
       Keeps, TokenInv, NoToken
  <2> QED
    BY <1>0, <1>3, <2>1, <2>2, <2>3, <2>4
<1> QED
  BY <1>1, <1>2, <1>3 DEF TokenInv

(* A loop whose token still stands in its row works on the attempt it      *)
(* scanned: kept by every step.                                            *)
LEMMA SyncStep ==
  ASSUME TypeOK, TokenInv, SyncInv, [Next]_vars
  PROVE  SyncInv'
<1>0. /\ nextToken \in Nat \ {0}
      /\ \A j \in Jobs : row[j].token \in Nat /\ row[j].attempts \in Nat
      /\ \A w \in Workers : worker[w].token \in Nat /\ worker[w].token < nextToken
  BY DEF TypeOK, Row, WorkerState, TokenInv
<1>1. ASSUME NEW j \in Jobs, row'[j].status = "running"
      PROVE  row'[j].attempts # 0
  BY <1>0, <1>1, RowEffects, NewRows DEF RowEffect, Touched, Opened, Purged, Taken,
     Ended, GivenBack, TakenBack, Alike, Waits, Ends, SyncInv, TerminalStatus
<1>2. ASSUME NEW w \in Workers, worker'[w].pc = "unhandled"
      PROVE  ~worker'[w].lost
  BY <1>2, LoopEffects, IdleFacts DEF LoopEffect, Proceeds, DeadLetters, Claims, SyncInv
<1>3. ASSUME NEW w \in Workers, worker'[w].pc # "idle",
             Owned(row[worker[w].job], worker[w].token)'
      PROVE  worker'[w].attempts = row'[worker'[w].job].attempts
  <2> DEFINE j == worker'[w].job
  <2>1. LoopEffect(w) /\ j \in Jobs /\ worker'[w].token # NoToken
    BY <1>3, LoopEffects, TokenStep DEF TokenInv
  <2>2. row'[j].status = "running" /\ row'[j].token = worker'[w].token
    BY <1>3 DEF Owned
  <2>3. CASE Claims(w)
    BY <2>3 DEF Claims
  <2>4. CASE ~Claims(w)
    <3>1. /\ worker[w].pc # "idle" /\ worker[w].job = j
          /\ worker'[w].token = worker[w].token /\ worker'[w].attempts = worker[w].attempts
      BY <1>3, <2>1, <2>4, IdleFacts DEF LoopEffect, Proceeds, DeadLetters, SameAttempt,
         Keeps
    <3>2. RowEffect(j) /\ row'[j].token < nextToken
      BY <1>0, <2>1, <2>2, <3>1, RowEffects
    <3>3. Alike(row[j], row'[j])
      BY <1>0, <2>2, <3>2, NewRows DEF RowEffect, Touched, Opened, Purged, Taken, Ended,
         GivenBack, TakenBack, Waits, Ends, TerminalStatus
    <3> QED
      BY <2>2, <3>1, <3>3 DEF Alike, SyncInv, Owned
  <2> QED
    BY <2>3, <2>4
<1> QED
  BY <1>1, <1>2, <1>3 DEF SyncInv

(* One step inserts at most one row.                                       *)
LEMMA OneOpened ==
  ASSUME TypeOK, [Next]_vars, NEW i \in Jobs, NEW j \in Jobs,
         row[i].status = "absent", row[j].status = "absent",
         row'[i].status = "pending", row'[j].status = "pending"
  PROVE  i = j
<1>1. ASSUME NEW k \in Jobs, JobStep(k)
      PROVE  i = j
  BY <1>1 DEF JobStep, Enqueue, DeleteExpiredCompleted, TerminalizeRunningSessionJobs,
     CancelActiveCodeReviewPreparation, LeaseLapses, RunAtPasses, SessionStatusChanges,
     ReclaimLostRunningSessionJobsForSession, Requeue, Lost, TypeOK
<1>2. ASSUME NEW w \in Workers, WorkerStep(w)
      PROVE  i = j
  <2>1. \/ UNCHANGED row
        \/ \E k, q : row' = [row EXCEPT ![k] = q]
    <3>1. CASE Poll(w) \/ RenewLease(w)
      BY <3>1 DEF Poll, RenewLease
    <3>2. CASE LeaseTimer(w) \/ HandlerReturns(w) \/ SkipWrite(w) \/ RunDeadLetterHooks(w)
      BY <3>2 DEF LeaseTimer, HandlerReturns, SkipWrite, RunDeadLetterHooks
    <3>3. CASE SucceedJob(w) \/ FailJob(w) \/ RetryJob(w)
      BY <3>3 DEF SucceedJob, FailJob, RetryJob, Put
    <3>4. CASE EnsureRetryWindow(w) \/ DeadLetterJob(w)
      BY <3>4 DEF EnsureRetryWindow, DeadLetterJob, Put
    <3> QED
      BY <1>2, <3>1, <3>2, <3>3, <3>4 DEF WorkerStep, Finish
  <2> QED
    BY <2>1 DEF TypeOK
<1>3. CASE ReclaimLostRunningJobs
  BY <1>3 DEF ReclaimLostRunningJobs, Requeue, Lost
<1>4. CASE UNCHANGED row
  BY <1>4
<1> QED
  BY <1>1, <1>2, <1>3, <1>4 DEF Next, vars, Crash, HealthChanges

(* Two active rows never share a dedupe key: only an insertion makes a row *)
(* active, and it sees every active row of its key.                        *)
LEMMA DedupeStep ==
  ASSUME TypeOK, TokenInv, SyncInv, DedupeHolds, [Next]_vars
  PROVE  DedupeHolds'
<1> SUFFICES ASSUME NEW i \in Jobs, NEW j \in Jobs,
                    DedupeKey[i] = DedupeKey[j], DedupeKey[i] # None,
                    row'[i].status \in ActiveStatus, row'[j].status \in ActiveStatus
             PROVE  i = j
  BY DEF DedupeHolds
<1>1. \A k \in {i, j} : row[k].status \in ActiveStatus \/ Opened(k)
  BY RowEffects, NewRows DEF RowEffect, Touched, Purged, Taken, Ended, GivenBack,
     TakenBack, Alike, Ends, ActiveStatus, TerminalStatus
<1>2. CASE row[i].status \in ActiveStatus /\ row[j].status \in ActiveStatus
  BY <1>2 DEF DedupeHolds
<1>3. ASSUME NEW x \in Jobs, NEW y \in Jobs, Opened(x), row[y].status \in ActiveStatus,
             DedupeKey[x] = DedupeKey[y], DedupeKey[x] # None
      PROVE  FALSE
  BY <1>3 DEF Opened, Duplicates
<1>4. CASE Opened(i) /\ Opened(j)
  BY <1>4, OneOpened DEF Opened, Waits
<1> QED
  BY <1>1, <1>2, <1>3, <1>4

(* The ceiling plus the losses bounds the attempts.                        *)
LEMMA AttemptStep ==
  ASSUME TypeOK, TokenInv, SyncInv, AttemptAccounting, [Next]_vars
  PROVE  AttemptAccounting'
<1> SUFFICES ASSUME NEW j \in Jobs
             PROVE  /\ row'[j].status = "pending" => row'[j].attempts < MaxAttempts + losses'[j]
                    /\ row'[j].attempts <= MaxAttempts + losses'[j]
  BY DEF AttemptAccounting
<1>1. /\ RowEffect(j)
      /\ row[j].attempts \in Nat /\ losses[j] \in Nat /\ MaxAttempts \in Nat \ {0}
      /\ row[j].status = "pending" => row[j].attempts < MaxAttempts + losses[j]
      /\ row[j].attempts <= MaxAttempts + losses[j]
  BY RowEffects, QueueAssumption DEF TypeOK, Row, AttemptAccounting
<1> QED
  BY <1>1, NewRows DEF RowEffect, Touched, Opened, Purged, Taken, Ended, GivenBack,
     TakenBack, Alike, Waits, Ends, SameLosses, TerminalStatus

(* A loop that is going to run the hooks is alone with a dead-lettered row *)
(* whose hooks have not run.                                               *)
HookInv ==
  /\ HooksOnce
  /\ \A w \in Workers : worker[w].pc = "hooks" =>
       row[worker[w].job].status = "dead_letter" /\ hooked[worker[w].job] = {}
  /\ \A v, w \in Workers :
       worker[v].pc = "hooks" /\ worker[w].pc = "hooks" /\ worker[v].job = worker[w].job
         => v = w

(* Only runDeadLetterHooks adds to the history of hooks.                   *)
LEMMA HookedStep ==
  ASSUME TypeOK, [Next]_vars
  PROVE  \/ UNCHANGED hooked
         \/ \E w \in Workers :
              /\ worker[w].pc = "hooks"
              /\ worker'[w] = IdleWorker
              /\ hooked' = [hooked EXCEPT ![worker[w].job] = @ \cup {worker[w].token}]
              /\ UNCHANGED row
BY ZenonT(30) DEF Next, JobStep, WorkerStep, Finish, Enqueue, DeleteExpiredCompleted,
   TerminalizeRunningSessionJobs, CancelActiveCodeReviewPreparation, LeaseLapses,
   RunAtPasses, SessionStatusChanges, ReclaimLostRunningSessionJobsForSession, Requeue,
   Poll, RenewLease, LeaseTimer, HandlerReturns, SkipWrite, SucceedJob, FailJob,
   EnsureRetryWindow, DeadLetterJob, RunDeadLetterHooks, RetryJob, Crash, HealthChanges,
   ReclaimLostRunningJobs, vars, Leave, TypeOK

(* Hooks belong to one dead-lettered attempt: kept by every step.          *)
LEMMA HookStep ==
  ASSUME TypeOK, TokenInv, SyncInv, HookInv, [Next]_vars
  PROVE  HookInv'
<1>1. \A j \in Jobs : row[j].status = "dead_letter" => row'[j].status = "dead_letter"
  BY RowEffects DEF RowEffect, Touched, Opened, Purged, Taken, Ended, GivenBack,
     TakenBack, Alike, ActiveStatus
<1>2. ASSUME NEW w \in Workers, worker'[w].pc = "hooks"
      PROVE  /\ worker[w].pc # "idle" /\ worker[w].job \in Jobs
             /\ worker'[w].job = worker[w].job /\ worker'[w].token = worker[w].token
             /\ row'[worker[w].job].status = "dead_letter"
             /\ worker[w].pc = "hooks" \/ Owned(row[worker[w].job], worker[w].token)
  BY <1>1, <1>2, LoopEffects, IdleFacts DEF LoopEffect, Proceeds, DeadLetters, SameAttempt,
     Keeps, Claims, TokenInv, HookInv
<1>3. \A v, w \in Workers :
        /\ worker'[v].pc = "hooks" /\ worker'[w].pc = "hooks"
        /\ worker'[v].job = worker'[w].job
        => v = w
  <2> SUFFICES ASSUME NEW v \in Workers, NEW w \in Workers,
                      worker'[v].pc = "hooks", worker'[w].pc = "hooks",
                      worker'[v].job = worker'[w].job
               PROVE  v = w
    OBVIOUS
  <2> DEFINE j == worker[v].job
  <2>1. /\ worker[v].pc # "idle" /\ worker[w].pc # "idle"
        /\ worker[w].job = j /\ j \in Jobs
    BY <1>2
  <2>2. worker[v].pc = "hooks" \/ Owned(row[j], worker[v].token)
    BY <1>2
  <2>3. worker[w].pc = "hooks" \/ Owned(row[j], worker[w].token)
    BY <1>2, <2>1
  <2>4. CASE worker[v].pc = "hooks" /\ worker[w].pc = "hooks"
    BY <2>1, <2>4 DEF HookInv
  <2>5. CASE Owned(row[j], worker[v].token) /\ Owned(row[j], worker[w].token)
    BY <2>1, <2>5, Zenon DEF TokenInv, Owned
  <2>6. \A x \in Workers : worker[x].pc = "hooks" => ~ Owned(row[worker[x].job], worker[v].token)
                                                  /\ ~ Owned(row[worker[x].job], worker[w].token)
    BY DEF HookInv, Owned
  <2> HIDE DEF j
  <2> QED
    BY <2>1, <2>2, <2>3, <2>4, <2>5, <2>6 DEF j
<1>4. CASE UNCHANGED hooked
  <2>1. HooksOnce'
    BY <1>1, <1>4 DEF HookInv, HooksOnce
  <2>2. ASSUME NEW w \in Workers, worker'[w].pc = "hooks"
        PROVE  hooked'[worker'[w].job] = {}
    BY <1>2, <1>4, <2>2 DEF HookInv, HooksOnce, Owned, TypeOK
  <2> QED
    BY <1>2, <1>3, <2>1, <2>2 DEF HookInv
<1>5. ASSUME NEW u \in Workers, worker[u].pc = "hooks", worker'[u] = IdleWorker,
             hooked' = [hooked EXCEPT ![worker[u].job] = @ \cup {worker[u].token}],
             UNCHANGED row
      PROVE  HookInv'
  <2>1. /\ worker[u].job \in Jobs
        /\ row[worker[u].job].status = "dead_letter" /\ hooked[worker[u].job] = {}
    BY <1>5 DEF HookInv, TokenInv
  <2>2. /\ hooked'[worker[u].job] = {worker[u].token}
        /\ \A j \in Jobs : j # worker[u].job => hooked'[j] = hooked[j]
    BY <1>5, <2>1 DEF TypeOK
  <2>3. HooksOnce'
    BY <1>5, <2>1, <2>2 DEF HookInv, HooksOnce
  <2>4. ASSUME NEW w \in Workers, worker'[w].pc = "hooks"
        PROVE  hooked'[worker'[w].job] = {}
    <3>1. w # u
      BY <1>5, <2>4, IdleFacts
    <3>2. worker[w].job # worker[u].job
      BY <1>2, <1>5, <2>1, <2>4, <3>1 DEF HookInv, Owned
    <3>3. hooked[worker[w].job] = {}
      BY <1>2, <2>4 DEF HookInv, HooksOnce, Owned, TypeOK
    <3> QED
      BY <1>2, <2>2, <2>4, <3>2, <3>3
  <2> QED
    BY <1>2, <1>3, <2>3, <2>4 DEF HookInv
<1> QED
  BY <1>4, <1>5, HookedStep

-----------------------------------------------------------------------------
QueueInv ==
  TypeOK /\ TokenInv /\ SyncInv /\ DedupeHolds /\ AttemptAccounting /\ HookInv

(* The empty queue satisfies the invariant.                                *)
LEMMA QueueInitInv == Init => QueueInv
<1> SUFFICES ASSUME Init PROVE QueueInv
  OBVIOUS
<1>1. TypeOK
  BY NewRows, IdleFacts DEF Init, TypeOK
<1>2. TokenInv /\ SyncInv
  BY NewRows, IdleFacts DEF Init, TokenInv, SyncInv, NoToken
<1>3. DedupeHolds /\ AttemptAccounting
  BY NewRows, QueueAssumption DEF Init, DedupeHolds, AttemptAccounting, ActiveStatus
<1>4. HookInv
  BY IdleFacts DEF Init, HookInv, HooksOnce
<1> QED
  BY <1>1, <1>2, <1>3, <1>4 DEF QueueInv

(* The inductive invariant of the queue holds in every reachable state,    *)
(* for any jobs, nodes and slots.                                          *)
THEOREM QueueInvariance == Spec => []QueueInv
<1>1. QueueInv /\ [Next]_vars => QueueInv'
  BY TypeStep, TokenStep, SyncStep, DedupeStep, AttemptStep, HookStep DEF QueueInv
<1> QED
  BY <1>1, QueueInitInv, PTL DEF Spec

(* The jobs table, poll's locals and the histories keep their types.       *)
THEOREM QueueTypeCorrect == Spec => []TypeOK
BY QueueInvariance, PTL DEF QueueInv

(* At most one worker loop holds the fencing token of a running job, after *)
(* any number of losses, requeues and claims.                              *)
THEOREM OneOwnerPerJob == Spec => []SingleOwner
<1>1. QueueInv => SingleOwner
  <2> SUFFICES ASSUME QueueInv, NEW j \in Jobs, NEW v \in Workers, NEW w \in Workers,
                      Holds(v, j), Holds(w, j)
               PROVE  v = w
    BY DEF SingleOwner
  <2>1. /\ worker[v].token = row[j].token /\ worker[w].token = row[j].token
        /\ row[j].token # NoToken
    BY DEF Holds, Owned, QueueInv, TokenInv
  <2> QED
    BY <2>1 DEF QueueInv, TokenInv
<1> QED
  BY <1>1, QueueInvariance, PTL

(* The dedupe index keeps its meaning under every transition of the table. *)
THEOREM DedupeIsKept == Spec => []DedupeHolds
BY QueueInvariance, PTL DEF QueueInv

(* Dead-letter hooks run for one attempt of a job, which stays dead.       *)
THEOREM HooksRunOnce == Spec => []HooksOnce
BY QueueInvariance, PTL DEF QueueInv, HookInv

(* A job is claimed beyond max_attempts only as often as it was lost.      *)
THEOREM AttemptsAreAccounted == Spec => []AttemptAccounting
BY QueueInvariance, PTL DEF QueueInv

-----------------------------------------------------------------------------
(* The queue implements the ownership protocol: each step of JobQueue is a   *)
(* step of JobOwnership or leaves its variables unchanged, under the mapping *)
(* of JobQueue.                                                              *)

(* How a step looks through the mapping.                                   *)
SamePhase(j) ==
  PhaseOf(row'[j]) = PhaseOf(row[j]) /\ row'[j].token = row[j].token

SameBelief(w) == Believes(w)' = Believes(w)

RowsApart(j) == \A k \in Jobs : k # j => SamePhase(k)

LoopsApart(w) == \A v \in Workers : v # w => SameBelief(v)

(* The phase of a row and its status determine each other.                 *)
LEMMA PhaseCases ==
  ASSUME NEW r \in Row
  PROVE  /\ r.status = "absent" <=> PhaseOf(r) = "absent"
         /\ r.status = "pending" <=> PhaseOf(r) = "waiting"
         /\ r.status = "running" <=> PhaseOf(r) = "held"
         /\ r.status \in TerminalStatus <=> PhaseOf(r) = "closed"
BY DEF PhaseOf, Row, JobStatus, ActiveStatus, TerminalStatus

(* A step that keeps every phase and every belief is a stutter of the      *)
(* ownership protocol.                                                     *)
LEMMA StutterStep ==
  ASSUME \A j \in Jobs : SamePhase(j), \A w \in Workers : SameBelief(w),
         UNCHANGED nextToken
  PROVE  UNCHANGED Ownership!ownVars
BY DEF Ownership!ownVars, SamePhase, SameBelief

(* A loop that stops believing without touching a row forgets its attempt. *)
LEMMA ForgetStep ==
  ASSUME \A j \in Jobs : SamePhase(j), UNCHANGED nextToken,
         \A w \in Workers : SameBelief(w) \/ Believes(w)' = None
  PROVE  Ownership!Forget
<1> DEFINE A == {w \in Workers : Believes(w)' = None}
<1>1. [w \in Workers |-> Believes(w)'] =
        [w \in Workers |-> IF w \in A THEN None ELSE [v \in Workers |-> Believes(v)][w]]
  BY DEF SameBelief
<1>2. A \in SUBSET Workers
  OBVIOUS
<1> HIDE DEF A
<1> QED
  BY <1>1, <1>2 DEF Ownership!Forget, SamePhase

(* A loop that stops believing while its own row leaves the held phase     *)
(* commits its attempt.                                                    *)
LEMMA CommitStep ==
  ASSUME NEW w \in Workers, NEW j \in Jobs,
         row[j].token # 0, Believes(w) = <<j, row[j].token>>, Believes(w)' = None,
         LoopsApart(w), RowsApart(j), UNCHANGED nextToken,
         row'[j].token = 0, PhaseOf(row'[j]) \in {"waiting", "closed"}
  PROVE  Ownership!Commit(w)
<1>1. [v \in Workers |-> Believes(v)'] =
        [[v \in Workers |-> Believes(v)] EXCEPT ![w] = None]
  BY Zenon DEF LoopsApart, SameBelief
<1>2. [k \in Jobs |-> PhaseOf(row'[k])] =
        [[k \in Jobs |-> PhaseOf(row[k])] EXCEPT ![j] = PhaseOf(row'[j])]
  BY Zenon DEF RowsApart, SamePhase
<1>3. [k \in Jobs |-> row'[k].token] = [[k \in Jobs |-> row[k].token] EXCEPT ![j] = 0]
  BY Zenon DEF RowsApart, SamePhase
<1> QED
  BY <1>1, <1>2, <1>3, Zenon DEF Ownership!Commit

(* The insertion of a row (enqueueOn) adds a job.                          *)
LEMMA AddStep ==
  ASSUME NEW j \in Jobs, RowsApart(j), \A w \in Workers : SameBelief(w),
         UNCHANGED nextToken, PhaseOf(row[j]) = "absent", PhaseOf(row'[j]) = "waiting",
         row'[j].token = row[j].token
  PROVE  Ownership!Add(j)
<1>1. [k \in Jobs |-> PhaseOf(row'[k])] =
        [[k \in Jobs |-> PhaseOf(row[k])] EXCEPT ![j] = "waiting"]
  BY Zenon DEF RowsApart, SamePhase
<1>2. [k \in Jobs |-> row'[k].token] = [k \in Jobs |-> row[k].token]
  BY DEF RowsApart, SamePhase
<1> QED
  BY <1>1, <1>2 DEF Ownership!Add, SameBelief

(* The deletion of a completed row (DeleteExpiredCompleted) purges a job.  *)
LEMMA PurgeStep ==
  ASSUME NEW j \in Jobs, RowsApart(j), \A w \in Workers : SameBelief(w),
         UNCHANGED nextToken, PhaseOf(row[j]) = "closed", PhaseOf(row'[j]) = "absent",
         row'[j].token = row[j].token
  PROVE  Ownership!Purge(j)
<1>1. [k \in Jobs |-> PhaseOf(row'[k])] =
        [[k \in Jobs |-> PhaseOf(row[k])] EXCEPT ![j] = "absent"]
  BY Zenon DEF RowsApart, SamePhase
<1>2. [k \in Jobs |-> row'[k].token] = [k \in Jobs |-> row[k].token]
  BY DEF RowsApart, SamePhase
<1> QED
  BY <1>1, <1>2 DEF Ownership!Purge, SameBelief

(* Closing a waiting row withdraws the job.                                *)
LEMMA WithdrawStep ==
  ASSUME NEW j \in Jobs, RowsApart(j), \A w \in Workers : SameBelief(w),
         UNCHANGED nextToken, PhaseOf(row[j]) \in {"waiting", "held"},
         PhaseOf(row'[j]) = "closed", row'[j].token = 0
  PROVE  Ownership!Withdraw(j)
<1>1. [k \in Jobs |-> PhaseOf(row'[k])] =
        [[k \in Jobs |-> PhaseOf(row[k])] EXCEPT ![j] = "closed"]
  BY Zenon DEF RowsApart, SamePhase
<1>2. [k \in Jobs |-> row'[k].token] = [[k \in Jobs |-> row[k].token] EXCEPT ![j] = 0]
  BY Zenon DEF RowsApart, SamePhase
<1> QED
  BY <1>1, <1>2 DEF Ownership!Withdraw, SameBelief

(* Returning lost running rows to the queue (the recovery) revokes their   *)
(* attempts.                                                               *)
LEMMA RevokeStep ==
  ASSUME TypeOK, NEW S \in SUBSET Lost, Requeue(S)
  PROVE  Ownership!Revoke
<1>1. S \in SUBSET {j \in Jobs : [k \in Jobs |-> PhaseOf(row[k])][j] = "held"}
  BY PhaseCases DEF Lost, TypeOK
<1>2. /\ \A j \in S : PhaseOf(row'[j]) = "waiting" /\ row'[j].token = 0
      /\ \A j \in Jobs \ S : row'[j] = row[j]
  BY WaitingRows, PhaseCases DEF Requeue, TypeOK, Waits, NoToken, Lost
<1>3. [j \in Jobs |-> PhaseOf(row'[j])] =
        [j \in Jobs |-> IF j \in S THEN "waiting"
                        ELSE [k \in Jobs |-> PhaseOf(row[k])][j]]
  BY <1>2 DEF Lost
<1>4. [j \in Jobs |-> row'[j].token] =
        [j \in Jobs |-> IF j \in S THEN 0 ELSE [k \in Jobs |-> row[k].token][j]]
  BY <1>2 DEF Lost
<1>5. UNCHANGED <<worker, nextToken>>
  BY DEF Requeue
<1>6. [w \in Workers |-> Believes(w)'] = [w \in Workers |-> Believes(w)]
  BY <1>5 DEF Believes
<1> QED
  BY <1>1, <1>3, <1>4, <1>5, <1>6 DEF Ownership!Revoke

(* A claim takes a waiting job under a fresh attempt.                      *)
LEMMA TakeStep ==
  ASSUME NEW j \in Jobs, RowsApart(j), nextToken \in Nat, nextToken' = nextToken + 1,
         PhaseOf(row[j]) = "waiting", PhaseOf(row'[j]) = "held",
         row'[j].token = nextToken,
         \/ \A w \in Workers : SameBelief(w)
         \/ \E w \in Workers : /\ Believes(w) = None
                               /\ Believes(w)' = <<j, nextToken>>
                               /\ LoopsApart(w)
  PROVE  Ownership!Take(j)
<1>1. [k \in Jobs |-> PhaseOf(row'[k])] =
        [[k \in Jobs |-> PhaseOf(row[k])] EXCEPT ![j] = "held"]
  BY Zenon DEF RowsApart, SamePhase
<1>2. [k \in Jobs |-> row'[k].token] =
        [[k \in Jobs |-> row[k].token] EXCEPT ![j] = nextToken]
  BY Zenon DEF RowsApart, SamePhase
<1>3. nextToken - 1 + 1 = nextToken /\ nextToken' - 1 = nextToken
  OBVIOUS
<1>4. CASE \A w \in Workers : SameBelief(w)
  <2>1. [w \in Workers |-> Believes(w)'] = [w \in Workers |-> Believes(w)]
    BY <1>4 DEF SameBelief
  <2> QED
    BY <1>1, <1>2, <1>3, <2>1 DEF Ownership!Take
<1>5. ASSUME NEW w \in Workers, Believes(w) = None, Believes(w)' = <<j, nextToken>>,
             LoopsApart(w)
      PROVE  Ownership!Take(j)
  <2>1. [v \in Workers |-> Believes(v)'] =
          [[v \in Workers |-> Believes(v)] EXCEPT ![w] = <<j, nextToken>>]
    BY <1>5, Zenon DEF LoopsApart, SameBelief
  <2>2. [v \in Workers |-> Believes(v)][w] = None
    BY <1>5
  <2> QED
    BY <1>1, <1>2, <1>3, <2>1, <2>2, Zenon DEF Ownership!Take
<1> QED
  BY <1>4, <1>5

-----------------------------------------------------------------------------
Implements == Ownership!OwnNext \/ UNCHANGED Ownership!ownVars

(* When no loop changes, no belief changes.                                *)
LEMMA StillLoops ==
  ASSUME UNCHANGED worker
  PROVE  \A w \in Workers : SameBelief(w)
BY DEF SameBelief, Believes

(* Rows that are alike are in the same phase.                              *)
LEMMA AlikePhase ==
  ASSUME NEW j \in Jobs, Alike(row[j], row'[j])
  PROVE  SamePhase(j)
BY DEF Alike, SamePhase, PhaseOf

(* A loop that goes idle believes nothing.                                 *)
LEMMA LeavesLoop ==
  ASSUME TypeOK, NEW w \in Workers, Leave(w)
  PROVE  Believes(w)' = None /\ LoopsApart(w)
BY IdleFacts DEF Leave, Believes, LoopsApart, SameBelief, TypeOK

(* A believing loop stops believing while it writes its row, fenced by its *)
(* token: when the row changes, the loop's attempt held it.                *)
LEMMA FencedWrite ==
  ASSUME QueueInv, NEW w \in Workers, NEW q, Put(w, q), UNCHANGED nextToken,
         worker[w].pc \in {"unhandled", "run", "done"}, ~worker[w].lost,
         Believes(w)' = None, LoopsApart(w),
         Owned(row[worker[w].job], worker[w].token) =>
           Ends(row[worker[w].job], q) \/ Waits(q) \/ Alike(row[worker[w].job], q)
  PROVE  Implements
<1> DEFINE j == worker[w].job
<1>1. j \in Jobs /\ row \in [Jobs -> Row]
  BY DEF QueueInv, TokenInv, TypeOK
<1>2. Believes(w) = <<j, worker[w].token>>
  BY DEF Believes
<1>3. \A v \in Workers : SameBelief(v) \/ Believes(v)' = None
  BY DEF LoopsApart
<1>4. CASE UNCHANGED row
  <2>1. \A k \in Jobs : SamePhase(k)
    BY <1>4 DEF SamePhase
  <2> QED
    BY <1>3, <2>1, ForgetStep DEF Implements, Ownership!OwnNext
<1>5. CASE Owned(row[j], worker[w].token) /\ row' = [row EXCEPT ![j] = q]
  <2>1. row'[j] = q /\ RowsApart(j)
    BY <1>1, <1>5 DEF RowsApart, SamePhase
  <2>2. row[j].token = worker[w].token /\ row[j].token # 0
    BY <1>1, <1>5 DEF Owned, QueueInv, TokenInv, NoToken
  <2>3. CASE Ends(row[j], q) \/ Waits(q)
    <3>1. q.token = 0 /\ PhaseOf(q) \in {"waiting", "closed"}
      BY <2>3, PhaseCases DEF Ends, Waits, NoToken
    <3> QED
      BY <1>1, <1>2, <2>1, <2>2, <3>1, CommitStep DEF Implements, Ownership!OwnNext
  <2>4. CASE Alike(row[j], q)
    <3>1. \A k \in Jobs : SamePhase(k)
      BY <2>1, <2>4, AlikePhase DEF RowsApart
    <3> QED
      BY <1>3, <3>1, ForgetStep DEF Implements, Ownership!OwnNext
  <2> QED
    BY <1>5, <2>3, <2>4
<1> QED
  BY <1>4, <1>5 DEF Put

(* Every statement that works on one row without a loop implements the     *)
(* protocol.                                                               *)
LEMMA JobStepImplements ==
  ASSUME QueueInv, NEW j \in Jobs, JobStep(j)
  PROVE  Implements
<1> USE DEF Implements
<1>0. TypeOK /\ row[j] \in Row /\ row \in [Jobs -> Row]
  BY DEF QueueInv, TypeOK
<1>1. row[j].status # "running" => row[j].token = 0
  BY DEF QueueInv, TokenInv, NoToken
<1>2. CASE ReclaimLostRunningSessionJobsForSession(j)
  BY <1>0, <1>2, RevokeStep DEF ReclaimLostRunningSessionJobsForSession, Ownership!OwnNext
<1>3. CASE ~ReclaimLostRunningSessionJobsForSession(j)
  <2>1. /\ UNCHANGED <<worker, nextToken>>
        /\ \A k \in Jobs : k # j => row'[k] = row[k]
    BY <1>0, <1>3 DEF JobStep, Enqueue, DeleteExpiredCompleted,
       TerminalizeRunningSessionJobs, CancelActiveCodeReviewPreparation, LeaseLapses,
       RunAtPasses, SessionStatusChanges
  <2>2. RowsApart(j) /\ \A w \in Workers : SameBelief(w)
    BY <2>1, StillLoops DEF RowsApart, SamePhase
  <2>3. CASE Enqueue(j)
    <3>1. row[j].status = "absent" /\ Waits(row'[j])
      BY <1>0, <2>3, NewRows DEF Enqueue
    <3> QED
      BY <1>0, <1>1, <2>1, <2>2, <3>1, PhaseCases, AddStep
      DEF Waits, NoToken, Ownership!OwnNext
  <2>4. CASE DeleteExpiredCompleted(j)
    <3>1. row'[j] = NoRow /\ row[j].status \in TerminalStatus
      BY <1>0, <2>4 DEF DeleteExpiredCompleted, TerminalStatus
    <3> QED
      BY <1>0, <1>1, <2>1, <2>2, <3>1, NewRows, PhaseCases, PurgeStep
      DEF NoToken, TerminalStatus, Ownership!OwnNext
  <2>5. CASE TerminalizeRunningSessionJobs(j) \/ CancelActiveCodeReviewPreparation(j)
    <3>1. row[j].status \in ActiveStatus /\ Ends(row[j], row'[j])
      BY <1>0, <2>5, EndedRows
      DEF TerminalizeRunningSessionJobs, CancelActiveCodeReviewPreparation, ActiveStatus
    <3> QED
      BY <1>0, <2>1, <2>2, <3>1, PhaseCases, WithdrawStep
      DEF Ends, NoToken, ActiveStatus, Ownership!OwnNext
  <2>6. CASE LeaseLapses(j) \/ RunAtPasses(j) \/ SessionStatusChanges(j)
    <3>1. Alike(row[j], row'[j])
      BY <1>0, <2>6, TouchedRows, ZenonT(60) DEF LeaseLapses, RunAtPasses, SessionStatusChanges, Alike
    <3> QED
      BY <2>1, <2>2, <3>1, AlikePhase, StutterStep DEF RowsApart
  <2> QED
    BY <1>3, <2>3, <2>4, <2>5, <2>6 DEF JobStep
<1> QED
  BY <1>2, <1>3

(* Every step of a worker loop (poll) implements the protocol.             *)
LEMMA WorkerStepImplements ==
  ASSUME QueueInv, NEW w \in Workers, WorkerStep(w)
  PROVE  Implements
<1> DEFINE j == worker[w].job
<1>0. /\ TypeOK /\ row \in [Jobs -> Row] /\ worker \in [Workers -> WorkerState]
      /\ worker[w] \in WorkerState /\ w[1] \in Nodes /\ nextToken \in Nat
      /\ worker[w].pc # "idle" => j \in Jobs
  BY DEF QueueInv, TypeOK, TokenInv, Workers
<1>1. UNCHANGED row => \A k \in Jobs : SamePhase(k)
  BY DEF SamePhase
<1>2. CASE Poll(w)
  <2>1. PICK i \in Jobs :
          /\ row[i].status = "pending"
          /\ row' = [row EXCEPT ![i] = Claimed(@, w[1], nextToken)]
          /\ \/ \E pc \in {"run", "unhandled"} :
                  worker' = [worker EXCEPT ![w] = Holding(w, i, pc)]
             \/ UNCHANGED worker
    BY <1>2, Zenon DEF Poll, Claimable
  <2>2. /\ RowsApart(i) /\ row'[i].token = nextToken
        /\ PhaseOf(row[i]) = "waiting" /\ PhaseOf(row'[i]) = "held"
    BY <1>0, <2>1, ClaimedRow, PhaseCases DEF RowsApart, SamePhase
  <2>3. nextToken' = nextToken + 1
    BY <1>2 DEF Poll
  <2>4. CASE UNCHANGED worker
    BY <1>0, <2>2, <2>3, <2>4, StillLoops, TakeStep DEF Implements, Ownership!OwnNext
  <2>5. ASSUME NEW pc \in {"run", "unhandled"},
               worker' = [worker EXCEPT ![w] = Holding(w, i, pc)]
        PROVE  Implements
    <3>1. /\ Holding(w, i, pc).pc = pc /\ Holding(w, i, pc).job = i
          /\ Holding(w, i, pc).token = nextToken /\ ~Holding(w, i, pc).lost
      BY DEF Holding, IdleWorker
    <3>2. Believes(w)' = <<i, nextToken>> /\ LoopsApart(w)
      BY <1>0, <2>5, <3>1 DEF Believes, LoopsApart, SameBelief
    <3>3. Believes(w) = None
      BY <1>2 DEF Poll, Believes
    <3> QED
      BY <1>0, <2>2, <2>3, <3>2, <3>3, TakeStep DEF Implements, Ownership!OwnNext
  <2> QED
    BY <2>1, <2>4, <2>5
<1>3. ASSUME worker' = [worker EXCEPT ![w].lost = TRUE]
      PROVE  Believes(w)' = None /\ LoopsApart(w)
  <2>1. worker'[w].lost
    BY <1>0, <1>3 DEF WorkerState
  <2> QED
    BY <1>0, <1>3, <2>1 DEF Believes, LoopsApart, SameBelief
<1>4. CASE RenewLease(w)
  <2>1. j \in Jobs /\ worker[w].pc = "run" /\ ~worker[w].lost /\ UNCHANGED nextToken
    BY <1>0, <1>4 DEF RenewLease
  <2>2. CASE UNCHANGED worker /\ row' = [row EXCEPT ![j] = Renewed(@)]
    <3>1. Alike(row[j], row'[j]) /\ RowsApart(j)
      BY <1>0, <2>1, <2>2, TouchedRows, Zenon DEF RowsApart, SamePhase
    <3> QED
      BY <2>1, <2>2, <3>1, AlikePhase, StillLoops, StutterStep DEF RowsApart, Implements
  <2>3. CASE /\ UNCHANGED worker /\ row' = [row EXCEPT ![j] = Failed(@)]
             /\ Owned(row[j], worker[w].token)
    <3>1. Ends(row[j], row'[j]) /\ RowsApart(j) /\ row[j].status = "running"
      BY <1>0, <2>1, <2>3, EndedRows DEF RowsApart, SamePhase, Owned
    <3> QED
      BY <1>0, <2>1, <2>3, <3>1, PhaseCases, StillLoops, WithdrawStep
      DEF Ends, NoToken, Implements, Ownership!OwnNext
  <2>4. CASE /\ worker' = [worker EXCEPT ![w].lost = TRUE]
             /\ row' = [row EXCEPT ![j] = Failed(@)]
             /\ Owned(row[j], worker[w].token)
    <3>1. Put(w, Failed(row[j]))
      BY <2>4 DEF Put
    <3> QED
      BY <1>0, <1>3, <2>1, <2>4, <3>1, EndedRows, FencedWrite
  <2>5. CASE worker' = [worker EXCEPT ![w].lost = TRUE] /\ UNCHANGED row
    BY <1>1, <1>3, <2>1, <2>5, ForgetStep DEF LoopsApart, Implements, Ownership!OwnNext
  <2> QED
    BY <1>4, <2>2, <2>3, <2>4, <2>5 DEF RenewLease
<1>5. CASE LeaseTimer(w)
  BY <1>1, <1>3, <1>5, ForgetStep DEF LeaseTimer, LoopsApart, Implements, Ownership!OwnNext
<1>6. CASE HandlerReturns(w)
  <2>1. PICK out \in Outcomes :
          worker' = [worker EXCEPT ![w] = [worker[w] EXCEPT !.pc = "done", !.out = out]]
    BY <1>0, <1>6, Zenon DEF HandlerReturns, WorkerState
  <2>2. /\ worker'[w].pc = "done" /\ worker'[w].lost = worker[w].lost
        /\ worker'[w].job = j /\ worker'[w].token = worker[w].token
    BY <1>0, <2>1 DEF WorkerState
  <2>3. \A v \in Workers : SameBelief(v)
    BY <1>0, <1>6, <2>1, <2>2 DEF SameBelief, Believes, HandlerReturns
  <2> QED
    BY <1>1, <1>6, <2>3, StutterStep DEF HandlerReturns, Implements
<1>7. CASE SkipWrite(w) \/ RunDeadLetterHooks(w)
  <2>1. \A v \in Workers : SameBelief(v)
    BY <1>0, <1>7, LeavesLoop, Zenon
    DEF SkipWrite, RunDeadLetterHooks, LoopsApart, SameBelief, Believes
  <2> QED
    BY <1>1, <1>7, <2>1, StutterStep DEF SkipWrite, RunDeadLetterHooks, Implements
<1>8. CASE SucceedJob(w)
  BY <1>0, <1>8, EndedRows, LeavesLoop, FencedWrite DEF SucceedJob, Deciding
<1>9. CASE FailJob(w)
  <2>1. ~worker[w].lost
    BY <1>9 DEF FailJob, QueueInv, SyncInv
  <2> QED
    BY <1>0, <1>9, <2>1, EndedRows, LeavesLoop, FencedWrite DEF FailJob
<1>10. CASE RetryJob(w)
  <2>1. PICK q : /\ Put(w, q) /\ UNCHANGED nextToken /\ Leave(w) /\ Deciding(w)
                 /\ q = Retried(row[j]) \/ q \in RetryRows(w, row[j])
    BY <1>10 DEF RetryJob
  <2>2. Owned(row[j], worker[w].token) => Waits(q)
    BY <1>0, <2>1, WaitingRows, RetryRow DEF Deciding, Owned, QueueInv, SyncInv
  <2> QED
    BY <1>0, <2>1, <2>2, LeavesLoop, FencedWrite DEF Deciding
<1>11. CASE EnsureRetryWindow(w)
  <2>1. j \in Jobs /\ Deciding(w) /\ UNCHANGED nextToken
    BY <1>0, <1>11 DEF EnsureRetryWindow, Deciding
  <2>2. CASE Leave(w)
    <3>1. Put(w, WindowStarted(row[j]))
      BY <1>11 DEF EnsureRetryWindow, Put
    <3> QED
      BY <1>0, <2>1, <2>2, <3>1, TouchedRows, LeavesLoop, FencedWrite, Zenon DEF Deciding
  <2>3. CASE /\ row' = [row EXCEPT ![j] = WindowStarted(@)]
             /\ worker' = [worker EXCEPT ![w].window = TRUE]
    <3>1. Alike(row[j], row'[j]) /\ RowsApart(j)
      BY <1>0, <2>1, <2>3, TouchedRows, Zenon DEF RowsApart, SamePhase
    <3>2. /\ worker'[w].pc = worker[w].pc /\ worker'[w].lost = worker[w].lost
          /\ worker'[w].job = j /\ worker'[w].token = worker[w].token
      BY <1>0, <2>3 DEF WorkerState
    <3>3. \A v \in Workers : SameBelief(v)
      BY <1>0, <2>3, <3>2 DEF SameBelief, Believes
    <3> QED
      BY <2>1, <3>1, <3>3, AlikePhase, StutterStep DEF RowsApart, Implements
  <2> QED
    BY <1>11, <2>2, <2>3 DEF EnsureRetryWindow
<1>12. CASE DeadLetterJob(w)
  <2>1. /\ j \in Jobs /\ Deciding(w) /\ UNCHANGED nextToken
        /\ Put(w, DeadLettered(row[j]))
        /\ Leave(w) \/ worker' = [worker EXCEPT ![w].pc = "hooks"]
    BY <1>0, <1>12 DEF DeadLetterJob, Deciding, Put
  <2>2. Believes(w)' = None /\ LoopsApart(w)
    <3>1. CASE worker' = [worker EXCEPT ![w].pc = "hooks"]
      <4>1. worker'[w].pc = "hooks"
        BY <1>0, <3>1 DEF WorkerState
      <4> QED
        BY <1>0, <3>1, <4>1 DEF Believes, LoopsApart, SameBelief
    <3> QED
      BY <1>0, <2>1, <3>1, LeavesLoop
  <2> QED
    BY <1>0, <2>1, <2>2, EndedRows, FencedWrite DEF Deciding
<1> QED
  BY <1>2, <1>4, <1>5, <1>6, <1>7, <1>8, <1>9, <1>10, <1>11, <1>12 DEF WorkerStep, Finish

(* Every step of the queue implements the protocol, crashes and recovery   *)
(* scans included.                                                         *)
LEMMA NextImplements ==
  ASSUME QueueInv, [Next]_vars
  PROVE  Implements
<1>0. TypeOK
  BY DEF QueueInv
<1>1. CASE ReclaimLostRunningJobs
  BY <1>0, <1>1, RevokeStep DEF ReclaimLostRunningJobs, Implements, Ownership!OwnNext
<1>2. ASSUME NEW n \in Nodes, Crash(n)
      PROVE  Implements
  <2>1. \A j \in Jobs : SamePhase(j)
    BY <1>2 DEF Crash, SamePhase
  <2>2. \A w \in Workers : SameBelief(w) \/ Believes(w)' = None
    BY <1>2, IdleFacts DEF Crash, SameBelief, Believes
  <2> QED
    BY <1>2, <2>1, <2>2, ForgetStep DEF Crash, Implements, Ownership!OwnNext
<1>3. CASE UNCHANGED <<row, worker, nextToken>>
  BY <1>3, StillLoops, StutterStep DEF SamePhase, Implements
<1> QED
  BY <1>1, <1>2, <1>3, JobStepImplements, WorkerStepImplements
  DEF Next, HealthChanges, vars

(* The queue implements the ownership protocol: an attempt is never issued *)
(* twice, and a loop that takes itself for the owner changes the job only  *)
(* while its attempt holds it.                                             *)
THEOREM QueueImplementsOwnership == Spec => ImplementsOwnership
<1>1. Init => Ownership!OwnInit
  <2> SUFFICES ASSUME Init PROVE Ownership!OwnInit
    OBVIOUS
  <2>1. /\ \A j \in Jobs : PhaseOf(row[j]) = "absent" /\ row[j].token = 0
        /\ \A w \in Workers : Believes(w) = None
    BY NewRows, IdleFacts DEF Init, PhaseOf, Believes, NoToken
  <2> QED
    BY <2>1 DEF Ownership!OwnInit, Init
<1>2. QueueInv /\ [Next]_vars => [Ownership!OwnNext]_(Ownership!ownVars)
  BY NextImplements DEF Implements
<1> QED
  BY <1>1, <1>2, QueueInvariance, PTL DEF Spec, ImplementsOwnership, Ownership!OwnSpec

=============================================================================
