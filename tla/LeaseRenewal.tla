---------------------------- MODULE LeaseRenewal ----------------------------
(***************************************************************************)
(* The timed side of job ownership: Worker.renewLeaseLoop of               *)
(* internal/worker/worker.go beside the handler of one claimed job, the    *)
(* job's lease in the database (JobStore.RenewLease) and the recovery scan *)
(* that takes a job whose lease has run out.                               *)
(*                                                                         *)
(* One clock, as the loop's comment demands synchronised clocks.  The loop *)
(* reacts to a timer or a tick before the clock moves on; statements may   *)
(* be executed late, after their client has given up, or never.            *)
(***************************************************************************)
EXTENDS Naturals

(* Lease, Interval and Timeout are leaseDuration, renewInterval and        *)
(* renewTimeout.  StartDelay bounds the time from the claim to the start   *)
(* of the loop, CancelDelay the time by which an attempt outlives its      *)
(* deadline, MaxTime the clock.                                            *)
CONSTANTS Lease, Interval, Timeout, StartDelay, CancelDelay, MaxTime

ASSUME RenewalAssumption ==
  /\ {Lease, Interval, Timeout} \subseteq Nat \ {0}
  /\ {StartDelay, CancelDelay, MaxTime} \subseteq Nat
  /\ StartDelay <= Lease

(* now is the clock; owner and expires are the job row; handler and loop   *)
(* the two goroutines; expiry, timer, tickAt and ticked the loop's lease,  *)
(* timer and ticker; deadline, stmt and answer the attempt under way;      *)
(* straggler an earlier statement the server may still execute; fails      *)
(* counts the attempts that failed since the last confirmed renewal.       *)
VARIABLES now, owner, expires, handler, loop, expiry, timer, tickAt, ticked,
          deadline, stmt, answer, straggler, fails

job == <<owner, expires>>
attempt == <<deadline, stmt, answer>>
local == <<expiry, timer, fails>>
ticker == <<tickAt, ticked>>
renewVars == <<now, job, handler, loop, local, ticker, attempt, straggler>>

RenewInit ==
  /\ now \in 0..StartDelay
  /\ owner = "worker"
  /\ expires = Lease
  /\ handler = "running"
  /\ loop = "select"
  /\ expiry = Lease
  /\ timer = Lease
  /\ tickAt = now + Interval
  /\ ticked = FALSE
  /\ deadline = 0
  /\ stmt = "none"
  /\ answer = 0
  /\ straggler = FALSE
  /\ fails = 0

-----------------------------------------------------------------------------
TimerDue_BetweenAttempts == loop = "select" /\ now >= timer

(* The expiry timer is watched between attempts and during them.           *)
TimerDue == loop \in {"select", "attempt"} /\ now >= timer

AttemptOverdue == loop = "attempt" /\ now >= deadline + CancelDelay

(* The clock moves when the loop has nothing to react to; the ticker keeps *)
(* one tick in its channel and drops the others.                           *)
Tick ==
  /\ now < MaxTime
  /\ ~TimerDue
  /\ ~AttemptOverdue
  /\ ~(loop = "select" /\ ticked)
  /\ now' = now + 1
  /\ IF loop # "ended" /\ now' >= tickAt
     THEN ticked' = TRUE /\ tickAt' = tickAt + Interval
     ELSE UNCHANGED ticker
  /\ UNCHANGED <<job, handler, loop, local, attempt, straggler>>

EndAttempt == stmt' = "none" /\ deadline' = 0 /\ answer' = 0

LoseOwnership(next) == handler' = "fenced" /\ loop' = next

TimerFires ==
  /\ TimerDue
  /\ LoseOwnership(IF loop = "attempt" THEN "joining" ELSE "ended")
  /\ fails' = IF loop = "attempt" THEN fails + 1 ELSE fails
  /\ UNCHANGED <<now, job, expiry, timer, ticker, attempt, straggler>>

(* A tick: give up at the expiry, else send RenewLease with a deadline no  *)
(* later than the lease.                                                   *)
TickerFires ==
  /\ loop = "select"
  /\ ticked
  /\ ticked' = FALSE
  /\ IF now >= expiry
     THEN LoseOwnership("ended") /\ UNCHANGED attempt
     ELSE /\ loop' = "attempt"
          /\ deadline' = IF expiry < now + Timeout THEN expiry ELSE now + Timeout
          /\ stmt' = "sent"
          /\ UNCHANGED <<handler, answer>>
  /\ UNCHANGED <<now, job, local, tickAt, straggler>>

(* RenewLease at the server: a row that is still the worker's is extended. *)
ServerRenews ==
  /\ stmt = "sent"
  /\ IF owner = "worker"
     THEN stmt' = "renewed" /\ expires' = now + Lease /\ answer' = now + Lease
     ELSE stmt' = "refused" /\ UNCHANGED <<expires, answer>>
  /\ UNCHANGED <<now, owner, handler, loop, local, ticker, deadline, straggler>>

StragglerEnds ==
  /\ straggler
  /\ straggler' = FALSE
  /\ expires' \in {expires} \cup (IF owner = "worker" THEN {now + Lease} ELSE {})
  /\ UNCHANGED <<now, owner, handler, loop, local, ticker, attempt>>

(* What the loop does when an attempt ends, confirmed or not.  An answer   *)
(* that arrives at the deadline or later counts as a failed attempt.       *)
Failed ==
  /\ fails' = fails + 1
  /\ straggler' = (straggler \/ stmt = "sent")
  /\ IF now >= expiry THEN LoseOwnership("ended") ELSE loop' = "select" /\ UNCHANGED handler
  /\ UNCHANGED <<expiry, timer>>

AttemptFails ==
  /\ loop = "attempt"
  /\ Failed
  /\ EndAttempt
  /\ UNCHANGED <<now, job, ticker>>

Confirmed_TimerKept ==
  /\ expiry' = answer
  /\ fails' = 0
  /\ loop' = "select"
  /\ UNCHANGED <<handler, timer, straggler>>

Confirmed ==
  /\ expiry' = answer
  /\ timer' = answer
  /\ fails' = 0
  /\ loop' = "select"
  /\ UNCHANGED <<handler, straggler>>

AnswerArrives ==
  /\ loop = "attempt"
  /\ stmt \in {"renewed", "refused"}
  /\ EndAttempt
  /\ \/ now >= deadline /\ Failed
     \/ now < deadline /\ stmt = "renewed" /\ Confirmed
     \/ /\ now < deadline
        /\ stmt = "refused"
        /\ LoseOwnership("ended")
        /\ UNCHANGED <<local, straggler>>
  /\ UNCHANGED <<now, job, ticker>>

(* The fenced loop waits for its cancelled statement before it returns.    *)
Join ==
  /\ loop = "joining"
  /\ loop' = "ended"
  /\ EndAttempt
  /\ straggler' = (straggler \/ stmt = "sent")
  /\ UNCHANGED <<now, job, handler, local, ticker>>

(* The handler returns by itself: its context ends the loop.               *)
HandlerReturns ==
  /\ handler = "running"
  /\ handler' = "done"
  /\ loop' = "ended"
  /\ EndAttempt
  /\ straggler' = (straggler \/ stmt = "sent")
  /\ UNCHANGED <<now, job, local, ticker>>

(* The recovery scan takes a job whose lease has run out; a dead node or a *)
(* finished session ends ownership whatever the lease says.                *)
Reclaim ==
  /\ owner = "worker"
  /\ expires < now
  /\ owner' = "reclaimed"
  /\ UNCHANGED <<now, expires, handler, loop, local, ticker, attempt, straggler>>

Revoke ==
  /\ owner = "worker"
  /\ owner' = "revoked"
  /\ UNCHANGED <<now, expires, handler, loop, local, ticker, attempt, straggler>>

RenewNext ==
  \/ Tick \/ TimerFires \/ TickerFires \/ ServerRenews \/ StragglerEnds
  \/ AttemptFails \/ AnswerArrives \/ Join \/ HandlerReturns \/ Reclaim \/ Revoke

RenewSpec == RenewInit /\ [][RenewNext]_renewVars

-----------------------------------------------------------------------------
(* No job is reclaimed for its lapsed lease while its handler still runs   *)
(* unfenced: the loop fences it at the last confirmed expiry, also when a  *)
(* renewal hangs in the database at that moment (renewLeaseLoop).          *)
FencedBeforeReclaim == owner = "reclaimed" => handler # "running"

(* A worker whose row nobody took does not give up on one failed renewal:  *)
(* with the default durations (60, 20 and 5 seconds) it takes two in a row *)
(* to run into the expiry (defaultRenewInterval, defaultLeaseDuration).    *)
OneFailureTolerated == handler = "fenced" /\ owner = "worker" => fails >= 2
=============================================================================
