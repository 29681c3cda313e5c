------------------------------- MODULE JobRow -------------------------------
(***************************************************************************)
(* One row of the jobs table and the UPDATE statements of JobStore         *)
(* (internal/db/jobs.go), each as an operator from the old row to the new  *)
(* one.  The modules that have actors use these in their actions, with the *)
(* statement's WHERE clause as a guard.                                    *)
(*                                                                         *)
(* Timestamps are reduced to what the statements compare: leased says that *)
(* lease_expires_at is not in the past, due that run_at is not in the      *)
(* future, window that retry_window_started_at is set.  A lock token is a  *)
(* fresh uuid; here it is the next natural number, NoToken is NULL.        *)
(***************************************************************************)
EXTENDS Naturals

CONSTANTS Nodes, Executors, None

ASSUME NoneAssumption == None \notin Nodes \cup Executors

NoToken == 0

ActiveStatus == {"pending", "running"}

TerminalStatus == {"succeeded", "failed", "cancelled", "dead_letter"}

JobStatus == {"absent"} \cup ActiveStatus \cup TerminalStatus

Row == [status: JobStatus, attempts: Nat, token: Nat,
        node: Nodes \cup {None}, owner: Nodes \cup Executors \cup {None},
        kind: {"worker", "session_executor"}, leased: BOOLEAN,
        target: Nodes \cup {None}, due: BOOLEAN, window: BOOLEAN]

NoRow == [status |-> "absent", attempts |-> 0, token |-> NoToken, node |-> None,
          owner |-> None, kind |-> "worker", leased |-> FALSE, target |-> None,
          due |-> FALSE, window |-> FALSE]

(* INSERT of a pending job, pinned or not, due now or later.               *)
Inserted(target, due) ==
  [NoRow EXCEPT !.status = "pending", !.target = target, !.due = due]

Owned_StatusOnly(r, t) == r.status = "running"

(* The WHERE clause of every fenced statement.                             *)
Owned(r, t) == r.status = "running" /\ r.token = t

(* The lock columns, cleared by every statement that ends an attempt.      *)
Unlocked(r) ==
  [r EXCEPT !.token = NoToken, !.node = None, !.owner = None,
            !.kind = "worker", !.leased = FALSE]

Claimed(r, n, t) ==
  [r EXCEPT !.status = "running", !.node = n, !.owner = n, !.kind = "worker",
            !.token = t, !.leased = TRUE, !.attempts = @ + 1]

Renewed(r) == [r EXCEPT !.leased = TRUE]

WindowStarted(r) == [r EXCEPT !.window = TRUE]

HandedOff(r, x) == [r EXCEPT !.kind = "session_executor", !.owner = x]

Succeeded(r) == [Unlocked(r) EXCEPT !.status = "succeeded"]

Failed(r) == [Unlocked(r) EXCEPT !.status = "failed"]

Cancelled(r) == [Unlocked(r) EXCEPT !.status = "cancelled"]

DeadLettered(r) == [Unlocked(r) EXCEPT !.status = "dead_letter"]

Retried(r) == [Unlocked(r) EXCEPT !.status = "pending", !.due = FALSE]

RetriedTo(r, n) == [Retried(r) EXCEPT !.target = n]

Refunded_Unclamped(r) == [r EXCEPT !.attempts = @ - 2]

(* GREATEST(attempts - 1, 0): the claim's increment is undone.             *)
Refunded(r) ==
  [r EXCEPT !.attempts = IF @ = 0 THEN 0 ELSE @ - 1]

WindowReset(r) == [r EXCEPT !.window = FALSE]

(* Recovery requeues at once and keeps the attempt counted.                *)
Reclaimed(r) == [Unlocked(r) EXCEPT !.status = "pending", !.due = TRUE]

=============================================================================
