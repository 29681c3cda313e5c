--------------------------- MODULE SchedulerLock ---------------------------
(***************************************************************************)
(* The session-level advisory lock under which one replica runs a tick of  *)
(* the scheduler loop (internal/cluster/scheduler_lock.go, used by runOnce *)
(* and sweepAutomationTargetsOnce of internal/cluster/scheduler.go).       *)
(*                                                                         *)
(* A replica has a pool of connections; each has a backend in PostgreSQL,  *)
(* and the lock belongs to a backend.  A statement may be executed and its *)
(* answer lost; a backend may end at any time, and then drops its locks.   *)
(***************************************************************************)
EXTENDS Naturals

CONSTANTS Replicas, PoolSize, Free

Conns == Replicas \X (1..PoolSize)

(* Free stands for no connection: the lock nobody holds, no pinned one.    *)
ASSUME LockAssumption == Free \notin Conns

VARIABLES stage, pin, conn, backend, lock

lockVars == <<stage, pin, conn, backend, lock>>

LockInit ==
  /\ stage = [r \in Replicas |-> "idle"]
  /\ pin = [r \in Replicas |-> Free]
  /\ conn = [c \in Conns |-> "idle"]
  /\ backend = [c \in Conns |-> TRUE]
  /\ lock = Free

(* The end of a call: the replica lets go of its connection, which goes    *)
(* back to the pool or is destroyed.                                       *)
LetGo(r, to) ==
  /\ stage' = [stage EXCEPT ![r] = "idle"]
  /\ pin' = [pin EXCEPT ![r] = Free]
  /\ conn' = [conn EXCEPT ![pin[r]] = to]
  /\ UNCHANGED <<backend, lock>>

-----------------------------------------------------------------------------
(* TryAcquire: take a connection, run pg_try_advisory_lock, look at the    *)
(* answer.  The lock is reentrant for its backend.                         *)
AcquireConn(r) ==
  /\ stage[r] = "idle"
  /\ \E c \in Conns :
       /\ c[1] = r
       /\ conn[c] = "idle"
       /\ conn' = [conn EXCEPT ![c] = "used"]
       /\ pin' = [pin EXCEPT ![r] = c]
  /\ stage' = [stage EXCEPT ![r] = "trying"]
  /\ UNCHANGED <<backend, lock>>

TryLock(r) ==
  /\ stage[r] = "trying"
  /\ backend[pin[r]]
  /\ IF lock \in {Free, pin[r]}
     THEN lock' = pin[r] /\ stage' = [stage EXCEPT ![r] = "acquired"]
     ELSE stage' = [stage EXCEPT ![r] = "refused"] /\ UNCHANGED lock
  /\ UNCHANGED <<pin, conn, backend>>

Acquired(r) ==
  /\ stage[r] = "acquired"
  /\ stage' = [stage EXCEPT ![r] = "ticking"]
  /\ UNCHANGED <<pin, conn, backend, lock>>

NotAcquired(r) ==
  /\ stage[r] = "refused"
  /\ LetGo(r, "idle")

(* The query fails: the driver has closed the connection (a cancelled or   *)
(* broken exchange), so Release destroys it.                               *)
TryFails(r) ==
  /\ stage[r] \in {"trying", "acquired", "refused"}
  /\ LetGo(r, "closed")

-----------------------------------------------------------------------------
(* The deferred Release after the tick, on the pinned connection.          *)
TickEnds(r) ==
  /\ stage[r] = "ticking"
  /\ stage' = [stage EXCEPT ![r] = "unlocking"]
  /\ UNCHANGED <<pin, conn, backend, lock>>

Unlock(r) ==
  /\ stage[r] = "unlocking"
  /\ backend[pin[r]]
  /\ IF lock = pin[r]
     THEN lock' = Free /\ stage' = [stage EXCEPT ![r] = "unlocked"]
     ELSE stage' = [stage EXCEPT ![r] = "notheld"] /\ UNCHANGED lock
  /\ UNCHANGED <<pin, conn, backend>>

Unlocked(r) ==
  /\ stage[r] = "unlocked"
  /\ LetGo(r, "idle")

UnlockFails_Pooled(r) ==
  /\ stage[r] \in {"unlocking", "unlocked", "notheld"}
  /\ LetGo(r, "idle")

UnlockFails_Leaked(r) ==
  /\ stage[r] \in {"unlocking", "unlocked", "notheld"}
  /\ LetGo(r, "used")

(* An unlock that is not confirmed destroys the connection.                *)
UnlockFails(r) ==
  /\ stage[r] \in {"unlocking", "unlocked", "notheld"}
  /\ LetGo(r, "closed")

-----------------------------------------------------------------------------
(* PostgreSQL ends a backend, because its client closed or for a reason of *)
(* its own; the pool replaces a destroyed or broken idle connection.       *)
BackendEnds(c) ==
  /\ backend[c]
  /\ backend' = [backend EXCEPT ![c] = FALSE]
  /\ lock' = IF lock = c THEN Free ELSE lock
  /\ conn' = [conn EXCEPT ![c] = IF @ = "idle" THEN "closed" ELSE @]
  /\ UNCHANGED <<stage, pin>>

Redial(c) ==
  /\ conn[c] = "closed"
  /\ ~backend[c]
  /\ conn' = [conn EXCEPT ![c] = "idle"]
  /\ backend' = [backend EXCEPT ![c] = TRUE]
  /\ UNCHANGED <<stage, pin, lock>>

(* A replica's process dies; its sockets close.                            *)
Crash(r) ==
  /\ stage' = [stage EXCEPT ![r] = "idle"]
  /\ pin' = [pin EXCEPT ![r] = Free]
  /\ conn' = [c \in Conns |-> IF c[1] = r THEN "closed" ELSE conn[c]]
  /\ UNCHANGED <<backend, lock>>

ReplicaStep(r) ==
  \/ TryLock(r) \/ Acquired(r) \/ NotAcquired(r) \/ TryFails(r)
  \/ TickEnds(r) \/ Unlock(r) \/ Unlocked(r) \/ UnlockFails(r)

LockNext ==
  \/ \E r \in Replicas : AcquireConn(r) \/ ReplicaStep(r) \/ Crash(r)
  \/ \E c \in Conns : BackendEnds(c) \/ Redial(c)

LockSpec == LockInit /\ [][LockNext]_lockVars

(* A replica goes on with what it has begun: a tick ends, and the unlock   *)
(* has a deadline.  PostgreSQL notices a closed socket.                    *)
LockFairness ==
  /\ \A r \in Replicas : WF_lockVars(ReplicaStep(r))
  /\ \A c \in Conns : WF_lockVars(conn[c] = "closed" /\ BackendEnds(c))

LockFairSpec == LockSpec /\ LockFairness

-----------------------------------------------------------------------------
(* The lock never rides on a connection that lies idle in a pool, where an *)
(* unrelated caller would carry it on (the comment of SchedulerLock and    *)
(* the unconfirmed branch of Release).                                     *)
LockNeverPooled == \A c \in Conns : lock = c => conn[c] # "idle"

(* Whatever fails between taking and releasing it, the lock is given up    *)
(* again, so another replica can run the loop (Release, TryAcquire).       *)
LockIsFreed == lock # Free ~> lock = Free
=============================================================================
