----------------------- MODULE SessionExecutorProofs -----------------------
(***************************************************************************)
(* Theorems about durable session executors, for any number of jobs, nodes *)
(* and executor rows and any bounds.                                       *)
(*                                                                         *)
(* A token names an attempt.  The invariant says that at most one worker   *)
(* loop and at most one executor row carry the token of an attempt, so     *)
(* that whoever holds the token of a running job is the only one that can  *)
(* be handed it.  The lemmas of the second part sum up what any step does  *)
(* to one job, one worker loop, one executor row and one process; the      *)
(* invariants follow from these effects.                                   *)
(***************************************************************************)
EXTENDS SessionExecutor, TLAPS

(* Leaves are given half a minute of each prover. *)
USE SMTT(30), ZenonT(30)

(* q is row r with its attempt ended and its lock cleared.                 *)
Ended(r, q) ==
  /\ q \in Row
  /\ q.status \notin {"running", "absent"}
  /\ q.token = NoToken

(* q has the status and the lock of r.                                     *)
Alike(r, q) ==
  /\ q \in Row
  /\ q.status = r.status /\ q.token = r.token
  /\ q.kind = r.kind /\ q.owner = r.owner

(* Unlocking a row keeps its type and clears its token.                    *)
LEMMA UnlockedRow ==
  ASSUME NEW r \in Row
  PROVE  Unlocked(r) \in Row /\ Unlocked(r).token = NoToken
BY Zenon DEF Unlocked, Row, NoToken

(* Every statement that ends an attempt clears the lock.                   *)
LEMMA EndedRows ==
  ASSUME NEW r \in Row
  PROVE  /\ Ended(r, Succeeded(r)) /\ Succeeded(r).status = "succeeded"
         /\ Ended(r, Failed(r)) /\ Ended(r, DeadLettered(r))
         /\ Ended(r, Retried(r)) /\ Ended(r, Reclaimed(r))
         /\ Ended(r, Refunded(Retried(r)))
         /\ "succeeded" \notin {Failed(r).status, DeadLettered(r).status,
              Retried(r).status, Reclaimed(r).status, Refunded(Retried(r)).status}
<1> DEFINE u == Unlocked(r)
<1>1. u \in Row /\ u.token = NoToken
  BY UnlockedRow
<1> HIDE DEF u
<1>2. \A s \in TerminalStatus :
        Ended(r, [u EXCEPT !.status = s]) /\ [u EXCEPT !.status = s].status = s
  BY <1>1 DEF Ended, Row, JobStatus, TerminalStatus
<1>3. \A d \in BOOLEAN :
        LET q == [u EXCEPT !.status = "pending", !.due = d]
        IN  Ended(r, q) /\ q.status = "pending"
  BY <1>1, ZenonT(30) DEF Ended, Row, JobStatus, ActiveStatus
<1>4. Ended(r, Retried(r)) /\ Retried(r).status = "pending"
  BY <1>3, Zenon DEF u, Retried
<1>5. Ended(r, Refunded(Retried(r))) /\ Refunded(Retried(r)).status = "pending"
  <2> DEFINE q == Retried(r)
  <2>1. q \in Row /\ q.attempts \in Nat
    BY <1>4 DEF Ended, Row
  <2> HIDE DEF q
  <2>2. \A a \in Nat :
          LET p == [q EXCEPT !.attempts = a]
          IN  p \in Row /\ p.status = q.status /\ p.token = q.token
    BY <2>1 DEF Row
  <2>3. CASE q.attempts = 0
    <3>1. Refunded(q) = [q EXCEPT !.attempts = 0]
      BY <2>3 DEF Refunded
    <3> QED
      BY <3>1, <2>2, <1>4 DEF q, Ended
  <2>4. CASE q.attempts # 0
    <3>1. Refunded(q) = [q EXCEPT !.attempts = q.attempts - 1]
      BY <2>4 DEF Refunded
    <3>2. q.attempts - 1 \in Nat
      BY <2>1, <2>4
    <3> QED
      BY <3>1, <3>2, <2>2, <1>4 DEF q, Ended
  <2> QED
    BY <2>3, <2>4 DEF q
<1> QED
  BY <1>2, <1>3, <1>4, <1>5, Zenon
     DEF u, Succeeded, Failed, DeadLettered, Reclaimed, TerminalStatus

(* Renewals and the passing of time leave a row alike.                     *)
LEMMA TouchedRows ==
  ASSUME NEW r \in Row
  PROVE  /\ Alike(r, r) /\ Alike(r, Renewed(r)) /\ Alike(r, WindowStarted(r))
         /\ Alike(r, [r EXCEPT !.leased = FALSE])
         /\ Alike(r, [r EXCEPT !.due = TRUE])
BY Zenon DEF Alike, Renewed, WindowStarted, Row

(* An absent and a newly inserted row.                                     *)
LEMMA NewRows ==
  /\ NoRow \in Row /\ NoRow.status = "absent" /\ NoRow.token = NoToken
  /\ Ended(NoRow, Inserted(None, TRUE))
  /\ Inserted(None, TRUE).status = "pending"
BY Zenon DEF NoRow, Row, JobStatus, ActiveStatus, NoToken, Inserted, Ended

(* A claim leaves a running row under the new token.                       *)
LEMMA ClaimedRow ==
  ASSUME NEW r \in Row, NEW n \in Nodes, NEW t \in Nat
  PROVE  /\ Claimed(r, n, t) \in Row
         /\ Claimed(r, n, t).status = "running" /\ Claimed(r, n, t).token = t
<1> DEFINE a == r.attempts + 1
<1>1. a \in Nat
  BY DEF Row
<1>2. Claimed(r, n, t) =
        [r EXCEPT !.status = "running", !.node = n, !.owner = n, !.kind = "worker",
                  !.token = t, !.leased = TRUE, !.attempts = a]
  BY DEF Claimed
<1> HIDE DEF a
<1>3. [r EXCEPT !.status = "running", !.node = n, !.owner = n] \in Row
  BY Zenon DEF Row, JobStatus, ActiveStatus
<1>4. \A q \in Row :
        [q EXCEPT !.kind = "worker", !.token = t, !.leased = TRUE, !.attempts = a] \in Row
  BY <1>1, ZenonT(60) DEF Row
<1>5. Claimed(r, n, t) \in Row /\ Claimed(r, n, t).attempts = a
  BY <1>2, <1>3, <1>4, ZenonT(30) DEF Row
<1> QED
  BY <1>2, <1>5 DEF Row

(* The handoff keeps the token and names the executor as the owner.        *)
LEMMA HandedRow ==
  ASSUME NEW r \in Row, NEW x \in Executors
  PROVE  /\ HandedOff(r, x) \in Row
         /\ HandedOff(r, x).status = r.status /\ HandedOff(r, x).token = r.token
         /\ HandedOff(r, x).kind = "session_executor" /\ HandedOff(r, x).owner = x
BY Zenon DEF HandedOff, Row

-----------------------------------------------------------------------------
(* The places of a worker loop that has reserved an executor row.          *)
Attached == {"launch", "record", "handoff", "cleanup", "fail"}

(* The places of a process that executes the turn.                         *)
Working == {"claim", "unhandled", "run", "finish"}

(* Who refers to what: a worker loop past its claim has a job, one that    *)
(* reserved a row knows it, a process belongs to a row that exists, and a  *)
(* process that closes its row knows the status it writes.                 *)
ReferenceInv ==
  /\ \A n \in Nodes :
       /\ disp[n].pc # "idle" => disp[n].job \in Jobs
       /\ disp[n].pc \in Attached =>
            disp[n].exec \in Executors /\ exec[disp[n].exec].status # "absent"
  /\ \A x \in Executors :
       /\ exec[x].status # "absent" => exec[x].job \in Jobs
       /\ proc[x].pc # "none" => exec[x].status # "absent"
       /\ proc[x].pc = "close" => proc[x].out \in TerminalExec

BaseInv == ExecTypeOK /\ ReferenceInv

(* What a step does to the jobs.                                           *)
RowEffect(j) ==
  \/ Alike(row[j], row'[j])
  \/ row[j].status \in {"absent", "running"} /\ Ended(row[j], row'[j])
  \/ /\ row[j].status = "pending"
     /\ row'[j].status = "running" /\ row'[j].token = nextToken
     /\ nextToken' = nextToken + 1
  \/ \E n \in Nodes :
       /\ disp[n].pc = "handoff" /\ disp[n].job = j
       /\ Owned(row[j], disp[n].token) /\ Owned(row'[j], disp[n].token)
       /\ row'[j].kind = "session_executor" /\ row'[j].owner = disp[n].exec

(* What a step does to the record of successes.                            *)
WonEffect(j) ==
  \/ won'[j] = won[j]
  \/ \E x \in Executors :
       /\ exec[x].job = j /\ Owned(row[j], exec[x].token)
       /\ row'[j].status = "succeeded"
       /\ won'[j] = won[j] \cup {exec[x].token}

(* A worker loop n reserves executor row x, and goes on with it unless the *)
(* answer is lost; nothing else moves.                                     *)
Reserves(n, x) ==
  /\ disp[n].pc = "create" /\ exec[x].status = "absent"
  /\ exec' = [exec EXCEPT ![x] =
       [status |-> "starting", job |-> disp[n].job, token |-> disp[n].token,
        fresh |-> TRUE]]
  /\ \/ disp' = [disp EXCEPT ![n].pc = "launch", ![n].exec = x]
     \/ disp' = [disp EXCEPT ![n].pc = "error"]
  /\ nextToken' = nextToken

(* A worker loop n takes the next token; no other loop moves.              *)
Takes(n) ==
  /\ disp[n].pc = "idle"
  /\ \E j \in Jobs : disp' = [disp EXCEPT ![n] =
       [pc |-> "clear", job |-> j, token |-> nextToken,
        attempts |-> row[j].attempts + 1, exec |-> None]]
  /\ nextToken' = nextToken + 1

(* What a step does to a worker loop.                                      *)
LoopEffect(n) ==
  \/ disp'[n] = disp[n]
  \/ disp'[n] = IdleDispatcher
  \/ Takes(n)
  \/ \E x \in Executors : Reserves(n, x)
  \/ /\ disp[n].pc # "idle"
     /\ disp'[n].job = disp[n].job /\ disp'[n].token = disp[n].token
     /\ disp'[n].exec = disp[n].exec
     /\ disp'[n].pc \notin {"idle", "clear"}
     /\ disp'[n].pc = "create" => disp[n].pc = "clear"
     /\ disp'[n].pc \in Attached => disp[n].pc \in Attached

(* Row x keeps its job, its token and a final status, and is completed     *)
(* only by its own process.                                                *)
Keeps(x) ==
  /\ exec'[x].job = exec[x].job /\ exec'[x].token = exec[x].token
  /\ exec'[x].status = "absent" <=> exec[x].status = "absent"
  /\ exec[x].status \in TerminalExec => exec'[x].status = exec[x].status
  /\ exec'[x].status = "completed" =>
       \/ exec[x].status = "completed"
       \/ proc[x].pc = "close" /\ proc[x].out = "completed"

(* What a step does to an executor row.                                    *)
ExecEffect(x) == Keeps(x) \/ \E n \in Nodes : Reserves(n, x)

(* What a step does to an executor process.                                *)
ProcEffect(x) ==
  \/ proc'[x] = proc[x]
  \/ /\ exec[x].status # "absent"
     /\ \/ proc'[x].pc \in {"boot", "wait", "pause", "gone"}
        \/ proc'[x].pc = "claim" /\ HandedTo(x)
        \/ proc'[x].pc \in Working /\ proc[x].pc \in Working
        \/ /\ proc'[x].pc = "close"
           /\ proc'[x].out \in TerminalExec
           /\ proc'[x].out = "completed" => exec[x].token \in won'[exec[x].job]

(* All of it.                                                              *)
Effect ==
  /\ ExecTypeOK'
  /\ \A j \in Jobs : RowEffect(j) /\ WonEffect(j)
  /\ \A n \in Nodes : LoopEffect(n)
  /\ \A x \in Executors : ExecEffect(x) /\ ProcEffect(x)
  /\ nextToken' \in {nextToken, nextToken + 1}

(* The parts of the effect when a variable does not change.                *)
LEMMA StillRows ==
  ASSUME BaseInv, UNCHANGED row
  PROVE  row' \in [Jobs -> Row] /\ \A j \in Jobs : RowEffect(j)
BY DEF BaseInv, ExecTypeOK, RowEffect, Alike

(* Successes recorded stay recorded when won is unchanged.                 *)
LEMMA StillWon ==
  ASSUME BaseInv, UNCHANGED won
  PROVE  won' \in [Jobs -> SUBSET Nat] /\ \A j \in Jobs : WonEffect(j)
BY DEF BaseInv, ExecTypeOK, WonEffect

(* Unwritten worker loops have their effect.                               *)
LEMMA StillLoops ==
  ASSUME BaseInv, UNCHANGED disp
  PROVE  disp' \in [Nodes -> Dispatcher] /\ \A n \in Nodes : LoopEffect(n)
BY DEF BaseInv, ExecTypeOK, LoopEffect

(* Unwritten executor rows have their effect.                              *)
LEMMA StillExec ==
  ASSUME BaseInv, UNCHANGED exec
  PROVE  exec' \in [Executors -> ExecRow] /\ \A x \in Executors : ExecEffect(x)
BY DEF BaseInv, ExecTypeOK, ExecEffect, Keeps

(* Unwritten processes have their effect.                                  *)
LEMMA StillProc ==
  ASSUME BaseInv, UNCHANGED proc
  PROVE  proc' \in [Executors -> Process] /\ \A x \in Executors : ProcEffect(x)
BY DEF BaseInv, ExecTypeOK, ProcEffect

(* An unchanged token counter has its effect.                              *)
LEMMA StillToken ==
  ASSUME BaseInv, UNCHANGED nextToken
  PROVE  nextToken' \in Nat \ {0} /\ nextToken' \in {nextToken, nextToken + 1}
BY DEF BaseInv, ExecTypeOK

(* The parts of the effect when one row, loop, executor or process is      *)
(* written.                                                                *)
LEMMA OneRow ==
  ASSUME BaseInv, NEW j \in Jobs, NEW r \in Row,
         row' = [row EXCEPT ![j] = r], RowEffect(j)
  PROVE  row' \in [Jobs -> Row] /\ \A i \in Jobs : RowEffect(i)
<1>1. row' \in [Jobs -> Row] /\ \A i \in Jobs \ {j} : row'[i] = row[i]
  BY DEF BaseInv, ExecTypeOK
<1>2. \A i \in Jobs \ {j} : RowEffect(i)
  BY <1>1 DEF BaseInv, ExecTypeOK, RowEffect, Alike
<1> QED
  BY <1>1, <1>2

(* The same for one worker loop.                                           *)
LEMMA OneLoop ==
  ASSUME BaseInv, NEW n \in Nodes, NEW d \in Dispatcher,
         disp' = [disp EXCEPT ![n] = d], LoopEffect(n)
  PROVE  disp' \in [Nodes -> Dispatcher] /\ \A m \in Nodes : LoopEffect(m)
<1>1. disp' \in [Nodes -> Dispatcher] /\ \A m \in Nodes \ {n} : disp'[m] = disp[m]
  BY DEF BaseInv, ExecTypeOK
<1>2. \A m \in Nodes \ {n} : LoopEffect(m)
  BY <1>1 DEF LoopEffect
<1> QED
  BY <1>1, <1>2

(* The same for one executor row.                                          *)
LEMMA OneExec ==
  ASSUME BaseInv, NEW x \in Executors, NEW e \in ExecRow,
         exec' = [exec EXCEPT ![x] = e], ExecEffect(x)
  PROVE  exec' \in [Executors -> ExecRow] /\ \A y \in Executors : ExecEffect(y)
<1>1. exec' \in [Executors -> ExecRow] /\ \A y \in Executors \ {x} : exec'[y] = exec[y]
  BY DEF BaseInv, ExecTypeOK
<1>2. \A y \in Executors \ {x} : ExecEffect(y)
  BY <1>1 DEF ExecEffect, Keeps
<1> QED
  BY <1>1, <1>2

(* The same for one process.                                               *)
LEMMA OneProc ==
  ASSUME BaseInv, NEW x \in Executors, NEW p \in Process,
         proc' = [proc EXCEPT ![x] = p], ProcEffect(x)
  PROVE  proc' \in [Executors -> Process] /\ \A y \in Executors : ProcEffect(y)
<1>1. proc' \in [Executors -> Process] /\ \A y \in Executors \ {x} : proc'[y] = proc[y]
  BY DEF BaseInv, ExecTypeOK
<1>2. \A y \in Executors \ {x} : ProcEffect(y)
  BY <1>1 DEF ProcEffect
<1> QED
  BY <1>1, <1>2

-----------------------------------------------------------------------------
RowsKeep == row' \in [Jobs -> Row] /\ \A j \in Jobs : RowEffect(j)

WonKeeps == won' \in [Jobs -> SUBSET Nat] /\ \A j \in Jobs : WonEffect(j)

LoopsKeep == disp' \in [Nodes -> Dispatcher] /\ \A n \in Nodes : LoopEffect(n)

ExecsKeep == exec' \in [Executors -> ExecRow] /\ \A x \in Executors : ExecEffect(x)

ProcsKeep == proc' \in [Executors -> Process] /\ \A x \in Executors : ProcEffect(x)

TokenKeeps == nextToken' \in Nat \ {0} /\ nextToken' \in {nextToken, nextToken + 1}

(* The effect is its parts.                                                *)
LEMMA EffectParts ==
  ASSUME RowsKeep, WonKeeps, LoopsKeep, ExecsKeep, ProcsKeep, TokenKeeps
  PROVE  Effect
BY DEF RowsKeep, WonKeeps, LoopsKeep, ExecsKeep, ProcsKeep, TokenKeeps, Effect, ExecTypeOK

(* What does not change has its effect.                                    *)
LEMMA Still ==
  ASSUME BaseInv
  PROVE  /\ UNCHANGED row => RowsKeep
         /\ UNCHANGED won => WonKeeps
         /\ UNCHANGED disp => LoopsKeep
         /\ UNCHANGED exec => ExecsKeep
         /\ UNCHANGED proc => ProcsKeep
         /\ UNCHANGED nextToken => TokenKeeps
BY StillRows, StillWon, StillLoops, StillExec, StillProc, StillToken
   DEF RowsKeep, WonKeeps, LoopsKeep, ExecsKeep, ProcsKeep, TokenKeeps

(* A write that ends a running attempt, or opens a row.                    *)
LEMMA RowEnds ==
  ASSUME BaseInv, NEW j \in Jobs, NEW q, Ended(row[j], q),
         row[j].status \in {"absent", "running"}, row' = [row EXCEPT ![j] = q]
  PROVE  RowsKeep
<1>1. q \in Row /\ row'[j] = q
  BY DEF Ended, BaseInv, ExecTypeOK
<1> QED
  BY <1>1, OneRow, Zenon DEF RowEffect, RowsKeep

(* A write that leaves the status and the lock.                            *)
LEMMA RowTouched ==
  ASSUME BaseInv, NEW j \in Jobs, NEW q, Alike(row[j], q), row' = [row EXCEPT ![j] = q]
  PROVE  RowsKeep
<1>1. q \in Row /\ row'[j] = q
  BY DEF Alike, BaseInv, ExecTypeOK
<1> QED
  BY <1>1, OneRow, Zenon DEF RowEffect, RowsKeep

(* A fenced write.                                                         *)
LEMMA RowPut ==
  ASSUME BaseInv, NEW j \in Jobs, NEW t, NEW q, Put(j, t, q),
         Ended(row[j], q) \/ Alike(row[j], q)
  PROVE  RowsKeep
BY RowEnds, RowTouched, Still DEF Put, Owned

(* A worker loop goes on to a later place.                                 *)
LEMMA LoopMoves ==
  ASSUME BaseInv, NEW n \in Nodes,
         NEW pc \in {"create", "launch", "record", "handoff", "cleanup", "fail", "error"},
         Advance(n, pc), disp[n].pc # "idle",
         pc = "create" => disp[n].pc = "clear",
         pc \in Attached => disp[n].pc \in Attached
  PROVE  LoopsKeep
<1> DEFINE d == [disp[n] EXCEPT !.pc = pc]
<1>1. d \in Dispatcher /\ disp' = [disp EXCEPT ![n] = d] /\ disp'[n] = d
  BY DEF BaseInv, ExecTypeOK, Dispatcher, Advance
<1>2. d.pc = pc /\ d.job = disp[n].job /\ d.token = disp[n].token /\ d.exec = disp[n].exec
  BY DEF BaseInv, ExecTypeOK, Dispatcher
<1> HIDE DEF d
<1>3. LoopEffect(n)
  BY <1>1, <1>2 DEF LoopEffect
<1> QED
  BY <1>1, <1>3, OneLoop, Zenon DEF LoopsKeep

(* A worker loop ends its iteration.                                       *)
LEMMA LoopEnds ==
  ASSUME BaseInv, NEW n \in Nodes, disp' = [disp EXCEPT ![n] = IdleDispatcher]
  PROVE  LoopsKeep
<1>1. IdleDispatcher \in Dispatcher
  BY DEF IdleDispatcher, Dispatcher, NoToken
<1>2. disp'[n] = IdleDispatcher
  BY DEF BaseInv, ExecTypeOK
<1> QED
  BY <1>1, <1>2, OneLoop, Zenon DEF LoopEffect, LoopsKeep

(* An executor row gets a new status, or a new heartbeat.                  *)
LEMMA ExecWritten ==
  ASSUME BaseInv, NEW x \in Executors, exec[x].status # "absent",
         NEW s \in ActiveExec \cup TerminalExec, NEW f \in BOOLEAN,
         exec' = [exec EXCEPT ![x].status = s, ![x].fresh = f],
         exec[x].status \in TerminalExec => s = exec[x].status,
         \/ s # "completed" \/ exec[x].status = "completed"
         \/ proc[x].pc = "close" /\ proc[x].out = "completed"
  PROVE  ExecsKeep
<1> DEFINE e == [exec[x] EXCEPT !.status = s, !.fresh = f]
<1>1. e \in ExecRow /\ exec' = [exec EXCEPT ![x] = e] /\ exec'[x] = e
  BY ZenonT(30) DEF BaseInv, ExecTypeOK, ExecRow
<1>2. e.status = s /\ e.job = exec[x].job /\ e.token = exec[x].token
  BY DEF BaseInv, ExecTypeOK, ExecRow
<1> HIDE DEF e
<1>3. s # "absent"
  BY DEF ActiveExec, TerminalExec
<1>4. ExecEffect(x)
  BY <1>1, <1>2, <1>3 DEF ExecEffect, Keeps
<1> QED
  BY <1>1, <1>4, OneExec, Zenon DEF ExecsKeep

(* The same when only the status is written.                               *)
LEMMA ExecMoves ==
  ASSUME BaseInv, NEW x \in Executors, exec[x].status \in ActiveExec,
         NEW s \in ActiveExec \cup TerminalExec,
         exec' = [exec EXCEPT ![x].status = s],
         s # "completed" \/ (proc[x].pc = "close" /\ proc[x].out = "completed")
  PROVE  ExecsKeep
<1> DEFINE f == exec[x].fresh
<1>1. f \in BOOLEAN /\ exec' = [exec EXCEPT ![x].status = s, ![x].fresh = f]
  BY Zenon DEF BaseInv, ExecTypeOK, ExecRow
<1>2. exec[x].status # "absent" /\ exec[x].status \notin TerminalExec
  BY DEF ActiveExec, TerminalExec
<1> HIDE DEF f
<1> QED
  BY <1>1, <1>2, ExecWritten, Zenon

(* A fenced terminal write of an executor row.                             *)
LEMMA ExecCloses ==
  ASSUME BaseInv, NEW x \in Executors, NEW t, NEW s \in TerminalExec,
         MarkTerminal(x, t, s),
         s # "completed" \/ (proc[x].pc = "close" /\ proc[x].out = "completed")
  PROVE  ExecsKeep
BY ExecMoves, Still DEF MarkTerminal, ExecOwned

(* Several executor rows of active status are failed at once.              *)
LEMMA ExecsFail ==
  ASSUME BaseInv, NEW S, \A x \in S : exec[x].status \in ActiveExec,
         exec' = [x \in Executors |->
           IF x \in S THEN [exec[x] EXCEPT !.status = "failed"] ELSE exec[x]]
  PROVE  ExecsKeep
<1>1. ASSUME NEW x \in Executors, x \in S
      PROVE  exec'[x] \in ExecRow /\ Keeps(x)
  BY <1>1 DEF BaseInv, ExecTypeOK, ExecRow, Keeps, ActiveExec, TerminalExec
<1>2. ASSUME NEW x \in Executors, x \notin S
      PROVE  exec'[x] \in ExecRow /\ Keeps(x)
  <2>1. exec'[x] = exec[x]
    BY <1>2
  <2> QED
    BY <2>1, Zenon DEF BaseInv, ExecTypeOK, Keeps
<1> QED
  BY <1>1, <1>2 DEF ExecsKeep, ExecEffect

(* A process is written whose row exists.                                  *)
LEMMA ProcWritten ==
  ASSUME BaseInv, NEW x \in Executors, exec[x].status # "absent", NEW p \in Process,
         proc' = [proc EXCEPT ![x] = p],
         \/ p.pc \in {"boot", "wait", "pause", "gone"}
         \/ p.pc = "claim" /\ HandedTo(x)
         \/ p.pc \in Working /\ proc[x].pc \in Working
         \/ /\ p.pc = "close" /\ p.out \in TerminalExec
            /\ p.out = "completed" => exec[x].token \in won'[exec[x].job]
  PROVE  ProcsKeep
<1>1. proc'[x] = p
  BY DEF BaseInv, ExecTypeOK
<1>2. ProcEffect(x)
  BY <1>1 DEF ProcEffect
<1> QED
  BY <1>2, OneProc, Zenon DEF ProcsKeep

(* A process leaves.                                                       *)
LEMMA ProcLeaves ==
  ASSUME BaseInv, NEW x \in Executors, exec[x].status # "absent",
         proc' = [proc EXCEPT ![x] = Gone]
  PROVE  ProcsKeep
<1>1. Gone \in Process /\ Gone.pc = "gone"
  BY Zenon DEF Gone, NoProcess, Process
<1> QED
  BY <1>1, ProcWritten, Zenon

(* A process goes to another place.                                        *)
LEMMA ProcMoves ==
  ASSUME BaseInv, NEW x \in Executors, exec[x].status # "absent",
         NEW pc, proc' = [proc EXCEPT ![x].pc = pc],
         \/ pc \in {"boot", "wait", "pause"}
         \/ pc \in Working /\ proc[x].pc \in Working
  PROVE  ProcsKeep
<1> DEFINE p == [proc[x] EXCEPT !.pc = pc]
<1>1. p \in Process /\ proc' = [proc EXCEPT ![x] = p] /\ p.pc = pc
  BY DEF BaseInv, ExecTypeOK, Process, Working
<1> HIDE DEF p
<1> QED
  BY <1>1, ProcWritten, Zenon

(* A process turns to closing its row.                                     *)
LEMMA ProcCloses ==
  ASSUME BaseInv, NEW x \in Executors, exec[x].status # "absent",
         NEW s \in TerminalExec, CloseWith(x, s),
         s = "completed" => exec[x].token \in won'[exec[x].job]
  PROVE  ProcsKeep
<1> DEFINE p == [proc[x] EXCEPT !.pc = "close", !.out = s]
<1>1. p \in Process /\ proc' = [proc EXCEPT ![x] = p] /\ p.pc = "close" /\ p.out = s
  BY ZenonT(30) DEF BaseInv, ExecTypeOK, Process, CloseWith
<1> HIDE DEF p
<1> QED
  BY <1>1, ProcWritten, Zenon

(* A working process learns its loss.                                      *)
LEMMA ProcLearns ==
  ASSUME BaseInv, NEW x \in Executors, proc[x].pc \in Working,
         proc' = [proc EXCEPT ![x].lost = TRUE]
  PROVE  ProcsKeep
<1> DEFINE p == [proc[x] EXCEPT !.lost = TRUE]
<1>1. p \in Process /\ proc' = [proc EXCEPT ![x] = p] /\ p.pc = proc[x].pc
  BY Zenon DEF BaseInv, ExecTypeOK, Process
<1>2. exec[x].status # "absent"
  BY DEF BaseInv, ReferenceInv, Working
<1> HIDE DEF p
<1> QED
  BY <1>1, <1>2, ProcWritten, Zenon

(* A session that is over ends its running job and the job's executor.     *)
LEMMA Terminalized ==
  ASSUME BaseInv, NEW j \in Jobs, row[j].status = "running", Terminalize(j)
  PROVE  RowsKeep /\ ExecsKeep
<1> DEFINE S == {x \in Executors : /\ row[j].kind = "session_executor"
                                   /\ exec[x].job = j
                                   /\ ExecOwned(x, row[j].token, ActiveExec)}
<1>1. Ended(row[j], Failed(row[j])) /\ row' = [row EXCEPT ![j] = Failed(row[j])]
  BY EndedRows DEF BaseInv, ExecTypeOK, Terminalize
<1>2. exec' = [x \in Executors |->
        IF x \in S THEN [exec[x] EXCEPT !.status = "failed"] ELSE exec[x]]
  BY DEF Terminalize, Closed
<1>3. \A x \in S : exec[x].status \in ActiveExec
  BY DEF ExecOwned
<1> HIDE DEF S
<1>4. RowsKeep
  BY <1>1, RowEnds, Zenon
<1>5. ExecsKeep
  BY <1>2, <1>3, ExecsFail, Zenon
<1> QED
  BY <1>4, <1>5

-----------------------------------------------------------------------------
(* The statements on a job that no process of it issues.                   *)
LEMMA JobSteps ==
  ASSUME BaseInv, NEW j \in Jobs,
         \/ Enqueue(j) \/ ReclaimLostRunningJobs(j) \/ LeaseLapses(j)
         \/ TerminalizeRunningSessionJobs(j) \/ RunAtPasses(j)
  PROVE  Effect
<1>0. row[j] \in Row
  BY DEF BaseInv, ExecTypeOK
<1>1. CASE Enqueue(j)
  <2>1. Ended(row[j], Inserted(None, TRUE))
    BY NewRows, Zenon DEF Ended
  <2>2. RowsKeep
    BY <1>1, <2>1, RowEnds, Zenon DEF Enqueue
  <2> QED
    BY <1>1, <2>2, Still, EffectParts DEF Enqueue
<1>2. CASE ReclaimLostRunningJobs(j)
  <2>1. Ended(row[j], Reclaimed(row[j]))
    BY <1>0, EndedRows
  <2>2. RowsKeep
    BY <1>2, <2>1, RowEnds, Zenon DEF ReclaimLostRunningJobs
  <2> QED
    BY <1>2, <2>2, Still, EffectParts DEF ReclaimLostRunningJobs
<1>3. CASE LeaseLapses(j)
  <2>1. Alike(row[j], [row[j] EXCEPT !.leased = FALSE])
    BY <1>0, TouchedRows, Zenon
  <2>2. row' = [row EXCEPT ![j] = [row[j] EXCEPT !.leased = FALSE]]
    BY <1>3 DEF LeaseLapses
  <2>3. RowsKeep
    BY <2>1, <2>2, RowTouched, Zenon
  <2> QED
    BY <1>3, <2>3, Still, EffectParts DEF LeaseLapses
<1>4. CASE TerminalizeRunningSessionJobs(j)
  BY <1>4, Terminalized, Still, EffectParts DEF TerminalizeRunningSessionJobs
<1>5. CASE RunAtPasses(j)
  <2>1. Alike(row[j], [row[j] EXCEPT !.due = TRUE])
    BY <1>0, TouchedRows, Zenon
  <2>2. row' = [row EXCEPT ![j] = [row[j] EXCEPT !.due = TRUE]]
    BY <1>5 DEF RunAtPasses
  <2>3. RowsKeep
    BY <2>1, <2>2, RowTouched, Zenon
  <2> QED
    BY <1>5, <2>3, Still, EffectParts DEF RunAtPasses
<1> QED
  BY <1>1, <1>2, <1>3, <1>4, <1>5

(* A claim takes a pending job and the next token.                         *)
LEMMA ClaimStep ==
  ASSUME BaseInv, NEW n \in Nodes, Claim(n)
  PROVE  Effect
<1>1. PICK j \in Jobs :
        /\ row[j].status = "pending"
        /\ row' = [row EXCEPT ![j] = Claimed(@, n, nextToken)]
        /\ disp' = [disp EXCEPT ![n] =
             [pc |-> "clear", job |-> j, token |-> nextToken,
              attempts |-> row[j].attempts + 1, exec |-> None]]
  BY Zenon DEF Claim
<1>2. nextToken \in Nat /\ nextToken' = nextToken + 1 /\ row[j] \in Row
  BY DEF BaseInv, ExecTypeOK, Claim
<1>3. RowsKeep
  <2> DEFINE q == Claimed(row[j], n, nextToken)
  <2>1. q \in Row /\ q.status = "running" /\ q.token = nextToken
    BY <1>2, ClaimedRow
  <2>2. row' = [row EXCEPT ![j] = q] /\ row'[j] = q
    BY <1>1 DEF BaseInv, ExecTypeOK
  <2> HIDE DEF q
  <2>3. RowEffect(j)
    BY <1>1, <1>2, <2>1, <2>2 DEF RowEffect
  <2> QED
    BY <2>1, <2>2, <2>3, OneRow, Zenon DEF RowsKeep
<1>4. LoopsKeep
  <2> DEFINE a == row[j].attempts + 1
             d == [pc |-> "clear", job |-> j, token |-> nextToken,
                   attempts |-> a, exec |-> None]
  <2>1. a \in Nat
    BY <1>2 DEF Row
  <2>2. Takes(n)
    BY <1>1, <1>2, Zenon DEF Takes, Claim
  <2>3. disp' = [disp EXCEPT ![n] = d]
    BY <1>1
  <2> HIDE DEF a
  <2>4. d \in Dispatcher
    BY <1>2, <2>1 DEF Dispatcher
  <2> HIDE DEF d
  <2> QED
    BY <2>2, <2>3, <2>4, OneLoop, Zenon DEF LoopEffect, LoopsKeep
<1>5. TokenKeeps
  BY <1>2 DEF TokenKeeps
<1> QED
  BY <1>3, <1>4, <1>5, Still, EffectParts DEF Claim

(* The dispatch up to the handoff.                                         *)
LEMMA ReserveSteps ==
  ASSUME BaseInv, NEW n \in Nodes, ClearPreHandoffReservation(n) \/ CreateStarting(n)
  PROVE  Effect
<1>1. CASE ClearPreHandoffReservation(n)
  <2> DEFINE S == Reservations(disp[n].job)
  <2>1. \A x \in S : exec[x].status \in ActiveExec
    BY DEF Reservations, ActiveExec
  <2>2. \/ exec' = [x \in Executors |->
             IF x \in S THEN [exec[x] EXCEPT !.status = "failed"] ELSE exec[x]]
        \/ UNCHANGED exec
    BY <1>1 DEF ClearPreHandoffReservation
  <2> HIDE DEF S
  <2>3. ExecsKeep
    BY <2>1, <2>2, ExecsFail, Still
  <2>4. LoopsKeep
    BY <1>1, LoopMoves DEF ClearPreHandoffReservation, Attached
  <2> QED
    BY <1>1, <2>3, <2>4, Still, EffectParts DEF ClearPreHandoffReservation
<1>2. ASSUME disp[n].pc = "create", UNCHANGED <<row, proc, nextToken, won>>,
             UNCHANGED exec, Advance(n, "error")
      PROVE  Effect
  <2>1. LoopsKeep
    BY <1>2, LoopMoves DEF Attached
  <2> QED
    BY <1>2, <2>1, Still, EffectParts
<1>3. ASSUME NEW x \in Executors, disp[n].pc = "create", exec[x].status = "absent",
             exec' = [exec EXCEPT ![x] =
               [status |-> "starting", job |-> disp[n].job, token |-> disp[n].token,
                fresh |-> TRUE]],
             \/ disp' = [disp EXCEPT ![n].pc = "launch", ![n].exec = x]
             \/ disp' = [disp EXCEPT ![n].pc = "error"],
             UNCHANGED <<row, proc, nextToken, won>>
      PROVE  Effect
  <2> DEFINE e == [status |-> "starting", job |-> disp[n].job,
                   token |-> disp[n].token, fresh |-> TRUE]
             d == [disp[n] EXCEPT !.pc = "launch", !.exec = x]
             f == [disp[n] EXCEPT !.pc = "error"]
  <2>1. e \in ExecRow /\ d \in Dispatcher /\ f \in Dispatcher
    BY <1>3, ZenonT(60) DEF BaseInv, ExecTypeOK, Dispatcher, ExecRow, ActiveExec
  <2>2. Reserves(n, x) /\ exec' = [exec EXCEPT ![x] = e]
    BY <1>3 DEF Reserves
  <2>3. disp' = [disp EXCEPT ![n] = d] \/ disp' = [disp EXCEPT ![n] = f]
    BY <1>3
  <2> HIDE DEF e, d, f
  <2>4. ExecsKeep
    BY <2>1, <2>2, OneExec, Zenon DEF ExecEffect, ExecsKeep
  <2>5. LoopsKeep
    BY <2>1, <2>2, <2>3, OneLoop, Zenon DEF LoopEffect, LoopsKeep
  <2> QED
    BY <1>3, <2>4, <2>5, Still, EffectParts
<1> QED
  BY <1>1, <1>2, <1>3 DEF CreateStarting, Advance

(* The dispatch once a row is reserved.                                    *)
LEMMA LaunchSteps ==
  ASSUME BaseInv, NEW n \in Nodes,
         Launch(n) \/ RecordContainerID(n) \/ CleanupLaunched(n) \/ MarkDispatchFailed(n)
  PROVE  Effect
<1> DEFINE x == disp[n].exec
<1>1. disp[n].pc \in Attached
  BY DEF Launch, RecordContainerID, CleanupLaunched, MarkDispatchFailed, Attached
<1>2. x \in Executors /\ exec[x].status # "absent"
  BY <1>1 DEF BaseInv, ReferenceInv
<1>3. CASE Launch(n)
  <2>1. proc' = [proc EXCEPT ![x].pc = "boot"] \/ UNCHANGED proc
    BY <1>3 DEF Launch
  <2>2. LoopsKeep
    BY <1>1, <1>3, LoopMoves DEF Launch
  <2> HIDE DEF x
  <2>3. ProcsKeep
    BY <1>2, <2>1, ProcMoves, Still
  <2> QED
    BY <1>3, <2>2, <2>3, Still, EffectParts DEF Launch
<1>4. CASE RecordContainerID(n)
  <2>1. LoopsKeep
    BY <1>1, <1>4, LoopMoves DEF RecordContainerID
  <2> QED
    BY <1>4, <2>1, Still, EffectParts DEF RecordContainerID
<1>5. CASE CleanupLaunched(n)
  <2>1. proc' = [proc EXCEPT ![x] = Gone] \/ UNCHANGED proc
    BY <1>5 DEF CleanupLaunched
  <2>2. LoopsKeep
    BY <1>1, <1>5, LoopMoves DEF CleanupLaunched
  <2> HIDE DEF x
  <2>3. ProcsKeep
    BY <1>2, <2>1, ProcLeaves, Still
  <2> QED
    BY <1>5, <2>2, <2>3, Still, EffectParts DEF CleanupLaunched
<1>6. CASE MarkDispatchFailed(n)
  <2>1. MarkTerminal(x, disp[n].token, "failed")
    BY <1>6 DEF MarkDispatchFailed
  <2>2. LoopsKeep
    BY <1>1, <1>6, LoopMoves DEF MarkDispatchFailed, Attached
  <2> HIDE DEF x
  <2>3. ExecsKeep
    BY <1>2, <2>1, ExecCloses DEF TerminalExec
  <2> QED
    BY <1>6, <2>2, <2>3, Still, EffectParts DEF MarkDispatchFailed
<1> QED
  BY <1>3, <1>4, <1>5, <1>6

(* The handoff: only a running job under the loop's token is handed over.  *)
LEMMA HandoffStep ==
  ASSUME BaseInv, NEW n \in Nodes, Handoff(n)
  PROVE  Effect
<1> DEFINE j == disp[n].job
           x == disp[n].exec
           q == HandedOff(row[j], x)
<1>1. disp[n].pc = "handoff" /\ j \in Jobs /\ x \in Executors
  BY DEF Handoff, BaseInv, ReferenceInv, Attached
<1>2. row[j] \in Row
  BY <1>1 DEF BaseInv, ExecTypeOK
<1>3. /\ q \in Row /\ q.status = row[j].status /\ q.token = row[j].token
      /\ q.kind = "session_executor" /\ q.owner = x
  BY <1>1, <1>2, HandedRow
<1>4. \/ UNCHANGED row
      \/ Owned(row[j], disp[n].token) /\ row' = [row EXCEPT ![j] = q]
  BY DEF Handoff, Put
<1>5. LoopsKeep
  BY <1>1, LoopMoves, LoopEnds DEF Handoff, Attached
<1> HIDE DEF q
<1>6. RowsKeep
  <2>1. CASE UNCHANGED row
    BY <2>1, Still
  <2>2. CASE Owned(row[j], disp[n].token) /\ row' = [row EXCEPT ![j] = q]
    <3>1. row'[j] = q
      BY <1>1, <2>2 DEF BaseInv, ExecTypeOK
    <3>2. Owned(row'[j], disp[n].token)
      BY <1>3, <2>2, <3>1 DEF Owned
    <3>3. RowEffect(j)
      BY <1>1, <1>3, <2>2, <3>1, <3>2 DEF RowEffect
    <3> HIDE DEF j
    <3> QED
      BY <1>1, <1>3, <2>2, <3>3, OneRow, Zenon DEF RowsKeep
  <2> QED
    BY <1>4, <2>1, <2>2
<1> QED
  BY <1>5, <1>6, Still, EffectParts DEF Handoff

(* The end of a failed dispatch, renewals and the death of a worker.       *)
LEMMA LoopSteps ==
  ASSUME BaseInv, NEW n \in Nodes, DispatchError(n) \/ WorkerRenews(n) \/ WorkerCrash(n)
  PROVE  Effect
<1> DEFINE j == disp[n].job
<1>1. j \in Jobs
  BY DEF DispatchError, WorkerRenews, WorkerCrash, BaseInv, ReferenceInv
<1>2. row[j] \in Row
  BY <1>1 DEF BaseInv, ExecTypeOK
<1>3. CASE DispatchError(n)
  <2> DEFINE q == IF disp[n].attempts >= MaxAttempts THEN DeadLettered(row[j])
                                                    ELSE Retried(row[j])
  <2>1. Ended(row[j], q)
    BY <1>2, EndedRows
  <2>2. Put(j, disp[n].token, q) /\ disp' = [disp EXCEPT ![n] = IdleDispatcher]
    BY <1>3 DEF DispatchError
  <2> HIDE DEF q, j
  <2>3. RowsKeep
    BY <1>1, <2>1, <2>2, RowPut
  <2>4. LoopsKeep
    BY <2>2, LoopEnds, Zenon
  <2> QED
    BY <1>3, <2>3, <2>4, Still, EffectParts DEF DispatchError
<1>4. CASE WorkerRenews(n)
  <2>1. /\ Owned(row[j], disp[n].token)
        /\ \/ row' = [row EXCEPT ![j] = Renewed(row[j])] /\ UNCHANGED exec
           \/ Terminalize(j)
    BY <1>4 DEF WorkerRenews
  <2> HIDE DEF j
  <2>2. Alike(row[j], Renewed(row[j])) /\ row[j].status = "running"
    BY <1>2, <2>1, TouchedRows, Zenon DEF Owned
  <2>3. RowsKeep /\ ExecsKeep
    BY <1>1, <2>1, <2>2, RowTouched, Terminalized, Still
  <2> QED
    BY <1>4, <2>3, Still, EffectParts DEF WorkerRenews
<1>5. CASE WorkerCrash(n)
  <2>1. LoopsKeep
    BY <1>5, LoopEnds, Zenon DEF WorkerCrash
  <2> QED
    BY <1>5, <2>1, Still, EffectParts DEF WorkerCrash
<1> QED
  BY <1>3, <1>4, <1>5

(* The boot of an executor.                                                *)
LEMMA BootSteps ==
  ASSUME BaseInv, NEW x \in Executors, Booting(x)
  PROVE  Effect
<1>1. exec[x].status # "absent" /\ proc[x] \in Process
  BY DEF Booting, BootLoad, BootPoll, BootPause, MarkRunning, FailUnhandled, BaseInv,
         ReferenceInv, ExecTypeOK
<1>2. CASE BootLoad(x)
  <2>1. proc' = [proc EXCEPT ![x] = Gone] \/ proc' = [proc EXCEPT ![x].pc = "wait"]
    BY <1>2, Zenon DEF BootLoad
  <2>2. ProcsKeep
    BY <1>1, <2>1, ProcLeaves, ProcMoves
  <2> QED
    BY <1>2, <2>2, Still, EffectParts DEF BootLoad
<1>3. CASE BootPoll(x)
  <2> DEFINE leaves == proc' = [proc EXCEPT ![x] = Gone]
  <2>0. CASE leaves
    <3>1. ProcsKeep
      BY <1>1, <2>0, ProcLeaves, Zenon
    <3> QED
      BY <1>3, <3>1, Still, EffectParts DEF BootPoll
  <2>1. CASE HandedTo(x) /\ ~leaves
    <3> DEFINE a == row[exec[x].job].attempts
               p == [proc[x] EXCEPT !.pc = "claim", !.attempts = a]
    <3>1. row[exec[x].job] \in Row
      BY <1>1 DEF BaseInv, ReferenceInv, ExecTypeOK
    <3>2. a \in Nat /\ proc' = [proc EXCEPT ![x] = p]
      BY <1>3, <2>1, <3>1 DEF Row, BootPoll
    <3> HIDE DEF a
    <3>3. p \in Process /\ p.pc = "claim"
      BY <1>1, <3>2, Zenon DEF Process
    <3> HIDE DEF p
    <3>4. ProcsKeep
      BY <1>1, <2>1, <3>2, <3>3, ProcWritten, Zenon
    <3> QED
      BY <1>3, <3>4, Still, EffectParts DEF BootPoll
  <2>2. CASE ~HandedTo(x) /\ ~leaves
    <3>1. proc' = [proc EXCEPT ![x].pc = "pause"]
      BY <1>3, <2>2 DEF BootPoll
    <3>2. ProcsKeep
      BY <1>1, <3>1, ProcMoves, ZenonT(30)
    <3> QED
      BY <1>3, <3>2, Still, EffectParts DEF BootPoll
  <2> QED
    BY <2>0, <2>1, <2>2
<1>4. CASE BootPause(x)
  <2>1. proc' = [proc EXCEPT ![x].pc = "wait"] \/ CloseWith(x, "failed")
    BY <1>4 DEF BootPause, CloseWith
  <2>2. ProcsKeep
    BY <1>1, <2>1, ProcMoves, ProcCloses DEF TerminalExec
  <2> QED
    BY <1>4, <2>2, Still, EffectParts DEF BootPause
<1>5. CASE MarkRunning(x)
  <2>1. \/ UNCHANGED exec
        \/ /\ exec[x].status \in {"starting", "running"}
           /\ exec' = [exec EXCEPT ![x].status = "running", ![x].fresh = TRUE]
    BY <1>5 DEF MarkRunning
  <2>2. ExecsKeep
    BY <1>1, <2>1, ExecWritten, Still, Zenon DEF ActiveExec, TerminalExec
  <2>3. /\ proc[x].pc = "claim"
        /\ \/ \E pc \in {"run", "unhandled"} : proc' = [proc EXCEPT ![x].pc = pc]
           \/ proc' = [proc EXCEPT ![x] = Gone]
    BY <1>5 DEF MarkRunning
  <2>4. ProcsKeep
    BY <1>1, <2>3, ProcMoves, ProcLeaves DEF Working
  <2> QED
    BY <1>5, <2>2, <2>4, Still, EffectParts DEF MarkRunning
<1>6. CASE FailUnhandled(x)
  <2> DEFINE j == exec[x].job
  <2>1. j \in Jobs /\ Put(j, exec[x].token, Failed(row[j])) /\ CloseWith(x, "failed")
    BY <1>1, <1>6 DEF FailUnhandled, BaseInv, ReferenceInv
  <2>2. Ended(row[j], Failed(row[j]))
    BY <2>1, EndedRows DEF BaseInv, ExecTypeOK
  <2>3. ProcsKeep
    BY <1>1, <2>1, ProcCloses DEF TerminalExec
  <2> HIDE DEF j
  <2>4. RowsKeep
    BY <2>1, <2>2, RowPut
  <2> QED
    BY <1>6, <2>3, <2>4, Still, EffectParts DEF FailUnhandled
<1> QED
  BY <1>2, <1>3, <1>4, <1>5, <1>6 DEF Booting

(* The run of an executor: heartbeats, renewals, drain and return.         *)
LEMMA RunSteps ==
  ASSUME BaseInv, NEW x \in Executors,
         \/ Heartbeat(x) \/ ExecutorRenews(x) \/ MarkDraining(x) \/ HandlerReturns(x)
         \/ MarkDeployBudgetExpired(x) \/ HeartbeatAges(x) \/ Die(x)
  PROVE  Effect
<1> DEFINE j == exec[x].job
<1>1. exec[x].status # "absent" /\ j \in Jobs /\ row[j] \in Row
  BY DEF Heartbeat, ExecutorRenews, MarkDraining, HandlerReturns, MarkDeployBudgetExpired,
         HeartbeatAges, Die, BaseInv, ReferenceInv, ExecTypeOK, ActiveExec
<1>2. ASSUME NEW f \in BOOLEAN, exec[x].status \in ActiveExec,
             exec' = [exec EXCEPT ![x].fresh = f]
      PROVE  ExecsKeep
  <2> DEFINE s == exec[x].status
  <2>1. s \in ActiveExec /\ exec' = [exec EXCEPT ![x].status = s, ![x].fresh = f]
    BY <1>2, Zenon DEF BaseInv, ExecTypeOK, ExecRow
  <2>2. s # "completed"
    BY <2>1 DEF ActiveExec
  <2> QED
    BY <1>1, <2>1, <2>2, ExecWritten, Zenon
<1>3. CASE Heartbeat(x)
  <2>1. ExecsKeep
    BY <1>2, <1>3, Still, Zenon DEF Heartbeat
  <2>2. ProcsKeep
    BY <1>3, ProcLearns, Still DEF Heartbeat, Working
  <2> QED
    BY <1>3, <2>1, <2>2, Still, EffectParts DEF Heartbeat
<1>4. CASE ExecutorRenews(x)
  <2>1. \/ row' = [row EXCEPT ![j] = Renewed(row[j])] /\ UNCHANGED exec
        \/ Owned(row[j], exec[x].token) /\ Terminalize(j)
        \/ UNCHANGED <<row, exec>>
    BY <1>4 DEF ExecutorRenews
  <2>2. /\ proc[x].pc = "run"
        /\ proc' = [proc EXCEPT ![x].lost = TRUE] \/ UNCHANGED proc
    BY <1>4 DEF ExecutorRenews
  <2> HIDE DEF j
  <2>3. Alike(row[j], Renewed(row[j]))
    BY <1>1, TouchedRows, Zenon
  <2>4. Owned(row[j], exec[x].token) => row[j].status = "running"
    BY DEF Owned
  <2>5. RowsKeep /\ ExecsKeep
    BY <1>1, <2>1, <2>3, <2>4, RowTouched, Terminalized, Still
  <2>6. ProcsKeep
    BY <2>2, ProcLearns, Still DEF Working
  <2> QED
    BY <1>4, <2>5, <2>6, Still, EffectParts DEF ExecutorRenews
<1>5. CASE MarkDraining(x) \/ MarkDeployBudgetExpired(x)
  <2>1. exec[x].status \in ActiveExec /\ exec' = [exec EXCEPT ![x].status = "draining"]
    BY <1>5 DEF MarkDraining, MarkDeployBudgetExpired, ActiveExec
  <2>2. ExecsKeep
    BY <2>1, ExecMoves, Zenon DEF ActiveExec
  <2> QED
    BY <1>5, <2>2, Still, EffectParts DEF MarkDraining, MarkDeployBudgetExpired
<1>6. CASE HandlerReturns(x)
  <2>1. CASE CloseWith(x, "lost")
    <3>1. ProcsKeep
      BY <1>1, <2>1, ProcCloses DEF TerminalExec
    <3> QED
      BY <1>6, <3>1, Still, EffectParts DEF HandlerReturns
  <2>2. ASSUME NEW out \in Outcomes,
               proc' = [proc EXCEPT ![x].pc = "finish", ![x].out = out]
        PROVE  Effect
    <3> DEFINE p == [proc[x] EXCEPT !.pc = "finish", !.out = out]
    <3>1. p \in Process /\ proc' = [proc EXCEPT ![x] = p] /\ p.pc = "finish"
      BY <2>2, ZenonT(30) DEF BaseInv, ExecTypeOK, Process
    <3> HIDE DEF p
    <3>2. proc[x].pc \in Working /\ p.pc \in Working
      BY <1>6, <3>1 DEF HandlerReturns, Working
    <3>3. ProcsKeep
      BY <1>1, <3>1, <3>2, ProcWritten, Zenon
    <3> QED
      BY <1>6, <3>3, Still, EffectParts DEF HandlerReturns
  <2> QED
    BY <1>6, <2>1, <2>2 DEF HandlerReturns, CloseWith
<1>7. CASE HeartbeatAges(x)
  <2>1. ExecsKeep
    BY <1>2, <1>7, Zenon DEF HeartbeatAges
  <2> QED
    BY <1>7, <2>1, Still, EffectParts DEF HeartbeatAges
<1>8. CASE Die(x)
  <2>1. ProcsKeep
    BY <1>1, <1>8, ProcLeaves, Zenon DEF Die, Leave
  <2> QED
    BY <1>8, <2>1, Still, EffectParts DEF Die
<1> QED
  BY <1>3, <1>4, <1>5, <1>6, <1>7, <1>8

(* The end of an attempt: the job is written first, then the row.          *)
LEMMA FinishSteps ==
  ASSUME BaseInv, NEW x \in Executors, Finishing(x)
  PROVE  Effect
<1> DEFINE j == exec[x].job
           t == exec[x].token
<1>1. exec[x].status # "absent" /\ j \in Jobs /\ t \in Nat
  BY DEF Finishing, FinishOk, EnsureRetryWindow, FinishDeadLetter, FinishRetry,
         CloseExecutor, BaseInv, ReferenceInv, ExecTypeOK, ExecRow
<1>2. row[j] \in Row
  BY <1>1 DEF BaseInv, ExecTypeOK
<1>3. CASE FinishOk(x)
  <2>1. CASE UNCHANGED <<row, won>> /\ Leave(x)
    <3>1. ProcsKeep
      BY <1>1, <2>1, ProcLeaves, Zenon DEF Leave
    <3> QED
      BY <1>3, <2>1, <3>1, Still, EffectParts DEF FinishOk
  <2>2. ASSUME Owned(row[j], t), row' = [row EXCEPT ![j] = Succeeded(row[j])],
               won' = [won EXCEPT ![j] = won[j] \cup {t}],
               CloseWith(x, "completed") \/ Leave(x)
        PROVE  Effect
    <3>1. Ended(row[j], Succeeded(row[j])) /\ Succeeded(row[j]).status = "succeeded"
      BY <1>2, EndedRows
    <3>2. row[j].status = "running"
      BY <2>2 DEF Owned
    <3>3. RowsKeep
      BY <1>1, <2>2, <3>1, <3>2, RowEnds, Zenon
    <3>4. /\ row'[j].status = "succeeded" /\ won'[j] = won[j] \cup {t}
          /\ won' \in [Jobs -> SUBSET Nat]
      BY <1>1, <2>2, <3>1 DEF BaseInv, ExecTypeOK
    <3>5. \A i \in Jobs \ {j} : won'[i] = won[i]
      BY <2>2 DEF BaseInv, ExecTypeOK
    <3>6. WonEffect(j)
      BY <2>2, <3>4 DEF WonEffect
    <3>7. WonKeeps
      BY <3>4, <3>5, <3>6, Zenon DEF WonEffect, WonKeeps
    <3>8. t \in won'[j]
      BY <3>4
    <3>9. ProcsKeep
      BY <1>1, <2>2, <3>8, ProcCloses, ProcLeaves DEF Leave, TerminalExec
    <3> QED
      BY <1>3, <3>3, <3>7, <3>9, Still, EffectParts DEF FinishOk
  <2> QED
    BY <1>3, <2>1, <2>2 DEF FinishOk
<1>4. CASE EnsureRetryWindow(x)
  <2>1. Put(j, t, WindowStarted(row[j]))
    BY <1>4 DEF EnsureRetryWindow, Put
  <2>2. RowsKeep
    <3>1. Alike(row[j], WindowStarted(row[j]))
      BY <1>2, TouchedRows, Zenon
    <3> HIDE DEF j
    <3> QED
      BY <1>1, <2>1, <3>1, RowPut
  <2>3. ProcsKeep
    <3> DEFINE p == [proc[x] EXCEPT !.out = "retry"]
    <3>1. CASE Leave(x)
      BY <1>1, <3>1, ProcLeaves, Zenon DEF Leave
    <3>2. CASE proc' = [proc EXCEPT ![x].out = "retry"]
      <4>1. p \in Process /\ proc' = [proc EXCEPT ![x] = p] /\ p.pc = proc[x].pc
        BY <3>2 DEF BaseInv, ExecTypeOK, Process, Outcomes
      <4>2. proc[x].pc \in Working
        BY <1>4 DEF EnsureRetryWindow, Working
      <4> HIDE DEF p
      <4> QED
        BY <1>1, <4>1, <4>2, ProcWritten, Zenon
    <3> QED
      BY <1>4, <3>1, <3>2 DEF EnsureRetryWindow
  <2> QED
    BY <1>4, <2>2, <2>3, Still, EffectParts DEF EnsureRetryWindow
<1>5. CASE FinishDeadLetter(x) \/ FinishRetry(x)
  <2>1. PICK q : Ended(row[j], q) /\ Put(j, t, q)
    BY <1>2, <1>5, EndedRows DEF FinishDeadLetter, FinishRetry
  <2>2. CloseWith(x, "failed") \/ CloseWith(x, "requeued")
    BY <1>5 DEF FinishDeadLetter, FinishRetry
  <2>3. ProcsKeep
    BY <1>1, <2>2, ProcCloses DEF TerminalExec
  <2> HIDE DEF j
  <2>4. RowsKeep
    BY <1>1, <2>1, RowPut
  <2> QED
    BY <1>5, <2>3, <2>4, Still, EffectParts DEF FinishDeadLetter, FinishRetry
<1>6. CASE CloseExecutor(x)
  <2>1. proc[x].pc = "close" /\ proc[x].out \in TerminalExec
    BY <1>6 DEF CloseExecutor, BaseInv, ReferenceInv
  <2>2. MarkTerminal(x, t, proc[x].out)
    BY <1>6 DEF CloseExecutor
  <2>3. ExecsKeep
    BY <2>1, <2>2, ExecCloses
  <2>4. ProcsKeep
    BY <1>1, <1>6, ProcLeaves, Zenon DEF CloseExecutor, Leave
  <2> QED
    BY <1>6, <2>3, <2>4, Still, EffectParts DEF CloseExecutor
<1> QED
  BY <1>3, <1>4, <1>5, <1>6 DEF Finishing

(* The recovery of a stale executor.                                       *)
LEMMA ReclaimStep ==
  ASSUME BaseInv, ReclaimLost
  PROVE  Effect
<1>1. PICK x \in Executors : exec[x].status \in ActiveExec /\ Reclaim(x)
  BY DEF ReclaimLost, StaleExecutors
<1> DEFINE j == exec[x].job
<1>2. j \in Jobs /\ row[j] \in Row
  BY <1>1 DEF BaseInv, ReferenceInv, ExecTypeOK, ActiveExec
<1>3. CASE HandedOffStale(x)
  <2>1. /\ row[j].status = "running"
        /\ exec' = [exec EXCEPT ![x].status = "lost"]
        /\ row' = [row EXCEPT ![j] = Reclaimed(row[j])]
    BY <1>1, <1>3 DEF Reclaim, HandedOffStale, Owned
  <2>2. Ended(row[j], Reclaimed(row[j]))
    BY <1>2, EndedRows
  <2> HIDE DEF j
  <2>3. RowsKeep
    BY <1>2, <2>1, <2>2, RowEnds, Zenon
  <2>4. ExecsKeep
    BY <1>1, <2>1, ExecMoves, Zenon DEF TerminalExec
  <2> QED
    BY <1>1, <2>3, <2>4, Still, EffectParts DEF Reclaim
<1>4. CASE ~HandedOffStale(x)
  <2>1. exec' = [exec EXCEPT ![x].status = "failed"] /\ UNCHANGED row
    BY <1>1, <1>4 DEF Reclaim
  <2>2. ExecsKeep
    BY <1>1, <2>1, ExecMoves, Zenon DEF TerminalExec
  <2> QED
    BY <1>1, <2>1, <2>2, Still, EffectParts DEF Reclaim
<1> QED
  BY <1>3, <1>4

(* Every step has the effect.                                              *)
LEMMA StepEffect ==
  ASSUME BaseInv, [Next]_vars
  PROVE  Effect
<1>1. CASE UNCHANGED vars
  BY <1>1, Still, EffectParts DEF vars
<1>2. CASE Next
  BY <1>2, JobSteps, ClaimStep, ReserveSteps, LaunchSteps, HandoffStep, LoopSteps,
     BootSteps, RunSteps, FinishSteps, ReclaimStep
     DEF Next, Dispatching
<1> QED
  BY <1>1, <1>2

-----------------------------------------------------------------------------
(* A token is held by a row exactly while it runs and was never issued in  *)
(* the future; at most one worker loop and one executor row carry it; the  *)
(* row that a loop reserved carries the loop's, and one that has not       *)
(* reserved yet finds its token on no row.                                 *)
TokenInv ==
  /\ \A j \in Jobs :
       /\ row[j].token < nextToken
       /\ row[j].status = "running" <=> row[j].token # NoToken
  /\ \A n \in Nodes :
       /\ disp[n].token < nextToken
       /\ disp[n].pc = "idle" <=> disp[n].token = NoToken
       /\ disp[n].pc \in Attached => exec[disp[n].exec].token = disp[n].token
       /\ disp[n].pc \in {"clear", "create"} =>
            \A x \in Executors : exec[x].token # disp[n].token
  /\ \A x \in Executors :
       /\ exec[x].token < nextToken
       /\ exec[x].status = "absent" <=> exec[x].token = NoToken
  /\ \A m, n \in Nodes : disp[m].token = disp[n].token /\ disp[m].token # NoToken => m = n
  /\ \A x, y \in Executors :
       exec[x].token = exec[y].token /\ exec[x].token # NoToken => x = y

(* Successes are recorded once, for a job that stays succeeded, and before *)
(* the executor row is completed.                                          *)
WonInv ==
  /\ \A j \in Jobs : won[j] # {} => row[j].status = "succeeded"
  /\ \A x \in Executors :
       proc[x].pc = "close" /\ proc[x].out = "completed" =>
         exec[x].token \in won[exec[x].job]

ExecutorInv ==
  BaseInv /\ TokenInv /\ WonInv /\ RunsOnlyWhatItOwns /\ CompletedMeansSucceeded

(* The invariant holds initially.                                          *)
LEMMA ExecutorInit == Init => ExecutorInv
<1> SUFFICES ASSUME Init PROVE ExecutorInv
  OBVIOUS
<1>1. NoRow \in Row /\ NoExec \in ExecRow /\ IdleDispatcher \in Dispatcher
      /\ NoProcess \in Process
  BY NewRows DEF NoExec, ExecRow, IdleDispatcher, Dispatcher, NoProcess, Process, NoToken
<1>2. ExecTypeOK
  BY <1>1 DEF Init, ExecTypeOK
<1>3. /\ \A n \in Nodes : disp[n].pc = "idle" /\ disp[n].token = NoToken
      /\ \A x \in Executors :
           /\ exec[x].status = "absent" /\ exec[x].token = NoToken
           /\ proc[x].pc = "none"
      /\ \A j \in Jobs : row[j].status = "absent" /\ row[j].token = NoToken /\ won[j] = {}
  BY NewRows DEF Init, IdleDispatcher, NoExec, NoProcess
<1>4. ReferenceInv
  BY <1>3 DEF ReferenceInv, Attached
<1>5. TokenInv
  BY <1>3 DEF TokenInv, Attached, Init, NoToken
<1>6. WonInv /\ RunsOnlyWhatItOwns /\ CompletedMeansSucceeded
  BY <1>3 DEF WonInv, RunsOnlyWhatItOwns, CompletedMeansSucceeded
<1> QED
  BY <1>2, <1>4, <1>5, <1>6 DEF ExecutorInv, BaseInv

(* A row that exists is not reserved again, so it keeps job and token.     *)
LEMMA ExistingKeeps ==
  ASSUME Effect, NEW x \in Executors, exec[x].status # "absent"
  PROVE  Keeps(x)
BY Zenon DEF Effect, ExecEffect, Reserves

(* A loop that reserves leaves a starting row with its job and token.      *)
LEMMA Reserved ==
  ASSUME BaseInv, NEW n \in Nodes, NEW x \in Executors, Reserves(n, x)
  PROVE  /\ exec'[x].status = "starting" /\ exec'[x].job = disp[n].job
         /\ exec'[x].token = disp[n].token
         /\ \A y \in Executors \ {x} : exec'[y] = exec[y]
         /\ disp'[n].pc \in {"launch", "error"} /\ disp'[n].job = disp[n].job
         /\ disp'[n].pc = "launch" => disp'[n].exec = x
         /\ disp'[n].token = disp[n].token
         /\ \A m \in Nodes \ {n} : disp'[m] = disp[m]
BY DEF Reserves, BaseInv, ExecTypeOK, Dispatcher

(* A loop that takes a token is the only one that moves.                   *)
LEMMA Taken ==
  ASSUME BaseInv, NEW n \in Nodes, Takes(n)
  PROVE  /\ disp'[n].pc = "clear" /\ disp'[n].job \in Jobs /\ disp'[n].token = nextToken
         /\ \A m \in Nodes \ {n} : disp'[m] = disp[m]
BY DEF Takes, BaseInv, ExecTypeOK

(* References survive every step.                                          *)
LEMMA ReferenceStep ==
  ASSUME BaseInv, Effect
  PROVE  BaseInv'
<1>1. \A x \in Executors : exec[x].status # "absent" =>
        exec'[x].status # "absent" /\ exec'[x].job = exec[x].job
  BY ExistingKeeps DEF Keeps
<1>2. ASSUME NEW n \in Nodes
      PROVE  /\ disp'[n].pc # "idle" => disp'[n].job \in Jobs
             /\ disp'[n].pc \in Attached =>
                  disp'[n].exec \in Executors /\ exec'[disp'[n].exec].status # "absent"
  <2>1. CASE disp'[n] = disp[n]
    BY <1>1, <2>1 DEF BaseInv, ReferenceInv
  <2>2. CASE disp'[n] = IdleDispatcher
    BY <2>2 DEF IdleDispatcher, Attached
  <2>3. CASE Takes(n)
    BY <2>3, Taken DEF Attached
  <2>4. ASSUME NEW x \in Executors, Reserves(n, x)
        PROVE  /\ disp'[n].job \in Jobs
               /\ disp'[n].pc \in Attached =>
                    disp'[n].exec \in Executors /\ exec'[disp'[n].exec].status # "absent"
    <3>1. disp[n].job \in Jobs
      BY <2>4 DEF Reserves, BaseInv, ReferenceInv
    <3> QED
      BY <2>4, <3>1, Reserved DEF Attached
  <2>5. CASE /\ disp[n].pc # "idle" /\ disp'[n].job = disp[n].job
             /\ disp'[n].exec = disp[n].exec
             /\ disp'[n].pc \in Attached => disp[n].pc \in Attached
    BY <1>1, <2>5 DEF BaseInv, ReferenceInv
  <2> QED
    BY <2>1, <2>2, <2>3, <2>4, <2>5 DEF Effect, LoopEffect
<1>3. ASSUME NEW x \in Executors
      PROVE  exec'[x].status # "absent" => exec'[x].job \in Jobs
  <2>1. CASE Keeps(x)
    BY <2>1 DEF Keeps, BaseInv, ReferenceInv
  <2>2. ASSUME NEW n \in Nodes, Reserves(n, x)
        PROVE  exec'[x].job \in Jobs
    <3>1. disp[n].job \in Jobs
      BY <2>2 DEF Reserves, BaseInv, ReferenceInv
    <3> QED
      BY <2>2, <3>1, Reserved
  <2> QED
    BY <2>1, <2>2 DEF Effect, ExecEffect
<1>4. ASSUME NEW x \in Executors
      PROVE  /\ proc'[x].pc # "none" => exec'[x].status # "absent"
             /\ proc'[x].pc = "close" => proc'[x].out \in TerminalExec
  BY <1>1 DEF Effect, ProcEffect, BaseInv, ReferenceInv, Working
<1> QED
  BY <1>2, <1>3, <1>4 DEF Effect, BaseInv, ReferenceInv

(* Tokens survive every step.                                              *)
LEMMA TokenStep ==
  ASSUME BaseInv, TokenInv, Effect
  PROVE  TokenInv'
<1>0. /\ nextToken \in Nat \ {0} /\ nextToken' \in {nextToken, nextToken + 1}
      /\ \A n \in Nodes : disp[n].token \in Nat /\ disp'[n].token \in Nat
      /\ \A x \in Executors : exec[x].token \in Nat /\ exec'[x].token \in Nat
      /\ \A j \in Jobs : row[j].token \in Nat /\ row'[j].token \in Nat
  BY DEF BaseInv, Effect, ExecTypeOK, Row, Dispatcher, ExecRow
<1>1. ASSUME NEW j \in Jobs
      PROVE  /\ row'[j].token < nextToken'
             /\ row'[j].status = "running" <=> row'[j].token # NoToken
  BY <1>0 DEF Effect, RowEffect, Alike, Ended, Owned, TokenInv, NoToken
<1>2. ASSUME NEW x \in Executors
      PROVE  /\ exec'[x].token < nextToken'
             /\ exec'[x].status = "absent" <=> exec'[x].token = NoToken
  <2>1. CASE Keeps(x)
    BY <1>0, <2>1 DEF Keeps, TokenInv
  <2>2. ASSUME NEW n \in Nodes, Reserves(n, x)
        PROVE  /\ exec'[x].token < nextToken'
               /\ exec'[x].status = "absent" <=> exec'[x].token = NoToken
    <3>1. disp[n].token < nextToken /\ disp[n].token # NoToken
      BY <2>2 DEF Reserves, TokenInv
    <3> QED
      BY <1>0, <2>2, <3>1, Reserved
  <2> QED
    BY <2>1, <2>2 DEF Effect, ExecEffect
<1>3. \A x \in Executors : exec[x].token # NoToken => exec'[x].token = exec[x].token
  BY ExistingKeeps DEF TokenInv, Keeps
<1>4. ASSUME NEW n \in Nodes
      PROVE  /\ disp'[n].token < nextToken'
             /\ disp'[n].pc = "idle" <=> disp'[n].token = NoToken
             /\ disp'[n].pc \in Attached => exec'[disp'[n].exec].token = disp'[n].token
  <2>0. disp[n].pc \in Attached =>
          /\ disp[n].exec \in Executors
          /\ exec'[disp[n].exec].token = disp[n].token
    BY <1>3 DEF BaseInv, ReferenceInv, TokenInv, Attached
  <2>1. CASE disp'[n] = disp[n]
    BY <1>0, <2>0, <2>1 DEF TokenInv
  <2>2. CASE disp'[n] = IdleDispatcher
    BY <1>0, <2>2 DEF IdleDispatcher, Attached, NoToken
  <2>3. CASE Takes(n)
    <3>1. nextToken' = nextToken + 1
      BY <2>3 DEF Takes
    <3> QED
      BY <1>0, <2>3, <3>1, Taken DEF Attached, NoToken
  <2>4. ASSUME NEW x \in Executors, Reserves(n, x)
        PROVE  /\ disp'[n].token < nextToken'
               /\ disp'[n].pc = "idle" <=> disp'[n].token = NoToken
               /\ disp'[n].pc \in Attached => exec'[disp'[n].exec].token = disp'[n].token
    <3>1. disp[n].token < nextToken /\ disp[n].token # NoToken
      BY <2>4 DEF Reserves, TokenInv
    <3> QED
      BY <1>0, <2>4, <3>1, Reserved DEF Attached
  <2>5. CASE /\ disp[n].pc # "idle" /\ disp'[n].token = disp[n].token
             /\ disp'[n].exec = disp[n].exec /\ disp'[n].pc \notin {"idle", "clear"}
             /\ disp'[n].pc \in Attached => disp[n].pc \in Attached
    BY <1>0, <2>0, <2>5 DEF TokenInv
  <2> QED
    BY <2>1, <2>2, <2>3, <2>4, <2>5 DEF Effect, LoopEffect
<1>5. ASSUME NEW n \in Nodes
      PROVE  \/ disp'[n].token \in {disp[n].token, NoToken}
             \/ Takes(n) /\ disp'[n].token = nextToken
  <2>1. CASE disp'[n] = IdleDispatcher
    BY <2>1 DEF IdleDispatcher
  <2>2. CASE Takes(n)
    BY <2>2, Taken
  <2>3. ASSUME NEW x \in Executors, Reserves(n, x)
        PROVE  disp'[n].token = disp[n].token
    BY <2>3, Reserved
  <2> QED
    BY <2>1, <2>2, <2>3 DEF Effect, LoopEffect
<1>6. ASSUME NEW m \in Nodes, NEW n \in Nodes,
             disp'[m].token = disp'[n].token, disp'[m].token # NoToken
      PROVE  m = n
  <2>0. /\ \A i \in Nodes : disp[i].token < nextToken
        /\ disp[m].token = disp[n].token /\ disp[m].token # NoToken => m = n
    BY DEF TokenInv
  <2>1. CASE Takes(m) /\ disp'[m].token = nextToken
    <3>1. m # n => disp'[n].token = disp[n].token
      BY <2>1, Taken
    <3> QED
      BY <1>0, <1>6, <2>0, <2>1, <3>1
  <2>2. CASE Takes(n) /\ disp'[n].token = nextToken
    <3>1. m # n => disp'[m].token = disp[m].token
      BY <2>2, Taken
    <3> QED
      BY <1>0, <1>6, <2>0, <2>2, <3>1
  <2>3. CASE disp'[m].token = disp[m].token /\ disp'[n].token = disp[n].token
    BY <1>6, <2>0, <2>3, Zenon
  <2> QED
    BY <1>5, <1>6, <2>1, <2>2, <2>3
<1>7. ASSUME NEW x \in Executors, NEW y \in Executors,
             exec'[x].token = exec'[y].token, exec'[x].token # NoToken
      PROVE  x = y
  <2>1. ASSUME NEW n \in Nodes, NEW z \in Executors, Reserves(n, z)
        PROVE  x = y
    <3>1. \A w \in Executors : exec[w].token # disp[n].token
      BY <2>1 DEF Reserves, TokenInv
    <3>2. exec'[z].token = disp[n].token /\ \A w \in Executors \ {z} : exec'[w] = exec[w]
      BY <2>1, Reserved
    <3> QED
      BY <1>7, <3>1, <3>2 DEF TokenInv
  <2>2. CASE Keeps(x) /\ Keeps(y)
    BY <1>7, <2>2, ZenonT(60) DEF Keeps, TokenInv
  <2> QED
    BY <2>1, <2>2 DEF Effect, ExecEffect
<1>8. ASSUME NEW n \in Nodes, disp'[n].pc \in {"clear", "create"}, NEW x \in Executors
      PROVE  exec'[x].token # disp'[n].token
  <2>0. disp'[n].token # NoToken
    BY <1>4, <1>8
  <2>1. \/ disp[n].pc \in {"clear", "create"} /\ disp'[n].token = disp[n].token
        \/ Takes(n) /\ disp'[n].token = nextToken
    <3>1. CASE disp'[n] = disp[n]
      BY <1>8, <3>1
    <3>2. CASE disp'[n] = IdleDispatcher
      BY <1>8, <3>2 DEF IdleDispatcher
    <3>3. CASE Takes(n)
      BY <3>3, Taken
    <3>4. ASSUME NEW y \in Executors, Reserves(n, y)
          PROVE  FALSE
      BY <1>8, <3>4, Reserved
    <3>5. CASE /\ disp'[n].token = disp[n].token /\ disp'[n].pc \notin {"idle", "clear"}
               /\ disp'[n].pc = "create" => disp[n].pc = "clear"
      BY <1>8, <3>5
    <3> QED
      BY <3>1, <3>2, <3>3, <3>4, <3>5 DEF Effect, LoopEffect
  <2>2. CASE Keeps(x)
    BY <1>0, <2>1, <2>2 DEF Keeps, TokenInv
  <2>3. ASSUME NEW m \in Nodes, Reserves(m, x)
        PROVE  exec'[x].token # disp'[n].token
    <3>1. exec'[x].token = disp[m].token /\ disp'[m].token = disp[m].token
          /\ disp'[m].pc \in {"launch", "error"}
      BY <2>3, Reserved
    <3>2. m # n
      BY <1>8, <3>1
    <3> QED
      BY <1>6, <2>0, <3>1, <3>2
  <2> QED
    BY <2>2, <2>3 DEF Effect, ExecEffect
<1> QED
  BY <1>1, <1>2, <1>4, <1>6, <1>7, <1>8 DEF TokenInv

(* Only the owner works: a process begins when its row is the recorded     *)
(* owner, and a handoff to another row would need a second row with the    *)
(* same token.                                                             *)
LEMMA OwnerStep ==
  ASSUME BaseInv, TokenInv, RunsOnlyWhatItOwns, Effect
  PROVE  RunsOnlyWhatItOwns'
<1> SUFFICES ASSUME NEW x \in Executors, proc'[x].pc \in Working,
                    Owned(row'[exec'[x].job], exec'[x].token)
             PROVE  /\ row'[exec'[x].job].kind = "session_executor"
                    /\ row'[exec'[x].job].owner = x
  BY DEF RunsOnlyWhatItOwns, Working
<1> DEFINE j == exec[x].job
           t == exec[x].token
<1>1. exec[x].status # "absent"
  BY DEF Effect, ProcEffect, BaseInv, ReferenceInv, Working
<1>2. exec'[x].job = j /\ exec'[x].token = t /\ j \in Jobs
  BY <1>1, ExistingKeeps DEF Keeps, BaseInv, ReferenceInv
<1>3. t # NoToken /\ t < nextToken /\ t \in Nat /\ nextToken \in Nat
  BY <1>1 DEF TokenInv, BaseInv, ExecTypeOK, ExecRow
<1>4. Owned(row'[j], t)
  BY <1>2
<1>5. proc[x].pc \in Working \/ HandedTo(x)
  BY DEF Effect, ProcEffect, Working
<1>6. CASE Alike(row[j], row'[j])
  <2>1. Owned(row[j], t)
    BY <1>4, <1>6 DEF Alike, Owned
  <2>2. row[j].kind = "session_executor" /\ row[j].owner = x
    BY <1>5, <2>1 DEF RunsOnlyWhatItOwns, HandedTo, Working
  <2> QED
    BY <1>2, <1>6, <2>2 DEF Alike
<1>7. CASE Ended(row[j], row'[j])
  BY <1>3, <1>4, <1>7 DEF Ended, Owned
<1>8. CASE row'[j].token = nextToken
  BY <1>3, <1>4, <1>8 DEF Owned
<1>9. ASSUME NEW n \in Nodes, disp[n].pc = "handoff",
             Owned(row'[j], disp[n].token),
             row'[j].kind = "session_executor", row'[j].owner = disp[n].exec
      PROVE  row'[j].kind = "session_executor" /\ row'[j].owner = x
  <2>1. disp[n].token = t
    BY <1>4, <1>9 DEF Owned
  <2>2. disp[n].exec \in Executors /\ exec[disp[n].exec].token = t
    BY <1>9, <2>1 DEF BaseInv, ReferenceInv, TokenInv, Attached
  <2>3. disp[n].exec = x
    BY <1>3, <2>2 DEF TokenInv
  <2> QED
    BY <1>9, <2>3
<1>10. RowEffect(j)
  BY <1>2 DEF Effect
<1>11. CASE \E n \in Nodes :
               /\ disp[n].pc = "handoff" /\ Owned(row'[j], disp[n].token)
               /\ row'[j].kind = "session_executor" /\ row'[j].owner = disp[n].exec
  BY <1>2, <1>9, <1>11
<1> QED
  BY <1>6, <1>7, <1>8, <1>10, <1>11 DEF RowEffect

(* Successes survive every step.                                           *)
LEMMA WonStep ==
  ASSUME BaseInv, TokenInv, WonInv, CompletedMeansSucceeded, Effect
  PROVE  WonInv' /\ CompletedMeansSucceeded'
<1>1. ASSUME NEW j \in Jobs
      PROVE  /\ won[j] \subseteq won'[j]
             /\ won'[j] # {} => row'[j].status = "succeeded"
             /\ \A s, t \in won'[j] : s = t
  <2>1. CASE won'[j] = won[j]
    <3>1. row[j].status = "succeeded" => row'[j].status = "succeeded"
      BY DEF Effect, RowEffect, Alike, Owned
    <3> QED
      BY <2>1, <3>1 DEF WonInv, CompletedMeansSucceeded
  <2>2. ASSUME NEW x \in Executors, Owned(row[j], exec[x].token),
               row'[j].status = "succeeded", won'[j] = won[j] \cup {exec[x].token}
        PROVE  /\ won[j] \subseteq won'[j]
               /\ row'[j].status = "succeeded"
               /\ \A s, t \in won'[j] : s = t
    <3>1. won[j] = {}
      BY <2>2 DEF WonInv, Owned
    <3> QED
      BY <2>2, <3>1
  <2> QED
    BY <2>1, <2>2 DEF Effect, WonEffect
<1>2. ASSUME NEW x \in Executors, proc'[x].pc = "close", proc'[x].out = "completed"
      PROVE  exec'[x].token \in won'[exec'[x].job]
  <2>1. exec[x].status # "absent" /\ exec[x].token \in won'[exec[x].job]
    <3>1. CASE proc'[x] = proc[x]
      <4>1. exec[x].status # "absent" /\ exec[x].job \in Jobs
        BY <1>2, <3>1 DEF BaseInv, ReferenceInv
      <4>2. exec[x].token \in won[exec[x].job]
        BY <1>2, <3>1 DEF WonInv
      <4> QED
        BY <1>1, <4>1, <4>2
    <3>2. CASE proc'[x] # proc[x]
      BY <1>2, <3>2 DEF Effect, ProcEffect, Working
    <3> QED
      BY <3>1, <3>2
  <2> QED
    BY <2>1, ExistingKeeps DEF Keeps
<1>3. ASSUME NEW x \in Executors, exec'[x].status = "completed"
      PROVE  exec'[x].token \in won'[exec'[x].job]
  <2>1. Keeps(x)
    <3>1. ASSUME NEW n \in Nodes, Reserves(n, x)
          PROVE  FALSE
      BY <1>3, <3>1, Reserved
    <3> QED
      BY <3>1 DEF Effect, ExecEffect
  <2>2. exec[x].token \in won[exec[x].job] /\ exec[x].status # "absent"
    BY <1>3, <2>1 DEF Keeps, WonInv, CompletedMeansSucceeded
  <2>3. exec[x].job \in Jobs
    BY <2>2 DEF BaseInv, ReferenceInv
  <2> QED
    BY <1>1, <2>1, <2>2, <2>3 DEF Keeps
<1> QED
  BY <1>1, <1>2, <1>3 DEF WonInv, CompletedMeansSucceeded

(* The invariant is inductive.                                             *)
LEMMA ExecutorStep == ExecutorInv /\ [Next]_vars => ExecutorInv'
<1> SUFFICES ASSUME ExecutorInv, [Next]_vars PROVE ExecutorInv'
  OBVIOUS
<1>1. Effect
  BY StepEffect DEF ExecutorInv
<1> QED
  BY <1>1, ReferenceStep, TokenStep, OwnerStep, WonStep DEF ExecutorInv

-----------------------------------------------------------------------------
(* Both tables and every process keep their types.                         *)
THEOREM ExecutorTypes == Spec => []ExecTypeOK
<1>1. ExecutorInv => ExecTypeOK
  BY DEF ExecutorInv, BaseInv
<1> QED
  BY <1>1, ExecutorInit, ExecutorStep, PTL DEF Spec

(* However many workers, jobs and executors there are: a process executes  *)
(* under a job's current token only if its row is the recorded owner, so   *)
(* no turn is run by two executors (waitForRunningJob, HandoffToSession-   *)
(* Executor).                                                              *)
THEOREM ExecutorOwnership == Spec => []RunsOnlyWhatItOwns
<1>1. ExecutorInv => RunsOnlyWhatItOwns
  BY DEF ExecutorInv
<1> QED
  BY <1>1, ExecutorInit, ExecutorStep, PTL DEF Spec

(* An executor row is completed only after the success of its attempt was  *)
(* recorded, and no job succeeds under two tokens (finishAttempt).         *)
THEOREM ExecutorSuccess == Spec => []CompletedMeansSucceeded
<1>1. ExecutorInv => CompletedMeansSucceeded
  BY DEF ExecutorInv
<1> QED
  BY <1>1, ExecutorInit, ExecutorStep, PTL DEF Spec

(* A closed executor row never changes its status again (the status lists  *)
(* of the fenced statements of SessionExecutorStore).                      *)
THEOREM ExecutorFinality == Spec => TerminalIsFinal
<1>1. ExecutorInv /\ [Next]_vars =>
        [\A x \in Executors :
           exec[x].status \in TerminalExec => exec'[x].status = exec[x].status]_vars
  <2> SUFFICES ASSUME ExecutorInv, [Next]_vars, NEW x \in Executors,
                      exec[x].status \in TerminalExec
               PROVE  exec'[x].status = exec[x].status
    OBVIOUS
  <2>1. Effect
    BY StepEffect DEF ExecutorInv
  <2>2. exec[x].status # "absent"
    BY DEF TerminalExec
  <2> QED
    BY <2>1, <2>2, ExistingKeeps DEF Keeps
<1> QED
  BY <1>1, ExecutorInit, ExecutorStep, PTL DEF Spec, TerminalIsFinal

=============================================================================
