------------------------ MODULE CoordinationProofs ------------------------
(***************************************************************************)
(* How processes hold things for a while and give them up.                 *)
(*                                                                         *)
(* Of NodeLifecycle, for any set of nodes: a recorded drain closes         *)
(* admission and a drained process does not advertise its node again but   *)
(* by a heartbeat read before the drain.                                   *)
(*                                                                         *)
(* Of RetirementSeal, for any number of owners, sealers and control        *)
(* writers: a seal excludes jobs and previews, misses no other owner that  *)
(* its count could see, is permanent and rests on a drain; and admissions, *)
(* row updates and sealers never wait in a circle.                         *)
(*                                                                         *)
(* Of LeaseRenewal: FencedBeforeReclaim for every lease, renewal interval, *)
(* timeout and cancellation delay.  The loop's timer stands at its last    *)
(* confirmed expiry, the clock never passes it while the handler runs, and *)
(* the row's lease is never shorter than the one the loop believes in.     *)
(* Then OneFailureTolerated, for durations with the margins of the         *)
(* defaults: attempts start exactly at the ticks, and two more ticks lie   *)
(* before the expiry that was last confirmed.                              *)
(*                                                                         *)
(* Of SchedulerLock: LockNeverPooled for every set of replicas and size of *)
(* their pools.                                                            *)
(***************************************************************************)
EXTENDS NodeLifecycle, RetirementSeal, LeaseRenewal, SchedulerLock, TLAPS

(* Leaves are given half a minute of each prover. *)
USE SMTT(30), ZenonT(30)

-----------------------------------------------------------------------------
(* The node registry.                                                        *)

(* What a process knows when it has drained: its latch is set, so every    *)
(* heartbeat read from then on says draining.                              *)
LatchInv ==
  \A n \in Nodes :
    /\ proc[n].watch \in {"latched", "done"} => proc[n].latched
    /\ proc[n].term \in {"latched", "done"} => proc[n].latched
    /\ \A b \in proc[n].beats : b.after => b.says = "draining"

NodeInv == NodeTypeOK /\ IntentClosesAdmission /\ LatchInv

(* Before any registration the invariant holds.                            *)
LEMMA NodeInitInv == NodeInit => NodeInv
BY DEF NodeInit, NodeInv, NodeTypeOK, IntentClosesAdmission, LatchInv, AbsentRow,
       DownProc, NodeRow, NodeStatus, Proc, Beat

(* Every step keeps the types of the registry and of the processes.        *)
LEMMA NodeTypeStep ==
  ASSUME NodeTypeOK, [NodeNext]_nodeVars
  PROVE  NodeTypeOK'
<1> USE DEF NodeTypeOK
<1>1. CASE UNCHANGED nodeVars
  BY <1>1 DEF nodeVars
<1>2. CASE MarkStaleNodesDead
  BY <1>2 DEF MarkStaleNodesDead, StaleNodes, NodeRow, NodeStatus
<1>3. ASSUME NEW n \in Nodes, NodeStep(n)
      PROVE  NodeTypeOK'
  <2>1. nodeRow[n] \in NodeRow /\ proc[n] \in Proc
    OBVIOUS
  <2>2. CASE HeartbeatRead(n)
    <3>1. Drained(n) \in BOOLEAN
      BY DEF Drained
    <3> DEFINE b == [says |-> IF proc[n].latched THEN "draining" ELSE "active",
                     after |-> Drained(n)]
    <3>2. b \in Beat
      BY <3>1 DEF Beat
    <3>3. /\ proc' = [proc EXCEPT ![n].beats = @ \cup {b}]
          /\ UNCHANGED nodeRow
      BY <2>2 DEF HeartbeatRead
    <3> HIDE DEF b
    <3>4. \A m \in Nodes : proc'[m] \in Proc
      BY <2>1, <3>2, <3>3 DEF Proc
    <3> QED
      BY <3>3, <3>4, Zenon
  <2>3. CASE Register(n)
    <3>1. \A m \in Nodes : nodeRow'[m] \in NodeRow
      BY <2>1, <2>3 DEF Register, NodeRow, NodeStatus
    <3>2. \A m \in Nodes : proc'[m] \in Proc
      BY <2>1, <2>3, Zenon DEF Register, FreshProc, DownProc, Proc
    <3> QED
      BY <2>3, <3>1, <3>2, Zenon DEF Register
  <2>4. CASE HeartbeatWrite(n)
    <3>1. \A m \in Nodes : nodeRow'[m] \in NodeRow
      <4>1. PICK b \in proc[n].beats :
              nodeRow' = [nodeRow EXCEPT ![n] = BeatenRow(@, b.says)]
        BY <2>4, Zenon DEF HeartbeatWrite
      <4>2. b.says \in {"active", "draining"}
        BY <2>1, <4>1 DEF Proc, Beat
      <4>3. BeatenRow(nodeRow[n], b.says) \in NodeRow
        BY <2>1, <4>2, Zenon DEF BeatenRow, NodeRow, NodeStatus
      <4> QED
        BY <4>1, <4>3
    <3>2. \A m \in Nodes : proc'[m] \in Proc
      BY <2>1, <2>4 DEF HeartbeatWrite, Proc
    <3> QED
      BY <2>4, <3>1, <3>2 DEF HeartbeatWrite
  <2>5. CASE HeartbeatFail(n)
    <3>1. \A m \in Nodes : proc'[m] \in Proc
      BY <2>1, <2>5 DEF HeartbeatFail, Proc
    <3> QED
      BY <2>5, <3>1 DEF HeartbeatFail
  <2>6. CASE WatchRead(n)
    <3>1. \A m \in Nodes : proc'[m] \in Proc
      BY <2>1, <2>6 DEF WatchRead, Proc
    <3> QED
      BY <2>6, <3>1 DEF WatchRead
  <2>7. CASE WatchLatch(n)
    <3>1. \A m \in Nodes : proc'[m] \in Proc
      BY <2>1, <2>7, Zenon DEF WatchLatch, Proc
    <3> QED
      BY <2>7, <3>1 DEF WatchLatch
  <2>8. CASE WatchStop(n)
    <3>1. \A m \in Nodes : proc'[m] \in Proc
      BY <2>1, <2>8, Zenon DEF WatchStop, Proc
    <3> QED
      BY <2>8, <3>1 DEF WatchStop
  <2>9. CASE ShutdownStop(n)
    <3>1. \A m \in Nodes : proc'[m] \in Proc
      BY <2>1, <2>9, Zenon DEF ShutdownStop, Proc
    <3> QED
      BY <2>9, <3>1 DEF ShutdownStop
  <2>10. CASE ShutdownLatch(n)
    <3>1. \A m \in Nodes : proc'[m] \in Proc
      BY <2>1, <2>10, Zenon DEF ShutdownLatch, Proc
    <3> QED
      BY <2>10, <3>1 DEF ShutdownLatch
  <2>11. CASE ShutdownWrite(n)
    <3>1. \A m \in Nodes : nodeRow'[m] \in NodeRow
      BY <2>1, <2>11 DEF ShutdownWrite, NodeRow, NodeStatus
    <3>2. \A m \in Nodes : proc'[m] \in Proc
      BY <2>1, <2>11 DEF ShutdownWrite, Proc
    <3> QED
      BY <2>11, <3>1, <3>2 DEF ShutdownWrite
  <2>12. CASE Exit(n)
    <3>1. \A m \in Nodes : proc'[m] \in Proc
      BY <2>1, <2>12 DEF Exit, DownProc, Proc
    <3> QED
      BY <2>12, <3>1 DEF Exit
  <2>13. CASE MarkDraining(n)
    <3>1. \A m \in Nodes : nodeRow'[m] \in NodeRow
      <4>1. CASE nodeRow' = [nodeRow EXCEPT ![n].status = "draining", ![n].intent = TRUE]
        BY <2>1, <4>1, Zenon DEF NodeRow, NodeStatus
      <4>2. CASE nodeRow' = [nodeRow EXCEPT ![n].status = "draining", ![n].intent = FALSE]
        BY <2>1, <4>2, Zenon DEF NodeRow, NodeStatus
      <4> QED
        BY <2>13, <4>1, <4>2, Zenon DEF MarkDraining
    <3> QED
      BY <2>13, <3>1 DEF MarkDraining
  <2>14. CASE ResumeOnRestart(n)
    <3>1. \A m \in Nodes : nodeRow'[m] \in NodeRow
      BY <2>1, <2>14, Zenon DEF ResumeOnRestart, NodeRow, NodeStatus
    <3> QED
      BY <2>14, <3>1 DEF ResumeOnRestart
  <2>15. CASE HeartbeatAges(n)
    <3>1. \A m \in Nodes : nodeRow'[m] \in NodeRow
      BY <2>1, <2>15, Zenon DEF HeartbeatAges, NodeRow, NodeStatus
    <3> QED
      BY <2>15, <3>1, Zenon DEF HeartbeatAges
  <2> QED
    BY <1>3, <2>2, <2>3, <2>4, <2>5, <2>6, <2>7, <2>8, <2>9,
       <2>10, <2>11, <2>12, <2>13, <2>14, <2>15 DEF NodeStep
<1> QED
  BY <1>1, <1>2, <1>3 DEF NodeNext

(* The invariant is inductive.  A step touches one node, or only the rows. *)
LEMMA NodeStepInv ==
  ASSUME NodeInv, [NodeNext]_nodeVars
  PROVE  NodeInv'
<1> USE DEF NodeInv
<1>1. NodeTypeOK'
  BY NodeTypeStep
<1>2. IntentClosesAdmission' /\ LatchInv'
  <2> USE DEF IntentClosesAdmission, LatchInv
  <2> USE DEF NodeTypeOK, NodeRow, NodeStatus, Proc, Beat
  <2>1. CASE UNCHANGED nodeVars
    BY <2>1 DEF nodeVars
  <2>2. CASE MarkStaleNodesDead
    BY <2>2 DEF MarkStaleNodesDead, StaleNodes
  <2>3. ASSUME NEW n \in Nodes, NodeStep(n)
        PROVE  IntentClosesAdmission' /\ LatchInv'
    <3>1. CASE Register(n)
      BY <3>1 DEF Register, FreshProc, DownProc
    <3>2. CASE HeartbeatRead(n)
      BY <3>2 DEF HeartbeatRead, Drained
    <3>3. CASE HeartbeatWrite(n)
      BY <3>3 DEF HeartbeatWrite, BeatenRow
    <3>4. CASE HeartbeatFail(n)
      BY <3>4 DEF HeartbeatFail
    <3>5. CASE WatchRead(n)
      BY <3>5 DEF WatchRead
    <3>6. CASE WatchLatch(n)
      BY <3>6 DEF WatchLatch
    <3>7. CASE WatchStop(n)
      BY <3>7 DEF WatchStop
    <3>8. CASE ShutdownStop(n)
      BY <3>8 DEF ShutdownStop
    <3>9. CASE ShutdownLatch(n)
      BY <3>9 DEF ShutdownLatch
    <3>10. CASE ShutdownWrite(n)
      <4>1. LatchInv'
        BY <3>10 DEF ShutdownWrite
      <4>2. IntentClosesAdmission'
        BY <3>10 DEF ShutdownWrite
      <4> QED
        BY <4>1, <4>2
    <3>11. CASE Exit(n)
      BY <3>11 DEF Exit, DownProc
    <3>12. CASE MarkDraining(n)
      BY <3>12 DEF MarkDraining
    <3>13. CASE ResumeOnRestart(n)
      BY <3>13 DEF ResumeOnRestart
    <3>14. CASE HeartbeatAges(n)
      BY <3>14 DEF HeartbeatAges
    <3> QED
      BY <2>3, <3>1, <3>2, <3>3, <3>4, <3>5, <3>6, <3>7, <3>8, <3>9, Zenon,
         <3>10, <3>11, <3>12, <3>13, <3>14 DEF NodeStep
  <2> QED
    BY <2>1, <2>2, <2>3 DEF NodeNext
<1> QED
  BY <1>1, <1>2

(* The inductive invariant of the node registry holds in every reachable   *)
(* state, for any set of nodes.                                            *)
THEOREM NodeInvariance == NodeSpec => []NodeInv
BY NodeInitInv, NodeStepInv, PTL DEF NodeSpec

(* Rows and processes keep their types whatever the nodes do.              *)
THEOREM NodeTypeCorrect == NodeSpec => []NodeTypeOK
BY NodeInvariance, PTL DEF NodeInv

(* While an operator's drain intent is set, no heartbeat, registration,    *)
(* shutdown or stale-node scan makes the node's row active.                *)
THEOREM DrainIntentHolds == NodeSpec => []IntentClosesAdmission
BY NodeInvariance, PTL DEF NodeInv

(* Only a heartbeat read before the drain makes the row of a drained       *)
(* process eligible for claims again, and only if the row no longer says   *)
(* draining.                                                               *)
THEOREM DrainIsFinal == NodeSpec => DrainedNeverAdvertises
<1> DEFINE Quiet(n) ==
      (/\ Drained(n) /\ proc[n].stopped /\ ~ClaimEligible(n)
       /\ proc'[n].up /\ ClaimEligible(n)')
      => /\ nodeRow[n].status # "draining"
         /\ \E b \in proc[n].beats :
              ~b.after /\ b.says = "active" /\ proc'[n].beats = proc[n].beats \ {b}
<1>1. ASSUME NodeInv, [NodeNext]_nodeVars
      PROVE  \A n \in Nodes : Quiet(n)
  <2> SUFFICES ASSUME NEW n \in Nodes PROVE Quiet(n)
    OBVIOUS
  <2> USE DEF NodeInv, LatchInv, Drained, ClaimEligible
  <2> USE DEF NodeTypeOK, NodeRow, NodeStatus, Proc, Beat
  <2>1. CASE UNCHANGED nodeVars
    BY <1>1, <2>1 DEF nodeVars
  <2>2. CASE MarkStaleNodesDead
    BY <1>1, <2>2 DEF MarkStaleNodesDead, StaleNodes
  <2>3. ASSUME NEW m \in Nodes, NodeStep(m)
        PROVE  Quiet(n)
    <3>1. CASE Register(m)
      BY <1>1, <3>1 DEF Register, FreshProc, DownProc
    <3>2. CASE HeartbeatWrite(m)
      <4>1. PICK b \in proc[m].beats :
              /\ proc' = [proc EXCEPT ![m].beats = @ \ {b}]
              /\ nodeRow' = [nodeRow EXCEPT ![m] = BeatenRow(@, b.says)]
        BY <3>2 DEF HeartbeatWrite
      <4>2. CASE n # m
        BY <1>1, <4>1, <4>2
      <4>3. CASE n = m
        <5>1. nodeRow'[n] = BeatenRow(nodeRow[n], b.says) /\ proc'[n].beats = proc[n].beats \ {b}
          BY <1>1, <4>1, <4>3
        <5>2. b \in Beat /\ b \in proc[n].beats /\ (b.after => b.says = "draining")
          BY <1>1, <4>1, <4>3
        <5>3. CASE nodeRow[n].status = "draining"
          BY <1>1, <5>1, <5>3 DEF BeatenRow
        <5>4. CASE nodeRow[n].status # "draining" /\ b.says = "draining"
          BY <1>1, <5>1, <5>4 DEF BeatenRow
        <5> QED
          BY <1>1, <5>1, <5>2, <5>3, <5>4
      <4> QED
        BY <4>2, <4>3
    <3>3. CASE MarkDraining(m) \/ ResumeOnRestart(m) \/ HeartbeatAges(m)
      <4>1. ~ClaimEligible(n) => ~ClaimEligible(n)'
        BY <1>1, <3>3 DEF MarkDraining, ResumeOnRestart, HeartbeatAges
      <4> QED
        BY <4>1
    <3>4. CASE ShutdownWrite(m)
      BY <1>1, <3>4 DEF ShutdownWrite
    <3>5. CASE UNCHANGED nodeRow
      BY <1>1, <3>5
    <3> QED
      BY <2>3, <3>1, <3>2, <3>3, <3>4, <3>5, Zenon
      DEF NodeStep, HeartbeatRead, HeartbeatFail, WatchRead, WatchLatch,
          WatchStop, ShutdownStop, ShutdownLatch, Exit
  <2> QED
    BY <1>1, <2>1, <2>2, <2>3 DEF NodeNext
<1> QED
  BY <1>1, NodeInvariance, PTL DEF NodeSpec, DrainedNeverAdvertises

-----------------------------------------------------------------------------
(* The seals.  The inductive invariant adds to the properties what the locks *)
(* guarantee: no admission holds the shared lock while a sealer holds the    *)
(* exclusive one, one transaction holds the row, and what a transaction has  *)
(* established stays true while it holds its locks.                          *)

SharedOrExclusive == ExclusiveHolders # {} => SharedHolders = {}

OneRowHolder == \A x, y \in RowHolders : x = y

AdmittedUnsealed ==
  \A p \in Admissions \cup Controllers :
    pc[p] \in {"admitted", "fkwait", "registering", "registered"} => seal = NoSealer

StoringIsUnguarded ==
  \A c \in Controllers : pc[c] = "storing" => ~Guarded(node, write[c])

SealerKnows ==
  \A s \in Sealers :
    /\ pc[s] \in {"unsealed", "eligible", "counted", "ready"} => seal = NoSealer
    /\ pc[s] \in {"eligible", "counted", "ready"} =>
         node = [status |-> "draining", intent |-> "planned_rollout"]
    /\ pc[s] \in {"counted", "ready"} =>
         /\ owners \cap JobOwners = {}
         /\ (owners \ lapsed) \cap Unguarded \subseteq late
    /\ pc[s] = "ready" => owners \cap Admissions = {}

SealInv ==
  /\ SealTypeOK
  /\ SharedOrExclusive
  /\ OneRowHolder
  /\ AdmittedUnsealed
  /\ StoringIsUnguarded
  /\ SealerKnows
  /\ SealExcludesOwners
  /\ UncountedOwnersAreLate
  /\ SealedStaysDrained

-----------------------------------------------------------------------------
(* Every row that a control write may leave is a node row.                 *)
LEMMA ControlWritesAreRows ==
  ASSUME NEW r \in NodeRows
  PROVE  ControlWrites(r) \subseteq NodeRows
BY SMTT(30), SMTT(60) DEF ControlWrites, NodeRows, Intents

(* Each transaction kind keeps to its own statements.                      *)
LEMMA SealTypeStep ==
  SealTypeOK /\ [SealNext]_sealVars => SealTypeOK'
<1> SUFFICES ASSUME SealTypeOK, [SealNext]_sealVars PROVE SealTypeOK'
  OBVIOUS
<1> USE SealAssumption DEF SealTypeOK, AdmissionStates, ControlStates, SealerStates, Processes, Admissions, Unguarded
<1>1. CASE \E a \in Admissions : AdmitBegin(a)
  BY <1>1 DEF AdmitBegin, Move
<1>2. CASE \E a \in Admissions : AdmitForeignKey(a)
  BY <1>2 DEF AdmitForeignKey, Move
<1>3. CASE \E a \in Admissions : AdmitCommit(a)
  BY <1>3 DEF AdmitCommit, Move
<1>4. CASE \E u \in Unguarded : WriteUnguarded(u)
  BY <1>4 DEF WriteUnguarded
<1>5. CASE \E o \in Admissions \cup Unguarded : OwnerEnds(o)
  BY <1>5 DEF OwnerEnds
<1>6. CASE \E o \in Previews \cup Holders : LeaseLapses(o)
  BY <1>6 DEF LeaseLapses
<1>7. CASE \E a \in Previews : PreviewRenews(a)
  BY <1>7 DEF PreviewRenews
<1>8. CASE \E p \in Admissions \cup Controllers : TakeShared(p)
  BY <1>8 DEF TakeShared, Move
<1>9. CASE \E p \in Admissions \cup Controllers : CheckSeal(p)
  BY <1>9 DEF CheckSeal, Move
<1>10. CASE \E c \in Controllers : ControlBegin(c)
  BY <1>10, ControlWritesAreRows DEF ControlBegin, Move, NoRow
<1>11. CASE \E c \in Controllers : ControlGuard(c)
  BY <1>11 DEF ControlGuard, Move
<1>12. CASE \E c \in Controllers : ControlCommit(c)
  BY <1>12 DEF ControlCommit, Move
<1>13. CASE \E c \in Controllers : RegisterBegin(c)
  BY <1>13 DEF RegisterBegin, Move
<1>14. CASE \E c \in Controllers : RegisterRow(c)
  BY <1>14 DEF RegisterRow, Move, NoRow, NodeRows, Intents
<1>15. CASE DeleteRow
  BY <1>15 DEF DeleteRow
<1>16. CASE \E s \in Sealers : SealRead(s)
  BY <1>16 DEF SealRead, Move
<1>17. CASE \E s \in Sealers : SealLockRow(s)
  BY <1>17 DEF SealLockRow, Move
<1>18. CASE \E s \in Sealers : SealLockAdmission(s)
  BY <1>18 DEF SealLockAdmission, Move
<1>19. CASE \E s \in Sealers : SealReread(s)
  BY <1>19 DEF SealReread, Move
<1>20. CASE \E s \in Sealers : SealEligible(s)
  BY <1>20 DEF SealEligible, Move
<1>21. CASE \E s \in Sealers : SealCountOwners(s)
  BY <1>21 DEF SealCountOwners, Move
<1>22. CASE \E s \in Sealers : SealCountPreviews(s)
  BY <1>22 DEF SealCountPreviews, Move
<1>23. CASE \E s \in Sealers : SealCommit(s)
  BY <1>23 DEF SealCommit, Move
<1>24. CASE \E p \in Processes : Abort(p)
  BY <1>24 DEF Abort
<1>25. CASE UNCHANGED sealVars
  BY <1>25 DEF sealVars
<1> QED
  BY <1>1, <1>2, <1>3, <1>4, <1>5, <1>6, <1>7, <1>8, <1>9, <1>10, <1>11, <1>12, <1>13, <1>14, <1>15, <1>16, <1>17, <1>18, <1>19, <1>20, <1>21, <1>22, <1>23, <1>24, <1>25, Zenon DEF SealNext

(* The rest of the invariant: every action keeps what the locks guarantee. *)
LEMMA SealInvStep ==
  SealInv /\ [SealNext]_sealVars => SealInv'
<1> SUFFICES ASSUME SealInv, [SealNext]_sealVars PROVE SealInv'
  OBVIOUS
<1>0. SealTypeOK'
  BY SealTypeStep DEF SealInv
<1> USE SealAssumption DEF SealInv, SealTypeOK, AdmissionStates, ControlStates,
      SealerStates, Processes, Admissions, Unguarded
<1> DEFINE Locks == SharedOrExclusive /\ OneRowHolder
           Facts == AdmittedUnsealed /\ StoringIsUnguarded /\ SealerKnows
           Goals == SealExcludesOwners /\ UncountedOwnersAreLate /\ SealedStaysDrained
<1>1. CASE \E a \in Admissions : AdmitBegin(a)
  <2>1. Locks'
    BY <1>1 DEF AdmitBegin, Move, SharedOrExclusive, OneRowHolder, SharedHolders, ExclusiveHolders, RowHolders
  <2>2. Facts'
    BY <1>1 DEF AdmitBegin, Move, AdmittedUnsealed, StoringIsUnguarded, SealerKnows,
      SharedOrExclusive, OneRowHolder, SharedHolders, ExclusiveHolders, RowHolders
  <2>3. Goals'
    BY <1>1 DEF AdmitBegin, Move, SealExcludesOwners, UncountedOwnersAreLate, SealedStaysDrained
  <2> QED
    BY <1>0, <2>1, <2>2, <2>3
<1>2. CASE \E a \in Admissions : AdmitForeignKey(a)
  <2>1. Locks'
    BY <1>2 DEF AdmitForeignKey, Move, SharedOrExclusive, OneRowHolder, SharedHolders, ExclusiveHolders, RowHolders
  <2>2. Facts'
    BY <1>2 DEF AdmitForeignKey, Move, AdmittedUnsealed, StoringIsUnguarded, SealerKnows,
      SharedOrExclusive, OneRowHolder, SharedHolders, ExclusiveHolders, RowHolders
  <2>3. Goals'
    BY <1>2 DEF AdmitForeignKey, Move, SealExcludesOwners, UncountedOwnersAreLate, SealedStaysDrained
  <2> QED
    BY <1>0, <2>1, <2>2, <2>3
<1>3. CASE \E a \in Admissions : AdmitCommit(a)
  <2>1. Locks'
    BY <1>3 DEF AdmitCommit, Move, SharedOrExclusive, OneRowHolder, SharedHolders, ExclusiveHolders, RowHolders
  <2>2. Facts'
    BY <1>3 DEF AdmitCommit, Move, AdmittedUnsealed, StoringIsUnguarded, SealerKnows,
      SharedOrExclusive, OneRowHolder, SharedHolders, ExclusiveHolders, RowHolders
  <2>3. Goals'
    BY <1>3 DEF AdmitCommit, Move, SharedOrExclusive, OneRowHolder, SharedHolders, ExclusiveHolders, RowHolders,
      AdmittedUnsealed, StoringIsUnguarded, SealerKnows, SealExcludesOwners, UncountedOwnersAreLate, SealedStaysDrained, Guarded, NoRow
  <2> QED
    BY <1>0, <2>1, <2>2, <2>3
<1>4. CASE \E u \in Unguarded : WriteUnguarded(u)
  <2>1. Locks'
    BY <1>4 DEF WriteUnguarded, SharedOrExclusive, OneRowHolder, SharedHolders, ExclusiveHolders, RowHolders
  <2>2. Facts'
    BY <1>4 DEF WriteUnguarded, AdmittedUnsealed, StoringIsUnguarded, SealerKnows,
      SharedOrExclusive, OneRowHolder, SharedHolders, ExclusiveHolders, RowHolders
  <2>3. Goals'
    BY <1>4 DEF WriteUnguarded, SharedOrExclusive, OneRowHolder, SharedHolders, ExclusiveHolders, RowHolders,
      AdmittedUnsealed, StoringIsUnguarded, SealerKnows, SealExcludesOwners, UncountedOwnersAreLate, SealedStaysDrained, Guarded, NoRow
  <2> QED
    BY <1>0, <2>1, <2>2, <2>3
<1>5. CASE \E o \in Admissions \cup Unguarded : OwnerEnds(o)
  <2>1. Locks'
    BY <1>5 DEF OwnerEnds, SharedOrExclusive, OneRowHolder, SharedHolders, ExclusiveHolders, RowHolders
  <2>2. Facts'
    BY <1>5 DEF OwnerEnds, AdmittedUnsealed, StoringIsUnguarded, SealerKnows,
      SharedOrExclusive, OneRowHolder, SharedHolders, ExclusiveHolders, RowHolders
  <2>3. Goals'
    BY <1>5 DEF OwnerEnds, SharedOrExclusive, OneRowHolder, SharedHolders, ExclusiveHolders, RowHolders,
      AdmittedUnsealed, StoringIsUnguarded, SealerKnows, SealExcludesOwners, UncountedOwnersAreLate, SealedStaysDrained, Guarded, NoRow
  <2> QED
    BY <1>0, <2>1, <2>2, <2>3
<1>6. CASE \E o \in Previews \cup Holders : LeaseLapses(o)
  <2>1. Locks'
    BY <1>6 DEF LeaseLapses, SharedOrExclusive, OneRowHolder, SharedHolders, ExclusiveHolders, RowHolders
  <2>2. Facts'
    BY <1>6 DEF LeaseLapses, AdmittedUnsealed, StoringIsUnguarded, SealerKnows,
      SharedOrExclusive, OneRowHolder, SharedHolders, ExclusiveHolders, RowHolders
  <2>3. Goals'
    BY <1>6 DEF LeaseLapses, SharedOrExclusive, OneRowHolder, SharedHolders, ExclusiveHolders, RowHolders,
      AdmittedUnsealed, StoringIsUnguarded, SealerKnows, SealExcludesOwners, UncountedOwnersAreLate, SealedStaysDrained, Guarded, NoRow
  <2> QED
    BY <1>0, <2>1, <2>2, <2>3
<1>7. CASE \E a \in Previews : PreviewRenews(a)
  <2>1. Locks'
    BY <1>7 DEF PreviewRenews, SharedOrExclusive, OneRowHolder, SharedHolders, ExclusiveHolders, RowHolders
  <2>2. Facts'
    BY <1>7 DEF PreviewRenews, AdmittedUnsealed, StoringIsUnguarded, SealerKnows,
      SharedOrExclusive, OneRowHolder, SharedHolders, ExclusiveHolders, RowHolders
  <2>3. Goals'
    BY <1>7 DEF PreviewRenews, SharedOrExclusive, OneRowHolder, SharedHolders, ExclusiveHolders, RowHolders,
      AdmittedUnsealed, StoringIsUnguarded, SealerKnows, SealExcludesOwners, UncountedOwnersAreLate, SealedStaysDrained, Guarded, NoRow
  <2> QED
    BY <1>0, <2>1, <2>2, <2>3
<1>8. CASE \E p \in Admissions \cup Controllers : TakeShared(p)
  <2>1. Locks'
    BY <1>8 DEF TakeShared, Move, SharedOrExclusive, OneRowHolder, SharedHolders, ExclusiveHolders, RowHolders
  <2>2. Facts'
    BY <1>8 DEF TakeShared, Move, AdmittedUnsealed, StoringIsUnguarded, SealerKnows,
      SharedOrExclusive, OneRowHolder, SharedHolders, ExclusiveHolders, RowHolders
  <2>3. Goals'
    BY <1>8 DEF TakeShared, Move, SealExcludesOwners, UncountedOwnersAreLate, SealedStaysDrained
  <2> QED
    BY <1>0, <2>1, <2>2, <2>3
<1>9. CASE \E p \in Admissions \cup Controllers : CheckSeal(p)
  <2>1. Locks'
    BY <1>9 DEF CheckSeal, Move, SharedOrExclusive, OneRowHolder, SharedHolders, ExclusiveHolders, RowHolders
  <2>2. Facts'
    BY <1>9 DEF CheckSeal, Move, AdmittedUnsealed, StoringIsUnguarded, SealerKnows,
      SharedOrExclusive, OneRowHolder, SharedHolders, ExclusiveHolders, RowHolders
  <2>3. Goals'
    BY <1>9 DEF CheckSeal, Move, SealExcludesOwners, UncountedOwnersAreLate, SealedStaysDrained
  <2> QED
    BY <1>0, <2>1, <2>2, <2>3
<1>10. CASE \E c \in Controllers : ControlBegin(c)
  <2>1. Locks'
    BY <1>10 DEF ControlBegin, Move, SharedOrExclusive, OneRowHolder, SharedHolders, ExclusiveHolders, RowHolders
  <2>2. Facts'
    BY <1>10 DEF ControlBegin, Move, AdmittedUnsealed, StoringIsUnguarded, SealerKnows,
      SharedOrExclusive, OneRowHolder, SharedHolders, ExclusiveHolders, RowHolders
  <2>3. Goals'
    BY <1>10 DEF ControlBegin, Move, SealExcludesOwners, UncountedOwnersAreLate, SealedStaysDrained
  <2> QED
    BY <1>0, <2>1, <2>2, <2>3
<1>11. CASE \E c \in Controllers : ControlGuard(c)
  <2>1. Locks'
    BY <1>11 DEF ControlGuard, Move, SharedOrExclusive, OneRowHolder, SharedHolders, ExclusiveHolders, RowHolders
  <2>2. Facts'
    BY <1>11 DEF ControlGuard, Move, AdmittedUnsealed, StoringIsUnguarded, SealerKnows,
      SharedOrExclusive, OneRowHolder, SharedHolders, ExclusiveHolders, RowHolders
  <2>3. Goals'
    BY <1>11 DEF ControlGuard, Move, SealExcludesOwners, UncountedOwnersAreLate, SealedStaysDrained
  <2> QED
    BY <1>0, <2>1, <2>2, <2>3
<1>12. CASE \E c \in Controllers : ControlCommit(c)
  <2>1. Locks'
    BY <1>12 DEF ControlCommit, Move, SharedOrExclusive, OneRowHolder, SharedHolders, ExclusiveHolders, RowHolders
  <2>2. Facts'
    BY <1>12 DEF ControlCommit, Move, AdmittedUnsealed, StoringIsUnguarded, SealerKnows,
      SharedOrExclusive, OneRowHolder, SharedHolders, ExclusiveHolders, RowHolders
  <2>3. Goals'
    BY <1>12 DEF ControlCommit, Move, SharedOrExclusive, OneRowHolder, SharedHolders, ExclusiveHolders, RowHolders,
      AdmittedUnsealed, StoringIsUnguarded, SealerKnows, SealExcludesOwners, UncountedOwnersAreLate, SealedStaysDrained, Guarded, NoRow
  <2> QED
    BY <1>0, <2>1, <2>2, <2>3
<1>13. CASE \E c \in Controllers : RegisterBegin(c)
  <2>1. Locks'
    BY <1>13 DEF RegisterBegin, Move, SharedOrExclusive, OneRowHolder, SharedHolders, ExclusiveHolders, RowHolders
  <2>2. Facts'
    BY <1>13 DEF RegisterBegin, Move, AdmittedUnsealed, StoringIsUnguarded, SealerKnows,
      SharedOrExclusive, OneRowHolder, SharedHolders, ExclusiveHolders, RowHolders
  <2>3. Goals'
    BY <1>13 DEF RegisterBegin, Move, SealExcludesOwners, UncountedOwnersAreLate, SealedStaysDrained
  <2> QED
    BY <1>0, <2>1, <2>2, <2>3
<1>14. CASE \E c \in Controllers : RegisterRow(c)
  <2>1. Locks'
    BY <1>14 DEF RegisterRow, Move, SharedOrExclusive, OneRowHolder, SharedHolders, ExclusiveHolders, RowHolders
  <2>2. Facts'
    BY <1>14 DEF RegisterRow, Move, AdmittedUnsealed, StoringIsUnguarded, SealerKnows,
      SharedOrExclusive, OneRowHolder, SharedHolders, ExclusiveHolders, RowHolders
  <2>3. Goals'
    BY <1>14 DEF RegisterRow, Move, SealExcludesOwners, UncountedOwnersAreLate, SealedStaysDrained
  <2> QED
    BY <1>0, <2>1, <2>2, <2>3
<1>15. CASE DeleteRow
  <2>1. Locks'
    BY <1>15 DEF DeleteRow, SharedOrExclusive, OneRowHolder, SharedHolders, ExclusiveHolders, RowHolders
  <2>2. Facts'
    BY <1>15 DEF DeleteRow, AdmittedUnsealed, StoringIsUnguarded, SealerKnows,
      SharedOrExclusive, OneRowHolder, SharedHolders, ExclusiveHolders, RowHolders
  <2>3. Goals'
    BY <1>15 DEF DeleteRow, SharedOrExclusive, OneRowHolder, SharedHolders, ExclusiveHolders, RowHolders,
      AdmittedUnsealed, StoringIsUnguarded, SealerKnows, SealExcludesOwners, UncountedOwnersAreLate, SealedStaysDrained, Guarded, NoRow
  <2> QED
    BY <1>0, <2>1, <2>2, <2>3
<1>16. CASE \E s \in Sealers : SealRead(s)
  <2>1. Locks'
    BY <1>16 DEF SealRead, Move, SharedOrExclusive, OneRowHolder, SharedHolders, ExclusiveHolders, RowHolders
  <2>2. Facts'
    BY <1>16 DEF SealRead, Move, AdmittedUnsealed, StoringIsUnguarded, SealerKnows,
      SharedOrExclusive, OneRowHolder, SharedHolders, ExclusiveHolders, RowHolders
  <2>3. Goals'
    BY <1>16 DEF SealRead, Move, SealExcludesOwners, UncountedOwnersAreLate, SealedStaysDrained
  <2> QED
    BY <1>0, <2>1, <2>2, <2>3
<1>17. CASE \E s \in Sealers : SealLockRow(s)
  <2>1. Locks'
    BY <1>17 DEF SealLockRow, Move, SharedOrExclusive, OneRowHolder, SharedHolders, ExclusiveHolders, RowHolders
  <2>2. Facts'
    BY <1>17 DEF SealLockRow, Move, AdmittedUnsealed, StoringIsUnguarded, SealerKnows,
      SharedOrExclusive, OneRowHolder, SharedHolders, ExclusiveHolders, RowHolders
  <2>3. Goals'
    BY <1>17 DEF SealLockRow, Move, SealExcludesOwners, UncountedOwnersAreLate, SealedStaysDrained
  <2> QED
    BY <1>0, <2>1, <2>2, <2>3
<1>18. CASE \E s \in Sealers : SealLockAdmission(s)
  <2>1. Locks'
    BY <1>18 DEF SealLockAdmission, Move, SharedOrExclusive, OneRowHolder, SharedHolders, ExclusiveHolders, RowHolders
  <2>2. Facts'
    BY <1>18 DEF SealLockAdmission, Move, AdmittedUnsealed, StoringIsUnguarded, SealerKnows,
      SharedOrExclusive, OneRowHolder, SharedHolders, ExclusiveHolders, RowHolders
  <2>3. Goals'
    BY <1>18 DEF SealLockAdmission, Move, SealExcludesOwners, UncountedOwnersAreLate, SealedStaysDrained
  <2> QED
    BY <1>0, <2>1, <2>2, <2>3
<1>19. CASE \E s \in Sealers : SealReread(s)
  <2>1. Locks'
    BY <1>19 DEF SealReread, Move, SharedOrExclusive, OneRowHolder, SharedHolders, ExclusiveHolders, RowHolders
  <2>2. Facts'
    BY <1>19 DEF SealReread, Move, AdmittedUnsealed, StoringIsUnguarded, SealerKnows,
      SharedOrExclusive, OneRowHolder, SharedHolders, ExclusiveHolders, RowHolders
  <2>3. Goals'
    BY <1>19 DEF SealReread, Move, SealExcludesOwners, UncountedOwnersAreLate, SealedStaysDrained
  <2> QED
    BY <1>0, <2>1, <2>2, <2>3
<1>20. CASE \E s \in Sealers : SealEligible(s)
  <2>1. Locks'
    BY <1>20 DEF SealEligible, Move, SharedOrExclusive, OneRowHolder, SharedHolders, ExclusiveHolders, RowHolders
  <2>2. Facts'
    BY <1>20 DEF SealEligible, Move, AdmittedUnsealed, StoringIsUnguarded, SealerKnows,
      SharedOrExclusive, OneRowHolder, SharedHolders, ExclusiveHolders, RowHolders
  <2>3. Goals'
    BY <1>20 DEF SealEligible, Move, SealExcludesOwners, UncountedOwnersAreLate, SealedStaysDrained
  <2> QED
    BY <1>0, <2>1, <2>2, <2>3
<1>21. CASE \E s \in Sealers : SealCountOwners(s)
  <2>1. Locks'
    BY <1>21 DEF SealCountOwners, Move, SharedOrExclusive, OneRowHolder, SharedHolders, ExclusiveHolders, RowHolders
  <2>2. Facts'
    BY <1>21 DEF SealCountOwners, Move, AdmittedUnsealed, StoringIsUnguarded, SealerKnows,
      SharedOrExclusive, OneRowHolder, SharedHolders, ExclusiveHolders, RowHolders
  <2>3. Goals'
    BY <1>21 DEF SealCountOwners, Move, SharedOrExclusive, OneRowHolder, SharedHolders, ExclusiveHolders, RowHolders,
      AdmittedUnsealed, StoringIsUnguarded, SealerKnows, SealExcludesOwners, UncountedOwnersAreLate, SealedStaysDrained, Guarded, NoRow
  <2> QED
    BY <1>0, <2>1, <2>2, <2>3
<1>22. CASE \E s \in Sealers : SealCountPreviews(s)
  <2>1. Locks'
    BY <1>22 DEF SealCountPreviews, Move, SharedOrExclusive, OneRowHolder, SharedHolders, ExclusiveHolders, RowHolders
  <2>2. Facts'
    BY <1>22 DEF SealCountPreviews, Move, AdmittedUnsealed, StoringIsUnguarded, SealerKnows,
      SharedOrExclusive, OneRowHolder, SharedHolders, ExclusiveHolders, RowHolders
  <2>3. Goals'
    BY <1>22 DEF SealCountPreviews, Move, SealExcludesOwners, UncountedOwnersAreLate, SealedStaysDrained
  <2> QED
    BY <1>0, <2>1, <2>2, <2>3
<1>23. CASE \E s \in Sealers : SealCommit(s)
  <2>1. Locks'
    BY <1>23 DEF SealCommit, Move, SharedOrExclusive, OneRowHolder, SharedHolders, ExclusiveHolders, RowHolders
  <2>2. Facts'
    BY <1>23 DEF SealCommit, Move, AdmittedUnsealed, StoringIsUnguarded, SealerKnows,
      SharedOrExclusive, OneRowHolder, SharedHolders, ExclusiveHolders, RowHolders
  <2>3. Goals'
    BY <1>23 DEF SealCommit, Move, SharedOrExclusive, OneRowHolder, SharedHolders, ExclusiveHolders, RowHolders,
      AdmittedUnsealed, StoringIsUnguarded, SealerKnows, SealExcludesOwners, UncountedOwnersAreLate, SealedStaysDrained, Guarded, NoRow
  <2> QED
    BY <1>0, <2>1, <2>2, <2>3
<1>24. CASE \E p \in Processes : Abort(p)
  <2>1. Locks'
    BY <1>24 DEF Abort, SharedOrExclusive, OneRowHolder, SharedHolders, ExclusiveHolders, RowHolders
  <2>2. Facts'
    BY <1>24 DEF Abort, AdmittedUnsealed, StoringIsUnguarded, SealerKnows,
      SharedOrExclusive, OneRowHolder, SharedHolders, ExclusiveHolders, RowHolders
  <2>3. Goals'
    BY <1>24 DEF Abort, SealExcludesOwners, UncountedOwnersAreLate, SealedStaysDrained
  <2> QED
    BY <1>0, <2>1, <2>2, <2>3
<1>25. CASE UNCHANGED sealVars
  BY <1>25 DEF sealVars, SharedOrExclusive, OneRowHolder, SharedHolders, ExclusiveHolders, RowHolders, AdmittedUnsealed,
    StoringIsUnguarded, SealerKnows, SealExcludesOwners, UncountedOwnersAreLate, SealedStaysDrained
<1> QED
  BY <1>1, <1>2, <1>3, <1>4, <1>5, <1>6, <1>7, <1>8, <1>9, <1>10, <1>11, <1>12, <1>13, <1>14, <1>15, <1>16, <1>17, <1>18, <1>19, <1>20, <1>21, <1>22, <1>23, <1>24, <1>25, Zenon DEF SealNext

-----------------------------------------------------------------------------
(* The initial state satisfies the invariant: nothing is locked or owned.  *)
LEMMA SealInvInit == SealInit => SealInv
BY SealAssumption DEF SealInit, SealInv, SealTypeOK, AdmissionStates, ControlStates,
  SealerStates, Processes, Admissions, Unguarded, NodeRows, Intents, SharedOrExclusive, OneRowHolder,
  SharedHolders, ExclusiveHolders, RowHolders, AdmittedUnsealed, StoringIsUnguarded,
  SealerKnows, SealExcludesOwners, UncountedOwnersAreLate, SealedStaysDrained

(* The invariant of the sealing protocol holds in every reachable state,   *)
(* for any number of owners, control writes and sealers.                   *)
THEOREM SealInvariance == SealSpec => []SealInv
BY SealInvInit, SealInvStep, PTL DEF SealSpec

(* Types of the transactions, of the node row and of the owners.           *)
THEOREM SealTypeCorrect == SealSpec => []SealTypeOK
BY SealInvariance, PTL DEF SealInv

(* A sealed generation owns no job and no preview, ever after: Seal counts *)
(* every admission that beat it and the trigger rejects every later one.   *)
THEOREM SealIsExclusive == SealSpec => []SealExcludesOwners
BY SealInvariance, PTL DEF SealInv

(* An owner of a kind without a trigger that a sealed generation has was   *)
(* written after Seal counted the owners (WorkerDeployStatus).             *)
THEOREM SealMissesNone == SealSpec => []UncountedOwnersAreLate
BY SealInvariance, PTL DEF SealInv

(* No registration, heartbeat or resume reopens a sealed generation, even  *)
(* one whose row was deleted (guard_worker_retirement_node).               *)
THEOREM SealIsPermanent == SealSpec => []SealedStaysDrained
BY SealInvariance, PTL DEF SealInv

(* The drain verified by Seal still stands when the seal commits, because  *)
(* the sealer holds the row; and a generation is sealed once.              *)
THEOREM SealNeedsDrain == SealSpec => SealRestsOnDrain
<1>1. SealInv /\ [SealNext]_sealVars =>
        [seal' # seal =>
           /\ seal = NoSealer
           /\ node = [status |-> "draining", intent |-> "planned_rollout"]
           /\ node' = node]_sealVars
  BY DEF SealInv, SealerKnows, SealNext, sealVars, Move, AdmitBegin, AdmitForeignKey,
    AdmitCommit, WriteUnguarded, OwnerEnds, LeaseLapses, PreviewRenews, TakeShared, CheckSeal,
    ControlBegin, ControlGuard, ControlCommit, RegisterBegin, RegisterRow, DeleteRow, SealRead, SealLockRow, SealLockAdmission, SealReread, SealEligible,
    SealCountOwners, SealCountPreviews, SealCommit, Abort
<1> QED
  BY <1>1, SealInvariance, PTL DEF SealSpec, SealRestsOnDrain

(* Admissions, row updates and sealers never wait in a circle.  A holder   *)
(* of the exclusive lock waits for nothing; without one, nor does a holder *)
(* of the shared lock that is not a registration, since foreign key checks *)
(* pass the sealer's row lock; then nor does the holder of the row; and    *)
(* without locks nobody waits.                                             *)
THEOREM NoCircularWait == SealSpec => []NoLockCycle
<1>1. SealInv => NoLockCycle
  <2> SUFFICES ASSUME SealInv,
                      NEW q \in Processes, pc[q] # "idle"
               PROVE  \E p \in Processes : pc[p] # "idle" /\ ~Blocked(p)
    BY DEF NoLockCycle
  <2> USE SealAssumption DEF SealInv, SealTypeOK, AdmissionStates, ControlStates,
        SealerStates, Processes, Admissions, KeyShareExcluded, SealRowMode
  <2>1. CASE ExclusiveHolders # {}
    <3>1. PICK s \in Sealers : pc[s] \in {"exclusive", "unsealed", "eligible", "counted", "ready"}
      BY <2>1 DEF ExclusiveHolders
    <3> QED
      BY <3>1 DEF Blocked
  <2>2. CASE SharedHolders # {}
    <3>1. PICK p \in Admissions \cup Controllers : 
             pc[p] \in {"locked", "admitted", "fkwait", "entered", "registering", "registered"}
      BY <2>2 DEF SharedHolders
    <3> QED
      BY <3>1 DEF Blocked
  <2>3. CASE ExclusiveHolders = {} /\ SharedHolders = {} /\ RowHolders # {}
    <3>1. PICK x \in RowHolders : TRUE
      BY <2>3
    <3>2. CASE x \in Sealers
      BY <2>3, <3>1, <3>2 DEF Blocked, RowHolders
    <3>3. CASE x \in Controllers
      <4>1. \A s \in Sealers : pc[s] # "row"
        BY <3>1, <3>3 DEF OneRowHolder, RowHolders
      <4> QED
        BY <2>3, <3>1, <3>3, <4>1 DEF Blocked, RowHolders
    <3> QED
      BY <3>1, <3>2, <3>3 DEF RowHolders, ExclusiveHolders
  <2>4. CASE ExclusiveHolders = {} /\ SharedHolders = {} /\ RowHolders = {}
    <3>1. \A s \in Sealers : pc[s] # "row"
      BY <2>4 DEF RowHolders
    <3> QED
      BY <2>4, <3>1 DEF Blocked
  <2> QED
    BY <2>1, <2>2, <2>3, <2>4
<1> QED
  BY <1>1, SealInvariance, PTL

-----------------------------------------------------------------------------
(* The renewal of a lease.                                                   *)

ClockTypes ==
  /\ now \in Nat /\ expires \in Nat /\ expiry \in Nat /\ timer \in Nat
  /\ deadline \in Nat /\ answer \in Nat

NoLeaseBeyond ==
  /\ expires <= now + Lease
  /\ expiry <= now + Lease
  /\ answer <= now + Lease

WatchesExpiry ==
  handler = "running" =>
    /\ loop \in {"select", "attempt"}
    /\ timer = expiry
    /\ now <= timer
    /\ owner = "worker" => expiry <= expires

AttemptWithinLease ==
  handler = "running" /\ loop = "attempt" =>
    /\ deadline <= expiry
    /\ stmt = "renewed" => expiry <= answer
    /\ stmt = "renewed" /\ owner = "worker" => answer <= expires

RenewInv ==
  /\ ClockTypes
  /\ NoLeaseBeyond
  /\ WatchesExpiry
  /\ AttemptWithinLease
  /\ FencedBeforeReclaim

(* The claim's lease satisfies the invariant when the loop starts.         *)
LEMMA RenewInvInit == RenewInit => RenewInv
BY RenewalAssumption DEF RenewInit, RenewInv, ClockTypes, NoLeaseBeyond, WatchesExpiry,
  AttemptWithinLease, FencedBeforeReclaim

(* Every step of the loop, the handler, the server and the recovery scan   *)
(* keeps the invariant.                                                    *)
LEMMA RenewInvStep == RenewInv /\ [RenewNext]_renewVars => RenewInv'
<1> SUFFICES ASSUME RenewInv, [RenewNext]_renewVars PROVE RenewInv'
  OBVIOUS
<1> USE RenewalAssumption DEF RenewInv, ClockTypes, NoLeaseBeyond, WatchesExpiry,
      AttemptWithinLease, FencedBeforeReclaim, job, local, ticker, attempt
<1>1. CASE Tick
  BY <1>1 DEF Tick, TimerDue
<1>2. CASE TimerFires
  BY <1>2 DEF TimerFires, LoseOwnership
<1>3. CASE TickerFires
  BY <1>3 DEF TickerFires, LoseOwnership
<1>4. CASE ServerRenews
  BY <1>4 DEF ServerRenews
<1>5. CASE StragglerEnds
  BY <1>5 DEF StragglerEnds
<1>6. CASE AttemptFails
  BY <1>6 DEF AttemptFails, Failed, LoseOwnership, EndAttempt
<1>7. CASE AnswerArrives
  BY <1>7 DEF AnswerArrives, Failed, Confirmed, LoseOwnership, EndAttempt
<1>8. CASE Join
  BY <1>8 DEF Join, EndAttempt
<1>9. CASE HandlerReturns
  BY <1>9 DEF HandlerReturns, EndAttempt
<1>10. CASE Reclaim
  BY <1>10 DEF Reclaim
<1>11. CASE Revoke
  BY <1>11 DEF Revoke
<1>12. CASE UNCHANGED renewVars
  BY <1>12 DEF renewVars
<1> QED
  BY <1>1, <1>2, <1>3, <1>4, <1>5, <1>6, <1>7, <1>8, <1>9, <1>10, <1>11, <1>12, Zenon DEF RenewNext

(* Whatever the durations, and however long a cancelled renewal hangs, the *)
(* recovery scan never takes a job for its lapsed lease while the handler  *)
(* runs unfenced (the expiry timer of renewLeaseLoop).                     *)
THEOREM HandlerIsFenced == RenewSpec => []FencedBeforeReclaim
<1>1. RenewInv => FencedBeforeReclaim
  BY DEF RenewInv
<1> QED
  BY <1>1, RenewInvInit, RenewInvStep, PTL DEF RenewSpec
-----------------------------------------------------------------------------
(* The margins of the default durations, 60, 20 and 5 seconds (which no    *)
(* code enforces): two intervals fit into the lease after the              *)
(* loop has started, and an attempt is over before the next tick.          *)
Margins ==
  /\ StartDelay + 2 * Interval < Lease
  /\ Timeout + CancelDelay < Interval

(* How much of the lease is left, in ticks: two while no attempt failed,   *)
(* one after the first failure; an attempt under way counts for one.       *)
TicksLeft ==
  LET waiting == loop = "select" /\ ~ticked
  IN /\ fails = 0 /\ waiting => tickAt + Interval < expiry
     /\ fails = 0 /\ ~waiting => tickAt < expiry
     /\ fails = 1 /\ waiting => tickAt < expiry
     /\ fails = 1 /\ loop = "select" /\ ticked => now < expiry

(* A tick starts its attempt at once, so the last tick is the start of the *)
(* attempt, and the attempt ends before the next.                          *)
OnTicks ==
  /\ tickAt \in Nat /\ fails \in Nat
  /\ now < tickAt /\ tickAt <= now + Interval
  /\ loop = "select" /\ ticked => tickAt = now + Interval
  /\ loop = "attempt" =>
       /\ ~ticked
       /\ deadline + Interval <= tickAt + Timeout
       /\ now <= deadline + CancelDelay
       /\ stmt = "renewed" => answer + Interval >= tickAt + Lease

MarginInv ==
  /\ RenewInv
  /\ stmt = "refused" => owner # "worker"
  /\ handler # "running" => loop \in {"joining", "ended"}
  /\ handler = "running" => OnTicks /\ TicksLeft
  /\ OneFailureTolerated

(* The claim leaves room for two ticks.                                    *)
LEMMA MarginInit == Margins /\ RenewInit => MarginInv
<1> SUFFICES ASSUME Margins, RenewInit PROVE MarginInv
  OBVIOUS
<1>1. RenewInv
  BY RenewInvInit
<1> QED
  BY <1>1, RenewalAssumption DEF Margins, RenewInit, MarginInv, OnTicks, TicksLeft,
    OneFailureTolerated

(* Every step keeps the count of the ticks left.                           *)
LEMMA MarginStep == Margins /\ MarginInv /\ [RenewNext]_renewVars => MarginInv'
<1> SUFFICES ASSUME Margins, MarginInv, [RenewNext]_renewVars PROVE MarginInv'
  OBVIOUS
<1>0. RenewInv'
  BY RenewInvStep DEF MarginInv
<1> USE RenewalAssumption, <1>0 DEF Margins, MarginInv, RenewInv, ClockTypes, WatchesExpiry,
      NoLeaseBeyond, AttemptWithinLease,
      OnTicks, TicksLeft, OneFailureTolerated, job, local, ticker, attempt
<1>1. CASE Tick
  <2>1. /\ now' = now + 1 /\ UNCHANGED <<loop, handler, owner, stmt, fails, expiry, deadline, answer>>
        /\ ~TimerDue /\ ~AttemptOverdue /\ ~(loop = "select" /\ ticked)
    BY <1>1 DEF Tick
  <2>2. CASE loop # "ended" /\ now' >= tickAt
    <3>1. ticked' = TRUE /\ tickAt' = tickAt + Interval
      BY <1>1, <2>2 DEF Tick
    <3>2. handler = "running" => OnTicks'
      BY <2>1, <2>2, <3>1 DEF TimerDue, AttemptOverdue
    <3>3. handler = "running" => TicksLeft'
      BY <2>1, <2>2, <3>1 DEF TimerDue, AttemptOverdue
    <3> QED
      BY <2>1, <3>2, <3>3
  <2>3. CASE ~(loop # "ended" /\ now' >= tickAt)
    <3>1. ticked' = ticked /\ tickAt' = tickAt
      BY <1>1, <2>3 DEF Tick
    <3>2. handler = "running" => OnTicks'
      BY <2>1, <2>3, <3>1 DEF TimerDue, AttemptOverdue
    <3>3. handler = "running" => TicksLeft'
      BY <2>1, <2>3, <3>1 DEF TimerDue, AttemptOverdue
    <3> QED
      BY <2>1, <3>2, <3>3
  <2> QED
    BY <2>2, <2>3
<1>2. CASE TimerFires
  BY <1>2 DEF TimerFires, TimerDue, LoseOwnership
<1>3. CASE TickerFires
  BY <1>3 DEF TickerFires, LoseOwnership
<1>4. CASE ServerRenews
  BY <1>4 DEF ServerRenews
<1>5. CASE StragglerEnds
  BY <1>5 DEF StragglerEnds
<1>6. CASE AttemptFails
  BY <1>6 DEF AttemptFails, Failed, LoseOwnership, EndAttempt
<1>7. CASE AnswerArrives
  BY <1>7 DEF AnswerArrives, Failed, Confirmed, LoseOwnership, EndAttempt
<1>8. CASE Join
  BY <1>8 DEF Join, EndAttempt
<1>9. CASE HandlerReturns
  BY <1>9 DEF HandlerReturns, EndAttempt
<1>10. CASE Reclaim
  BY <1>10 DEF Reclaim
<1>11. CASE Revoke
  BY <1>11 DEF Revoke
<1>12. CASE UNCHANGED renewVars
  BY <1>12 DEF renewVars
<1> QED
  BY <1>1, <1>2, <1>3, <1>4, <1>5, <1>6, <1>7, <1>8, <1>9, <1>10, <1>11, <1>12, Zenon DEF RenewNext

(* With the margins of the default durations, a worker whose row nobody    *)
(* took gives up its job only after two failed renewals in a row           *)
(* (renewLeaseLoop, defaultLeaseDuration, defaultRenewInterval).           *)
THEOREM OneFailureIsTolerated ==
  ASSUME Margins PROVE RenewSpec => []OneFailureTolerated
<1>1. MarginInv => OneFailureTolerated
  BY DEF MarginInv
<1>2. RenewInit => MarginInv
  BY MarginInit
<1>3. MarginInv /\ [RenewNext]_renewVars => MarginInv'
  BY MarginStep
<1> QED
  BY <1>1, <1>2, <1>3, PTL DEF RenewSpec

-----------------------------------------------------------------------------
(* Where a replica is between two ticks.                                   *)
Stages == {"idle", "trying", "acquired", "refused", "ticking", "unlocking",
           "unlocked", "notheld"}

(* A replica between calls has no connection; during one it has pinned one *)
(* of its own pool, which nobody else uses.                                *)
PinInv ==
  /\ stage \in [Replicas -> Stages]
  /\ pin \in [Replicas -> Conns \union {Free}]
  /\ conn \in [Conns -> {"idle", "used", "closed"}]
  /\ backend \in [Conns -> BOOLEAN]
  /\ lock \in Conns \union {Free}
  /\ \A r \in Replicas : stage[r] # "idle" =>
       pin[r] \in Conns /\ pin[r][1] = r /\ conn[pin[r]] = "used"

(* The lock is held by a backend that lives, on a connection that is not   *)
(* pooled, and not by a replica about to give its connection back.         *)
LockInv ==
  /\ PinInv
  /\ \A c \in Conns : lock = c => backend[c]
  /\ \A r \in Replicas : stage[r] \in {"refused", "unlocked"} => lock # pin[r]
  /\ LockNeverPooled

(* Nobody has a connection and nobody the lock.                            *)
LEMMA LockInvInit == LockInit => LockInv
BY LockAssumption DEF LockInit, LockInv, PinInv, Stages, LockNeverPooled

(* A replica that lets go of its connection in a way that cannot leave the *)
(* lock in the pool: the connection is destroyed, or holds no lock.        *)
LEMMA LetGoKeeps ==
  ASSUME LockInv, NEW r \in Replicas, stage[r] # "idle", NEW to \in {"idle", "closed"},
         to = "idle" => lock # pin[r], LetGo(r, to)
  PROVE  LockInv'
<1> USE DEF LockInv, PinInv, LetGo
<1>1. PinInv'
  BY DEF Stages
<1>2. LockNeverPooled'
  BY DEF LockNeverPooled
<1> QED
  BY <1>1, <1>2, LockAssumption

(* Every statement, lost answer, dead backend, redial and crash keeps the  *)
(* invariant.                                                              *)
LEMMA LockInvStep == LockInv /\ [LockNext]_lockVars => LockInv'
<1> SUFFICES ASSUME LockInv, [LockNext]_lockVars PROVE LockInv'
  OBVIOUS
<1> USE LockAssumption DEF LockInv, PinInv, Stages, LockNeverPooled
<1>1. ASSUME NEW r \in Replicas, AcquireConn(r) PROVE LockInv'
  BY <1>1 DEF AcquireConn
<1>2. ASSUME NEW r \in Replicas, TryLock(r) PROVE LockInv'
  BY <1>2 DEF TryLock
<1>3. ASSUME NEW r \in Replicas, Acquired(r) \/ TickEnds(r) PROVE LockInv'
  BY <1>3 DEF Acquired, TickEnds
<1>4. ASSUME NEW r \in Replicas, NotAcquired(r) \/ Unlocked(r) PROVE LockInv'
  BY <1>4, LetGoKeeps DEF NotAcquired, Unlocked
<1>5. ASSUME NEW r \in Replicas, TryFails(r) \/ UnlockFails(r) PROVE LockInv'
  BY <1>5, LetGoKeeps DEF TryFails, UnlockFails
<1>6. ASSUME NEW r \in Replicas, Unlock(r) PROVE LockInv'
  BY <1>6 DEF Unlock
<1>7. ASSUME NEW r \in Replicas, Crash(r) PROVE LockInv'
  BY <1>7 DEF Crash
<1>8. ASSUME NEW c \in Conns, BackendEnds(c) PROVE LockInv'
  BY <1>8 DEF BackendEnds
<1>9. ASSUME NEW c \in Conns, Redial(c) PROVE LockInv'
  BY <1>9 DEF Redial
<1>10. CASE UNCHANGED lockVars
  BY <1>10 DEF lockVars
<1> QED
  BY <1>1, <1>2, <1>3, <1>4, <1>5, <1>6, <1>7, <1>8, <1>9, <1>10, Zenon DEF LockNext, ReplicaStep

(* The advisory lock never rides on a connection that lies idle in a pool, *)
(* for every set of replicas and every pool size (TryAcquire, Release).    *)
THEOREM LockIsNeverPooled == LockSpec => []LockNeverPooled
<1>1. LockInv => LockNeverPooled
  BY DEF LockInv
<1> QED
  BY <1>1, LockInvInit, LockInvStep, PTL DEF LockSpec
=============================================================================
