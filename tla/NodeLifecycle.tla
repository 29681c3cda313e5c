--------------------------- MODULE NodeLifecycle ---------------------------
(***************************************************************************)
(* The worker node registry: one row of the nodes table per node, and the  *)
(* process that registers, heartbeats and drains it (internal/cluster/     *)
(* node.go, internal/db/node_store.go, internal/worker/                    *)
(* node_drain_watcher.go, the shutdown routine of cmd/server/main.go).     *)
(*                                                                         *)
(* Time is abstracted to the only fact the code derives from it: whether   *)
(* last_heartbeat_at is older than the 90 second threshold (field stale),  *)
(* which may become true at any moment.  Every statement sent to the       *)
(* database is one atomic step; what a process reads before a statement    *)
(* and uses in it is kept in that process's own state.                     *)
(***************************************************************************)
EXTENDS Naturals

CONSTANT Nodes

VARIABLES nodeRow, proc

nodeVars == <<nodeRow, proc>>

NodeStatus == {"absent", "active", "draining", "dead"}

NodeRow == [status: NodeStatus, intent: BOOLEAN, stale: BOOLEAN]

(* A HeartbeatOnce call in flight: the status it is going to write, and,   *)
(* as history, whether the process had finished draining when it was read. *)
Beat == [says: {"active", "draining"}, after: BOOLEAN]

(* One server process: latched is NodeManager.draining, stopped is the     *)
(* draining flag of its worker queues, beats holds the statuses of the     *)
(* HeartbeatOnce calls in flight (the ticker's and the one main makes),    *)
(* watch and term are the positions of the drain watcher and of the        *)
(* shutdown routine.                                                       *)
Proc == [up: BOOLEAN, latched: BOOLEAN, stopped: BOOLEAN,
         beats: SUBSET Beat,
         watch: {"poll", "seen", "latched", "done"},
         term: {"run", "stopped", "latched", "done"}]

AbsentRow == [status |-> "absent", intent |-> FALSE, stale |-> FALSE]

DownProc == [up |-> FALSE, latched |-> FALSE, stopped |-> FALSE, beats |-> {},
             watch |-> "poll", term |-> "run"]

FreshProc == [DownProc EXCEPT !.up = TRUE]

NodeInit ==
  /\ nodeRow = [n \in Nodes |-> AbsentRow]
  /\ proc = [n \in Nodes |-> DownProc]

(* The row's part of the claim condition of ClaimNextRunnable.             *)
ClaimEligible(n) ==
  /\ nodeRow[n].status = "active"
  /\ ~nodeRow[n].intent
  /\ ~nodeRow[n].stale

-----------------------------------------------------------------------------
Register_ForgetsIntent(n) ==
  /\ ~proc[n].up
  /\ proc' = [proc EXCEPT ![n] = FreshProc]
  /\ nodeRow' = [nodeRow EXCEPT ![n] =
       [status |-> "active", intent |-> @.intent, stale |-> FALSE]]

(* A new process upserts its row; a durable operator drain survives it.    *)
Register(n) ==
  /\ ~proc[n].up
  /\ proc' = [proc EXCEPT ![n] = FreshProc]
  /\ nodeRow' = [nodeRow EXCEPT ![n] =
       [status |-> IF @.intent THEN "draining" ELSE "active",
        intent |-> @.intent, stale |-> FALSE]]

(* The process has stopped its queues and latched its heartbeat, by the    *)
(* watcher's order or by the shutdown routine's.                           *)
Drained(n) ==
  /\ proc[n].up
  /\ proc[n].watch = "done" \/ proc[n].term \in {"latched", "done"}

(* HeartbeatOnce reads the latch first and writes what it read later.      *)
HeartbeatRead(n) ==
  /\ proc[n].up
  /\ proc' = [proc EXCEPT ![n].beats =
       @ \cup {[says |-> IF proc[n].latched THEN "draining" ELSE "active",
                after |-> Drained(n)]}]
  /\ UNCHANGED nodeRow

BeatenRow(r, s) ==
  [r EXCEPT !.stale = FALSE,
            !.status = IF r.intent \/ r.status = "draining" THEN "draining" ELSE s]

HeartbeatWrite(n) ==
  \E b \in proc[n].beats :
    /\ proc' = [proc EXCEPT ![n].beats = @ \ {b}]
    /\ nodeRow' = [nodeRow EXCEPT ![n] = BeatenRow(@, b.says)]

(* The ten second timeout, or any database error, drops the attempt.       *)
HeartbeatFail(n) ==
  \E b \in proc[n].beats :
    /\ proc' = [proc EXCEPT ![n].beats = @ \ {b}]
    /\ UNCHANGED nodeRow

-----------------------------------------------------------------------------
WatchRead_StatusOnly(n) ==
  /\ proc[n].up
  /\ proc[n].watch = "poll"
  /\ nodeRow[n].status = "draining"
  /\ proc' = [proc EXCEPT ![n].watch = "seen"]
  /\ UNCHANGED nodeRow

WatchLatch_QueuesOnly(n) ==
  /\ proc[n].watch = "seen"
  /\ proc' = [proc EXCEPT ![n].watch = "latched"]
  /\ UNCHANGED nodeRow

(* markWorkersDrainingFromDB: read the row, latch the heartbeat, then stop *)
(* the queues.                                                             *)
WatchRead(n) ==
  /\ proc[n].up
  /\ proc[n].watch = "poll"
  /\ nodeRow[n].status = "draining" \/ nodeRow[n].intent
  /\ proc' = [proc EXCEPT ![n].watch = "seen"]
  /\ UNCHANGED nodeRow

WatchLatch(n) ==
  /\ proc[n].watch = "seen"
  /\ proc' = [proc EXCEPT ![n].watch = "latched", ![n].latched = TRUE]
  /\ UNCHANGED nodeRow

WatchStop(n) ==
  /\ proc[n].watch = "latched"
  /\ proc' = [proc EXCEPT ![n].watch = "done", ![n].stopped = TRUE]
  /\ UNCHANGED nodeRow

(* SIGTERM: the queues stop first, then NodeManager.RequestDrain latches   *)
(* and writes the row; the write may fail and shutdown goes on.            *)
ShutdownStop(n) ==
  /\ proc[n].up
  /\ proc[n].term = "run"
  /\ proc' = [proc EXCEPT ![n].term = "stopped", ![n].stopped = TRUE]
  /\ UNCHANGED nodeRow

ShutdownLatch(n) ==
  /\ proc[n].term = "stopped"
  /\ proc' = [proc EXCEPT ![n].term = "latched", ![n].latched = TRUE]
  /\ UNCHANGED nodeRow

ShutdownWrite(n) ==
  /\ proc[n].term = "latched"
  /\ proc' = [proc EXCEPT ![n].term = "done"]
  /\ \/ nodeRow' = [nodeRow EXCEPT ![n].status = "draining"]
     \/ UNCHANGED nodeRow

(* The process ends, by shutdown or by a crash at any point.               *)
Exit(n) ==
  /\ proc[n].up
  /\ proc' = [proc EXCEPT ![n] = DownProc]
  /\ UNCHANGED nodeRow

-----------------------------------------------------------------------------
(* The operator: NodeStore.MarkDraining, which also accepts the intent     *)
(* none, and NodeStore.ResumeOnRestart.                                    *)
MarkDraining(n) ==
  /\ nodeRow[n].status # "absent"
  /\ \E i \in BOOLEAN :
       nodeRow' = [nodeRow EXCEPT ![n].status = "draining", ![n].intent = i]
  /\ UNCHANGED proc

ResumeOnRestart(n) ==
  /\ nodeRow[n].intent
  /\ nodeRow' = [nodeRow EXCEPT ![n].intent = FALSE,
       ![n].status = IF @ = "dead" THEN "dead" ELSE "draining"]
  /\ UNCHANGED proc

(* Ninety seconds pass without a heartbeat.                                *)
HeartbeatAges(n) ==
  /\ nodeRow[n].status # "absent"
  /\ ~nodeRow[n].stale
  /\ nodeRow' = [nodeRow EXCEPT ![n].stale = TRUE]
  /\ UNCHANGED proc

(* One UPDATE over every stale row, run by any node's recovery loop.       *)
StaleNodes == {n \in Nodes : nodeRow[n].stale /\ nodeRow[n].status # "dead"}

MarkStaleNodesDead ==
  /\ StaleNodes # {}
  /\ nodeRow' = [n \in Nodes |->
       IF n \in StaleNodes THEN [nodeRow[n] EXCEPT !.status = "dead"] ELSE nodeRow[n]]
  /\ UNCHANGED proc

-----------------------------------------------------------------------------
NodeStep(n) ==
  \/ Register(n) \/ HeartbeatRead(n) \/ HeartbeatWrite(n) \/ HeartbeatFail(n)
  \/ WatchRead(n) \/ WatchLatch(n) \/ WatchStop(n)
  \/ ShutdownStop(n) \/ ShutdownLatch(n) \/ ShutdownWrite(n) \/ Exit(n)
  \/ MarkDraining(n) \/ ResumeOnRestart(n) \/ HeartbeatAges(n)

NodeNext == (\E n \in Nodes : NodeStep(n)) \/ MarkStaleNodesDead

NodeSpec == NodeInit /\ [][NodeNext]_nodeVars

(* The watcher polls every five seconds until it has drained the queues.   *)
NodeFairness ==
  \A n \in Nodes : WF_nodeVars(WatchRead(n)) /\ WF_nodeVars(WatchLatch(n))
                   /\ WF_nodeVars(WatchStop(n))

NodeFairSpec == NodeSpec /\ NodeFairness

-----------------------------------------------------------------------------
(* Types of the registry and of the processes (models.NodeStatus,          *)
(* NodeManager, Worker.draining).                                          *)
NodeTypeOK ==
  /\ nodeRow \in [Nodes -> NodeRow]
  /\ proc \in [Nodes -> Proc]

(* An operator's drain intent closes admission whatever the process does:  *)
(* no heartbeat, restart or shutdown makes such a row active again         *)
(* (Register and HeartbeatOnce keep the row draining while drain_intent is *)
(* set).                                                                   *)
IntentClosesAdmission ==
  \A n \in Nodes : nodeRow[n].intent => nodeRow[n].status \in {"draining", "dead"}

(* While a process lives that has drained, its row becomes claim-eligible  *)
(* again only by a heartbeat it had read before it drained, and not even   *)
(* by that one as long as the row says draining: a stale-node scan must    *)
(* have turned it dead, or the shutdown's own write must have failed       *)
(* (MarkLocalDraining, HeartbeatOnce).                                     *)
DrainedNeverAdvertises ==
  [][\A n \in Nodes :
       (/\ Drained(n) /\ proc[n].stopped /\ ~ClaimEligible(n)
        /\ proc'[n].up /\ ClaimEligible(n)')
       => /\ nodeRow[n].status # "draining"
          /\ \E b \in proc[n].beats :
               ~b.after /\ b.says = "active" /\ proc'[n].beats = proc[n].beats \ {b}]_nodeVars

(* An operator's drain reaches the queues of a live process, unless the    *)
(* intent is cleared or the process ends first (RunNodeDrainWatcher).      *)
DrainReachesQueues ==
  \A n \in Nodes :
    (proc[n].up /\ nodeRow[n].intent)
      ~> (proc[n].stopped \/ ~proc[n].up \/ ~nodeRow[n].intent)

=============================================================================
