--------------------------- MODULE SandboxHolders ---------------------------
(* Who may destroy a session's sandbox container.  A container is shared by *)
(* agent turns, a preview and (for code reviews) a retained workspace; what *)
(* keeps it alive is written on three tables: sessions.container_id and     *)
(* turn_holding_container, preview_instances.preview_holding_container, and *)
(* the leased rows of session_sandbox_holders.  Turns run by                *)
(* services/agent/orchestrator.go, the preview start job and stop, the host *)
(* garbage collector and the start-up reconciler all clear and destroy.     *)
(* One SQL statement and one call of the container daemon are one step      *)
(* each, and a process may die between any two of them.                     *)
EXTENDS Naturals

CONSTANTS Turns,       \* jobs that run a turn of the session (siblings, duplicates)
          Nodes,       \* hosts, each with its own container daemon
          Containers,  \* identities the daemons may hand out, each at most once
          MaxFaults,   \* bound on crashes, starts and errors in one behaviour
          None

ASSUME BoxAssumption == MaxFaults \in Nat /\ None \notin Turns \cup Nodes \cup Containers

VARIABLES
  row,       \* the sessions row
  docker,    \* what the daemons hold: state and host of every container
  holder,    \* a turn's leased session_sandbox_holders row
  retained,  \* the unexpired code_review holder of the session, if any
  turn,      \* the processes that run turns
  preview,   \* the preview instance (its hold) and its start job
  stopper,   \* a StopPreview call
  doomed,    \* containers the hosts' collectors have decided to destroy
  rc,        \* the start-up reconciler
  faults,    \* crashes, starts, errors, lost answers and lapses so far
  exposed    \* history: containers the start-up pass listed before they were
             \* published, or whose publisher was not told of it

boxVars == <<row, docker, holder, retained, turn, preview, stopper, doomed, rc, faults,
             exposed>>

TurnIdle == [pc |-> "idle", node |-> None, c |-> None, w |-> None]
PreviewNone == [pc |-> "none", hold |-> FALSE, warm |-> FALSE,
                node |-> None, c |-> None]
StopIdle == [pc |-> "idle", w |-> None]
RcIdle == [pc |-> "idle", c |-> None]

BoxInit ==
  /\ row \in [container : {None}, node : {None}, turnHold : {FALSE},
              status : {"idle"}, review : BOOLEAN]
  /\ docker = [c \in Containers |-> [st |-> "absent", node |-> None]]
  /\ holder = [t \in Turns |-> "none"]
  /\ retained = FALSE
  /\ turn = [t \in Turns |-> TurnIdle]
  /\ preview = PreviewNone
  /\ stopper = StopIdle
  /\ doomed = {}
  /\ rc = RcIdle
  /\ faults = 0
  /\ exposed = {}

-----------------------------------------------------------------------------
(* The statements of the stores, as the row they leave. *)

\* status IN ('active','draining') AND expires_at > now(), on any holder row.
LiveHolder == retained \/ \E t \in Turns : holder[t] \in {"live", "revived"}

\* Publish c if the row has none; hold only if c is the row's container.
AcquireTurnHold(c) ==
  IF row.container \in {None, c}
  THEN [row EXCEPT !.container = c, !.turnHold = TRUE]
  ELSE row

\* A join that publishes what it finds missing.
MutantJoinPublishes(c) == AcquireTurnHold(c)

\* Never publishes, only joins.
AcquireExistingTurnHold(c) ==
  IF row.container = c THEN [row EXCEPT !.turnHold = TRUE] ELSE row

PublishHydratedContainerID(c) ==
  IF row.container = None THEN [row EXCEPT !.container = c] ELSE row

\* A clear that forgets the preview's hold.
MutantClearBlindToPreview(c) == row.container = c /\ ~LiveHolder

CanClear(c) == row.container = c /\ ~preview.hold /\ ~LiveHolder

\* Resets the turn's hold too, and does not ask whether it is set.
ClearContainerID(c) ==
  IF CanClear(c)
  THEN [row EXCEPT !.container = None, !.node = None, !.turnHold = FALSE]
  ELSE row

CanFinalize(c) == CanClear(c) /\ ~row.turnHold

FinalizeContainerDestroy(c) ==
  IF CanFinalize(c) THEN [row EXCEPT !.container = None, !.node = None] ELSE row

\* SetWorkerNodeIDForContainer: the recorded container only, and only where
\* no other node owns it.
CanOwn(c, n) == row.container = c /\ row.node \in {None, n}

\* ResetAfterLostReuse.
ResetAfterLostReuse ==
  IF row.container = None /\ ~row.turnHold THEN [row EXCEPT !.status = "idle"] ELSE row

\* Something goes wrong, or a new process starts.
Fault == faults < MaxFaults /\ faults' = faults + 1

(* The container daemon of host n. *)

\* IsAlive: a container of another host is reported gone.
Alive(c, n) == docker[c] = [st |-> "up", node |-> n]

Create(c, n) ==
  /\ docker[c].st = "absent"
  /\ docker' = [docker EXCEPT ![c] = [st |-> "up", node |-> n]]

\* A container that is no longer there: "removed" by a process of this system,
\* or "gone" by itself.
Drop(c, n, how) ==
  IF Alive(c, n) THEN [docker EXCEPT ![c] = [st |-> how, node |-> None]] ELSE docker

\* Destroy may fail; every caller logs the error and goes on.
Destroy(c, n) ==
  \/ docker' = Drop(c, n, "removed") /\ UNCHANGED faults
  \/ Fault /\ UNCHANGED docker

-----------------------------------------------------------------------------
(* A turn: RunAgent and ContinueSession. *)

At(t, pc) == turn[t].pc = pc

Goto(t, pc) == turn' = [turn EXCEPT ![t].pc = pc]

Leave(t) == turn' = [turn EXCEPT ![t] = TurnIdle]

\* The job is claimed on host n and loads the session; a recorded container
\* may belong to another host.
TurnRead(t, n) ==
  /\ At(t, "idle")
  /\ turn' = [turn EXCEPT ![t] =
       [pc |-> IF row.container # None /\ row.node \notin {None, n} THEN "elsewhere" ELSE "read",
        node |-> n, c |-> row.container, w |-> None]]
  /\ row' = [row EXCEPT !.status = "running"]
  /\ UNCHANGED <<docker, holder, retained, preview, stopper, doomed, rc, faults, exposed>>

\* No recorded container: create one (or hydrate a snapshot) on this host.
TurnCreate(t) ==
  /\ At(t, "read") /\ turn[t].c = None
  /\ \E c \in Containers :
       /\ Create(c, turn[t].node)
       /\ turn' = [turn EXCEPT ![t].pc = "created", ![t].c = c]
  /\ UNCHANGED <<row, holder, retained, preview, stopper, doomed, rc, faults, exposed>>

\* The reuse path's node and liveness check.  On another node's container the
\* job is handed back, or, when that node was declared dead, the id is cleared;
\* a failing probe hands the job back too.
TurnProbe(t) ==
  /\ At(t, "elsewhere") \/ (At(t, "read") /\ turn[t].c # None)
  /\ \/ /\ Goto(t, IF Alive(turn[t].c, turn[t].node) THEN "reuse" ELSE "stale")
        /\ UNCHANGED <<row, faults>>
     \/ /\ Leave(t)
        /\ row' = [row EXCEPT !.status = "idle"]
        /\ IF At(t, "elsewhere") THEN UNCHANGED faults ELSE Fault
  /\ UNCHANGED <<docker, holder, retained, preview, stopper, doomed, rc, exposed>>

\* ClearContainerID on a container found dead, then the job is retried.
TurnClearStale(t) ==
  /\ At(t, "stale")
  /\ row' = [ClearContainerID(turn[t].c) EXCEPT !.status = "idle"]
  /\ Leave(t)
  /\ UNCHANGED <<docker, holder, retained, preview, stopper, doomed, rc, faults, exposed>>

\* A turn that rebuilds its workspace clears the recorded container, dead or
\* alive, before it creates its own ...
TurnRebuild(t) ==
  /\ At(t, "elsewhere") \/ (At(t, "read") /\ turn[t].c # None)
  /\ row' = ClearContainerID(turn[t].c)
  /\ IF CanClear(turn[t].c) THEN Goto(t, "rebuild") ELSE Leave(t)
  /\ UNCHANGED <<docker, holder, retained, preview, stopper, doomed, rc, faults, exposed>>

\* ... and destroys it.
TurnRebuildDestroy(t) ==
  /\ At(t, "rebuild")
  /\ Destroy(turn[t].c, turn[t].node)
  /\ turn' = [turn EXCEPT ![t].pc = "read", ![t].c = None]
  /\ UNCHANGED <<row, holder, retained, preview, stopper, doomed, rc, exposed>>

\* Publish the new container and take the hold, or learn who was first; the
\* statement may also fail, or be applied and its answer lost.
TurnPublish(t) ==
  /\ At(t, "created")
  /\ LET won == AcquireTurnHold(turn[t].c)
     IN \/ /\ row' = won
           /\ turn' = IF won.container = turn[t].c
                      THEN [turn EXCEPT ![t].pc = "held"]
                      ELSE [turn EXCEPT ![t].pc = "lost", ![t].w = won.container]
           /\ UNCHANGED <<faults, exposed>>
        \/ /\ row' \in {row, won} /\ Goto(t, "unheld") /\ Fault
           /\ exposed' = exposed \cup ({turn[t].c} \cap {row'.container})
  /\ UNCHANGED <<docker, holder, retained, preview, stopper, doomed, rc>>

\* A turn that lost the race destroys the container it created ...
TurnDropLoser(t) ==
  /\ At(t, "lost")
  /\ Destroy(turn[t].c, turn[t].node)
  /\ turn' = [turn EXCEPT ![t].pc = "diagnose", ![t].c = None]
  /\ UNCHANGED <<row, holder, retained, preview, stopper, doomed, rc, exposed>>

\* ... and so does one that was not told the outcome: its statement may have
\* published the container all the same.
TurnDropUnheld(t) ==
  /\ At(t, "unheld")
  /\ Destroy(turn[t].c, turn[t].node)
  /\ Leave(t)
  /\ row' = [row EXCEPT !.status = "idle"]
  /\ UNCHANGED <<holder, retained, preview, stopper, doomed, rc, exposed>>

\* Join the recorded container by its id.
TurnReuse(t) ==
  /\ At(t, "reuse")
  /\ row' = AcquireExistingTurnHold(turn[t].c)
  /\ Goto(t, IF row.container = turn[t].c THEN "held" ELSE "moved")
  /\ UNCHANGED <<docker, holder, retained, preview, stopper, doomed, rc, faults, exposed>>

\* The strict join lost: a cleared row reopens the session, a replacement is
\* diagnosed, anything else is taken for a live winner.
TurnMoved(t) ==
  /\ At(t, "moved")
  /\ row' = ResetAfterLostReuse
  /\ IF row.container \in {None, turn[t].c}
     THEN Leave(t)
     ELSE turn' = [turn EXCEPT ![t].pc = "diagnose", ![t].c = None, ![t].w = row.container]
  /\ UNCHANGED <<docker, holder, retained, preview, stopper, doomed, rc, faults, exposed>>

\* diagnoseAcquireHoldRaceLoss, the probe: on this turn's own host.
TurnDiagnose(t) ==
  /\ At(t, "diagnose")
  /\ IF Alive(turn[t].w, turn[t].node)
     THEN /\ Leave(t)
          /\ row' = IF ~row.turnHold /\ preview.hold
                    THEN [row EXCEPT !.status = "idle"] ELSE row
     ELSE Goto(t, "clearWinner") /\ UNCHANGED row
  /\ UNCHANGED <<docker, holder, retained, preview, stopper, doomed, rc, faults, exposed>>

\* diagnoseAcquireHoldRaceLoss, the clear of a winner taken for dead.
TurnClearWinner(t) ==
  /\ At(t, "clearWinner")
  /\ row' = IF CanClear(turn[t].w)
            THEN [ClearContainerID(turn[t].w) EXCEPT !.status = "idle"] ELSE row
  /\ Leave(t)
  /\ UNCHANGED <<docker, holder, retained, preview, stopper, doomed, rc, faults, exposed>>

\* acquireReviewSetupHold, first half: a review turn writes its leased row ...
TurnPin(t) ==
  /\ At(t, "held") /\ row.review
  /\ holder' = [holder EXCEPT ![t] = "live"]
  /\ Goto(t, "pinned")
  /\ UNCHANGED <<row, docker, retained, preview, stopper, doomed, rc, faults, exposed>>

\* A fence that trusts the hold it took before.
MutantNoRejoin(t) ==
  /\ At(t, "pinned")
  /\ Goto(t, "fenced")
  /\ UNCHANGED <<row, docker, holder, retained, preview, stopper, doomed, rc, faults, exposed>>

\* ... and then joins the container once more: a clear that came before the
\* leased row is noticed here.
TurnFence(t) ==
  /\ At(t, "pinned")
  /\ IF row.container = turn[t].c
     THEN /\ row' = AcquireExistingTurnHold(turn[t].c)
          /\ Goto(t, "fenced") /\ UNCHANGED holder
     ELSE /\ row' = ResetAfterLostReuse
          /\ Goto(t, "release") /\ holder' = [holder EXCEPT ![t] = "none"]
  /\ UNCHANGED <<docker, retained, preview, stopper, doomed, rc, faults, exposed>>

\* Record the host that owns the container.
TurnOwn(t) ==
  /\ At(t, "fenced") \/ (At(t, "held") /\ ~row.review)
  /\ IF CanOwn(turn[t].c, turn[t].node)
     THEN /\ row' = [row EXCEPT !.node = turn[t].node]
          /\ Goto(t, "owned") /\ UNCHANGED holder
     ELSE /\ row' = [row EXCEPT !.status = "idle"]
          /\ Goto(t, "release") /\ holder' = [holder EXCEPT ![t] = "none"]
  /\ UNCHANGED <<docker, retained, preview, stopper, doomed, rc, faults, exposed>>

\* startThreadRuntimeControl: the leased thread_runtime row, and the agent runs.
\* A review's new row does not make up for a set-up lease that has lapsed.
TurnRun(t) ==
  /\ At(t, "owned")
  /\ holder' = [holder EXCEPT ![t] = IF row.review /\ @ # "live" THEN "revived" ELSE "live"]
  /\ Goto(t, "run")
  /\ UNCHANGED <<row, docker, retained, preview, stopper, doomed, rc, faults, exposed>>

\* A leased row nobody will renew: it counts while it lives.
Abandoned(t) == IF holder[t] = "lapsed" THEN "none" ELSE holder[t]

\* The turn ends, well or badly: its leased row is released (or the release
\* fails and the lease runs out), and the session leaves 'running' unless a
\* sibling runtime is live.
TurnEnd(t) ==
  /\ turn[t].pc \in {"held", "pinned", "fenced", "owned", "run"}
  /\ \/ holder' = [holder EXCEPT ![t] = "none"] /\ UNCHANGED faults
     \/ holder' = [holder EXCEPT ![t] = Abandoned(t)] /\ Fault
  /\ row' = IF \E s \in Turns \ {t} : holder[s] \in {"live", "revived"}
            THEN row ELSE [row EXCEPT !.status = "idle"]
  /\ Goto(t, IF row.review /\ At(t, "run") THEN "retain" ELSE "release")
  /\ UNCHANGED <<docker, retained, preview, stopper, doomed, rc, exposed>>

\* maintainCodeReviewWorkspaceAfterTurn: a reviewer keeps the workspace for
\* the next turn, the synthesis turn gives it up, a failed turn does neither.
TurnRetain(t) ==
  /\ At(t, "retain")
  /\ retained' \in IF row.container = turn[t].c /\ row.node = turn[t].node
                   THEN BOOLEAN ELSE {retained}
  /\ Goto(t, "release")
  /\ UNCHANGED <<row, docker, holder, preview, stopper, doomed, rc, faults, exposed>>

\* ReleaseTurnHold.  Without an answer the turn assumes it is the last holder
\* of its own container.
TurnRelease(t) ==
  /\ At(t, "release")
  /\ \/ /\ row' = [row EXCEPT !.turnHold = FALSE]
        /\ IF row.container # None /\ ~preview.hold /\ ~LiveHolder
           THEN turn' = [turn EXCEPT ![t].pc = "finalize", ![t].w = row.container]
           ELSE Leave(t)
        /\ UNCHANGED faults
     \/ /\ row' \in {row, [row EXCEPT !.turnHold = FALSE]}
        /\ turn' = [turn EXCEPT ![t].pc = "finalize", ![t].w = turn[t].c]
        /\ Fault
  /\ UNCHANGED <<docker, holder, retained, preview, stopper, doomed, rc, exposed>>

\* FinalizeContainerDestroy decides who destroys; an error leaves the container.
TurnFinalize(t) ==
  /\ At(t, "finalize")
  /\ \/ /\ row' = FinalizeContainerDestroy(turn[t].w)
        /\ IF CanFinalize(turn[t].w)
           THEN turn' = [turn EXCEPT ![t].pc = "destroy", ![t].w = None] ELSE Leave(t)
        /\ UNCHANGED faults
     \/ row' \in {row, FinalizeContainerDestroy(turn[t].w)} /\ Leave(t) /\ Fault
  /\ UNCHANGED <<docker, holder, retained, preview, stopper, doomed, rc, exposed>>

TurnDestroy(t) ==
  /\ At(t, "destroy")
  /\ Destroy(turn[t].c, turn[t].node)
  /\ Leave(t)
  /\ UNCHANGED <<row, holder, retained, preview, stopper, doomed, rc, exposed>>

\* The process of the turn dies.
TurnCrash(t) ==
  /\ ~At(t, "idle")
  /\ Fault
  /\ Leave(t)
  /\ holder' = [holder EXCEPT ![t] = Abandoned(t)]
  /\ UNCHANGED <<row, docker, retained, preview, stopper, doomed, rc, exposed>>

\* The turn's process heartbeats its leased row.
Renewed(t) == At(t, "run") \/ (row.review /\ turn[t].pc \in {"pinned", "fenced", "owned"})

\* A leased row runs out; a heartbeat by lease token brings it back as long
\* as nobody released it.
HolderLapse(t) ==
  /\ holder[t] \in {"live", "revived"}
  /\ IF Renewed(t) THEN holder' = [holder EXCEPT ![t] = "lapsed"] /\ Fault
                   ELSE holder' = [holder EXCEPT ![t] = "none"] /\ UNCHANGED faults
  /\ UNCHANGED <<row, docker, retained, turn, preview, stopper, doomed, rc, exposed>>

HolderHeartbeat(t) ==
  /\ holder[t] = "lapsed" /\ Renewed(t)
  /\ holder' = [holder EXCEPT ![t] = "revived"]
  /\ UNCHANGED <<row, docker, retained, turn, preview, stopper, doomed, rc, faults, exposed>>

RetainedExpires ==
  /\ retained
  /\ retained' = FALSE
  /\ UNCHANGED <<row, docker, holder, turn, preview, stopper, doomed, rc, faults, exposed>>

\* A session whose processes are gone is taken out of 'running' by the reaper.
StatusReaped ==
  /\ row.status = "running" /\ \A t \in Turns : At(t, "idle")
  /\ row' = [row EXCEPT !.status = "idle"]
  /\ UNCHANGED <<docker, holder, retained, turn, preview, stopper, doomed, rc, faults, exposed>>

-----------------------------------------------------------------------------
(* A preview: reservation, start job, abort and stop. *)

Pv(pc) == preview.pc = pc

\* ReservePreview: the instance and its hold, before any container is looked at.
\* Review sessions take no preview hold.
PreviewReserve ==
  /\ Pv("none") /\ ~preview.hold /\ ~row.review
  /\ preview' = [PreviewNone EXCEPT !.pc = "reserved", !.hold = TRUE]
  /\ UNCHANGED <<row, docker, holder, retained, turn, stopper, doomed, rc, faults, exposed>>

\* checkLiveContainerWorker, on the row as host n loads it.
Misplaced(n) == row.container # None /\ row.node # n

\* The start job on host n loads the session.  On a container it does not own
\* it gives up for a retry; a reservation that was stopped or lost ends it.
PreviewRead(n) ==
  /\ Pv("reserved")
  /\ ~(preview.hold /\ Misplaced(n))
  /\ preview' = IF preview.hold
                THEN [preview EXCEPT !.pc = "read", !.node = n, !.c = row.container]
                ELSE PreviewNone
  /\ UNCHANGED <<row, docker, holder, retained, turn, stopper, doomed, rc, faults, exposed>>

\* WarmSessionPreview loads the session first ...
PreviewWarmRead(n) ==
  /\ Pv("none") /\ ~preview.hold
  /\ preview' = [pc |-> IF Misplaced(n) THEN "warmWrong" ELSE "warmRead", hold |-> FALSE,
                 warm |-> TRUE, node |-> n, c |-> IF Misplaced(n) THEN None ELSE row.container]
  /\ UNCHANGED <<row, docker, holder, retained, turn, stopper, doomed, rc, faults, exposed>>

\* ... and reserves afterwards.
PreviewWarmReserve ==
  /\ Pv("warmRead") \/ Pv("warmWrong")
  /\ ~row.review
  /\ preview' = [preview EXCEPT !.pc = IF Pv("warmRead") THEN "read" ELSE "abort", !.hold = TRUE]
  /\ UNCHANGED <<row, docker, holder, retained, turn, stopper, doomed, rc, faults, exposed>>

\* A busy or misplaced sandbox: the start job is retried, the warm job aborts.
Busy == [preview EXCEPT !.pc = IF preview.warm THEN "abort" ELSE "reserved",
                        !.node = None, !.c = None]

\* acquireSandbox, first half: attach to the loaded container if it is alive;
\* a dead one, a workspace that is not ready yet, or a probe that fails, leads on.
PreviewProbe ==
  /\ Pv("read")
  /\ \/ /\ preview.c # None /\ Alive(preview.c, preview.node)
        /\ preview' = [preview EXCEPT !.pc = "up"]
     \/ preview' = [preview EXCEPT !.pc = "peek", !.c = None]
  /\ UNCHANGED <<row, docker, holder, retained, turn, stopper, doomed, rc, faults, exposed>>

\* acquireSandbox, second half: a fresh look at the row.
PreviewPeek ==
  /\ Pv("peek")
  /\ preview' = IF row.container = None THEN [preview EXCEPT !.pc = "hydrate"]
                ELSE IF row.node # preview.node \/ Alive(row.container, preview.node) THEN Busy
                ELSE [preview EXCEPT !.pc = "clear", !.c = row.container]
  /\ UNCHANGED <<row, docker, holder, retained, turn, stopper, doomed, rc, faults, exposed>>

\* clearStalePreviewContainer.
PreviewClearStale ==
  /\ Pv("clear")
  /\ row' = ClearContainerID(preview.c)
  /\ preview' = Busy
  /\ UNCHANGED <<docker, holder, retained, turn, stopper, doomed, rc, faults, exposed>>

PreviewHydrate ==
  /\ Pv("hydrate")
  /\ \E c \in Containers :
       /\ Create(c, preview.node)
       /\ preview' = [preview EXCEPT !.pc = "publish", !.c = c]
  /\ UNCHANGED <<row, holder, retained, turn, stopper, doomed, rc, faults, exposed>>

\* Only the first to publish keeps its container.
PreviewPublish ==
  /\ Pv("publish")
  /\ LET won == PublishHydratedContainerID(preview.c)
     IN \/ /\ row' = won
           /\ preview' = [preview EXCEPT !.pc = IF won.container = preview.c THEN "up" ELSE "lost"]
           /\ UNCHANGED <<faults, exposed>>
        \/ /\ row' \in {row, won} /\ preview' = [preview EXCEPT !.pc = "failed"] /\ Fault
           /\ exposed' = exposed \cup ({preview.c} \cap {row'.container})
  /\ UNCHANGED <<docker, holder, retained, turn, stopper, doomed, rc>>

\* A loser destroys what it hydrated, and so does one that was not told.
PreviewDropLoser ==
  /\ Pv("lost")
  /\ Destroy(preview.c, preview.node)
  /\ preview' = Busy
  /\ UNCHANGED <<row, holder, retained, turn, stopper, doomed, rc, exposed>>

PreviewDropFailed ==
  /\ Pv("failed")
  /\ Destroy(preview.c, preview.node)
  /\ preview' = [preview EXCEPT !.pc = "abort", !.node = None, !.c = None]
  /\ UNCHANGED <<row, holder, retained, turn, stopper, doomed, rc, exposed>>

\* After the launch the host is recorded as the owner, best effort.
PreviewOwn ==
  /\ Pv("up") /\ preview.hold /\ CanOwn(preview.c, preview.node)
  /\ row' = [row EXCEPT !.node = preview.node]
  /\ UNCHANGED <<docker, holder, retained, turn, preview, stopper, doomed, rc, faults, exposed>>

\* A failed launch, or a start job that runs out of retries, aborts; an
\* instance already stopped cannot launch.
PreviewFails ==
  /\ Pv("up") \/ Pv("reserved")
  /\ preview' = [preview EXCEPT !.pc = "abort"]
  /\ UNCHANGED <<row, docker, holder, retained, turn, stopper, doomed, rc, faults, exposed>>

\* AbortReservation, UpdatePreviewStatus: a failed instance holds nothing.
PreviewAbort ==
  /\ Pv("abort")
  /\ preview' = [preview EXCEPT !.pc = "release", !.hold = FALSE]
  /\ UNCHANGED <<row, docker, holder, retained, turn, stopper, doomed, rc, faults, exposed>>

\* AbortReservation, ReleasePreviewHold: go on only if the row still carries
\* the container this attempt acquired, and no turn holds it.
PreviewRelease ==
  /\ Pv("release")
  /\ preview' = IF preview.c # None /\ row.container = preview.c /\ ~row.turnHold
                THEN [preview EXCEPT !.pc = "finalize", !.hold = FALSE]
                ELSE PreviewNone
  /\ UNCHANGED <<row, docker, holder, retained, turn, stopper, doomed, rc, faults, exposed>>

PreviewFinalize ==
  /\ Pv("finalize")
  /\ row' = FinalizeContainerDestroy(preview.c)
  /\ preview' = IF CanFinalize(preview.c) THEN [preview EXCEPT !.pc = "destroy"] ELSE PreviewNone
  /\ UNCHANGED <<docker, holder, retained, turn, stopper, doomed, rc, faults, exposed>>

PreviewDestroy ==
  /\ Pv("destroy")
  /\ Destroy(preview.c, preview.node)
  /\ preview' = PreviewNone
  /\ UNCHANGED <<row, holder, retained, turn, stopper, doomed, rc, exposed>>

\* The process of the attempt dies: a start job is retried, anything else is
\* simply gone, its hold left behind.
PreviewCrash ==
  /\ preview.pc \notin {"none", "reserved", "up"}
  /\ Fault
  /\ preview' = IF preview.pc \in {"abort", "release", "finalize", "destroy"} \/ preview.warm
                THEN [PreviewNone EXCEPT !.hold = preview.hold]
                ELSE [PreviewNone EXCEPT !.pc = "reserved", !.hold = preview.hold]
  /\ UNCHANGED <<row, docker, holder, retained, turn, stopper, doomed, rc, exposed>>

\* The runtime's lease expires or its worker restarts: the instance becomes
\* unavailable and gives up the hold, and nobody finalizes the container.
PreviewLost ==
  /\ preview.hold
  /\ Fault
  /\ preview' = IF Pv("up") THEN PreviewNone ELSE [preview EXCEPT !.hold = FALSE]
  /\ UNCHANGED <<row, docker, holder, retained, turn, stopper, doomed, rc, exposed>>

\* StopPreviewWithReason: release the hold; destroyNow when no turn holds.
StopPreview ==
  /\ stopper.pc = "idle" /\ preview.hold
  /\ preview' = IF Pv("up") THEN PreviewNone ELSE [preview EXCEPT !.hold = FALSE]
  /\ stopper' = IF row.container # None /\ ~row.turnHold
                THEN [pc |-> "finalize", w |-> row.container] ELSE StopIdle
  /\ UNCHANGED <<row, docker, holder, retained, turn, doomed, rc, faults, exposed>>

StopFinalize ==
  /\ stopper.pc = "finalize"
  /\ row' = FinalizeContainerDestroy(stopper.w)
  /\ stopper' = IF CanFinalize(stopper.w) THEN [stopper EXCEPT !.pc = "destroy"] ELSE StopIdle
  /\ UNCHANGED <<docker, holder, retained, turn, preview, doomed, rc, faults, exposed>>

StopDestroy ==
  /\ stopper.pc = "destroy"
  /\ Destroy(stopper.w, docker[stopper.w].node)
  /\ stopper' = StopIdle
  /\ UNCHANGED <<row, holder, retained, turn, preview, doomed, rc, exposed>>

-----------------------------------------------------------------------------
(* The collectors. *)

\* Containers created and not yet published.
Unpublished ==
  {turn[t].c : t \in {u \in Turns : At(u, "created")}} \cup
  (IF Pv("publish") THEN {preview.c} ELSE {})

Unreferenced(n) == {c \in Containers : Alive(c, n) /\ row.container # c}

\* reapOnce on host n: the references, then the host's containers; the
\* unreferenced ones go, but for the young: the periodic pass spares half an
\* hour.
GcList(n) ==
  /\ doomed' = doomed \cup (Unreferenced(n) \ Unpublished)
  /\ UNCHANGED <<row, docker, holder, retained, turn, preview, stopper, rc, faults, exposed>>

\* ReapStartup: the same pass of a process that starts on host n, without a
\* grace period.  It spares what was created after the process started, but
\* not what an overlapping generation is creating; the pressure pass of a full
\* host does as much to a hydration that outlasts its two minutes.  (A pass
\* that finds no such container is a GcList.)
GcStartup(n) ==
  /\ Unreferenced(n) \cap Unpublished # {}
  /\ Fault
  /\ doomed' = doomed \cup Unreferenced(n)
  /\ exposed' = exposed \cup (Unreferenced(n) \cap Unpublished)
  /\ UNCHANGED <<row, docker, holder, retained, turn, preview, stopper, rc>>

\* reapOnce, a referenced container past the hard age limit (or an idle review
\* workspace, which must have no agent job): the finalizing CAS, then destroy.
GcExpire(c) ==
  /\ docker[c].st = "up" /\ CanFinalize(c)
  /\ row.review => \A t \in Turns : At(t, "idle")
  /\ row' = FinalizeContainerDestroy(c)
  /\ doomed' = doomed \cup {c}
  /\ UNCHANGED <<docker, holder, retained, turn, preview, stopper, rc, faults, exposed>>

\* reapOnce, FinalizeStaleTerminalCodeReviewContainer: a quiet review whose
\* turn left its hold behind.
GcStaleReview(c) ==
  /\ docker[c].st = "up" /\ row.review /\ row.status = "idle"
  /\ \A t \in Turns : At(t, "idle")
  /\ CanClear(c)
  /\ row' = ClearContainerID(c)
  /\ doomed' = doomed \cup {c}
  /\ UNCHANGED <<docker, holder, retained, turn, preview, stopper, rc, faults, exposed>>

GcDestroy(c) ==
  /\ c \in doomed
  /\ Destroy(c, docker[c].node)
  /\ doomed' = doomed \ {c}
  /\ UNCHANGED <<row, holder, retained, turn, preview, stopper, rc, exposed>>

\* ReconcileOrphanedContainers on a starting server: the list ...
RcList ==
  /\ rc.pc = "idle"
  /\ row.container # None /\ row.status # "running" /\ ~preview.hold /\ ~LiveHolder
  /\ rc' = [pc |-> "listed", c |-> row.container]
  /\ UNCHANGED <<row, docker, holder, retained, turn, preview, stopper, doomed, faults, exposed>>

\* ... the probe on the server's host n and the clear, which does not depend
\* on what the probe said (only a failing probe skips the row) ...
RcClear(n) ==
  /\ rc.pc = "listed"
  /\ row' = ClearContainerID(rc.c)
  /\ rc' = IF CanClear(rc.c) /\ Alive(rc.c, n) THEN [rc EXCEPT !.pc = "destroy"] ELSE RcIdle
  /\ UNCHANGED <<docker, holder, retained, turn, preview, stopper, doomed, faults, exposed>>

RcSkip ==
  /\ rc.pc = "listed"
  /\ Fault
  /\ rc' = RcIdle
  /\ UNCHANGED <<row, docker, holder, retained, turn, preview, stopper, doomed, exposed>>

\* ... and the destroy.
RcDestroy ==
  /\ rc.pc = "destroy"
  /\ Destroy(rc.c, docker[rc.c].node)
  /\ rc' = RcIdle
  /\ UNCHANGED <<row, holder, retained, turn, preview, stopper, doomed, exposed>>

\* A container disappears by itself: its host restarts, or it is killed.
Vanishes(c) ==
  /\ docker[c].st = "up"
  /\ Fault
  /\ docker' = Drop(c, docker[c].node, "gone")
  /\ UNCHANGED <<row, holder, retained, turn, preview, stopper, doomed, rc, exposed>>

-----------------------------------------------------------------------------
TurnStep(t) ==
  \/ \E n \in Nodes : TurnRead(t, n)
  \/ TurnCreate(t) \/ TurnProbe(t) \/ TurnClearStale(t) \/ TurnRebuild(t)
  \/ TurnRebuildDestroy(t) \/ TurnPublish(t) \/ TurnDropLoser(t)
  \/ TurnDropUnheld(t) \/ TurnReuse(t)
  \/ TurnMoved(t) \/ TurnDiagnose(t) \/ TurnClearWinner(t) \/ TurnPin(t)
  \/ TurnFence(t) \/ TurnOwn(t) \/ TurnRun(t) \/ TurnEnd(t) \/ TurnRetain(t)
  \/ TurnRelease(t) \/ TurnFinalize(t) \/ TurnDestroy(t) \/ TurnCrash(t)
  \/ HolderLapse(t) \/ HolderHeartbeat(t)

PreviewStep ==
  \/ PreviewReserve \/ (\E n \in Nodes : PreviewRead(n) \/ PreviewWarmRead(n))
  \/ PreviewWarmReserve \/ PreviewProbe \/ PreviewPeek \/ PreviewClearStale
  \/ PreviewHydrate \/ PreviewPublish \/ PreviewDropLoser \/ PreviewDropFailed \/ PreviewOwn
  \/ PreviewFails \/ PreviewAbort \/ PreviewRelease \/ PreviewFinalize
  \/ PreviewDestroy \/ PreviewCrash \/ PreviewLost
  \/ StopPreview \/ StopFinalize \/ StopDestroy

CollectorStep ==
  \/ \E n \in Nodes : GcList(n) \/ GcStartup(n) \/ RcClear(n)
  \/ \E c \in Containers : GcExpire(c) \/ GcStaleReview(c) \/ GcDestroy(c)
  \/ RcList \/ RcSkip \/ RcDestroy

BoxNext ==
  \/ \E t \in Turns : TurnStep(t)
  \/ PreviewStep
  \/ CollectorStep
  \/ RetainedExpires
  \/ StatusReaped
  \/ \E c \in Containers : Vanishes(c)

BoxSpec == BoxInit /\ [][BoxNext]_boxVars

-----------------------------------------------------------------------------
TurnPlace ==
  {"idle", "elsewhere", "read", "created", "reuse", "stale", "rebuild", "held", "lost",
   "unheld", "moved", "diagnose", "clearWinner", "pinned", "fenced", "owned", "run",
   "retain", "release", "finalize", "destroy"}

PreviewPlace ==
  {"none", "reserved", "warmRead", "warmWrong", "read", "peek", "clear", "hydrate",
   "publish", "up", "lost", "failed", "abort", "release", "finalize", "destroy"}

\* Rows, holds and processes keep their types.
BoxTypeOK ==
  /\ row \in [container : Containers \cup {None}, node : Nodes \cup {None},
              turnHold : BOOLEAN, status : {"idle", "running"}, review : BOOLEAN]
  /\ docker \in [Containers -> [st : {"absent", "up", "gone", "removed"},
                                node : Nodes \cup {None}]]
  /\ holder \in [Turns -> {"none", "live", "lapsed", "revived"}]
  /\ retained \in BOOLEAN
  /\ turn \in [Turns -> [pc : TurnPlace, node : Nodes \cup {None},
                         c : Containers \cup {None}, w : Containers \cup {None}]]
  /\ preview \in [pc : PreviewPlace, hold : BOOLEAN, warm : BOOLEAN,
                  node : Nodes \cup {None}, c : Containers \cup {None}]
  /\ stopper \in [pc : {"idle", "finalize", "destroy"}, w : Containers \cup {None}]
  /\ doomed \subseteq Containers
  /\ rc \in [pc : {"idle", "listed", "destroy"}, c : Containers \cup {None}]
  /\ faults \in 0..MaxFaults
  /\ exposed \subseteq Containers

\* The session names a container that a process of this system has removed in
\* two cases only: a starting process listed it before it was published,
\* or its publisher was not told that the statement succeeded and destroyed it.
\* In every other case the destroy follows the clear of the row, a loser
\* destroys only what it never published, and a reader that is late to reuse a
\* cleared id cannot bring it back (orchestrator.go "clear container_id FIRST").
RowNeverDangles ==
  row.container # None /\ docker[row.container].st \in {"absent", "removed"}
    => row.container \in exposed

\* The session keeps naming the container that a preview attached to after it
\* read the session under its own hold, whatever turns, collectors and the
\* reconciler do meanwhile (ReservePreview: "Reserving BEFORE sandbox hydration
\* is load-bearing"); with RowNeverDangles, nobody removes it but in the two
\* cases stated there.
PreviewKeepsContainer ==
  Pv("up") /\ preview.hold /\ ~preview.warm => row.container = preview.c

\* The session keeps naming the container of a review turn that wrote its
\* leased row and then joined the container again, until the lease lapses for
\* the first time: siblings that drop the shared hold bit, the collectors and
\* the reconciler all see the lease (acquireReviewSetupHold).
FencedTurnKeepsContainer ==
  \A t \in Turns :
    row.review /\ holder[t] = "live" /\ turn[t].pc \in {"fenced", "owned", "run"}
      => row.container = turn[t].c

\* What the reconciler's comments promise: "we never ambush a live turn".
NeverAmbushed ==
  rc.pc = "destroy" =>
    \A t \in Turns : turn[t].pc \in {"held", "pinned", "fenced", "owned", "run"}
                       => turn[t].c # rc.c
=============================================================================
