-------------------------- MODULE AutomationTarget --------------------------
(* A per-target automation: every webhook delivery about one pull request   *)
(* becomes a run of the same target, and the runs take turns, one at a      *)
(* time, in one long-lived session.  Deliveries arrive late, twice, out of  *)
(* order or never, so each of arrival, the lifecycle notice and the lookup  *)
(* made before a dispatch decides from GitHub's own timestamps what it may  *)
(* still change.                                                            *)
(*                                                                          *)
(*   pr        the states the pull request was in, the current one last     *)
(*   sent      the deliveries GitHub made; the i-th one becomes run i       *)
(*   target    the automation_targets row: lifecycle and its evidence, the  *)
(*             observed head, its epoch, the head tie                       *)
(*   run       the automation_runs rows                                     *)
(*   gen       the generations of the target, each with its session: who    *)
(*             owns it, its turn hold, whether a turn runs in it            *)
(*   look      the lookup a dispatcher made before its transaction          *)
(*   turn      the turn job of a run, its lease, and the worker in it       *)
(*                                                                          *)
(* A dispatch may be attempted at any time, so the wake outbox and the      *)
(* polling of the automation_run jobs are not state here; nor is the        *)
(* difference between a pending run that has waited and one that has not,   *)
(* which only the wait timeout reads.  0 stands for NULL.                   *)
EXTENDS Integers, Sequences, FiniteSets, FiniteSetsExt

CONSTANTS
  MaxDeliveries,   \* deliveries GitHub makes
  MaxOldAnswers,   \* lookups GitHub answers with an earlier state
  WaitingCap       \* automationTargetWaitingCap

ASSUME BoundsAssumption ==
  MaxDeliveries \in Nat \ {0} /\ MaxOldAnswers \in Nat /\ WaitingCap \in Nat \ {0}

VARIABLES pr, sent, target, run, gen, look, turn, epochs, olds

vars == <<pr, sent, target, run, gen, look, turn, epochs, olds>>

Runs == 1..MaxDeliveries

NoRun == [st |-> "none", no |-> 0, epoch |-> 0, res |-> "none",
          resolved |-> 0, gen |-> 0]
NoLook == [ok |-> FALSE, open |-> TRUE, head |-> 0, at |-> 0, old |-> FALSE]
NoTurn == [job |-> "none", ph |-> "none", mark |-> "none", late |-> FALSE]
NewGen == [st |-> "active", release |-> FALSE, reviewed |-> 0, epoch |-> 0,
           owned |-> TRUE, hold |-> FALSE, busy |-> FALSE]

Init ==
  /\ pr = <<[state |-> "open", head |-> 1, at |-> 1]>>
  /\ sent = <<>>
  /\ target = [life |-> "open", seen |-> 0, head |-> 0, headAt |-> 0,
               epoch |-> 0, tie |-> FALSE]
  /\ run = [r \in Runs |-> NoRun]
  /\ gen = <<>>
  /\ look = [r \in Runs |-> NoLook]
  /\ turn = [r \in Runs |-> NoTurn]
  /\ epochs = <<>>
  /\ olds = 0

---------------------------------------------------------------------------
(* GitHub.                                                                  *)

(* The pull request as it is now; pr also keeps the states it was in.        *)
Current == pr[Len(pr)]

Kinds == {"push", "comment", "closed", "merged", "reopened"}

(* What the pull request is after an event of kind k.                       *)
StateAfter(k) ==
  CASE k = "closed" -> "closed"
    [] k = "merged" -> "merged"
    [] k = "reopened" -> "open"
    [] OTHER -> Current.state

(* The pull request changes and one delivery is made.  Timestamps have the  *)
(* resolution of a second, so two events may carry the same one; a comment  *)
(* delivery carries neither a head nor the pull request's timestamp.        *)
GitHub ==
  /\ Len(sent) < MaxDeliveries
  /\ \E k \in Kinds, at \in {Current.at, Current.at + 1} :
       /\ k \in {"push", "closed", "merged"} => Current.state = "open"
       /\ k = "reopened" => Current.state = "closed"
       /\ LET h == IF k = "push" THEN Current.head + 1 ELSE Current.head
          IN  /\ pr' = Append(pr, [state |-> StateAfter(k), head |-> h, at |-> at])
              /\ sent' = Append(sent, [kind |-> k,
                                       head |-> IF k = "comment" THEN 0 ELSE h,
                                       at |-> IF k = "comment" THEN 0 ELSE at])
  /\ UNCHANGED <<target, run, gen, look, turn, epochs, olds>>

---------------------------------------------------------------------------
(* What the stores read and write.                                          *)

Kind(r) == sent[r].kind
IsPush(r) == Kind(r) = "push"

Arrived == {r \in Runs : run[r].st # "none"}
Attached == Arrived # {}

Unstarted(rs) == {r \in Runs : rs[r].st = "pending"}
Executing(rs) == {r \in Runs : rs[r].st = "executing"}

(* Runs the lifecycle still counts as work on the target: a run that fell   *)
(* back to a session of its own keeps its target and has no dispatch state. *)
Remaining(rs) == {r \in Runs : rs[r].st \in {"pending", "executing", "perrun"}}

(* The run that arrived first of a non-empty set.                           *)
First(rs, S) == CHOOSE r \in S : \A q \in S : rs[r].no <= rs[q].no

(* Arbitration of a lifecycle observation, and what it leaves.              *)
Accepts(t, state, at) ==
  \/ t.life = state
  \/ state = "merged"
  \/ t.life # "merged" /\ (t.seen = 0 \/ at >= t.seen)

SetLifecycleObserved(t, state, at) ==
  [t EXCEPT !.life = state,
            !.seen = IF t.life = state \/ state = "merged"
                     THEN Max({@, at}) ELSE at]

AllowsEvent(life, k) == life = "open" \/ (life = "merged" /\ k = "merged")

AdoptHead(t, h, at) ==
  [t EXCEPT !.head = h, !.headAt = at, !.epoch = @ + 1]

TouchObservedHead(t, at) == [t EXCEPT !.headAt = Max({@, at})]

(* An epoch a head was adopted with supersedes the unstarted pushes of      *)
(* earlier ones.                                                            *)
SupersedeWaitingPush(rs, new, epoch) ==
  [q \in Runs |->
     IF q # new /\ q \in Unstarted(rs) /\ IsPush(q) /\ rs[q].epoch \in 1..(epoch - 1)
     THEN [rs[q] EXCEPT !.st = "superseded"]
     ELSE rs[q]]

Stamp(rs, r, epoch, h) ==
  [rs EXCEPT ![r].epoch = epoch, ![r].res = "auth", ![r].resolved = h]

AmbiguousCandidates(rs) == {r \in Unstarted(rs) : rs[r].res = "amb"}

(* The run whose turn is next: the current head's push, then by arrival;    *)
(* 0 when nothing that may start is waiting.                                *)
NextWaiting(rs) ==
  LET ready == {r \in Unstarted(rs) : rs[r].res # "amb"}
      pushes == {r \in ready : IsPush(r) /\ rs[r].res = "auth"}
  IN  IF pushes # {} THEN First(rs, pushes)
      ELSE IF ready # {} THEN First(rs, ready) ELSE 0

ActiveGenerations(gs) == {g \in DOMAIN gs : gs[g].st = "active"}

MutRetireUnderTurn(gs, g, rs) ==
  IF gs[g].st = "active"
  THEN [gs EXCEPT ![g].st = "retired", ![g].release = gs[g].hold,
                  ![g].owned = @ /\ gs[g].hold]
  ELSE gs

(* A generation that a turn still runs in, or whose session is still held,  *)
(* keeps the session until that turn ends.                                  *)
RetireGeneration(gs, g, rs) ==
  LET wait == gs[g].hold \/ \E r \in Executing(rs) : rs[r].gen = g
  IN  IF gs[g].st = "active"
      THEN [gs EXCEPT ![g].st = "retired", ![g].release = wait,
                      ![g].owned = @ /\ wait]
      ELSE gs

RetireActive(gs, rs) ==
  IF ActiveGenerations(gs) = {} THEN gs
  ELSE RetireGeneration(gs, CHOOSE g \in ActiveGenerations(gs) : TRUE, rs)

RetireTerminalTarget(t, gs, rs) ==
  IF t.life # "open" /\ Remaining(rs) = {} THEN RetireActive(gs, rs) ELSE gs

ApplyPendingOwnershipRelease(gs, g) ==
  IF gs[g].release
  THEN [gs EXCEPT ![g].release = FALSE, ![g].owned = FALSE] ELSE gs

MutKeepStaleLookups(lk) == lk

(* Every write of the target row moves its updated_at.  A dispatcher that   *)
(* finds it moved since its lookup throws the lookup away and tries again,  *)
(* which changes nothing else.                                              *)
ChangedSince(lk) == [r \in Runs |-> NoLook]
TargetWritten == look' = ChangedSince(look)

(* The head each epoch was opened for; no code keeps this.                  *)
EpochOpened(t) ==
  epochs' = IF t.epoch > Len(epochs) THEN Append(epochs, t.head) ELSE epochs

---------------------------------------------------------------------------
(* Arrival.                                                                 *)

(* The lifecycle a delivery leaves: a reopening or a merge is applied if    *)
(* the store accepts it, and a timestamped delivery on an open target moves *)
(* the evidence forward.                                                    *)
ArrivalLifecycle(d) ==
  LET t == CASE d.kind = "reopened" /\ target.life # "open"
                  /\ Accepts(target, "open", d.at) ->
                    SetLifecycleObserved(target, "open", d.at)
             [] d.kind = "merged" /\ target.life # "merged" ->
                    SetLifecycleObserved(target, "merged", d.at)
             [] OTHER -> target
  IN  IF t.life = "open" /\ d.kind # "comment"
      THEN SetLifecycleObserved(t, "open", d.at) ELSE t

(* The head rules of an accepted arrival: a newer head is adopted, the same *)
(* head joins its epoch, an older push is stale, and a push that cannot be  *)
(* ordered waits as a candidate.                                            *)
ObserveHead(r, t, new) ==
  LET d == sent[r]
      observable == d.kind \in {"push", "reopened"}
      same == d.head # 0 /\ d.head = t.head
      newer == observable /\ d.at > t.headAt
      older == observable /\ d.at < t.headAt
      rs == [run EXCEPT ![r] = new]
  IN  CASE newer /\ ~same ->
             LET a == AdoptHead(t, d.head, d.at)
                 mine == [rs EXCEPT ![r].epoch = a.epoch, ![r].res = "auth"]
             IN  [target |-> a,
                  run |-> IF IsPush(r)
                          THEN SupersedeWaitingPush(mine, r, a.epoch) ELSE mine]
        [] same ->
             [target |-> IF d.at # 0 THEN TouchObservedHead(t, d.at) ELSE t,
              run |-> [rs EXCEPT ![r].epoch = t.epoch, ![r].res = "auth"]]
        [] IsPush(r) /\ older /\ ~same ->
             [target |-> t, run |-> [rs EXCEPT ![r].st = "done"]]
        [] IsPush(r) /\ ~newer /\ ~older /\ ~same ->
             [target |-> [t EXCEPT !.tie = TRUE],
              run |-> [rs EXCEPT ![r].res = "amb"]]
        [] OTHER -> [target |-> t, run |-> rs]

(* recordTargetArrival, once per delivery: the trigger claims it.           *)
Arrive(r) ==
  /\ r \in DOMAIN sent /\ run[r].st = "none" /\ Kind(r) # "closed"
  /\ LET t == ArrivalLifecycle(sent[r])
         new == [NoRun EXCEPT !.st = "pending", !.no = Cardinality(Arrived) + 1]
         refused == \/ t.life # "open" /\ Kind(r) # "merged"
                    \/ Cardinality(Unstarted(run)) >= WaitingCap
         x == IF refused
              THEN [target |-> t, run |-> [run EXCEPT ![r] = [new EXCEPT !.st = "done"]]]
              ELSE ObserveHead(r, t, new)
     IN  /\ target' = x.target
         /\ run' = x.run
         /\ EpochOpened(x.target)
         /\ look' = IF x.target # target \/ (t.life = "open" /\ Kind(r) # "comment")
                    THEN ChangedSince(look) ELSE look
  /\ UNCHANGED <<pr, sent, gen, turn, olds>>

---------------------------------------------------------------------------
(* Dispatch.                                                                *)

(* The target row is read and then GitHub is asked, before any lock.  The   *)
(* answer may be an old one: any state the pull request was in.  That it    *)
(* was old is noted; the code cannot tell.                                  *)
LookUp(r) ==
  /\ r \in Unstarted(run)
  /\ \E i \in DOMAIN pr :
       LET old == pr[i] # Current
       IN  /\ old => olds < MaxOldAnswers
           /\ olds' = IF old THEN olds + 1 ELSE olds
           /\ look' = [look EXCEPT ![r] = [ok |-> TRUE, open |-> pr[i].state = "open",
                                           head |-> pr[i].head, at |-> pr[i].at,
                                           old |-> old]]
  /\ UNCHANGED <<pr, sent, target, run, gen, turn, epochs>>

MutAdopterSuperseded(r, own, h, adopted, candidates) ==
  LET at == {c \in candidates : sent[c].head = h}
  IN  IF own = h THEN r ELSE IF at # {} THEN First(run, at) ELSE 0

(* The survivor of a head tie: the dispatching run if it is at the current  *)
(* head, else the candidate delivered at it, else the dispatching run when  *)
(* it adopted that head just now, else nobody.                              *)
Survivor(r, own, h, adopted, candidates) ==
  LET at == {c \in candidates : sent[c].head = h}
  IN  CASE own = h -> r
        [] own # h /\ at # {} -> First(run, at)
        [] own # h /\ at = {} -> IF adopted THEN r ELSE 0

(* The head a run stands for: the one it was resolved to, else the one its  *)
(* delivery carried.                                                        *)
MutHeadForgetsResolution(r) == sent[r].head
OwnHead(r) == IF run[r].resolved # 0 THEN run[r].resolved ELSE sent[r].head

(* The head a run is to review, with the target and the runs as the rules   *)
(* leave them; out says whether the run may go on.                          *)
ResolveHead(r) ==
  LET u == run[r]
      l == look[r]
      own == OwnHead(r)
      headless == sent[r].head = 0
      asIs(out, h) == [out |-> out, head |-> h, epoch |-> u.epoch,
                       target |-> target, run |-> run]
  IN  IF u.res = "unres" THEN asIs("go", sent[r].head)
      ELSE IF ~IsPush(r) /\ ~headless THEN asIs("go", own)
      ELSE IF ~l.ok
      THEN asIs(IF u.res = "amb" \/ target.tie \/ headless THEN "retry" ELSE "go", own)
      ELSE LET adopted == target.head # l.head
               t == IF adopted THEN AdoptHead(target, l.head, l.at)
                    ELSE TouchObservedHead(target, l.at)
               rs == IF adopted THEN SupersedeWaitingPush(run, r, t.epoch) ELSE run
               candidates == AmbiguousCandidates(rs)
               s == Survivor(r, own, l.head, adopted, candidates)
               settled == [q \in Runs |->
                             IF q \in (candidates \cup {r}) \ {s}
                             THEN [rs[q] EXCEPT !.st = "superseded"] ELSE rs[q]]
               tied == IsPush(r) /\ target.tie
           IN  [out |-> IF tied /\ s # r THEN "superseded" ELSE "go",
                head |-> l.head,
                epoch |-> t.epoch,
                target |-> [t EXCEPT !.tie = @ /\ ~IsPush(r)],
                run |-> CASE ~tied -> Stamp(rs, r, t.epoch, l.head)
                          [] tied /\ s # 0 -> Stamp(settled, s, t.epoch, l.head)
                          [] tied /\ s = 0 -> settled]

(* The lookup is used up; so are all when the target was written.           *)
LookUsed(r, written) ==
  look' = [IF written THEN ChangedSince(look) ELSE look EXCEPT ![r] = NoLook]

(* The pull request is over, as the target or else as the lookup says: the  *)
(* run is skipped.  A close the target holds newer open evidence against    *)
(* is not applied and the run waits.                                        *)
SaysClosed(r) == look[r].ok /\ ~look[r].open /\ Kind(r) # "merged"

DispatchClosed(r) ==
  /\ r \in Unstarted(run)
  /\ \/ /\ ~AllowsEvent(target.life, Kind(r))
        /\ run' = [run EXCEPT ![r].st = "done"]
        /\ LookUsed(r, FALSE)
        /\ UNCHANGED target
     \/ /\ AllowsEvent(target.life, Kind(r)) /\ SaysClosed(r)
        /\ IF Accepts(target, "closed", look[r].at)
           THEN /\ target' = SetLifecycleObserved(target, "closed", look[r].at)
                /\ run' = [run EXCEPT ![r].st = "done"]
                /\ LookUsed(r, TRUE)
           ELSE LookUsed(r, FALSE) /\ UNCHANGED <<target, run>>
  /\ UNCHANGED <<pr, sent, gen, turn, epochs, olds>>

Dispatchable(r) ==
  /\ r \in Unstarted(run)
  /\ AllowsEvent(target.life, Kind(r)) /\ ~SaysClosed(r)

(* The head rules alone are committed: the run is superseded, or has to     *)
(* wait for a lookup, for the turn that executes, for the run that is next, *)
(* for its session, or for evidence that the pull request is still open.    *)
DispatchWait(r) ==
  /\ Dispatchable(r)
  /\ LET x == ResolveHead(r)
         next == NextWaiting(x.run)
     IN  /\ \/ x.out # "go"
            \/ Executing(x.run) # {}
            \/ next \notin {0, r}
            \/ ActiveGenerations(gen) # {}
            \/ ~look[r].ok
         /\ target' = x.target
         /\ run' = x.run
         /\ EpochOpened(x.target)
         /\ LookUsed(r, x.target # target)
  /\ UNCHANGED <<pr, sent, gen, turn, olds>>

(* A push at the head this conversation reviewed last has nothing to do.    *)
Duplicate(r, h) ==
  IsPush(r) /\ \E g \in ActiveGenerations(gen) : gen[g].reviewed = h

ReserveForExecution(rs, r, g, h, epoch) ==
  [rs EXCEPT ![r].st = "executing", ![r].gen = g, ![r].resolved = h,
             ![r].epoch = IF epoch # 0 THEN epoch ELSE @]

(* The run's turn: it is skipped as a duplicate, or it continues the active *)
(* generation, or it opens a new one after retiring an incompatible one.  A *)
(* new one needs evidence that the pull request is open: recent, or this    *)
(* lookup's.                                                                *)
Dispatch(r) ==
  /\ Dispatchable(r)
  /\ LET x == ResolveHead(r)
         ok == look[r].ok
         n == Len(gen) + 1
     IN  /\ x.out = "go"
         /\ Executing(x.run) = {} /\ NextWaiting(x.run) \in {0, r}
         /\ EpochOpened(x.target)
         /\ \/ /\ Duplicate(r, x.head)
               /\ run' = [x.run EXCEPT ![r].st = "done"]
               /\ target' = x.target
               /\ LookUsed(r, x.target # target)
               /\ UNCHANGED <<gen, turn>>
            \/ /\ ~Duplicate(r, x.head)
               /\ \E g \in ActiveGenerations(gen) :
                    /\ ~gen[g].busy
                    /\ run' = ReserveForExecution(x.run, r, g, x.head, x.epoch)
                    /\ gen' = [gen EXCEPT ![g].busy = TRUE]
               /\ target' = x.target
               /\ LookUsed(r, x.target # target)
               /\ turn' = [turn EXCEPT ![r].job = "pending"]
            \/ /\ ~Duplicate(r, x.head)
               /\ ok \/ target.seen # 0
               /\ \E stale \in IF target.seen = 0 THEN {TRUE} ELSE {ok, FALSE} :
                    target' = IF stale
                              THEN SetLifecycleObserved(x.target, target.life, look[r].at)
                              ELSE x.target
               /\ gen' = Append(RetireActive(gen, x.run), [NewGen EXCEPT !.busy = TRUE])
               /\ run' = ReserveForExecution(x.run, r, n, x.head, x.epoch)
               /\ LookUsed(r, TRUE)
               /\ turn' = [turn EXCEPT ![r].job = "pending"]
  /\ UNCHANGED <<pr, sent, olds>>

(* The worker's kill switch is on, or the automation is per-run again.      *)
ClaimPendingForPerRun(r) ==
  /\ r \in Unstarted(run)
  /\ run' = [run EXCEPT ![r].st = "perrun"]
  /\ look' = [look EXCEPT ![r] = NoLook]
  /\ UNCHANGED <<pr, sent, target, gen, turn, epochs, olds>>

PerRunEnds(r) ==
  /\ run[r].st = "perrun"
  /\ run' = [run EXCEPT ![r].st = "done"]
  /\ UNCHANGED <<pr, sent, target, gen, look, turn, epochs, olds>>

---------------------------------------------------------------------------
(* The turn.  A worker that is in phase "turn" or "marked" holds the token  *)
(* of the job's lease; the lease may lapse and be renewed under the same    *)
(* token.  late marks an attempt whose token is gone and whose last         *)
(* unfenced statement may still be executed.                                *)

Holder(r) == turn[r].job \in {"running", "lapsed"}

ClaimJob(r) ==
  /\ turn[r].job = "pending"
  /\ turn' = [turn EXCEPT ![r].job = "running", ![r].ph = "start"]
  /\ UNCHANGED <<pr, sent, target, run, gen, look, epochs, olds>>

LeaseLapses(r) ==
  /\ turn[r].job = "running"
  /\ turn' = [turn EXCEPT ![r].job = "lapsed"]
  /\ UNCHANGED <<pr, sent, target, run, gen, look, epochs, olds>>

RenewLease(r) ==
  /\ turn[r].job = "lapsed"
  /\ turn' = [turn EXCEPT ![r].job = "running"]
  /\ UNCHANGED <<pr, sent, target, run, gen, look, epochs, olds>>

(* The token is taken away from whoever holds it.                           *)
Revoked(tn, r, job) ==
  [tn EXCEPT ![r].job = job, ![r].ph = "none",
             ![r].late = @ \/ tn[r].ph = "turn"]

(* A lapsed lease is reclaimed by the queue: for a retry, or dead-lettered. *)
ReclaimJob(r) ==
  /\ turn[r].job = "lapsed"
  /\ \E job \in {"pending", "over"} : turn' = Revoked(turn, r, job)
  /\ UNCHANGED <<pr, sent, target, run, gen, look, epochs, olds>>

(* The handler returns without having ended the run.                        *)
HandlerReturns(r) ==
  /\ Holder(r)
  /\ \E job \in {"pending", "over"} :
       turn' = [turn EXCEPT ![r].job = job, ![r].ph = "none"]
  /\ UNCHANGED <<pr, sent, target, run, gen, look, epochs, olds>>

(* A new attempt needs an executing run without a result, and a live lease; *)
(* otherwise the handler has nothing to run and the job is done.            *)
ClaimAttempt(r) ==
  /\ Holder(r) /\ turn[r].ph = "start"
  /\ turn[r].mark = "none" \/ run[r].st # "executing"
  /\ turn' = IF run[r].st = "executing" /\ turn[r].job = "running"
             THEN [turn EXCEPT ![r].ph = "turn"]
             ELSE [turn EXCEPT ![r].ph = "none", ![r].job = "over"]
  /\ UNCHANGED <<pr, sent, target, run, gen, look, epochs, olds>>

(* The session starts running and its container is held.  Neither statement *)
(* is fenced.                                                               *)
StartTurn(r) ==
  /\ turn[r].ph = "turn" \/ turn[r].late
  /\ gen' = [gen EXCEPT ![run[r].gen].busy = TRUE, ![run[r].gen].hold = TRUE]
  /\ turn' = [turn EXCEPT ![r].late = @ /\ turn[r].ph = "turn"]
  /\ UNCHANGED <<pr, sent, target, run, look, epochs, olds>>

ReleaseTurnHold(r) ==
  /\ turn[r].ph \in {"turn", "marked"} /\ run[r].st = "executing"
  /\ gen' = [gen EXCEPT ![run[r].gen].hold = FALSE]
  /\ UNCHANGED <<pr, sent, target, run, look, turn, epochs, olds>>

(* An unsupported workspace retires the generation, whoever runs in it.     *)
UnsupportedWorkspace(r) ==
  /\ turn[r].ph = "turn" \/ turn[r].late
  /\ gen[run[r].gen].st = "active"
  /\ gen' = RetireGeneration(gen, run[r].gen, run)
  /\ turn' = [turn EXCEPT ![r].late = @ /\ turn[r].ph = "turn"]
  /\ TargetWritten
  /\ UNCHANGED <<pr, sent, target, run, epochs, olds>>

(* The result marker and the session's status, in one transaction.          *)
EndAttempt(r) ==
  /\ turn[r].ph = "turn" /\ run[r].st = "executing"
  /\ \E m \in {"reviewed", "await", "ended"} :
       turn' = [turn EXCEPT ![r].mark = m, ![r].ph = "marked"]
  /\ gen' = [gen EXCEPT ![run[r].gen].busy = FALSE]
  /\ UNCHANGED <<pr, sent, target, run, look, epochs, olds>>

(* A turn that cannot start ends its run without a result: the head is      *)
(* gone, the repository is unavailable, the pull request is closed.         *)
CompletePreflight(r) ==
  /\ turn[r].ph = "turn" /\ run[r].st = "executing"
  /\ LET g == run[r].gen
         rs == [run EXCEPT ![r].st = "done"]
         gs == ApplyPendingOwnershipRelease([gen EXCEPT ![g].busy = FALSE], g)
     IN  run' = rs /\ gen' = RetireTerminalTarget(target, gs, rs)
  /\ turn' = [turn EXCEPT ![r].job = "over", ![r].ph = "none"]
  /\ TargetWritten
  /\ UNCHANGED <<pr, sent, target, epochs, olds>>

(* What CompleteFromMarker and the completer leave of the generations: the  *)
(* reviewed head only moves forward, the hold and a pending release end     *)
(* with the turn, and a turn that waits for a person or was the last of a   *)
(* closed pull request retires its generation.                              *)
Completed(r, rs) ==
  LET g == run[r].gen
      u == run[r]
      advance == /\ turn[r].mark = "reviewed" /\ gen[g].st = "active"
                 /\ u.epoch # 0 /\ u.epoch >= gen[g].epoch
      gs == [gen EXCEPT ![g].hold = FALSE,
                        ![g].reviewed = IF advance THEN u.resolved ELSE @,
                        ![g].epoch = IF advance THEN u.epoch ELSE @]
      freed == ApplyPendingOwnershipRelease(gs, g)
      over == target.life # "open" /\ Remaining(rs) = {}
  IN  IF turn[r].mark = "await" \/ over
      THEN RetireGeneration(freed, g, rs) ELSE freed

(* The handler completes the run from the marker, its own or that of the    *)
(* attempt before it.                                                       *)
Complete(r) ==
  /\ Holder(r) /\ turn[r].mark # "none" /\ run[r].st = "executing"
  /\ turn[r].ph \in {"start", "marked"}
  /\ run' = [run EXCEPT ![r].st = "done"]
  /\ gen' = Completed(r, run')
  /\ turn' = [turn EXCEPT ![r].job = "over", ![r].ph = "none"]
  /\ TargetWritten
  /\ UNCHANGED <<pr, sent, target, epochs, olds>>

(* The job under the lock of a recovery: an expired lease is revoked.       *)
LockAutomationRunLifecycle(tn, r) ==
  IF tn[r].job = "lapsed" THEN Revoked(tn, r, "over") ELSE tn

(* RecoverAbandonedRun, from the sweep or a dead-letter hook, of a run that *)
(* no live lease covers.                                                    *)
RecoverAbandonedRun(r) ==
  /\ run[r].st = "executing" /\ turn[r].job # "running"
  /\ run' = [run EXCEPT ![r].st = "done"]
  /\ gen' = IF turn[r].mark # "none" THEN Completed(r, run')
            ELSE LET g == run[r].gen
                     gs == [gen EXCEPT ![g].busy = FALSE, ![g].hold = FALSE]
                 IN  RetireTerminalTarget(target, ApplyPendingOwnershipRelease(gs, g), run')
  /\ turn' = LockAutomationRunLifecycle(turn, r)
  /\ TargetWritten
  /\ UNCHANGED <<pr, sent, target, epochs, olds>>

---------------------------------------------------------------------------
(* The sweeps, the lifecycle notices and the continuity switch.             *)

FailTimedOutWaits ==
  /\ \E S \in SUBSET {r \in Unstarted(run) : run[r].res # "amb"} :
       /\ S # {}
       /\ run' = [r \in Runs |-> IF r \in S THEN [run[r] EXCEPT !.st = "done"] ELSE run[r]]
  /\ gen' = RetireTerminalTarget(target, gen, run')
  /\ TargetWritten
  /\ UNCHANGED <<pr, sent, target, turn, epochs, olds>>

ResolveAmbiguityDeadline ==
  /\ target.tie
  /\ target' = [target EXCEPT !.tie = FALSE]
  /\ run' = [r \in Runs |-> IF r \in AmbiguousCandidates(run)
                            THEN [run[r] EXCEPT !.res = "unres", !.epoch = 0]
                            ELSE run[r]]
  /\ TargetWritten
  /\ UNCHANGED <<pr, sent, gen, turn, epochs, olds>>

ReleaseStrandedOwnership(g) ==
  /\ gen[g].release /\ ~\E r \in Executing(run) : run[r].gen = g
  /\ gen' = [gen EXCEPT ![g].release = FALSE, ![g].owned = FALSE, ![g].hold = FALSE]
  /\ TargetWritten
  /\ UNCHANGED <<pr, sent, target, run, turn, epochs, olds>>

SwitchToPerRun ==
  /\ ActiveGenerations(gen) # {}
  /\ gen' = RetireActive(gen, run)
  /\ TargetWritten
  /\ UNCHANGED <<pr, sent, target, run, turn, epochs, olds>>

(* A notice may be redelivered; one older than the evidence is dropped.     *)
Fresh(at) == target.seen = 0 \/ at >= target.seen

ApplyPullRequestClosed(i) ==
  /\ i \in DOMAIN sent /\ Kind(i) \in {"closed", "merged"} /\ Attached
  /\ LET merged == Kind(i) = "merged"
         final == {r \in Runs : merged /\ r \in DOMAIN sent /\ Kind(r) = "merged"}
         rs == [r \in Runs |-> IF r \in Unstarted(run) \ final
                              THEN [run[r] EXCEPT !.st = "done"] ELSE run[r]]
     IN  /\ merged \/ (Fresh(sent[i].at) /\ Accepts(target, "closed", sent[i].at))
         /\ target' = SetLifecycleObserved(target, Kind(i), sent[i].at)
         /\ run' = rs
         /\ gen' = IF Remaining(rs) \cap final # {} THEN gen ELSE RetireActive(gen, rs)
  /\ TargetWritten
  /\ UNCHANGED <<pr, sent, turn, epochs, olds>>

ReopenTarget(i) ==
  /\ i \in DOMAIN sent /\ Kind(i) = "reopened" /\ Attached
  /\ Fresh(sent[i].at) /\ Accepts(target, "open", sent[i].at)
  /\ target' = SetLifecycleObserved(target, "open", sent[i].at)
  /\ TargetWritten
  /\ UNCHANGED <<pr, sent, run, gen, turn, epochs, olds>>

Next ==
  \/ GitHub
  \/ \E r \in Runs :
       \/ Arrive(r) \/ LookUp(r)
       \/ DispatchClosed(r) \/ DispatchWait(r) \/ Dispatch(r)
       \/ ClaimPendingForPerRun(r) \/ PerRunEnds(r)
       \/ ClaimJob(r) \/ LeaseLapses(r) \/ RenewLease(r) \/ ReclaimJob(r)
       \/ HandlerReturns(r) \/ ClaimAttempt(r) \/ StartTurn(r) \/ ReleaseTurnHold(r)
       \/ UnsupportedWorkspace(r) \/ EndAttempt(r) \/ CompletePreflight(r)
       \/ Complete(r) \/ RecoverAbandonedRun(r)
       \/ ApplyPullRequestClosed(r) \/ ReopenTarget(r)
  \/ FailTimedOutWaits \/ ResolveAmbiguityDeadline \/ SwitchToPerRun
  \/ \E g \in DOMAIN gen : ReleaseStrandedOwnership(g)

Spec == Init /\ [][Next]_vars

---------------------------------------------------------------------------

(* A worker whose token can still be renewed or used is in the turn of a    *)
(* run that is executing, in a session its generation still owns: no        *)
(* retirement, recovery or release hands the session to somebody else       *)
(* while an attempt may still write to it.                                  *)
LiveTurnOwnsSession ==
  \A r \in Runs : turn[r].ph \in {"turn", "marked"} =>
    run[r].st = "executing" /\ gen[run[r].gen].owned

(* The head a run's review is recorded for.                                 *)
ReviewedAs(r) == IF run[r].resolved # 0 THEN run[r].resolved ELSE sent[r].head

(* An ordered run, and a generation's baseline, name the head that opened   *)
(* their epoch: a review is never recorded under the epoch of another head. *)
EpochNamesItsHead ==
  /\ \A r \in Arrived : run[r].epoch # 0 => ReviewedAs(r) = epochs[run[r].epoch]
  /\ \A g \in DOMAIN gen : gen[g].epoch # 0 => gen[g].reviewed = epochs[gen[g].epoch]

(* The head the target has observed goes back to an earlier push only when  *)
(* GitHub gave an old answer: however deliveries are delayed and reordered, *)
(* an answer that was right when it was given and was overtaken before the  *)
(* lock was taken is never applied.                                         *)
HeadNeverRegresses ==
  [][target'.head < target.head =>
       \E r \in Runs : look[r].old /\ look[r].head = target'.head]_vars

(* The newest epoch always has a run that was not superseded: taking the    *)
(* older pushes out of the queue never takes the review of the current head *)
(* with them.                                                               *)
HeadAlwaysCovered ==
  target.epoch # 0 =>
    \E r \in Arrived : run[r].epoch = target.epoch /\ run[r].st # "superseded"

(* What RetireTerminalTarget says of its callers: every path that ends the  *)
(* last work of a closed target retires its generation, for no sweep would  *)
(* find it.  The skips of a dispatch do not, so this does not hold.         *)
ClosedTargetReleased ==
  target.life # "open" /\ Remaining(run) = {} => ActiveGenerations(gen) = {}

=============================================================================
