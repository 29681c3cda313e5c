---------------------------- MODULE Publication ----------------------------
(***************************************************************************)
(* Publishing a session's work as one pull request.  Five actors share the *)
(* session_publications row of the session's primary changeset:            *)
(*   - requesters (publicationintent.Coordinator.RequestPullRequest): an   *)
(*     agent and users, or the policy of the session's automation,         *)
(*   - the open_pr job handler and the PR service it calls,                *)
(*   - the review loop that must pass before an agent's request publishes, *)
(*   - the publication reconciler and the stranded-review sweep,           *)
(*   - the dead-letter hook of the job.                                    *)
(* None of them holds a lock across its statements: a statement is guarded *)
(* by its own WHERE clause, and every actor works on the copy of the row   *)
(* it read earlier.  The exception is the end of a review loop, a          *)
(* transaction of several statements: it holds the loop row, and the       *)
(* publication row if it changed it, until it commits.  A step here is one *)
(* effect outside the database, or the statements between two of them.     *)
(*                                                                         *)
(* A commit is named by the tree it contains.  Workspace revisions only    *)
(* grow and are only compared for equality: what a recorded one still says *)
(* is whether it is the current one ("now"), the one the worker read       *)
(* before the workspace moved on ("then"), or neither ("gone").  The       *)
(* generation of a request is kept as the one bit that decides anything:   *)
(* is the queued job newer than the stored one?                            *)
(***************************************************************************)
EXTENDS Naturals, FiniteSets

CONSTANTS Modes,        \* handoff modes the repository may be set to
          Requesters,   \* who may ask: a subset of {"agent", "user", "automation"}
          Policies,     \* review passes the session's automation may ask for:
                        \* "zero" or "some", or "none" for a session without one
          Loops,        \* review loop slots; a slot nobody can name is reused
          MaxTries,     \* consumed attempts before the job is dead
          MaxEvents,    \* requests, cancellations, manual reviews, turns that
                        \* change the workspace, crashes and failed calls, together
          None

ASSUME PublicationAssumption ==
    /\ Modes \subseteq {"pre_publish", "draft_first"} /\ Modes # {}
    /\ Requesters \subseteq {"agent", "user", "automation"}
    /\ Policies \subseteq {"none", "zero", "some"} /\ Policies # {}
    /\ Cardinality(Loops) >= 3
    /\ {MaxTries, MaxEvents} \subseteq Nat
    /\ Loops \cap {"pub", "worker"} = {} /\ None \notin Loops \cup Nat

VARIABLES auto,   \* the review policy of the session's automation, if it has one
          pub,    \* the session_publications row
          loops,  \* session_review_loops rows
          ws,     \* session workspace: tree, HEAD, changeset head, pending upload
          rev,    \* the workspace revision recorded by the row, the loops, the worker
          git,    \* GitHub branch and pull request, and the pull_requests row
          job,    \* the one active open_pr job
          hook,   \* a dead-letter hook is about to run
          w,      \* the open_pr handler
          rl,     \* the thread advancing the running review loop
          tx,     \* the uncommitted transaction that ends a review loop
          late,   \* history: the row was linked to a loop while tx ended it
          rq,     \* requests in progress
          rc,     \* the publication reconciler
          edit,   \* a turn of another thread is running
          left    \* events of the environment still to come
pubVars == <<auto, pub, loops, ws, rev, git, job, hook, w, rl, tx, late, rq, rc, edit, left>>

Spend == left > 0 /\ left' = left - 1

-----------------------------------------------------------------------------
(* The row *)

Terminal == {"completed", "completed_noop", "terminal_failed"}
MutantRetryable == Terminal
Retryable == {"completed_noop", "terminal_failed"}
IsLive(p) == p.state \notin Terminal \cup {"none"}
Live == IsLive(pub)

NoRow == [state |-> "none", gate |-> "not_required", loop |-> None, head |-> None,
          max |-> FALSE, mode |-> "pre_publish", bypass |-> FALSE,
          pr |-> FALSE]

\* A request as the coordinator or the worker writes it.
Intent(reviewed, mode) ==
    [NoRow EXCEPT !.state = "requested", !.max = reviewed, !.mode = mode,
                  !.gate = IF reviewed THEN "pending" ELSE "not_required"]

\* Insert; or reopen a retryable outcome; or rejoin a live row, whose recorded
\* review decision a later request may not replace.
EnsureRequested(new, newer) ==
    IF pub.state = "none" \/ (pub.state \in Retryable /\ newer)
    THEN new
    ELSE IF ~Live \/ ~newer
    THEN pub
    ELSE [pub EXCEPT
            !.max = @ \/ new.max,
            !.gate = IF @ \in {"passed", "needs_human", "failed"}
                         \/ (@ = "pending" /\ pub.max)
                     THEN @ ELSE new.gate]

StartAttempt(p) ==
    [p EXCEPT !.state = IF @ = "retryable_failed" THEN "requested" ELSE @]

MarkFailed(p, terminal) ==
    IF ~IsLive(p) THEN p
    ELSE [p EXCEPT !.state = IF terminal THEN "terminal_failed" ELSE "retryable_failed"]

ApplyReviewBypass(p) ==
    [p EXCEPT !.state = "ready_to_publish", !.gate = "not_required", !.max = FALSE,
                !.loop = None, !.head = None, !.bypass = TRUE]

LinkReviewLoop(l, head) ==
    [pub EXCEPT !.state = "review_pending", !.gate = "pending", !.max = TRUE,
                !.loop = l, !.head = head]

ParkForReview ==
    [pub EXCEPT !.state = "review_pending", !.gate = "pending", !.max = TRUE]

ReuseCleanReview(l, head) ==
    [pub EXCEPT !.state = "ready_to_publish", !.gate = "passed", !.loop = l, !.head = head]

MutantKeepsGate(p) ==
    [p EXCEPT !.state = "review_pending", !.loop = None, !.head = None]

Unreviewed(p) ==
    [p EXCEPT !.state = "review_pending", !.gate = "pending", !.loop = None, !.head = None]

\* The gate may still be moved by SetReviewGate.
CanSetReviewGate ==
    pub.state \in {"requested", "review_pending", "ready_to_publish", "retryable_failed"}
SetReviewGate(gate) ==
    [pub EXCEPT !.gate = gate,
                !.state = IF gate = "passed" THEN "ready_to_publish" ELSE "review_pending"]

RecordBranchPublished ==
    [pub EXCEPT !.state = IF @ \in {"pr_resolved", "recorded"} THEN @ ELSE "branch_published"]

RecordPRResolved ==
    [pub EXCEPT !.state = IF @ = "recorded" THEN @ ELSE "pr_resolved", !.pr = TRUE]

SetState(state) == [pub EXCEPT !.state = state]

MutantSkipsUnreviewed ==
    Live /\ (pub.gate \in {"not_required", "passed"} \/ git.row # None)

\* What the reconciler selects.
IsReconcileCandidate ==
    /\ Live
    /\ \/ pub.gate \in {"not_required", "passed"}
       \/ pub.gate = "pending" /\ pub.loop = None
       \/ git.row # None

-----------------------------------------------------------------------------
(* The workspace, GitHub and the job *)

Holders == {"pub", "worker"} \cup Loops
SameRev(a, b) == rev[a] = rev[b] /\ rev[a] # "gone"
IsNow(a) == rev[a] = "now"

\* The workspace moves to a new revision.
NewRevision ==
    rev' = [h \in Holders |->
              IF rev[h] # "now" THEN rev[h] ELSE IF IsNow("worker") THEN "then" ELSE "gone"]

\* The worker reads the current revision, or drops the one it had.
WorkerReads(v) ==
    [h \in Holders |-> IF h = "worker" THEN v ELSE IF rev[h] = "then" THEN "gone" ELSE rev[h]]

\* The end of a turn publishes its checkpoint and records the sandbox's HEAD as
\* the head of the primary changeset.
Checkpoint(tree, commit) ==
    [ws EXCEPT !.tree = tree, !.commit = commit, !.head = commit]

\* A turn that edits: the agent may or may not commit what it changed.
Edited == {[Checkpoint(ws.last + 1, c) EXCEPT !.last = @ + 1] : c \in {ws.commit, ws.last + 1}}

\* A push of tree t: GitHub gets the commit.  An unchanged workspace is refused,
\* and the caller takes the changeset head instead.  The checkpoint of the push
\* follows: with an existing pull request its row and the changeset head move,
\* and the pushed sandbox is uploaded by the pushing process as the session's
\* next snapshot.
PushedHead(t) == IF t = 0 THEN ws.head ELSE t
Pushed(t) == IF t = 0 THEN git ELSE [git EXCEPT !.branch = t]
AfterPush(t, hasPR, who) ==
    IF t = 0 THEN ws
    ELSE [ws EXCEPT !.pend = t, !.by = who, !.head = IF hasPR THEN t ELSE @]
RowAfterPush(t, hasPR) == IF hasPR /\ t # 0 THEN [git EXCEPT !.row = t] ELSE git

\* WaitForPostPRSnapshotUploads waits for the uploads of its own process only.
Uploaded(who) == ws.pend = None \/ ws.by # who

Enqueue(j) == IF j.st = "none" THEN [st |-> "pending", newer |-> TRUE, tries |-> 0] ELSE j
NoJob == [st |-> "none", newer |-> FALSE, tries |-> 0]

NoRun == [tree |-> None, pend |-> FALSE]
Run == [tree |-> ws.tree, pend |-> ws.pend # None]
NoWorker == [pc |-> "idle", first |-> NoRun, run |-> NoRun, pub |-> NoRow, same |-> FALSE,
             head |-> None, loop |-> None]
NoLoop == [st |-> "none", src |-> "manual", head |-> None]
NoReview == [pc |-> "idle", loop |-> None, fixed |-> FALSE, tree |-> None, draft |-> FALSE,
             head |-> None]
NoRequest == [pc |-> "idle", bypass |-> FALSE, mode |-> "pre_publish"]
NoTx == [loop |-> None, st |-> "running", row |-> None, enq |-> FALSE]

\* A statement that changes the row waits for the transaction that holds it.
Writes(row) == tx.row = None /\ pub' = row

Running == {l \in Loops : loops[l].st = "running"}

\* A loop row can be returned only to who links to it, or as a clean review of a
\* revision that is still asked about; any other slot is free again.
FreeLoops == {l \in Loops :
    /\ loops[l].st # "running" /\ l \notin {pub.loop, w.loop, rl.loop}
    /\ ~(loops[l].st = "clean" /\ rev[l] # "gone")}
Slot == CHOOSE l \in FreeLoops : TRUE
Begun(new) == [l \in Loops |-> IF l \notin FreeLoops THEN loops[l] ELSE IF l = Slot THEN new ELSE NoLoop]

-----------------------------------------------------------------------------
(* The end of a review loop: a transaction that settles the publication      *)
(* linked to it, resumes a parked one and queues the worker.  Others see none *)
(* of it, and read the loop as running, until it commits.                     *)

EvidenceCurrent(l) ==
    /\ IsNow("pub") /\ IsNow(l)
    /\ pub.head = loops[l].head /\ ws.head = loops[l].head

\* A clean review of a revision that has moved on settles nothing.
MutantIgnoresStale(l, st) ==
    IF loops[l].src # "publication" \/ pub.loop # l \/ ~Live
         \/ (st = "clean" /\ ~EvidenceCurrent(l))
    THEN pub
    ELSE IF st = "clean"
    THEN [pub EXCEPT !.state = "ready_to_publish", !.gate = "passed"]
    ELSE IF st = "failed"
    THEN [pub EXCEPT !.state = "terminal_failed", !.gate = "failed"]
    ELSE [pub EXCEPT !.state = "review_pending", !.gate = "needs_human"]

finishPublicationReviewOn(l, st) ==
    IF loops[l].src # "publication" \/ pub.loop # l \/ ~Live THEN pub
    ELSE CASE st = "clean" /\ EvidenceCurrent(l) ->
                [pub EXCEPT !.state = "ready_to_publish", !.gate = "passed"]
           [] st = "clean" /\ ~EvidenceCurrent(l) -> Unreviewed(pub)
           [] st \in {"needs_human", "cancelled"} ->
                [pub EXCEPT !.state = "review_pending", !.gate = "needs_human"]
           [] st = "failed" ->
                [pub EXCEPT !.state = "terminal_failed", !.gate = "failed"]

IsParked(p) == p.state = "review_pending" /\ p.gate = "pending" /\ p.loop = None

\* The statements of the transaction.  A linked publication is changed and held;
\* one that is not linked is neither, and may be linked before the commit.  The
\* queue takes no second job beside the one it sees.
markLoopTerminalOn(l, st) ==
    /\ tx = NoTx
    /\ LET row == finishPublicationReviewOn(l, st)
       IN tx' = IF loops[l].st # "running" THEN NoTx
                ELSE [loop |-> l, st |-> st, row |-> IF row = pub THEN None ELSE row,
                      enq |-> /\ IsParked(row) \/ (row.gate = "passed" /\ pub.gate # "passed")
                              /\ job.st = "none"]

-----------------------------------------------------------------------------
Init ==
    /\ auto \in Policies
    /\ pub = NoRow /\ tx = NoTx /\ late = FALSE
    /\ loops = [l \in Loops |-> NoLoop]
    /\ \E t \in {0, 1} :
          ws = [tree |-> t, commit |-> 0, head |-> 0, pend |-> None, by |-> None, last |-> t]
    /\ rev = [h \in Holders |-> "gone"]
    /\ git = [branch |-> None, pr |-> "none", row |-> None]
    /\ job = NoJob /\ hook = FALSE
    /\ w = NoWorker /\ rl = NoReview /\ rc = "idle"
    /\ rq = [r \in Requesters |-> NoRequest]
    /\ edit = FALSE
    /\ left \in 0..MaxEvents

(* Requests *)

\* The coordinator reads the publication and the pull request, and decides:
\* rejoin the live intent, report the published one, reopen a failed one, or
\* replace a review gate on the word of a user.  The session of an automation is
\* published by its policy alone, which asks once and only for a change.
RequestRead(r) ==
    /\ rq[r].pc = "idle" /\ (r = "automation" <=> auto # "none")
    /\ r = "automation" => pub.state = "none" /\ ws.tree # 0
    /\ LET bypass == r = "user" /\ Live /\ pub.gate \in {"pending", "needs_human"}
           resume == pub.state \in Retryable /\ pub.mode = "draft_first" /\ pub.pr
       IN /\ \/ bypass
             \/ pub.state \in Retryable \cup {"none"} /\ (git.row = None \/ resume)
          /\ \E m \in IF resume THEN {"draft_first"} ELSE Modes :
                rq' = [rq EXCEPT ![r] = [pc |-> "write", bypass |-> bypass, mode |-> m]]
    /\ Spend
    /\ UNCHANGED <<auto, tx, late, pub, loops, ws, git, job, hook, w, rl, rc, edit, rev>>

\* It then writes the intent, with the current time as its generation, and the
\* bypass, which cancels the review the publication waits for; and it queues the
\* job.  Queueing may fail or the caller may die: the row is durable by then.
RequestWrite(r) ==
    /\ rq[r].pc = "write"
    /\ rq' = [rq EXCEPT ![r] = NoRequest]
    /\ LET row == EnsureRequested(Intent(r = "agent" /\ ~rq[r].bypass, rq[r].mode), TRUE)
           bypass == rq[r].bypass /\ IsLive(row)
           older == [job EXCEPT !.newer = FALSE]
       IN /\ Writes(IF bypass THEN ApplyReviewBypass(row) ELSE row)
          /\ bypass /\ row.loop # None => tx.loop # row.loop
          /\ loops' = [l \in Loops |-> IF bypass /\ l = row.loop /\ loops[l].st = "running"
                                       THEN [loops[l] EXCEPT !.st = "cancelled"] ELSE loops[l]]
          /\ rl' = IF bypass /\ rl.loop # None /\ rl.loop = row.loop THEN NoReview ELSE rl
          /\ \/ job' = (IF IsLive(row) THEN Enqueue(older) ELSE older) /\ UNCHANGED left
             \/ /\ IsLive(row) /\ Spend /\ job' = older
    /\ UNCHANGED <<auto, tx, late, ws, rev, git, hook, w, rc, edit>>

-----------------------------------------------------------------------------
(* The open_pr handler *)

Goto(pc) == w' = [w EXCEPT !.pc = pc]

\* The handler returns nil: the job succeeds.
Ends == w' = NoWorker /\ job' = NoJob /\ UNCHANGED hook
Done == Ends /\ rev' = WorkerReads("gone")

\* The handler returns an error: the deferred checkpoint marks the publication
\* failed, and the job is retried or, out of attempts or fatally, dead.
Fails(row, fatal, consume) ==
    /\ Writes(row)
    /\ w' = NoWorker /\ rev' = WorkerReads("gone")
    /\ IF fatal \/ (consume /\ job.tries = MaxTries)
       THEN job' = NoJob /\ hook' = TRUE
       ELSE /\ job' = [job EXCEPT !.st = "pending", !.tries = IF consume THEN @ + 1 ELSE @]
            /\ UNCHANGED hook

Error == Fails(MarkFailed(pub, FALSE), FALSE, TRUE)

\* ErrNoPullRequest: terminal for the publication, an ordinary failure of the job.
ErrNoPullRequest == Fails(MarkFailed(pub, TRUE), FALSE, TRUE)

\* A guarded UPDATE of the row: no matching row is an error.
Update(guard, row, pc) ==
    IF guard THEN Writes(row) /\ Goto(pc) /\ UNCHANGED <<job, hook, rev>> ELSE Error

\* The handler starts by reading the session.
WorkerClaim ==
    /\ w.pc = "idle" /\ job.st = "pending"
    /\ job' = [job EXCEPT !.st = "running"]
    /\ w' = [NoWorker EXCEPT !.pc = "prepare", !.first = Run, !.run = Run]
    /\ rev' = WorkerReads("now")
    /\ UNCHANGED <<auto, tx, late, pub, loops, ws, git, hook, rl, rq, rc, edit, left>>

\* PreparePublicationAttempt knows nothing of review: its request says
\* not_required, at the generation of the job.  A terminal row ends the job.
WorkerPrepare ==
    /\ w.pc = "prepare"
    /\ LET row == EnsureRequested(Intent(FALSE, pub.mode), job.newer)
       IN /\ Writes(StartAttempt(row))
          /\ IF IsLive(row)
             THEN /\ w' = [w EXCEPT !.pc = "check", !.pub = pub', !.same = SameRev("worker", "pub")]
                  /\ rev' = WorkerReads("gone")
                  /\ job' = [job EXCEPT !.newer = FALSE] /\ UNCHANGED hook
             ELSE Done
    /\ UNCHANGED <<auto, tx, late, loops, ws, git, rl, rq, rc, edit, left>>

\* ensureSessionSnapshotQuiescent; waiting consumes no attempt.
Quiescent == ~w.first.pend /\ ~edit /\ rl.pc # "review"
WorkerCheck ==
    /\ w.pc = "check"
    /\ IF Quiescent THEN Goto("gate") /\ UNCHANGED <<pub, job, hook, rev>>
                    ELSE Fails(MarkFailed(pub, FALSE), FALSE, FALSE)
    /\ UNCHANGED <<auto, tx, late, loops, ws, git, rl, rq, rc, edit, left>>

ReviewWanted == w.pub.max /\ w.pub.gate # "not_required"
DraftUnopened == w.pub.mode = "draft_first" /\ ~w.pub.pr
StillReviewed == w.same /\ ws.head = w.pub.head
AwaitsReview == ReviewWanted /\ w.pub.gate = "pending" /\ w.pub.loop = None

\* Where a publication whose review does not hold it back goes next.
ReadyStep(p) ==
    IF p.mode = "draft_first" /\ p.pr /\ p.gate = "passed" THEN "final" ELSE "create"

\* ensurePublicationPrePRReview, on the worker's copy of the row.  A row that asks
\* for no review takes over the policy of the session's automation: no pass opens
\* the gate without any review, some park the row until it is reviewed.
PolicyDecides == ~w.pub.max /\ auto # "none"
WorkerPolicy ==
    /\ w.pc = "gate" /\ PolicyDecides
    /\ IF auto = "zero"
       THEN LET copy == [w.pub EXCEPT !.gate = "passed"]
            IN IF CanSetReviewGate
               THEN /\ Writes(SetReviewGate("passed"))
                    /\ w' = [w EXCEPT !.pc = ReadyStep(copy), !.pub = copy]
                    /\ UNCHANGED <<job, hook, rev>>
               ELSE Error
       ELSE IF Live
            THEN /\ Writes(ParkForReview)
                 /\ w' = [w EXCEPT !.pub.max = TRUE, !.pub.gate = "pending"]
                 /\ UNCHANGED <<job, hook, rev>>
            ELSE Error
    /\ UNCHANGED <<auto, loops, ws, git, rl, tx, late, rq, rc, edit, left>>

WorkerGate ==
    /\ w.pc = "gate" /\ ~PolicyDecides
    /\ \/ /\ \/ ~ReviewWanted
             \/ w.pub.gate = "passed" /\ StillReviewed
             \/ AwaitsReview /\ DraftUnopened
          /\ Goto(ReadyStep(w.pub)) /\ UNCHANGED <<pub, job, hook, rev>>
       \/ /\ ReviewWanted /\ w.pub.gate = "passed" /\ ~StillReviewed
          /\ IF Live /\ pub.max
             THEN /\ Writes(Unreviewed(pub))
                  /\ w' = [w EXCEPT !.pub = Unreviewed(@)]
                  /\ UNCHANGED <<job, hook, rev>>
             ELSE Error
       \/ /\ ReviewWanted
          /\ w.pub.gate \in {"needs_human", "failed"} \/ (w.pub.gate = "pending" /\ w.pub.loop # None)
          /\ Done /\ UNCHANGED pub
       \/ /\ AwaitsReview /\ ~DraftUnopened
          /\ Goto("push") /\ UNCHANGED <<pub, job, hook, rev>>
    /\ UNCHANGED <<auto, loops, ws, git, rl, tx, late, rq, rc, edit, left>>

\* The head to review is pushed before the review starts: to the draft, which has
\* to have its row by then, or to the branch; then the push is recorded.
WorkerPush ==
    /\ w.pc = "push"
    /\ \/ /\ w.pub.mode = "draft_first" /\ git.row = None
          /\ ErrNoPullRequest /\ UNCHANGED git
       \/ /\ w.pub.mode = "draft_first" /\ git.row # None /\ w.run.pend
          /\ Error /\ UNCHANGED git
       \/ /\ w.pub.mode = "draft_first" => git.row # None /\ ~w.run.pend
          /\ git' = Pushed(w.run.tree)
          /\ Goto("record") /\ UNCHANGED <<pub, job, hook, rev>>
    /\ UNCHANGED <<auto, loops, ws, rl, tx, late, rq, rc, edit, left>>

WorkerRecord ==
    /\ w.pc = "record"
    /\ LET draft == w.pub.mode = "draft_first"
       IN /\ ws' = AfterPush(w.run.tree, draft, "worker")
          /\ git' = RowAfterPush(w.run.tree, draft)
          /\ w' = [w EXCEPT !.pc = "wait", !.head = PushedHead(w.run.tree)]
    /\ UNCHANGED <<auto, pub, loops, rev, job, hook, rl, tx, late, rq, rc, edit, left>>

\* RecordReviewTarget, the wait for the upload, and the reload of the session.
WorkerReload ==
    /\ w.pc = "wait" /\ Uploaded("worker")
    /\ IF Live
       THEN /\ Goto("look") /\ rev' = WorkerReads("now")
            /\ UNCHANGED <<pub, job, hook>>
       ELSE Error
    /\ UNCHANGED <<auto, loops, ws, git, rl, tx, late, rq, rc, edit, left>>

\* Join the review of this very head, wait for another review to finish, reuse a
\* clean one, or start one: the loop row first, then the message to the thread.
Matches(l) == loops[l].src = "publication" /\ SameRev(l, "worker") /\ loops[l].head = w.head
CleanMatches == {l \in Loops : loops[l].st = "clean" /\ Matches(l)}
WorkerLook ==
    /\ w.pc = "look"
    /\ \/ /\ \E l \in Running :
                IF Matches(l) THEN w' = [w EXCEPT !.pc = "link", !.loop = l] ELSE Goto("park")
          /\ UNCHANGED <<pub, loops, job, hook, rev>>
       \/ /\ Running = {}
          /\ \E l \in CleanMatches :
               LET row == ReuseCleanReview(l, w.head)
                   seen == WorkerReads("gone")
               IN IF Live /\ pub.gate = "pending"
                  THEN /\ Writes(row)
                       /\ w' = [w EXCEPT !.pc = ReadyStep(row), !.pub = row, !.head = None]
                       /\ rev' = [seen EXCEPT !["pub"] = seen[l]]
                       /\ UNCHANGED <<job, hook>>
                  ELSE Error
          /\ UNCHANGED loops
       \/ /\ Running = {} /\ CleanMatches = {}
          /\ loops' = Begun([st |-> "running", src |-> "publication", head |-> w.head])
          /\ rev' = [rev EXCEPT ![Slot] = rev["worker"]]
          /\ w' = [w EXCEPT !.pc = "send", !.loop = Slot]
          /\ UNCHANGED <<pub, job, hook>>
    /\ UNCHANGED <<auto, tx, late, ws, git, rl, rq, rc, edit, left>>

WorkerSend ==
    /\ w.pc = "send"
    /\ rl' = IF loops[w.loop].st = "running"
             THEN [NoReview EXCEPT !.pc = "review", !.loop = w.loop] ELSE rl
    /\ Goto("link")
    /\ UNCHANGED <<auto, tx, late, pub, loops, ws, git, job, hook, rq, rc, edit, left, rev>>

\* The review could not be sent: failLoop, which finds no publication linked to the
\* loop yet, then the handler's own error.
WorkerSendFails ==
    /\ w.pc = "send" /\ Spend /\ tx.loop # w.loop
    /\ loops' = [loops EXCEPT ![w.loop].st = IF @ = "running" THEN "failed" ELSE @]
    /\ Error
    /\ UNCHANGED <<auto, tx, late, ws, git, rl, rq, rc, edit>>

\* LinkReviewLoop reads the loop without locking it.
CanLink(l) ==
    Live /\ pub.loop \in {None, l} /\ loops[l].st = "running" /\ Matches(l)

WorkerLink ==
    /\ w.pc = "link"
    /\ IF CanLink(w.loop)
       THEN LET seen == WorkerReads("gone")
            IN /\ Writes(LinkReviewLoop(w.loop, w.head))
               /\ late' = (tx.loop = w.loop)
               /\ rev' = [seen EXCEPT !["pub"] = seen[w.loop]]
               /\ Ends
       ELSE Error /\ UNCHANGED late
    /\ UNCHANGED <<auto, tx, loops, ws, git, rl, rq, rc, edit, left>>

WorkerPark ==
    /\ w.pc = "park"
    /\ IF Live THEN Writes(ParkForReview) /\ Done ELSE Error
    /\ UNCHANGED <<auto, tx, late, loops, ws, git, rl, rq, rc, edit, left>>

-----------------------------------------------------------------------------
(* CreatePR.  A pull request row that exists already is checkpointed instead  *)
(* of created: the publication of a draft that awaits review stays recorded,  *)
(* any other is completed.                                                    *)

checkpointExistingPullRequestPublication ==
    [pub EXCEPT !.pr = TRUE,
                !.state = IF pub.mode = "draft_first" /\ ~pub.bypass
                          THEN "recorded" ELSE "completed"]

\* The push.  Nothing to publish is fatal to the job and a no-op of the row.
WorkerCreate ==
    /\ w.pc = "create"
    /\ \/ /\ git.row # None
          /\ IF Live THEN /\ Writes(checkpointExistingPullRequestPublication)
                          /\ ws' = [ws EXCEPT !.head = git.row]
                     ELSE UNCHANGED <<pub, ws>>
          /\ Goto("complete") /\ UNCHANGED <<git, job, hook, rev>>
       \/ /\ git.row = None /\ w.run.tree = 0
          /\ Fails(IF Live THEN SetState("completed_noop") ELSE pub, TRUE, TRUE)
          /\ UNCHANGED <<ws, git>>
       \/ /\ git.row = None /\ w.run.tree # 0
          /\ git' = Pushed(w.run.tree)
          /\ Goto("pushed") /\ UNCHANGED <<pub, ws, job, hook, rev>>
    /\ UNCHANGED <<auto, tx, late, loops, rl, rq, rc, edit, left>>

\* RecordPublishedHead and RecordBranchPublished
WorkerPushed ==
    /\ w.pc = "pushed"
    /\ ws' = [ws EXCEPT !.head = w.run.tree]
    /\ Update(Live, RecordBranchPublished, "open")
    /\ UNCHANGED <<auto, tx, late, loops, git, rl, rq, rc, edit, left>>

\* createOrGetPullRequest, which finds the pull request an earlier attempt opened
WorkerOpen ==
    /\ w.pc = "open"
    /\ git' = [git EXCEPT !.pr = IF @ # "none" THEN @
                                 ELSE IF w.pub.mode = "draft_first" THEN "draft" ELSE "ready"]
    /\ Goto("opened")
    /\ UNCHANGED <<auto, tx, late, pub, loops, ws, rev, job, hook, rl, rq, rc, edit, left>>

\* RecordPRResolved
WorkerOpened ==
    /\ w.pc = "opened"
    /\ Update(Live, RecordPRResolved, "insert")
    /\ UNCHANGED <<auto, tx, late, loops, ws, git, rl, rq, rc, edit, left>>

\* The pull_requests row, whose trigger moves the changeset head
WorkerInsert ==
    /\ w.pc = "insert"
    /\ git' = [git EXCEPT !.row = w.run.tree]
    /\ ws' = [ws EXCEPT !.head = w.run.tree]
    /\ Goto("inserted")
    /\ UNCHANGED <<auto, tx, late, pub, loops, rev, job, hook, rl, rq, rc, edit, left>>

\* MarkRecorded, and the upload of the pushed sandbox
WorkerInserted ==
    /\ w.pc = "inserted"
    /\ ws' = IF Live THEN AfterPush(w.run.tree, FALSE, "worker") ELSE ws
    /\ Update(Live, SetState("recorded"), "close")
    /\ UNCHANGED <<auto, tx, late, loops, git, rl, rq, rc, edit, left>>

\* completePublicationLocalState: CreatePR never takes over the handoff mode of
\* its parameters, so it completes every publication, a draft included.
WorkerClose ==
    /\ w.pc = "close"
    /\ ws' = [ws EXCEPT !.head = w.run.tree]
    /\ Update(Live, SetState("completed"), "complete")
    /\ UNCHANGED <<auto, tx, late, loops, git, rl, rq, rc, edit, left>>

\* completeOpenPRJob reads the row again: a draft that awaits review enters the
\* review path with a fresh session, a reviewed one is finished, and a terminal
\* or pre-publish publication has nothing left to do.
WorkerComplete ==
    /\ w.pc = "complete"
    /\ LET draft == Live /\ pub.mode = "draft_first"
       IN \/ /\ draft /\ pub.gate = "pending"
             /\ Writes(SetState("recorded"))
             /\ w' = [w EXCEPT !.pc = "gate", !.run = Run, !.pub = pub', !.same = IsNow("pub")]
             /\ UNCHANGED <<job, hook, rev>>
          \/ /\ draft /\ pub.gate \in {"passed", "not_required"} /\ ~pub.bypass
             /\ w' = [w EXCEPT !.pc = "final", !.pub = pub]
             /\ UNCHANGED <<pub, job, hook, rev>>
          \/ /\ ~draft \/ pub.gate \in {"needs_human", "failed"} \/ (pub.gate # "pending" /\ pub.bypass)
             /\ Done /\ UNCHANGED pub
    /\ UNCHANGED <<auto, tx, late, loops, ws, git, rl, rq, rc, edit, left>>

\* blockDraftForMovedHead
BlockDraft ==
    IF CanSetReviewGate
    THEN Writes(SetReviewGate("needs_human")) /\ Done
    ELSE Error

\* finalizeDraftFirstPublication loads the row of the draft, pushes the snapshot the
\* handler started with, records the push and compares it with the reviewed head,
\* asks GitHub to mark the draft ready if its head is the reviewed one, and
\* completes the row.
WorkerFinal ==
    /\ w.pc = "final"
    /\ \/ /\ git.row = None \/ (w.pub.gate = "passed" /\ w.first.pend)
          /\ Error /\ UNCHANGED git
       \/ /\ git.row # None /\ w.pub.gate # "passed"
          /\ Goto("ready") /\ UNCHANGED <<pub, job, hook, git, rev>>
       \/ /\ git.row # None /\ w.pub.gate = "passed" /\ ~w.first.pend
          /\ git' = Pushed(w.first.tree)
          /\ Goto("compare") /\ UNCHANGED <<pub, job, hook, rev>>
    /\ UNCHANGED <<auto, tx, late, loops, ws, rl, rq, rc, edit, left>>

WorkerCompare ==
    /\ w.pc = "compare"
    /\ ws' = AfterPush(w.first.tree, TRUE, "worker")
    /\ git' = RowAfterPush(w.first.tree, TRUE)
    /\ IF PushedHead(w.first.tree) = w.pub.head
       THEN Goto("ready") /\ UNCHANGED <<pub, job, hook, rev>>
       ELSE BlockDraft
    /\ UNCHANGED <<auto, tx, late, loops, rl, rq, rc, edit, left>>

WorkerReady ==
    /\ w.pc = "ready"
    /\ IF w.pub.gate = "passed" /\ git.branch # w.pub.head
       THEN BlockDraft /\ UNCHANGED git
       ELSE /\ git' = [git EXCEPT !.pr = "ready"]
            /\ Goto("finish") /\ UNCHANGED <<pub, job, hook, rev>>
    /\ UNCHANGED <<auto, tx, late, loops, ws, rl, rq, rc, edit, left>>

WorkerFinish ==
    /\ w.pc = "finish"
    /\ IF Live THEN Writes(SetState("completed")) /\ Done ELSE Error
    /\ UNCHANGED <<auto, tx, late, loops, ws, git, rl, rq, rc, edit, left>>

\* A call fails on the way, retryably or fatally; or the worker dies and the
\* lease returns the job to the queue.
WorkerFault ==
    /\ w.pc \notin {"idle", "prepare", "send"} /\ Spend
    /\ \E fatal \in BOOLEAN : Fails(MarkFailed(pub, fatal), fatal, TRUE)
    /\ UNCHANGED <<auto, tx, late, loops, ws, git, rl, rq, rc, edit>>

WorkerCrash ==
    /\ w.pc # "idle" /\ Spend
    /\ w' = NoWorker /\ rev' = WorkerReads("gone")
    /\ job' = [job EXCEPT !.st = "pending"]
    /\ UNCHANGED <<auto, tx, late, pub, loops, ws, git, hook, rl, rq, rc, edit>>

\* The dead-letter hook runs after the job is dead, or is lost with its process.
DeadLetterHook ==
    /\ hook
    /\ hook' = FALSE
    /\ \/ Writes(MarkFailed(pub, TRUE)) /\ UNCHANGED left
       \/ Spend /\ UNCHANGED pub
    /\ UNCHANGED <<auto, tx, late, loops, ws, rev, git, job, w, rl, rq, rc, edit>>

-----------------------------------------------------------------------------
(* The thread that advances the running review *)

IsPublication(l) == loops[l].src = "publication"

\* The review turn ends with a verdict; a turn's end is a checkpoint in any case.
\* A clean review of a publication goes on to bind its evidence.
ReviewTurnEnds ==
    /\ rl.pc = "review"
    /\ ws' = Checkpoint(ws.tree, ws.commit) /\ NewRevision
    /\ \/ /\ IsPublication(rl.loop)
          /\ rl' = [rl EXCEPT !.pc = "push"] /\ UNCHANGED tx
       \/ /\ \E v \in {"needs_human", "failed"} \cup (IF IsPublication(rl.loop) THEN {} ELSE {"clean"}) :
               markLoopTerminalOn(rl.loop, v)
          /\ rl' = NoReview
    /\ UNCHANGED <<auto, pub, loops, git, job, hook, w, late, rq, rc, edit, left>>

\* A turn that fixed something is reviewed again, unless it was the last pass.
ReviewTurnFixes ==
    /\ rl.pc = "review" /\ Spend
    /\ ws' \in Edited /\ NewRevision
    /\ \/ markLoopTerminalOn(rl.loop, "needs_human") /\ rl' = NoReview
       \/ /\ rl' = IF IsPublication(rl.loop) THEN [rl EXCEPT !.pc = "push", !.fixed = TRUE] ELSE rl
          /\ UNCHANGED tx
    /\ UNCHANGED <<auto, pub, loops, git, job, hook, w, late, rq, rc, edit>>

\* RefreshPublicationEvidence: push what was reviewed and record the push, wait for
\* the upload, reload the revision, and bind both to the loop and its publication.
ReviewPush ==
    /\ rl.pc = "push"
    /\ IF pub.mode = "draft_first" /\ (git.row = None \/ ws.pend # None)
       THEN /\ markLoopTerminalOn(rl.loop, "failed")
            /\ rl' = NoReview /\ UNCHANGED git
       ELSE /\ git' = Pushed(ws.tree)
            /\ rl' = [rl EXCEPT !.pc = "record", !.tree = ws.tree, !.draft = pub.mode = "draft_first"]
            /\ UNCHANGED tx
    /\ UNCHANGED <<auto, pub, loops, ws, rev, job, hook, w, late, rq, rc, edit, left>>

ReviewRecord ==
    /\ rl.pc = "record"
    /\ ws' = AfterPush(rl.tree, rl.draft, "review")
    /\ git' = RowAfterPush(rl.tree, rl.draft)
    /\ rl' = [rl EXCEPT !.pc = "bind", !.head = PushedHead(rl.tree), !.tree = None, !.draft = FALSE]
    /\ UNCHANGED <<auto, pub, loops, rev, job, hook, w, tx, late, rq, rc, edit, left>>

ReviewBind ==
    /\ rl.pc = "bind" /\ Uploaded("review") /\ tx = NoTx
    /\ IF loops[rl.loop].st = "running" /\ pub.loop = rl.loop /\ Live
       THEN /\ loops' = [loops EXCEPT ![rl.loop].head = rl.head]
            /\ Writes([pub EXCEPT !.head = rl.head])
            /\ rev' = [rev EXCEPT !["pub"] = "now", ![rl.loop] = "now"]
            /\ rl' = [rl EXCEPT !.pc = IF rl.fixed THEN "review" ELSE "mark",
                                !.head = None, !.fixed = FALSE]
            /\ UNCHANGED tx
       ELSE /\ markLoopTerminalOn(rl.loop, "failed")
            /\ rl' = NoReview /\ UNCHANGED <<pub, loops, rev>>
    /\ UNCHANGED <<auto, ws, git, job, hook, w, late, rq, rc, edit, left>>

MarkPassClean ==
    /\ rl.pc = "mark"
    /\ markLoopTerminalOn(rl.loop, "clean")
    /\ rl' = NoReview
    /\ UNCHANGED <<auto, pub, loops, ws, rev, git, job, hook, w, late, rq, rc, edit, left>>

\* A failed refresh fails the loop; a crash leaves it running with nobody.
ReviewFault ==
    /\ rl.pc # "idle" /\ Spend
    /\ rl' = NoReview
    /\ \/ UNCHANGED tx
       \/ rl.pc \in {"push", "record", "bind"} /\ markLoopTerminalOn(rl.loop, "failed")
    /\ UNCHANGED <<auto, pub, loops, ws, rev, git, job, hook, w, late, rq, rc, edit>>

\* The transaction commits: the loop has ended, its publication is settled and the
\* worker queued, and the thread of a cancelled review stops.
TerminalCommit ==
    /\ tx # NoTx
    /\ tx' = NoTx
    /\ loops' = [loops EXCEPT ![tx.loop].st = tx.st]
    /\ pub' = IF tx.row = None THEN pub ELSE tx.row
    /\ job' = IF tx.enq THEN Enqueue(job) ELSE job
    /\ rl' = IF rl.loop = tx.loop THEN NoReview ELSE rl
    /\ UNCHANGED <<auto, ws, rev, git, hook, w, late, rq, rc, edit, left>>

\* The sweep restarts a linked review that no thread advances.
Strandable(l) ==
    /\ loops[l].st = "running" /\ IsPublication(l) /\ rl.pc = "idle"
    /\ pub.loop = l /\ pub.state = "review_pending" /\ pub.gate = "pending"

RestartStrandedPublicationLoop(l) ==
    /\ Strandable(l) /\ tx = NoTx
    /\ loops' = [loops EXCEPT ![l].st = "failed"]
    /\ Writes(Unreviewed(pub))
    /\ job' = Enqueue(job)
    /\ UNCHANGED <<auto, tx, late, ws, rev, git, hook, w, rl, rq, rc, edit, left>>

\* A user reviews by hand, or cancels the running review.
ManualReview ==
    /\ Spend /\ Running = {} /\ rl.pc = "idle"
    /\ loops' = Begun([NoLoop EXCEPT !.st = "running"])
    /\ rl' = [NoReview EXCEPT !.pc = "review", !.loop = Slot]
    /\ UNCHANGED <<auto, tx, late, pub, ws, git, job, hook, w, rq, rc, edit, rev>>

CancelLoop(l) ==
    /\ Spend /\ l \in Running
    /\ markLoopTerminalOn(l, "cancelled")
    /\ UNCHANGED <<auto, pub, loops, ws, rev, git, job, hook, w, rl, late, rq, rc, edit>>

-----------------------------------------------------------------------------
(* The workspace moves on: another thread's turn, and the uploads of pushes *)

\* A turn hydrates only once no upload is pending.
EditStart ==
    /\ ~edit /\ ws.pend = None /\ Spend
    /\ edit' = TRUE
    /\ UNCHANGED <<auto, tx, late, pub, loops, ws, git, job, hook, w, rl, rq, rc, rev>>

EditEnd ==
    /\ edit /\ edit' = FALSE
    /\ ws' \in Edited /\ NewRevision
    /\ UNCHANGED <<auto, tx, late, pub, loops, git, job, hook, w, rl, rq, rc, left>>

PromotePendingSnapshot ==
    /\ ws.pend # None
    /\ NewRevision
    /\ ws' = [ws EXCEPT !.tree = ws.pend, !.commit = ws.pend, !.pend = None, !.by = None]
    /\ UNCHANGED <<auto, tx, late, pub, loops, git, job, hook, w, rl, rq, rc, edit, left>>

\* The upload failed, or its process died and the sweep cleared the key.
ClearPendingSnapshot ==
    /\ ws.pend # None /\ Spend
    /\ ws' = [ws EXCEPT !.pend = None, !.by = None]
    /\ UNCHANGED <<auto, tx, late, pub, loops, git, job, hook, w, rl, rq, rc, edit, rev>>

-----------------------------------------------------------------------------
(* The reconciler decides on the candidate as it was listed: "resume" an      *)
(* unreviewed or unfinished draft publication, or "settle" one whose gate is  *)
(* open by what GitHub says.                                                  *)

Verdict(p) ==
    IF p.gate \in {"passed", "not_required"}
    THEN IF p.mode = "draft_first" /\ ~p.bypass THEN "resume" ELSE "settle"
    ELSE IF p.gate = "pending" /\ p.loop = None THEN "resume" ELSE "idle"

ListReconcileCandidates ==
    /\ rc = "idle" /\ IsReconcileCandidate
    /\ rc' = Verdict(pub)
    /\ UNCHANGED <<auto, tx, late, pub, loops, ws, git, job, hook, w, rl, rq, edit, left, rev>>

\* resumeSessionPublicationCreation queues the job and records it.
ReconcileResumes ==
    /\ rc = "resume" \/ (rc = "settle" /\ git.pr = "none")
    /\ rc' = "idle"
    /\ job' = Enqueue(job)
    /\ Writes(IF Live THEN StartAttempt(pub) ELSE pub)
    /\ UNCHANGED <<auto, tx, late, loops, ws, rev, git, hook, w, rl, rq, edit, left>>

\* The reconciler trusts the gate and does not look for the pull request.
MutantCompletesUnseen ==
    /\ rc = "settle"
    /\ rc' = "idle"
    /\ Writes(IF Live THEN SetState("completed") ELSE pub)
    /\ UNCHANGED <<auto, tx, late, loops, ws, git, job, hook, w, rl, rq, edit, left, rev>>

\* completeReconciledSessionPublication, after the pull request is associated.
ReconcileCompletes ==
    /\ rc = "settle" /\ git.pr # "none"
    /\ rc' = "idle"
    /\ git' = [git EXCEPT !.row = IF @ = None THEN git.branch ELSE @]
    /\ IF Live THEN /\ Writes([SetState("completed") EXCEPT !.pr = TRUE])
                    /\ ws' = [ws EXCEPT !.head = git'.row]
               ELSE UNCHANGED <<pub, ws>>
    /\ UNCHANGED <<auto, tx, late, loops, job, hook, w, rl, rq, edit, left, rev>>

-----------------------------------------------------------------------------
WorkerStep ==
    \/ WorkerClaim \/ WorkerPrepare \/ WorkerCheck \/ WorkerPolicy \/ WorkerGate
    \/ WorkerPush \/ WorkerRecord \/ WorkerReload \/ WorkerLook \/ WorkerSend
    \/ WorkerLink \/ WorkerPark \/ WorkerCreate \/ WorkerPushed \/ WorkerOpen
    \/ WorkerOpened \/ WorkerInsert \/ WorkerInserted \/ WorkerClose
    \/ WorkerComplete \/ WorkerFinal \/ WorkerCompare \/ WorkerReady \/ WorkerFinish

ReviewStep ==
    ReviewTurnEnds \/ ReviewPush \/ ReviewRecord \/ ReviewBind \/ MarkPassClean

ReconcileStep == ListReconcileCandidates \/ ReconcileResumes \/ ReconcileCompletes

Next ==
    \/ WorkerStep \/ WorkerSendFails \/ WorkerFault \/ WorkerCrash \/ DeadLetterHook
    \/ ReviewStep \/ ReviewTurnFixes \/ ReviewFault \/ TerminalCommit
    \/ \E l \in Loops : RestartStrandedPublicationLoop(l) \/ CancelLoop(l)
    \/ ReconcileStep
    \/ \E r \in Requesters : RequestRead(r) \/ RequestWrite(r)
    \/ ManualReview \/ EditStart \/ EditEnd
    \/ PromotePendingSnapshot \/ ClearPendingSnapshot

Spec == Init /\ [][Next]_pubVars

Fairness ==
    /\ WF_pubVars(WorkerStep) /\ WF_pubVars(DeadLetterHook)
    /\ SF_pubVars(ReviewStep) /\ WF_pubVars(TerminalCommit) /\ WF_pubVars(ReconcileStep)
    /\ WF_pubVars(\E l \in Loops : RestartStrandedPublicationLoop(l))
    /\ WF_pubVars(EditEnd \/ PromotePendingSnapshot)

FairSpec == Spec /\ Fairness

-----------------------------------------------------------------------------
(* Properties *)

\* The row is one the session_publications CHECK constraints admit, and the job
\* is running exactly while a handler works on it.
PubTypeOK ==
    /\ pub.state \in {"none", "requested", "review_pending", "ready_to_publish",
          "branch_published", "pr_resolved", "recorded", "retryable_failed"} \cup Terminal
    /\ pub.gate \in {"not_required", "pending", "passed", "needs_human", "failed"}
    /\ job.st \in {"none", "pending", "running"} /\ (w.pc # "idle" <=> job.st = "running")

\* A publication waits only for a review that is still running, unless it was linked
\* to the review in the moment of its end: LinkReviewLoop does not lock the loop it
\* reads, and a terminal transition that was past its own look at the publication
\* does not see the link.  A replayed job returns at once while a loop is linked to
\* a pending gate ("The terminal loop transition owns the atomic gate advance"), so
\* a gate left pending on a loop that has ended in any other way would be a second
\* hole of this kind.
PendingLoopRuns ==
    Live /\ pub.gate = "pending" /\ pub.loop # None
        => loops[pub.loop].st = "running" \/ late

\* A passed gate rests on evidence: the linked loop ended clean, and the row and
\* the loop agree on the workspace revision and the head they speak of, whatever
\* rebinding, invalidation, reuse, bypass or reopening happened before.  Only the
\* policy of an automation that asks for no pass opens the gate without a loop.
PassedIsEvidenced ==
    Live /\ pub.gate = "passed" =>
        IF auto = "zero"
        THEN ~pub.max /\ pub.loop = None
        ELSE /\ pub.max /\ pub.loop # None
             /\ loops[pub.loop].st = "clean"
             /\ loops[pub.loop].head = pub.head /\ rev[pub.loop] = rev["pub"]

\* Whoever completes a publication - the PR service, the draft finalizer, the
\* adoption of an existing pull request or the reconciler - there is a pull
\* request on GitHub and its pull_requests row by then, after any crash between
\* the two.
CompletedHasPR == pub.state = "completed" => git.pr # "none" /\ git.row # None

\* No statement of an actor that read the row earlier (a second request, a
\* deferred MarkFailed, the dead-letter hook, a review that ends late, the
\* reconciler) changes a completed publication.
CompletedIsFinal == [][pub.state = "completed" => pub' = pub]_pubVars

\* The pull request of a publication whose gate passed is opened on the head the
\* review accepted: workspace movement that is not a fix of the review
\* "invalidates the evidence and starts a new review loop".
PublishesWhatWasReviewed ==
    [][git.pr = "none" /\ git'.pr # "none" /\ w.pub.gate = "passed"
         => git.branch = w.pub.head]_pubVars

\* A loop row that runs with no thread to advance it, and that the sweep for
\* stranded reviews does not select.
Abandoned == tx = NoTx /\ Running # {} /\ rl.pc = "idle" /\ \A l \in Running : ~Strandable(l)

\* A publication linked to a review that had already ended: its job returns at once,
\* and neither the reconciler nor the sweep selects it.
Overlooked == pub.gate = "pending" /\ pub.loop # None /\ loops[pub.loop].st # "running"

\* A publication settles: it ends, or it waits for a person, or its session is
\* blocked by an abandoned review, or its review ended unseen.  Every hand-over
\* between the request, the job, the review loop and the reconciler is covered, each
\* cut short by a crash or a failed call.
SettlesOrAbandoned ==
    Live ~> (~Live \/ pub.gate = "needs_human" \/ Abandoned \/ Overlooked)
============================================================================
