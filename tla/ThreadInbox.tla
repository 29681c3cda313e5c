----------------------------- MODULE ThreadInbox -----------------------------
(***************************************************************************)
(* The durable inbox of one thread and the runtimes that deliver it to a   *)
(* coding agent (internal/db/thread_inbox_store.go, thread_runtime_store.go*)
(* and session_activity_seed.go; internal/services/agent/                  *)
(* thread_runtime_delivery.go and cancel_thread.go).                       *)
(*                                                                         *)
(* A run starts a runtime, admits the messages that seed its prompt, then  *)
(* executes the agent and attaches its handle.  Messages that arrive later *)
(* are claimed by a poll of the owning node and written to the handle one  *)
(* by one.  Each SQL statement (and each short transaction) is one step;   *)
(* its answer may be lost.  A lease runs out at any time unless renewed.   *)
(* An entry is named by its sequence number; a runtime stands for its row  *)
(* together with its lease token, which no other runtime shares.           *)
(***************************************************************************)
EXTENDS Integers, FiniteSetsExt

CONSTANTS MaxEntries,   \* bound: entries ever appended
          MaxRuntimes,  \* bound: runtimes ever started
          Nodes,        \* worker processes
          NoNode,       \* not a node
          Poison,       \* entries whose payload may be impossible to format
          MaxRetries    \* bound: replays requested by the user, per entry

Entries == 1..MaxEntries
Runtimes == 1..MaxRuntimes

ASSUME InboxAssumption ==
  /\ MaxEntries \in Nat /\ MaxRuntimes \in Nat /\ MaxRetries \in Nat
  /\ Poison \subseteq Entries
  /\ IsFiniteSet(Nodes)

VARIABLES
  entry,     \* rows of thread_inbox_entries; rt is 0 for NULL
  rt,        \* rows of thread_runtimes
  ctl,       \* how far the run that owns the runtime has come
  seeds,     \* the messages that seed its prompt
  receipt,   \* confirmedThreadInput: written, not yet acknowledged
  reg,       \* the node's ThreadCancelRegistry entry for the thread
  poll,      \* the delivery in progress on the node, under its lock
  took,      \* history: how often the agent may have received the entry
  sure,      \* history: the agent certainly received or was promised it
  replays,   \* history: explicit replays of the entry
  poison     \* entries whose payload cannot be formatted; never changes

inboxVars == <<entry, rt, ctl, seeds, receipt, reg, poll, took, sure,
               replays, poison>>

States == {"none", "pending", "delivering", "delivered", "unknown_delivery",
           "acked", "dead_letter"}

Unresolved == {"pending", "delivering", "delivered", "unknown_delivery"}

Controls == {"none", "created", "claimed", "admitted", "running", "ending",
             "closing", "gone"}

Idle == [pc |-> "idle", rt |-> 0, todo |-> {}]

NoReceipt == [seqs |-> {}, before |-> 0]

NoRuntime == [st |-> "none", node |-> NoNode, expired |-> FALSE, deliv |-> 0,
              acked |-> 0]

InboxInit ==
  /\ entry = [e \in Entries |-> [st |-> "none", rt |-> 0]]
  /\ rt = [r \in Runtimes |-> NoRuntime]
  /\ ctl = [r \in Runtimes |-> "none"]
  /\ seeds = [r \in Runtimes |-> {}]
  /\ receipt = [r \in Runtimes |-> NoReceipt]
  /\ reg = [n \in Nodes |-> "none"]
  /\ poll = [n \in Nodes |-> Idle]
  /\ took = [e \in Entries |-> 0]
  /\ sure = [e \in Entries |-> FALSE]
  /\ replays = [e \in Entries |-> 0]
  /\ poison \in SUBSET Poison

Appended == {e \in Entries : entry[e].st # "none"}

Active(r) == rt[r].st \in {"starting", "live"}

(* The fence of every statement that names a runtime and its lease token.  *)
Leased(r) == Active(r) /\ ~rt[r].expired

(* acquireThreadDelivery: one poll, attach or close at a time on a node.   *)
LockFree(n) ==
  /\ poll[n].pc = "idle"
  /\ \A r \in Runtimes : ctl[r] = "closing" => rt[r].node # n

(* LastAcknowledgedSequence: the end of the resolved prefix.               *)
LastAcknowledged ==
  LET open == {e \in Entries : entry[e].st \in Unresolved}
  IN IF open # {} THEN Min(open) - 1 ELSE Max(Appended \union {0})

(* Mutant: written entries of an ended runtime are forgotten.              *)
MutReleaseForgets(R) ==
  [e \in Entries |->
     IF entry[e].rt \in R /\ entry[e].st = "delivering"
     THEN [st |-> "pending", rt |-> 0] ELSE entry[e]]

(* What closing or losing runtimes does to the entries they hold: claimed  *)
(* input goes back to the queue, input that may have been written becomes  *)
(* uncertain.                                                              *)
Released(R) ==
  [e \in Entries |->
     IF entry[e].rt \in R /\ entry[e].st = "delivering"
     THEN [st |-> "pending", rt |-> 0]
     ELSE IF entry[e].rt \in R /\ entry[e].st = "delivered"
     THEN [entry[e] EXCEPT !.st = "unknown_delivery"]
     ELSE entry[e]]

(* CommitInboxDeliveryWithLease, and the batch acknowledgment that starts  *)
(* the next activity phase: exactly the confirmed entries become applied   *)
(* and the watermarks move to the end of the batch, or nothing changes.    *)
CanCommit(r, S) ==
  /\ Leased(r)
  /\ \A e \in S : /\ entry[e].rt = r
                  /\ entry[e].st \in {"delivered", "acked", "unknown_delivery"}

(* Mutant: everything up to the watermark counts as confirmed.             *)
MutCommitByWatermark(r, end, S) ==
  /\ CanCommit(r, S)
  /\ entry' = [e \in Entries |->
                 IF e \in S \/ (e <= end /\ entry[e].st \in Unresolved)
                 THEN [st |-> "acked", rt |-> r] ELSE entry[e]]
  /\ rt' = [rt EXCEPT ![r].deliv = Max({@, end}), ![r].acked = Max({@, end})]

Commit(r, end, S) ==
  /\ CanCommit(r, S)
  /\ entry' = [e \in Entries |-> IF e \in S THEN [st |-> "acked", rt |-> r]
                                            ELSE entry[e]]
  /\ rt' = [rt EXCEPT ![r].deliv = Max({@, end}), ![r].acked = Max({@, end})]

-----------------------------------------------------------------------------
(* AppendForMessage: the next sequence number, under the thread's lock.    *)
Append(e) ==
  /\ entry[e].st = "none"
  /\ \A f \in Entries : f < e => entry[f].st # "none"
  /\ entry' = [entry EXCEPT ![e].st = "pending"]
  /\ UNCHANGED <<rt, ctl, seeds, receipt, reg, poll, took, sure,
                 replays>>

(* The start of a run on node n with the messages S it found unapplied: it *)
(* registers the thread, reads the watermark and calls CreateStarting.     *)
(* The statement retires runtimes whose lease ran out and inserts the new  *)
(* row; PostgreSQL leaves open which of the two happens first, so it may   *)
(* as well fail on the unique index while an expired row is still active.  *)
(* If its answer is lost, the run returns and leaves the row behind.       *)
CreateStarting(n, r, S) ==
  LET old == {q \in Runtimes : Active(q)}
  IN /\ ctl[r] = "none"
     /\ \A q \in Runtimes : q < r => ctl[q] # "none"
     /\ S \subseteq {e \in Appended : entry[e].st # "acked"}
     /\ \A q \in old : rt[q].expired
     /\ entry' = Released(old)
     /\ rt' = [q \in Runtimes |->
                 IF q = r THEN [st |-> "starting", node |-> n,
                                expired |-> FALSE, deliv |-> LastAcknowledged,
                                acked |-> LastAcknowledged]
                 ELSE IF q \in old THEN [rt[q] EXCEPT !.st = "over"]
                 ELSE rt[q]]
     /\ \/ /\ ctl' = [ctl EXCEPT ![r] = "created"]
           /\ seeds' = [seeds EXCEPT ![r] = S]
           /\ reg' = [reg EXCEPT ![n] = "entry"]
        \/ /\ ctl' = [ctl EXCEPT ![r] = "gone"]
           /\ reg' = [reg EXCEPT ![n] = "none"]
           /\ UNCHANGED seeds
     /\ UNCHANGED <<receipt, poll, took, sure, replays>>

(* The start fails without a row (ErrActiveThreadRuntimeExists, or a failed*)
(* statement): the run returns, and its deferred Deregister removes the    *)
(* thread's entry from the node's registry, whoever it belongs to.         *)
StartRefused(n) ==
  /\ reg[n] # "none"
  /\ reg' = [reg EXCEPT ![n] = "none"]
  /\ UNCHANGED <<entry, rt, ctl, seeds, receipt, poll, took, sure,
                 replays>>

(* MarkDeliveringForMessages.  Without the lease it claims nothing and the *)
(* run goes on.  (Claims of finished runtimes, which the statement would   *)
(* also take over, do not exist while statements are atomic:               *)
(* ClaimsHaveOwners.)                                                      *)
ClaimSeeds(r) ==
  /\ ctl[r] = "created"
  /\ entry' = [e \in Entries |->
                 IF Leased(r) /\ e \in seeds[r] /\ entry[e].st = "pending"
                 THEN [st |-> "delivering", rt |-> r] ELSE entry[e]]
  /\ ctl' = [ctl EXCEPT ![r] = "claimed"]
  /\ UNCHANGED <<rt, seeds, receipt, reg, poll, took, sure, replays>>

(* StartSeedPhase: all seeds become applied in one transaction, if the     *)
(* runtime owns or can still claim every one and they continue its         *)
(* watermark.  The answer may be lost: then the run fails.                 *)
StartSeedPhase(r) ==
  LET S == seeds[r]
  IN /\ ctl[r] = "claimed"
     /\ S # {}
     /\ Leased(r)
     /\ \A e \in S : \/ entry[e].st = "pending"
                     \/ entry[e].st = "delivering" /\ entry[e].rt = r
     /\ S = (rt[r].acked + 1)..Max(S)
     /\ entry' = [e \in Entries |-> IF e \in S THEN [st |-> "acked", rt |-> r]
                                               ELSE entry[e]]
     /\ rt' = [rt EXCEPT ![r].acked = Max(S), ![r].deliv = Max({@, Max(S)})]
     /\ sure' = [e \in Entries |-> sure[e] \/ e \in S]
     /\ \E answered \in BOOLEAN :
          ctl' = [ctl EXCEPT ![r] = IF answered THEN "admitted" ELSE "ending"]
     /\ UNCHANGED <<seeds, receipt, reg, poll, took, replays>>

(* Execute: the prompt carries the admitted seeds to the agent.            *)
Execute(r) ==
  /\ \/ ctl[r] = "admitted"
     \/ ctl[r] = "claimed" /\ seeds[r] = {}
  /\ ctl' = [ctl EXCEPT ![r] = "running"]
  /\ took' = [e \in Entries |-> took[e] + IF e \in seeds[r] THEN 1 ELSE 0]
  /\ seeds' = [seeds EXCEPT ![r] = {}]
  /\ UNCHANGED <<entry, rt, receipt, reg, poll, sure, replays>>

(* Attach: the handle is registered, MarkLiveWithLease extends the lease   *)
(* even if it had run out; a fenced or failed mark detaches again.         *)
Attach(r) ==
  LET n == rt[r].node
  IN /\ ctl[r] = "running"
     /\ LockFree(n)
     /\ \E marked, answered \in BOOLEAN :
          /\ marked => Active(r)
          /\ rt' = IF marked
                   THEN [rt EXCEPT ![r].st = "live", ![r].expired = FALSE]
                   ELSE rt
          /\ reg' = [reg EXCEPT ![n] =
                       IF @ = "none" THEN @
                       ELSE IF marked /\ answered THEN "handle" ELSE "entry"]
     /\ UNCHANGED <<entry, ctl, seeds, receipt, poll, took, sure,
                    replays>>

(* heartbeatOnce; the statement has no condition on the expiry.            *)
Heartbeat(r) ==
  /\ ctl[r] \notin {"none", "gone"}
  /\ Active(r)
  /\ rt' = [rt EXCEPT ![r].expired = FALSE]
  /\ UNCHANGED <<entry, ctl, seeds, receipt, reg, poll, took, sure,
                 replays>>

LeaseRunsOut(r) ==
  /\ Leased(r)
  /\ rt' = [rt EXCEPT ![r].expired = TRUE]
  /\ UNCHANGED <<entry, ctl, seeds, receipt, reg, poll, took, sure,
                 replays>>

(* The run is over, for whatever reason: an agent that ran detaches its    *)
(* handle.                                                                 *)
RunEnds(r) ==
  LET n == rt[r].node
  IN /\ ctl[r] \in {"created", "claimed", "admitted", "running"}
     /\ ctl' = [ctl EXCEPT ![r] = "ending"]
     /\ seeds' = [seeds EXCEPT ![r] = {}]
     /\ reg' = [reg EXCEPT ![n] = IF ctl[r] = "running" /\ @ = "handle"
                                 THEN "entry" ELSE @]
     /\ UNCHANGED <<entry, rt, receipt, poll, took, sure, replays>>

(* Close, first part: under the delivery lock, acknowledge what was        *)
(* confirmed.  The receipt stays when that fails or is not answered.       *)
CloseFlush(r) ==
  /\ ctl[r] = "ending"
  /\ LockFree(rt[r].node)
  /\ ctl' = [ctl EXCEPT ![r] = "closing"]
  /\ \/ /\ receipt[r] # NoReceipt
        /\ Commit(r, Max(receipt[r].seqs), receipt[r].seqs)
        /\ \E answered \in BOOLEAN :
             receipt' = IF answered THEN [receipt EXCEPT ![r] = NoReceipt]
                                    ELSE receipt
     \/ UNCHANGED <<entry, rt, receipt>>
  /\ UNCHANGED <<seeds, reg, poll, took, sure, replays>>

(* Close, second part: MarkTerminalWithLease, then the deferred Deregister.*)
(* An error leaves the row to the reaper and keeps the receipt.            *)
CloseTerminal(r) ==
  /\ ctl[r] = "closing"
  /\ ctl' = [ctl EXCEPT ![r] = "gone"]
  /\ reg' = [reg EXCEPT ![rt[r].node] = "none"]
  /\ \/ /\ Active(r)
        /\ rt' = [rt EXCEPT ![r].st = "over"]
        /\ entry' = Released({r})
     \/ UNCHANGED <<rt, entry>>
  /\ receipt' = IF rt'[r].st = "over" THEN [receipt EXCEPT ![r] = NoReceipt]
                                      ELSE receipt
  /\ UNCHANGED <<seeds, poll, took, sure, replays>>

(* ReclaimExpiredLeases, from the session reaper.                          *)
ReclaimExpired(r) ==
  /\ Active(r) /\ rt[r].expired
  /\ rt' = [rt EXCEPT ![r].st = "over"]
  /\ entry' = Released({r})
  /\ UNCHANGED <<ctl, seeds, receipt, reg, poll, took, sure, replays>>

(* RetryRecoverable: the user asks for a dead or an uncertain entry again. *)
RetryRecoverable(e) ==
  /\ entry[e].st \in {"dead_letter", "unknown_delivery"}
  /\ replays[e] < MaxRetries
  /\ entry' = [entry EXCEPT ![e] = [st |-> "pending", rt |-> 0]]
  /\ replays' = [replays EXCEPT ![e] = @ + 1]
  /\ UNCHANGED <<rt, ctl, seeds, receipt, reg, poll, took, sure>>

(* DeadLetterPendingByThread: the thread was cancelled.                    *)
CancelThread ==
  /\ \E e \in Entries : entry[e].st \in Unresolved
  /\ entry' = [e \in Entries |-> IF entry[e].st \in Unresolved
                                 THEN [st |-> "dead_letter", rt |-> 0]
                                 ELSE entry[e]]
  /\ UNCHANGED <<rt, ctl, seeds, receipt, reg, poll, took, sure,
                 replays>>

(* The worker process dies: its runs, its receipts and its registry go.    *)
Crash(n) ==
  LET mine == {r \in Runtimes : rt[r].node = n}
  IN /\ \E r \in mine : ctl[r] # "gone"
     /\ ctl' = [r \in Runtimes |-> IF r \in mine THEN "gone" ELSE ctl[r]]
     /\ seeds' = [r \in Runtimes |-> IF r \in mine THEN {} ELSE seeds[r]]
     /\ receipt' = [r \in Runtimes |-> IF r \in mine THEN NoReceipt
                                                   ELSE receipt[r]]
     /\ reg' = [reg EXCEPT ![n] = "none"]
     /\ poll' = [poll EXCEPT ![n] = Idle]
     /\ UNCHANGED <<entry, rt, took, sure, replays>>

-----------------------------------------------------------------------------
(* DeliverThreadInbox on node n, by the runtime's own poller or by a       *)
(* deliver_thread_inbox job: it works on the active runtime of the thread  *)
(* and first repairs the watermark over entries resolved meanwhile.        *)
Goto(n, pc) == poll' = [poll EXCEPT ![n].pc = pc]

Ready(n, r) == reg[n] = "handle" /\ rt[r].st = "live"

PollBegins(n, r) ==
  LET last == LastAcknowledged
  IN /\ LockFree(n)
     /\ Leased(r) /\ rt[r].node = n
     /\ rt' = IF last > rt[r].acked
              THEN [rt EXCEPT ![r].deliv = Max({@, last}), ![r].acked = last]
              ELSE rt
     /\ poll' = IF receipt[r] # NoReceipt \/ Ready(n, r)
                THEN [poll EXCEPT ![n] = [pc |-> IF receipt[r] # NoReceipt
                                                THEN "flush" ELSE "claim",
                                          rt |-> r, todo |-> {}]]
                ELSE poll
     /\ UNCHANGED <<entry, ctl, seeds, receipt, reg, took, sure, replays>>

(* A poll returns: it has nothing more to do, or a statement failed without*)
(* effect or was fenced.                                                   *)
PollEnds(n) ==
  /\ poll[n].pc # "idle"
  /\ poll' = [poll EXCEPT ![n] = Idle]
  /\ UNCHANGED <<entry, rt, ctl, seeds, receipt, reg, took, sure, replays>>

(* flushConfirmedThreadInput.  Entries below the watermark that was valid  *)
(* when the first of them was written are committed by a transaction of    *)
(* their own, before the rest.                                             *)
LowPart(r) == {e \in receipt[r].seqs : e <= receipt[r].before}

Flushing(n) ==
  \/ poll[n].pc = "flush"
  \/ poll[n].pc = "next" /\ (poll[n].todo # {} => Min(poll[n].todo) \in poison)

FlushDone(n) ==
  LET r == poll[n].rt  S == receipt[r].seqs
  IN /\ Flushing(n)
     /\ S # {}
     /\ Commit(r, Max(S), S)
     /\ receipt' = [receipt EXCEPT ![r] = NoReceipt]
     /\ IF poll[n].pc = "next" \/ Ready(n, r)
        THEN Goto(n, IF poll[n].pc = "flush" THEN "claim" ELSE "next")
        ELSE poll' = [poll EXCEPT ![n] = Idle]
     /\ UNCHANGED <<ctl, seeds, reg, took, sure, replays>>

(* The flush fails after committing all of it, or the low part only: the   *)
(* receipt is kept and the poll returns.                                   *)
FlushFails(n) ==
  LET r == poll[n].rt
  IN /\ Flushing(n)
     /\ \E S \in {LowPart(r), receipt[r].seqs} :
          S # {} /\ Commit(r, Max(S), S)
     /\ poll' = [poll EXCEPT ![n] = Idle]
     /\ UNCHANGED <<ctl, seeds, receipt, reg, took, sure, replays>>

(* ClaimDeliverableAfter: nothing is claimed while an earlier write of this*)
(* runtime is not acknowledged.  The claim takes some of the deliverable   *)
(* entries: it skips rows that another transaction has locked (a repeated  *)
(* AppendForMessage updates the row it conflicts with) and rows whose last *)
(* failed attempt is recent, and stops at a limit.                         *)
Deliverable(r) ==
  {e \in Entries :
     /\ e > rt[r].deliv \/ entry[e].st = "pending"
     /\ \/ entry[e].st = "pending"
        \/ entry[e].st = "delivering" /\ entry[e].rt = r}

(* Mutant: claims although an earlier write is not acknowledged.           *)
MutClaimAhead(n) ==
  LET r == poll[n].rt
  IN /\ poll[n].pc = "claim"
     /\ Leased(r)
     /\ \E S \in (SUBSET Deliverable(r)) \ {{}} :
          /\ entry' = [e \in Entries |-> IF e \in S
                                         THEN [st |-> "delivering", rt |-> r]
                                         ELSE entry[e]]
          /\ poll' = [poll EXCEPT ![n].pc = "next", ![n].todo = S]
     /\ UNCHANGED <<rt, ctl, seeds, receipt, reg, took, sure, replays>>

Claim(n) ==
  LET r == poll[n].rt
  IN /\ poll[n].pc = "claim"
     /\ Leased(r)
     /\ rt[r].deliv <= rt[r].acked
     /\ \A e \in Entries : entry[e].rt = r =>
          entry[e].st \notin {"delivered", "unknown_delivery"}
     /\ \E S \in (SUBSET Deliverable(r)) \ {{}} :
          /\ entry' = [e \in Entries |-> IF e \in S
                                         THEN [st |-> "delivering", rt |-> r]
                                         ELSE entry[e]]
          /\ \/ poll' = [poll EXCEPT ![n].pc = "next", ![n].todo = S]
             \/ poll' = [poll EXCEPT ![n] = Idle]
     /\ UNCHANGED <<rt, ctl, seeds, receipt, reg, took, sure, replays>>

(* An entry that cannot be formatted: MarkDeadLetter, which no lease       *)
(* fences, then the watermark moves over it.  The second transaction may   *)
(* fail, and is not tried across a gap; the next poll repairs it.          *)
DeadLetter(n) ==
  LET r == poll[n].rt  e == Min(poll[n].todo)
  IN /\ poll[n].pc = "next" /\ poll[n].todo # {}
     /\ e \in poison
     /\ receipt[r] = NoReceipt
     /\ entry[e].st \in Unresolved
     /\ entry' = [entry EXCEPT ![e].st = "dead_letter"]
     /\ \E advanced, answered \in BOOLEAN :
          /\ advanced => Leased(r) /\ e = rt[r].acked + 1
          /\ rt' = IF advanced
                   THEN [rt EXCEPT ![r].deliv = Max({@, e}), ![r].acked = e]
                   ELSE rt
          /\ poll' = IF advanced /\ answered
                     THEN [poll EXCEPT ![n].todo = @ \ {e}]
                     ELSE [poll EXCEPT ![n] = Idle]
     /\ UNCHANGED <<ctl, seeds, receipt, reg, took, sure, replays>>

(* MarkDeliveredForEntry: the possible acceptance is recorded before the   *)
(* write; without an answer the write does not happen.                     *)
MarkDelivered(n) ==
  LET r == poll[n].rt  e == Min(poll[n].todo)
  IN /\ poll[n].pc = "next" /\ poll[n].todo # {}
     /\ e \notin poison
     /\ Leased(r)
     /\ entry[e] = [st |-> "delivering", rt |-> r]
     /\ entry' = [entry EXCEPT ![e].st = "delivered"]
     /\ rt' = [rt EXCEPT ![r].deliv = Max({@, e})]
     /\ Goto(n, "write") \/ poll' = [poll EXCEPT ![n] = Idle]
     /\ UNCHANGED <<ctl, seeds, receipt, reg, took, sure, replays>>

(* DeliverInput returns nil.                                               *)
WriteAccepted(n) ==
  LET r == poll[n].rt  e == Min(poll[n].todo)
  IN /\ poll[n].pc = "write"
     /\ reg[n] = "handle"
     /\ took' = [took EXCEPT ![e] = @ + 1]
     /\ sure' = [sure EXCEPT ![e] = TRUE]
     /\ receipt' = [receipt EXCEPT ![r] =
                      [seqs |-> @.seqs \union {e},
                       before |-> IF @ = NoReceipt THEN rt[r].acked
                                                   ELSE @.before]]
     /\ poll' = [poll EXCEPT ![n].pc = "next", ![n].todo = @ \ {e}]
     /\ UNCHANGED <<entry, rt, ctl, seeds, reg, replays>>

(* ErrThreadHandleUnavailable or ErrInputNotOpen: no byte was written.     *)
WriteRefused(n) ==
  /\ poll[n].pc = "write"
  /\ Goto(n, "reset")
  /\ UNCHANGED <<entry, rt, ctl, seeds, receipt, reg, took, sure, replays>>

(* Mutant: every write error is taken for a refusal.                       *)
MutErrorMeansUnsent(n) ==
  LET e == Min(poll[n].todo)
  IN /\ poll[n].pc = "write"
     /\ reg[n] = "handle"
     /\ \E reached \in {0, 1} : took' = [took EXCEPT ![e] = @ + reached]
     /\ Goto(n, "reset")
     /\ UNCHANGED <<entry, rt, ctl, seeds, receipt, reg, sure, replays>>

(* Any other error: the bytes may or may not have reached the agent.  The  *)
(* marker stays; the poll acknowledges what came before and returns.       *)
WriteUncertain(n) ==
  LET e == Min(poll[n].todo)
  IN /\ poll[n].pc = "write"
     /\ reg[n] = "handle"
     /\ \E reached \in {0, 1} : took' = [took EXCEPT ![e] = @ + reached]
     /\ poll' = [poll EXCEPT ![n].pc = "next", ![n].todo = {}]
     /\ UNCHANGED <<entry, rt, ctl, seeds, receipt, reg, sure, replays>>

(* ResetUnsentDelivery after a refused write.                              *)
ResetUnsent(n) ==
  LET r == poll[n].rt  e == Min(poll[n].todo)
      other == {f \in Entries : f # e /\ entry[f] = [st |-> "delivered", rt |-> r]}
  IN /\ poll[n].pc = "reset"
     /\ Leased(r)
     /\ entry[e] = [st |-> "delivered", rt |-> r]
     /\ entry' = [entry EXCEPT ![e].st = "delivering"]
     /\ rt' = [rt EXCEPT ![r].deliv = Max({rt[r].acked} \union other)]
     /\ \/ poll' = [poll EXCEPT ![n].pc = "next", ![n].todo = {}]
        \/ poll' = [poll EXCEPT ![n] = Idle]
     /\ UNCHANGED <<ctl, seeds, receipt, reg, took, sure, replays>>

-----------------------------------------------------------------------------
RuntimeStep(r) ==
  \/ \E n \in Nodes, S \in SUBSET Entries : CreateStarting(n, r, S)
  \/ ClaimSeeds(r) \/ StartSeedPhase(r) \/ Execute(r) \/ Attach(r)
  \/ Heartbeat(r) \/ LeaseRunsOut(r) \/ RunEnds(r)
  \/ CloseFlush(r) \/ CloseTerminal(r) \/ ReclaimExpired(r)

PollStep(n) ==
  \/ \E r \in Runtimes : PollBegins(n, r)
  \/ PollEnds(n) \/ FlushDone(n) \/ FlushFails(n) \/ Claim(n)
  \/ DeadLetter(n) \/ MarkDelivered(n) \/ WriteAccepted(n)
  \/ WriteRefused(n) \/ WriteUncertain(n) \/ ResetUnsent(n)

InboxNext ==
  /\ \/ \E e \in Entries : Append(e) \/ RetryRecoverable(e)
     \/ \E r \in Runtimes : RuntimeStep(r)
     \/ \E n \in Nodes : PollStep(n) \/ StartRefused(n) \/ Crash(n)
     \/ CancelThread
  /\ UNCHANGED poison

InboxSpec == InboxInit /\ [][InboxNext]_inboxVars

-----------------------------------------------------------------------------
(* Input that may have reached the agent is never sent again on its own:   *)
(* the agent receives an entry at most once more than the user asked for   *)
(* its replay (MarkDeliveredForEntry: "delivery may be uncertain and must  *)
(* not replay").  Crashes, lost leases, lost answers and the replacement   *)
(* of the runtime notwithstanding.                                         *)
NoSilentReplay == \A e \in Entries : took[e] <= 1 + replays[e]

(* An entry is recorded as applied only if the agent confirmed the write   *)
(* or it was admitted as a seed: a watermark that passed it is no receipt  *)
(* (CommitInboxDeliveryWithLease: "a scalar cursor is not a delivery       *)
(* receipt").                                                              *)
AppliedWasAccepted == \A e \in Entries : entry[e].st = "acked" => sure[e]

(* Claimed and written entries belong to a runtime that is still active:   *)
(* whichever way it ends (close, reaper, replacement at the start of the   *)
(* next run), none of its entries is left behind in a state that neither a *)
(* later runtime nor the user's replay can take up.                        *)
ClaimsHaveOwners ==
  \A e \in Entries : entry[e].st \in {"delivering", "delivered"} =>
    entry[e].rt # 0 /\ Active(entry[e].rt)

(* Input that may or may not have arrived holds up all that follows: when  *)
(* a poll is about to write an entry under its lease, every other entry    *)
(* that its runtime has tried to write is acknowledged, confirmed by a     *)
(* receipt, or was taken back (the guards of ClaimDeliverableAfter).       *)
UncertainBlocksLater ==
  \A n \in Nodes : poll[n].pc = "write" =>
    LET r == poll[n].rt
    IN Leased(r) => \A f \in Entries \ {Min(poll[n].todo)} :
         entry[f].rt = r /\ entry[f].st \in {"delivered", "unknown_delivery"}
           => f \in receipt[r].seqs

(* What the delivery loop reports when a handle is not available, "entry   *)
(* remains claimed for retry": an entry whose write was refused is one that*)
(* the next claim of its runtime selects.                                  *)
UnsentIsRetried ==
  [][\A n \in Nodes, r \in Runtimes :
       ResetUnsent(n) /\ poll[n].rt = r
         => Min(poll[n].todo) \in Deliverable(r)']_inboxVars

=============================================================================
