------------------------- MODULE ThreadInboxLemmas --------------------------
EXTENDS ThreadInbox, WellFoundedInduction, TLAPS

USE SMTT(30), ZenonT(30)

(* The rows, the run's progress and the node's memory are what their       *)
(* columns and Go types say.                                               *)
PollStages == {"idle", "flush", "claim", "next", "write", "reset"}

Entry == [st : States, rt : Runtimes \union {0}]

Runtime == [st : {"none", "starting", "live", "over"},
            node : Nodes \union {NoNode}, expired : BOOLEAN,
            deliv : Nat, acked : Nat]

Receipt == [seqs : SUBSET Entries, before : Nat]

Poll == [pc : PollStages, rt : Runtimes \union {0}, todo : SUBSET Entries]

RowTypes ==
  /\ entry \in [Entries -> Entry]
  /\ rt \in [Runtimes -> Runtime]

RunTypes ==
  /\ ctl \in [Runtimes -> Controls]
  /\ seeds \in [Runtimes -> SUBSET Entries]
  /\ receipt \in [Runtimes -> Receipt]
  /\ \A r \in Runtimes : receipt[r].seqs = {} => receipt[r] = NoReceipt

PollTypes ==
  /\ reg \in [Nodes -> {"none", "entry", "handle"}]
  /\ poll \in [Nodes -> Poll]
  /\ \A n \in Nodes :
       /\ poll[n].pc # "idle" => poll[n].rt \in Runtimes
       /\ poll[n].pc \in {"write", "reset"} => poll[n].todo # {}

HistoryTypes ==
  /\ took \in [Entries -> Nat]
  /\ sure \in [Entries -> BOOLEAN]
  /\ replays \in [Entries -> Nat]

InboxType == RowTypes /\ RunTypes /\ PollTypes /\ HistoryTypes

(* One runtime of the thread is active at a time, and a run that has not   *)
(* started has left no trace.                                              *)
OneActive == \A q, r \in Runtimes : Active(q) /\ Active(r) => q = r

Unstarted ==
  \A r \in Runtimes : ctl[r] = "none" =>
    /\ ~Active(r)
    /\ receipt[r] = NoReceipt
    /\ \A n \in Nodes : poll[n].rt # r

(* What a receipt names was accepted.                                      *)
ReceiptsAreSure == \A r \in Runtimes : \A e \in receipt[r].seqs : sure[e]

(* The rows by themselves: claims have owners, one runtime is active.      *)
Rows == RowTypes /\ ClaimsHaveOwners /\ OneActive

(* The memory of the runs and nodes, and what is sure of the entries.      *)
Memory == RunTypes /\ PollTypes /\ HistoryTypes /\ Unstarted /\ ReceiptsAreSure

PollOK(x) ==
  /\ x \in Poll
  /\ x.pc # "idle" => x.rt \in Runtimes
  /\ x.pc \in {"write", "reset"} => x.todo # {}

(* The delivery on node n goes on as x: for the same runtime or, at its    *)
(* start, an active one; towards a write only from a mark or a refusal.    *)
PollMove(n, x) ==
  /\ PollOK(x)
  /\ poll' = [poll EXCEPT ![n] = x]
  /\ \/ x.rt = poll[n].rt
     \/ x.rt = 0 /\ x.todo = {}
     \/ x.rt \in Runtimes /\ Active(x.rt) /\ rt[x.rt].node = n /\ x.todo = {}
  /\ \/ x.todo \in {{}, poll[n].todo}
     \/ Claim(n) /\ x.todo \in SUBSET Deliverable(poll[n].rt)
     \/ (WriteAccepted(n) \/ DeadLetter(n)) /\ x.todo = poll[n].todo \ {Min(poll[n].todo)}
  /\ x.pc \in {"write", "reset"} => x.todo = poll[n].todo /\ (MarkDelivered(n) \/ WriteRefused(n))

(* A delivery runs on the node of its runtime.                             *)
AtHome == \A n \in Nodes : poll[n].rt \in Runtimes => rt[poll[n].rt].node = n

-----------------------------------------------------------------------------
(* A nonempty set of numbers has a least member, and Min is one.           *)
LEMMA LeastIsMin ==
  ASSUME NEW S \in SUBSET Nat, S # {}
  PROVE  Min(S) \in S /\ \A x \in S : Min(S) <= x
<1> DEFINE Less == {p \in Nat \X Nat : p[1] < p[2]}
<1>1. \E x \in S : \A y \in S : ~(<<y, x>> \in Less)
  <2>0. OpToRel(<, Nat) = Less
    BY Zenon DEF OpToRel
  <2>1. IsWellFoundedOn(OpToRel(<, Nat), Nat)
    BY NatLessThanWellFounded, Zenon
  <2> QED
    BY <2>0, <2>1, WFMin, ZenonT(60)
<1>2. PICK x \in S : \A y \in S : ~(<<y, x>> \in Less)
  BY <1>1
<1>3. ASSUME NEW y \in S PROVE x <= y
  <2>1. x \in Nat /\ y \in Nat
    OBVIOUS
  <2>2. y < x => <<y, x>> \in Less
    BY <2>1
  <2> QED
    BY <1>2, <2>1, <2>2
<1> QED
  BY <1>3, Zenon DEF Min

(* A nonempty set of numbers with a bound has a greatest member.           *)
LEMMA GreatestIsMax ==
  ASSUME NEW S \in SUBSET Nat, S # {}, NEW b \in Nat, \A x \in S : x <= b
  PROVE  Max(S) \in S /\ \A x \in S : x <= Max(S)
<1> DEFINE U == {u \in Nat : \A x \in S : x <= u}
<1>1. U \in SUBSET Nat /\ U # {}
  OBVIOUS
<1>2. PICK u : u = Min(U)
  OBVIOUS
<1>3. u \in U /\ \A v \in U : u <= v
  BY <1>1, <1>2, LeastIsMin, Zenon
<1>4. u \in S
  <2> SUFFICES ASSUME u \notin S PROVE FALSE
    OBVIOUS
  <2>1. u \in Nat /\ \A x \in S : x < u
    BY <1>3
  <2>2. u # 0
    <3>1. PICK x : x \in S
      OBVIOUS
    <3>2. x \in Nat /\ x < u
      BY <3>1, <2>1
    <3> QED
      BY <3>2
  <2>3. u - 1 \in U
    BY <2>1, <2>2
  <2> QED
    BY <2>1, <2>3, <1>3
<1>5. \A x \in S : u >= x
  BY <1>3
<1>6. Max(S) \in S /\ \A x \in S : Max(S) >= x
  BY <1>4, <1>5, Zenon DEF Max
<1> QED
  BY <1>6

(* The cases the inbox needs: sets of entries, and of two watermarks.      *)
LEMMA EntryBounds ==
  ASSUME NEW S \in SUBSET Entries, S # {}
  PROVE  /\ Min(S) \in S /\ \A e \in S : Min(S) <= e
         /\ Max(S) \in S /\ \A e \in S : e <= Max(S)
<1>1. S \in SUBSET Nat /\ MaxEntries \in Nat /\ \A x \in S : x <= MaxEntries
  BY InboxAssumption DEF Entries
<1>2. Min(S) \in S /\ \A e \in S : Min(S) <= e
  BY <1>1, LeastIsMin
<1>3. Max(S) \in S /\ \A e \in S : e <= Max(S)
  BY <1>1, GreatestIsMax, Zenon
<1> QED
  BY <1>2, <1>3

LEMMA Later ==
  ASSUME NEW a \in Nat, NEW b \in Nat
  PROVE  Max({a, b}) \in Nat /\ a <= Max({a, b}) /\ b <= Max({a, b})
         /\ Max({a, b}) \in {a, b}
<1>1. {a, b} \in SUBSET Nat /\ {a, b} # {} /\ a + b \in Nat /\ \A x \in {a, b} : x <= a + b
  OBVIOUS
<1>2. Max({a, b}) \in {a, b} /\ \A x \in {a, b} : x <= Max({a, b})
  BY <1>1, GreatestIsMax
<1> QED
  BY <1>2

(* The resolved prefix ends at an entry or before the first.               *)
LEMMA PrefixEnd ==
  ASSUME RowTypes
  PROVE  LastAcknowledged \in Nat
<1> DEFINE open == {e \in Entries : entry[e].st \in Unresolved}
<1>1. CASE open # {}
  <2>1. PICK m : m = Min(open)
    BY Zenon
  <2>2. m \in open
    BY <1>1, <2>1, EntryBounds
  <2>3. LastAcknowledged = m - 1
    BY <1>1, <2>1 DEF LastAcknowledged
  <2> QED
    BY <2>2, <2>3, InboxAssumption DEF Entries
<1>2. CASE open = {}
  <2>1. PICK M : M = Max(Appended \union {0})
    OBVIOUS
  <2>2. /\ Appended \union {0} \in SUBSET Nat /\ Appended \union {0} # {}
        /\ MaxEntries \in Nat /\ \A x \in Appended \union {0} : x <= MaxEntries
    BY InboxAssumption DEF Appended, Entries
  <2>3. M \in Appended \union {0}
    BY <2>1, <2>2, GreatestIsMax, Zenon
  <2>4. LastAcknowledged = M
    BY <1>2, <2>1 DEF LastAcknowledged
  <2> QED
    BY <2>2, <2>3, <2>4
<1> QED
  BY <1>1, <1>2

(* What the end of runtimes does to an entry.                              *)
LEMMA ReleasedOK ==
  ASSUME RowTypes, NEW R
  PROVE  /\ Released(R) \in [Entries -> Entry]
         /\ \A e \in Entries :
              LET x == Released(R)[e]
              IN \/ x = entry[e] /\ ~(entry[e].rt \in R /\ entry[e].st \in {"delivering", "delivered"})
                 \/ entry[e].st = "delivering" /\ x.st = "pending" /\ x.rt = 0
                 \/ entry[e].st = "delivered" /\ x.st = "unknown_delivery" /\ x.rt = entry[e].rt
<1> SUFFICES ASSUME NEW e \in Entries
             PROVE  LET x == Released(R)[e]
                    IN /\ x \in Entry
                       /\ \/ x = entry[e] /\ ~(entry[e].rt \in R /\ entry[e].st \in {"delivering", "delivered"})
                          \/ entry[e].st = "delivering" /\ x.st = "pending" /\ x.rt = 0
                          \/ entry[e].st = "delivered" /\ x.st = "unknown_delivery" /\ x.rt = entry[e].rt
  BY DEF Released
<1>1. entry[e] \in Entry
  BY DEF RowTypes
<1>2. [st |-> "pending", rt |-> 0] \in Entry
  BY DEF Entry, States
<1>3. PICK x : x = [entry[e] EXCEPT !.st = "unknown_delivery"]
  BY Zenon
<1>4. x \in Entry /\ x.st = "unknown_delivery" /\ x.rt = entry[e].rt
  BY <1>1, <1>3 DEF Entry, States
<1> QED
  BY <1>1, <1>2, <1>3, <1>4 DEF Released

(* What a commit does to the entries and to the row of its runtime.        *)
LEMMA CommitOK ==
  ASSUME RowTypes, NEW r \in Runtimes, NEW S \in SUBSET Entries, S # {}, Commit(r, Max(S), S)
  PROVE  /\ RowTypes'
         /\ Leased(r)
         /\ \A e \in Entries : IF e \in S THEN /\ entry[e].st \in {"delivered", "acked", "unknown_delivery"}
                                              /\ entry[e].rt = r
                                              /\ entry'[e].st = "acked" /\ entry'[e].rt = r
                                         ELSE entry'[e] = entry[e]
         /\ \A q \in Runtimes \ {r} : rt'[q] = rt[q]
         /\ rt'[r].st = rt[r].st /\ rt'[r].node = rt[r].node /\ rt'[r].expired = rt[r].expired
         /\ rt'[r].acked \in {rt[r].acked, Max(S)} /\ rt[r].acked <= rt'[r].acked
<1>1. Max(S) \in S /\ Max(S) \in Nat
  <2>1. PICK m : m = Max(S)
    OBVIOUS
  <2>2. m \in S
    BY <2>1, EntryBounds
  <2>3. m \in Nat
    BY <2>2, InboxAssumption DEF Entries
  <2> QED
    BY <2>1, <2>2, <2>3
<1>2. rt[r].deliv \in Nat /\ rt[r].acked \in Nat /\ rt[r] \in Runtime
  BY DEF RowTypes, Runtime
<1>3. PICK d : d = Max({rt[r].deliv, Max(S)})
  OBVIOUS
<1>4. PICK a : a = Max({rt[r].acked, Max(S)})
  OBVIOUS
<1>5. d \in Nat /\ a \in Nat /\ a \in {rt[r].acked, Max(S)} /\ rt[r].acked <= a
  BY <1>1, <1>2, <1>3, <1>4, Later
<1>6. rt' = [rt EXCEPT ![r].deliv = d, ![r].acked = a]
  BY <1>3, <1>4 DEF Commit
<1>7. PICK x : x = [rt[r] EXCEPT !.deliv = d, !.acked = a]
  OBVIOUS
<1>8. /\ x \in Runtime /\ x.st = rt[r].st /\ x.node = rt[r].node /\ x.expired = rt[r].expired
      /\ x.acked = a
  BY <1>2, <1>5, <1>7, Zenon DEF Runtime
<1>9. rt' = [rt EXCEPT ![r] = x]
  BY <1>6, <1>7, <1>2, Zenon DEF RowTypes
<1>10. rt' \in [Runtimes -> Runtime] /\ rt'[r] = x /\ \A q \in Runtimes \ {r} : rt'[q] = rt[q]
  BY <1>8, <1>9 DEF RowTypes
<1>11. Leased(r) /\ \A e \in S : entry[e].rt = r /\ entry[e].st \in {"delivered", "acked", "unknown_delivery"}
  BY DEF Commit, CanCommit
<1>12. [st |-> "acked", rt |-> r] \in Entry
  BY DEF Entry, States
<1>13. /\ entry' \in [Entries -> Entry]
       /\ \A e \in Entries : entry'[e] = IF e \in S THEN [st |-> "acked", rt |-> r] ELSE entry[e]
  BY <1>12 DEF Commit, RowTypes
<1> QED
  BY <1>5, <1>8, <1>10, <1>11, <1>13 DEF RowTypes

(* The first entry a poll has still to deliver.                            *)
LEMMA NextOne ==
  ASSUME InboxType, NEW n \in Nodes, poll[n].todo # {}
  PROVE  /\ Min(poll[n].todo) \in poll[n].todo /\ Min(poll[n].todo) \in Entries
         /\ Min(poll[n].todo) \in Nat
         /\ \A e \in poll[n].todo : Min(poll[n].todo) <= e
<1>1. PICK T : T = poll[n].todo
  OBVIOUS
<1>2. T \in SUBSET Entries /\ T # {}
  BY <1>1 DEF InboxType, PollTypes, Poll
<1>3. PICK m : m = Min(T)
  OBVIOUS
<1>4. m \in T /\ \A e \in T : m <= e
  BY <1>2, <1>3, EntryBounds
<1>5. m \in Nat
  BY <1>2, <1>4 DEF Entries
<1> QED
  BY <1>1, <1>2, <1>3, <1>4, <1>5, Zenon

(* Only CreateStarting makes a runtime active and gives it a node.         *)
LEMMA BornStarting ==
  ASSUME InboxType, InboxNext, NEW q \in Runtimes
  PROVE  \/ rt'[q].node = rt[q].node /\ (rt'[q].st \in {"starting", "live"} => Active(q))
         \/ \E n \in Nodes, S \in SUBSET Entries : CreateStarting(n, q, S)
<1> DEFINE Same == rt'[q].node = rt[q].node /\ (rt'[q].st \in {"starting", "live"} => Active(q))
<1>1. rt \in [Runtimes -> Runtime] /\ rt[q].st \in {"none", "starting", "live", "over"}
  BY DEF InboxType, RowTypes, Runtime
<1> USE <1>1 DEF Active, Runtime
<1>2. ASSUME NEW e \in Entries, Append(e) \/ RetryRecoverable(e) PROVE Same
  BY <1>2 DEF Append, RetryRecoverable
<1>3. ASSUME NEW n \in Nodes, NEW r \in Runtimes, NEW S \in SUBSET Entries, CreateStarting(n, r, S), q # r
      PROVE  Same
  BY <1>3 DEF CreateStarting
<1>4. ASSUME NEW r \in Runtimes, ClaimSeeds(r) \/ Execute(r) \/ RunEnds(r) PROVE Same
  BY <1>4 DEF ClaimSeeds, Execute, RunEnds
<1>5. ASSUME NEW r \in Runtimes, StartSeedPhase(r) PROVE Same
  BY <1>5 DEF StartSeedPhase
<1>6. ASSUME NEW r \in Runtimes, Attach(r) PROVE Same
  BY <1>6 DEF Attach
<1>7. ASSUME NEW r \in Runtimes, Heartbeat(r) \/ LeaseRunsOut(r) PROVE Same
  BY <1>7 DEF Heartbeat, LeaseRunsOut
<1>8. ASSUME NEW r \in Runtimes, CloseFlush(r) \/ CloseTerminal(r) \/ ReclaimExpired(r) PROVE Same
  BY <1>8 DEF CloseFlush, Commit, CloseTerminal, ReclaimExpired
<1>9. ASSUME NEW n \in Nodes, NEW r \in Runtimes, PollBegins(n, r) PROVE Same
  BY <1>9 DEF PollBegins
<1>10. ASSUME NEW n \in Nodes, FlushDone(n) \/ FlushFails(n) PROVE Same
  <2>1. PICK r, S : Commit(r, Max(S), S)
    BY <1>10, Zenon DEF FlushDone, FlushFails
  <2> QED
    BY <2>1 DEF Commit
<1>11. ASSUME NEW n \in Nodes, DeadLetter(n) \/ MarkDelivered(n) \/ ResetUnsent(n) PROVE Same
  <2>1. PICK r : r = poll[n].rt
    OBVIOUS
  <2>2. PICK e : e = Min(poll[n].todo)
    OBVIOUS
  <2>3. \/ rt' = rt
        \/ \E d : rt' = [rt EXCEPT ![r].deliv = d]
        \/ \E d : rt' = [rt EXCEPT ![r].deliv = d, ![r].acked = e]
    BY <1>11, <2>1, <2>2, Zenon DEF DeadLetter, MarkDelivered, ResetUnsent
  <2>4. ASSUME NEW d, rt' = [rt EXCEPT ![r].deliv = d] PROVE Same
    BY <2>4
  <2>5. ASSUME NEW d, rt' = [rt EXCEPT ![r].deliv = d, ![r].acked = e] PROVE Same
    BY <2>5
  <2> QED
    BY <2>3, <2>4, <2>5, Zenon
<1>12. ASSUME NEW n \in Nodes, PollEnds(n) \/ Claim(n) \/ WriteAccepted(n) \/ WriteRefused(n)
                                \/ WriteUncertain(n) \/ StartRefused(n) \/ Crash(n)
       PROVE  Same
  BY <1>12 DEF PollEnds, Claim, WriteAccepted, WriteRefused, WriteUncertain, StartRefused, Crash
<1>13. ASSUME CancelThread PROVE Same
  BY <1>13 DEF CancelThread
<1> QED
  BY <1>2, <1>3, <1>4, <1>5, <1>6, <1>7, <1>8, <1>9, <1>10, <1>11, <1>12, <1>13
    DEF InboxNext, RuntimeStep, PollStep

LEMMA PollMoves ==
  ASSUME InboxType, NEW n \in Nodes, PollStep(n)
  PROVE  poll' = poll \/ \E x : PollMove(n, x)
<1>1. poll \in [Nodes -> Poll] /\ PollOK(poll[n])
  BY DEF InboxType, PollTypes, PollOK
<1>2. Idle \in Poll /\ Idle.pc = "idle" /\ Idle.rt = 0 /\ Idle.todo = {}
  BY DEF Idle, Poll, PollStages
<1>3. ASSUME poll' = [poll EXCEPT ![n] = Idle] PROVE PollMove(n, Idle)
  BY <1>2, <1>3 DEF PollMove, PollOK
<1>4. ASSUME NEW pc \in PollStages, poll' = [poll EXCEPT ![n].pc = pc], poll[n].pc # "idle",
             pc \in {"write", "reset"} => poll[n].todo # {} /\ (MarkDelivered(n) \/ WriteRefused(n))
      PROVE  \E x : PollMove(n, x)
  <2>1. PICK x : x = [poll[n] EXCEPT !.pc = pc]
    BY Zenon
  <2>2. x \in Poll /\ x.pc = pc /\ x.rt = poll[n].rt /\ x.todo = poll[n].todo
    BY <1>1, <2>1 DEF PollOK, Poll
  <2>3. poll' = [poll EXCEPT ![n] = x]
    BY <1>1, <1>4, <2>1
  <2>4. PollOK(x)
    BY <1>1, <1>4, <2>2 DEF PollOK
  <2>5. PollMove(n, x)
    BY <1>4, <2>2, <2>3, <2>4, Zenon DEF PollMove
  <2> QED
    BY <2>5
<1>5. ASSUME NEW T \in SUBSET Entries, poll' = [poll EXCEPT ![n].pc = "next", ![n].todo = T],
             poll[n].pc # "idle",
             \/ T = {}
             \/ Claim(n) /\ T \in SUBSET Deliverable(poll[n].rt)
             \/ WriteAccepted(n) /\ T = poll[n].todo \ {Min(poll[n].todo)}
      PROVE  \E x : PollMove(n, x)
  <2>1. PICK x : x = [poll[n] EXCEPT !.pc = "next", !.todo = T]
    OBVIOUS
  <2>2. x \in Poll /\ x.pc = "next" /\ x.rt = poll[n].rt /\ x.todo = T
    BY <1>1, <2>1, Zenon DEF PollOK, Poll, PollStages
  <2>3. poll' = [poll EXCEPT ![n] = x]
    BY <1>1, <1>5, <2>1, Zenon
  <2>4. PollOK(x)
    BY <1>1, <1>5, <2>2 DEF PollOK
  <2>5. PollMove(n, x)
    BY <1>5, <2>2, <2>3, <2>4, Zenon DEF PollMove
  <2> QED
    BY <2>5
<1>6. ASSUME NEW r \in Runtimes, PollBegins(n, r) PROVE poll' = poll \/ \E x : PollMove(n, x)
  <2>1. PICK pc \in {"flush", "claim"} :
           poll' = poll \/ poll' = [poll EXCEPT ![n] = [pc |-> pc, rt |-> r, todo |-> {}]]
    BY <1>6, Zenon DEF PollBegins
  <2>2. PICK x : x = [pc |-> pc, rt |-> r, todo |-> {}]
    BY Zenon
  <2>3. PollOK(x) /\ x.rt = r /\ x.todo = {} /\ x.pc = pc
    BY <2>2 DEF PollOK, Poll, PollStages
  <2>4. Active(r) /\ rt[r].node = n
    BY <1>6 DEF PollBegins, Leased
  <2>5. CASE poll' = [poll EXCEPT ![n] = x]
    <3>1. PollMove(n, x)
      BY <2>3, <2>4, <2>5 DEF PollMove
    <3> QED
      BY <3>1
  <2> QED
    BY <2>1, <2>2, <2>5
<1>7. CASE PollEnds(n) \/ FlushFails(n)
  BY <1>3, <1>7 DEF PollEnds, FlushFails
<1>8. CASE FlushDone(n)
  <2>1. \/ poll' = [poll EXCEPT ![n] = Idle]
        \/ \E pc \in {"claim", "next"} : poll' = [poll EXCEPT ![n].pc = pc]
    BY <1>8 DEF FlushDone, Goto
  <2>2. poll[n].pc # "idle"
    BY <1>8 DEF FlushDone, Flushing
  <2> QED
    BY <2>1, <2>2, <1>3, <1>4 DEF PollStages
<1>9. CASE Claim(n)
  <2>1. PICK S \in SUBSET Deliverable(poll[n].rt) :
           \/ poll' = [poll EXCEPT ![n] = Idle]
           \/ poll' = [poll EXCEPT ![n].pc = "next", ![n].todo = S]
    BY <1>9, Zenon DEF Claim
  <2>2. S \in SUBSET Entries
    BY <2>1 DEF Deliverable
  <2>3. poll[n].pc # "idle"
    BY <1>9 DEF Claim
  <2> QED
    BY <2>1, <2>2, <2>3, <1>3, <1>5, <1>9
<1>10. CASE DeadLetter(n)
  <2>1. PICK e : e = Min(poll[n].todo)
    OBVIOUS
  <2>2. PICK x : x = [poll[n] EXCEPT !.todo = @ \ {e}]
    BY Zenon
  <2>3. x \in Poll /\ x.pc = poll[n].pc /\ x.rt = poll[n].rt /\ x.todo = poll[n].todo \ {e}
    BY <1>1, <2>2 DEF PollOK, Poll
  <2>4. poll' = [poll EXCEPT ![n] = Idle] \/ poll' = [poll EXCEPT ![n] = x]
    <3>1. poll' = [poll EXCEPT ![n] = Idle] \/ poll' = [poll EXCEPT ![n].todo = @ \ {e}]
      BY <1>10, <2>1, Zenon DEF DeadLetter
    <3> QED
      BY <1>1, <3>1, <2>2
  <2>5. poll[n].pc = "next"
    BY <1>10 DEF DeadLetter
  <2>6. CASE poll' = [poll EXCEPT ![n] = x]
    <3>1. PollMove(n, x)
      BY <1>1, <1>10, <2>1, <2>3, <2>5, <2>6 DEF PollMove, PollOK
    <3> QED
      BY <3>1
  <2> QED
    BY <2>4, <2>6, <1>3
<1>11. CASE MarkDelivered(n)
  <2>1. \/ poll' = [poll EXCEPT ![n] = Idle]
        \/ poll' = [poll EXCEPT ![n].pc = "write"]
    BY <1>11 DEF MarkDelivered, Goto
  <2>2. poll[n].pc = "next" /\ poll[n].todo # {}
    BY <1>11 DEF MarkDelivered
  <2> QED
    BY <1>3, <1>4, <1>11, <2>1, <2>2 DEF PollStages
<1>12. CASE WriteRefused(n)
  <2>1. poll' = [poll EXCEPT ![n].pc = "reset"] /\ poll[n].pc = "write"
    BY <1>12 DEF WriteRefused, Goto
  <2>2. poll[n].todo # {}
    BY <1>1, <2>1 DEF PollOK
  <2> QED
    BY <1>4, <1>12, <2>1, <2>2 DEF PollStages
<1>13. CASE WriteAccepted(n) \/ WriteUncertain(n) \/ ResetUnsent(n)
  <2>1. PICK e : e = Min(poll[n].todo)
    OBVIOUS
  <2>2. PICK T : T = poll[n].todo \ {e}
    BY Zenon
  <2>3. \/ poll' = [poll EXCEPT ![n] = Idle]
        \/ poll' = [poll EXCEPT ![n].pc = "next", ![n].todo = {}]
        \/ WriteAccepted(n) /\ poll' = [poll EXCEPT ![n].pc = "next", ![n].todo = T]
    BY <1>1, <1>13, <2>1, <2>2 DEF WriteAccepted, WriteUncertain, ResetUnsent
  <2>4. poll[n].pc # "idle" /\ T \in SUBSET Entries
    BY <1>1, <1>13, <2>2 DEF WriteAccepted, WriteUncertain, ResetUnsent, PollOK, Poll
  <2> QED
    <3>1. CASE WriteAccepted(n) /\ poll' = [poll EXCEPT ![n].pc = "next", ![n].todo = T]
      BY <1>5, <2>1, <2>2, <2>4, <3>1, Zenon
    <3>2. CASE poll' = [poll EXCEPT ![n].pc = "next", ![n].todo = {}]
      <4>1. PICK E \in SUBSET Entries : E = {}
        BY Zenon
      <4>2. poll' = [poll EXCEPT ![n].pc = "next", ![n].todo = E]
        BY <3>2, <4>1
      <4> QED
        BY <1>5, <2>4, <4>1, <4>2, Zenon
    <3> QED
      BY <1>3, <2>3, <3>1, <3>2
<1> QED
  BY <1>6, <1>7, <1>8, <1>9, <1>10, <1>11, <1>12, <1>13 DEF PollStep

(* What a flush or a close commits is part of the receipt.                 *)
LEMMA FlushCommits ==
  ASSUME InboxType, NEW n \in Nodes, FlushDone(n) \/ FlushFails(n)
  PROVE  /\ poll[n].rt \in Runtimes
         /\ \E S \in SUBSET Entries :
              /\ S # {} /\ Commit(poll[n].rt, Max(S), S)
              /\ S \in {LowPart(poll[n].rt), receipt[poll[n].rt].seqs}
              /\ FlushDone(n) => S = receipt[poll[n].rt].seqs
<1>1. poll[n].pc # "idle"
  BY DEF FlushDone, FlushFails, Flushing
<1>2. poll[n].rt \in Runtimes
  BY <1>1 DEF InboxType, PollTypes
<1>3. PICK r \in Runtimes : r = poll[n].rt
  BY <1>2
<1>4. receipt[r].seqs \in SUBSET Entries /\ LowPart(r) \in SUBSET Entries
  BY DEF InboxType, RunTypes, Receipt, LowPart
<1>5. CASE FlushDone(n)
  <2>1. receipt[r].seqs # {} /\ Commit(r, Max(receipt[r].seqs), receipt[r].seqs)
    BY <1>3, <1>5, Zenon DEF FlushDone
  <2> QED
    BY <1>3, <1>4, <2>1
<1>6. CASE FlushFails(n) /\ ~FlushDone(n)
  <2>1. PICK S \in {LowPart(r), receipt[r].seqs} : S # {} /\ Commit(r, Max(S), S)
    BY <1>3, <1>6, Zenon DEF FlushFails
  <2> QED
    BY <1>3, <1>4, <1>6, <2>1
<1> QED
  BY <1>5, <1>6

LEMMA CloseCommits ==
  ASSUME InboxType, NEW r \in Runtimes, CloseFlush(r)
  PROVE  \/ UNCHANGED <<entry, rt, receipt>>
         \/ /\ receipt[r].seqs \in SUBSET Entries /\ receipt[r].seqs # {}
            /\ Commit(r, Max(receipt[r].seqs), receipt[r].seqs)
<1>1. receipt[r].seqs \in SUBSET Entries /\ (receipt[r] # NoReceipt => receipt[r].seqs # {})
  BY DEF InboxType, RunTypes, Receipt
<1> QED
  BY <1>1, Zenon DEF CloseFlush

=============================================================================
