--------------------------- MODULE RetirementSeal ---------------------------
(***************************************************************************)
(* The permanent retirement seal of one worker generation (internal/db/    *)
(* node_retirement.go, migrations/000312_worker_retirement_seals.up.sql).  *)
(*                                                                         *)
(* Three kinds of transactions meet on one node: admissions, which make a  *)
(* job or a preview row name the node as its owner; node control writes    *)
(* (register, heartbeat, drain, resume, stale scan); and sealers.  All run *)
(* at READ COMMITTED, so every statement sees what is committed when it    *)
(* starts.  The locks a transaction holds follow from where it is (pc): it *)
(* keeps them until it commits or aborts.                                  *)
(*                                                                         *)
(* A sealer counts more kinds of owners than the triggers guard.           *)
(* Executors stands for the rows without a lease (session_executors, turn  *)
(* holds and pending snapshot uploads of sessions), Holders for            *)
(* session_sandbox_holders, which count only until they expire.  Both name *)
(* the node as their owner in one statement that no trigger watches.       *)
(***************************************************************************)
EXTENDS Naturals

CONSTANTS JobOwners, Previews, Executors, Holders, Sealers, Controllers, NoSealer

Admissions == JobOwners \cup Previews
Unguarded == Executors \cup Holders
Processes == Admissions \cup Sealers \cup Controllers

ASSUME SealAssumption ==
  /\ NoSealer \notin Sealers
  /\ JobOwners \cap Previews = {}
  /\ Executors \cap Holders = {}
  /\ Admissions \cap Unguarded = {}
  /\ Admissions \cap Sealers = {}
  /\ Admissions \cap Controllers = {}
  /\ Sealers \cap Controllers = {}

(* pc is where each transaction stands, write the node row a control write *)
(* is about to store, lapsed the owners whose lease has run out, late the  *)
(* unguarded owners written since a sealer last counted owners.            *)
VARIABLES pc, node, write, owners, lapsed, late, seal

sealVars == <<pc, node, write, owners, lapsed, late, seal>>

Intents == {"none", "planned_rollout", "other"}
NodeRows == [status: {"active", "draining", "dead"}, intent: Intents]

(* The row does not exist: a row inserted over it has no drain intent.     *)
NoRow == [status |-> "absent", intent |-> "none"]

SealInit ==
  /\ pc = [p \in Processes |-> "idle"]
  /\ node = [status |-> "active", intent |-> "none"]
  /\ write = [c \in Controllers |-> node]
  /\ owners = {}
  /\ lapsed = {}
  /\ late = {}
  /\ seal = NoSealer

Move(p, from, to) == pc[p] = from /\ pc' = [pc EXCEPT ![p] = to]

-----------------------------------------------------------------------------
(* Who holds the shared and the exclusive advisory lock of the generation, *)
(* and who holds its row.                                                  *)
SharedHolders_UntilChecked ==
  {p \in Admissions \cup Controllers : pc[p] = "locked"}

SharedHolders ==
  {p \in Admissions \cup Controllers :
     pc[p] \in {"locked", "admitted", "fkwait", "entered", "registering", "registered"}}

ExclusiveHolders ==
  {s \in Sealers : pc[s] \in {"exclusive", "unsealed", "eligible", "counted", "ready"}}

RowHolders_ControllersOnly ==
  {c \in Controllers : pc[c] \in {"row", "waiting", "locked", "admitted", "storing", "registered"}}

RowHolders ==
  {c \in Controllers : pc[c] \in {"row", "waiting", "locked", "admitted", "storing", "registered"}}
    \cup {s \in Sealers : pc[s] = "row"} \cup ExclusiveHolders

(* The mode in which a sealer locks the row.  A foreign key check of an    *)
(* admission takes KEY SHARE, which only FOR UPDATE excludes.              *)
SealRowMode_Update == "UPDATE"

SealRowMode == "NO KEY UPDATE"

KeyShareExcluded == SealRowMode = "UPDATE" /\ RowHolders \cap Sealers # {}

-----------------------------------------------------------------------------
(* An admission: the row trigger waits for the shared lock, looks for a    *)
(* seal with a fresh snapshot, and the transaction goes on to commit.      *)
AdmitBegin(a) ==
  /\ Move(a, "idle", "waiting")
  /\ UNCHANGED <<node, write, owners, lapsed, late, seal>>

TakeShared(p) ==
  /\ ExclusiveHolders = {}
  /\ Move(p, "waiting", "locked") \/ Move(p, "enter", "entered")
  /\ UNCHANGED <<node, write, owners, lapsed, late, seal>>

CheckSeal(p) ==
  /\ \/ Move(p, "locked", IF seal = NoSealer THEN "admitted" ELSE "idle")
     \/ Move(p, "entered", IF seal = NoSealer THEN "registering" ELSE "idle")
  /\ UNCHANGED <<node, write, owners, lapsed, late, seal>>

AdmitForeignKey(a) ==
  /\ Move(a, "admitted", "fkwait")
  /\ UNCHANGED <<node, write, owners, lapsed, late, seal>>

AdmitCommit(a) ==
  /\ \/ Move(a, "admitted", "idle")
     \/ ~KeyShareExcluded /\ Move(a, "fkwait", "idle")
  /\ owners' = owners \cup {a}
  /\ lapsed' = lapsed \ {a}
  /\ UNCHANGED <<node, write, late, seal>>

(* An executor, a turn hold, a pending upload or a sandbox holder is       *)
(* inserted, or a lapsed holder rearmed: no trigger looks for a seal.      *)
WriteUnguarded(u) ==
  /\ u \notin owners \ lapsed
  /\ owners' = owners \cup {u}
  /\ lapsed' = lapsed \ {u}
  /\ late' = late \cup {u}
  /\ UNCHANGED <<pc, node, write, seal>>

(* An owner reaches a terminal status; the lease of a preview or a holder  *)
(* runs out, or that of a preview is renewed without any trigger.          *)
OwnerEnds(o) ==
  /\ o \in owners
  /\ owners' = owners \ {o}
  /\ lapsed' = lapsed \ {o}
  /\ UNCHANGED <<pc, node, write, late, seal>>

LeaseLapses(o) ==
  /\ o \in owners \ lapsed
  /\ lapsed' = lapsed \cup {o}
  /\ UNCHANGED <<pc, node, write, owners, late, seal>>

PreviewRenews(a) ==
  /\ a \in lapsed
  /\ lapsed' = lapsed \ {a}
  /\ UNCHANGED <<pc, node, write, owners, late, seal>>

-----------------------------------------------------------------------------
(* The rows an update of the row may leave: a heartbeat of a process that  *)
(* is open or latched, drain with any intent, resume, stale scan.          *)
ControlWrites(r) ==
  LET beats == IF r.intent # "none" \/ r.status = "draining"
               THEN {"draining"} ELSE {"active", "draining"}
      resumes == [status |-> IF r.status = "dead" THEN "dead" ELSE "draining", intent |-> "none"]
  IN [status: {"dead"} \cup beats, intent: {r.intent}]
       \cup [status: {"draining"}, intent: Intents]
       \cup (IF r.intent = "none" THEN {} ELSE {resumes})

ControlBegin(c) ==
  /\ node # NoRow
  /\ RowHolders = {}
  /\ Move(c, "idle", "row")
  /\ \E r \in ControlWrites(node) : write' = [write EXCEPT ![c] = r]
  /\ UNCHANGED <<node, owners, lapsed, late, seal>>

(* guard_worker_retirement_node checks only writes that change the row to  *)
(* one that is active or has no drain intent.                              *)
Guarded_StatusOnly(old, new) == new.status = "active" /\ new # old

Guarded(old, new) == (new.status = "active" \/ new.intent = "none") /\ new # old

ControlGuard(c) ==
  /\ Move(c, "row", IF Guarded(node, write[c]) THEN "waiting" ELSE "storing")
  /\ UNCHANGED <<node, write, owners, lapsed, late, seal>>

(* Register is an upsert of an active row.  The trigger looks at that row  *)
(* before the conflict is found, so a registration takes the shared lock   *)
(* first and the row second, whether the row exists or not.                *)
RegisterBegin(c) ==
  /\ Move(c, "idle", "enter")
  /\ UNCHANGED <<node, write, owners, lapsed, late, seal>>

RegisterRow(c) ==
  /\ RowHolders = {}
  /\ Move(c, "registering", "registered")
  /\ write' = [write EXCEPT ![c] = [status |-> IF node.intent = "none" THEN "active" ELSE "draining",
                                     intent |-> node.intent]]
  /\ UNCHANGED <<node, owners, lapsed, late, seal>>

ControlCommit(c) ==
  /\ \E from \in {"admitted", "storing", "registered"} : Move(c, from, "idle")
  /\ node' = write[c]
  /\ UNCHANGED <<write, owners, lapsed, late, seal>>

(* The rows of nodes that are gone are deleted by hand.                    *)
DeleteRow ==
  /\ node # NoRow
  /\ RowHolders = {}
  /\ node' = NoRow
  /\ UNCHANGED <<pc, write, owners, lapsed, late, seal>>

-----------------------------------------------------------------------------
(* Seal: read the seal, lock the row, wait for the exclusive lock in a     *)
(* statement of its own, read the seal again, verify the drain, count the  *)
(* owners, count the previews whatever their lease, insert and commit.     *)
SealRead(s) ==
  /\ seal = NoSealer
  /\ Move(s, "idle", "reading")
  /\ UNCHANGED <<node, write, owners, lapsed, late, seal>>

SealLockRow(s) ==
  /\ RowHolders = {}
  /\ Move(s, "reading", IF node = NoRow THEN "idle" ELSE "row")
  /\ UNCHANGED <<node, write, owners, lapsed, late, seal>>

SealLockAdmission(s) ==
  /\ ExclusiveHolders = {}
  /\ SharedHolders = {}
  /\ Move(s, "row", "exclusive")
  /\ UNCHANGED <<node, write, owners, lapsed, late, seal>>

SealReread(s) ==
  /\ Move(s, "exclusive", IF seal = NoSealer THEN "unsealed" ELSE "idle")
  /\ UNCHANGED <<node, write, owners, lapsed, late, seal>>

(* The freshness of the heartbeat and the deployment's drain event may     *)
(* fail the check as well: Abort covers them.                              *)
SealEligible(s) ==
  /\ Move(s, "unsealed", IF node = [status |-> "draining", intent |-> "planned_rollout"]
                         THEN "eligible" ELSE "idle")
  /\ UNCHANGED <<node, write, owners, lapsed, late, seal>>

SealCountOwners_OnlyGuarded(s) ==
  /\ Move(s, "eligible", IF (owners \ lapsed) \cap Admissions = {} THEN "counted" ELSE "idle")
  /\ late' = {}
  /\ UNCHANGED <<node, write, owners, lapsed, seal>>

SealCountOwners(s) ==
  /\ Move(s, "eligible", IF owners \ lapsed = {} THEN "counted" ELSE "idle")
  /\ late' = {}
  /\ UNCHANGED <<node, write, owners, lapsed, seal>>

SealCountPreviews(s) ==
  /\ Move(s, "counted", IF owners \cap Previews = {} THEN "ready" ELSE "idle")
  /\ UNCHANGED <<node, write, owners, lapsed, late, seal>>

SealCommit(s) ==
  /\ seal = NoSealer
  /\ Move(s, "ready", "idle")
  /\ seal' = s
  /\ UNCHANGED <<node, write, owners, lapsed, late>>

(* A failing statement, a lost connection or a cancelled context rolls the *)
(* transaction back.                                                       *)
Abort(p) ==
  /\ pc[p] # "idle"
  /\ pc' = [pc EXCEPT ![p] = "idle"]
  /\ UNCHANGED <<node, write, owners, lapsed, late, seal>>

-----------------------------------------------------------------------------
SealNext ==
  \/ \E a \in Admissions :
       AdmitBegin(a) \/ AdmitForeignKey(a) \/ AdmitCommit(a)
  \/ \E u \in Unguarded : WriteUnguarded(u)
  \/ \E o \in Admissions \cup Unguarded : OwnerEnds(o)
  \/ \E o \in Previews \cup Holders : LeaseLapses(o)
  \/ \E a \in Previews : PreviewRenews(a)
  \/ \E p \in Admissions \cup Controllers : TakeShared(p) \/ CheckSeal(p)
  \/ \E c \in Controllers :
       \/ ControlBegin(c) \/ ControlGuard(c) \/ ControlCommit(c)
       \/ RegisterBegin(c) \/ RegisterRow(c)
  \/ DeleteRow
  \/ \E s \in Sealers :
       \/ SealRead(s) \/ SealLockRow(s) \/ SealLockAdmission(s) \/ SealReread(s)
       \/ SealEligible(s) \/ SealCountOwners(s) \/ SealCountPreviews(s) \/ SealCommit(s)
  \/ \E p \in Processes : Abort(p)

SealSpec == SealInit /\ [][SealNext]_sealVars

-----------------------------------------------------------------------------
AdmissionStates == {"idle", "waiting", "locked", "admitted", "fkwait"}
ControlStates ==
  {"idle", "row", "waiting", "locked", "admitted", "storing", "enter", "entered",
   "registering", "registered"}
SealerStates ==
  {"idle", "reading", "row", "exclusive", "unsealed", "eligible", "counted", "ready"}

(* Types of the sealing protocol: every transaction is at a statement of   *)
(* its own kind, and only previews and holders have a lease that lapses.   *)
SealTypeOK ==
  /\ pc \in [Processes -> AdmissionStates \cup ControlStates \cup SealerStates]
  /\ \A a \in Admissions : pc[a] \in AdmissionStates
  /\ \A c \in Controllers : pc[c] \in ControlStates
  /\ \A s \in Sealers : pc[s] \in SealerStates
  /\ node \in NodeRows \cup {NoRow}
  /\ write \in [Controllers -> NodeRows]
  /\ owners \subseteq Admissions \cup Unguarded
  /\ lapsed \subseteq owners \cap (Previews \cup Holders)
  /\ late \subseteq Unguarded
  /\ seal \in Sealers \cup {NoSealer}

(* Once a seal is committed no job and no preview is owned by the          *)
(* generation, and no admission of one commits any more: admissions that   *)
(* held the shared lock were counted, later ones see the seal (Seal,       *)
(* check_worker_retirement_admission).  It says nothing of the owners that *)
(* have no trigger: UncountedOwnersAreLate does.                           *)
SealExcludesOwners == seal # NoSealer => owners \cap Admissions = {}

(* An executor, turn hold, upload or live sandbox holder that a sealed     *)
(* generation owns was written after Seal counted the owners: none that    *)
(* WorkerDeployStatus could have seen is left out of the count.            *)
UncountedOwnersAreLate == seal # NoSealer => owners \ lapsed \subseteq late

(* A sealed generation never becomes active again and never loses its      *)
(* drain intent, whatever registrations, heartbeats and resumes were under *)
(* way when it was sealed, and even after its row was deleted              *)
(* (guard_worker_retirement_node).                                         *)
SealedStaysDrained ==
  seal # NoSealer => node = NoRow \/ (node.status # "active" /\ node.intent # "none")

(* The drain that a seal was granted for still stands when the seal        *)
(* commits: no control write came between the eligibility query and the    *)
(* commit of Seal, nor is there ever a second seal.                        *)
SealRestsOnDrain ==
  [][seal' # seal =>
       /\ seal = NoSealer
       /\ node = [status |-> "draining", intent |-> "planned_rollout"]
       /\ node' = node]_sealVars

(* A transaction that waits for a lock another one holds, or has queued    *)
(* for before it.                                                          *)
Blocked(p) ==
  \/ /\ p \in Admissions \cup Controllers
     /\ pc[p] \in {"waiting", "enter"}
     /\ ExclusiveHolders # {} \/ \E s \in Sealers : pc[s] = "row"
  \/ p \in Admissions /\ pc[p] = "fkwait" /\ KeyShareExcluded
  \/ p \in Sealers /\ pc[p] = "reading" /\ RowHolders # {}
  \/ p \in Sealers /\ pc[p] = "row" /\ SharedHolders \cup ExclusiveHolders # {}

(* Admissions, updates of the node row and sealers never wait for each     *)
(* other in a circle, even if the advisory lock queues new readers behind  *)
(* a waiting sealer: whenever transactions are open, one of them can go on *)
(* (the lock order explained in Seal).  A registration counts as one that  *)
(* can: it holds the shared lock while it waits for the row, and only the  *)
(* deadlock detector of PostgreSQL parts it from a sealer.                 *)
NoLockCycle ==
  LET open == {p \in Processes : pc[p] # "idle"}
  IN open # {} => \E p \in open : ~Blocked(p)
=============================================================================
