------------------------- MODULE ThreadInboxProofs --------------------------
EXTENDS ThreadInboxLemmas

USE SMTT(30), ZenonT(30)

(* A statement that rewrites one row of thread_runtimes.                   *)
LEMMA OneRow ==
  ASSUME RowTypes, NEW r \in Runtimes, NEW x \in Runtime, rt' = [rt EXCEPT ![r] = x]
  PROVE  rt' \in [Runtimes -> Runtime] /\ rt'[r] = x /\ \A q \in Runtimes \ {r} : rt'[q] = rt[q]
BY DEF RowTypes

(* A statement that sets one entry.                                        *)
LEMMA OneEntry ==
  ASSUME RowTypes, NEW e \in Entries, NEW x \in Entry, entry' = [entry EXCEPT ![e] = x]
  PROVE  entry' \in [Entries -> Entry] /\ entry'[e] = x /\ \A f \in Entries \ {e} : entry'[f] = entry[f]
BY DEF RowTypes

(* The state of one entry is set.                                          *)
LEMMA OneState ==
  ASSUME RowTypes, NEW e \in Entries, NEW st \in States, entry' = [entry EXCEPT ![e].st = st]
  PROVE  /\ entry' \in [Entries -> Entry] /\ entry'[e].st = st /\ entry'[e].rt = entry[e].rt
         /\ \A f \in Entries \ {e} : entry'[f] = entry[f]
<1>1. PICK x : x = [entry[e] EXCEPT !.st = st]
  BY Zenon
<1>2. x \in Entry /\ x.st = st /\ x.rt = entry[e].rt
  BY <1>1 DEF RowTypes, Entry
<1>3. entry' = [entry EXCEPT ![e] = x]
  BY <1>1 DEF RowTypes
<1> QED
  BY <1>2, <1>3, OneEntry, Zenon

(* A runtime changes its state or its expiry and keeps its watermarks.     *)
SameMarks(r) ==
  rt'[r].node = rt[r].node /\ rt'[r].deliv = rt[r].deliv /\ rt'[r].acked = rt[r].acked

LEMMA Expiry ==
  ASSUME RowTypes, NEW r \in Runtimes, NEW b \in BOOLEAN, rt' = [rt EXCEPT ![r].expired = b]
  PROVE  /\ rt' \in [Runtimes -> Runtime] /\ SameMarks(r) /\ rt'[r].st = rt[r].st
         /\ \A q \in Runtimes \ {r} : rt'[q] = rt[q]
<1>1. PICK x : x = [rt[r] EXCEPT !.expired = b]
  BY Zenon
<1>2. x \in Runtime /\ x.st = rt[r].st /\ x.node = rt[r].node /\ x.deliv = rt[r].deliv /\ x.acked = rt[r].acked
  BY <1>1 DEF RowTypes, Runtime
<1>3. rt' = [rt EXCEPT ![r] = x]
  BY <1>1 DEF RowTypes
<1> QED
  BY <1>2, <1>3, OneRow, Zenon DEF SameMarks

LEMMA RowOver ==
  ASSUME RowTypes, NEW r \in Runtimes, rt' = [rt EXCEPT ![r].st = "over"]
  PROVE  /\ rt' \in [Runtimes -> Runtime] /\ SameMarks(r) /\ rt'[r].st = "over"
         /\ \A q \in Runtimes \ {r} : rt'[q] = rt[q]
<1>1. PICK x : x = [rt[r] EXCEPT !.st = "over"]
  BY Zenon
<1>2. x \in Runtime /\ x.st = "over" /\ x.node = rt[r].node /\ x.deliv = rt[r].deliv /\ x.acked = rt[r].acked
  BY <1>1 DEF RowTypes, Runtime
<1>3. rt' = [rt EXCEPT ![r] = x]
  BY <1>1 DEF RowTypes
<1> QED
  BY <1>2, <1>3, OneRow, Zenon DEF SameMarks

(* A claim that a step makes or changes is one of an active runtime.       *)
ClaimsOfActive ==
  \A e \in Entries : entry'[e].st \in {"delivering", "delivered"} =>
    entry'[e] = entry[e] \/ (entry'[e].rt \in Runtimes /\ Active(entry'[e].rt))

SameActive == \A r \in Runtimes : rt'[r].st \in {"starting", "live"} <=> Active(r)

(* A step that ends and starts no runtime.                                 *)
LEMMA RowsStay ==
  ASSUME Rows, RowTypes', SameActive, ClaimsOfActive
  PROVE  Rows'
<1>1. 0 \notin Runtimes
  BY DEF Runtimes
<1>2. ClaimsHaveOwners'
  <2> SUFFICES ASSUME NEW e \in Entries, entry'[e].st \in {"delivering", "delivered"}
               PROVE  entry'[e].rt # 0 /\ rt'[entry'[e].rt].st \in {"starting", "live"}
    BY DEF ClaimsHaveOwners, Active
  <2>1. entry'[e].rt \in Runtimes \union {0}
    BY DEF RowTypes, Entry
  <2>2. entry'[e].rt # 0 /\ Active(entry'[e].rt)
    BY <1>1 DEF ClaimsOfActive, Rows, ClaimsHaveOwners
  <2> QED
    BY <2>1, <2>2 DEF SameActive
<1>3. OneActive'
  BY DEF Rows, OneActive, SameActive, Active
<1> QED
  BY <1>2, <1>3 DEF Rows

(* A step that ends the runtimes R, and may start a new one.               *)
LEMMA RowsReleased ==
  ASSUME Rows, NEW R \in SUBSET Runtimes, RowTypes', entry' = Released(R),
         \A q \in Runtimes : Active(q) /\ q \notin R => rt'[q].st \in {"starting", "live"},
         \A q, r \in Runtimes : rt'[q].st \in {"starting", "live"} /\ rt'[r].st \in {"starting", "live"}
           => q = r
  PROVE  Rows'
<1>1. 0 \notin Runtimes
  BY DEF Runtimes
<1>2. \A e \in Entries :
         \/ entry'[e] = entry[e] /\ ~(entry[e].rt \in R /\ entry[e].st \in {"delivering", "delivered"})
         \/ entry[e].st = "delivering" /\ entry'[e].st = "pending" /\ entry'[e].rt = 0
         \/ entry[e].st = "delivered" /\ entry'[e].st = "unknown_delivery" /\ entry'[e].rt = entry[e].rt
  <2>1. RowTypes
    BY DEF Rows
  <2> QED
    BY <2>1, ReleasedOK
<1>3. ClaimsHaveOwners'
  <2> SUFFICES ASSUME NEW e \in Entries, entry'[e].st \in {"delivering", "delivered"}
               PROVE  entry'[e].rt # 0 /\ rt'[entry'[e].rt].st \in {"starting", "live"}
    BY DEF ClaimsHaveOwners, Active
  <2>1. entry'[e] = entry[e] /\ entry[e].rt \notin R
    BY <1>2
  <2>2. entry[e].rt # 0 /\ Active(entry[e].rt) /\ entry[e].rt \in Runtimes
    BY <2>1 DEF Rows, ClaimsHaveOwners, RowTypes, Entry
  <2> QED
    BY <2>1, <2>2
<1>4. OneActive'
  BY DEF OneActive, Active
<1> QED
  BY <1>3, <1>4 DEF Rows

(* Appending the next entry claims nothing.                                *)
LEMMA AppendRows ==
  ASSUME InboxType, Rows, NEW e \in Entries, Append(e)
  PROVE  Rows'
<1>1. /\ entry' \in [Entries -> Entry] /\ entry'[e].st = "pending"
      /\ \A f \in Entries \ {e} : entry'[f] = entry[f]
  BY OneState, Zenon DEF Append, States, InboxType
<1>2. rt' = rt
  BY DEF Append
<1>3. RowTypes' /\ SameActive /\ ClaimsOfActive
  BY <1>1, <1>2 DEF Rows, RowTypes, SameActive, Active, ClaimsOfActive
<1> QED
  BY <1>3, RowsStay

(* Statements that claim, resolve or replay entries and leave the runtimes *)
(* as they are.                                                            *)
LEMMA EntryRows ==
  ASSUME InboxType, Rows,
         \/ \E r \in Runtimes : ClaimSeeds(r)
         \/ \E n \in Nodes : Claim(n)
         \/ CancelThread
         \/ \E e \in Entries : RetryRecoverable(e)
  PROVE  Rows'
<1> USE DEF Rows, InboxType
<1>0. rt' = rt
  BY Zenon DEF ClaimSeeds, Claim, CancelThread, RetryRecoverable
<1> DEFINE Good == /\ entry' \in [Entries -> Entry]
                   /\ ClaimsOfActive
<1>1. ASSUME NEW r \in Runtimes, NEW S, Leased(r) \/ S = {},
             \A e \in S : entry[e].st \in {"pending", "delivering"},
             entry' = [e \in Entries |-> IF e \in S THEN [st |-> "delivering", rt |-> r] ELSE entry[e]]
      PROVE  Good
  <2>1. [st |-> "delivering", rt |-> r] \in Entry
    BY DEF Entry, States
  <2>2. entry' \in [Entries -> Entry]
    BY <1>1, <2>1 DEF RowTypes
  <2> QED
    BY <1>1, <2>2 DEF ClaimsOfActive, Leased
<1>2. ASSUME NEW r \in Runtimes, ClaimSeeds(r) PROVE Good
  <2> DEFINE S == {e \in Entries : Leased(r) /\ e \in seeds[r] /\ entry[e].st = "pending"}
  <2>1. /\ Leased(r) \/ S = {}
        /\ \A e \in S : entry[e].st \in {"pending", "delivering"}
        /\ entry' = [e \in Entries |-> IF e \in S THEN [st |-> "delivering", rt |-> r] ELSE entry[e]]
    BY <1>2 DEF ClaimSeeds
  <2> QED
    BY <2>1, <1>1, Zenon
<1>3. ASSUME NEW n \in Nodes, Claim(n) PROVE Good
  <2>1. PICK r : r = poll[n].rt
    OBVIOUS
  <2>2. r \in Runtimes
    BY <1>3, <2>1 DEF Claim, PollTypes
  <2>3. Leased(r)
    BY <1>3, <2>1 DEF Claim
  <2>4. PICK S \in SUBSET Deliverable(r) :
           entry' = [e \in Entries |-> IF e \in S THEN [st |-> "delivering", rt |-> r] ELSE entry[e]]
    BY <1>3, <2>1 DEF Claim
  <2>5. \A e \in S : entry[e].st \in {"pending", "delivering"}
    BY <2>4 DEF Deliverable
  <2> QED
    BY <2>2, <2>3, <2>4, <2>5, <1>1
<1>4. ASSUME CancelThread PROVE Good
  <2>1. [st |-> "dead_letter", rt |-> 0] \in Entry
    BY DEF Entry, States
  <2>2. entry' \in [Entries -> Entry]
    BY <1>4, <2>1 DEF CancelThread, RowTypes
  <2> QED
    BY <1>4, <2>2 DEF CancelThread, ClaimsOfActive, Unresolved
<1>5. ASSUME NEW e \in Entries, RetryRecoverable(e) PROVE Good
  <2>1. [st |-> "pending", rt |-> 0] \in Entry
    BY DEF Entry, States
  <2>2. /\ entry' \in [Entries -> Entry] /\ entry'[e] = [st |-> "pending", rt |-> 0]
        /\ \A f \in Entries \ {e} : entry'[f] = entry[f]
    BY <1>5, <2>1, OneEntry, Zenon DEF RetryRecoverable
  <2> QED
    BY <2>2 DEF ClaimsOfActive
<1>6. Good
  BY <1>2, <1>3, <1>4, <1>5
<1>7. RowTypes' /\ SameActive
  BY <1>0, <1>6 DEF RowTypes, SameActive, Active
<1> QED
  BY <1>6, <1>7, RowsStay

(* The repair of the watermarks at the start of a poll, and their advance  *)
(* over a dead letter, are the same move.                                  *)
LEMMA Advance ==
  ASSUME RowTypes, NEW r \in Runtimes, NEW m \in Nat,
         NEW d, d = Max({rt[r].deliv, m}),
         NEW x, x = [rt[r] EXCEPT !.deliv = d, !.acked = m],
         rt' = [rt EXCEPT ![r] = x]
  PROVE  /\ rt' \in [Runtimes -> Runtime]
         /\ rt'[r].st = rt[r].st /\ rt'[r].node = rt[r].node /\ rt'[r].acked = m
         /\ \A q \in Runtimes \ {r} : rt'[q] = rt[q]
<1>1. rt[r].deliv \in Nat
  BY DEF RowTypes, Runtime
<1>2. d \in Nat
  BY <1>1, Later
<1>3. x \in Runtime /\ x.st = rt[r].st /\ x.node = rt[r].node /\ x.acked = m
  BY <1>2, Zenon DEF RowTypes, Runtime
<1> QED
  BY <1>3, OneRow, Zenon

(* Only the delivery watermark is set.                                     *)
LEMMA DelivMark ==
  ASSUME RowTypes, NEW r \in Runtimes, NEW d \in Nat, rt' = [rt EXCEPT ![r].deliv = d]
  PROVE  /\ rt' \in [Runtimes -> Runtime]
         /\ rt'[r].st = rt[r].st /\ rt'[r].node = rt[r].node /\ rt'[r].acked = rt[r].acked
         /\ \A q \in Runtimes \ {r} : rt'[q] = rt[q]
<1>1. PICK x : x = [rt[r] EXCEPT !.deliv = d]
  BY Zenon
<1>2. x \in Runtime /\ x.st = rt[r].st /\ x.node = rt[r].node /\ x.acked = rt[r].acked
  BY <1>1 DEF RowTypes, Runtime
<1>3. rt' = [rt EXCEPT ![r] = x]
  BY <1>1 DEF RowTypes
<1> QED
  BY <1>2, <1>3, OneRow, Zenon

(* The handle is attached: the row becomes live and its lease is new.      *)
LEMMA MarkLive ==
  ASSUME RowTypes, NEW r \in Runtimes, rt' = [rt EXCEPT ![r].st = "live", ![r].expired = FALSE]
  PROVE  /\ rt' \in [Runtimes -> Runtime] /\ SameMarks(r) /\ rt'[r].st = "live"
         /\ \A q \in Runtimes \ {r} : rt'[q] = rt[q]
<1>1. PICK x : x = [rt[r] EXCEPT !.st = "live", !.expired = FALSE]
  OBVIOUS
<1>2. x \in Runtime /\ x.st = "live" /\ x.node = rt[r].node /\ x.deliv = rt[r].deliv /\ x.acked = rt[r].acked
  BY <1>1, Zenon DEF RowTypes, Runtime
<1>3. rt' = [rt EXCEPT ![r] = x]
  BY <1>1, Zenon DEF RowTypes
<1> QED
  BY <1>2, <1>3, OneRow, Zenon DEF SameMarks

(* Statements on a runtime's row alone: its active state and its node stay,*)
(* and its watermark does not go back.                                     *)
LEMMA RuntimeRows ==
  ASSUME InboxType, Rows,
         \/ \E r \in Runtimes : Attach(r) \/ Heartbeat(r) \/ LeaseRunsOut(r)
         \/ \E n \in Nodes, r \in Runtimes : PollBegins(n, r)
  PROVE  /\ Rows'
         /\ \A q \in Runtimes : \/ rt'[q].acked = rt[q].acked
                                \/ rt'[q].acked = LastAcknowledged /\ rt'[q].acked > rt[q].acked
<1> USE DEF Rows, InboxType
<1>0. entry' = entry
  BY Zenon DEF Attach, Heartbeat, LeaseRunsOut, PollBegins
<1> DEFINE Good == /\ rt' \in [Runtimes -> Runtime]
                   /\ SameActive
                   /\ \A q \in Runtimes : \/ rt'[q].acked = rt[q].acked
                                          \/ rt'[q].acked = LastAcknowledged /\ rt'[q].acked > rt[q].acked
<1>1. ASSUME NEW r \in Runtimes, Attach(r) PROVE Good
  <2>1. CASE rt' = rt
    BY <2>1 DEF RowTypes, SameActive, Active
  <2>2. CASE Active(r) /\ rt' = [rt EXCEPT ![r].st = "live", ![r].expired = FALSE]
    BY <2>2, MarkLive, Zenon DEF SameMarks, SameActive, Active
  <2> QED
    BY <1>1, <2>1, <2>2, Zenon DEF Attach
<1>2. ASSUME NEW r \in Runtimes, NEW b \in BOOLEAN, rt' = [rt EXCEPT ![r].expired = b] PROVE Good
  BY <1>2, Expiry, Zenon DEF SameMarks, SameActive, Active
<1>3. ASSUME NEW r \in Runtimes, Heartbeat(r) \/ LeaseRunsOut(r) PROVE Good
  BY <1>2, <1>3, Zenon DEF Heartbeat, LeaseRunsOut
<1>4. ASSUME NEW n \in Nodes, NEW r \in Runtimes, PollBegins(n, r) PROVE Good
  <2>1. PICK m : m = LastAcknowledged
    OBVIOUS
  <2>2. m \in Nat
    BY <2>1, PrefixEnd
  <2>3. CASE rt' = rt
    BY <2>3 DEF RowTypes, SameActive, Active
  <2>4. CASE m > rt[r].acked /\ rt' = [rt EXCEPT ![r].deliv = Max({@, m}), ![r].acked = m]
    <3>1. PICK d : d = Max({rt[r].deliv, m})
      OBVIOUS
    <3>2. PICK x : x = [rt[r] EXCEPT !.deliv = d, !.acked = m]
      OBVIOUS
    <3>3. rt' = [rt EXCEPT ![r] = x]
      BY <2>4, <3>1, <3>2, Zenon DEF RowTypes
    <3>4. /\ rt' \in [Runtimes -> Runtime]
          /\ rt'[r].st = rt[r].st /\ rt'[r].acked = m
          /\ \A q \in Runtimes \ {r} : rt'[q] = rt[q]
      BY <2>2, <3>1, <3>2, <3>3, Advance, ZenonT(30)
    <3> QED
      BY <2>1, <2>4, <3>4 DEF SameActive, Active
  <2> QED
    BY <1>4, <2>1, <2>3, <2>4, Zenon DEF PollBegins
<1>5. Good
  BY <1>1, <1>3, <1>4
<1>6. RowTypes'
  BY <1>0, <1>5 DEF RowTypes
<1>7. ClaimsOfActive
  BY <1>0 DEF ClaimsOfActive
<1> QED
  BY <1>0, <1>5, <1>6, <1>7, RowsStay

(* Steps in the memory of the nodes leave the rows alone.                  *)
LEMMA QuietRows ==
  ASSUME InboxType, Rows, UNCHANGED <<entry, rt>>
  PROVE  Rows'
BY DEF Rows, RowTypes, ClaimsHaveOwners, OneActive, Active

(* The row of a runtime that starts.                                       *)
StartRow(n, last) ==
  [st |-> "starting", node |-> n, expired |-> FALSE, deliv |-> last, acked |-> last]

(* A run starts: it replaces the runtimes whose lease ran out and begins   *)
(* at the end of the resolved prefix.                                      *)
LEMMA StartRows ==
  ASSUME InboxType, Rows, NEW n \in Nodes, NEW r \in Runtimes, NEW S, CreateStarting(n, r, S)
  PROVE  /\ Rows'
         /\ rt'[r].acked = LastAcknowledged
         /\ \A q \in Runtimes \ {r} : ~(rt'[q].st \in {"starting", "live"})
<1> USE DEF Rows, InboxType
<1> DEFINE old == {q \in Runtimes : Active(q)}
<1>1. PICK m : m = LastAcknowledged
  OBVIOUS
<1>2. m \in Nat
  BY <1>1, PrefixEnd
<1>3. PICK x : x = StartRow(n, m)
  OBVIOUS
<1>4. x \in Runtime /\ x.st = "starting" /\ x.acked = m
  BY <1>2, <1>3 DEF StartRow, Runtime
<1>5. PICK over : over = [q \in Runtimes |-> [rt[q] EXCEPT !.st = "over"]]
  BY Zenon
<1>6. \A q \in Runtimes : over[q] \in Runtime /\ over[q].st = "over"
  BY <1>5 DEF RowTypes, Runtime
<1>7. rt' = [q \in Runtimes |-> IF q = r THEN x ELSE IF q \in old THEN over[q] ELSE rt[q]]
  BY <1>1, <1>3, <1>5 DEF CreateStarting, StartRow
<1>8. rt' \in [Runtimes -> Runtime] /\ rt'[r] = x
  BY <1>4, <1>6, <1>7 DEF RowTypes
<1>9. \A q \in Runtimes \ {r} : ~(rt'[q].st \in {"starting", "live"})
  BY <1>6, <1>7 DEF Active
<1>10. entry' = Released(old)
  BY DEF CreateStarting
<1>11. entry' \in [Entries -> Entry]
  BY <1>10, ReleasedOK
<1>12. RowTypes' /\ old \in SUBSET Runtimes
  BY <1>8, <1>11 DEF RowTypes
<1>13. \A q, p \in Runtimes : rt'[q].st \in {"starting", "live"} /\ rt'[p].st \in {"starting", "live"} => q = p
  BY <1>9
<1>14. \A q \in Runtimes : Active(q) /\ q \notin old => rt'[q].st \in {"starting", "live"}
  OBVIOUS
<1>15. Rows'
  <2> HIDE DEF old, Rows
  <2> QED
    BY <1>10, <1>12, <1>13, <1>14, RowsReleased
<1> QED
  BY <1>1, <1>4, <1>8, <1>9, <1>15

(* A runtime ends: by its own close or by the reaper.                      *)
LEMMA EndRows ==
  ASSUME InboxType, Rows, NEW r \in Runtimes, rt' = [rt EXCEPT ![r].st = "over"],
         entry' = Released({r})
  PROVE  /\ Rows'
         /\ rt'[r].st = "over" /\ \A q \in Runtimes \ {r} : rt'[q] = rt[q]
<1>1. RowTypes /\ OneActive
  BY DEF Rows
<1>2. /\ rt' \in [Runtimes -> Runtime] /\ rt'[r].st = "over"
      /\ \A q \in Runtimes \ {r} : rt'[q] = rt[q]
  BY <1>1, RowOver, Zenon
<1>3. RowTypes'
  BY <1>1, <1>2, ReleasedOK DEF RowTypes
<1>4. \A q, p \in Runtimes : rt'[q].st \in {"starting", "live"} /\ rt'[p].st \in {"starting", "live"} => q = p
  BY <1>1, <1>2 DEF OneActive, Active
<1>5. {r} \in SUBSET Runtimes /\ \A q \in Runtimes : Active(q) /\ q \notin {r} => rt'[q].st \in {"starting", "live"}
  BY <1>2 DEF Active
<1>6. Rows'
  BY <1>3, <1>4, <1>5, RowsReleased
<1> QED
  BY <1>2, <1>6

(* A commit of confirmed input, from a flush or from a close.              *)
LEMMA CommitRows ==
  ASSUME InboxType, Rows, NEW r \in Runtimes, NEW S \in SUBSET Entries, S # {}, Commit(r, Max(S), S)
  PROVE  Rows'
<1>1. RowTypes /\ HistoryTypes
  BY DEF InboxType, Rows
<1>2. /\ RowTypes'
      /\ \A e \in Entries : IF e \in S THEN entry[e].st \in {"delivered", "acked", "unknown_delivery"}
                                           /\ entry'[e].st = "acked" /\ entry'[e].rt = r
                                      ELSE entry'[e] = entry[e]
      /\ \A q \in Runtimes \ {r} : rt'[q] = rt[q]
      /\ rt'[r].st = rt[r].st
  BY <1>1, CommitOK
<1>3. SameActive
  BY <1>2 DEF SameActive, Active
<1>4. ClaimsOfActive
  BY <1>2 DEF ClaimsOfActive
<1> QED
  BY <1>2, <1>3, <1>4, RowsStay

(* The seeds become applied in one transaction, and the watermark moves to *)
(* the last of them.                                                       *)
LEMMA SeedRows ==
  ASSUME InboxType, Rows, NEW r \in Runtimes, StartSeedPhase(r)
  PROVE  /\ Rows'
         /\ \A q \in Runtimes \ {r} : rt'[q] = rt[q]
         /\ rt'[r].acked \in seeds[r] /\ seeds[r] = (rt[r].acked + 1)..rt'[r].acked
         /\ \A e \in Entries : IF e \in seeds[r]
                               THEN entry'[e].st = "acked" /\ entry[e].st \in {"pending", "delivering"}
                               ELSE entry'[e] = entry[e]
<1>1. RowTypes /\ HistoryTypes /\ seeds[r] \in SUBSET Entries /\ seeds[r] # {}
  BY DEF InboxType, Rows, RunTypes, StartSeedPhase
<1>2. PICK S : S = seeds[r]
  OBVIOUS
<1>3. PICK m : m = Max(S)
  OBVIOUS
<1>4. m \in S /\ m \in Nat
  <2>1. m \in S
    BY <1>1, <1>2, <1>3, EntryBounds
  <2> QED
    BY <1>1, <1>2, <2>1 DEF Entries
<1>5. S = (rt[r].acked + 1)..m
  BY <1>2, <1>3 DEF StartSeedPhase
<1>6. PICK d : d = Max({rt[r].deliv, m})
  OBVIOUS
<1>7. d \in Nat
  <2>1. rt[r].deliv \in Nat
    BY <1>1 DEF RowTypes, Runtime
  <2> QED
    BY <1>4, <1>6, <2>1, Later
<1>8. PICK x : x = [rt[r] EXCEPT !.acked = m, !.deliv = d]
  OBVIOUS
<1>9. x \in Runtime /\ x.st = rt[r].st /\ x.acked = m
  BY <1>1, <1>4, <1>7, <1>8, Zenon DEF RowTypes, Runtime
<1>10. rt' = [rt EXCEPT ![r] = x]
  BY <1>1, <1>2, <1>3, <1>6, <1>8, Zenon DEF StartSeedPhase, RowTypes
<1>11. rt' \in [Runtimes -> Runtime] /\ rt'[r] = x /\ \A q \in Runtimes \ {r} : rt'[q] = rt[q]
  BY <1>1, <1>9, <1>10, OneRow, Zenon
<1>12. [st |-> "acked", rt |-> r] \in Entry
  BY DEF Entry, States
<1>13. /\ entry' \in [Entries -> Entry]
       /\ \A e \in Entries : entry'[e] = IF e \in S THEN [st |-> "acked", rt |-> r] ELSE entry[e]
       /\ \A e \in S : entry[e].st \in {"pending", "delivering"}
  BY <1>1, <1>2, <1>12 DEF StartSeedPhase, RowTypes
<1>14. RowTypes' /\ SameActive
  BY <1>9, <1>11, <1>13 DEF RowTypes, SameActive, Active
<1>15. ClaimsOfActive
  BY <1>13 DEF ClaimsOfActive
<1>16. Rows'
  BY <1>14, <1>15, RowsStay
<1> QED
  BY <1>2, <1>4, <1>5, <1>9, <1>11, <1>13, <1>16

(* The three statements of a poll on one entry: it is marked before the    *)
(* write, taken back after a refused one, or declared dead.                *)
LEMMA DeliveryRows ==
  ASSUME InboxType, Rows, NEW n \in Nodes, MarkDelivered(n) \/ ResetUnsent(n) \/ DeadLetter(n)
  PROVE  /\ Rows'
         /\ Min(poll[n].todo) \in poll[n].todo /\ poll[n].rt \in Runtimes
         /\ \A q \in Runtimes : \/ rt'[q].acked = rt[q].acked
                                \/ /\ DeadLetter(n) /\ q = poll[n].rt
                                   /\ rt'[q].acked = Min(poll[n].todo) /\ rt'[q].acked = rt[q].acked + 1
         /\ \A f \in Entries \ {Min(poll[n].todo)} : entry'[f] = entry[f]
         /\ entry'[Min(poll[n].todo)].rt = entry[Min(poll[n].todo)].rt
         /\ MarkDelivered(n) => /\ entry[Min(poll[n].todo)].st = "delivering"
                                /\ entry'[Min(poll[n].todo)].st = "delivered"
         /\ ResetUnsent(n) => /\ entry[Min(poll[n].todo)].st = "delivered"
                              /\ entry'[Min(poll[n].todo)].st = "delivering"
         /\ DeadLetter(n) => entry'[Min(poll[n].todo)].st = "dead_letter"
<1>1. RowTypes /\ HistoryTypes /\ poll[n].rt \in Runtimes /\ poll[n].todo # {}
  BY Zenon DEF InboxType, Rows, PollTypes, MarkDelivered, ResetUnsent, DeadLetter
<1>2. PICK e : e = Min(poll[n].todo)
  OBVIOUS
<1>3. e \in poll[n].todo /\ e \in Entries /\ e \in Nat
  BY <1>1, <1>2, NextOne
<1>4. PICK r : r = poll[n].rt
  OBVIOUS
<1>5. rt[r] \in Runtime /\ rt[r].deliv \in Nat /\ rt[r].acked \in Nat
  BY <1>1, <1>4 DEF RowTypes, Runtime
<1> DEFINE Good(st) ==
      /\ Rows'
      /\ \A f \in Entries \ {e} : entry'[f] = entry[f]
      /\ entry'[e].rt = entry[e].rt /\ entry'[e].st = st
<1>6. ASSUME NEW st \in {"delivering", "delivered", "dead_letter"},
             entry' = [entry EXCEPT ![e].st = st],
             rt' \in [Runtimes -> Runtime],
             rt'[r].st = rt[r].st, \A q \in Runtimes \ {r} : rt'[q] = rt[q],
             st # "dead_letter" => /\ entry[e].st \in {"delivering", "delivered"}
                                   /\ entry[e].rt = r /\ Active(r)
      PROVE  Good(st)
  <2>1. /\ entry' \in [Entries -> Entry] /\ entry'[e].st = st /\ entry'[e].rt = entry[e].rt
        /\ \A f \in Entries \ {e} : entry'[f] = entry[f]
    BY <1>1, <1>3, <1>6, OneState, Zenon DEF States
  <2>2. RowTypes' /\ SameActive
    BY <1>6, <2>1 DEF RowTypes, SameActive, Active
  <2>3. ClaimsOfActive
    BY <1>1, <1>4, <1>6, <2>1 DEF ClaimsOfActive
  <2> QED
    BY <2>1, <2>2, <2>3, RowsStay
<1>7. CASE MarkDelivered(n)
  <2>1. /\ entry[e].st = "delivering" /\ entry[e].rt = r /\ Active(r)
        /\ entry' = [entry EXCEPT ![e].st = "delivered"]
    BY <1>2, <1>4, <1>7 DEF MarkDelivered, Leased
  <2>2. PICK d : d = Max({rt[r].deliv, e})
    OBVIOUS
  <2>3. d \in Nat
    BY <1>3, <1>5, <2>2, Later
  <2>4. rt' = [rt EXCEPT ![r].deliv = d]
    BY <1>2, <1>4, <1>7, <2>2 DEF MarkDelivered
  <2>5. /\ rt' \in [Runtimes -> Runtime]
        /\ rt'[r].st = rt[r].st /\ rt'[r].acked = rt[r].acked
        /\ \A q \in Runtimes \ {r} : rt'[q] = rt[q]
    BY <1>1, <1>4, <2>3, <2>4, DelivMark, ZenonT(30)
  <2>6. Good("delivered")
    BY <2>1, <2>5, <1>6
  <2>7. ~ResetUnsent(n) /\ ~DeadLetter(n)
    BY <2>1, <2>6, <1>2, <1>7, Zenon DEF MarkDelivered, ResetUnsent, DeadLetter
  <2> QED
    BY <1>1, <1>2, <1>3, <2>1, <2>5, <2>6, <2>7
<1>8. CASE ResetUnsent(n)
  <2> DEFINE other == {f \in Entries : f # e /\ entry[f] = [st |-> "delivered", rt |-> r]}
  <2>1. /\ entry[e].st = "delivered" /\ entry[e].rt = r /\ Active(r)
        /\ entry' = [entry EXCEPT ![e].st = "delivering"]
    BY <1>2, <1>4, <1>8 DEF ResetUnsent, Leased
  <2>2. PICK d : d = Max({rt[r].acked} \union other)
    OBVIOUS
  <2>3. d \in Nat
    <3>1. /\ {rt[r].acked} \union other \in SUBSET Nat
          /\ {rt[r].acked} \union other # {}
          /\ rt[r].acked + MaxEntries \in Nat
          /\ \A y \in {rt[r].acked} \union other : y <= rt[r].acked + MaxEntries
      BY <1>5, InboxAssumption DEF Entries
    <3> HIDE DEF other
    <3>2. Max({rt[r].acked} \union other) \in {rt[r].acked} \union other
      BY <3>1, GreatestIsMax, ZenonT(30)
    <3> QED
      BY <3>1, <3>2, <2>2
  <2>4. rt' = [rt EXCEPT ![r].deliv = d]
    BY <1>2, <1>4, <1>8, <2>2 DEF ResetUnsent
  <2>5. /\ rt' \in [Runtimes -> Runtime]
        /\ rt'[r].st = rt[r].st /\ rt'[r].acked = rt[r].acked
        /\ \A q \in Runtimes \ {r} : rt'[q] = rt[q]
    BY <1>1, <1>4, <2>3, <2>4, DelivMark, ZenonT(30)
  <2>6. Good("delivering")
    BY <2>1, <2>5, <1>6
  <2>7. ~MarkDelivered(n) /\ ~DeadLetter(n)
    BY <2>1, <2>6, <1>2, <1>8 DEF MarkDelivered, ResetUnsent, DeadLetter
  <2> QED
    BY <1>1, <1>2, <1>3, <2>1, <2>5, <2>6, <2>7
<1>9. CASE DeadLetter(n)
  <2>1. /\ entry[e].st \in Unresolved
        /\ entry' = [entry EXCEPT ![e].st = "dead_letter"]
    BY <1>2, <1>4, <1>9, ZenonT(30) DEF DeadLetter
  <2>2. \/ rt' = rt
        \/ e = rt[r].acked + 1 /\ rt' = [rt EXCEPT ![r].deliv = Max({@, e}), ![r].acked = e]
    BY <1>2, <1>4, <1>9, Zenon DEF DeadLetter
  <2>3. /\ rt' \in [Runtimes -> Runtime]
        /\ rt'[r].st = rt[r].st
        /\ rt'[r].acked = rt[r].acked \/ (e = rt[r].acked + 1 /\ rt'[r].acked = e)
        /\ \A q \in Runtimes \ {r} : rt'[q] = rt[q]
    <3>1. CASE rt' = rt
      BY <1>1, <3>1 DEF RowTypes
    <3>2. CASE e = rt[r].acked + 1 /\ rt' = [rt EXCEPT ![r].deliv = Max({@, e}), ![r].acked = e]
      <4>0. RowTypes /\ r \in Runtimes /\ e \in Nat
        BY <1>1, <1>3, <1>4
      <4>1. PICK d : d = Max({rt[r].deliv, e})
        OBVIOUS
      <4>2. PICK x : x = [rt[r] EXCEPT !.deliv = d, !.acked = e]
        OBVIOUS
      <4>3. rt' = [rt EXCEPT ![r] = x]
        BY <4>0, <3>2, <4>1, <4>2, Zenon DEF RowTypes
      <4>4. /\ rt' \in [Runtimes -> Runtime]
            /\ rt'[r].st = rt[r].st /\ rt'[r].acked = e
            /\ \A q \in Runtimes \ {r} : rt'[q] = rt[q]
        BY <4>0, <4>1, <4>2, <4>3, Advance, ZenonT(30)
      <4> QED
        BY <3>2, <4>4
    <3> QED
      BY <2>2, <3>1, <3>2
  <2>4. Good("dead_letter")
    BY <2>1, <2>3, <1>6
  <2>5. ~MarkDelivered(n) /\ ~ResetUnsent(n)
    BY <2>1, <2>4, <1>2, <1>9, Zenon DEF MarkDelivered, ResetUnsent, DeadLetter
  <2> QED
    BY <1>1, <1>2, <1>3, <1>4, <1>9, <2>3, <2>4, <2>5
<1> QED
  BY <1>7, <1>8, <1>9, ZenonT(30)

(* A run that has not started leaves no trace, whatever the others do.     *)
LEMMA UnstartedStays ==
  ASSUME InboxType, Unstarted, InboxNext,
         \A r \in Runtimes : ctl'[r] = "none" => ctl[r] = "none" /\ receipt'[r] \in {receipt[r], NoReceipt},
         \A n \in Nodes : \/ poll'[n].rt \in {poll[n].rt, 0}
                          \/ poll'[n].rt \in Runtimes /\ Active(poll'[n].rt)
  PROVE  Unstarted'
<1> SUFFICES ASSUME NEW r \in Runtimes, ctl'[r] = "none"
             PROVE  /\ ~(rt'[r].st \in {"starting", "live"})
                    /\ receipt'[r] = NoReceipt
                    /\ \A n \in Nodes : poll'[n].rt # r
  BY DEF Unstarted, Active
<1>1. ctl[r] = "none" /\ ~Active(r) /\ receipt[r] = NoReceipt /\ \A n \in Nodes : poll[n].rt # r
  BY DEF Unstarted
<1>2. ~(rt'[r].st \in {"starting", "live"})
  <2> SUFFICES ASSUME rt'[r].st \in {"starting", "live"} PROVE FALSE
    OBVIOUS
  <2>1. PICK n \in Nodes, S \in SUBSET Entries : CreateStarting(n, r, S)
    BY <1>1, BornStarting
  <2>2. ctl'[r] # "none"
    BY <2>1 DEF CreateStarting, InboxType, RunTypes
  <2> QED
    BY <2>2
<1>3. 0 \notin Runtimes
  BY DEF Runtimes
<1> QED
  BY <1>1, <1>2, <1>3

(* The steps of a delivery.                                                *)
LEMMA PollMemory ==
  ASSUME InboxType, Memory, InboxNext, NEW n \in Nodes, PollStep(n)
  PROVE  Memory'
<1>1. RunTypes /\ PollTypes /\ HistoryTypes /\ Unstarted /\ ReceiptsAreSure
  BY DEF Memory
<1>2. /\ UNCHANGED <<ctl, seeds, reg, replays>>
      /\ FlushDone(n) \/ WriteAccepted(n) \/ receipt' = receipt
      /\ WriteAccepted(n) \/ WriteUncertain(n) \/ took' = took
      /\ WriteAccepted(n) \/ sure' = sure
  BY Zenon DEF PollStep, PollBegins, PollEnds, FlushDone, FlushFails, Claim, DeadLetter, MarkDelivered,
    WriteAccepted, WriteRefused, WriteUncertain, ResetUnsent
<1>3. /\ PollTypes'
      /\ \A k \in Nodes : \/ poll'[k].rt \in {poll[k].rt, 0}
                          \/ poll'[k].rt \in Runtimes /\ Active(poll'[k].rt)
  <2>1. CASE poll' = poll
    BY <1>1, <1>2, <2>1 DEF PollTypes
  <2>2. ASSUME NEW x, PollMove(n, x)
        PROVE  /\ PollTypes'
               /\ \A k \in Nodes : \/ poll'[k].rt \in {poll[k].rt, 0}
                                   \/ poll'[k].rt \in Runtimes /\ Active(poll'[k].rt)
    <3>1. PollOK(x) /\ poll' \in [Nodes -> Poll] /\ poll'[n] = x
          /\ \A k \in Nodes \ {n} : poll'[k] = poll[k]
      BY <1>1, <2>2 DEF PollMove, PollOK, PollTypes
    <3>2. PollTypes'
      BY <1>1, <1>2, <3>1 DEF PollOK, PollTypes
    <3> QED
      BY <2>2, <3>1, <3>2 DEF PollMove
  <2> QED
    BY <2>1, <2>2, PollMoves
<1>4. PICK e : e = Min(poll[n].todo)
  OBVIOUS
<1>5. ASSUME WriteAccepted(n) \/ WriteUncertain(n) PROVE e \in Entries /\ poll[n].rt \in Runtimes
  <2>1. poll[n].todo # {} /\ poll[n].rt \in Runtimes
    BY <1>1, <1>5 DEF PollTypes, WriteAccepted, WriteUncertain
  <2> QED
    BY <1>4, <2>1, NextOne
<1>6. HistoryTypes'
  <2>1. CASE WriteAccepted(n)
    BY <1>1, <1>2, <1>4, <1>5, <2>1 DEF WriteAccepted, HistoryTypes
  <2>2. CASE WriteUncertain(n)
    <3>1. PICK reached \in {0, 1} : took' = [took EXCEPT ![e] = @ + reached]
      BY <1>4, <2>2, Zenon DEF WriteUncertain
    <3>2. took' \in [Entries -> Nat]
      BY <1>1, <1>5, <2>2, <3>1 DEF HistoryTypes
    <3>3. sure' = sure
      BY <2>2 DEF WriteUncertain
    <3> QED
      BY <1>1, <1>2, <3>2, <3>3 DEF HistoryTypes
  <2> QED
    BY <1>1, <1>2, <2>1, <2>2 DEF HistoryTypes
<1>7. RunTypes' /\ ReceiptsAreSure' /\ \A r \in Runtimes : ctl[r] = "none" => receipt'[r] \in {receipt[r], NoReceipt}
  <2>1. CASE FlushDone(n)
    <3>1. receipt' = [receipt EXCEPT ![poll[n].rt] = NoReceipt] /\ sure' = sure
      BY <2>1 DEF FlushDone
    <3>2. NoReceipt \in Receipt /\ NoReceipt.seqs = {}
      BY DEF NoReceipt, Receipt
    <3>3. \A r \in Runtimes : receipt'[r] \in {receipt[r], NoReceipt}
      BY <1>1, <3>1 DEF RunTypes
    <3>4. receipt' \in [Runtimes -> Receipt]
      BY <1>1, <3>1, <3>2, Zenon DEF RunTypes
    <3> QED
      BY <1>1, <1>2, <3>1, <3>2, <3>3, <3>4 DEF RunTypes, ReceiptsAreSure
  <2>2. CASE WriteAccepted(n)
    <3>1. PICK r \in Runtimes : r = poll[n].rt
      BY <1>5, <2>2
    <3>2. receipt[r] \in Receipt
      BY <1>1 DEF RunTypes
    <3>3. PICK b : b = IF receipt[r] = NoReceipt THEN rt[r].acked ELSE receipt[r].before
      OBVIOUS
    <3>4. b \in Nat
      BY <3>2, <3>3 DEF InboxType, RowTypes, Runtime, Receipt
    <3>5. PICK x : x = [seqs |-> receipt[r].seqs \union {e}, before |-> b]
      BY ZenonT(30)
    <3>6. x \in Receipt /\ x.seqs = receipt[r].seqs \union {e} /\ x.seqs # {}
      BY <1>5, <2>2, <3>2, <3>4, <3>5 DEF Receipt
    <3>7. receipt' = [receipt EXCEPT ![r] = x]
      BY <1>1, <1>4, <2>2, <3>1, <3>3, <3>5 DEF WriteAccepted, RunTypes
    <3>8. receipt' \in [Runtimes -> Receipt] /\ receipt'[r] = x
          /\ \A q \in Runtimes \ {r} : receipt'[q] = receipt[q]
      BY <1>1, <3>6, <3>7 DEF RunTypes
    <3>9. sure' = [sure EXCEPT ![e] = TRUE]
      BY <1>4, <2>2 DEF WriteAccepted
    <3>10. \A f \in Entries : sure[f] \/ f = e => sure'[f]
      BY <1>1, <3>9 DEF HistoryTypes
    <3>11. RunTypes'
      BY <1>1, <1>2, <3>6, <3>8 DEF RunTypes
    <3>12. ReceiptsAreSure'
      <4> SUFFICES ASSUME NEW q \in Runtimes, NEW f \in receipt'[q].seqs PROVE sure'[f]
        BY DEF ReceiptsAreSure
      <4>1. f \in Entries
        BY <3>8 DEF Receipt
      <4>2. f \in receipt[q].seqs \/ f = e
        BY <3>6, <3>8
      <4> QED
        BY <1>1, <3>10, <4>1, <4>2 DEF ReceiptsAreSure
    <3>13. \A q \in Runtimes : ctl[q] = "none" => q # r
      BY <1>1, <3>1 DEF Unstarted
    <3> QED
      BY <3>8, <3>11, <3>12, <3>13
  <2>3. CASE receipt' = receipt /\ sure' = sure
    BY <1>1, <1>2, <2>3 DEF RunTypes, ReceiptsAreSure
  <2> QED
    BY <1>2, <2>1, <2>2, <2>3
<1>8. Unstarted'
  BY <1>1, <1>2, <1>3, <1>7, UnstartedStays
<1> QED
  BY <1>3, <1>6, <1>7, <1>8 DEF Memory

(* The steps of a run, of a node that dies or cleans up, and of the user.  *)
LEMMA RunMemory ==
  ASSUME InboxType, Memory, InboxNext,
         \/ \E r \in Runtimes : RuntimeStep(r)
         \/ \E n \in Nodes : StartRefused(n) \/ Crash(n)
         \/ \E e \in Entries : Append(e) \/ RetryRecoverable(e)
         \/ CancelThread
  PROVE  Memory'
<1>1. RunTypes /\ PollTypes /\ HistoryTypes /\ Unstarted /\ ReceiptsAreSure
  BY DEF Memory
<1>2. NoReceipt \in Receipt /\ NoReceipt.seqs = {}
  BY DEF NoReceipt, Receipt
<1>3. Idle \in Poll /\ Idle.pc = "idle" /\ Idle.rt = 0
  BY DEF Idle, Poll, PollStages
<1> DEFINE Good ==
      /\ ctl' \in [Runtimes -> Controls] /\ seeds' \in [Runtimes -> SUBSET Entries]
      /\ receipt' \in [Runtimes -> Receipt]
      /\ \A r \in Runtimes : receipt'[r] \in {receipt[r], NoReceipt}
      /\ \A r \in Runtimes : ctl'[r] = "none" => ctl[r] = "none"
      /\ reg' \in [Nodes -> {"none", "entry", "handle"}]
      /\ poll' \in [Nodes -> Poll] /\ \A n \in Nodes : poll'[n] \in {poll[n], Idle}
      /\ took' \in [Entries -> Nat] /\ replays' \in [Entries -> Nat]
      /\ sure' \in [Entries -> BOOLEAN] /\ \A e \in Entries : sure[e] => sure'[e]
<1> USE <1>1 DEF RunTypes, PollTypes, HistoryTypes, Controls
<1>4. ASSUME NEW e \in Entries, Append(e) \/ RetryRecoverable(e) PROVE Good
  BY <1>4 DEF Append, RetryRecoverable
<1>5. ASSUME NEW n \in Nodes, NEW r \in Runtimes, NEW S \in SUBSET Entries, CreateStarting(n, r, S) PROVE Good
  BY <1>5 DEF CreateStarting
<1>6. ASSUME NEW r \in Runtimes, ClaimSeeds(r) PROVE Good
  BY <1>6 DEF ClaimSeeds
<1>7. ASSUME NEW r \in Runtimes, StartSeedPhase(r) PROVE Good
  <2>1. PICK c \in {"admitted", "ending"} : ctl' = [ctl EXCEPT ![r] = c]
    BY <1>7, Zenon DEF StartSeedPhase
  <2>2. sure' = [e \in Entries |-> sure[e] \/ e \in seeds[r]]
    BY <1>7 DEF StartSeedPhase
  <2>3. UNCHANGED <<seeds, receipt, reg, poll, took, replays>>
    BY <1>7 DEF StartSeedPhase
  <2>4. sure' \in [Entries -> BOOLEAN] /\ \A e \in Entries : sure[e] => sure'[e]
    BY <2>2, Zenon
  <2> QED
    BY <1>2, <1>3, <2>1, <2>3, <2>4
<1>8. ASSUME NEW r \in Runtimes, Execute(r) PROVE Good
  <2>1. ctl' \in [Runtimes -> Controls] /\ \A q \in Runtimes : ctl'[q] = "none" => ctl[q] = "none"
    BY <1>8 DEF Execute
  <2>2. seeds' \in [Runtimes -> SUBSET Entries]
    BY <1>8 DEF Execute
  <2>3. took' \in [Entries -> Nat]
    BY <1>8 DEF Execute
  <2>4. UNCHANGED <<receipt, reg, poll, sure, replays>>
    BY <1>8 DEF Execute
  <2> QED
    BY <2>1, <2>2, <2>3, <2>4
<1>9. ASSUME NEW r \in Runtimes, Attach(r) PROVE Good
  <2>1. \E c \in {"none", "entry", "handle"} : reg' = [reg EXCEPT ![rt[r].node] = c]
    <3>1. CASE rt[r].node \in Nodes
      BY <1>9, <3>1, Zenon DEF Attach
    <3>2. CASE rt[r].node \notin Nodes
      BY <1>9, <3>2, Zenon DEF Attach
    <3> QED
      BY <3>1, <3>2
  <2> QED
    BY <1>9, <2>1, ZenonT(30) DEF Attach
<1>10. ASSUME NEW r \in Runtimes, Heartbeat(r) \/ LeaseRunsOut(r) \/ ReclaimExpired(r) PROVE Good
  BY <1>10 DEF Heartbeat, LeaseRunsOut, ReclaimExpired
<1>11. ASSUME NEW r \in Runtimes, RunEnds(r) PROVE Good
  BY <1>11, Zenon DEF RunEnds
<1>12. ASSUME NEW r \in Runtimes, CloseFlush(r) PROVE Good
  BY <1>2, <1>12 DEF CloseFlush
<1>13. ASSUME NEW r \in Runtimes, CloseTerminal(r) PROVE Good
  BY <1>2, <1>13, ZenonT(30) DEF CloseTerminal
<1>14. ASSUME NEW n \in Nodes, StartRefused(n) PROVE Good
  BY <1>14 DEF StartRefused
<1>15. ASSUME NEW n \in Nodes, Crash(n) PROVE Good
  BY <1>2, <1>3, <1>15 DEF Crash
<1>16. ASSUME CancelThread PROVE Good
  BY <1>16 DEF CancelThread
<1>17. Good
  BY <1>4, <1>5, <1>6, <1>7, <1>8, <1>9, <1>10, <1>11, <1>12, <1>13, <1>14, <1>15, <1>16, ZenonT(30) DEF RuntimeStep
<1>18. RunTypes' /\ PollTypes' /\ HistoryTypes'
  BY <1>2, <1>3, <1>17
<1>19. ReceiptsAreSure'
  BY <1>2, <1>17, Zenon DEF ReceiptsAreSure, Receipt
<1>20. Unstarted'
  BY <1>3, <1>17, UnstartedStays
<1> QED
  BY <1>18, <1>19, <1>20 DEF Memory

(* Every step keeps the rows in order and moves the entries forward.       *)
LEMMA RowsKept ==
  ASSUME InboxType, Rows, InboxNext
  PROVE  Rows'
<1>1. ASSUME NEW n \in Nodes, FlushDone(n) \/ FlushFails(n) PROVE Rows'
  BY <1>1, FlushCommits, CommitRows
<1>2. ASSUME NEW r \in Runtimes, CloseFlush(r) PROVE Rows'
  BY <1>2, CloseCommits, CommitRows, QuietRows
<1>3. ASSUME NEW r \in Runtimes, CloseTerminal(r) \/ ReclaimExpired(r) PROVE Rows'
  BY <1>3, EndRows, QuietRows DEF CloseTerminal, ReclaimExpired
<1>4. ASSUME NEW r \in Runtimes, RuntimeStep(r) PROVE Rows'
  <2>1. CASE Execute(r) \/ RunEnds(r)
    BY <2>1, QuietRows DEF Execute, RunEnds
  <2> QED
    BY <1>2, <1>3, <1>4, <2>1, StartRows, EntryRows, SeedRows, RuntimeRows DEF RuntimeStep
<1>5. ASSUME NEW n \in Nodes, PollStep(n) PROVE Rows'
  <2>1. CASE PollEnds(n) \/ WriteAccepted(n) \/ WriteRefused(n) \/ WriteUncertain(n)
    BY <2>1, QuietRows DEF PollEnds, WriteAccepted, WriteRefused, WriteUncertain
  <2> QED
    BY <1>1, <1>5, <2>1, RuntimeRows, EntryRows, DeliveryRows DEF PollStep
<1>6. ASSUME NEW n \in Nodes, StartRefused(n) \/ Crash(n) PROVE Rows'
  BY <1>6, QuietRows DEF StartRefused, Crash
<1>7. ASSUME NEW e \in Entries, Append(e) \/ RetryRecoverable(e) PROVE Rows'
  BY <1>7, AppendRows, EntryRows
<1>8. ASSUME CancelThread PROVE Rows'
  BY <1>8, EntryRows
<1> QED
  BY <1>4, <1>5, <1>6, <1>7, <1>8 DEF InboxNext

(* Only a commit of a receipt and the admission of seeds apply an entry,   *)
(* and what is sure stays sure.                                            *)
LEMMA AppliedKept ==
  ASSUME InboxType, Rows, Memory, AppliedWasAccepted, InboxNext
  PROVE  AppliedWasAccepted'
<1> SUFFICES ASSUME NEW e \in Entries, entry'[e].st = "acked" PROVE sure'[e]
  BY DEF AppliedWasAccepted
<1>1. /\ entry \in [Entries -> Entry] /\ sure \in [Entries -> BOOLEAN]
      /\ entry[e].st = "acked" => sure[e]
      /\ \A r \in Runtimes : e \in receipt[r].seqs => sure[e]
  BY DEF InboxType, RowTypes, HistoryTypes, AppliedWasAccepted, Memory, ReceiptsAreSure
<1>2. ASSUME NEW r \in Runtimes, NEW S \in SUBSET Entries, S # {}, Commit(r, Max(S), S),
             S \in SUBSET receipt[r].seqs, sure' = sure
      PROVE  sure'[e]
  BY <1>1, <1>2 DEF Commit
<1>3. ASSUME NEW n \in Nodes, FlushDone(n) \/ FlushFails(n) PROVE sure'[e]
  <2>1. PICK r \in Runtimes : r = poll[n].rt
    BY <1>3, FlushCommits
  <2>2. PICK S \in SUBSET Entries : /\ S # {} /\ Commit(r, Max(S), S)
                                    /\ S \in {LowPart(r), receipt[r].seqs}
    BY <1>3, <2>1, FlushCommits
  <2>3. S \in SUBSET receipt[r].seqs
    BY <2>2 DEF LowPart
  <2>4. sure' = sure
    BY <1>3 DEF FlushDone, FlushFails
  <2> QED
    BY <1>2, <2>2, <2>3, <2>4
<1>4. ASSUME NEW r \in Runtimes, CloseFlush(r) PROVE sure'[e]
  <2>1. sure' = sure
    BY <1>4 DEF CloseFlush
  <2> QED
    BY <1>1, <1>2, <1>4, <2>1, CloseCommits
<1>5. ASSUME NEW R, entry' = Released(R), sure' = sure PROVE sure'[e]
  <2>1. entry'[e].st = "acked" => entry[e].st = "acked"
    BY <1>5, ReleasedOK DEF InboxType
  <2> QED
    BY <1>1, <1>5, <2>1
<1>6. ASSUME NEW r \in Runtimes, RuntimeStep(r) PROVE sure'[e]
  <2>1. CASE StartSeedPhase(r)
    <3>1. e \in seeds[r] \/ entry'[e] = entry[e]
      BY <2>1, SeedRows
    <3>2. sure'[e] = (sure[e] \/ e \in seeds[r])
      BY <2>1 DEF StartSeedPhase
    <3> QED
      BY <1>1, <3>1, <3>2, Zenon
  <2>2. ASSUME NEW n \in Nodes, NEW S, CreateStarting(n, r, S) PROVE sure'[e]
    BY <1>5, <2>2 DEF CreateStarting
  <2>3. CASE CloseTerminal(r) \/ ReclaimExpired(r)
    BY <1>1, <1>5, <2>3 DEF CloseTerminal, ReclaimExpired
  <2>4. CASE ClaimSeeds(r)
    BY <1>1, <2>4 DEF ClaimSeeds
  <2>5. CASE Execute(r) \/ Attach(r) \/ Heartbeat(r) \/ LeaseRunsOut(r) \/ RunEnds(r)
    BY <1>1, <2>5 DEF Execute, Attach, Heartbeat, LeaseRunsOut, RunEnds
  <2> QED
    BY <1>4, <1>6, <2>1, <2>2, <2>3, <2>4, <2>5 DEF RuntimeStep
<1>7. ASSUME NEW n \in Nodes, PollStep(n) PROVE sure'[e]
  <2>1. CASE WriteAccepted(n)
    <3>1. entry' = entry /\ \E f : sure' = [sure EXCEPT ![f] = TRUE]
      BY <2>1, Zenon DEF WriteAccepted
    <3> QED
      BY <1>1, <3>1
  <2>2. CASE Claim(n)
    BY <1>1, <2>2 DEF Claim
  <2>3. CASE MarkDelivered(n) \/ ResetUnsent(n) \/ DeadLetter(n)
    <3>1. sure' = sure
      BY <2>3, Zenon DEF MarkDelivered, ResetUnsent, DeadLetter
    <3>2. PICK f : f = Min(poll[n].todo)
      OBVIOUS
    <3>3. entry'[e].st = "acked" => entry[e].st = "acked"
      BY <2>3, <3>2, DeliveryRows
    <3> QED
      BY <1>1, <3>1, <3>3
  <2>4. CASE entry' = entry /\ sure' = sure
    BY <1>1, <2>4
  <2>5. \/ FlushDone(n) \/ FlushFails(n) \/ WriteAccepted(n) \/ Claim(n)
        \/ MarkDelivered(n) \/ ResetUnsent(n) \/ DeadLetter(n)
        \/ entry' = entry /\ sure' = sure
    BY <1>7, Zenon DEF PollStep, PollBegins, PollEnds, WriteRefused, WriteUncertain
  <2> QED
    BY <1>3, <2>1, <2>2, <2>3, <2>4, <2>5
<1>8. ASSUME NEW n \in Nodes, StartRefused(n) \/ Crash(n) PROVE sure'[e]
  BY <1>1, <1>8 DEF StartRefused, Crash
<1>9. ASSUME NEW f \in Entries, Append(f) \/ RetryRecoverable(f) PROVE sure'[e]
  BY <1>1, <1>9 DEF Append, RetryRecoverable, Entry
<1>10. ASSUME CancelThread PROVE sure'[e]
  BY <1>1, <1>10 DEF CancelThread
<1> QED
  BY <1>6, <1>7, <1>8, <1>9, <1>10 DEF InboxNext

LEMMA HomeKept ==
  ASSUME InboxType, Unstarted, AtHome, InboxNext
  PROVE  AtHome'
<1> SUFFICES ASSUME NEW k \in Nodes, poll'[k].rt \in Runtimes PROVE rt'[poll'[k].rt].node = k
  BY DEF AtHome
<1>1. PICK q \in Runtimes : q = poll'[k].rt
  OBVIOUS
<1>2. poll \in [Nodes -> Poll] /\ 0 \notin Runtimes
  BY DEF InboxType, PollTypes, Runtimes
<1>3. \/ poll'[k].rt = poll[k].rt
      \/ Active(q) /\ rt[q].node = k
  <2>1. ASSUME NEW n \in Nodes, PollStep(n)
        PROVE  poll'[k].rt = poll[k].rt \/ (Active(q) /\ rt[q].node = k)
    <3>1. ASSUME NEW x, PollMove(n, x)
          PROVE  poll'[k].rt = poll[k].rt \/ (Active(q) /\ rt[q].node = k)
      <4>1. poll'[k] = IF k = n THEN x ELSE poll[k]
        BY <1>2, <3>1 DEF PollMove
      <4> QED
        BY <1>1, <1>2, <3>1, <4>1 DEF PollMove
    <3> QED
      BY <2>1, <3>1, PollMoves
  <2>2. ASSUME NEW n \in Nodes, Crash(n) PROVE poll'[k].rt = poll[k].rt
    <3>1. poll'[k] = IF k = n THEN Idle ELSE poll[k]
      BY <1>2, <2>2 DEF Crash
    <3> QED
      BY <1>1, <1>2, <3>1 DEF Idle
  <2>3. \/ \E n \in Nodes : PollStep(n) \/ Crash(n)
        \/ poll' = poll
    BY ZenonT(30) DEF InboxNext, RuntimeStep, CreateStarting, ClaimSeeds, StartSeedPhase, Execute, Attach, Heartbeat,
      LeaseRunsOut, RunEnds, CloseFlush, CloseTerminal, ReclaimExpired, StartRefused, Append,
      RetryRecoverable, CancelThread
  <2> QED
    BY <2>1, <2>2, <2>3
<1>4. rt[q].node = k
  BY <1>1, <1>3 DEF AtHome
<1>5. ASSUME NEW n \in Nodes, NEW S, CreateStarting(n, q, S) PROVE FALSE
  <2>1. ctl[q] = "none" /\ poll' = poll
    BY <1>5 DEF CreateStarting
  <2> QED
    BY <1>1, <2>1 DEF Unstarted
<1> QED
  BY <1>1, <1>4, <1>5, BornStarting

-----------------------------------------------------------------------------
(* Runtime r has tried to write f, and the write is neither acknowledged   *)
(* nor taken back.                                                         *)
Written(f, r) == entry[f].rt = r /\ entry[f].st \in {"delivered", "unknown_delivery"}

(* While a poll has entries left to deliver, its runtime has no such write *)
(* that its receipt does not name, but for the one in progress.            *)
Delivering(n) == poll[n].pc \in {"next", "write", "reset"} /\ poll[n].todo # {}

HeldUp ==
  \A n \in Nodes, r \in Runtimes : Delivering(n) /\ poll[n].rt = r /\ Active(r) =>
    \A f \in Entries : Written(f, r) =>
      f \in receipt[r].seqs \/ (poll[n].pc # "next" /\ f = Min(poll[n].todo))

(* Only a mark makes an entry one that its runtime has tried to write.     *)
LEMMA WrittenByMark ==
  ASSUME InboxType, Rows, InboxNext, NEW f \in Entries, NEW r \in Runtimes, Written(f, r)'
  PROVE  \/ Written(f, r)
         \/ \E n \in Nodes : MarkDelivered(n) /\ poll[n].rt = r /\ f = Min(poll[n].todo)
<1>1. entry'[f].rt = r /\ entry'[f].st \in {"delivered", "unknown_delivery"} /\ entry \in [Entries -> Entry]
  BY DEF Written, InboxType, RowTypes
<1>2. ASSUME entry'[f] = entry[f] PROVE Written(f, r)
  BY <1>1, <1>2 DEF Written
<1>3. ASSUME NEW R, entry' = Released(R) PROVE Written(f, r)
  <2>1. entry'[f] = entry[f] \/ (entry[f].st = "delivered" /\ entry'[f].rt = entry[f].rt)
    BY <1>1, <1>3, ReleasedOK DEF InboxType
  <2> QED
    BY <1>1, <1>2, <2>1 DEF Written
<1>4. ASSUME NEW q, NEW S, Commit(q, Max(S), S) PROVE Written(f, r)
  <2>1. entry'[f] = IF f \in S THEN [st |-> "acked", rt |-> q] ELSE entry[f]
    BY <1>4 DEF Commit
  <2> QED
    BY <1>1, <1>2, <2>1
<1>5. ASSUME NEW e \in Entries, Append(e) \/ RetryRecoverable(e) PROVE Written(f, r)
  <2>1. CASE Append(e)
    <3>1. /\ entry'[e].st = "pending" /\ \A d \in Entries \ {e} : entry'[d] = entry[d]
      BY <2>1, OneState, Zenon DEF Append, States, InboxType
    <3> QED
      BY <1>1, <1>2, <3>1
  <2>2. CASE RetryRecoverable(e)
    BY <1>1, <1>2, <2>2 DEF RetryRecoverable
  <2> QED
    BY <1>5, <2>1, <2>2
<1>6. ASSUME NEW q \in Runtimes, RuntimeStep(q) PROVE Written(f, r)
  <2>1. CASE StartSeedPhase(q)
    <3>1. entry'[f] = IF f \in seeds[q] THEN [st |-> "acked", rt |-> q] ELSE entry[f]
      BY <2>1 DEF StartSeedPhase
    <3> QED
      BY <1>1, <1>2, <3>1
  <2>2. ASSUME NEW n \in Nodes, NEW S, CreateStarting(n, q, S) PROVE Written(f, r)
    BY <1>3, <2>2 DEF CreateStarting
  <2>3. CASE CloseTerminal(q) \/ ReclaimExpired(q)
    BY <1>2, <1>3, <2>3 DEF CloseTerminal, ReclaimExpired
  <2>4. CASE ClaimSeeds(q)
    BY <1>1, <1>2, <2>4 DEF ClaimSeeds
  <2>5. CASE CloseFlush(q)
    BY <1>2, <1>4, <2>5, CloseCommits
  <2>6. CASE Execute(q) \/ Attach(q) \/ Heartbeat(q) \/ LeaseRunsOut(q) \/ RunEnds(q)
    BY <1>2, <2>6 DEF Execute, Attach, Heartbeat, LeaseRunsOut, RunEnds
  <2> QED
    BY <1>6, <2>1, <2>2, <2>3, <2>4, <2>5, <2>6 DEF RuntimeStep
<1>7. ASSUME NEW n \in Nodes, PollStep(n)
      PROVE  Written(f, r) \/ (MarkDelivered(n) /\ poll[n].rt = r /\ f = Min(poll[n].todo))
  <2>1. CASE FlushDone(n) \/ FlushFails(n)
    BY <1>4, <2>1, FlushCommits
  <2>2. CASE Claim(n)
    BY <1>1, <1>2, <2>2 DEF Claim
  <2>3. CASE MarkDelivered(n) \/ ResetUnsent(n) \/ DeadLetter(n)
    <3>1. PICK e : e = Min(poll[n].todo)
      OBVIOUS
    <3>2. \/ f # e /\ entry'[f] = entry[f]
          \/ f = e /\ MarkDelivered(n)
          \/ f = e /\ entry'[f].st \in {"delivering", "dead_letter"}
      BY <2>3, <3>1, DeliveryRows
    <3>3. MarkDelivered(n) /\ f = e => entry[f].rt = poll[n].rt /\ entry'[f].rt = entry[f].rt
      <4>1. MarkDelivered(n) => /\ entry' = [entry EXCEPT ![e].st = "delivered"]
                                /\ entry[e] = [st |-> "delivering", rt |-> poll[n].rt]
        BY <3>1, Zenon DEF MarkDelivered
      <4> QED
        BY <1>1, <4>1 DEF Entry
    <3> QED
      BY <1>1, <1>2, <3>1, <3>2, <3>3
  <2>4. CASE entry' = entry
    BY <1>2, <2>4
  <2> QED
    BY <1>7, <2>1, <2>2, <2>3, <2>4, Zenon
      DEF PollStep, PollBegins, PollEnds, WriteAccepted, WriteRefused, WriteUncertain
<1>8. ASSUME NEW n \in Nodes, StartRefused(n) \/ Crash(n) PROVE Written(f, r)
  BY <1>2, <1>8 DEF StartRefused, Crash
<1>9. ASSUME CancelThread PROVE Written(f, r)
  BY <1>1, <1>2, <1>9 DEF CancelThread
<1> QED
  BY <1>5, <1>6, <1>7, <1>8, <1>9 DEF InboxNext

(* While its runtime is active, a receipt is dropped only once committed,  *)
(* or with the process that holds it.                                      *)
LEMMA ReceiptStays ==
  ASSUME InboxType, InboxNext, NEW r \in Runtimes, Active(r)'
  PROVE  \/ receipt[r].seqs \subseteq receipt'[r].seqs
         \/ \E n \in Nodes : FlushDone(n) /\ poll[n].rt = r
         \/ CloseFlush(r) \/ Crash(rt[r].node)
<1>1. receipt \in [Runtimes -> Receipt]
  BY DEF InboxType, RunTypes
<1>2. ASSUME NEW q \in Runtimes, RuntimeStep(q) PROVE receipt' = receipt \/ CloseFlush(q) \/ CloseTerminal(q)
  BY <1>2, Zenon DEF RuntimeStep, CreateStarting, ClaimSeeds, StartSeedPhase, Execute, Attach, Heartbeat,
    LeaseRunsOut, RunEnds, ReclaimExpired
<1>3. ASSUME NEW q \in Runtimes, CloseFlush(q), q # r PROVE receipt'[r] = receipt[r]
  BY <1>1, <1>3 DEF CloseFlush
<1>4. ASSUME NEW q \in Runtimes, CloseTerminal(q) PROVE receipt'[r] = receipt[r]
  BY <1>1, <1>4 DEF CloseTerminal, Active
<1>5. ASSUME NEW n \in Nodes, PollStep(n) PROVE receipt' = receipt \/ FlushDone(n) \/ WriteAccepted(n)
  BY <1>5, Zenon DEF PollStep, PollBegins, PollEnds, FlushFails, Claim, DeadLetter, MarkDelivered,
    WriteRefused, WriteUncertain, ResetUnsent
<1>6. ASSUME NEW n \in Nodes, FlushDone(n), poll[n].rt # r PROVE receipt'[r] = receipt[r]
  BY <1>1, <1>6 DEF FlushDone
<1>7. ASSUME NEW n \in Nodes, WriteAccepted(n) PROVE receipt[r].seqs \subseteq receipt'[r].seqs
  BY <1>1, <1>7 DEF WriteAccepted
<1>8. ASSUME NEW n \in Nodes, Crash(n), n # rt[r].node PROVE receipt'[r] = receipt[r]
  BY <1>8 DEF Crash
<1>9. ASSUME \/ \E n \in Nodes : StartRefused(n)
             \/ \E e \in Entries : Append(e) \/ RetryRecoverable(e)
             \/ CancelThread
      PROVE  receipt' = receipt
  BY <1>9 DEF StartRefused, Append, RetryRecoverable, CancelThread
<1> QED
  BY <1>2, <1>3, <1>4, <1>5, <1>6, <1>7, <1>8, <1>9 DEF InboxNext

(* The delivery goes on only past writes that its receipt names.           *)
LEMMA HeldUpKept ==
  ASSUME InboxType, Rows, Unstarted, AtHome, HeldUp, InboxNext, InboxType', AtHome'
  PROVE  HeldUp'
<1> SUFFICES ASSUME NEW k \in Nodes, NEW r \in Runtimes, Delivering(k)', poll'[k].rt = r, Active(r)',
                    NEW f \in Entries, Written(f, r)'
             PROVE  f \in receipt'[r].seqs \/ (poll'[k].pc # "next" /\ f = Min(poll'[k].todo))
  BY Zenon DEF HeldUp
<1>1. poll \in [Nodes -> Poll] /\ poll'[k].pc \in {"next", "write", "reset"} /\ poll'[k].todo # {}
  BY DEF InboxType, PollTypes, Delivering
<1>2. Active(r) /\ rt[r].node = k
  <2>1. rt'[r].node = k
    BY DEF AtHome
  <2>2. ASSUME NEW n \in Nodes, NEW S, CreateStarting(n, r, S) PROVE FALSE
    <3>1. ctl[r] = "none" /\ poll' = poll
      BY <2>2 DEF CreateStarting
    <3> QED
      BY <3>1 DEF Unstarted
  <2> QED
    BY <2>1, <2>2, BornStarting DEF Active
<1>3. ASSUME NEW n \in Nodes, poll[n].rt = r PROVE n = k
  BY <1>2, <1>3 DEF AtHome
<1>4. Written(f, r) \/ (MarkDelivered(k) /\ poll[k].rt = r /\ f = Min(poll[k].todo))
  BY <1>3, WrittenByMark
<1>5. ASSUME Delivering(k), poll[k].rt = r, Written(f, r)
      PROVE  f \in receipt[r].seqs \/ (poll[k].pc # "next" /\ f = Min(poll[k].todo))
  BY <1>2, <1>5, Zenon DEF HeldUp
<1>6. CASE poll'[k] = poll[k] /\ ~PollStep(k) /\ ~Crash(k)
  <2>1. Delivering(k) /\ poll[k].rt = r /\ poll[k].pc # "idle"
    BY <1>1, <1>6 DEF Delivering
  <2>2. Written(f, r)
    BY <1>4, <1>6 DEF PollStep
  <2>3. receipt[r].seqs \subseteq receipt'[r].seqs
    <3>1. ASSUME CloseFlush(r) PROVE FALSE
      BY <1>2, <2>1, <3>1 DEF CloseFlush, LockFree
    <3>2. ASSUME NEW n \in Nodes, FlushDone(n), poll[n].rt = r PROVE FALSE
      BY <1>3, <1>6, <3>2 DEF PollStep
    <3> QED
      BY <1>2, <1>6, <3>1, <3>2, ReceiptStays
  <2> QED
    BY <1>5, <1>6, <2>1, <2>2, <2>3
<1>7. CASE Crash(k)
  BY <1>1, <1>7 DEF Crash, Idle
<1>8. CASE PollStep(k)
  <2>1. ASSUME NEW q \in Runtimes, PollBegins(k, q) PROVE FALSE
    <3>1. poll' = poll \/ poll'[k].todo = {}
      BY <1>1, <2>1 DEF PollBegins
    <3>2. poll[k].pc = "idle"
      BY <2>1 DEF PollBegins, LockFree
    <3> QED
      BY <1>1, <3>1, <3>2
  <2>2. ASSUME PollEnds(k) \/ FlushFails(k) \/ WriteUncertain(k) \/ ResetUnsent(k) PROVE FALSE
    <3>1. \/ poll' = [poll EXCEPT ![k] = Idle]
          \/ poll' = [poll EXCEPT ![k].pc = "next", ![k].todo = {}]
      BY <2>2, Zenon DEF PollEnds, FlushFails, WriteUncertain, ResetUnsent
    <3> QED
      BY <1>1, <3>1 DEF Idle, Poll
  <2>3. CASE FlushDone(k)
    <3>1. poll[k].pc = "next" /\ poll'[k].todo = poll[k].todo /\ poll'[k].rt = poll[k].rt
      BY <1>1, <2>3 DEF FlushDone, Goto, Flushing, Idle, Poll
    <3>2. Written(f, r)
      <4>1. entry'[f] = entry[f] \/ entry'[f].st = "acked"
        BY <2>3 DEF FlushDone, Commit
      <4> QED
        BY <4>1 DEF Written
    <3>3. f \in receipt[r].seqs
      BY <1>1, <1>5, <3>1, <3>2 DEF Delivering
    <3>4. entry'[f].st = "acked"
      BY <2>3, <3>1, <3>3 DEF FlushDone, Commit
    <3> QED
      BY <3>4 DEF Written
  <2>4. CASE Claim(k)
    <3>1. /\ ~Written(f, poll[k].rt)
          /\ entry'[f] = entry[f] \/ entry'[f].st = "delivering"
      BY <2>4 DEF Claim, Written
    <3>2. poll'[k].rt = poll[k].rt
      <4>1. \E S : poll' = [poll EXCEPT ![k].pc = "next", ![k].todo = S] \/ poll' = [poll EXCEPT ![k] = Idle]
        BY <2>4, Zenon DEF Claim
      <4> QED
        BY <1>1, <4>1 DEF Idle, Poll
    <3> QED
      BY <3>1, <3>2 DEF Written
  <2>5. CASE DeadLetter(k)
    <3>1. /\ receipt' = receipt /\ poll[k].pc = "next" /\ poll[k].todo # {}
          /\ poll'[k].rt = poll[k].rt
      <4>1. \E e : poll' = [poll EXCEPT ![k].todo = @ \ {e}] \/ poll' = [poll EXCEPT ![k] = Idle]
        BY <2>5, Zenon DEF DeadLetter
      <4> QED
        BY <1>1, <2>5, <4>1 DEF DeadLetter, Idle, Poll
    <3>2. PICK e : e = Min(poll[k].todo)
      OBVIOUS
    <3>3. entry'[f] = entry[f] \/ entry'[f].st = "dead_letter"
      BY <2>5, <3>2, DeliveryRows
    <3>4. Written(f, r)
      BY <3>3 DEF Written
    <3> QED
      BY <1>5, <3>1, <3>4 DEF Delivering
  <2>6. CASE MarkDelivered(k)
    <3>1. /\ receipt' = receipt /\ poll[k].pc = "next" /\ poll[k].todo # {}
          /\ poll'[k].pc = "write" /\ poll'[k].rt = poll[k].rt /\ poll'[k].todo = poll[k].todo
      BY <1>1, <2>6 DEF MarkDelivered, Goto, Idle, Poll
    <3> QED
      BY <1>4, <1>5, <3>1 DEF Delivering
  <2>7. CASE WriteAccepted(k)
    <3>1. /\ poll[k].pc = "write" /\ poll'[k].rt = poll[k].rt /\ poll[k].todo # {} /\ entry' = entry
      BY <1>1, <2>7 DEF WriteAccepted, Poll, InboxType, PollTypes
    <3>2. receipt'[r].seqs = receipt[r].seqs \union {Min(poll[k].todo)}
      BY <2>7, <3>1 DEF WriteAccepted, InboxType, RunTypes
    <3>3. Written(f, r)
      BY <3>1 DEF Written
    <3> QED
      BY <1>5, <3>1, <3>2, <3>3 DEF Delivering
  <2>8. CASE WriteRefused(k)
    <3>1. /\ poll[k].pc = "write" /\ poll'[k].rt = poll[k].rt /\ poll'[k].todo = poll[k].todo
          /\ poll'[k].pc = "reset" /\ entry' = entry /\ receipt' = receipt
      BY <1>1, <2>8 DEF WriteRefused, Goto, Poll
    <3>2. Written(f, r)
      BY <3>1 DEF Written
    <3> QED
      BY <1>1, <1>5, <3>1, <3>2 DEF Delivering
  <2> QED
    BY <1>8, <2>1, <2>2, <2>3, <2>4, <2>5, <2>6, <2>7, <2>8 DEF PollStep
<1>9. ASSUME ~PollStep(k), ~Crash(k) PROVE poll'[k] = poll[k]
  <2>1. ASSUME NEW n \in Nodes, n # k, PollStep(n) PROVE poll'[k] = poll[k]
    BY <1>1, <2>1, PollMoves DEF PollMove
  <2>2. ASSUME NEW n \in Nodes, n # k, Crash(n) PROVE poll'[k] = poll[k]
    BY <1>1, <2>2 DEF Crash
  <2>3. \/ \E n \in Nodes : PollStep(n) \/ Crash(n)
        \/ poll' = poll
    BY ZenonT(30) DEF InboxNext, RuntimeStep, CreateStarting, ClaimSeeds, StartSeedPhase, Execute, Attach, Heartbeat,
      LeaseRunsOut, RunEnds, CloseFlush, CloseTerminal, ReclaimExpired, StartRefused, Append,
      RetryRecoverable, CancelThread
  <2> QED
    BY <1>9, <2>1, <2>2, <2>3
<1> QED
  BY <1>6, <1>7, <1>8, <1>9

-----------------------------------------------------------------------------
(* The rows and the memory agree, what is applied was accepted, and        *)
(* uncertain writes hold up the rest.                                      *)
InboxInv == Rows /\ Memory /\ AppliedWasAccepted /\ AtHome /\ HeldUp

(* The empty inbox satisfies the invariant.                                *)
LEMMA InboxInvInit == InboxInit => InboxInv
<1> SUFFICES ASSUME InboxInit PROVE InboxInv
  OBVIOUS
<1>1. /\ \A e \in Entries : entry[e] = [st |-> "none", rt |-> 0] /\ took[e] = 0 /\ sure[e] = FALSE /\ replays[e] = 0
      /\ \A r \in Runtimes : rt[r] = NoRuntime /\ ctl[r] = "none" /\ seeds[r] = {} /\ receipt[r] = NoReceipt
      /\ \A n \in Nodes : reg[n] = "none" /\ poll[n] = Idle
  BY DEF InboxInit
<1>2. [st |-> "none", rt |-> 0] \in Entry /\ NoRuntime \in Runtime /\ NoReceipt \in Receipt /\ Idle \in Poll
  BY DEF Entry, States, NoRuntime, Runtime, NoReceipt, Receipt, Idle, Poll, PollStages
<1>3. NoRuntime.st = "none" /\ NoReceipt.seqs = {} /\ Idle.pc = "idle" /\ Idle.rt = 0 /\ Idle.todo = {}
  BY DEF NoRuntime, NoReceipt, Idle
<1>4. RowTypes /\ \A r \in Runtimes : ~Active(r)
  BY <1>1, <1>2, <1>3 DEF InboxInit, RowTypes, Active
<1>5. Rows
  BY <1>1, <1>4 DEF Rows, ClaimsHaveOwners, OneActive
<1>6. RunTypes /\ PollTypes /\ HistoryTypes
  BY <1>1, <1>2, <1>3 DEF InboxInit, RunTypes, Controls, PollTypes, HistoryTypes
<1>7. 0 \notin Runtimes
  BY DEF Runtimes
<1>8. Memory
  BY <1>1, <1>3, <1>4, <1>6, <1>7 DEF Memory, Unstarted, ReceiptsAreSure
<1>9. AppliedWasAccepted /\ AtHome /\ HeldUp
  BY <1>1, <1>3, <1>4, <1>7 DEF AppliedWasAccepted, AtHome, HeldUp
<1> QED
  BY <1>5, <1>8, <1>9 DEF InboxInv

(* Every step keeps it.                                                    *)
LEMMA InboxInvStep == InboxInv /\ [InboxNext]_inboxVars => InboxInv'
<1> SUFFICES ASSUME InboxInv, [InboxNext]_inboxVars PROVE InboxInv'
  OBVIOUS
<1>1. /\ InboxType /\ Rows /\ Memory /\ AppliedWasAccepted /\ AtHome /\ HeldUp
      /\ Unstarted /\ ReceiptsAreSure
  BY DEF InboxInv, InboxType, Rows, Memory
<1>2. CASE InboxNext
  <2>1. Rows' /\ AppliedWasAccepted'
    BY <1>1, <1>2, RowsKept, AppliedKept
  <2>2. \/ \E n \in Nodes : PollStep(n)
        \/ \/ \E r \in Runtimes : RuntimeStep(r)
           \/ \E n \in Nodes : StartRefused(n) \/ Crash(n)
           \/ \E e \in Entries : Append(e) \/ RetryRecoverable(e)
           \/ CancelThread
    BY <1>2 DEF InboxNext
  <2>3. Memory'
    BY <1>1, <1>2, <2>2, PollMemory, RunMemory
  <2>4. InboxType'
    BY <2>1, <2>3 DEF InboxType, Rows, Memory
  <2>5. AtHome'
    BY <1>1, <1>2, HomeKept
  <2>6. HeldUp'
    BY <1>1, <1>2, <2>4, <2>5, HeldUpKept
  <2> QED
    BY <2>1, <2>3, <2>5, <2>6 DEF InboxInv
<1>3. CASE UNCHANGED inboxVars
  <2>1. Rows' /\ Memory'
    BY <1>1, <1>3 DEF inboxVars, Rows, RowTypes, ClaimsHaveOwners, OneActive, Active, Memory, RunTypes,
      PollTypes, HistoryTypes, Unstarted, ReceiptsAreSure
  <2>2. AppliedWasAccepted' /\ AtHome'
    BY <1>1, <1>3 DEF inboxVars, AppliedWasAccepted, AtHome
  <2>3. HeldUp'
    BY <1>1, <1>3, Zenon DEF inboxVars, HeldUp, Delivering, Active, Written
  <2> QED
    BY <2>1, <2>2, <2>3 DEF InboxInv
<1> QED
  BY <1>2, <1>3

LEMMA InboxInvariant == InboxSpec => []InboxInv
  BY InboxInvInit, InboxInvStep, PTL DEF InboxSpec

(* Claimed and written entries always belong to an active runtime: however *)
(* a runtime ends (MarkTerminalWithLease, ReclaimExpiredLeases, the        *)
(* retirement in CreateStarting), it leaves no claim behind.               *)
THEOREM ClaimsAlwaysOwned == InboxSpec => []ClaimsHaveOwners
<1>1. InboxInv => ClaimsHaveOwners
  BY DEF InboxInv, Rows
<1> QED
  BY <1>1, InboxInvariant, PTL

(* CommitInboxDeliveryWithLease and StartSeedPhase mark as applied only    *)
(* what the agent confirmed or what was admitted as a seed.                *)
THEOREM AppliedOnlyAccepted == InboxSpec => []AppliedWasAccepted
<1>1. InboxInv => AppliedWasAccepted
  BY DEF InboxInv
<1> QED
  BY <1>1, InboxInvariant, PTL

(* When the delivery loop writes under its lease, every other entry that   *)
(* its runtime has tried to write is acknowledged, named by the receipt, or*)
(* was taken back: ClaimDeliverableAfter claims nothing past a write whose *)
(* outcome is uncertain, and the loop stops at one.                        *)
THEOREM UncertainHoldsUp == InboxSpec => []UncertainBlocksLater
<1>1. InboxInv => UncertainBlocksLater
  <2> SUFFICES ASSUME InboxInv, NEW n \in Nodes, poll[n].pc = "write", Leased(poll[n].rt),
                      NEW f \in Entries, f # Min(poll[n].todo), entry[f].rt = poll[n].rt,
                      entry[f].st \in {"delivered", "unknown_delivery"}
               PROVE  f \in receipt[poll[n].rt].seqs
    BY Zenon DEF UncertainBlocksLater
  <2>1. PICK r : r = poll[n].rt
    OBVIOUS
  <2>2. r \in Runtimes /\ poll[n].todo # {}
    BY <2>1 DEF InboxInv, Memory, PollTypes
  <2>3. Delivering(n) /\ Active(r) /\ Written(f, r)
    BY <2>1, <2>2 DEF Delivering, Leased, Written
  <2> QED
    BY <2>1, <2>2, <2>3, Zenon DEF InboxInv, HeldUp
<1> QED
  BY <1>1, InboxInvariant, PTL

=============================================================================
