---------------------- MODULE ThreadInboxReplayProofs -----------------------
EXTENDS ThreadInboxProofs, FiniteSetTheorems

USE SMTT(30), ZenonT(30)

(* The writes of an entry that may still come: by a poll that has marked   *)
(* it, by a run that has admitted it as a seed, by whoever claims it next. *)
Writers(e) ==
  {n \in Nodes : poll[n].pc \in {"write", "reset"} /\ Min(poll[n].todo) = e}

Admitted(e) == {r \in Runtimes : ctl[r] = "admitted" /\ e \in seeds[r]}

Owed(e) == IF entry[e].st \in {"none", "pending", "delivering"} THEN 1 ELSE 0

Credit ==
  \A e \in Entries :
    took[e] + Cardinality(Writers(e)) + Cardinality(Admitted(e)) + Owed(e)
      <= 1 + replays[e]

One(b) == IF b THEN 1 ELSE 0

(* Two finite sets that differ at most in n.                               *)
LEMMA CardMove ==
  ASSUME NEW S, NEW T, NEW n, IsFiniteSet(S), S \ {n} = T \ {n}
  PROVE  /\ IsFiniteSet(T) /\ Cardinality(S) \in Nat /\ Cardinality(T) \in Nat
         /\ Cardinality(T) + One(n \in S) = Cardinality(S) + One(n \in T)
<1>1. PICK U : U = S \ {n}
  BY Zenon
<1>2. IsFiniteSet(U) /\ Cardinality(U) = IF n \in S THEN Cardinality(S) - 1 ELSE Cardinality(S)
  BY <1>1, FS_RemoveElement
<1>3. n \notin U /\ T \subseteq U \union {n} /\ U \subseteq T
  BY <1>1
<1>4. Cardinality(S) \in Nat
  BY FS_CardinalityType
<1>5. CASE n \in T
  <2>1. T = U \union {n}
    BY <1>3, <1>5
  <2>2. IsFiniteSet(T) /\ Cardinality(T) = Cardinality(U) + 1
    BY <1>2, <1>3, <2>1, FS_AddElement
  <2> QED
    BY <1>2, <1>4, <1>5, <2>2, FS_CardinalityType DEF One
<1>6. CASE n \notin T
  <2>1. T = U
    BY <1>3, <1>6
  <2> QED
    BY <1>2, <1>4, <1>6, <2>1, FS_CardinalityType DEF One
<1> QED
  BY <1>5, <1>6

(* The sets of possible writers are finite.                                *)
LEMMA FiniteHolders ==
  ASSUME NEW e
  PROVE  IsFiniteSet(Writers(e)) /\ IsFiniteSet(Admitted(e))
<1>1. IsFiniteSet(Nodes) /\ IsFiniteSet(Runtimes)
  BY InboxAssumption, FS_Interval DEF Runtimes
<1>2. Writers(e) \subseteq Nodes /\ Admitted(e) \subseteq Runtimes
  BY DEF Writers, Admitted
<1> QED
  BY <1>1, <1>2, FS_Subset

(* The steps of a delivery: a mark turns what is owed into a writer, a     *)
(* write turns the writer into a receipt by the agent, and a refused write *)
(* is taken back to what is owed.                                          *)
LEMMA PollCredit ==
  ASSUME InboxType, Rows, Credit, NEW n \in Nodes, PollStep(n), HistoryTypes'
  PROVE  Credit'
<1> SUFFICES ASSUME NEW e \in Entries
             PROVE  took'[e] + Cardinality(Writers(e)') + Cardinality(Admitted(e)') + Owed(e)'
                      <= 1 + replays'[e]
  BY DEF Credit
<1>1. UNCHANGED <<ctl, seeds, replays>>
  BY Zenon DEF PollStep, PollBegins, PollEnds, FlushDone, FlushFails, Claim, DeadLetter, MarkDelivered,
    WriteAccepted, WriteRefused, WriteUncertain, ResetUnsent
<1>2. PICK W : W = Writers(e)
  OBVIOUS
<1>3. PICK W1 : W1 = Writers(e)'
  OBVIOUS
<1>4. PICK a : a = Cardinality(Admitted(e))
  OBVIOUS
<1>5. Cardinality(Admitted(e)') = a /\ a \in Nat
  <2>1. Admitted(e)' = Admitted(e)
    BY <1>1 DEF Admitted
  <2> QED
    BY <1>4, <2>1, FiniteHolders, FS_CardinalityType
<1>6. poll \in [Nodes -> Poll] /\ \A k \in Nodes \ {n} : poll'[k] = poll[k]
  BY PollMoves DEF InboxType, PollTypes, PollMove
<1>7. W \ {n} = W1 \ {n} /\ IsFiniteSet(W)
  BY <1>2, <1>3, <1>6, FiniteHolders, Zenon DEF Writers
<1>8. PICK w : w = Cardinality(W)
  OBVIOUS
<1>9. PICK w1 : w1 = Cardinality(W1)
  OBVIOUS
<1>10. w \in Nat /\ w1 \in Nat /\ w1 + One(n \in W) = w + One(n \in W1)
  BY <1>7, <1>8, <1>9, CardMove
<1>11. PICK o : o = Owed(e)
  OBVIOUS
<1>12. PICK o1 : o1 = Owed(e)'
  OBVIOUS
<1>13. /\ o = IF entry[e].st \in {"none", "pending", "delivering"} THEN 1 ELSE 0
       /\ o1 = IF entry'[e].st \in {"none", "pending", "delivering"} THEN 1 ELSE 0
  BY <1>11, <1>12 DEF Owed
<1>14. took[e] + w + a + o <= 1 + replays[e] /\ replays'[e] = replays[e]
       /\ took[e] \in Nat /\ replays[e] \in Nat
  BY <1>1, <1>2, <1>4, <1>8, <1>11 DEF Credit, InboxType, HistoryTypes
<1>15. took'[e] \in Nat
  BY DEF HistoryTypes
<1>16. SUFFICES took'[e] + w1 + a + o1 <= 1 + replays[e]
  BY <1>3, <1>5, <1>9, <1>12, <1>14
<1>17. PICK m : m = Min(poll[n].todo)
  OBVIOUS
<1>18. /\ n \in W <=> poll[n].pc \in {"write", "reset"} /\ m = e
       /\ n \in W1 <=> poll'[n].pc \in {"write", "reset"} /\ Min(poll'[n].todo) = e
  BY <1>2, <1>3, <1>17 DEF Writers
<1>19. \/ n \in W1 => n \in W
       \/ MarkDelivered(n) /\ poll'[n].todo = poll[n].todo
       \/ WriteRefused(n) /\ poll'[n].todo = poll[n].todo
  <2>1. CASE poll' = poll
    BY <1>18, <1>17, <2>1
  <2>2. ASSUME NEW x, PollMove(n, x)
        PROVE  \/ n \notin W1
               \/ MarkDelivered(n) /\ poll'[n].todo = poll[n].todo
               \/ WriteRefused(n) /\ poll'[n].todo = poll[n].todo
    <3>1. poll'[n] = x
      BY <1>6, <2>2 DEF PollMove
    <3> QED
      BY <1>18, <2>2, <3>1 DEF PollMove
  <2> QED
    BY <2>1, <2>2, PollMoves
<1>20. CASE MarkDelivered(n)
  <2>1. took' = took /\ poll[n].pc = "next"
    BY <1>20 DEF MarkDelivered
  <2>2. n \notin W /\ (n \in W1 => m = e)
    BY <1>17, <1>18, <1>19, <2>1 DEF WriteRefused
  <2>3. IF e = m THEN o = 1 /\ o1 = 0 ELSE o1 = o
    BY <1>13, <1>17, <1>20, DeliveryRows
  <2> QED
    BY <1>10, <1>13, <1>14, <1>5, <2>1, <2>2, <2>3 DEF One
<1>21. CASE ResetUnsent(n)
  <2>1. took' = took /\ poll[n].pc = "reset" /\ poll'[n].pc \in {"next", "idle"}
    BY <1>6, <1>21 DEF ResetUnsent, Idle, Poll
  <2>2. (n \in W <=> m = e) /\ n \notin W1
    BY <1>18, <2>1
  <2>3. IF e = m THEN o1 = 1 /\ o = 0 ELSE o1 = o
    BY <1>13, <1>17, <1>21, DeliveryRows
  <2> QED
    BY <1>10, <1>13, <1>14, <1>5, <2>1, <2>2, <2>3 DEF One
<1>22. CASE WriteAccepted(n) \/ WriteUncertain(n)
  <2>1. /\ entry' = entry /\ poll[n].pc = "write" /\ poll'[n].pc = "next"
        /\ \E k \in {0, 1} : took' = [took EXCEPT ![m] = @ + k]
    BY <1>6, <1>17, <1>22 DEF WriteAccepted, WriteUncertain, Poll
  <2>2. (n \in W <=> m = e) /\ n \notin W1
    BY <1>18, <2>1
  <2>3. o1 = o /\ took'[e] <= took[e] + One(m = e)
    BY <1>13, <2>1 DEF InboxType, HistoryTypes, One
  <2> QED
    BY <1>10, <1>13, <1>14, <1>15, <1>5, <2>2, <2>3 DEF One
<1>23. CASE WriteRefused(n)
  <2>1. took' = took /\ entry' = entry /\ poll[n].pc = "write"
    BY <1>23 DEF WriteRefused
  <2>2. n \in W1 => n \in W
    BY <1>17, <1>18, <1>19, <2>1 DEF MarkDelivered
  <2> QED
    BY <1>10, <1>13, <1>14, <1>5, <2>1, <2>2 DEF One
<1>24. CASE ~MarkDelivered(n) /\ ~WriteRefused(n) /\ took' = took /\ o1 <= o
  BY <1>5, <1>10, <1>13, <1>14, <1>19, <1>24 DEF One
<1>25. ASSUME NEW r \in Runtimes, PollBegins(n, r) PROVE took' = took /\ o1 = o
  BY <1>13, <1>25 DEF PollBegins
<1>26. ASSUME PollEnds(n) PROVE took' = took /\ o1 = o
  BY <1>13, <1>26 DEF PollEnds
<1>27. ASSUME FlushDone(n) \/ FlushFails(n) PROVE took' = took /\ o1 <= o
  <2>1. took' = took
    BY <1>27 DEF FlushDone, FlushFails
  <2>2. PICK r, S : Commit(r, Max(S), S)
    BY <1>27, FlushCommits, Zenon
  <2>3. entry'[e] = entry[e] \/ entry'[e].st = "acked"
    BY <2>2 DEF Commit
  <2> QED
    BY <1>13, <2>1, <2>3
<1>28. ASSUME Claim(n) PROVE took' = took /\ o1 <= o
  <2>1. took' = took
    BY <1>28 DEF Claim
  <2>2. entry'[e] = entry[e] \/ entry[e].st \in {"pending", "delivering"}
    BY <1>28 DEF Claim, Deliverable
  <2> QED
    BY <1>13, <2>1, <2>2
<1>29. ASSUME DeadLetter(n) PROVE took' = took /\ o1 <= o
  <2>1. took' = took
    BY <1>29 DEF DeadLetter
  <2>2. entry'[e] = entry[e] \/ entry'[e].st = "dead_letter"
    BY <1>17, <1>29, DeliveryRows
  <2> QED
    BY <1>13, <2>1, <2>2
<1> QED
  BY <1>13, <1>20, <1>21, <1>22, <1>23, <1>24, <1>25, <1>26, <1>27, <1>28, <1>29 DEF PollStep

(* The other steps: the admission of seeds turns what is owed into a run   *)
(* that will send it, and a replay by the user raises the limit.           *)
LEMMA RunCredit ==
  ASSUME InboxType, Rows, Credit, HistoryTypes',
         \/ \E r \in Runtimes : RuntimeStep(r)
         \/ \E n \in Nodes : StartRefused(n) \/ Crash(n)
         \/ \E e \in Entries : Append(e) \/ RetryRecoverable(e)
         \/ CancelThread
  PROVE  Credit'
<1> SUFFICES ASSUME NEW e \in Entries
             PROVE  took'[e] + Cardinality(Writers(e)') + Cardinality(Admitted(e)') + Owed(e)'
                      <= 1 + replays'[e]
  BY DEF Credit
<1>1. PICK A : A = Admitted(e)
  OBVIOUS
<1>2. PICK A1 : A1 = Admitted(e)'
  OBVIOUS
<1>3. PICK a : a = Cardinality(A)
  OBVIOUS
<1>4. PICK a1 : a1 = Cardinality(A1)
  OBVIOUS
<1>5. PICK w : w = Cardinality(Writers(e))
  OBVIOUS
<1>6. PICK w1 : w1 = Cardinality(Writers(e)')
  OBVIOUS
<1>7. IsFiniteSet(A) /\ a \in Nat /\ w \in Nat
  BY <1>1, <1>3, <1>5, FiniteHolders, FS_CardinalityType
<1>8. w1 \in Nat /\ w1 <= w
  <2>1. poll' = poll \/ \E n \in Nodes : poll' = [poll EXCEPT ![n] = Idle]
    BY ZenonT(30) DEF RuntimeStep, CreateStarting, ClaimSeeds, StartSeedPhase, Execute, Attach, Heartbeat,
      LeaseRunsOut, RunEnds, CloseFlush, CloseTerminal, ReclaimExpired, StartRefused, Crash, Append,
      RetryRecoverable, CancelThread
  <2>2. Writers(e)' \subseteq Writers(e)
    BY <2>1 DEF Writers, Idle, InboxType, PollTypes
  <2> QED
    BY <1>5, <1>6, <2>2, FiniteHolders, FS_Subset, FS_CardinalityType
<1>9. PICK o : o = Owed(e)
  OBVIOUS
<1>10. PICK o1 : o1 = Owed(e)'
  OBVIOUS
<1>11. /\ o = IF entry[e].st \in {"none", "pending", "delivering"} THEN 1 ELSE 0
       /\ o1 = IF entry'[e].st \in {"none", "pending", "delivering"} THEN 1 ELSE 0
  BY <1>9, <1>10 DEF Owed
<1>12. took[e] + w + a + o <= 1 + replays[e] /\ took[e] \in Nat /\ replays[e] \in Nat
  BY <1>1, <1>3, <1>5, <1>9 DEF Credit, InboxType, HistoryTypes
<1>13. took'[e] \in Nat /\ replays'[e] \in Nat
  BY DEF HistoryTypes
<1>14. SUFFICES a1 \in Nat /\ took'[e] + a1 + o1 + replays[e] <= took[e] + a + o + replays'[e]
  BY <1>2, <1>4, <1>6, <1>7, <1>8, <1>10, <1>11, <1>12, <1>13
<1>15. ASSUME A1 \in SUBSET A PROVE a1 \in Nat /\ a1 <= a
  BY <1>3, <1>4, <1>7, <1>15, FS_Subset, FS_CardinalityType
<1>16. ctl \in [Runtimes -> Controls] /\ seeds \in [Runtimes -> SUBSET Entries]
  BY DEF InboxType, RunTypes
<1>17. /\ A = {q \in Runtimes : ctl[q] = "admitted" /\ e \in seeds[q]}
       /\ A1 = {q \in Runtimes : ctl'[q] = "admitted" /\ e \in seeds'[q]}
  BY <1>1, <1>2 DEF Admitted
<1>18. ASSUME A1 \in SUBSET A, took' = took, o1 <= o, replays'[e] >= replays[e]
       PROVE  a1 \in Nat /\ took'[e] + a1 + o1 + replays[e] <= took[e] + a + o + replays'[e]
  BY <1>7, <1>11, <1>12, <1>13, <1>15, <1>18
<1> DEFINE Quiet == A1 \in SUBSET A /\ took' = took /\ replays'[e] >= replays[e] /\ o1 <= o
<1>19. ASSUME NEW f \in Entries, Append(f) PROVE Quiet
  <2>1. UNCHANGED <<ctl, seeds, took, replays>>
    BY <1>19 DEF Append
  <2>2. entry'[e].st = entry[e].st \/ (entry[e].st = "none" /\ entry'[e].st = "pending")
    <3>1. entry' = [entry EXCEPT ![f].st = "pending"] /\ entry[f].st = "none"
      BY <1>19 DEF Append
    <3>2. entry \in [Entries -> Entry]
      BY DEF InboxType, RowTypes
    <3> QED
      BY <3>1, <3>2 DEF Entry
  <2> QED
    BY <1>11, <1>12, <1>17, <2>1, <2>2
<1>20. ASSUME NEW f \in Entries, RetryRecoverable(f)
       PROVE  a1 \in Nat /\ took'[e] + a1 + o1 + replays[e] <= took[e] + a + o + replays'[e]
  <2>1. UNCHANGED <<ctl, seeds, took>>
    BY <1>20 DEF RetryRecoverable
  <2>2. a1 = a
    BY <1>3, <1>4, <1>17, <2>1
  <2>3. IF e = f THEN o = 0 /\ replays'[e] = replays[e] + 1
                 ELSE o1 = o /\ replays'[e] = replays[e]
    BY <1>11, <1>20 DEF RetryRecoverable, InboxType, RowTypes, HistoryTypes
  <2> QED
    BY <1>7, <1>11, <1>12, <1>13, <2>1, <2>2, <2>3
<1>21. ASSUME CancelThread PROVE Quiet
  BY <1>11, <1>12, <1>17, <1>21 DEF CancelThread
<1>22. ASSUME NEW n \in Nodes, StartRefused(n) PROVE Quiet
  BY <1>11, <1>12, <1>17, <1>22 DEF StartRefused
<1>23. ASSUME NEW n \in Nodes, Crash(n) PROVE Quiet
  <2>1. A1 \in SUBSET A
    BY <1>16, <1>17, <1>23 DEF Crash
  <2> QED
    BY <1>11, <1>12, <1>23, <2>1 DEF Crash
<1>24. ASSUME NEW R, entry' = Released(R) PROVE o1 <= o
  <2>1. \/ entry'[e] = entry[e]
        \/ entry[e].st = "delivering"
        \/ entry'[e].st = "unknown_delivery"
    BY <1>24, ReleasedOK DEF Rows
  <2> QED
    BY <1>11, <2>1
<1>25. ASSUME NEW r \in Runtimes, NEW n \in Nodes, NEW S, CreateStarting(n, r, S) PROVE Quiet
  <2>1. took' = took /\ replays' = replays /\ o1 <= o
    BY <1>24, <1>25 DEF CreateStarting
  <2>2. A1 \in SUBSET A
    BY <1>16, <1>17, <1>25 DEF CreateStarting
  <2> QED
    BY <1>12, <2>1, <2>2
<1>26. ASSUME NEW r \in Runtimes, ClaimSeeds(r) PROVE Quiet
  <2>1. entry'[e] = entry[e] \/ entry[e].st = "pending"
    BY <1>26 DEF ClaimSeeds
  <2>2. A1 \in SUBSET A
    BY <1>16, <1>17, <1>26 DEF ClaimSeeds
  <2> QED
    BY <1>11, <1>12, <1>26, <2>1, <2>2 DEF ClaimSeeds
<1>27. ASSUME NEW r \in Runtimes, NEW b, \A q \in Runtimes \ {r} : q \in A1 <=> q \in A,
              b = One(r \in A1)
       PROVE  a1 \in Nat /\ a1 + One(r \in A) = a + b
  <2>1. A \ {r} = A1 \ {r}
    BY <1>17, <1>27
  <2> QED
    BY <1>3, <1>4, <1>7, <1>27, <2>1, CardMove
<1>28. ASSUME NEW r \in Runtimes, StartSeedPhase(r)
       PROVE  a1 \in Nat /\ took'[e] + a1 + o1 + replays[e] <= took[e] + a + o + replays'[e]
  <2>1. took' = took /\ replays' = replays /\ seeds' = seeds /\ ctl[r] = "claimed"
    BY <1>28 DEF StartSeedPhase
  <2>2. PICK c : ctl' = [ctl EXCEPT ![r] = c]
    BY <1>28, Zenon DEF StartSeedPhase
  <2>3. /\ \A q \in Runtimes \ {r} : q \in A1 <=> q \in A
        /\ r \notin A /\ (r \in A1 => e \in seeds[r])
    BY <1>16, <1>17, <2>1, <2>2
  <2>4. a1 \in Nat /\ a1 = a + One(r \in A1)
    BY <1>7, <1>27, <2>3 DEF One
  <2>5. IF e \in seeds[r] THEN o = 1 /\ o1 = 0 ELSE o1 = o
    BY <1>11, <1>28, SeedRows
  <2> QED
    BY <1>7, <1>11, <1>12, <2>1, <2>3, <2>4, <2>5 DEF One
<1>29. ASSUME NEW r \in Runtimes, Execute(r)
       PROVE  a1 \in Nat /\ took'[e] + a1 + o1 + replays[e] <= took[e] + a + o + replays'[e]
  <2>1. /\ entry' = entry /\ replays' = replays
        /\ ctl' = [ctl EXCEPT ![r] = "running"] /\ seeds' = [seeds EXCEPT ![r] = {}]
        /\ ctl[r] = "admitted" \/ seeds[r] = {}
        /\ took'[e] = took[e] + One(e \in seeds[r])
    BY <1>29 DEF Execute, One
  <2>2. /\ \A q \in Runtimes \ {r} : q \in A1 <=> q \in A
        /\ r \notin A1 /\ (e \in seeds[r] => r \in A)
    BY <1>16, <1>17, <2>1
  <2>3. a1 \in Nat /\ a1 + One(r \in A) = a
    BY <1>7, <1>27, <2>2 DEF One
  <2> QED
    BY <1>7, <1>11, <1>12, <2>1, <2>2, <2>3 DEF One
<1>30. ASSUME NEW r \in Runtimes, Attach(r) \/ Heartbeat(r) \/ LeaseRunsOut(r) PROVE Quiet
  <2>1. UNCHANGED <<entry, ctl, seeds, took, replays>>
    BY <1>30 DEF Attach, Heartbeat, LeaseRunsOut
  <2> QED
    BY <1>11, <1>12, <1>17, <2>1
<1>31. ASSUME NEW r \in Runtimes, RunEnds(r) PROVE Quiet
  <2>1. UNCHANGED <<entry, took, replays>>
    BY <1>31 DEF RunEnds
  <2>2. A1 \in SUBSET A
    BY <1>16, <1>17, <1>31 DEF RunEnds
  <2> QED
    BY <1>11, <1>12, <2>1, <2>2
<1>32. ASSUME NEW r \in Runtimes, CloseFlush(r) PROVE Quiet
  <2>1. UNCHANGED <<seeds, took, replays>> /\ ctl' = [ctl EXCEPT ![r] = "closing"]
    BY <1>32 DEF CloseFlush
  <2>2. A1 \in SUBSET A
    BY <1>16, <1>17, <2>1
  <2>3. entry'[e] = entry[e] \/ entry'[e].st = "acked"
    <3>1. entry' = entry \/ \E S : Commit(r, Max(S), S)
      BY <1>32, CloseCommits, Zenon
    <3>2. ASSUME NEW S, Commit(r, Max(S), S) PROVE entry'[e] = entry[e] \/ entry'[e].st = "acked"
      <4>1. entry'[e] = IF e \in S THEN [st |-> "acked", rt |-> r] ELSE entry[e]
        BY <3>2 DEF Commit
      <4> QED
        BY <4>1
    <3> QED
      BY <3>1, <3>2
  <2> QED
    BY <1>11, <1>12, <2>1, <2>2, <2>3
<1>33. ASSUME NEW r \in Runtimes, CloseTerminal(r) \/ ReclaimExpired(r) PROVE Quiet
  <2>1. UNCHANGED <<seeds, took, replays>> /\ (ctl' = ctl \/ ctl' = [ctl EXCEPT ![r] = "gone"])
    BY <1>33 DEF CloseTerminal, ReclaimExpired
  <2>2. A1 \in SUBSET A
    BY <1>16, <1>17, <2>1
  <2>3. o1 <= o
    BY <1>11, <1>24, <1>33 DEF CloseTerminal, ReclaimExpired
  <2> QED
    BY <1>12, <2>1, <2>2, <2>3
<1> QED
  BY <1>18, <1>19, <1>20, <1>21, <1>22, <1>23, <1>25, <1>26, <1>28, <1>29, <1>30, <1>31, <1>32, <1>33
    DEF RuntimeStep

(* Before the first append every entry is owed once.                       *)
LEMMA CreditInit == InboxInit => Credit
<1> SUFFICES ASSUME InboxInit PROVE Credit
  OBVIOUS
<1>1. /\ \A e \in Entries : entry[e].st = "none" /\ took[e] = 0 /\ replays[e] = 0
      /\ \A r \in Runtimes : ctl[r] = "none"
      /\ \A n \in Nodes : poll[n].pc = "idle"
  BY DEF InboxInit, Idle
<1> SUFFICES ASSUME NEW e \in Entries
             PROVE  took[e] + Cardinality(Writers(e)) + Cardinality(Admitted(e)) + Owed(e) <= 1 + replays[e]
  BY DEF Credit
<1>2. Writers(e) = {} /\ Admitted(e) = {}
  BY <1>1 DEF Writers, Admitted
<1>3. Owed(e) = 1
  BY <1>1 DEF Owed
<1>4. Cardinality({}) = 0
  BY FS_EmptySet
<1> QED
  BY <1>1, <1>2, <1>3, <1>4

(* No step sends more than is owed.                                        *)
LEMMA CreditStep == InboxInv /\ InboxInv' /\ Credit /\ [InboxNext]_inboxVars => Credit'
<1> SUFFICES ASSUME InboxInv, InboxInv', Credit, [InboxNext]_inboxVars PROVE Credit'
  OBVIOUS
<1>1. InboxType /\ Rows /\ HistoryTypes'
  BY DEF InboxInv, InboxType, Rows, Memory
<1>2. CASE InboxNext
  <2>1. \/ \E n \in Nodes : PollStep(n)
        \/ \/ \E r \in Runtimes : RuntimeStep(r)
           \/ \E n \in Nodes : StartRefused(n) \/ Crash(n)
           \/ \E e \in Entries : Append(e) \/ RetryRecoverable(e)
           \/ CancelThread
    BY <1>2 DEF InboxNext
  <2> QED
    BY <1>1, <2>1, PollCredit, RunCredit
<1>3. CASE UNCHANGED inboxVars
  BY <1>3, Zenon DEF inboxVars, Credit, Writers, Admitted, Owed
<1> QED
  BY <1>2, <1>3

LEMMA CreditInvariant == InboxSpec => []Credit
  BY CreditInit, CreditStep, InboxInvariant, PTL DEF InboxSpec

(* The agent receives an entry at most once more than its replay was asked *)
(* for, for any number of entries, runtimes, nodes and retries.            *)
THEOREM NeverReplaysSilently == InboxSpec => []NoSilentReplay
<1>1. InboxInv /\ Credit => NoSilentReplay
  <2> SUFFICES ASSUME InboxInv, Credit, NEW e \in Entries PROVE took[e] <= 1 + replays[e]
    BY DEF NoSilentReplay
  <2>1. took[e] \in Nat /\ replays[e] \in Nat
    BY DEF InboxInv, Memory, HistoryTypes
  <2>2. PICK w, a, o : /\ w = Cardinality(Writers(e)) /\ a = Cardinality(Admitted(e)) /\ o = Owed(e)
    OBVIOUS
  <2>3. w \in Nat /\ a \in Nat
    BY <2>2, FiniteHolders, FS_CardinalityType
  <2>4. o \in Nat
    BY <2>2 DEF Owed
  <2>5. took[e] + w + a + o <= 1 + replays[e]
    BY <2>2 DEF Credit
  <2> QED
    BY <2>1, <2>3, <2>4, <2>5
<1> QED
  BY <1>1, InboxInvariant, CreditInvariant, PTL

=============================================================================
