----------------------- MODULE AutomationTargetProofs -----------------------
(***************************************************************************)
(* Two facts about AutomationTarget, proved for every number of runs,      *)
(* pushes, deliveries and old answers: the head that a target has observed *)
(* goes back to an earlier push only for an old answer of GitHub           *)
(* (HeadKept), and a turn that is still live owns the session of its       *)
(* generation (TurnOwnsSession).                                           *)
(*                                                                         *)
(* The first rests on HeadInv: the times of deliveries and lookups never   *)
(* run ahead of GitHub's, and a lookup that is still usable and was not    *)
(* old when it was given is no older than the target row. The second rests *)
(* on OwnInv: at most one run of a target executes, its generation exists  *)
(* and still owns its session, and every turn row fits the run it belongs  *)
(* to.                                                                     *)
(***************************************************************************)
EXTENDS AutomationTarget, TLAPS

(* Leaves are given half a minute of each prover. *)
USE SMTT(30), ZenonT(30)


(* The rows and messages, as their columns and Go types say.               *)
Delivery == [kind : Kinds, head : Nat, at : Nat]
TargetRow == [life : {"open", "closed", "merged"}, seen : Nat, head : Nat,
              headAt : Nat, epoch : Nat, tie : BOOLEAN]
ArrivalNumbers == {0} \union {Cardinality(S) + 1 : S \in SUBSET Runs}
RunRow == [st : {"none", "pending", "executing", "superseded", "perrun", "done"},
           no : ArrivalNumbers, epoch : Nat, res : {"none", "auth", "amb", "unres"},
           resolved : Nat, gen : Nat]
Generation == [st : {"active", "retired"}, release : BOOLEAN, reviewed : Nat,
               epoch : Nat, owned : BOOLEAN, hold : BOOLEAN, busy : BOOLEAN]
Lookup == [ok : BOOLEAN, open : BOOLEAN, head : Nat, at : Nat, old : BOOLEAN]
Turn == [job : {"none", "pending", "running", "lapsed", "over"},
         ph : {"none", "start", "turn", "marked"},
         mark : {"none", "reviewed", "await", "ended"}, late : BOOLEAN]

PullRequest == [state : {"open", "closed", "merged"}, head : Nat, at : Nat]

HeadTypeOK ==
  /\ pr \in Seq(PullRequest) /\ Len(pr) > 0
  /\ sent \in Seq(Delivery)
  /\ target \in TargetRow
  /\ look \in [Runs -> Lookup]

-----------------------------------------------------------------------------
(* The later of two timestamps.                                             *)
LEMMA MaxOfTwo ==
  ASSUME NEW a \in Nat, NEW b \in Nat
  PROVE  Max({a, b}) \in Nat /\ Max({a, b}) >= a /\ Max({a, b}) >= b
<1>1. \E x \in {a, b} : \A y \in {a, b} : x >= y
  OBVIOUS
<1>2. Max({a, b}) \in {a, b} /\ \A y \in {a, b} : Max({a, b}) >= y
  BY <1>1, Zenon DEF Max
<1> QED
  BY <1>2

(* u is a row with the head of t.                                          *)
KeepsHead(t, u) ==
  u \in TargetRow /\ u.head = t.head /\ u.headAt = t.headAt /\ u.epoch = t.epoch

(* SetLifecycleObserved moves the lifecycle, never the head.               *)
LEMMA LifecycleType ==
  ASSUME NEW t \in TargetRow, NEW s \in {"open", "closed", "merged"}, NEW at \in Nat
  PROVE  KeepsHead(t, SetLifecycleObserved(t, s, at))
<1>1. t.seen \in Nat
  BY DEF TargetRow
<1>2. Max({t.seen, at}) \in Nat
  BY <1>1, MaxOfTwo
<1> QED
  BY <1>1, <1>2, Zenon DEF KeepsHead, SetLifecycleObserved, TargetRow

(* What AdoptHead and TouchObservedHead do to the head of a row.           *)
LEMMA HeadTypes ==
  ASSUME NEW t \in TargetRow, NEW h \in Nat, NEW at \in Nat
  PROVE  /\ AdoptHead(t, h, at) \in TargetRow
         /\ AdoptHead(t, h, at).head = h /\ AdoptHead(t, h, at).headAt = at
         /\ AdoptHead(t, h, at).epoch = t.epoch + 1
         /\ TouchObservedHead(t, at) \in TargetRow
         /\ TouchObservedHead(t, at).head = t.head
         /\ TouchObservedHead(t, at).epoch = t.epoch
         /\ TouchObservedHead(t, at).headAt >= t.headAt
<1>1. t.headAt \in Nat /\ t.epoch + 1 \in Nat
  BY DEF TargetRow
<1>2. Max({t.headAt, at}) \in Nat /\ Max({t.headAt, at}) >= t.headAt
  BY <1>1, MaxOfTwo
<1>3. /\ AdoptHead(t, h, at) \in TargetRow
      /\ AdoptHead(t, h, at).head = h /\ AdoptHead(t, h, at).headAt = at
      /\ AdoptHead(t, h, at).epoch = t.epoch + 1
  BY <1>1, Zenon DEF AdoptHead, TargetRow
<1>4. /\ TouchObservedHead(t, at) \in TargetRow
      /\ TouchObservedHead(t, at).head = t.head
      /\ TouchObservedHead(t, at).epoch = t.epoch
      /\ TouchObservedHead(t, at).headAt >= t.headAt
  BY <1>2 DEF TouchObservedHead, TargetRow
<1> QED
  BY <1>3, <1>4

(* How the head of t may move to that of u: not at all, or to the head of  *)
(* a later delivery, or to that of a lookup.                               *)
HeadStep(t, u) ==
  /\ u \in TargetRow
  /\ \/ u.head = t.head /\ u.headAt >= t.headAt /\ u.epoch = t.epoch
     \/ \E i \in DOMAIN sent :
          /\ sent[i].kind # "comment" /\ sent[i].at > t.headAt
          /\ u.head = sent[i].head /\ u.headAt = sent[i].at /\ u.epoch = t.epoch + 1
     \/ \E q \in Runs :
          /\ look[q].ok
          /\ u.head = look[q].head /\ u.headAt = look[q].at /\ u.epoch = t.epoch + 1

(* What the head rules of a dispatch do to the head.                       *)
LEMMA ResolvedTarget ==
  ASSUME HeadTypeOK, NEW r \in Runs
  PROVE  HeadStep(target, ResolveHead(r).target)
<1>1. target \in TargetRow
  BY DEF HeadTypeOK
<1>2. PICK l \in Lookup : l = look[r]
  BY DEF HeadTypeOK
<1>3. PICK h \in Nat, at \in Nat : h = l.head /\ at = l.at
  BY DEF Lookup
<1>4. PICK a, b : a = AdoptHead(target, h, at) /\ b = TouchObservedHead(target, at)
  OBVIOUS
<1>5. /\ a \in TargetRow /\ a.head = h /\ a.headAt = at /\ a.epoch = target.epoch + 1
      /\ b \in TargetRow /\ b.head = target.head /\ b.headAt >= target.headAt
      /\ b.epoch = target.epoch
  <2>1. /\ AdoptHead(target, h, at) \in TargetRow
        /\ AdoptHead(target, h, at).head = h /\ AdoptHead(target, h, at).headAt = at
        /\ AdoptHead(target, h, at).epoch = target.epoch + 1
    <3>1. target.epoch + 1 \in Nat
      BY <1>1 DEF TargetRow
    <3> QED
      BY <1>1, <1>3, <3>1, Zenon DEF AdoptHead, TargetRow
  <2>2. /\ TouchObservedHead(target, at) \in TargetRow
        /\ TouchObservedHead(target, at).head = target.head
        /\ TouchObservedHead(target, at).epoch = target.epoch
        /\ TouchObservedHead(target, at).headAt >= target.headAt
    BY <1>1, <1>3, HeadTypes, ZenonT(60)
  <2> QED
    BY <1>4, <2>1, <2>2, Zenon
<1>6. \/ ResolveHead(r).target = target
      \/ /\ l.ok
         /\ \/ ResolveHead(r).target = [a EXCEPT !.tie = @ /\ ~IsPush(r)]
            \/ ResolveHead(r).target = [b EXCEPT !.tie = @ /\ ~IsPush(r)]
  BY <1>2, <1>3, <1>4 DEF ResolveHead
<1>7. CASE ResolveHead(r).target = target
  BY <1>1, <1>7 DEF TargetRow, HeadStep
<1>8. CASE l.ok /\ ResolveHead(r).target = [a EXCEPT !.tie = @ /\ ~IsPush(r)]
  BY <1>1, <1>2, <1>3, <1>5, <1>8, Zenon DEF TargetRow, HeadStep
<1>9. CASE ResolveHead(r).target = [b EXCEPT !.tie = @ /\ ~IsPush(r)]
  BY <1>1, <1>5, <1>9, Zenon DEF TargetRow, HeadStep
<1> QED
  BY <1>6, <1>7, <1>8, <1>9

(* What a delivery does to the lifecycle leaves the head alone.             *)
LEMMA ArrivalKeepsHead ==
  ASSUME HeadTypeOK, NEW d \in Delivery
  PROVE  KeepsHead(target, ArrivalLifecycle(d))
<1>1. target \in TargetRow
  BY DEF HeadTypeOK
<1>2. PICK at \in Nat : at = d.at
  BY DEF Delivery
<1>3. PICK t : t = CASE d.kind = "reopened" /\ target.life # "open"
                          /\ Accepts(target, "open", d.at) ->
                            SetLifecycleObserved(target, "open", d.at)
                     [] d.kind = "merged" /\ target.life # "merged" ->
                            SetLifecycleObserved(target, "merged", d.at)
                     [] OTHER -> target
  OBVIOUS
<1>4. KeepsHead(target, target)
  BY <1>1 DEF KeepsHead
<1>5. KeepsHead(target, t)
  BY <1>1, <1>2, <1>3, <1>4, LifecycleType
<1>6. t \in TargetRow
  BY <1>5 DEF KeepsHead
<1>7. KeepsHead(t, SetLifecycleObserved(t, "open", at))
  BY <1>2, <1>6, LifecycleType
<1>8. KeepsHead(target, SetLifecycleObserved(t, "open", at))
  BY <1>5, <1>7 DEF KeepsHead
<1> QED
  BY <1>2, <1>3, <1>5, <1>8 DEF ArrivalLifecycle

(* What the head rules of an arrival do to the head.                       *)
LEMMA ObservedTarget ==
  ASSUME HeadTypeOK, NEW r \in DOMAIN sent, NEW t, KeepsHead(target, t), NEW new
  PROVE  HeadStep(target, ObserveHead(r, t, new).target)
<1>1. t \in TargetRow /\ target \in TargetRow
  BY DEF HeadTypeOK, KeepsHead
<1>2. PICK d \in Delivery : d = sent[r]
  BY DEF HeadTypeOK
<1>3. PICK h \in Nat, at \in Nat : h = d.head /\ at = d.at
  BY DEF Delivery
<1>4. t.epoch + 1 \in Nat
  BY <1>1 DEF TargetRow
<1>5. ASSUME d.kind \in {"push", "reopened"}, at > t.headAt
      PROVE  HeadStep(target, AdoptHead(t, h, at))
  BY <1>1, <1>2, <1>3, <1>4, <1>5, Zenon DEF HeadStep, KeepsHead, AdoptHead, TargetRow
<1>6. HeadStep(target, TouchObservedHead(t, at))
  <2>1. /\ TouchObservedHead(t, at) \in TargetRow
        /\ TouchObservedHead(t, at).head = t.head
        /\ TouchObservedHead(t, at).epoch = t.epoch
        /\ TouchObservedHead(t, at).headAt >= t.headAt
    BY <1>1, <1>3, HeadTypes, Zenon
  <2> QED
    BY <1>1, <2>1 DEF HeadStep, KeepsHead
<1>7. HeadStep(target, t) /\ HeadStep(target, [t EXCEPT !.tie = TRUE])
  <2>1. t.headAt \in Nat /\ t.headAt = target.headAt
    BY <1>1 DEF KeepsHead, TargetRow
  <2>2. PICK u : u = [t EXCEPT !.tie = TRUE]
    BY Zenon
  <2>3. KeepsHead(target, u)
    BY <1>1, <2>2, Zenon DEF KeepsHead, TargetRow
  <2> QED
    BY <2>1, <2>2, <2>3 DEF HeadStep, KeepsHead
<1>8. \/ /\ d.kind \in {"push", "reopened"} /\ at > t.headAt
         /\ ObserveHead(r, t, new).target = AdoptHead(t, h, at)
      \/ ObserveHead(r, t, new).target
            \in {t, TouchObservedHead(t, at), [t EXCEPT !.tie = TRUE]}
  BY <1>2, <1>3 DEF ObserveHead
<1> QED
  BY <1>5, <1>6, <1>7, <1>8, Zenon

-----------------------------------------------------------------------------
(* What a step may do to the heads that the system has seen.               *)

LooksKept == \A q \in Runs : look'[q] \in {look[q], NoLook}
Cleared == \A q \in Runs : look'[q] = NoLook

HeadEffect ==
  \/ GitHub
  \/ \E r \in Runs : LookUp(r)
  \/ /\ pr' = pr /\ sent' = sent /\ look' \in [Runs -> Lookup]
     /\ \/ KeepsHead(target, target') /\ LooksKept
        \/ HeadStep(target, target') /\ Cleared

(* Writing the target row makes every earlier lookup stale.                *)
LEMMA Looks ==
  ASSUME HeadTypeOK
  PROVE  /\ NoLook \in Lookup
         /\ ChangedSince(look) \in [Runs -> Lookup]
         /\ \A q \in Runs : ChangedSince(look)[q] = NoLook
BY DEF HeadTypeOK, NoLook, Lookup, ChangedSince

(* A dispatch uses up the lookup of its run; if it writes the target row,  *)
(* it makes all the others stale as well.                                  *)
LEMMA LookUsedEffect ==
  ASSUME HeadTypeOK, NEW r \in Runs, NEW w \in BOOLEAN, LookUsed(r, w)
  PROVE  look' \in [Runs -> Lookup] /\ LooksKept /\ (w => Cleared)
<1>1. CASE w
  BY <1>1, Looks DEF LookUsed, LooksKept, Cleared
<1>2. CASE ~w
  BY <1>2, Looks DEF LookUsed, LooksKept, HeadTypeOK
<1> QED
  BY <1>1, <1>2

(* A target row left alone keeps its head.                                 *)
LEMMA SameTarget == HeadTypeOK => KeepsHead(target, target)
BY DEF HeadTypeOK, KeepsHead

(* A row with the head of t has moved from it by nothing.                  *)
LEMMA KeptIsStep ==
  ASSUME NEW t \in TargetRow, NEW u, KeepsHead(t, u)
  PROVE  HeadStep(t, u)
<1>1. t.headAt \in Nat
  BY DEF TargetRow
<1> QED
  BY <1>1 DEF KeepsHead, HeadStep

(* A delivery of recordTargetArrival moves the head forward or not at all. *)
LEMMA ArriveHead ==
  ASSUME HeadTypeOK, NEW r \in Runs, Arrive(r)
  PROVE  HeadEffect
<1>1. r \in DOMAIN sent /\ sent[r] \in Delivery
  BY DEF Arrive, HeadTypeOK
<1>2. PICK t : t = ArrivalLifecycle(sent[r])
  OBVIOUS
<1>3. KeepsHead(target, t)
  BY <1>1, <1>2, ArrivalKeepsHead
<1>4. HeadStep(target, t)
  BY <1>3, KeptIsStep DEF HeadTypeOK
<1>5. PICK new : new = [NoRun EXCEPT !.st = "pending", !.no = Cardinality(Arrived) + 1]
  OBVIOUS
<1>6. HeadStep(target, ObserveHead(r, t, new).target)
  BY <1>1, <1>3, ObservedTarget
<1>7. target' \in {t, ObserveHead(r, t, new).target}
  BY <1>2, <1>5 DEF Arrive
<1>8. \/ look' = ChangedSince(look)
      \/ look' = look /\ target' = target
  BY DEF Arrive
<1>9. pr' = pr /\ sent' = sent
  BY DEF Arrive
<1>10. CASE look' = ChangedSince(look)
  BY <1>4, <1>6, <1>7, <1>9, <1>10, Looks DEF HeadEffect, Cleared
<1>11. CASE look' = look /\ target' = target
  BY <1>9, <1>11, SameTarget DEF HeadEffect, LooksKept, HeadTypeOK
<1> QED
  BY <1>8, <1>10, <1>11

(* So does a dispatch, which may adopt the head its lookup found.          *)
LEMMA DispatchHead ==
  ASSUME HeadTypeOK, NEW r \in Runs, DispatchClosed(r) \/ DispatchWait(r) \/ Dispatch(r)
  PROVE  HeadEffect
<1> USE SameTarget
<1>1. target \in TargetRow /\ look[r] \in Lookup
  BY DEF HeadTypeOK
<1>2. HeadStep(target, ResolveHead(r).target)
  BY ResolvedTarget
<1>3. PICK x : x = ResolveHead(r).target
  OBVIOUS
<1>4. x \in TargetRow /\ HeadStep(target, x)
  BY <1>2, <1>3 DEF HeadStep
<1>5. CASE DispatchClosed(r)
  <2>1. pr' = pr /\ sent' = sent
    BY <1>5 DEF DispatchClosed
  <2>2. CASE LookUsed(r, FALSE) /\ target' = target
    BY <2>1, <2>2, LookUsedEffect, Zenon DEF HeadEffect
  <2>3. CASE LookUsed(r, TRUE) /\ target' = SetLifecycleObserved(target, "closed", look[r].at)
    <3>1. look[r].at \in Nat
      BY <1>1 DEF Lookup
    <3>2. KeepsHead(target, target')
      BY <1>1, <2>3, <3>1, LifecycleType
    <3> QED
      BY <2>1, <2>3, <3>2, LookUsedEffect, Zenon DEF HeadEffect
  <2> QED
    BY <1>5, <2>2, <2>3, Zenon DEF DispatchClosed
<1>6. CASE DispatchWait(r)
  <2>1. pr' = pr /\ sent' = sent /\ target' = x /\ LookUsed(r, x # target)
    BY <1>3, <1>6 DEF DispatchWait
  <2>2. look' \in [Runs -> Lookup] /\ LooksKept /\ (x # target => Cleared)
    BY <2>1, LookUsedEffect, Zenon
  <2> QED
    BY <1>4, <2>1, <2>2 DEF HeadEffect
<1>7. CASE Dispatch(r)
  <2>1. pr' = pr /\ sent' = sent
    BY <1>7 DEF Dispatch
  <2>2. CASE target' = x /\ LookUsed(r, x # target)
    <3>1. look' \in [Runs -> Lookup] /\ LooksKept /\ (x # target => Cleared)
      BY <2>2, LookUsedEffect, Zenon
    <3> QED
      BY <1>4, <2>1, <2>2, <3>1 DEF HeadEffect
  <2>3. CASE /\ target' \in {x, SetLifecycleObserved(x, target.life, look[r].at)}
             /\ LookUsed(r, TRUE)
    <3>1. look[r].at \in Nat /\ target.life \in {"open", "closed", "merged"}
      BY <1>1 DEF Lookup, TargetRow
    <3>2. KeepsHead(x, SetLifecycleObserved(x, target.life, look[r].at))
      BY <1>4, <3>1, LifecycleType
    <3>3. HeadStep(target, SetLifecycleObserved(x, target.life, look[r].at))
      BY <1>4, <3>2 DEF HeadStep, KeepsHead
    <3>4. look' \in [Runs -> Lookup] /\ Cleared
      BY <2>3, LookUsedEffect, Zenon
    <3> QED
      BY <1>4, <2>1, <2>3, <3>3, <3>4 DEF HeadEffect
  <2> QED
    BY <1>3, <1>7, <2>2, <2>3, ZenonT(60) DEF Dispatch
<1> QED
  BY <1>5, <1>6, <1>7

(* The notices and the sweeps leave the head alone.                        *)
LEMMA QuietHead ==
  ASSUME HeadTypeOK, pr' = pr, sent' = sent, KeepsHead(target, target'),
         look' = look \/ TargetWritten \/ \E r \in Runs : look' = [look EXCEPT ![r] = NoLook]
  PROVE  HeadEffect
BY Looks DEF HeadTypeOK, HeadEffect, TargetWritten, LooksKept

(* The notices that close or reopen a pull request keep the head.          *)
LEMMA NoticeHead ==
  ASSUME HeadTypeOK, NEW i \in Runs, ApplyPullRequestClosed(i) \/ ReopenTarget(i)
  PROVE  HeadEffect
<1>1. i \in DOMAIN sent /\ sent[i] \in Delivery
  BY DEF ApplyPullRequestClosed, ReopenTarget, HeadTypeOK
<1>2. PICK at \in Nat : at = sent[i].at
  BY <1>1 DEF Delivery
<1>3. \E s \in {"open", "closed", "merged"} : target' = SetLifecycleObserved(target, s, at)
  BY <1>2 DEF ApplyPullRequestClosed, ReopenTarget, Kind
<1>4. KeepsHead(target, target')
  BY <1>2, <1>3, LifecycleType DEF HeadTypeOK
<1>5. pr' = pr /\ sent' = sent /\ TargetWritten
  BY DEF ApplyPullRequestClosed, ReopenTarget
<1> QED
  BY <1>4, <1>5, QuietHead

(* Every step is GitHub's, a lookup, or moves the head forward or not at   *)
(* all.                                                                    *)
LEMMA StepHead ==
  ASSUME HeadTypeOK, [Next]_vars
  PROVE  HeadEffect
<1> USE SameTarget, QuietHead
<1>1. CASE UNCHANGED vars
  BY <1>1 DEF vars
<1>2. CASE GitHub \/ \E r \in Runs : LookUp(r)
  BY <1>2 DEF HeadEffect
<1>3. ASSUME NEW r \in Runs, Arrive(r)
      PROVE  HeadEffect
  BY <1>3, ArriveHead
<1>4. ASSUME NEW r \in Runs, DispatchClosed(r) \/ DispatchWait(r) \/ Dispatch(r)
      PROVE  HeadEffect
  BY <1>4, DispatchHead
<1>5. ASSUME NEW r \in Runs, ClaimPendingForPerRun(r) \/ PerRunEnds(r)
      PROVE  HeadEffect
  BY <1>5 DEF ClaimPendingForPerRun, PerRunEnds
<1>6. ASSUME NEW r \in Runs,
             \/ ClaimJob(r) \/ LeaseLapses(r) \/ RenewLease(r) \/ ReclaimJob(r)
             \/ HandlerReturns(r) \/ ClaimAttempt(r) \/ StartTurn(r) \/ ReleaseTurnHold(r)
             \/ EndAttempt(r)
      PROVE  HeadEffect
  <2>1. UNCHANGED <<pr, sent, target, look>>
    BY <1>6, Zenon DEF ClaimJob, LeaseLapses, RenewLease, ReclaimJob, HandlerReturns, ClaimAttempt,
                StartTurn, ReleaseTurnHold, EndAttempt
  <2> QED
    BY <2>1
<1>7. ASSUME NEW r \in Runs,
             \/ UnsupportedWorkspace(r) \/ CompletePreflight(r) \/ Complete(r)
             \/ RecoverAbandonedRun(r)
      PROVE  HeadEffect
  BY <1>7 DEF UnsupportedWorkspace, CompletePreflight, Complete, RecoverAbandonedRun
<1>8. ASSUME NEW r \in Runs, ApplyPullRequestClosed(r) \/ ReopenTarget(r)
      PROVE  HeadEffect
  BY <1>8, NoticeHead
<1>9. CASE FailTimedOutWaits \/ SwitchToPerRun \/ \E g \in DOMAIN gen : ReleaseStrandedOwnership(g)
  BY <1>9, ZenonT(30) DEF FailTimedOutWaits, SwitchToPerRun, ReleaseStrandedOwnership
<1>10. CASE ResolveAmbiguityDeadline
  <2>1. KeepsHead(target, target')
    BY <1>10, Zenon DEF ResolveAmbiguityDeadline, HeadTypeOK, KeepsHead, TargetRow
  <2> QED
    BY <1>10, <2>1, ZenonT(30) DEF ResolveAmbiguityDeadline
<1> QED
  BY <1>1, <1>2, <1>3, <1>4, <1>5, <1>6, <1>7, <1>8, <1>9, <1>10 DEF Next

-----------------------------------------------------------------------------
(* Why no head is taken back.  GitHub's timestamps never decrease, so of    *)
(* two deliveries that carry a head the one with the larger timestamp has   *)
(* the later head; a head that was adopted, or looked up, with timestamp    *)
(* at is at least as late as that of every delivery not newer than at.      *)

Carries(i) == i \in DOMAIN sent /\ sent[i].kind # "comment"

Above(h, at) == \A i \in DOMAIN sent : Carries(i) /\ sent[i].at > at => sent[i].head >= h

Bounded == \A i \in DOMAIN sent : sent[i].at <= Current.at /\ sent[i].head <= Current.head

Monotone ==
  \A i, j \in DOMAIN sent : i < j /\ Carries(i) /\ Carries(j) =>
    sent[i].at <= sent[j].at /\ sent[i].head <= sent[j].head

(* What GitHub may answer, now or as an old answer.                         *)
PastSound == \A i \in DOMAIN pr : pr[i].head <= Current.head /\ Above(pr[i].head, pr[i].at)

TargetSound == target.head <= Current.head /\ Above(target.head, target.headAt)

LookSound ==
  \A r \in Runs : look[r].ok =>
    /\ look[r].head <= Current.head /\ Above(look[r].head, look[r].at)
    /\ ~look[r].old => target.head <= look[r].head

HeadInv == HeadTypeOK /\ Bounded /\ Monotone /\ PastSound /\ TargetSound /\ LookSound

(* The head moves forward, or to that of an old answer.                     *)
HeadForward ==
  target'.head < target.head => \E r \in Runs : look[r].old /\ look[r].head = target'.head

(* The current state of the pull request.                                   *)
LEMMA CurrentType ==
  ASSUME HeadTypeOK
  PROVE  /\ Len(pr) \in DOMAIN pr /\ Current \in PullRequest
         /\ Current.head \in Nat /\ Current.at \in Nat
         /\ Current.state \in {"open", "closed", "merged"}
<1>1. Len(pr) \in DOMAIN pr /\ Current \in PullRequest
  BY DEF HeadTypeOK, Current
<1> QED
  BY <1>1 DEF PullRequest

(* The fields of a delivery.                                                *)
LEMMA DeliveryTypes ==
  HeadTypeOK => \A i \in DOMAIN sent : sent[i].at \in Nat /\ sent[i].head \in Nat
<1> SUFFICES ASSUME HeadTypeOK, NEW i \in DOMAIN sent
             PROVE  sent[i].at \in Nat /\ sent[i].head \in Nat
  OBVIOUS
<1>1. sent[i] \in Delivery
  BY DEF HeadTypeOK
<1> QED
  BY <1>1 DEF Delivery

(* The head observed so far is nothing before the first delivery.           *)
LEMMA HeadInit == Init => HeadInv
<1> SUFFICES ASSUME Init PROVE HeadInv
  OBVIOUS
<1>1. HeadTypeOK
  BY DEF Init, HeadTypeOK, TargetRow, Lookup, NoLook, PullRequest
<1>2. DOMAIN sent = {}
  BY DEF Init
<1>3. \A r \in Runs : ~look[r].ok
  BY DEF Init, NoLook
<1>4. Current.head = 1 /\ target.head = 0 /\ \A i \in DOMAIN pr : pr[i].head = 1
  BY DEF Init, Current
<1> QED
  BY <1>1, <1>2, <1>3, <1>4
     DEF HeadInv, Bounded, Monotone, PastSound, TargetSound, LookSound, Above

(* A delivery that GitHub makes is the newest one.                          *)
LEMMA GitHubHead ==
  ASSUME HeadInv, GitHub
  PROVE  HeadInv' /\ target' = target
<1>1. PICK k \in Kinds, at \in {Current.at, Current.at + 1},
           h \in {Current.head, Current.head + 1} :
        /\ pr' = Append(pr, [state |-> StateAfter(k), head |-> h, at |-> at])
        /\ sent' = Append(sent, [kind |-> k, head |-> IF k = "comment" THEN 0 ELSE h,
                                 at |-> IF k = "comment" THEN 0 ELSE at])
  BY DEF GitHub
<1>2. /\ Current.head \in Nat /\ Current.at \in Nat
      /\ Current.state \in {"open", "closed", "merged"}
  BY CurrentType DEF HeadInv
<1>3. h \in Nat /\ at \in Nat /\ h >= Current.head /\ at >= Current.at
  BY <1>1, <1>2
<1>4. PICK d : d = [kind |-> k, head |-> IF k = "comment" THEN 0 ELSE h,
                    at |-> IF k = "comment" THEN 0 ELSE at]
  BY Zenon
<1>5. d \in Delivery /\ d.kind = k /\ d.head <= h /\ d.at <= at
      /\ (k # "comment" => d.head = h /\ d.at = at)
  BY <1>3, <1>4 DEF Delivery
<1>6. StateAfter(k) \in {"open", "closed", "merged"}
  BY <1>2 DEF StateAfter
<1>7. UNCHANGED <<target, look>>
  BY DEF GitHub
<1>8. PICK p \in PullRequest : p = [state |-> StateAfter(k), head |-> h, at |-> at]
  BY <1>3, <1>6 DEF PullRequest
<1>20. p.head = h /\ p.at = at
  BY <1>8
<1>21. /\ pr' \in Seq(PullRequest) /\ Len(pr') = Len(pr) + 1 /\ pr'[Len(pr) + 1] = p
       /\ \A i \in DOMAIN pr' : i = Len(pr) + 1 \/ (i \in DOMAIN pr /\ pr'[i] = pr[i])
       /\ Len(pr) \in Nat
  BY <1>1, <1>8 DEF HeadInv, HeadTypeOK
<1>22. Current' = p /\ Current'.head = h /\ Current'.at = at
  BY <1>20, <1>21 DEF Current
<1>9. sent \in Seq(Delivery) /\ sent' = Append(sent, d)
  BY <1>1, <1>4 DEF HeadInv, HeadTypeOK
<1>10. PICK n \in Nat : n = Len(sent) + 1
  BY <1>9
<1>11. /\ DOMAIN sent = 1..(n - 1) /\ DOMAIN sent' = 1..n
       /\ sent'[n] = d /\ \A i \in DOMAIN sent : sent'[i] = sent[i]
  BY <1>9, <1>10
<1>12. HeadTypeOK'
  BY <1>5, <1>7, <1>9, <1>21 DEF HeadInv, HeadTypeOK
<1>13. \A i \in DOMAIN sent : sent[i].at \in Nat /\ sent[i].head \in Nat
  BY DeliveryTypes DEF HeadInv
<1>14. Bounded'
  <2> SUFFICES ASSUME NEW i \in DOMAIN sent'
               PROVE  sent'[i].at <= Current'.at /\ sent'[i].head <= Current'.head
    BY DEF Bounded
  <2>1. CASE i = n
    BY <1>5, <1>22, <1>11, <2>1
  <2>2. CASE i \in DOMAIN sent
    BY <1>2, <1>3, <1>22, <1>11, <1>13, <2>2 DEF HeadInv, Bounded
  <2> QED
    BY <1>10, <1>11, <2>1, <2>2
<1>15. Monotone'
  <2> SUFFICES ASSUME NEW i \in DOMAIN sent', NEW j \in DOMAIN sent', i < j,
                      sent'[i].kind # "comment", sent'[j].kind # "comment"
               PROVE  sent'[i].at <= sent'[j].at /\ sent'[i].head <= sent'[j].head
    BY DEF Monotone, Carries
  <2>1. i \in DOMAIN sent
    BY <1>10, <1>11
  <2>2. CASE j = n
    <3>1. sent[i].at <= Current.at /\ sent[i].head <= Current.head
      BY <2>1 DEF HeadInv, Bounded
    <3> QED
      BY <1>2, <1>3, <1>5, <1>11, <1>13, <2>1, <2>2, <3>1
  <2>3. CASE j \in DOMAIN sent
    BY <1>11, <2>1, <2>3 DEF HeadInv, Monotone, Carries
  <2> QED
    BY <1>10, <1>11, <2>2, <2>3
<1>16. ASSUME NEW x \in Nat, NEW y \in Nat, x <= Current.head, Above(x, y)
       PROVE  \A i \in DOMAIN sent' :
                sent'[i].kind # "comment" /\ sent'[i].at > y => sent'[i].head >= x
  <2> SUFFICES ASSUME NEW i \in DOMAIN sent', sent'[i].kind # "comment", sent'[i].at > y
               PROVE  sent'[i].head >= x
    OBVIOUS
  <2>1. CASE i = n
    BY <1>2, <1>3, <1>5, <1>11, <1>16, <2>1
  <2>2. CASE i \in DOMAIN sent
    BY <1>11, <1>16, <2>2 DEF Above, Carries
  <2> QED
    BY <1>10, <1>11, <2>1, <2>2
<1>17. TargetSound'
  <2>1. target.head \in Nat /\ target.headAt \in Nat
    BY DEF HeadInv, HeadTypeOK, TargetRow
  <2>2. target.head <= Current.head /\ Above(target.head, target.headAt)
    BY DEF HeadInv, TargetSound
  <2> QED
    BY <1>2, <1>3, <1>7, <1>16, <1>22, <2>1, <2>2 DEF TargetSound, Above, Carries
<1>18. LookSound'
  <2> SUFFICES ASSUME NEW r \in Runs, look[r].ok
               PROVE  /\ ~look[r].old => target.head <= look[r].head
                      /\ look[r].head <= Current'.head
                      /\ \A i \in DOMAIN sent' :
                           sent'[i].kind # "comment" /\ sent'[i].at > look[r].at =>
                             sent'[i].head >= look[r].head
    BY <1>7 DEF LookSound, Above, Carries
  <2>1. look[r].head \in Nat /\ look[r].at \in Nat
    BY DEF HeadInv, HeadTypeOK, Lookup
  <2>2. /\ ~look[r].old => target.head <= look[r].head
        /\ look[r].head <= Current.head /\ Above(look[r].head, look[r].at)
    BY DEF HeadInv, LookSound
  <2> QED
    BY <1>2, <1>3, <1>16, <1>22, <2>1, <2>2
<1>19. PastSound'
  <2> SUFFICES ASSUME NEW j \in DOMAIN pr'
               PROVE  /\ pr'[j].head <= Current'.head
                      /\ \A i \in DOMAIN sent' :
                           sent'[i].kind # "comment" /\ sent'[i].at > pr'[j].at =>
                             sent'[i].head >= pr'[j].head
    BY DEF PastSound, Above, Carries
  <2>1. CASE j = Len(pr) + 1
    <3>1. \A i \in DOMAIN sent' : sent'[i].at \in Nat /\ sent'[i].at <= at
      <4>1. ASSUME NEW i \in DOMAIN sent' PROVE sent'[i] \in Delivery
        BY <1>12 DEF HeadTypeOK
      <4> QED
        BY <1>14, <1>22, <4>1 DEF Bounded, Delivery
    <3> QED
      BY <1>3, <1>20, <1>21, <1>22, <2>1, <3>1
  <2>2. CASE j \in DOMAIN pr /\ pr'[j] = pr[j]
    <3>1. pr[j].head \in Nat /\ pr[j].at \in Nat
      <4>1. pr[j] \in PullRequest
        BY <2>2 DEF HeadInv, HeadTypeOK
      <4> QED
        BY <4>1 DEF PullRequest
    <3>2. pr[j].head <= Current.head /\ Above(pr[j].head, pr[j].at)
      BY <2>2 DEF HeadInv, PastSound
    <3> QED
      BY <1>2, <1>3, <1>16, <1>22, <2>2, <3>1, <3>2
  <2> QED
    BY <1>21, <2>1, <2>2
<1> QED
  BY <1>7, <1>12, <1>14, <1>15, <1>17, <1>18, <1>19 DEF HeadInv

(* A lookup answers the current head or an earlier one, and says which.     *)
LEMMA LookUpHead ==
  ASSUME HeadInv, NEW r \in Runs, LookUp(r)
  PROVE  HeadInv' /\ target' = target
<1>1. Current.head \in Nat /\ target.head \in Nat
  BY CurrentType DEF HeadInv, HeadTypeOK, TargetRow
<1>2. PICK i \in DOMAIN pr, old \in BOOLEAN :
        /\ ~old => pr[i] = Current
        /\ look' = [look EXCEPT ![r] = [ok |-> TRUE, open |-> pr[i].state = "open",
                                        head |-> pr[i].head, at |-> pr[i].at, old |-> old]]
  <2>1. PICK i \in DOMAIN pr :
          look' = [look EXCEPT ![r] = [ok |-> TRUE, open |-> pr[i].state = "open",
                                       head |-> pr[i].head, at |-> pr[i].at,
                                       old |-> pr[i] # Current]]
    BY Zenon DEF LookUp
  <2> QED
    BY <2>1, Zenon
<1>3. pr[i].head \in Nat /\ pr[i].at \in Nat
  <2>1. pr[i] \in PullRequest
    BY DEF HeadInv, HeadTypeOK
  <2> QED
    BY <2>1 DEF PullRequest
<1>4. PICK l : l = [ok |-> TRUE, open |-> pr[i].state = "open",
                    head |-> pr[i].head, at |-> pr[i].at, old |-> old]
  BY Zenon
<1>5. l \in Lookup /\ l.head = pr[i].head /\ l.at = pr[i].at /\ l.old = old
  BY <1>3, <1>4 DEF Lookup
<1>6. look' = [look EXCEPT ![r] = l] /\ UNCHANGED <<pr, sent, target>> /\ Current' = Current
  BY <1>2, <1>4 DEF LookUp, Current
<1>7. HeadTypeOK'
  BY <1>5, <1>6 DEF HeadInv, HeadTypeOK
<1>8. Bounded' /\ Monotone' /\ PastSound' /\ TargetSound'
  BY <1>6 DEF HeadInv, Bounded, Monotone, PastSound, TargetSound, Above, Carries
<1>9. LookSound'
  <2> SUFFICES ASSUME NEW q \in Runs, look'[q].ok
               PROVE  /\ look'[q].head <= Current.head /\ Above(look'[q].head, look'[q].at)
                      /\ ~look'[q].old => target.head <= look'[q].head
    BY <1>6 DEF LookSound, Above, Carries
  <2>1. CASE q = r
    <3>1. look'[q] = l
      BY <1>6, <2>1 DEF HeadInv, HeadTypeOK
    <3> QED
      BY <1>1, <1>2, <1>5, <3>1 DEF HeadInv, PastSound, TargetSound
  <2>2. CASE q # r
    <3>1. look'[q] = look[q]
      BY <1>6, <2>2 DEF HeadInv, HeadTypeOK
    <3> QED
      BY <3>1 DEF HeadInv, LookSound
  <2> QED
    BY <2>1, <2>2
<1> QED
  BY <1>6, <1>7, <1>8, <1>9 DEF HeadInv

(* No other step moves the head back, but to an old answer.                 *)
LEMMA OtherHead ==
  ASSUME HeadInv, pr' = pr, sent' = sent, look' \in [Runs -> Lookup],
         \/ KeepsHead(target, target') /\ LooksKept
         \/ HeadStep(target, target') /\ Cleared
  PROVE  HeadInv' /\ HeadForward
<1>1. /\ target \in TargetRow /\ target' \in TargetRow
      /\ target.head \in Nat /\ target.headAt \in Nat
      /\ target'.head \in Nat /\ target'.headAt \in Nat
  BY DEF HeadInv, HeadTypeOK, TargetRow, KeepsHead, HeadStep
<1>2. \A i \in DOMAIN sent : sent[i].at \in Nat /\ sent[i].head \in Nat
  BY DeliveryTypes DEF HeadInv
<1>3. Current' = Current /\ HeadTypeOK' /\ Bounded' /\ Monotone' /\ PastSound'
  BY <1>1 DEF HeadInv, HeadTypeOK, Bounded, Monotone, Carries, PastSound, Above, Current
<1>4. target.head <= Current.head /\ Above(target.head, target.headAt)
  BY DEF HeadInv, TargetSound
<1>5. ~NoLook.ok
  BY DEF NoLook
<1>6. SUFFICES /\ HeadForward /\ target'.head <= Current.head
               /\ Above(target'.head, target'.headAt)
               /\ \A q \in Runs : look'[q].ok =>
                    look'[q] = look[q] /\ target'.head = target.head
  <2>1. TargetSound'
    BY <1>3, <1>6 DEF TargetSound, Above, Carries
  <2>2. LookSound'
    BY <1>3, <1>6 DEF HeadInv, LookSound, Above, Carries
  <2> QED
    BY <1>1, <1>3, <1>6, <2>1, <2>2 DEF HeadInv
<1>7. CASE KeepsHead(target, target') /\ LooksKept
  BY <1>1, <1>4, <1>5, <1>7 DEF KeepsHead, LooksKept, HeadForward
<1>8. CASE HeadStep(target, target') /\ Cleared
  <2>1. \A q \in Runs : ~look'[q].ok
    BY <1>5, <1>8 DEF Cleared
  <2>2. CASE target'.head = target.head /\ target'.headAt >= target.headAt
    BY <1>1, <1>2, <1>4, <2>1, <2>2 DEF Above, HeadForward
  <2>3. ASSUME NEW i \in DOMAIN sent, sent[i].kind # "comment", sent[i].at > target.headAt,
               target'.head = sent[i].head, target'.headAt = sent[i].at
        PROVE  /\ HeadForward /\ target'.head <= Current.head
               /\ Above(target'.head, target'.headAt)
    <3>1. Carries(i)
      BY <2>3 DEF Carries
    <3>2. target.head <= sent[i].head
      BY <1>1, <1>2, <1>4, <2>3, <3>1 DEF Above
    <3>3. sent[i].head <= Current.head
      BY DEF HeadInv, Bounded
    <3>4. ASSUME NEW j \in DOMAIN sent, Carries(j), sent[j].at > sent[i].at
          PROVE  sent[j].head >= sent[i].head
      <4>1. i \in Nat /\ j \in Nat
        BY DEF HeadInv, HeadTypeOK
      <4>2. ~(j < i) /\ i # j
        BY <1>2, <3>1, <3>4 DEF HeadInv, Monotone
      <4> QED
        BY <1>2, <3>1, <3>4, <4>1, <4>2 DEF HeadInv, Monotone
    <3> QED
      BY <1>1, <2>3, <3>2, <3>3, <3>4 DEF Above, HeadForward
  <2>4. ASSUME NEW q \in Runs, look[q].ok,
               target'.head = look[q].head, target'.headAt = look[q].at
        PROVE  /\ HeadForward /\ target'.head <= Current.head
               /\ Above(target'.head, target'.headAt)
    <3>1. /\ look[q].head <= Current.head /\ Above(look[q].head, look[q].at)
          /\ look[q].old \/ target.head <= look[q].head
      BY <2>4 DEF HeadInv, LookSound
    <3> QED
      BY <1>1, <2>4, <3>1 DEF HeadForward
  <2> QED
    BY <1>8, <2>1, <2>2, <2>3, <2>4 DEF HeadStep
<1> QED
  BY <1>7, <1>8

(* Every step keeps the invariant and takes the head back only to an old    *)
(* answer.                                                                  *)
LEMMA HeadInductive ==
  ASSUME HeadInv, [Next]_vars
  PROVE  HeadInv' /\ HeadForward
<1>1. HeadEffect
  BY StepHead DEF HeadInv
<1>2. target.head \in Nat
  BY DEF HeadInv, HeadTypeOK, TargetRow
<1>3. CASE GitHub
  BY <1>2, <1>3, GitHubHead DEF HeadForward
<1>4. ASSUME NEW r \in Runs, LookUp(r)
      PROVE  HeadInv' /\ HeadForward
  BY <1>2, <1>4, LookUpHead DEF HeadForward
<1>5. CASE /\ pr' = pr /\ sent' = sent /\ look' \in [Runs -> Lookup]
           /\ \/ KeepsHead(target, target') /\ LooksKept
              \/ HeadStep(target, target') /\ Cleared
  BY <1>5, OtherHead
<1> QED
  BY <1>1, <1>3, <1>4, <1>5 DEF HeadEffect

(* The head that a target has observed goes back to an earlier push only    *)
(* when GitHub gave an old answer, for any number of deliveries, however    *)
(* late or out of order they arrive: the timestamp tests of                 *)
(* recordTargetArrival and the discarding of lookups older than the target  *)
(* row are enough for the others.                                           *)
THEOREM HeadKept == Spec => HeadNeverRegresses
<1>1. Init => HeadInv
  BY HeadInit
<1>2. HeadInv /\ [Next]_vars => HeadInv'
  BY HeadInductive
<1>3. HeadInv /\ [Next]_vars => [HeadForward]_vars
  BY HeadInductive
<1> QED
  BY <1>1, <1>2, <1>3, PTL DEF Spec, HeadNeverRegresses, HeadForward

-----------------------------------------------------------------------------
(* The session of a run that executes is owned by its generation.           *)

GenSound(x) == (x.st = "active" => x.owned) /\ (x.release => x.st = "retired")

GenOK(rs, gs) ==
  /\ gs \in Seq(Generation)
  /\ \A g \in DOMAIN gs : GenSound(gs[g])
  /\ \A r \in Executing(rs) : rs[r].gen \in DOMAIN gs /\ gs[rs[r].gen].owned

(* Setting one generation.                                                  *)
LEMMA GenSet ==
  ASSUME NEW gs \in Seq(Generation), NEW g \in DOMAIN gs, NEW x \in Generation
  PROVE  /\ [gs EXCEPT ![g] = x] \in Seq(Generation)
         /\ DOMAIN [gs EXCEPT ![g] = x] = DOMAIN gs
         /\ [gs EXCEPT ![g] = x][g] = x
         /\ \A k \in DOMAIN gs : k # g => [gs EXCEPT ![g] = x][k] = gs[k]
OBVIOUS

(* Changing one generation in a way that leaves the executing run its      *)
(* session.                                                                *)
LEMMA GenSetOK ==
  ASSUME NEW rs, NEW gs, GenOK(rs, gs), NEW g \in DOMAIN gs, NEW x \in Generation,
         GenSound(x), x.owned \/ \A r \in Executing(rs) : rs[r].gen # g,
         NEW G, G = [gs EXCEPT ![g] = x]
  PROVE  GenOK(rs, G) /\ DOMAIN G = DOMAIN gs
<1>1. /\ G \in Seq(Generation) /\ DOMAIN G = DOMAIN gs /\ G[g] = x
      /\ \A k \in DOMAIN gs : k # g => G[k] = gs[k]
  BY GenSet DEF GenOK
<1> QED
  BY <1>1 DEF GenOK

(* Retiring a generation waits for the turn that runs in it.                *)
LEMMA RetireOK ==
  ASSUME NEW rs, NEW gs, GenOK(rs, gs), NEW g \in DOMAIN gs
  PROVE  /\ GenOK(rs, RetireGeneration(gs, g, rs))
         /\ DOMAIN RetireGeneration(gs, g, rs) = DOMAIN gs
<1>1. CASE gs[g].st # "active"
  BY <1>1 DEF RetireGeneration
<1>2. CASE gs[g].st = "active"
  <2>1. gs[g] \in Generation
    BY DEF GenOK
  <2>2. PICK wait \in BOOLEAN : wait <=> gs[g].hold \/ \E r \in Executing(rs) : rs[r].gen = g
    BY Zenon
  <2>3. PICK x : x = [gs[g] EXCEPT !.st = "retired", !.release = wait, !.owned = @ /\ wait]
    OBVIOUS
  <2>4. RetireGeneration(gs, g, rs) = [gs EXCEPT ![g] = x]
    BY <1>2, <2>2, <2>3, Zenon DEF RetireGeneration
  <2>5. x \in Generation /\ x.st = "retired" /\ (x.owned <=> gs[g].owned /\ wait)
    BY <2>1, <2>2, <2>3, Zenon DEF Generation
  <2>6. GenSound(x) /\ (x.owned \/ \A r \in Executing(rs) : rs[r].gen # g)
    BY <1>2, <2>2, <2>5 DEF GenSound, GenOK
  <2> QED
    BY <2>4, <2>5, <2>6, GenSetOK, Zenon
<1> QED
  BY <1>1, <1>2

(* Retiring the active generation leaves the executing run its session.    *)
LEMMA RetireActiveOK ==
  ASSUME NEW rs, NEW gs, GenOK(rs, gs)
  PROVE  GenOK(rs, RetireActive(gs, rs)) /\ DOMAIN RetireActive(gs, rs) = DOMAIN gs
<1>1. CASE ActiveGenerations(gs) = {}
  BY <1>1 DEF RetireActive
<1>2. CASE ActiveGenerations(gs) # {}
  <2>1. PICK g : g = CHOOSE h \in ActiveGenerations(gs) : TRUE
    OBVIOUS
  <2>2. g \in DOMAIN gs
    BY <1>2, <2>1, Zenon DEF ActiveGenerations
  <2>3. RetireActive(gs, rs) = RetireGeneration(gs, g, rs)
    BY <1>2, <2>1 DEF RetireActive
  <2> QED
    BY <2>2, <2>3, RetireOK
<1> QED
  BY <1>1, <1>2

(* So does the retirement that follows the end of the last run.            *)
LEMMA RetireTerminalOK ==
  ASSUME NEW rs, NEW gs, GenOK(rs, gs), NEW t
  PROVE  /\ GenOK(rs, RetireTerminalTarget(t, gs, rs))
         /\ DOMAIN RetireTerminalTarget(t, gs, rs) = DOMAIN gs
BY RetireActiveOK DEF RetireTerminalTarget

(* A pending release gives the session away when no turn is left in it.     *)
LEMMA ReleaseOK ==
  ASSUME NEW rs, NEW gs, GenOK(rs, gs), NEW g \in DOMAIN gs,
         \A r \in Executing(rs) : rs[r].gen # g
  PROVE  /\ GenOK(rs, ApplyPendingOwnershipRelease(gs, g))
         /\ DOMAIN ApplyPendingOwnershipRelease(gs, g) = DOMAIN gs
<1>1. CASE ~gs[g].release
  BY <1>1 DEF ApplyPendingOwnershipRelease
<1>2. CASE gs[g].release
  <2>1. gs[g] \in Generation
    BY DEF GenOK
  <2>2. PICK x : x = [gs[g] EXCEPT !.release = FALSE, !.owned = FALSE]
    OBVIOUS
  <2>3. ApplyPendingOwnershipRelease(gs, g) = [gs EXCEPT ![g] = x]
    BY <1>2, <2>2, Zenon DEF ApplyPendingOwnershipRelease
  <2>4. x \in Generation /\ GenSound(x)
    BY <1>2, <2>1, <2>2, Zenon DEF GenOK, Generation, GenSound
  <2> QED
    BY <2>3, <2>4, GenSetOK, Zenon
<1> QED
  BY <1>1, <1>2

(* The marks of a turn change nobody's ownership.                           *)
SameOwner(x, y) == y.st = x.st /\ y.owned = x.owned /\ y.release = x.release

(* The marks of a turn leave the generations sound.                        *)
LEMMA FlagsOK ==
  ASSUME NEW rs, NEW gs, GenOK(rs, gs), NEW g \in DOMAIN gs, NEW x \in Generation,
         SameOwner(gs[g], x), NEW G, G = [gs EXCEPT ![g] = x]
  PROVE  GenOK(rs, G) /\ DOMAIN G = DOMAIN gs
<1>1. GenSound(x)
  BY DEF GenOK, GenSound, SameOwner
<1>2. x.owned \/ \A r \in Executing(rs) : rs[r].gen # g
  BY DEF GenOK, SameOwner
<1> QED
  BY <1>1, <1>2, GenSetOK, Zenon

-----------------------------------------------------------------------------
(* Runs that are superseded, stamped or ended before they start leave the   *)
(* one that executes where it is.                                           *)

RunType == [Runs -> RunRow]

Idle == {"none", "pending"}

RowStays(x, y) ==
  /\ y \in RunRow
  /\ x.st = "none" => y.st = "none"
  /\ y.st = "executing" <=> x.st = "executing"
  /\ x.st \notin Idle => y.st \notin Idle /\ y.gen = x.gen

Stays(rs, us) == us \in RunType /\ \A q \in Runs : RowStays(rs[q], us[q])

(* A run that is left alone stays what it is.                              *)
LEMMA StaysRefl == \A rs \in RunType : Stays(rs, rs)
BY DEF Stays, RowStays, RunType

(* Two such changes make one.                                              *)
LEMMA StaysTrans ==
  ASSUME NEW rs, NEW us, NEW vs, Stays(rs, us), Stays(us, vs)
  PROVE  Stays(rs, vs)
BY DEF Stays, RowStays

(* Changing one run that way changes the whole map that way.               *)
LEMMA StaysRow ==
  ASSUME NEW rs \in RunType, NEW q \in Runs, NEW x, RowStays(rs[q], x),
         NEW us, us = [rs EXCEPT ![q] = x]
  PROVE  Stays(rs, us)
BY StaysRefl DEF Stays, RowStays, RunType

(* The stamp of a head on a run.                                            *)
LEMMA StampStays ==
  ASSUME NEW rs \in RunType, NEW q, NEW e \in Nat, NEW h \in Nat
  PROVE  Stays(rs, Stamp(rs, q, e, h))
<1>0. CASE q \notin Runs
  <2>1. Stamp(rs, q, e, h) = rs
    BY <1>0 DEF Stamp, RunType
  <2> QED
    BY <2>1, StaysRefl
<1> SUFFICES ASSUME q \in Runs
             PROVE  Stays(rs, Stamp(rs, q, e, h))
  BY <1>0
<1>1. rs[q] \in RunRow
  BY DEF RunType
<1>2. PICK x : x = [rs[q] EXCEPT !.epoch = e, !.res = "auth", !.resolved = h]
  OBVIOUS
<1>3. RowStays(rs[q], x)
  BY <1>1, <1>2, Zenon DEF RowStays, RunRow
<1>4. Stamp(rs, q, e, h) = [rs EXCEPT ![q] = x]
  BY <1>2, Zenon DEF Stamp, RunType
<1> QED
  BY <1>3, <1>4, StaysRow, Zenon

(* A pending run may end without ever executing.                           *)
LEMMA Superseded ==
  ASSUME NEW x \in RunRow, x.st = "pending", NEW s \in {"superseded", "perrun", "done"}
  PROVE  RowStays(x, [x EXCEPT !.st = s])
<1>1. PICK y : y = [x EXCEPT !.st = s]
  BY Zenon
<1>2. y \in RunRow /\ y.st = s
  BY <1>1 DEF RunRow
<1>3. y.st # "executing"
  BY <1>2
<1>4. RowStays(x, y)
  BY <1>2, <1>3 DEF RowStays, Idle
<1> QED
  BY <1>1, <1>4

(* Ending a set of pending runs starts and ends no execution.              *)
LEMMA EndStays ==
  ASSUME NEW rs \in RunType, NEW S \in SUBSET Unstarted(rs),
         NEW s \in {"superseded", "perrun", "done"},
         NEW us, us = [q \in Runs |-> IF q \in S THEN [rs[q] EXCEPT !.st = s] ELSE rs[q]]
  PROVE  Stays(rs, us)
<1>1. ASSUME NEW q \in Runs
      PROVE  RowStays(rs[q], us[q])
  <2>1. rs[q] \in RunRow /\ RowStays(rs[q], rs[q])
    BY StaysRefl DEF RunType, Stays
  <2>2. CASE q \in S
    BY <2>1, <2>2, Superseded, Zenon DEF Unstarted
  <2>3. CASE q \notin S
    BY <2>1, <2>3
  <2> QED
    BY <2>2, <2>3
<1>2. us \in RunType
  BY <1>1 DEF RowStays, RunType
<1> QED
  BY <1>1, <1>2 DEF Stays

(* SupersedeWaitingPush ends pending runs only, and never the one it is    *)
(* called for.                                                             *)
LEMMA SupersedeStays ==
  ASSUME NEW rs \in RunType, NEW n, NEW e
  PROVE  /\ Stays(rs, SupersedeWaitingPush(rs, n, e))
         /\ n \in Unstarted(rs) => n \in Unstarted(SupersedeWaitingPush(rs, n, e))
<1>1. PICK S : S = {q \in Unstarted(rs) : q # n /\ IsPush(q) /\ rs[q].epoch \in 1..(e - 1)}
  BY Zenon
<1>2. SupersedeWaitingPush(rs, n, e)
        = [q \in Runs |-> IF q \in S THEN [rs[q] EXCEPT !.st = "superseded"] ELSE rs[q]]
  BY <1>1 DEF SupersedeWaitingPush, Unstarted
<1>3. S \in SUBSET Unstarted(rs) /\ n \notin S
  BY <1>1
<1>4. Stays(rs, SupersedeWaitingPush(rs, n, e))
  BY <1>2, <1>3, EndStays, Zenon
<1>5. n \in Unstarted(rs) => n \in Unstarted(SupersedeWaitingPush(rs, n, e))
  BY <1>2, <1>3 DEF Unstarted
<1> QED
  BY <1>4, <1>5

(* What the head rules of a dispatch leave of the runs.                     *)
LEMMA ResolvedRuns ==
  ASSUME HeadTypeOK, run \in RunType, NEW r \in Unstarted(run), r \in DOMAIN sent
  PROVE  Stays(run, ResolveHead(r).run) /\ ResolveHead(r).head \in Nat
         /\ ResolveHead(r).epoch \in Nat
<1> r \in Runs /\ run[r] \in RunRow /\ run[r].st = "pending"
  BY DEF Unstarted, RunType
<1>1. PICK l \in Lookup : l = look[r]
  BY DEF HeadTypeOK
<1>2. PICK h \in Nat, at \in Nat : h = l.head /\ at = l.at
  BY DEF Lookup
<1>3. PICK t : t = IF target.head # h THEN AdoptHead(target, h, at)
                   ELSE TouchObservedHead(target, at)
  OBVIOUS
<1>4. PICK e \in Nat : e = t.epoch
  <2>1. target.epoch \in Nat /\ target.epoch + 1 \in Nat
    BY DEF HeadTypeOK, TargetRow
  <2>2. t.epoch \in {target.epoch, target.epoch + 1}
    BY <1>3, <2>1 DEF HeadTypeOK, TargetRow, AdoptHead, TouchObservedHead
  <2> QED
    BY <2>1, <2>2
<1>5. PICK rs : rs = IF target.head # h THEN SupersedeWaitingPush(run, r, e) ELSE run
  OBVIOUS
<1>6. Stays(run, rs) /\ r \in Unstarted(rs) /\ rs \in RunType
  <2>1. Stays(run, rs) /\ r \in Unstarted(rs)
    BY <1>5, SupersedeStays, StaysRefl
  <2> QED
    BY <2>1 DEF Stays
<1>7. PICK c : c = AmbiguousCandidates(rs)
  OBVIOUS
<1>8. PICK s : s = Survivor(r, OwnHead(r), h, target.head # h, c)
  OBVIOUS
<1>9. PICK us : us = [q \in Runs |-> IF q \in (c \cup {r}) \ {s}
                                    THEN [rs[q] EXCEPT !.st = "superseded"] ELSE rs[q]]
  BY Zenon
<1>10. Stays(run, us) /\ us \in RunType
  <2>1. (c \cup {r}) \ {s} \in SUBSET Unstarted(rs)
    BY <1>6, <1>7 DEF AmbiguousCandidates
  <2>2. Stays(rs, us)
    BY <1>6, <1>9, <2>1, EndStays, Zenon
  <2>3. Stays(run, us)
    BY <1>6, <2>2, StaysTrans
  <2> QED
    BY <2>3 DEF Stays
<1>11. Stays(run, Stamp(rs, r, e, h)) /\ Stays(run, Stamp(us, s, e, h))
  <2>1. Stays(rs, Stamp(rs, r, e, h)) /\ Stays(us, Stamp(us, s, e, h))
    BY <1>6, <1>10, StampStays
  <2> QED
    BY <1>6, <1>10, <2>1, StaysTrans
<1>12. ResolveHead(r).run \in {run, us, Stamp(rs, r, e, h), Stamp(us, s, e, h)}
  BY <1>1, <1>2, <1>3, <1>4, <1>5, <1>7, <1>8, <1>9, ZenonT(60) DEF ResolveHead
<1>13. Stays(run, ResolveHead(r).run)
  BY <1>10, <1>11, <1>12, StaysRefl
<1>14. ResolveHead(r).head \in {sent[r].head, run[r].resolved, h}
  BY <1>1, <1>2 DEF ResolveHead, OwnHead
<1>15. ResolveHead(r).epoch \in {run[r].epoch, e}
  BY <1>1, <1>2, <1>3, <1>4 DEF ResolveHead
<1>16. run[r].resolved \in Nat /\ run[r].epoch \in Nat
  BY DEF RunRow
<1>17. sent[r].head \in Nat
  <2>1. sent[r] \in Delivery
    BY DEF HeadTypeOK
  <2> QED
    BY <2>1 DEF Delivery
<1> QED
  BY <1>13, <1>14, <1>15, <1>16, <1>17

(* The row of a run that has arrived.                                       *)
LEMMA NewRow ==
  ASSUME NEW new, new = [NoRun EXCEPT !.st = "pending", !.no = Cardinality(Arrived) + 1]
  PROVE  new \in RunRow /\ new.st = "pending"
<1>1. Arrived \in SUBSET Runs
  BY DEF Arrived
<1>2. Cardinality(Arrived) + 1 \in ArrivalNumbers
  BY <1>1, Zenon DEF ArrivalNumbers
<1> QED
  BY <1>2, Zenon DEF NoRun, RunRow

(* A delivery adds its own run, which does not execute yet, and starts and *)
(* ends no other execution.                                                *)
LEMMA ArriveStays ==
  ASSUME HeadTypeOK, run \in RunType, NEW r \in Runs, Arrive(r),
         KeepsHead(target, ArrivalLifecycle(sent[r]))
  PROVE  /\ run' \in RunType /\ run'[r].st # "executing"
         /\ \A q \in Runs \ {r} : RowStays(run[q], run'[q])
<1>1. run[r].st = "none" /\ run[r] \in RunRow
  BY DEF Arrive, RunType
<1>2. PICK t : t = ArrivalLifecycle(sent[r])
  OBVIOUS
<1>3. t \in TargetRow /\ t.epoch \in Nat
  BY <1>2 DEF KeepsHead, TargetRow
<1>4. PICK new : new = [NoRun EXCEPT !.st = "pending", !.no = Cardinality(Arrived) + 1]
  OBVIOUS
<1>5. new \in RunRow /\ new.st = "pending"
  BY <1>4, NewRow
<1>6. PICK us : us = [run EXCEPT ![r] = new]
  BY Zenon
<1>7. us \in RunType /\ us[r] = new /\ \A q \in Runs \ {r} : us[q] = run[q]
  BY <1>5, <1>6 DEF RunType
<1>8. PICK e \in Nat : e = t.epoch + 1
  BY <1>3
<1>9. AdoptHead(t, sent[r].head, sent[r].at).epoch = e
  BY <1>3, <1>8 DEF AdoptHead, TargetRow
<1>10. PICK a, b, c, d :
         /\ a = [new EXCEPT !.st = "done"]
         /\ b = [new EXCEPT !.epoch = e, !.res = "auth"]
         /\ c = [new EXCEPT !.epoch = t.epoch, !.res = "auth"]
         /\ d = [new EXCEPT !.res = "amb"]
  BY Zenon
<1>11. \A x \in {new, a, b, c, d} : RowStays(new, x)
  <2>1. \A x \in {new, a, b, c, d} : x \in RunRow /\ x.st \in {"pending", "done"}
    BY <1>3, <1>5, <1>8, <1>10, ZenonT(60) DEF RunRow
  <2> QED
    BY <1>5, <2>1 DEF RowStays, Idle
<1>12. PICK mine : mine = [us EXCEPT ![r] = b]
  BY Zenon
<1>13. \/ run' = SupersedeWaitingPush(mine, r, e)
       \/ \E x \in {new, a, b, c, d} : run' = [us EXCEPT ![r] = x]
  <2>1. \/ run' = [us EXCEPT ![r] = a]
        \/ run' = ObserveHead(r, t, new).run
    BY <1>2, <1>4, <1>6, <1>10, Zenon DEF Arrive, RunType
  <2>2. [us EXCEPT ![r].epoch = e, ![r].res = "auth"] = mine
    BY <1>7, <1>10, <1>12, Zenon DEF RunType
  <2>3. [us EXCEPT ![r].epoch = t.epoch, ![r].res = "auth"]
          = [us EXCEPT ![r] = c]
    BY <1>7, <1>10, Zenon DEF RunType
  <2>4. /\ [us EXCEPT ![r].st = "done"] = [us EXCEPT ![r] = a]
        /\ [us EXCEPT ![r].res = "amb"] = [us EXCEPT ![r] = d]
    BY <1>7, <1>10 DEF RunType
  <2>5. ObserveHead(r, t, new).run
           \in {SupersedeWaitingPush(mine, r, e), mine, [us EXCEPT ![r] = c],
                [us EXCEPT ![r] = a], [us EXCEPT ![r] = d], us}
    BY <1>6, <1>9, <2>2, <2>3, <2>4, ZenonT(60) DEF ObserveHead
  <2> QED
    BY <1>7, <1>12, <2>1, <2>5 DEF RunType
<1>14. Stays(us, run')
  <2>1. ASSUME NEW x \in {new, a, b, c, d}, NEW vs, vs = [us EXCEPT ![r] = x]
        PROVE  Stays(us, vs)
    BY <1>7, <1>11, <2>1, StaysRow, Zenon
  <2>2. CASE \E x \in {new, a, b, c, d} : run' = [us EXCEPT ![r] = x]
    BY <2>1, <2>2, Zenon
  <2>3. CASE run' = SupersedeWaitingPush(mine, r, e)
    <3>1. Stays(us, mine)
      BY <1>12, <2>1, Zenon
    <3>2. Stays(mine, run')
      BY <2>3, <3>1, SupersedeStays DEF Stays
    <3> QED
      BY <3>1, <3>2, StaysTrans
  <2> QED
    BY <1>13, <2>2, <2>3
<1> QED
  BY <1>5, <1>7, <1>14 DEF Stays, RowStays

-----------------------------------------------------------------------------
(* At most one run executes; a worker in a turn works for it; and what a    *)
(* turn job has touched belongs to a run that was dispatched.               *)

One(rs) == \A q, r \in Executing(rs) : q = r

TurnRow(x, D, y) ==
  /\ y \in Turn
  /\ y.ph \in {"turn", "marked"} => x.st = "executing"
  /\ y.ph # "none" => y.job \in {"running", "lapsed"}
  /\ y = NoTurn \/ (x.gen \in D /\ x.st \notin Idle)

TurnOK(rs, D, tn) == tn \in [Runs -> Turn] /\ \A r \in Runs : TurnRow(rs[r], D, tn[r])

Delivered == \A r \in Runs : run[r].st # "none" => r \in DOMAIN sent

OwnInv ==
  /\ run \in RunType /\ Delivered
  /\ One(run) /\ GenOK(run, gen) /\ TurnOK(run, DOMAIN gen, turn)

(* The invariant gives the property.                                        *)
LEMMA OwnEnough == OwnInv => LiveTurnOwnsSession
BY DEF OwnInv, TurnOK, TurnRow, GenOK, Executing, LiveTurnOwnsSession

(* Before the first delivery nothing executes.                             *)
LEMMA OwnInit == Init => OwnInv
<1> SUFFICES ASSUME Init PROVE OwnInv
  OBVIOUS
<1>1. run \in RunType /\ \A r \in Runs : run[r].st = "none"
  <2>1. 0 \in ArrivalNumbers
    BY DEF ArrivalNumbers
  <2> QED
    BY <2>1 DEF Init, NoRun, RunRow, RunType
<1>2. Executing(run) = {}
  BY <1>1 DEF Executing
<1>3. gen \in Seq(Generation) /\ DOMAIN gen = {}
  BY DEF Init
<1>4. TurnOK(run, DOMAIN gen, turn)
  BY DEF Init, TurnOK, TurnRow, NoTurn, Turn
<1> QED
  BY <1>1, <1>2, <1>3, <1>4 DEF OwnInv, Delivered, One, GenOK

(* Runs that stay where they are, beside generations that stay sound.       *)
LEMMA StaysInv ==
  ASSUME OwnInv, run' \in RunType, turn' = turn, DOMAIN sent \subseteq DOMAIN sent',
         \A q \in Runs : \/ RowStays(run[q], run'[q])
                         \/ /\ q \in DOMAIN sent /\ run[q].st = "none"
                            /\ run'[q].st # "executing",
         DOMAIN gen \subseteq DOMAIN gen', GenOK(run, gen) => GenOK(run', gen')
  PROVE  OwnInv'
<1>1. Delivered'
  BY DEF Delivered, OwnInv, RowStays
<1>2. One(run')
  BY DEF One, OwnInv, RowStays, Executing
<1>3. ASSUME NEW q \in Runs
      PROVE  TurnRow(run'[q], DOMAIN gen', turn[q])
  <2>1. TurnRow(run[q], DOMAIN gen, turn[q])
    BY DEF OwnInv, TurnOK
  <2> QED
    BY <2>1 DEF TurnRow, RowStays, Idle
<1> QED
  BY <1>1, <1>2, <1>3 DEF OwnInv, TurnOK

(* The generations of runs that stay where they are.                        *)
LEMMA StaysGen ==
  ASSUME NEW rs \in RunType, NEW us \in RunType, NEW gs, GenOK(rs, gs),
         \A q \in Runs : RowStays(rs[q], us[q]) \/ us[q].st # "executing"
  PROVE  GenOK(us, gs)
BY DEF GenOK, RowStays, Executing, Idle

(* Runs alone move.                                                         *)
LEMMA RunsMove ==
  ASSUME OwnInv, Stays(run, run'), turn' = turn, sent' = sent,
         \/ gen' = gen
         \/ GenOK(run', gen) => GenOK(run', gen') /\ DOMAIN gen' = DOMAIN gen
  PROVE  OwnInv'
<1>1. run' \in RunType /\ \A q \in Runs : RowStays(run[q], run'[q])
  BY DEF Stays
<1>2. GenOK(run', gen)
  BY <1>1, StaysGen DEF OwnInv
<1> QED
  BY <1>1, <1>2, StaysInv

(* A generation alone changes.                                              *)
LEMMA GensMove ==
  ASSUME OwnInv, run' = run, turn' = turn, sent' = sent,
         GenOK(run, gen'), DOMAIN gen' = DOMAIN gen
  PROVE  OwnInv'
BY DEF OwnInv, Delivered

(* A turn alone changes.                                                    *)
LEMMA TurnMoves ==
  ASSUME OwnInv, run' = run, sent' = sent, GenOK(run, gen'), DOMAIN gen' = DOMAIN gen,
         NEW r \in Runs, NEW x, TurnRow(run[r], DOMAIN gen, x), turn' = [turn EXCEPT ![r] = x]
  PROVE  OwnInv'
<1>1. x \in Turn
  BY DEF TurnRow
<1>2. TurnOK(run, DOMAIN gen, turn')
  BY <1>1 DEF OwnInv, TurnOK
<1> QED
  BY <1>2 DEF OwnInv, Delivered

(* The state of a run that has not started, or has ended, is written.       *)
LEMMA SetStateStays ==
  ASSUME run \in RunType, NEW r \in Runs, run[r].st \in {"pending", "perrun"},
         NEW s \in {"superseded", "perrun", "done"}, NEW us, us = [run EXCEPT ![r].st = s]
  PROVE  Stays(run, us)
<1>1. run[r] \in RunRow
  BY DEF RunType
<1>2. PICK x : x = [run[r] EXCEPT !.st = s]
  BY Zenon
<1>3. x \in RunRow /\ x.st = s /\ x.gen = run[r].gen
  BY <1>1, <1>2 DEF RunRow
<1>4. RowStays(run[r], x)
  BY <1>3 DEF RowStays, Idle
<1>5. us = [run EXCEPT ![r] = x]
  BY <1>2
<1> QED
  BY <1>4, <1>5, StaysRow, Zenon

(* The steps of arrival, and those that end a run before it starts.         *)
LEMMA OwnBefore ==
  ASSUME HeadTypeOK, OwnInv, NEW r \in Runs,
         \/ Arrive(r) /\ KeepsHead(target, ArrivalLifecycle(sent[r]))
         \/ DispatchClosed(r) \/ DispatchWait(r)
         \/ ClaimPendingForPerRun(r) \/ PerRunEnds(r) \/ LookUp(r)
  PROVE  OwnInv'
<1>0. run \in RunType /\ Stays(run, run)
  BY StaysRefl DEF OwnInv
<1>1. CASE Arrive(r) /\ KeepsHead(target, ArrivalLifecycle(sent[r]))
  <2>1. /\ run' \in RunType /\ run'[r].st # "executing"
        /\ \A q \in Runs \ {r} : RowStays(run[q], run'[q])
    BY <1>0, <1>1, ArriveStays
  <2>2. r \in DOMAIN sent /\ run[r].st = "none" /\ UNCHANGED <<sent, gen, turn>>
    BY <1>1 DEF Arrive
  <2>3. GenOK(run', gen)
    BY <1>0, <2>1, StaysGen DEF OwnInv
  <2> QED
    BY <2>1, <2>2, <2>3, StaysInv
<1>2. CASE DispatchClosed(r)
  <2>1. run[r].st = "pending" /\ UNCHANGED <<sent, gen, turn>>
    BY <1>2 DEF DispatchClosed, Unstarted
  <2>2. run' = run \/ run' = [run EXCEPT ![r].st = "done"]
    BY <1>2, Zenon DEF DispatchClosed
  <2> QED
    BY <1>0, <2>1, <2>2, SetStateStays, RunsMove
<1>3. CASE DispatchWait(r)
  <2>1. run' = ResolveHead(r).run /\ UNCHANGED <<sent, gen, turn>> /\ r \in Unstarted(run)
    BY <1>3 DEF DispatchWait, Dispatchable
  <2>2. r \in DOMAIN sent
    BY <2>1, Zenon DEF OwnInv, Delivered, Unstarted
  <2> QED
    BY <1>0, <2>1, <2>2, ResolvedRuns, RunsMove
<1>4. CASE ClaimPendingForPerRun(r) \/ PerRunEnds(r)
  <2>1. run[r].st \in {"pending", "perrun"} /\ UNCHANGED <<sent, gen, turn>>
    BY <1>4 DEF ClaimPendingForPerRun, PerRunEnds, Unstarted
  <2>2. \E s \in {"perrun", "done"} : run' = [run EXCEPT ![r].st = s]
    BY <1>4 DEF ClaimPendingForPerRun, PerRunEnds
  <2> QED
    BY <1>0, <2>1, <2>2, SetStateStays, RunsMove, Zenon
<1>5. CASE LookUp(r)
  BY <1>0, <1>5, RunsMove DEF LookUp
<1> QED
  BY <1>1, <1>2, <1>3, <1>4, <1>5

(* A run starts: nothing else executes, and its generation is active.       *)
LEMMA RunStarts ==
  ASSUME OwnInv, NEW us, Stays(run, us), Executing(us) = {}, NEW r \in Unstarted(run),
         r \in DOMAIN sent, NEW g, NEW h \in Nat, NEW e \in Nat,
         NEW gs, GenOK(us, gs), DOMAIN gen \subseteq DOMAIN gs, g \in DOMAIN gs, gs[g].owned,
         run' = ReserveForExecution(us, r, g, h, e), gen' = gs, sent' = sent,
         turn' = [turn EXCEPT ![r].job = "pending"]
  PROVE  OwnInv'
<1>1. r \in Runs /\ run[r].st = "pending" /\ us \in RunType /\ us[r] \in RunRow
  BY DEF Unstarted, Stays, RunType
<1>2. g \in Nat
  BY DEF GenOK
<1>3. PICK x : x = [us[r] EXCEPT !.st = "executing", !.gen = g, !.resolved = h,
                                  !.epoch = IF e # 0 THEN e ELSE @]
  OBVIOUS
<1>4. x \in RunRow /\ x.st = "executing" /\ x.gen = g
  BY <1>1, <1>2, <1>3, Zenon DEF RunRow
<1>5. run' = [us EXCEPT ![r] = x]
  BY <1>1, <1>3, Zenon DEF ReserveForExecution, RunType
<1>6. /\ run' \in RunType /\ run'[r] = x
      /\ \A q \in Runs \ {r} : run'[q] = us[q] /\ us[q].st # "executing"
  BY <1>1, <1>4, <1>5 DEF RunType, Executing
<1>7. Executing(run') = {r}
  BY <1>1, <1>4, <1>6 DEF Executing
<1>8. GenOK(run', gen')
  BY <1>4, <1>6, <1>7 DEF GenOK
<1>9. Delivered'
  BY <1>6 DEF Delivered, OwnInv, Stays, RowStays
<1>10. TurnRow(run[r], DOMAIN gen, turn[r]) /\ turn \in [Runs -> Turn]
  BY <1>1 DEF OwnInv, TurnOK
<1>11. turn[r] = NoTurn
  BY <1>1, <1>10 DEF TurnRow, Idle
<1>12. PICK y : y = [turn[r] EXCEPT !.job = "pending"]
  BY Zenon
<1>13. y \in Turn /\ y.ph = "none" /\ turn' = [turn EXCEPT ![r] = y]
  <2>1. turn' = [turn EXCEPT ![r] = y]
    BY <1>12
  <2>2. turn[r] \in Turn /\ turn[r].ph = "none"
    BY <1>10, <1>11 DEF NoTurn, TurnRow
  <2>3. y \in Turn /\ y.ph = "none"
    BY <1>12, <2>2 DEF Turn
  <2> QED
    BY <2>1, <2>3, Zenon
<1>14. ASSUME NEW q \in Runs
       PROVE  TurnRow(run'[q], DOMAIN gen', turn'[q])
  <2>1. CASE q = r
    <3>1. turn'[q] = y /\ run'[q] = x
      BY <1>6, <1>10, <1>13, <2>1
    <3> QED
      BY <1>4, <1>13, <3>1, Zenon DEF TurnRow, Idle
  <2>2. CASE q # r
    <3>1. turn'[q] = turn[q] /\ run'[q] = us[q]
      BY <1>6, <1>10, <1>13, <2>2
    <3>2. TurnRow(run[q], DOMAIN gen, turn[q]) /\ RowStays(run[q], us[q])
      BY DEF OwnInv, TurnOK, Stays
    <3> QED
      BY <3>1, <3>2, Zenon DEF TurnRow, RowStays, Idle
  <2> QED
    BY <2>1, <2>2
<1>15. TurnOK(run', DOMAIN gen', turn')
  BY <1>10, <1>13, <1>14, Zenon DEF TurnOK
<1> QED
  BY <1>6, <1>7, <1>8, <1>9, <1>15 DEF OwnInv, One

(* A dispatch starts the one run that executes, in a generation that owns  *)
(* its session.                                                            *)
LEMMA OwnDispatch ==
  ASSUME HeadTypeOK, OwnInv, NEW r \in Runs, Dispatch(r)
  PROVE  OwnInv'
<1>1. PICK x : x = ResolveHead(r)
  OBVIOUS
<1>2. r \in Unstarted(run) /\ Executing(x.run) = {} /\ sent' = sent
  BY <1>1 DEF Dispatch, Dispatchable
<1>3. r \in DOMAIN sent /\ run \in RunType
  BY <1>2 DEF OwnInv, Delivered, Unstarted
<1>4. PICK us, h, e : us = x.run /\ h = x.head /\ e = x.epoch
  OBVIOUS
<1>5. Stays(run, us) /\ us \in RunType /\ Executing(us) = {} /\ h \in Nat /\ e \in Nat
  BY <1>1, <1>2, <1>3, <1>4, ResolvedRuns DEF Stays
<1>6. GenOK(us, gen)
  BY <1>3, <1>5, StaysGen DEF OwnInv, Stays
<1>7. CASE run' = [us EXCEPT ![r].st = "done"] /\ UNCHANGED <<gen, turn>>
  <2>1. us[r] \in RunRow /\ RowStays(run[r], us[r]) /\ run[r].st = "pending"
    BY <1>2, <1>5 DEF Stays, RunType, Unstarted
  <2>2. PICK y : y = [us[r] EXCEPT !.st = "done"]
    BY Zenon
  <2>3. y \in RunRow /\ y.st = "done"
    BY <2>1, <2>2 DEF RunRow
  <2>4. run' = [us EXCEPT ![r] = y]
    BY <1>7, <2>2
  <2>5. RowStays(run[r], y)
    BY <2>1, <2>3 DEF RowStays, Idle
  <2>6. Stays(run, run')
    BY <1>5, <2>3, <2>4, <2>5 DEF Stays, RunType
  <2> QED
    BY <1>2, <1>7, <2>6, RunsMove
<1>8. ASSUME NEW g \in ActiveGenerations(gen), gen' = [gen EXCEPT ![g].busy = TRUE],
             run' = ReserveForExecution(us, r, g, h, e),
             turn' = [turn EXCEPT ![r].job = "pending"]
      PROVE  OwnInv'
  <2>1. g \in DOMAIN gen /\ gen[g] \in Generation /\ gen[g].owned
    BY <1>6 DEF ActiveGenerations, GenOK, GenSound
  <2>2. PICK y : y = [gen[g] EXCEPT !.busy = TRUE]
    BY Zenon
  <2>3. y \in Generation /\ SameOwner(gen[g], y)
    BY <2>1, <2>2, Zenon DEF Generation, SameOwner
  <2>4. gen' = [gen EXCEPT ![g] = y]
    BY <1>8, <2>2
  <2>5. GenOK(us, gen') /\ DOMAIN gen' = DOMAIN gen
    BY <1>6, <2>1, <2>3, <2>4, FlagsOK, Zenon
  <2>6. gen'[g].owned
    BY <2>1, <2>3, <2>4, Zenon DEF SameOwner
  <2> QED
    BY <1>2, <1>3, <1>5, <1>8, <2>1, <2>5, <2>6, RunStarts, ZenonT(60)
<1>9. CASE /\ gen' = Append(RetireActive(gen, us), [NewGen EXCEPT !.busy = TRUE])
           /\ run' = ReserveForExecution(us, r, Len(gen) + 1, h, e)
           /\ turn' = [turn EXCEPT ![r].job = "pending"]
  <2>1. PICK gs : gs = RetireActive(gen, us)
    OBVIOUS
  <2>2. GenOK(us, gs) /\ DOMAIN gs = DOMAIN gen
    BY <1>6, <2>1, RetireActiveOK
  <2>3. gs \in Seq(Generation) /\ gen \in Seq(Generation)
    BY <1>6, <2>2 DEF GenOK
  <2>4. Len(gs) = Len(gen)
    BY <2>2, <2>3
  <2>5. PICK y : y = [NewGen EXCEPT !.busy = TRUE]
    BY Zenon
  <2>6. y \in Generation /\ y.owned /\ GenSound(y)
    BY <2>5, Zenon DEF NewGen, Generation, GenSound
  <2>7. PICK n \in Nat : n = Len(gen) + 1
    BY <2>3
  <2>8. gen' = Append(gs, y)
    BY <1>9, <2>1, <2>5
  <2>9. /\ gen' \in Seq(Generation) /\ DOMAIN gen' = DOMAIN gs \cup {n} /\ gen'[n] = y
        /\ \A k \in DOMAIN gs : gen'[k] = gs[k]
    BY <2>3, <2>4, <2>6, <2>7, <2>8
  <2>10. GenOK(us, gen')
    BY <1>5, <2>2, <2>6, <2>9 DEF GenOK
  <2> QED
    BY <1>2, <1>3, <1>5, <1>9, <2>2, <2>6, <2>7, <2>9, <2>10, RunStarts, ZenonT(60)
<1>10. \/ run' = [us EXCEPT ![r].st = "done"] /\ UNCHANGED <<gen, turn>>
       \/ \E g \in ActiveGenerations(gen) :
            /\ gen' = [gen EXCEPT ![g].busy = TRUE]
            /\ run' = ReserveForExecution(us, r, g, h, e)
            /\ turn' = [turn EXCEPT ![r].job = "pending"]
       \/ /\ gen' = Append(RetireActive(gen, us), [NewGen EXCEPT !.busy = TRUE])
          /\ run' = ReserveForExecution(us, r, Len(gen) + 1, h, e)
          /\ turn' = [turn EXCEPT ![r].job = "pending"]
  BY <1>1, <1>4, Zenon DEF Dispatch
<1> QED
  BY <1>7, <1>8, <1>9, <1>10

(* What happens on GitHub concerns no run.                                 *)
LEMMA OwnGitHub ==
  ASSUME HeadTypeOK, OwnInv, GitHub
  PROVE  OwnInv'
<1>1. \E d : sent' = Append(sent, d)
  BY DEF GitHub
<1>2. DOMAIN sent \subseteq DOMAIN sent'
  BY <1>1 DEF HeadTypeOK
<1>3. UNCHANGED <<run, gen, turn>>
  BY DEF GitHub
<1> QED
  BY <1>2, <1>3 DEF OwnInv, Delivered

(* The lease of a turn job, and the worker that holds it.                   *)
LEMMA OwnLease ==
  ASSUME OwnInv, NEW r \in Runs,
         \/ ClaimJob(r) \/ LeaseLapses(r) \/ RenewLease(r) \/ ReclaimJob(r)
         \/ HandlerReturns(r) \/ ClaimAttempt(r)
  PROVE  OwnInv'
<1>1. UNCHANGED <<run, gen, sent>> /\ GenOK(run, gen)
  BY DEF OwnInv, ClaimJob, LeaseLapses, RenewLease, ReclaimJob, HandlerReturns, ClaimAttempt
<1>2. TurnRow(run[r], DOMAIN gen, turn[r]) /\ turn \in [Runs -> Turn] /\ turn[r] \in Turn
  BY DEF OwnInv, TurnOK
<1>3. turn[r].job # "none"
  BY DEF ClaimJob, LeaseLapses, RenewLease, ReclaimJob, HandlerReturns, ClaimAttempt, Holder
<1>4. turn[r] # NoTurn
  BY <1>3 DEF NoTurn
<1>5. run[r].gen \in DOMAIN gen /\ run[r].st \notin Idle
  BY <1>2, <1>4 DEF TurnRow
<1>6. ASSUME NEW x \in Turn, turn' = [turn EXCEPT ![r] = x],
             x.ph \in {"turn", "marked"} => run[r].st = "executing",
             x.ph # "none" => x.job \in {"running", "lapsed"}
      PROVE  OwnInv'
  <2>1. TurnRow(run[r], DOMAIN gen, x)
    BY <1>5, <1>6 DEF TurnRow
  <2> QED
    BY <1>1, <1>6, <2>1, TurnMoves, ZenonT(60)
<1>7. CASE ClaimJob(r)
  <2>1. PICK x : x = [turn[r] EXCEPT !.job = "running", !.ph = "start"]
    OBVIOUS
  <2>2. x \in Turn /\ x.ph = "start" /\ x.job = "running"
    BY <1>2, <2>1, Zenon DEF Turn
  <2>3. turn' = [turn EXCEPT ![r] = x]
    BY <1>7, <2>1, Zenon DEF ClaimJob
  <2> QED
    BY <1>2, <1>6, <1>7, <2>2, <2>3, ZenonT(60) DEF ClaimJob, TurnRow
<1>8. CASE LeaseLapses(r)
  <2>1. PICK x : x = [turn[r] EXCEPT !.job = "lapsed"]
    BY Zenon
  <2>2. x \in Turn /\ x.ph = turn[r].ph /\ x.job = "lapsed"
    BY <1>2, <2>1 DEF Turn
  <2>3. turn' = [turn EXCEPT ![r] = x]
    BY <1>8, <2>1 DEF LeaseLapses
  <2> QED
    BY <1>2, <1>6, <1>8, <2>2, <2>3, ZenonT(60) DEF LeaseLapses, TurnRow
<1>9. CASE RenewLease(r)
  <2>1. PICK x : x = [turn[r] EXCEPT !.job = "running"]
    BY Zenon
  <2>2. x \in Turn /\ x.ph = turn[r].ph /\ x.job = "running"
    BY <1>2, <2>1 DEF Turn
  <2>3. turn' = [turn EXCEPT ![r] = x]
    BY <1>9, <2>1 DEF RenewLease
  <2> QED
    BY <1>2, <1>6, <1>9, <2>2, <2>3, ZenonT(60) DEF RenewLease, TurnRow
<1>10. CASE ReclaimJob(r) \/ HandlerReturns(r)
  <2>1. PICK j \in {"pending", "over"}, late \in BOOLEAN :
          turn' = [turn EXCEPT ![r].job = j, ![r].ph = "none", ![r].late = late]
    <3>1. CASE ReclaimJob(r)
      <4>1. PICK j \in {"pending", "over"} : turn' = Revoked(turn, r, j)
        BY <3>1 DEF ReclaimJob
      <4> QED
        BY <4>1, Zenon DEF Revoked
    <3>2. CASE HandlerReturns(r)
      <4>1. PICK j \in {"pending", "over"} :
              turn' = [turn EXCEPT ![r].job = j, ![r].ph = "none"]
        BY <3>2, Zenon DEF HandlerReturns
      <4>2. turn' = [turn EXCEPT ![r].job = j, ![r].ph = "none", ![r].late = turn[r].late]
        BY <1>2, <4>1, Zenon DEF Turn
      <4> QED
        BY <1>2, <4>2, Zenon DEF Turn
    <3> QED
      BY <1>10, <3>1, <3>2
  <2>2. PICK x : x = [turn[r] EXCEPT !.job = j, !.ph = "none", !.late = late]
    OBVIOUS
  <2>3. x \in Turn /\ x.ph = "none"
    BY <1>2, <2>2, Zenon DEF Turn
  <2>4. turn' = [turn EXCEPT ![r] = x]
    BY <2>1, <2>2, Zenon
  <2> QED
    BY <1>6, <2>3, <2>4, ZenonT(60)
<1>11. CASE ClaimAttempt(r)
  <2>1. PICK x, y : /\ x = [turn[r] EXCEPT !.ph = "turn"]
                    /\ y = [turn[r] EXCEPT !.ph = "none", !.job = "over"]
    BY Zenon
  <2>2. x \in Turn /\ x.ph = "turn" /\ x.job = turn[r].job /\ y \in Turn /\ y.ph = "none"
    BY <1>2, <2>1, Zenon DEF Turn
  <2>3. CASE run[r].st = "executing" /\ turn[r].job = "running"
    <3>1. turn' = [turn EXCEPT ![r] = x]
      BY <1>11, <2>1, <2>3 DEF ClaimAttempt
    <3> QED
      BY <1>6, <2>2, <2>3, <3>1, ZenonT(60)
  <2>4. CASE ~(run[r].st = "executing" /\ turn[r].job = "running")
    <3>1. turn' = [turn EXCEPT ![r] = y]
      BY <1>11, <2>1, <2>4, Zenon DEF ClaimAttempt
    <3> QED
      BY <1>6, <2>2, <3>1, Zenon
  <2> QED
    BY <2>3, <2>4
<1> QED
  BY <1>7, <1>8, <1>9, <1>10, <1>11

(* The steps of a turn that leave its run executing.                        *)
LEMMA OwnTurn ==
  ASSUME OwnInv, NEW r \in Runs,
         StartTurn(r) \/ ReleaseTurnHold(r) \/ UnsupportedWorkspace(r) \/ EndAttempt(r)
  PROVE  OwnInv'
<1>1. UNCHANGED <<run, sent>> /\ GenOK(run, gen)
  BY DEF OwnInv, StartTurn, ReleaseTurnHold, UnsupportedWorkspace, EndAttempt
<1>2. TurnRow(run[r], DOMAIN gen, turn[r]) /\ turn \in [Runs -> Turn] /\ turn[r] \in Turn
  BY DEF OwnInv, TurnOK
<1>3. PICK g : g = run[r].gen
  OBVIOUS
<1>4. turn[r] # NoTurn
  <2>1. turn[r].ph \in {"turn", "marked"} \/ turn[r].late
    <3>1. StartTurn(r) => turn[r].ph = "turn" \/ turn[r].late
      BY DEF StartTurn
    <3>2. ReleaseTurnHold(r) => turn[r].ph \in {"turn", "marked"}
      BY DEF ReleaseTurnHold
    <3>3. UnsupportedWorkspace(r) => turn[r].ph = "turn" \/ turn[r].late
      BY DEF UnsupportedWorkspace
    <3>4. EndAttempt(r) => turn[r].ph = "turn"
      BY DEF EndAttempt
    <3> QED
      BY <3>1, <3>2, <3>3, <3>4
  <2>2. NoTurn.ph = "none" /\ ~NoTurn.late
    BY DEF NoTurn
  <2> QED
    BY <2>1, <2>2
<1>5. g \in DOMAIN gen /\ run[r].st \notin Idle /\ gen[g] \in Generation
  BY <1>1, <1>2, <1>3, <1>4 DEF TurnRow, GenOK
<1>6. ASSUME NEW y \in Generation, SameOwner(gen[g], y), gen' = [gen EXCEPT ![g] = y]
      PROVE  GenOK(run, gen') /\ DOMAIN gen' = DOMAIN gen
  BY <1>1, <1>5, <1>6, FlagsOK, Zenon
<1>7. GenOK(run, gen') /\ DOMAIN gen' = DOMAIN gen
  <2>1. CASE StartTurn(r)
    <3>1. PICK y : y = [gen[g] EXCEPT !.busy = TRUE, !.hold = TRUE]
      OBVIOUS
    <3>2. y \in Generation /\ SameOwner(gen[g], y)
      BY <1>5, <3>1, Zenon DEF Generation, SameOwner
    <3>3. gen' = [gen EXCEPT ![g] = y]
      BY <1>3, <2>1, <3>1, ZenonT(60) DEF StartTurn
    <3> QED
      BY <1>6, <3>2, <3>3, Zenon
  <2>2. CASE ReleaseTurnHold(r)
    <3>1. PICK y : y = [gen[g] EXCEPT !.hold = FALSE]
      BY Zenon
    <3>2. y \in Generation /\ SameOwner(gen[g], y)
      BY <1>5, <3>1, Zenon DEF Generation, SameOwner
    <3>3. gen' = [gen EXCEPT ![g] = y]
      BY <1>3, <2>2, <3>1 DEF ReleaseTurnHold
    <3> QED
      BY <1>6, <3>2, <3>3, Zenon
  <2>3. CASE UnsupportedWorkspace(r)
    BY <1>1, <1>3, <1>5, <2>3, RetireOK DEF UnsupportedWorkspace
  <2>4. CASE EndAttempt(r)
    <3>1. PICK y : y = [gen[g] EXCEPT !.busy = FALSE]
      BY Zenon
    <3>2. y \in Generation /\ SameOwner(gen[g], y)
      BY <1>5, <3>1, ZenonT(60) DEF Generation, SameOwner
    <3>3. gen' = [gen EXCEPT ![g] = y]
      BY <1>3, <2>4, <3>1 DEF EndAttempt
    <3> QED
      BY <1>6, <3>2, <3>3, Zenon
  <2> QED
    BY <2>1, <2>2, <2>3, <2>4
<1>8. CASE ReleaseTurnHold(r)
  BY <1>1, <1>7, <1>8, GensMove DEF ReleaseTurnHold
<1>9. CASE StartTurn(r) \/ UnsupportedWorkspace(r)
  <2>1. PICK late \in BOOLEAN : late <=> turn[r].late /\ turn[r].ph = "turn"
    BY Zenon
  <2>2. PICK x : x = [turn[r] EXCEPT !.late = late]
    BY Zenon
  <2>3. x \in Turn /\ x.ph = turn[r].ph /\ x.job = turn[r].job
    BY <1>2, <2>1, <2>2 DEF Turn
  <2>4. turn' = [turn EXCEPT ![r].late = @ /\ turn[r].ph = "turn"]
    BY <1>9 DEF StartTurn, UnsupportedWorkspace
  <2>5. turn' = [turn EXCEPT ![r] = x]
    BY <1>2, <2>1, <2>2, <2>4, ZenonT(60) DEF Turn
  <2>6. TurnRow(run[r], DOMAIN gen, x)
    BY <1>2, <1>3, <1>5, <2>3 DEF TurnRow
  <2> QED
    BY <1>1, <1>7, <2>5, <2>6, TurnMoves, ZenonT(60)
<1>10. CASE EndAttempt(r)
  <2>1. PICK m \in {"reviewed", "await", "ended"} :
          turn' = [turn EXCEPT ![r].mark = m, ![r].ph = "marked"]
    BY <1>10, Zenon DEF EndAttempt
  <2>2. PICK x : x = [turn[r] EXCEPT !.mark = m, !.ph = "marked"]
    OBVIOUS
  <2>3. x \in Turn /\ x.ph = "marked" /\ x.job = turn[r].job
    BY <1>2, <2>2, Zenon DEF Turn
  <2>4. turn' = [turn EXCEPT ![r] = x]
    BY <2>1, <2>2, Zenon
  <2>5. TurnRow(run[r], DOMAIN gen, x)
    BY <1>2, <1>3, <1>5, <1>10, <2>3 DEF TurnRow, EndAttempt
  <2> QED
    BY <1>1, <1>7, <2>4, <2>5, TurnMoves, ZenonT(60)
<1> QED
  BY <1>8, <1>9, <1>10

(* The run that executes ends; no other was executing.                      *)
LEMMA RunEnds ==
  ASSUME OwnInv, NEW r \in Executing(run), NEW us, us = [run EXCEPT ![r].st = "done"]
  PROVE  /\ us \in RunType /\ Executing(us) = {} /\ us[r].st = "done"
         /\ us[r].gen = run[r].gen /\ \A q \in Runs \ {r} : us[q] = run[q]
         /\ GenOK(us, gen)
         /\ run[r].gen \in DOMAIN gen /\ gen[run[r].gen] \in Generation
<1>1. r \in Runs /\ run \in RunType /\ run[r] \in RunRow /\ run[r].st = "executing"
  BY DEF OwnInv, RunType, Executing
<1>2. PICK x : x = [run[r] EXCEPT !.st = "done"]
  BY Zenon
<1>3. x \in RunRow /\ x.st = "done" /\ x.gen = run[r].gen
  BY <1>1, <1>2 DEF RunRow
<1>4. us = [run EXCEPT ![r] = x]
  BY <1>2
<1>5. us \in RunType /\ us[r] = x /\ \A q \in Runs \ {r} : us[q] = run[q]
  BY <1>1, <1>3, <1>4 DEF RunType
<1>6. Executing(us) = {}
  BY <1>1, <1>3, <1>5 DEF OwnInv, One, Executing
<1>7. GenOK(us, gen)
  BY <1>6, Zenon DEF OwnInv, GenOK
<1>8. run[r].gen \in DOMAIN gen /\ gen[run[r].gen] \in Generation
  BY DEF OwnInv, GenOK
<1> QED
  BY <1>3, <1>5, <1>6, <1>7, <1>8, ZenonT(60)

(* The end of the executing run leaves no execution behind.                *)
LEMMA OwnEnds ==
  ASSUME OwnInv, NEW r \in Executing(run), run' = [run EXCEPT ![r].st = "done"],
         sent' = sent, GenOK(run', gen'), DOMAIN gen' = DOMAIN gen,
         NEW x \in Turn, x.ph = "none", turn' = [turn EXCEPT ![r] = x]
  PROVE  OwnInv'
<1>1. /\ run' \in RunType /\ Executing(run') = {} /\ run'[r].st = "done"
      /\ run'[r].gen = run[r].gen /\ \A q \in Runs \ {r} : run'[q] = run[q]
      /\ run[r].gen \in DOMAIN gen
  <2>1. PICK us : us = run'
    OBVIOUS
  <2>2. us = [run EXCEPT ![r].st = "done"]
    BY <2>1
  <2>3. /\ us \in RunType /\ Executing(us) = {} /\ us[r].st = "done"
        /\ us[r].gen = run[r].gen /\ \A q \in Runs \ {r} : us[q] = run[q]
        /\ run[r].gen \in DOMAIN gen
    BY <2>2, RunEnds
  <2> QED
    BY <2>1, <2>3, Zenon
<1>2. r \in Runs /\ run[r].st = "executing"
  BY DEF Executing
<1>3. Delivered'
  BY <1>1, <1>2 DEF Delivered, OwnInv
<1>4. ASSUME NEW q \in Runs
      PROVE  TurnRow(run'[q], DOMAIN gen', turn'[q])
  <2>1. turn \in [Runs -> Turn] /\ TurnRow(run[q], DOMAIN gen, turn[q])
    BY DEF OwnInv, TurnOK
  <2>2. CASE q = r
    <3>1. turn'[q] = x
      BY <2>1, <2>2
    <3> QED
      BY <1>1, <2>2, <3>1 DEF TurnRow, Idle
  <2>3. CASE q # r
    <3>1. turn'[q] = turn[q] /\ run'[q] = run[q]
      BY <1>1, <2>1, <2>3
    <3> QED
      BY <2>1, <3>1
  <2> QED
    BY <2>2, <2>3
<1>5. turn' \in [Runs -> Turn]
  BY Zenon DEF OwnInv, TurnOK
<1> QED
  BY <1>1, <1>3, <1>4, <1>5, Zenon DEF OwnInv, One, TurnOK

(* The generation that a completed run leaves.                              *)
LEMMA CompletedOK ==
  ASSUME OwnInv, NEW r \in Executing(run), NEW us, us = [run EXCEPT ![r].st = "done"],
         turn[r] \in Turn
  PROVE  GenOK(us, Completed(r, us)) /\ DOMAIN Completed(r, us) = DOMAIN gen
<1>1. PICK g : g = run[r].gen
  OBVIOUS
<1>2. /\ us \in RunType /\ Executing(us) = {} /\ GenOK(us, gen)
      /\ g \in DOMAIN gen /\ gen[g] \in Generation
  BY <1>1, RunEnds, Zenon
<1>3. run[r] \in RunRow
  BY DEF OwnInv, RunType, Executing
<1>4. PICK h \in Nat, e \in Nat :
        LET advance == /\ turn[r].mark = "reviewed" /\ gen[g].st = "active"
                       /\ run[r].epoch # 0 /\ run[r].epoch >= gen[g].epoch
        IN  /\ h = IF advance THEN run[r].resolved ELSE gen[g].reviewed
            /\ e = IF advance THEN run[r].epoch ELSE gen[g].epoch
  BY <1>2, <1>3 DEF RunRow, Generation
<1>5. PICK y : y = [gen[g] EXCEPT !.hold = FALSE, !.reviewed = h, !.epoch = e]
  OBVIOUS
<1>6. y \in Generation /\ SameOwner(gen[g], y)
  BY <1>2, <1>5, Zenon DEF Generation, SameOwner
<1>7. PICK gs : gs = [gen EXCEPT ![g] = y]
  BY Zenon
<1>8. GenOK(us, gs) /\ DOMAIN gs = DOMAIN gen
  BY <1>2, <1>6, <1>7, FlagsOK, Zenon
<1>9. PICK fs : fs = ApplyPendingOwnershipRelease(gs, g)
  OBVIOUS
<1>10. GenOK(us, fs) /\ DOMAIN fs = DOMAIN gen
  BY <1>2, <1>8, <1>9, ReleaseOK, ZenonT(60)
<1>11. Completed(r, us) \in {fs, RetireGeneration(fs, g, us)}
  BY <1>1, <1>4, <1>5, <1>7, <1>9, ZenonT(60) DEF Completed
<1> QED
  BY <1>2, <1>10, <1>11, RetireOK

(* Completing or recovering the executing run keeps the invariant.         *)
LEMMA OwnComplete ==
  ASSUME OwnInv, NEW r \in Runs,
         CompletePreflight(r) \/ Complete(r) \/ RecoverAbandonedRun(r)
  PROVE  OwnInv'
<1>1. r \in Executing(run) /\ sent' = sent
  BY DEF CompletePreflight, Complete, RecoverAbandonedRun, Executing
<1>2. TurnRow(run[r], DOMAIN gen, turn[r]) /\ turn \in [Runs -> Turn] /\ turn[r] \in Turn
  BY DEF OwnInv, TurnOK
<1>3. PICK us : us = run'
  OBVIOUS
<1>4. us = [run EXCEPT ![r].st = "done"]
  BY <1>3 DEF CompletePreflight, Complete, RecoverAbandonedRun
<1>5. PICK g : g = run[r].gen
  OBVIOUS
<1>6. /\ us \in RunType /\ Executing(us) = {} /\ GenOK(us, gen)
      /\ g \in DOMAIN gen /\ gen[g] \in Generation
  BY <1>1, <1>4, <1>5, RunEnds, ZenonT(60)
<1>7. ASSUME NEW y \in Generation, SameOwner(gen[g], y),
             NEW gs, gs = [gen EXCEPT ![g] = y],
             gen' = RetireTerminalTarget(target, ApplyPendingOwnershipRelease(gs, g), us)
      PROVE  GenOK(us, gen') /\ DOMAIN gen' = DOMAIN gen
  <2>1. GenOK(us, gs) /\ DOMAIN gs = DOMAIN gen
    BY <1>6, <1>7, FlagsOK, Zenon
  <2>2. PICK fs : fs = ApplyPendingOwnershipRelease(gs, g)
    OBVIOUS
  <2>3. GenOK(us, fs) /\ DOMAIN fs = DOMAIN gen
    BY <1>6, <2>1, <2>2, ReleaseOK
  <2> QED
    BY <1>7, <2>2, <2>3, RetireTerminalOK
<1>8. CASE CompletePreflight(r)
  <2>1. PICK y : y = [gen[g] EXCEPT !.busy = FALSE]
    BY Zenon
  <2>2. y \in Generation /\ SameOwner(gen[g], y)
    BY <1>6, <2>1, Zenon DEF Generation, SameOwner
  <2>3. PICK gs : gs = [gen EXCEPT ![g] = y]
    BY Zenon
  <2>4. gs = [gen EXCEPT ![g].busy = FALSE]
    BY <2>1, <2>3
  <2>5. gen' = RetireTerminalTarget(target, ApplyPendingOwnershipRelease(gs, g), us)
    BY <1>3, <1>4, <1>5, <1>8, <2>4 DEF CompletePreflight
  <2>6. GenOK(run', gen') /\ DOMAIN gen' = DOMAIN gen
    BY <1>3, <1>7, <2>2, <2>3, <2>5, Zenon
  <2>7. PICK x : x = [turn[r] EXCEPT !.job = "over", !.ph = "none"]
    OBVIOUS
  <2>8. x \in Turn /\ x.ph = "none"
    BY <1>2, <2>7, Zenon DEF Turn
  <2>9. turn' = [turn EXCEPT ![r] = x]
    BY <1>8, <2>7, ZenonT(60) DEF CompletePreflight
  <2> QED
    BY <1>1, <1>3, <1>4, <2>6, <2>8, <2>9, OwnEnds, Zenon
<1>9. CASE Complete(r)
  <2>1. gen' = Completed(r, us)
    BY <1>3, <1>9 DEF Complete
  <2>2. GenOK(run', gen') /\ DOMAIN gen' = DOMAIN gen
    BY <1>1, <1>2, <1>3, <1>4, <2>1, CompletedOK, Zenon
  <2>3. PICK x : x = [turn[r] EXCEPT !.job = "over", !.ph = "none"]
    OBVIOUS
  <2>4. x \in Turn /\ x.ph = "none"
    BY <1>2, <2>3, Zenon DEF Turn
  <2>5. turn' = [turn EXCEPT ![r] = x]
    BY <1>9, <2>3, Zenon DEF Complete
  <2> QED
    BY <1>1, <1>3, <1>4, <2>2, <2>4, <2>5, OwnEnds, Zenon
<1>10. CASE RecoverAbandonedRun(r)
  <2>1. GenOK(run', gen') /\ DOMAIN gen' = DOMAIN gen
    <3>1. CASE turn[r].mark # "none"
      <4>1. gen' = Completed(r, us)
        BY <1>3, <1>10, <3>1 DEF RecoverAbandonedRun
      <4> QED
        BY <1>1, <1>2, <1>3, <1>4, <4>1, CompletedOK, Zenon
    <3>2. CASE turn[r].mark = "none"
      <4>1. PICK y : y = [gen[g] EXCEPT !.busy = FALSE, !.hold = FALSE]
        OBVIOUS
      <4>2. y \in Generation /\ SameOwner(gen[g], y)
        BY <1>6, <4>1, Zenon DEF Generation, SameOwner
      <4>3. PICK gs : gs = [gen EXCEPT ![g] = y]
        BY Zenon
      <4>4. gs = [gen EXCEPT ![g].busy = FALSE, ![g].hold = FALSE]
        BY <1>6, <4>1, <4>3, ZenonT(60)
      <4>5. gen' = RetireTerminalTarget(target, ApplyPendingOwnershipRelease(gs, g), us)
        BY <1>3, <1>5, <1>10, <3>2, <4>4 DEF RecoverAbandonedRun
      <4> QED
        BY <1>3, <1>7, <4>2, <4>3, <4>5, Zenon
    <3> QED
      BY <3>1, <3>2
  <2>2. CASE turn[r].job = "lapsed"
    <3>1. PICK late \in BOOLEAN : late <=> turn[r].late \/ turn[r].ph = "turn"
      BY Zenon
    <3>2. PICK x : x = [turn[r] EXCEPT !.job = "over", !.ph = "none", !.late = late]
      OBVIOUS
    <3>3. x \in Turn /\ x.ph = "none"
      BY <1>2, <3>2, Zenon DEF Turn
    <3>4. turn' = Revoked(turn, r, "over")
      BY <1>10, <2>2 DEF RecoverAbandonedRun, LockAutomationRunLifecycle
    <3>5. turn' = [turn EXCEPT ![r] = x]
      BY <1>2, <3>1, <3>2, <3>4, Zenon DEF Revoked, Turn
    <3> QED
      BY <1>1, <1>3, <1>4, <2>1, <3>3, <3>5, OwnEnds, Zenon
  <2>3. CASE turn[r].job # "lapsed"
    <3>1. turn' = turn /\ turn[r].job # "running"
      BY <1>10, <2>3 DEF RecoverAbandonedRun, LockAutomationRunLifecycle
    <3>2. turn[r].ph = "none"
      BY <1>2, <2>3, <3>1 DEF TurnRow
    <3>3. turn' = [turn EXCEPT ![r] = turn[r]]
      BY <1>2, <3>1
    <3> QED
      BY <1>1, <1>2, <1>3, <1>4, <2>1, <3>2, <3>3, OwnEnds, ZenonT(60)
  <2> QED
    BY <2>2, <2>3
<1> QED
  BY <1>8, <1>9, <1>10

(* The sweeps, the notices and the continuity switch.                       *)
LEMMA OwnSweeps ==
  ASSUME OwnInv,
         \/ FailTimedOutWaits \/ ResolveAmbiguityDeadline \/ SwitchToPerRun
         \/ \E g \in DOMAIN gen : ReleaseStrandedOwnership(g)
         \/ \E i \in Runs : ApplyPullRequestClosed(i) \/ ReopenTarget(i)
  PROVE  OwnInv'
<1>0. run \in RunType /\ GenOK(run, gen) /\ Stays(run, run)
  BY StaysRefl DEF OwnInv
<1>1. UNCHANGED <<sent, turn>>
  BY Zenon DEF FailTimedOutWaits, ResolveAmbiguityDeadline, SwitchToPerRun,
         ReleaseStrandedOwnership, ApplyPullRequestClosed, ReopenTarget
<1>2. CASE FailTimedOutWaits
  <2>1. PICK S \in SUBSET {r \in Unstarted(run) : run[r].res # "amb"} :
          run' = [r \in Runs |-> IF r \in S THEN [run[r] EXCEPT !.st = "done"] ELSE run[r]]
    BY <1>2, Zenon DEF FailTimedOutWaits
  <2>2. S \in SUBSET Unstarted(run)
    BY <2>1
  <2>3. Stays(run, run')
    BY <1>0, <2>1, <2>2, EndStays, Zenon
  <2>4. PICK us : us = run'
    OBVIOUS
  <2>5. gen' = RetireTerminalTarget(target, gen, us)
    BY <1>2, <2>4 DEF FailTimedOutWaits
  <2>6. GenOK(us, gen) => GenOK(us, gen') /\ DOMAIN gen' = DOMAIN gen
    BY <2>5, RetireTerminalOK
  <2> QED
    BY <1>1, <2>3, <2>4, <2>6, RunsMove
<1>3. CASE ResolveAmbiguityDeadline
  <2>1. ASSUME NEW q \in Runs
        PROVE  RowStays(run[q], run'[q])
    <3>1. run[q] \in RunRow /\ RowStays(run[q], run[q])
      BY <1>0 DEF RunType, Stays
    <3>2. PICK x : x = [run[q] EXCEPT !.res = "unres", !.epoch = 0]
      OBVIOUS
    <3>3. x \in RunRow /\ x.st = run[q].st /\ x.gen = run[q].gen
      BY <3>1, <3>2, Zenon DEF RunRow
    <3>4. RowStays(run[q], x)
      BY <3>3 DEF RowStays
    <3>5. run'[q] \in {run[q], x}
      BY <1>3, <3>2, Zenon DEF ResolveAmbiguityDeadline
    <3> QED
      BY <3>1, <3>4, <3>5
  <2>2. run' \in RunType
    <3>1. \A q \in Runs : run'[q] \in RunRow
      BY <2>1 DEF RowStays
    <3>2. run' = [q \in Runs |-> run'[q]]
      BY <1>3, ZenonT(30) DEF ResolveAmbiguityDeadline
    <3> QED
      BY <3>1, <3>2 DEF RunType
  <2>3. gen' = gen
    BY <1>3, Zenon DEF ResolveAmbiguityDeadline
  <2> QED
    BY <1>1, <2>1, <2>2, <2>3, RunsMove DEF Stays
<1>4. CASE SwitchToPerRun
  BY <1>0, <1>1, <1>4, RetireActiveOK, GensMove DEF SwitchToPerRun
<1>5. ASSUME NEW g \in DOMAIN gen, ReleaseStrandedOwnership(g)
      PROVE  OwnInv'
  <2>1. gen[g] \in Generation /\ gen[g].release /\ GenSound(gen[g]) /\ run' = run
        /\ \A r \in Executing(run) : run[r].gen # g
    <3>1. gen[g] \in Generation /\ GenSound(gen[g])
      BY <1>0 DEF GenOK
    <3>2. gen[g].release /\ run' = run /\ \A r \in Executing(run) : run[r].gen # g
      BY <1>5, Zenon DEF ReleaseStrandedOwnership
    <3> QED
      BY <3>1, <3>2
  <2>2. PICK y : y = [gen[g] EXCEPT !.release = FALSE, !.owned = FALSE, !.hold = FALSE]
    OBVIOUS
  <2>3. y \in Generation /\ y.st = gen[g].st /\ ~y.release
    BY <2>1, <2>2, Zenon DEF Generation
  <2>4. GenSound(y)
    BY <2>1, <2>3 DEF GenSound
  <2>5. gen' = [gen EXCEPT ![g] = y]
    BY <1>5, <2>2, Zenon DEF ReleaseStrandedOwnership
  <2>6. GenOK(run, gen') /\ DOMAIN gen' = DOMAIN gen
    BY <1>0, <2>1, <2>3, <2>4, <2>5, GenSetOK, Zenon
  <2> QED
    BY <1>1, <2>1, <2>6, GensMove
<1>6. ASSUME NEW i \in Runs, ApplyPullRequestClosed(i)
      PROVE  OwnInv'
  <2>1. PICK S, us :
          /\ S \in SUBSET Unstarted(run)
          /\ us = [r \in Runs |-> IF r \in S THEN [run[r] EXCEPT !.st = "done"] ELSE run[r]]
          /\ run' = us /\ gen' \in {gen, RetireActive(gen, us)}
    <3>1. PICK F : F = {r \in Runs : Kind(i) = "merged" /\ r \in DOMAIN sent
                                      /\ Kind(r) = "merged"}
      BY Zenon
    <3>2. PICK us : us = [r \in Runs |-> IF r \in Unstarted(run) \ F
                                         THEN [run[r] EXCEPT !.st = "done"] ELSE run[r]]
      BY Zenon
    <3>3. run' = us /\ gen' \in {gen, RetireActive(gen, us)}
      BY <1>6, <3>1, <3>2 DEF ApplyPullRequestClosed
    <3> QED
      BY <3>2, <3>3, Zenon
  <2>2. Stays(run, us)
    BY <1>0, <2>1, EndStays
  <2>3. GenOK(us, gen) => GenOK(us, gen') /\ DOMAIN gen' = DOMAIN gen
    BY <2>1, RetireActiveOK
  <2> QED
    BY <1>1, <2>1, <2>2, <2>3, RunsMove
<1>7. ASSUME NEW i \in Runs, ReopenTarget(i)
      PROVE  OwnInv'
  BY <1>0, <1>1, <1>7, RunsMove DEF ReopenTarget
<1> QED
  BY <1>2, <1>3, <1>4, <1>5, <1>6, <1>7

(* Every step keeps the invariant.                                          *)
LEMMA OwnInductive ==
  ASSUME HeadTypeOK, OwnInv, [Next]_vars
  PROVE  OwnInv'
<1>1. CASE UNCHANGED vars
  BY <1>1 DEF vars, OwnInv, Delivered
<1>2. CASE GitHub
  BY <1>2, OwnGitHub
<1>3. ASSUME NEW r \in Runs, Arrive(r)
      PROVE  OwnInv'
  <2>1. sent[r] \in Delivery
    BY <1>3 DEF Arrive, HeadTypeOK
  <2>2. KeepsHead(target, ArrivalLifecycle(sent[r]))
    BY <2>1, ArrivalKeepsHead
  <2> QED
    BY <1>3, <2>2, OwnBefore
<1>4. ASSUME NEW r \in Runs,
             \/ LookUp(r) \/ DispatchClosed(r) \/ DispatchWait(r)
             \/ ClaimPendingForPerRun(r) \/ PerRunEnds(r)
      PROVE  OwnInv'
  BY <1>4, OwnBefore
<1>5. ASSUME NEW r \in Runs, Dispatch(r)
      PROVE  OwnInv'
  BY <1>5, OwnDispatch
<1>6. ASSUME NEW r \in Runs,
             \/ ClaimJob(r) \/ LeaseLapses(r) \/ RenewLease(r) \/ ReclaimJob(r)
             \/ HandlerReturns(r) \/ ClaimAttempt(r)
      PROVE  OwnInv'
  BY <1>6, OwnLease
<1>7. ASSUME NEW r \in Runs,
             StartTurn(r) \/ ReleaseTurnHold(r) \/ UnsupportedWorkspace(r) \/ EndAttempt(r)
      PROVE  OwnInv'
  BY <1>7, OwnTurn
<1>8. ASSUME NEW r \in Runs, CompletePreflight(r) \/ Complete(r) \/ RecoverAbandonedRun(r)
      PROVE  OwnInv'
  BY <1>8, OwnComplete
<1>9. CASE \/ FailTimedOutWaits \/ ResolveAmbiguityDeadline \/ SwitchToPerRun
           \/ \E g \in DOMAIN gen : ReleaseStrandedOwnership(g)
           \/ \E i \in Runs : ApplyPullRequestClosed(i) \/ ReopenTarget(i)
  BY <1>9, OwnSweeps
<1> QED
  BY <1>1, <1>2, <1>3, <1>4, <1>5, <1>6, <1>7, <1>8, <1>9 DEF Next

(* A worker whose token can still be used is in the turn of a run that      *)
(* executes, in a session that its generation owns, for any number of       *)
(* deliveries: retireActive, ApplyPendingOwnershipRelease, the completions  *)
(* and the recovery never hand the session on under a live turn.            *)
THEOREM TurnOwnsSession == Spec => []LiveTurnOwnsSession
<1>1. Init => HeadInv /\ OwnInv
  BY HeadInit, OwnInit
<1>2. HeadInv /\ OwnInv /\ [Next]_vars => HeadInv' /\ OwnInv'
  BY HeadInductive, OwnInductive DEF HeadInv
<1>3. OwnInv => LiveTurnOwnsSession
  BY OwnEnough
<1> QED
  BY <1>1, <1>2, <1>3, PTL DEF Spec

=============================================================================
