---------------------------- MODULE JobOwnership ----------------------------
(***************************************************************************)
(* What the job queue promises, without leases, retries or databases: a    *)
(* job is held by at most one attempt at a time, an attempt's identity is  *)
(* never used twice, and an actor that takes itself for the owner commits  *)
(* a change only while its attempt is the one that holds the job.          *)
(* (docs/design/backlog/51-worker-deploy-safety.md: "At most one live      *)
(* owner may commit terminal state for a logical run.")                    *)
(***************************************************************************)
EXTENDS Naturals

CONSTANTS Jobs, Actors, Nobody

VARIABLES
  phase,   \* of each job: absent, waiting, held or closed
  holder,  \* of each job: the attempt that holds it, 0 when none does
  belief,  \* of each actor: the <<job, attempt>> it takes itself to own
  issued   \* the number of attempts started so far

ownVars == <<phase, holder, belief, issued>>

OwnInit ==
  /\ phase = [j \in Jobs |-> "absent"]
  /\ holder = [j \in Jobs |-> 0]
  /\ belief = [a \in Actors |-> Nobody]
  /\ issued = 0

Add(j) ==
  /\ phase[j] = "absent"
  /\ phase' = [phase EXCEPT ![j] = "waiting"]
  /\ UNCHANGED <<holder, belief, issued>>

(* A fresh attempt takes a waiting job; its actor may never hear of it.    *)
Take(j) ==
  /\ phase[j] = "waiting"
  /\ phase' = [phase EXCEPT ![j] = "held"]
  /\ issued' = issued + 1
  /\ holder' = [holder EXCEPT ![j] = issued + 1]
  /\ \/ UNCHANGED belief
     \/ \E a \in Actors :
          belief[a] = Nobody /\ belief' = [belief EXCEPT ![a] = <<j, issued + 1>>]

(* An owner gives the job back or closes it, and stops believing.          *)
Commit(a) ==
  \E j \in Jobs :
    /\ holder[j] # 0
    /\ belief[a] = <<j, holder[j]>>
    /\ belief' = [belief EXCEPT ![a] = Nobody]
    /\ \E p \in {"waiting", "closed"} : phase' = [phase EXCEPT ![j] = p]
    /\ holder' = [holder EXCEPT ![j] = 0]
    /\ UNCHANGED issued

(* Actors stop believing without touching any job.                         *)
Forget ==
  /\ \E A \in SUBSET Actors :
       belief' = [a \in Actors |-> IF a \in A THEN Nobody ELSE belief[a]]
  /\ UNCHANGED <<phase, holder, issued>>

(* The platform takes held jobs back; no belief changes, the old owners    *)
(* do not know.                                                            *)
Revoke ==
  /\ \E S \in SUBSET {j \in Jobs : phase[j] = "held"} :
       /\ phase' = [j \in Jobs |-> IF j \in S THEN "waiting" ELSE phase[j]]
       /\ holder' = [j \in Jobs |-> IF j \in S THEN 0 ELSE holder[j]]
  /\ UNCHANGED <<belief, issued>>

(* The platform closes a job that waits or is held.                        *)
Withdraw(j) ==
  /\ phase[j] \in {"waiting", "held"}
  /\ phase' = [phase EXCEPT ![j] = "closed"]
  /\ holder' = [holder EXCEPT ![j] = 0]
  /\ UNCHANGED <<belief, issued>>

Purge(j) ==
  /\ phase[j] = "closed"
  /\ phase' = [phase EXCEPT ![j] = "absent"]
  /\ UNCHANGED <<holder, belief, issued>>

OwnNext ==
  \/ \E j \in Jobs : Add(j) \/ Take(j) \/ Withdraw(j) \/ Purge(j)
  \/ \E a \in Actors : Commit(a)
  \/ Forget
  \/ Revoke

OwnSpec == OwnInit /\ [][OwnNext]_ownVars

=============================================================================
