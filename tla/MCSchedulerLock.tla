-------------------------- MODULE MCSchedulerLock --------------------------
(* Two replicas with two pooled connections each.                          *)
EXTENDS SchedulerLock

CONSTANTS r1, r2, free

TwoReplicas == {r1, r2}
=============================================================================
