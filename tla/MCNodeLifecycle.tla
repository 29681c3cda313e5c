-------------------------- MODULE MCNodeLifecycle --------------------------
(* One node is enough: no action on a row or a process reads another's,    *)
(* and the stale-node scan treats each row on its own.                     *)
EXTENDS NodeLifecycle
=============================================================================
