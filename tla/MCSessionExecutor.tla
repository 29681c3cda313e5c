------------------------- MODULE MCSessionExecutor -------------------------
(* Small instances of SessionExecutor.                                     *)
EXTENDS SessionExecutor

CONSTANTS n1, n2, j1, x1, x2, none

OneNode == {n1}

TwoNodes == {n1, n2}

OneJob == {j1}

TwoExecutors == {x1, x2}

(* An executor row gets a fresh id, so the behaviours in which x2 is the   *)
(* first are those in which x1 is, renamed.  No fairness condition is      *)
(* about the step that makes the row.                                      *)
FreshInOrder == exec[x2].status # "absent" => exec[x1].status # "absent"

=============================================================================
