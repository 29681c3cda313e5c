--------------------------- MODULE MCPublication ---------------------------
(***************************************************************************)
(* One publication with every policy.  The events are spent on sessions    *)
(* that an agent or a user publishes and on automations that ask for no    *)
(* review; one that asks for review parks the row before anything else and *)
(* is reviewed like an agent's request, so its request is its only event.  *)
(***************************************************************************)
EXTENDS Publication

MCInit == Init /\ left = IF auto = "some" THEN 1 ELSE MaxEvents
MCFairSpec == MCInit /\ [][Next]_pubVars /\ Fairness
=============================================================================
