------------------------ MODULE MCAutomationTarget ------------------------
(* A small instance of AutomationTarget: three deliveries, of which the    *)
(* state constraint follows three families.                                *)
EXTENDS AutomationTarget

(* Nothing reads the lookup of a run that has started, or the marker of    *)
(* one that has ended.                                                     *)
LiveView ==
  <<pr, sent, target, run, gen, epochs, olds,
    [r \in Runs |-> IF run[r].st = "pending" THEN look[r] ELSE NoLook],
    [r \in Runs |-> IF run[r].st = "done" THEN [turn[r] EXCEPT !.mark = "none"]
                    ELSE turn[r]]>>

SentKinds == {sent[i].kind : i \in DOMAIN sent}
Sent(k) == Cardinality({i \in DOMAIN sent : sent[i].kind = k})

(* No turn is interrupted and no run falls back to its own session.        *)
Smooth ==
  \A r \in Runs :
    /\ turn[r].job # "lapsed" /\ turn[r].mark \in {"none", "reviewed"}
    /\ run[r].st = "executing" => turn[r].job # "over"
    /\ run[r].st # "perrun" /\ ~turn[r].late

(* Pushes and a comment race for the head, in one generation, and one of   *)
(* them is reviewed; pushes a second apart race with an old answer too.    *)
HeadRaces ==
  /\ SentKinds \subseteq {"push", "comment"} /\ Sent("comment") <= 1
  /\ Smooth
  /\ olds = 0 \/ \A i \in DOMAIN sent : sent[i].at = i + 1
  /\ Cardinality({r \in Runs : look[r].ok}) <= 1
  /\ Cardinality({r \in Runs : turn[r].job # "none"}) <= 1
  /\ Len(gen) <= 1 /\ \A g \in DOMAIN gen : gen[g].st = "active" /\ ~gen[g].hold

(* Two deliveries a second apart, and everything that can happen to their  *)
(* turns.                                                                  *)
Turns ==
  /\ SentKinds \subseteq {"push", "closed"}
  /\ olds = 0
  /\ Len(sent) <= 2 /\ \A i \in DOMAIN sent : sent[i].at = i + 1

(* The pull request is closed, merged and reopened around a push.          *)
Lifecycle ==
  /\ SentKinds \subseteq {"push", "closed", "merged", "reopened"}
  /\ Sent("push") <= 1
  /\ Smooth
  /\ \A g \in DOMAIN gen : ~gen[g].hold

(* A push is reviewed, and a comment comes while the pull request closes.  *)
Released ==
  /\ SentKinds \subseteq {"push", "comment", "closed"}
  /\ Sent("push") <= 1 /\ Sent("comment") <= 1 /\ Sent("closed") <= 1
  /\ Smooth

TargetBound == HeadRaces \/ Turns \/ Lifecycle

=============================================================================
