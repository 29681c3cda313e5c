--------------------------- MODULE MCThreadInbox ---------------------------
(* Small instances of ThreadInbox.  Nodes are interchangeable.             *)
EXTENDS ThreadInbox, TLC

NodeSymmetry == Permutations(Nodes)

(* Two runtimes over two entries without replays, each seeded with at most *)
(* one of them, the second started when both were accepted; and one        *)
(* runtime over all the entries, one of which cannot                       *)
(* be formatted and one of the first two of which may be replayed.         *)
TwoRuntimes ==
  /\ poison = {}
  /\ Cardinality(Appended) <= 2
  /\ ctl[2] # "none" => Cardinality(Appended) = 2
  /\ \A e \in Entries : replays[e] = 0
  /\ \A r \in Runtimes : Cardinality(seeds[r]) <= 1

OneRuntime ==
  /\ poison # {}
  /\ \A r \in Runtimes : r > 1 => ctl[r] = "none"
  /\ Cardinality({e \in Entries : replays[e] > 0}) <= 1
  /\ replays[MaxEntries] = 0

InboxBound == TwoRuntimes \/ OneRuntime

(* A closed runtime is never leased again, so nothing reads its expiry and *)
(* its watermarks any more.                                                *)
LiveView ==
  <<entry, ctl, seeds, receipt, reg, poll, took, sure, replays, poison,
    [r \in Runtimes |-> IF rt[r].st = "over"
                        THEN [NoRuntime EXCEPT !.st = "over",
                                               !.node = rt[r].node]
                        ELSE rt[r]]>>

=============================================================================
