-------------------------- MODULE MCSandboxHolders --------------------------
(* Instances of SandboxHolders for TLC. *)
EXTENDS SandboxHolders, FiniteSets, TLC

CONSTANT Budget  \* processes in the middle of something, plus faults so far

BoxSymmetry == Permutations(Turns) \cup Permutations(Nodes) \cup Permutations(Containers)

Busies == {t \in Turns : ~At(t, "idle")}
          \cup {p \in {"preview"} : ~Pv("none")}
          \cup {p \in {"stop"} : stopper.pc # "idle"}
          \cup {p \in {"gc"} : doomed # {}}
          \cup {p \in {"rc"} : rc.pc # "idle"}

WithinBudget == Cardinality(Busies) + faults <= Budget
=============================================================================
