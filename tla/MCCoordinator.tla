--------------------------- MODULE MCCoordinator ---------------------------
\* Model-checking instance of Coordinator: two fetch workers, one for each
\* later stage.
EXTENDS Coordinator

CONSTANTS e1, e2, e3, f1, f2, p1, m1, s1

MCEvents    == {e1, e2, e3}
MCDeletions == {e3}
MCWorkers   == {f1, f2, p1, m1, s1}
MCStageOf   == [w \in MCWorkers |-> CASE w \in {f1, f2} -> 1 [] w = p1 -> 2 [] w = m1 -> 3 [] w = s1 -> 4]
=============================================================================
