------------------------ MODULE MCHybridCoordinator ------------------------
(***************************************************************************)
(* The line g0 - a1 - a2 - a3 - a4, and b2 - b3 - b4 that branches off     *)
(* after a1.                                                               *)
(***************************************************************************)
EXTENDS HybridCoordinator

CONSTANTS g0, a1, a2, a3, a4, b2, b3, b4

MCBlock == {g0, a1, a2, a3, a4, b2, b3, b4}
MCNum == [b \in MCBlock |-> CASE b = g0 -> 0 [] b = a1 -> 1 [] b \in {a2, b2} -> 2
                              [] b \in {a3, b3} -> 3 [] b \in {a4, b4} -> 4]
MCParent == [b \in MCBlock |-> CASE b = g0 -> None [] b = a1 -> g0 [] b \in {a2, b2} -> a1
                                 [] b = a3 -> a2 [] b = b3 -> b2 [] b = a4 -> a3 [] b = b4 -> b3]

\* A chain that only grows, and a live child that fails and comes back.
Line ==
    [blocks |-> {g0, a1, a2, a3, a4}, logs |-> {a1, a3, a4}, tips |-> {g0, a1, a2},
     durable |-> FALSE, lossy |-> FALSE, reorgs |-> 0, failures |-> 2, restarts |-> 2]

\* The same with a durable live child.
Durable ==
    [Line EXCEPT !.logs = {a1, a2, a4}, !.tips = {g0, a2}, !.durable = TRUE, !.failures = 1]

\* A chain that forks twice, and children that do not fail.
Fork ==
    [blocks |-> {g0, a1, a2, a3, b2, b3, b4}, logs |-> {a2, a3, b2, b4}, tips |-> {a1},
     durable |-> FALSE, lossy |-> FALSE, reorgs |-> 2, failures |-> 0, restarts |-> 0]

\* A chain that forks, and children that fail.
Faults == [Fork EXCEPT !.reorgs = 1, !.failures = 1, !.restarts = 1]

MCEnvironments == {Line, Durable, Fork, Faults}

\* A live child that fails while items of it are buffered.
LossEnvironments == {[Line EXCEPT !.tips = {g0}, !.lossy = TRUE, !.failures = 1, !.restarts = 0]}
=============================================================================
