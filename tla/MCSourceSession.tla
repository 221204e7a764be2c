-------------------------- MODULE MCSourceSession ---------------------------
(***************************************************************************)
(* The chain g0 - a1 - a2 - a3 - a4 and its fork b2 - b3 - b4 after a1.    *)
(***************************************************************************)
EXTENDS SourceSession

CONSTANTS g0, a1, a2, a3, a4, b2, b3, b4, o1

MCBlock == {g0, a1, a2, a3, a4, b2, b3, b4}
MCNum == [b \in MCBlock |-> CASE b = g0 -> 0 [] b = a1 -> 1 [] b \in {a2, b2} -> 2
                              [] b \in {a3, b3} -> 3 [] b \in {a4, b4} -> 4]
MCParent == [b \in MCBlock |-> CASE b = g0 -> None [] b = a1 -> g0 [] b \in {a2, b2} -> a1
                                 [] b = a3 -> a2 [] b = b3 -> b2 [] b = a4 -> a3 [] b = b4 -> b3]

Desired(expected, owners) == [expected |-> expected, new |-> expected + 1, owners |-> owners]
Owner(id, backfill, wants) == [id |-> id, backfill |-> backfill, wants |-> wants]
Headers == [kind |-> "block"]

\* A runtime that follows the head and asks for nothing but progress.
Live == {Owner(None, None, {})}

LiveRequests == {Desired(0, Live)}

\* A runtime that starts from a retained baseline.
From(n, baseline) == [from |-> n, to |-> None, baseline |-> baseline]
Baseline == {Owner(None, From(1, g0), {})}

BaselineRequests == {Desired(0, Baseline), Desired(1, Live)}

\* An owner that joins a live runtime and wants old headers.
Joined == Live \cup {Owner(o1, From(1, None), {Headers})}

Environment(requests, sizes, guarded, forks, losses, last, steady) ==
    [requests |-> requests, sizes |-> sizes, guarded |-> guarded, moves |-> forks,
     faults |-> losses, last |-> last, steady |-> steady]

CatchupRequests == BaselineRequests \cup {Desired(0, Live), Desired(1, Joined), Desired(2, Live)}

MCEnvironments ==
    {Environment(LiveRequests, {1, 3}, {TRUE, FALSE}, 2, 1, 7, FALSE),
     Environment(CatchupRequests, {3}, {TRUE}, 1, 1, 9, FALSE),
     Environment(LiveRequests, {3}, {TRUE}, 1, 1, 12, TRUE)}

\* A steady provider and a client that changes its desired state.
RevisingEnvironments == {Environment(BaselineRequests, {3}, {TRUE}, 1, 0, 9, TRUE)}
=============================================================================
