------------------------- MODULE MCRemoteSubscriber -------------------------
(***************************************************************************)
(* The chain g0 --- a1 --- a2, with a sibling b2 of a2: one environment in *)
(* which a fork replaces what a backfill delivered, and a shorter one with *)
(* more desired states.                                                    *)
(***************************************************************************)
EXTENDS RemoteSubscriber

CONSTANTS g0, a1, a2, b2, o1

MCBlock == {g0, a1, a2, b2}
MCNum == [b \in MCBlock |-> CASE b = g0 -> 0 [] b = a1 -> 1 [] OTHER -> 2]
MCParent == [b \in MCBlock |-> CASE b = g0 -> None [] b = a1 -> g0 [] OTHER -> a1]

Page(b) ==
    [kind |-> "data",
     records |-> <<[event |-> "progress", block |-> b, scope |-> "CanonicalProgress",
                    tx |-> 0, hash |-> 0, index |-> 0, canonical |-> TRUE, owners |-> {}]>>]

CatchupPage(b) ==
    [kind |-> "data",
     records |-> <<[event |-> "log", block |-> b, scope |-> "OwnerCatchup",
                    tx |-> 0, hash |-> 0, index |-> 0, canonical |-> FALSE, owners |-> {o1}]>>]

MCPayloads ==
    {Page(b) : b \in {a1, a2, b2}} \cup {CatchupPage(a1)}
    \cup {[kind |-> "reorg", ancestor |-> a1, old |-> a2, new |-> b2]}

Forking ==
    [blocks |-> MCBlock,
     ranges |-> {[start |-> 1, end |-> None, anchor |-> g0], [start |-> 1, end |-> None, anchor |-> a1]},
     heights |-> {2, 3}, payloads |-> MCPayloads, revisions |-> 2, last |-> 4]

\* The same chain up to a1, and what can happen on it.
Revising ==
    [blocks |-> {g0, a1},
     ranges |-> {[start |-> 1, end |-> 1, anchor |-> None], [start |-> 1, end |-> None, anchor |-> g0]},
     heights |-> {1, 2}, payloads |-> {Page(a1), CatchupPage(a1)}, revisions |-> 3, last |-> 4]

MCEnvironments == {Forking, Revising}
=============================================================================
