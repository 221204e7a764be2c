--------------------------- MODULE MCEventService ---------------------------
(***************************************************************************)
(* Instances of EventService over the chain                                *)
(*                                                                         *)
(*      g0 --- a1                                                          *)
(*         \-- b1                                                          *)
(***************************************************************************)
EXTENDS EventService, TLC

CONSTANTS g0, a1, b1

MCBlock == {g0, a1, b1}
MCParent == [b \in MCBlock |-> IF b = g0 THEN None ELSE g0]
MCNum == [b \in MCBlock |-> IF b = g0 THEN 0 ELSE 1]

Page(b) ==
    [kind |-> "data",
     records |-> <<[event |-> "progress", block |-> b, scope |-> "CanonicalProgress",
                    tx |-> 0, hash |-> 0, index |-> 0, canonical |-> TRUE, owners |-> {}]>>]

FromBaseline == {[id |-> None, backfill |-> [from |-> 1, to |-> 3, baseline |-> g0]]}
MCTopologies == {FromBaseline}

\* A page, the reorg that replaces it and the replacement.
MCPayloads ==
    {Page(a1), Page(b1), [kind |-> "reorg", ancestor |-> g0, old |-> a1, new |-> b1]}
MCPositions == {[next |-> Num[b] + 1, head |-> b, boundary |-> None] : b \in Block}

\* One page, where only the handlers matter.
PagePayloads == {Page(a1)}
PagePositions == {[next |-> Num[b] + 1, head |-> b, boundary |-> None] : b \in {g0, a1}}

StreamSymmetry == Permutations(Stream)
=============================================================================
