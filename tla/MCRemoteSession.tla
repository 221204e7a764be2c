--------------------------- MODULE MCRemoteSession ---------------------------
(***************************************************************************)
(* Instances of RemoteSession over the chain g0 --- a1, with the retained  *)
(* baseline g0.  The second desired state starts at the acknowledged head. *)
(***************************************************************************)
EXTENDS RemoteSession, TLC

CONSTANTS g0, a1

MCBlock == {g0, a1}
MCParent == [b \in MCBlock |-> IF b = g0 THEN None ELSE g0]
MCNum == [b \in MCBlock |-> IF b = g0 THEN 0 ELSE 1]

Page(b) ==
    [kind |-> "data",
     records |-> <<[event |-> "progress", block |-> b, scope |-> "CanonicalProgress",
                    tx |-> 0, hash |-> 0, index |-> 0, canonical |-> TRUE, owners |-> {}]>>]

FromBaseline == {[id |-> None, backfill |-> [from |-> 1, to |-> 3, baseline |-> g0]]}
FromHead == {[id |-> None, backfill |-> None]}
MCTopologies == {FromBaseline, FromHead}
MCAsks == <<{FromBaseline}, {FromHead}>>

MCPayloads == {Page(a1)}
MCPositions == {[next |-> Num[b] + 1, head |-> b, boundary |-> None] : b \in Block}

StreamSymmetry == Permutations(Stream)
=============================================================================
