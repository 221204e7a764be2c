--------------------------- MODULE MCSessionStore ---------------------------
(***************************************************************************)
(* Instances of SessionStore: a chain with one fork,                       *)
(*                                                                         *)
(*      g0 --- a1 --- a2                                                   *)
(*         \-- b1 --- b2                                                   *)
(*                                                                         *)
(* and the payloads a source can produce over it, including ones the store *)
(* must refuse (gapped or unlinked replacement pages, uncertified logs).   *)
(***************************************************************************)
EXTENDS WireAgreement

CONSTANTS g0, a1, a2, b1, b2, o1

MCBlock == {g0, a1, a2, b1, b2}
MCParent == [b \in MCBlock |-> CASE b \in {a1, b1} -> g0 [] b = a2 -> a1
                                 [] b = b2 -> b1 [] b = g0 -> None]
MCNum == [b \in MCBlock |-> CASE b = g0 -> 0 [] b \in {a1, b1} -> 1
                              [] b \in {a2, b2} -> 2]

Rec(event, block, scope) ==
    [event |-> event, block |-> block, scope |-> scope, tx |-> 0, hash |-> 0,
     index |-> 0, canonical |-> scope # "OwnerCatchup",
     owners |-> IF scope = "OwnerCatchup" THEN {o1} ELSE {}]

Page(records) == [kind |-> "data", records |-> records]
Progress(b) == Rec("progress", b, "CanonicalProgress")
Header(b) == Rec("header", b, "Canonical")
LogOf(b) == Rec("log", b, "Canonical")
Catchup(b) == Rec("header", b, "OwnerCatchup")

\* A reorg of a1 to the b branch, with replacement pages that certify the new
\* tip and ones that skip, unlink or omit it, and barriers of every kind.
ReorgPayloads ==
    {Page(<<Progress(b)>>) : b \in {a1, b1, b2}}
    \cup {Page(<<Header(b1), Progress(b2)>>), Page(<<Progress(b1), Progress(a2)>>)}
    \cup {[kind |-> "reorg", ancestor |-> g0, old |-> a1, new |-> b] : b \in {b1, b2}}
    \cup {Barrier(<<"other", 0, 0>>, b1)}
    \cup {Barrier(ActivationId(r), None) : r \in 1..MaxRevision}
    \cup {Barrier(ProgressId(r, 2), None) : r \in 1..MaxRevision}

ReorgPositions ==
    {[next |-> n, head |-> h, boundary |-> None] :
        n \in {1}, h \in {g0, b1}}
    \cup {[next |-> Num[h] + 1, head |-> h, boundary |-> None] : h \in Block}

\* Owner catch-up behind the canonical head, next to ordinary pages, finality,
\* an uncertified log page and an empty page.
CatchupPayloads ==
    {Page(<<Progress(b)>>) : b \in {a1, a2}}
    \cup {Page(<<Header(a1), LogOf(a1), Progress(a2)>>), Page(<<LogOf(a1)>>), Page(<<>>),
          Page(<<Catchup(g0)>>), Page(<<Catchup(g0), Progress(a1)>>)}
    \cup {Barrier(ProgressId(r, n), None) : r \in 1..MaxRevision, n \in 1..2}
    \cup {[kind |-> "finality", block |-> g0]}

CatchupPositions ==
    {[next |-> n, head |-> None, boundary |-> b] : n \in {0}, b \in {None, 2}}
    \cup {[next |-> n, head |-> a1, boundary |-> 2] : n \in 0..2}
    \cup {[next |-> Num[h] + 1, head |-> h, boundary |-> b] : h \in {a1, a2}, b \in {None, 2}}

\* Canonical backfill from the retained baseline g0.
FromBaseline == {[id |-> None, backfill |-> [from |-> 1, to |-> 3, baseline |-> g0]]}
\* Head-only canonical interest, and the same with an owner that backfills.
HeadOnly == {[id |-> None, backfill |-> None]}
OwnerBackfill == HeadOnly \cup
    {[id |-> o1, backfill |-> [from |-> 0, to |-> None, baseline |-> None]]}

\* Two scenes: the reorg and the catch-up.
Scenes == {"reorg", "catchup"}
TopologiesOf ==
    [c \in Scenes |-> IF c = "catchup" THEN {HeadOnly, OwnerBackfill} ELSE {FromBaseline}]
PayloadsOf == [c \in Scenes |-> IF c = "catchup" THEN CatchupPayloads ELSE ReorgPayloads]
PositionsOf == [c \in Scenes |-> IF c = "catchup" THEN CatchupPositions ELSE ReorgPositions]
LastOf == [c \in Scenes |-> IF c = "reorg" THEN MaxSequence ELSE MaxSequence - 1]

MCTopologies == UNION {TopologiesOf[c] : c \in Scenes}
MCPayloads == UNION {PayloadsOf[c] : c \in Scenes}
MCPositions == UNION {PositionsOf[c] : c \in Scenes}

VARIABLE scene   \* what clients and sources ask of the store in this behaviour

MCInit == Init /\ scene \in Scenes

MCNext ==
    /\ UNCHANGED scene
    /\ \E s \in Session :
          \/ ApplyFrom(s, {r \in Requests : r.owners \in TopologiesOf[scene]}, PositionsOf[scene])
          \/ /\ NextSequence(rows[s]) <= LastOf[scene]
             /\ SaveFrom(s, PayloadsOf[scene], PositionsOf[scene])
          \/ \E ack \in Acknowledgements : Acknowledge(s, ack)

MCSpec == MCInit /\ [][MCNext]_<<vars, scene>>
=============================================================================
