---------------------------- MODULE MCSourceData ----------------------------
(***************************************************************************)
(* The three parts of a source that keep no session, each for itself: the  *)
(* scene of a behaviour is the part that moves.                            *)
(*                                                                         *)
(* plan: two addresses, two topics, logs with up to two topics, and two    *)
(* spellings of the interest in every log and of the one in A's logs.      *)
(*                                                                         *)
(* page: pages over g0 - a1 - a2 - a3 with the fork b2, queried from 1     *)
(* to 4: pages of up to three header rows that skip, repeat, unlink or     *)
(* garble them, every guard over them, and pages of two logs that differ   *)
(* in any of the fields the checks compare.                                *)
(*                                                                         *)
(* tracker: lists of up to three references, linked or not, from the line  *)
(* g0 - a1 - a2 - a3 - a4 and its forks b2 - b3 - b4 and c3 - c4.          *)
(***************************************************************************)
EXTENDS QueryPlan, PageIntake, CanonicalTracker

CONSTANTS
    g0, a1, a2, a3, a4, b2, b3, b4, c3, c4,  \* blocks
    o1, o2,                                  \* owners
    A, B,                                    \* addresses
    T, U                                     \* topics

VARIABLE scene

MCBlock == {g0, a1, a2, a3, a4, b2, b3, b4, c3, c4}
MCNum == [b \in MCBlock |-> CASE b = g0 -> 0 [] b = a1 -> 1 [] b \in {a2, b2} -> 2
                              [] b \in {a3, b3, c3} -> 3 [] b \in {a4, b4, c4} -> 4]
MCParent == [b \in MCBlock |-> CASE b = g0 -> None [] b = a1 -> g0 [] b \in {a2, b2} -> a1
                                 [] b \in {a3, c3} -> a2 [] b = b3 -> b2
                                 [] b = a4 -> a3 [] b = b4 -> b3 [] b = c4 -> c3]

(***************************************************************************)
(* plan                                                                    *)
(***************************************************************************)
MCLog == [addr : {A, B}, topics : {<<>>, <<T>>, <<U>>, <<T, U>>}]

MCLogInterest ==
    [kind : {"log"}, addrs : {{}, {A}}, topics : {<<>>, <<{}>>, <<{T}>>, <<{T}, {}>>, <<{}, {U}>>}]

(***************************************************************************)
(* page                                                                    *)
(***************************************************************************)
HeaderPages ==
    {[next |-> next, archive |-> archive, blocks |-> headerRows, logs |-> <<>>, guard |-> guard] :
        next \in 1..5, archive \in {None, 2, 4},
        headerRows \in {<<>>, <<a1>>, <<a1, a2>>, <<a1, a2, a3>>, <<a1, b2>>, <<a1, b2, a3>>,
                        <<a2>>, <<a1, a3>>, <<Malformed>>, <<a1, Malformed>>},
        guard \in {None} \cup {GuardOf(s) : s \in {<<a1>>, <<a1, a2>>, <<a2>>, <<a1, b2>>, <<a1, a2, a3>>}}}

LogRow(number, hash, tx, index, txhash, addr, removed) ==
    [number |-> number, hash |-> hash, tx |-> tx, index |-> index, txhash |-> txhash, addr |-> addr,
     topics |-> <<>>, removed |-> removed, complete |-> TRUE]

FirstLogs ==
    {LogRow(Num[b], b, tx, 0, tx, addr, FALSE) : b \in {a1, a2}, tx \in 0..1, addr \in {A, B}}

SecondLogs ==
    {LogRow(number, hash, tx, index, txhash, A, removed) :
        number \in 0..2, hash \in {a1, a2, b2}, tx \in 0..1, index \in 0..1, txhash \in 0..1,
        removed \in BOOLEAN}
    \cup {[LogRow(1, a1, 1, 1, 1, B, FALSE) EXCEPT !.complete = FALSE]}

LogPages ==
    {[next |-> 3, archive |-> 4, blocks |-> <<a1, a2>>, logs |-> logs, guard |-> None] :
        logs \in {<<l>> : l \in FirstLogs}
                 \cup {<<m, l>> : l \in FirstLogs, m \in SecondLogs}
                 \cup {<<l, l, l>> : l \in FirstLogs}}

MCPages == HeaderPages \cup LogPages

Wants(addrs) == [kind |-> "log", addrs |-> addrs, topics |-> <<>>]
Headers == [kind |-> "block"]

Owner(id, backfill, wants) == [id |-> id, backfill |-> backfill, wants |-> wants]
Range4(from, to, baseline) == [from |-> from, to |-> to, baseline |-> baseline]

MCDesiredStates ==
    {[expected |-> 0, new |-> 1, owners |-> owners] :
        owners \in {{Owner(None, None, {Wants({A})}), Owner(o1, Range4(1, None, None), {Wants({}), Headers})},
                    {Owner(None, Range4(1, 2, g0), {Wants({A})}), Owner(o1, None, {Wants({B})})},
                    {Owner(o1, Range4(2, 3, None), {Wants({A})}), Owner(o2, Range4(1, 2, None), {Headers})},
                    {Owner(None, Range4(1, None, g0), {Headers}), Owner(o2, Range4(2, 3, None), {Headers})}}}

(***************************************************************************)
(* tracker                                                                 *)
(***************************************************************************)
MCInputs == UNION {[1..n -> MCBlock] : n \in 1..2}
            \cup {s \in [1..3 -> MCBlock] : Contiguous(s)}

-----------------------------------------------------------------------------
MCInit ==
    /\ scene \in {"plan", "page", "tracker"}
    /\ PlanInit /\ (scene # "plan" => todo = <<>>)
    /\ IntakeInit /\ (scene # "page" => activation = From /\ desired = CHOOSE d \in DesiredStates : TRUE)
    /\ TrackerInit

MCNext ==
    /\ \/ scene = "plan" /\ PlanNext /\ UNCHANGED <<intakeVars, blocks>>
       \/ scene = "page" /\ ReceivePage /\ UNCHANGED <<planVars, blocks>>
       \/ scene = "tracker" /\ TrackerNext /\ UNCHANGED <<planVars, intakeVars>>
    /\ UNCHANGED scene

MCSpec == MCInit /\ [][MCNext]_<<planVars, intakeVars, blocks, scene>>

\* The loop of apply_blocks does what it is specified to do and reports every
\* change of branch (LoopAsSpecified), wherever the tracker has moved.
TrackerLoopAsSpecified == scene = "tracker" => LoopAsSpecified
=============================================================================
