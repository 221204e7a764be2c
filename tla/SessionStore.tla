---------------------------- MODULE SessionStore ----------------------------
(***************************************************************************)
(* The SQLite session store: a table of rows, and the three operations     *)
(* that change it.  A source may hand the store any delivery and a client  *)
(* any request; what the store refuses leaves the table unchanged and is   *)
(* not a step.                                                             *)
(*                                                                         *)
(* log and replies are history: the deliveries acknowledged so far, and    *)
(* the activation sequences answered for each revision.                    *)
(***************************************************************************)
EXTENDS SessionRow

CONSTANTS
    Session,            \* keys (session_id, chain_id)
    MaxPersisted,       \* max_persisted_sessions
    Topologies,         \* owner topologies that clients ask for
    Payloads,           \* payloads that sources produce, well formed or not
    Positions           \* [next, head, boundary] positions that sources report

ASSUME SourceAssumption ==
    /\ Positions \subseteq [next : Nat, head : OptBlock, boundary : Nat \cup {None}]
    /\ \A p \in Payloads :
          /\ p.kind \in {"data", "reorg", "finality", "barrier"}
          /\ p.kind = "reorg" => p.ancestor \in Block /\ p.old \in Block /\ p.new \in Block
          /\ p.kind = "data" =>
                /\ Len(p.records) \in Nat /\ DOMAIN p.records = 1..Len(p.records)
                /\ \A i \in DOMAIN p.records : p.records[i].block \in Block

ASSUME TopologyAssumption ==
    \A owners \in Topologies : \A o \in owners :
        o.backfill # None => o.backfill.from \in Nat

ASSUME CapacityAssumption == IsFiniteSet(Session) /\ MaxPersisted \in Nat

VARIABLES
    rows,     \* rows[s]: the persisted row of session s
    log,      \* log[s]: acknowledged deliveries, oldest first
    replies   \* replies[s][r]: activation sequences answered for revision r

vars == <<rows, log, replies>>

(***************************************************************************)
(* Inputs                                                                  *)
(***************************************************************************)
Revisions == 0..MaxRevision

Requests == [expected : Revisions, new : Revisions, owners : Topologies]

CursorAt(rev, seq, p) ==
    [rev |-> rev, seq |-> seq, next |-> p.next, head |-> p.head, boundary |-> p.boundary]

\* What a source may offer: it may lag behind the row by one revision or one
\* sequence, and may mislabel the token or the checkpoint-neutral marker.
OfferedDelivery(rev, seq, token, position, payload, neutral) ==
    [seq |-> seq, rev |-> rev, token |-> token, cursor |-> CursorAt(rev, seq, position),
     payload |-> payload, neutral |-> neutral]

Acknowledgements == [seq : 1..MaxSequence, token : {Token(n) : n \in 1..MaxSequence}]

(***************************************************************************)
(* Types                                                                   *)
(***************************************************************************)
ActivationBarriers == {Barrier(ActivationId(r), None) : r \in Revisions}

DeliveryType ==
    [seq : 1..MaxSequence, rev : Revisions, token : {Token(n) : n \in 1..MaxSequence},
     cursor : Cursor, payload : Payloads \cup ActivationBarriers, neutral : BOOLEAN]

RowType ==
    [revision : Revisions, desired : Requests \cup {None}, acked : Cursor \cup {None},
     runtime : Cursor \cup {None}, pending : DeliveryType \cup {None},
     activation : 0..MaxSequence, tip : OptBlock]

\* An absent value is none of the values it stands in for.
ASSUME NoneAssumption == None \notin Cursor \cup Requests \cup DeliveryType

(***************************************************************************)
(* Operations                                                              *)
(***************************************************************************)
Persisted == {s \in Session : rows[s].desired # None}

HasCapacity == Cardinality(Persisted) < MaxPersisted

Answer(s, revision, sequence) ==
    replies' = [replies EXCEPT ![s][revision] = @ \cup {sequence}]

ApplyDesiredState(s, request, prepared) ==
    /\ ApplyAccepts(rows[s], request, prepared, HasCapacity)
    /\ rows' = [rows EXCEPT ![s] = ApplyRow(rows[s], request, prepared)]
    /\ Answer(s, request.new, NextSequence(rows[s]))
    /\ UNCHANGED log

\* Mutant: a replay is answered with the sequence that is current now.
CurrentSequenceReplay(s, request, prepared) ==
    /\ ApplyReplays(rows[s], request, prepared)
    /\ Answer(s, request.new, NextSequence(rows[s]))
    /\ UNCHANGED <<rows, log>>

ReplayDesiredState(s, request, prepared) ==
    /\ ApplyReplays(rows[s], request, prepared)
    /\ Answer(s, request.new, rows[s].activation)
    /\ UNCHANGED <<rows, log>>

SavePending(s, desired, d) ==
    /\ SaveAccepts(rows[s], desired, d)
    /\ rows' = [rows EXCEPT ![s] = SaveRow(rows[s], d)]
    /\ UNCHANGED <<log, replies>>

Acknowledge(s, ack) ==
    /\ AckAccepts(rows[s], ack)
    /\ rows' = [rows EXCEPT ![s] = AckRow(rows[s])]
    /\ log' = [log EXCEPT ![s] = Append(@, rows[s].pending)]
    /\ UNCHANGED replies

Init ==
    /\ rows = [s \in Session |-> EmptyRow]
    /\ log = [s \in Session |-> <<>>]
    /\ replies = [s \in Session |-> [r \in Revisions |-> {}]]

\* What clients ask and sources offer, drawn from sets of them.
ApplyFrom(s, requests, positions) ==
    \E request \in requests, position \in positions \cup {None} :
        LET prepared == IF position = None THEN None
                        ELSE CursorAt(request.new, 0, position)
        IN  \/ ApplyDesiredState(s, request, prepared)
            \/ ReplayDesiredState(s, request, prepared)

SaveFrom(s, payloads, positions) ==
    /\ rows[s].desired # None
    /\ \E rev \in {rows[s].revision - 1, rows[s].revision},
          seq \in {AckedSequence(rows[s]), NextSequence(rows[s])},
          position \in positions, payload \in payloads, neutral \in BOOLEAN :
          SavePending(s, rows[s].desired,
                      OfferedDelivery(rev, seq, Token(seq), position, payload, neutral))

Apply(s) == ApplyFrom(s, Requests, Positions)
Save(s) == SaveFrom(s, Payloads, Positions)

Next ==
    \E s \in Session :
        \/ Apply(s)
        \/ Save(s)
        \/ \E ack \in Acknowledgements : Acknowledge(s, ack)

Spec == Init /\ [][Next]_vars
(***************************************************************************)
(* Properties                                                              *)
(***************************************************************************)
\* Rows and histories have their types: revisions and sequences stay within
\* the widths of the columns they are stored in (to_i64, checked_add).
TypeOK ==
    /\ rows \in [Session -> RowType]
    /\ log \in [Session -> Seq(DeliveryType)]
    /\ replies \in [Session -> [Revisions -> SUBSET (1..MaxSequence)]]

\* Whatever sequence of applies, offers and acknowledgements the store has
\* committed, the row it wrote passes validate_persisted_session: a session
\* can never be locked out by its own load check.
RowsLoadable == \A s \in Session : ValidatePersistedSession(rows[s])

\* Acknowledged deliveries carry the sequences 1, 2, 3, ... with no gap and
\* no repetition, the acknowledged cursor is the last one's, and the outbox
\* item is the next in line (save_pending, acknowledge).
GaplessSequence ==
    \A s \in Session :
        /\ \A i \in DOMAIN log[s] : log[s][i].seq = i
        /\ rows[s].acked = (IF log[s] = <<>> THEN None ELSE log[s][Len(log[s])].cursor)
        /\ rows[s].pending # None => rows[s].pending.seq = Len(log[s]) + 1

\* Once persisted, the outbox item is replayed unchanged until it is
\* acknowledged: no operation replaces it, and it leaves the outbox only by
\* becoming the acknowledged cursor.
OutboxItemImmutable ==
    [][\A s \in Session : rows[s].pending # None =>
          \/ rows'[s].pending = rows[s].pending /\ rows'[s].acked = rows[s].acked
          \/ rows'[s].pending = None /\ rows'[s].acked = rows[s].pending.cursor]_rows

\* The runtime checkpoint is the cursor of the last delivery that was not
\* checkpoint-neutral: barriers the client consumes internally never move it.
RuntimeAuthority ==
    \A s \in Session :
        \/ /\ rows[s].runtime = None
           /\ \A i \in DOMAIN log[s] : log[s][i].neutral
        \/ \E i \in DOMAIN log[s] :
              /\ ~log[s][i].neutral
              /\ rows[s].runtime = log[s][i].cursor
              /\ \A j \in (i + 1)..Len(log[s]) : log[s][j].neutral

\* Nothing of a revision is acknowledged before that revision's activation
\* barrier: revisions appear in order, without a gap, each one opened by its
\* own activation, and the row remembers which sequence opened the current one.
ActivationOpensRevision ==
    \A s \in Session :
        LET opened(i) == IF i = 1 THEN 0 ELSE log[s][i - 1].rev
            entries == log[s] \o (IF rows[s].pending = None THEN <<>> ELSE <<rows[s].pending>>)
        IN  /\ \A i \in DOMAIN log[s] :
                  \/ log[s][i].rev = opened(i)
                  \/ /\ log[s][i].rev = opened(i) + 1
                     /\ IsActivationDelivery(log[s][i], log[s][i].rev)
            /\ rows[s].desired # None =>
                  /\ rows[s].activation \in DOMAIN entries
                  /\ entries[rows[s].activation].rev = rows[s].revision
                  /\ \A i \in 1..(rows[s].activation - 1) : entries[i].rev < rows[s].revision

\* b descends from a along parent links: a is in every set of blocks that holds
\* b and, with a block, that block's parent.
Descends(b, a) ==
    \A S \in SUBSET Block :
        b \in S /\ (\A x \in S : Parent[x] # None => Parent[x] \in S) => a \in S

\* The blocks a delivery itself names as canonical.
Carried(d) ==
    CASE IsData(d) -> CanonicalBlocks(d.payload.records)
      [] IsReorg(d) -> {d.payload.ancestor}
      [] IsBarrier(d) -> {d.payload.block} \ {None}
      [] OTHER -> {}

\* After an acknowledged reorg, the first delivery that is not an activation
\* barrier names the promised new tip and ends at the tip or at a block that
\* descends from it, across any number of activations in between.
ReorgPromiseKept ==
    \A s \in Session : \A i, j \in DOMAIN log[s] :
        /\ i < j
        /\ IsReorg(log[s][i])
        /\ ~IsActivationDelivery(log[s][j], log[s][j].rev)
        /\ \A k \in (i + 1)..(j - 1) : IsActivationDelivery(log[s][k], log[s][k].rev)
        => /\ log[s][i].payload.new \in Carried(log[s][j])
           /\ Descends(log[s][j].cursor.head, log[s][i].payload.new)

\* The acknowledged head only moves to a block the acknowledged delivery
\* names; the one exception is a first activation at its retained baseline.
HeadMovesOnlyToCarriedBlocks ==
    \A s \in Session : \A i \in DOMAIN log[s] :
        LET before == IF i = 1 THEN None ELSE log[s][i - 1].cursor.head
            after == log[s][i].cursor.head
        IN  after # before =>
                \/ after \in Carried(log[s][i])
                \/ before = None /\ IsActivationDelivery(log[s][i], log[s][i].rev)

\* A desired-state request answered twice is answered with one activation
\* sequence, however many deliveries were acknowledged in between.
ActivationReplyStable ==
    \A s \in Session, r \in Revisions : Cardinality(replies[s][r]) <= 1

\* However applies of new sessions interleave, no more sessions are persisted
\* than max_persisted_sessions allows.
PersistedWithinLimit == Cardinality(Persisted) <= MaxPersisted
=============================================================================
