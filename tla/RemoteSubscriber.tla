-------------------------- MODULE RemoteSubscriber --------------------------
(***************************************************************************)
(* RemoteSubscriber: the client's mirror of the registrations the service  *)
(* has committed, and the reconciliation of what it does not know the      *)
(* outcome of.                                                             *)
(*                                                                         *)
(* The transport is the trait RemoteEventTransport, over the durable row   *)
(* of the session: an apply or an acknowledgement takes effect or not, and *)
(* its answer arrives or not.  (GrpcEventTransport itself is in            *)
(* RemoteSession.)  A call of the subscriber is one or several steps, cut  *)
(* at its awaits: a call that is dropped or fails there leaves the state   *)
(* of the step before, and every call starts with the two reconciliations. *)
(* A call that returns an error before it changes anything is no step.     *)
(*                                                                         *)
(* sub.candidate is also the transport's pending_apply, and sub.acking its *)
(* pending_acknowledgement of a delivery with effects.  Left out: local    *)
(* matchers and route keys, the kinds of interest that are refused, the    *)
(* acknowledged token, which is always the acknowledged sequence's.        *)
(***************************************************************************)
EXTENDS SessionRow, WireDelivery

CONSTANTS
    Owner,        \* handler ids
    Interest,     \* portable interests
    Environments  \* the callers and sources that a subscriber may meet

(***************************************************************************)
(* An environment is a record of                                           *)
(*   blocks     blocks that callers and sources name                       *)
(*   ranges     SubscriberBackfill values [start, end, anchor] that callers *)
(*              ask for, end inclusive                                     *)
(*   heights    archive heights a source may start at                      *)
(*   payloads   what a source may deliver besides progress barriers        *)
(*   revisions  how many desired states the caller applies                 *)
(*   last       the sequence after which nothing more is asked or delivered *)
(***************************************************************************)
\* Ranges of blocks, as callers ask for them and as the wire names them.
SubscriberBackfill == [start : Nat, end : Nat \cup {None}, anchor : OptBlock]
WireBackfill == [from : Nat, to : Nat \cup {None}, baseline : OptBlock]
DesiredState ==
    [expected : Nat, new : Nat,
     owners : SUBSET [id : Owner \cup {None}, interests : SUBSET Interest,
                      backfill : WireBackfill \cup {None}]]

\* The canonical entry of a desired state belongs to no owner.
ASSUME SubscriberAssumption ==
    /\ None \notin Owner \cup SubscriberBackfill \cup WireBackfill \cup DesiredState \cup Cursor
    /\ \A e \in Environments :
          e.ranges \subseteq SubscriberBackfill /\ e.blocks \subseteq Block /\ e.heights \subseteq Nat

VARIABLES
    env,      \* the environment of this subscriber
    row,      \* the session's durable row
    sub,      \* the subscriber
    runtime,  \* [batch, saved]: the batch being ingested, the saved position
    reach     \* history: how far the current revision was acknowledged

vars == <<env, row, sub, runtime, reach>>

(***************************************************************************)
(* Backfills and topologies.  A topology is [base, global, owners], owners *)
(* a function from the registered owners to [interests, backfill].         *)
(***************************************************************************)
\* The anchor of a range is the block before it.
Precedes(anchor, start) == Num[anchor] + 1 = start

Encodable(b) == b # None /\ b.anchor # None => Precedes(b.anchor, b.start)

EncodeBackfill(b) ==
    IF b = None THEN None
    ELSE [from |-> b.start, to |-> IF b.end = None THEN None ELSE b.end + 1,
          baseline |-> b.anchor]

\* Mutant: the exclusive end of the wire is taken for the last block.
DecodeExclusiveEnd(b) ==
    IF b = None THEN None
    ELSE [start |-> b.from, end |-> b.to, anchor |-> b.baseline]

DecodeAuthoritativeBackfill(b) ==
    IF b = None THEN None
    ELSE [start |-> b.from, end |-> IF b.to = None THEN None ELSE b.to - 1,
          anchor |-> b.baseline]

NoOwners == [o \in {} |-> None]
NoTopology == [base |-> {}, global |-> None, owners |-> NoOwners]

HasCanonicalEntry(t) == t.base # {} \/ t.global # None

BuildDesiredState(revision, t) ==
    [expected |-> revision, new |-> revision + 1,
     owners |->
        {[id |-> o, interests |-> t.owners[o].interests,
          backfill |-> EncodeBackfill(t.owners[o].backfill)] : o \in DOMAIN t.owners}
        \cup IF HasCanonicalEntry(t)
             THEN {[id |-> None, interests |-> t.base, backfill |-> EncodeBackfill(t.global)]}
             ELSE {}]

Entry(desired, id) == CHOOSE e \in desired.owners : e.id = id

DecodeAuthoritativeDesiredState(desired) ==
    LET ids == {e.id : e \in desired.owners}
        backfill(id) == DecodeAuthoritativeBackfill(Entry(desired, id).backfill)
    IN  [base |-> IF None \in ids THEN Entry(desired, None).interests ELSE {},
         global |-> IF None \in ids THEN backfill(None) ELSE None,
         owners |-> [o \in ids \ {None} |->
                       [interests |-> Entry(desired, o).interests, backfill |-> backfill(o)]]]

(***************************************************************************)
(* Backfills in progress                                                   *)
(***************************************************************************)
OpenBackfills(t) == ({t.global} \cup {t.owners[o].backfill : o \in DOMAIN t.owners}) \ {None}

HasIncompleteBackfill(t) == OpenBackfills(t) # {}

SubscriberHasOpenBackfill(t) == \E b \in OpenBackfills(t) : b.end = None

\* Where a backfill is complete: after its last block, or where the live
\* audience of the revision begins.
BackfillTarget(b, cursor) == IF b.end # None THEN b.end + 1 ELSE cursor.boundary

RemainingBackfill(b, cursor) ==
    IF b # None /\ BackfillTarget(b, cursor) # None /\ cursor.next >= BackfillTarget(b, cursor)
    THEN None ELSE b

CompletedTopology(t, cursor) ==
    [base |-> t.base,
     global |-> RemainingBackfill(t.global, cursor),
     owners |-> [o \in DOMAIN t.owners |->
                   [interests |-> t.owners[o].interests,
                    backfill |-> RemainingBackfill(t.owners[o].backfill, cursor)]]]

\* Mutant: the cursor of an earlier revision completes a backfill too.
CompleteByAnyRevision(s) ==
    IF s.cursor = None THEN s ELSE [s EXCEPT !.topology = CompletedTopology(@, s.cursor)]

MaybeCompleteBackfill(s) ==
    IF s.cursor = None \/ s.cursor.rev # s.rev THEN s
    ELSE [s EXCEPT !.topology = CompletedTopology(@, s.cursor)]

(***************************************************************************)
(* Construction                                                            *)
(***************************************************************************)
NewAtRevision(revision) ==
    [rev |-> revision, topology |-> NoTopology, candidate |-> None, neutral |-> None,
     acked |-> 0, cursor |-> None, delivered |-> None, dcursor |-> None, acking |-> FALSE]

RestoreTransportAuthority(s) ==
    MaybeCompleteBackfill([s EXCEPT !.acked = AckedSequence(row), !.cursor = row.acked])

NewFromAuthoritative ==
    RestoreTransportAuthority(
        [NewAtRevision(row.revision) EXCEPT
            !.topology = IF row.desired = None THEN NoTopology
                         ELSE DecodeAuthoritativeDesiredState(row.desired)])

Init ==
    /\ env \in Environments
    /\ row = EmptyRow
    /\ sub = NewAtRevision(0)
    /\ runtime = [batch |-> None, saved |-> 0]
    /\ reach = 0

\* The process restarts: it keeps what the runtime saved, and connects.
Connect ==
    /\ sub' = NewFromAuthoritative
    /\ runtime' = [runtime EXCEPT !.batch = None]
    /\ UNCHANGED <<row, reach>>

\* The position the runtime saved with its state is restored: a delivery that
\* was ingested and not acknowledged counts as delivered.
RestorePosition ==
    /\ runtime.saved # 0
    /\ sub.candidate = None /\ sub.neutral = None /\ sub.delivered = None
    /\ sub' = MaybeCompleteBackfill(
                [sub EXCEPT !.acked = AckedSequence(row), !.cursor = row.acked,
                            !.delivered = IF runtime.saved = NextSequence(row)
                                          THEN runtime.saved ELSE None,
                            !.dcursor = None])
    /\ UNCHANGED <<row, runtime, reach>>

(***************************************************************************)
(* Desired state                                                           *)
(***************************************************************************)
\* Nothing is left to reconcile.
Reconciled == sub.candidate = None /\ sub.neutral = None

\* apply_candidate up to the call of the transport, whose outcomes are those
\* of reconcile_pending_candidate.
ApplyCandidate(t, supersedes) ==
    /\ Reconciled
    /\ HasIncompleteBackfill(sub.topology) => supersedes
    /\ sub.rev < env.revisions /\ sub.acked < env.last
    /\ \A b \in OpenBackfills(t) : Encodable(b)
    /\ sub' = [sub EXCEPT !.candidate = [request |-> BuildDesiredState(sub.rev, t),
                                         topology |-> t, supersedes |-> supersedes]]
    /\ UNCHANGED <<row, runtime, reach>>

Live(interests) == [interests |-> interests, backfill |-> None]

WithOwner(owner, registration) ==
    [o \in DOMAIN sub.topology.owners \cup {owner} |->
        IF o = owner THEN registration ELSE sub.topology.owners[o]]

RegisterInterests(interests) ==
    ApplyCandidate([base |-> interests, global |-> None, owners |-> NoOwners], FALSE)

UpsertInterestOwners(updates, interests) ==
    ApplyCandidate(
        [base |-> sub.topology.base, global |-> None,
         owners |-> [o \in DOMAIN sub.topology.owners \cup updates |->
                       IF o \in updates THEN Live(interests) ELSE sub.topology.owners[o]]],
        FALSE)

ReplaceInterestOwners(replacement, interests) ==
    ApplyCandidate([base |-> {}, global |-> None,
                    owners |-> [o \in replacement |-> Live(interests)]], TRUE)

ReplaceInterestOwnersWithGlobalBackfill(replacement, interests, b) ==
    ApplyCandidate([base |-> {}, global |-> b,
                    owners |-> [o \in replacement |-> Live(interests)]], TRUE)

AddInterestOwner(owner, interests) ==
    ApplyCandidate([base |-> sub.topology.base, global |-> None,
                    owners |-> WithOwner(owner, Live(interests))], FALSE)

\* An anchor that is the first block of the range is no baseline.
SplitMidLifecycleBackfill(b) ==
    IF b.anchor # None /\ Num[b.anchor] = b.start THEN [b EXCEPT !.anchor = None] ELSE b

AddInterestOwnerWithBackfill(owner, interests, b) ==
    ApplyCandidate(
        [base |-> sub.topology.base, global |-> None,
         owners |-> WithOwner(owner, [interests |-> interests,
                                      backfill |-> SplitMidLifecycleBackfill(b)])],
        FALSE)

AddInterestOwnerWithCanonicalCatchup(owner, interests, retained) ==
    ApplyCandidate(
        [base |-> sub.topology.base,
         global |-> [start |-> Num[retained] + 1, end |-> None, anchor |-> retained],
         owners |-> WithOwner(owner, [interests |-> interests,
                                      backfill |-> [start |-> Num[retained], end |-> None,
                                                    anchor |-> None]])],
        FALSE)

RemoveInterestOwner(owner) ==
    ApplyCandidate(
        [base |-> sub.topology.base, global |-> None,
         owners |-> [o \in DOMAIN sub.topology.owners \ {owner} |-> sub.topology.owners[o]]],
        FALSE)

\* The position a HyperSync source prepares (SourceSession): the canonical
\* baseline it is given must be the acknowledged head.
PreparedCursor(request, height) ==
    LET activation == IF row.acked = None THEN height ELSE row.acked.next
        starts == {b.from : b \in Backfills(request)} \cup {activation}
    IN  [rev |-> request.new, seq |-> 0,
         next |-> IF row.acked = None /\ Backfills(request) # {}
                  THEN FirstBackfillBlock(request) ELSE Min(starts),
         head |-> ExpectedActivationHead(row.acked, request), boundary |-> activation]

SourceAccepts(request) ==
    AckedHead(row.acked) # None /\ CanonicalBaseline(request) # None =>
        AckedHead(row.acked) = CanonicalBaseline(request)

CandidateReaches(request, height) ==
    /\ ~sub.acking
    /\ SourceAccepts(request)
    /\ \/ /\ ApplyAccepts(row, request, PreparedCursor(request, height), TRUE)
          /\ row' = ApplyRow(row, request, PreparedCursor(request, height))
          /\ reach' = 0
       \/ /\ ApplyReplays(row, request, None)
          /\ UNCHANGED <<row, reach>>

\* commit_candidate: an answer that does not fit leaves the candidate pending.
CommitCandidate(s, applied) ==
    IF applied.rev = s.candidate.request.new /\ applied.activation = s.acked + 1
    THEN MaybeCompleteBackfill(
            [s EXCEPT !.topology = s.candidate.topology, !.rev = applied.rev,
                      !.candidate = None])
    ELSE s

CandidateApplied(height) ==
    /\ sub.candidate # None
    /\ CandidateReaches(sub.candidate.request, height)
    /\ sub' = CommitCandidate(sub, [rev |-> row'.revision, activation |-> row'.activation])
    /\ UNCHANGED runtime

\* The answer is lost, or the call dropped: the candidate stays.
CandidateUncertain(height) ==
    /\ sub.candidate # None
    /\ CandidateReaches(sub.candidate.request, height)
    /\ UNCHANGED <<sub, runtime>>

\* Mutant: the candidate is dropped after an uncertain failure too.
CandidateForgotten ==
    /\ sub.candidate # None
    /\ sub' = [sub EXCEPT !.candidate = None]
    /\ UNCHANGED <<row, runtime, reach>>

\* A definite error, which the service gives of nothing it has committed.
CandidateRejected ==
    /\ sub.candidate # None
    /\ row.desired # sub.candidate.request
    /\ sub' = [sub EXCEPT !.candidate = None]
    /\ UNCHANGED <<row, runtime, reach>>

(***************************************************************************)
(* Deliveries                                                              *)
(***************************************************************************)
\* A source's delivery goes to the outbox, demanded by a call of next_batch
\* that may have been dropped since.
SourceDelivers(next, head, payload) ==
    LET seq == NextSequence(row)
        d == [seq |-> seq, rev |-> row.revision, token |-> Token(seq),
              cursor |-> [rev |-> row.revision, seq |-> seq, next |-> next, head |-> head,
                          boundary |-> row.acked.boundary],
              payload |-> payload, neutral |-> payload.kind = "barrier"]
    IN  /\ row.acked # None
        /\ seq <= env.last
        /\ SaveAccepts(row, row.desired, d)
        /\ row' = SaveRow(row, d)
        /\ UNCHANGED <<sub, runtime, reach>>

ExpectedSequence(s) == IF s.delivered # None THEN s.delivered ELSE s.acked + 1

ActivationBaseline(s) == IF s.topology.global = None THEN None ELSE s.topology.global.anchor

\* decode_delivery with the authority next_batch gives it.
DecodesDelivery(s, d) ==
    /\ d.rev = s.rev /\ d.cursor.rev = d.rev
    /\ d.seq = ExpectedSequence(s) /\ d.cursor.seq = d.seq
    /\ d.token = Token(d.seq)
    /\ ValidateWireProgress(s.cursor, ActivationBaseline(s), d,
                            SubscriberHasOpenBackfill(s.topology))
    /\ IsData(d) => DecodeData(DOMAIN s.topology.owners, d.payload.records)

\* next_batch after its reconciliations.  A checkpoint-neutral delivery is
\* acknowledged before anything else happens, by this call or the next one.
\* The runtime does not ask for a batch it has ingested and not acknowledged.
NextBatch ==
    /\ Reconciled
    /\ ~sub.acking
    /\ sub.delivered # None => runtime.saved # sub.delivered
    /\ row.pending # None
    /\ DecodesDelivery(sub, row.pending)
    /\ IF row.pending.neutral
       THEN sub' = [sub EXCEPT !.neutral = row.pending] /\ UNCHANGED runtime
       ELSE /\ sub' = [sub EXCEPT !.delivered = row.pending.seq, !.dcursor = row.pending.cursor]
            /\ runtime' = [runtime EXCEPT !.batch = DecodedBatch(row.pending)]
    /\ UNCHANGED <<row, reach>>

\* The transport's acknowledge reaches the service.
AcknowledgementReaches(seq) ==
    LET ack == [seq |-> seq, token |-> Token(seq)] IN
    \/ /\ AckAccepts(row, ack)
       /\ row' = AckRow(row)
       /\ reach' = Max({row.pending.cursor.next,
                        IF row.pending.rev = row.revision THEN reach ELSE 0})
    \/ /\ AckRepeats(row, ack)
       /\ UNCHANGED <<row, reach>>

\* Mutant: the cursor of the barrier is not adopted.
NeutralKeepsCursor ==
    /\ sub.candidate = None /\ sub.neutral # None
    /\ AcknowledgementReaches(sub.neutral.seq)
    /\ sub' = [sub EXCEPT !.acked = sub.neutral.seq, !.neutral = None]
    /\ UNCHANGED runtime

NeutralAcknowledged ==
    /\ sub.candidate = None /\ sub.neutral # None
    /\ AcknowledgementReaches(sub.neutral.seq)
    /\ sub' = MaybeCompleteBackfill(
                [sub EXCEPT !.acked = sub.neutral.seq, !.cursor = sub.neutral.cursor,
                            !.neutral = None])
    /\ UNCHANGED runtime

NeutralUncertain ==
    /\ sub.candidate = None /\ sub.neutral # None
    /\ AcknowledgementReaches(sub.neutral.seq)
    /\ UNCHANGED <<sub, runtime>>

\* The runtime saves its state with the position of the batch it ingested.
Ingest ==
    /\ runtime.batch # None
    /\ runtime' = [batch |-> None, saved |-> sub.delivered]
    /\ UNCHANGED <<row, sub, reach>>

\* acknowledge_delivery of the saved position, after its reconciliations.
DeliveryAcknowledged ==
    /\ Reconciled
    /\ sub.delivered # None /\ runtime = [batch |-> None, saved |-> sub.delivered]
    /\ AcknowledgementReaches(sub.delivered)
    /\ sub' = MaybeCompleteBackfill(
                [sub EXCEPT !.acked = sub.delivered,
                            !.cursor = IF sub.dcursor # None THEN sub.dcursor ELSE row'.acked,
                            !.delivered = None, !.dcursor = None, !.acking = FALSE])
    /\ UNCHANGED runtime

DeliveryUncertain ==
    /\ Reconciled
    /\ sub.delivered # None /\ runtime = [batch |-> None, saved |-> sub.delivered]
    /\ sub' = [sub EXCEPT !.acking = TRUE]
    /\ \/ AcknowledgementReaches(sub.delivered)
       \/ UNCHANGED <<row, reach>>
    /\ UNCHANGED runtime

Lifecycle ==
    \/ \E interests \in SUBSET Interest : RegisterInterests(interests)
    \/ \E updates \in SUBSET Owner : UpsertInterestOwners(updates, Interest)
    \/ \E owners \in SUBSET Owner : ReplaceInterestOwners(owners, Interest)
    \/ \E owners \in SUBSET Owner, b \in env.ranges :
          ReplaceInterestOwnersWithGlobalBackfill(owners, Interest, b)
    \/ \E o \in Owner : AddInterestOwner(o, Interest)
    \/ \E o \in Owner, b \in env.ranges : AddInterestOwnerWithBackfill(o, Interest, b)
    \/ \E o \in Owner, retained \in env.blocks :
          AddInterestOwnerWithCanonicalCatchup(o, Interest, retained)
    \/ \E o \in Owner : RemoveInterestOwner(o)

ProgressBarriers == {Barrier(ProgressId(row.revision, n), None) : n \in env.heights}

SourceStep ==
    \E next \in env.heights, head \in env.blocks \cup {None}, payload \in env.payloads \cup ProgressBarriers :
        SourceDelivers(next, head, payload)

Next ==
    /\ \/ Lifecycle
       \/ \E height \in env.heights : CandidateApplied(height) \/ CandidateUncertain(height)
       \/ CandidateRejected
       \/ SourceStep
       \/ NextBatch
       \/ NeutralAcknowledged \/ NeutralUncertain
       \/ Ingest
       \/ DeliveryAcknowledged \/ DeliveryUncertain
       \/ Connect \/ RestorePosition
    /\ UNCHANGED env

Spec == Init /\ [][Next]_vars

(***************************************************************************)
(* Properties                                                              *)
(***************************************************************************)
\* A topology as the service knows it, whatever backfill is complete.
Registered(t) ==
    [base |-> t.base, owners |-> [o \in DOMAIN t.owners |-> t.owners[o].interests]]

\* The mirror is what the service has committed, or the service has already
\* committed the candidate that is still pending: a revision the subscriber
\* did not see confirmed is never lost and never replaced by another one
\* (commit_candidate, reconcile_pending_candidate).
MirrorFollowsRow ==
    \/ /\ sub.rev = row.revision
       /\ row.desired # None =>
             Registered(sub.topology) = Registered(DecodeAuthoritativeDesiredState(row.desired))
    \/ /\ sub.candidate # None
       /\ row.revision = sub.rev + 1 /\ row.desired = sub.candidate.request

\* What the service holds in the outbox the subscriber can decode with its own
\* mirror: owners, baseline and open backfills are the ones the store used.
OutboxDecodes ==
    sub.candidate = None /\ ~sub.acking /\ sub.neutral = None /\ row.pending # None =>
        DecodesDelivery(sub, row.pending)

Covered(b) == BackfillTarget(b, row.acked) # None /\ reach >= BackfillTarget(b, row.acked)

\* Unless the caller replaces everything, a revision follows another one only
\* when each of its backfills was acknowledged to its end: the fence of
\* apply_candidate holds from the commit until the last backfill completes.
BackfillNotAbandoned ==
    [][row'.revision # row.revision /\ row.desired # None /\ ~sub.candidate.supersedes =>
          \A b \in OpenBackfills(DecodeAuthoritativeDesiredState(row.desired)) : Covered(b)]_vars

\* A subscriber that has reconciled everything and one that connects anew
\* have the same mirror: what new_from_authoritative decodes is what was
\* applied, and the same backfills are in progress, unless a reorg has taken
\* the cursor back below the end of one.
RestartKeepsMirror ==
    Reconciled /\ sub.cursor = row.acked /\ (row.acked # None => reach = row.acked.next) =>
        NewFromAuthoritative.rev = sub.rev /\ NewFromAuthoritative.topology = sub.topology
=============================================================================
