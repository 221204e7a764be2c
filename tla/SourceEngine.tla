---------------------------- MODULE SourceEngine ----------------------------
(***************************************************************************)
(* One SourceEngine as a record, and what its methods make of it.  Pure    *)
(* operators: `XAccepts` is the condition under which method X returns Ok. *)
(* A method that fails leaves the engine as it was.                        *)
(*                                                                         *)
(* A cursor carries its provider checkpoint decoded, as the record         *)
(* [guard, activation, canonical]; encode_source_checkpoint and            *)
(* decode_source_checkpoint are inverse on what engines write.             *)
(***************************************************************************)
EXTENDS SessionRow, SourcePages, CanonicalHistory

CONSTANTS
    MaxDelivery,       \* max_delivery_bytes, in records
    MaxLogsPerQuery    \* MAX_LOGS_PER_QUERY

ASSUME EngineAssumption == MaxDelivery \in Nat \ {0} /\ MaxLogsPerQuery \in Nat \ {0}

(***************************************************************************)
(* Resume state                                                            *)
(***************************************************************************)
GuardAt(b) == GuardOf(<<b>>)

GuardFits(guard, canonical) ==
    guard.number = Num[Tip(canonical)] /\ guard.block = Tip(canonical) /\ guard.time = Time[Tip(canonical)]

ValidateResumeState(canonical, next, guard) ==
    /\ guard # None => guard.first <= guard.number
    /\ IF canonical = <<>>
       THEN guard # None => next = guard.number + 1
       ELSE /\ next = Num[Tip(canonical)] + 1
            /\ guard # None => GuardFits(guard, canonical)

\* A checkpoint without a guard gets the one its last block implies.
ResumedGuard(canonical, guard) ==
    IF guard = None /\ canonical # <<>> THEN GuardAt(Tip(canonical)) ELSE guard

ValidateCoverageState(canonical, next, coverage) ==
    coverage # None =>
        /\ next <= Num[coverage] + 1
        /\ BlockAt(canonical, Num[coverage]) \in {None, coverage}

ResumeAccepts(resume) ==
    LET applied == ApplyBlocks(<<>>, resume.canonical) IN
    /\ applied.ok
    /\ ValidateResumeState(applied.blocks, resume.next, resume.guard)
    /\ ValidateCoverageState(applied.blocks, resume.next, resume.coverage)

ResumeEngine(desired, resume) ==
    LET canonical == ApplyBlocks(<<>>, resume.canonical).blocks IN
    [desired |-> desired, next |-> resume.next, seq |-> resume.seq,
     activation |-> resume.activation, boundary |-> resume.boundary,
     coverage |-> resume.coverage, canonical |-> canonical,
     guard |-> ResumedGuard(canonical, resume.guard), pending |-> None, queued |-> None]

\* checkpoints_from_cursor: both boundaries agree when both are there; a
\* checkpoint without history starts from the head its cursor stops at.
CheckpointAccepts(cursor) ==
    cursor.boundary # None => cursor.checkpoint.activation = cursor.boundary

CheckpointsFromCursor(cursor) ==
    [cursor.checkpoint EXCEPT !.canonical =
        IF @ = <<>> /\ cursor.head # None /\ Num[cursor.head] + 1 = cursor.next
        THEN <<cursor.head>> ELSE @]

(***************************************************************************)
(* Cursors and deliveries                                                  *)
(***************************************************************************)
EngineCursor(e, seq, next, head, guard, canonical) ==
    [rev |-> e.desired.new, seq |-> seq, next |-> next, head |-> head, boundary |-> e.boundary,
     checkpoint |-> [guard |-> guard, activation |-> e.activation, canonical |-> canonical]]

PreparedCursor(e) == EngineCursor(e, e.seq, e.next, e.coverage, e.guard, e.canonical)

EngineDelivery(e, seq, cursor, payload, neutral) ==
    [seq |-> seq, rev |-> e.desired.new, token |-> Token(seq), cursor |-> cursor,
     payload |-> payload, neutral |-> neutral]

\* Mutant: the control's checkpoint keeps the displaced suffix.
ReorgDeliveryUntrimmed(e, seq, reorg) ==
    LET n == Num[reorg.ancestor] IN
    EngineDelivery(e, seq,
        EngineCursor(e, seq, n + 1, reorg.ancestor, GuardAt(reorg.ancestor), e.canonical),
        [kind |-> "reorg", ancestor |-> reorg.ancestor, old |-> reorg.old, new |-> reorg.new],
        FALSE)

ReorgDelivery(e, seq, reorg) ==
    LET n == Num[reorg.ancestor] IN
    EngineDelivery(e, seq,
        EngineCursor(e, seq, n + 1, reorg.ancestor, GuardAt(reorg.ancestor), UpTo(e.canonical, n)),
        [kind |-> "reorg", ancestor |-> reorg.ancestor, old |-> reorg.old, new |-> reorg.new],
        FALSE)

(***************************************************************************)
(* prepare_batch                                                           *)
(***************************************************************************)
ValidateCoverageBoundary(coverage, blocks, anchor) ==
    coverage # None =>
        /\ \A b \in Range(blocks) : Num[b] = Num[coverage] => b = coverage
        /\ anchor # None /\ Num[anchor] = Num[coverage]
              /\ (\A b \in Range(blocks) : Num[b] # Num[coverage]) => anchor = coverage
        /\ blocks # <<>> /\ Num[Head(blocks)] = Num[coverage] + 1 => Parent[Head(blocks)] = coverage

CrossesUntrackedCoverage(e) ==
    e.coverage # None /\ (e.canonical = <<>> \/ e.next <= Num[e.coverage])

AppliedPage(e, page, anchor) ==
    ApplyBlocks(IF e.canonical = <<>> /\ anchor # None THEN <<anchor>> ELSE e.canonical,
                page.blocks)

PrepareAccepts(e, page, anchor) ==
    /\ anchor # None \/ CrossesUntrackedCoverage(e) =>
          ValidateCoverageBoundary(e.coverage, page.blocks, anchor)
    /\ AppliedPage(e, page, anchor).ok

PreparedDelivery(e, seq, page, anchor) ==
    LET records == Records(e.desired, page, e.activation)
        covered == PageHead(e.desired, page, e.activation)
        head == IF covered # None THEN covered ELSE e.coverage
        cursor == EngineCursor(e, seq, page.next, head, page.guard,
                               AppliedPage(e, page, anchor).blocks)
    IN  IF records # <<>>
        THEN EngineDelivery(e, seq, cursor, [kind |-> "data", records |-> records], FALSE)
        ELSE EngineDelivery(e, seq, cursor,
                            Barrier(ProgressId(e.desired.new, page.next),
                                    IF head # e.coverage THEN head ELSE None),
                            head = e.coverage)

(***************************************************************************)
(* next_batch                                                              *)
(***************************************************************************)
QueryLimits(from, to) == [blocks |-> Max({1, to - from}), logs |-> MaxLogsPerQuery]

Half(n) == (n + 1) \div 2

CanShrink(limits) == limits # [blocks |-> 1, logs |-> 1]
Shrunk(limits) == [blocks |-> Half(limits.blocks), logs |-> Half(limits.logs)]

\* Mutant: a page that starts right after the last one is not compared.
RollbackDetectedStrict(e, page) ==
    /\ e.guard # None /\ page.guard # None
    /\ page.guard.first <= e.guard.number
    /\ page.guard.parent # e.guard.block

RollbackDetected(e, page) ==
    /\ e.guard # None /\ page.guard # None
    /\ page.guard.first <= e.guard.number + 1
    /\ page.guard.parent # e.guard.block

\* A fork of a branch that only owners saw has no control to announce it.
OwnerOnlyFork(e, reorg) ==
    /\ Num[reorg.old] < e.activation
    /\ ~GlobalBackfillActive(e.desired, Num[reorg.old])

InFlight(delivery, guard, advances) ==
    [delivery |-> delivery, guard |-> guard, advances |-> advances]

\* The engine after a page without a fork, and after one with a fork: the
\* control goes out first and the replacement waits behind it.
Advanced(e, page, anchor) ==
    [e EXCEPT !.canonical = AppliedPage(e, page, anchor).blocks,
              !.pending = InFlight(PreparedDelivery(e, e.seq + 1, page, anchor), page.guard, TRUE)]

\* Mutant: the replacement keeps the sequence it was prepared with.
ForkedSameSequence(e, page, anchor) ==
    LET applied == AppliedPage(e, page, anchor) IN
    [e EXCEPT !.canonical = applied.blocks,
              !.pending = InFlight(ReorgDelivery(e, e.seq + 1, applied.reorg), e.guard, FALSE),
              !.queued = InFlight(PreparedDelivery(e, e.seq + 1, page, anchor), page.guard, TRUE)]

Forked(e, page, anchor) ==
    LET applied == AppliedPage(e, page, anchor) IN
    [e EXCEPT !.canonical = applied.blocks,
              !.pending = InFlight(ReorgDelivery(e, e.seq + 1, applied.reorg), e.guard, FALSE),
              !.queued = InFlight(PreparedDelivery(e, e.seq + 2, page, anchor), page.guard, TRUE)]

(***************************************************************************)
(* acknowledge, synchronize_committed_cursor                               *)
(***************************************************************************)
EngineAckAccepts(e, token) == e.pending # None /\ e.pending.delivery.token = token

\* Mutant: the coverage head is not taken over.
AckKeepsCoverage(e) ==
    LET p == e.pending IN
    [e EXCEPT !.next = IF p.advances THEN p.delivery.cursor.next ELSE @,
              !.guard = IF p.advances THEN p.guard ELSE @,
              !.seq = p.delivery.seq,
              !.pending = e.queued,
              !.queued = None]

AcknowledgeEngine(e) ==
    LET p == e.pending IN
    [e EXCEPT !.next = IF p.advances THEN p.delivery.cursor.next ELSE @,
              !.guard = IF p.advances THEN p.guard ELSE @,
              !.seq = p.delivery.seq,
              !.coverage = p.delivery.cursor.head,
              !.pending = e.queued,
              !.queued = None]

ResumeOf(cursor) ==
    LET checkpoint == CheckpointsFromCursor(cursor) IN
    [next |-> cursor.next, seq |-> cursor.seq, activation |-> checkpoint.activation,
     boundary |-> cursor.boundary, canonical |-> checkpoint.canonical,
     guard |-> checkpoint.guard, coverage |-> cursor.head]

SynchronizeAccepts(e, cursor) ==
    /\ e.pending = None
    /\ cursor.seq >= e.seq
    /\ CheckpointAccepts(cursor)
    /\ ResumeAccepts(ResumeOf(cursor))

Synchronized(e, cursor) == ResumeEngine(e.desired, ResumeOf(cursor))
=============================================================================
