----------------------------- MODULE SessionRow -----------------------------
(***************************************************************************)
(* One row of the `sessions` table and what the operations of SessionStore *)
(* make of it, as pure operators: `XAccepts` is the conjunction of the     *)
(* conditions under which operation X commits, `XRow` is the row it        *)
(* commits.  Every SQLite transaction is atomic, so an operation that does *)
(* not commit leaves the row as it was.                                    *)
(*                                                                         *)
(* A session without a row is EmptyRow: only apply_desired_state creates   *)
(* rows, so a row without a desired state never exists.                    *)
(***************************************************************************)
EXTENDS Delivery

CONSTANTS
    MaxRevision,  \* largest revision SQLite's signed integers represent
    MaxSequence   \* largest delivery sequence (u64::MAX)

ASSUME BoundAssumption == MaxRevision \in Nat /\ MaxSequence \in Nat

EmptyRow == [revision |-> 0, desired |-> None, acked |-> None, runtime |-> None,
             pending |-> None, activation |-> 0, tip |-> None]

AckedSequence(row) == IF row.acked = None THEN 0 ELSE row.acked.seq

\* checked_add: an exhausted sequence has no successor.
HasNextSequence(row) == AckedSequence(row) < MaxSequence
NextSequence(row) == AckedSequence(row) + 1

(***************************************************************************)
(* load: every operation first reads the row back through                  *)
(* validate_persisted_session, and fails if that check does.               *)
(***************************************************************************)
ValidateCursors(row) ==
    /\ row.acked # None => row.acked.rev <= row.revision /\ row.acked.seq # 0
    /\ row.runtime # None =>
          /\ row.runtime.rev <= row.revision /\ row.runtime.seq # 0
          /\ row.acked # None
          /\ row.runtime.seq <= row.acked.seq
          /\ row.runtime.seq = row.acked.seq => row.runtime = row.acked

ValidatePromise(row) ==
    row.tip # None => ~NumberAtLeast(AckedHead(row.acked), Num[row.tip])

ValidatePending(row) ==
    LET d == row.pending IN
    d # None =>
        /\ HasNextSequence(row)
        /\ d.rev = row.revision /\ d.cursor.rev = row.revision
        /\ d.seq = NextSequence(row) /\ d.cursor.seq = d.seq
        /\ d.token = Token(d.seq)
        /\ ValidateDeliverySize(d)
        /\ ValidateDeliveryPayload(row.desired, d)
        /\ ValidateDeliveryProgress(row.acked, row.desired, d)
        /\ row.tip # None =>
              /\ IsActivationDelivery(d, row.desired.new) \/ CertifiesReorgTip(d, row.tip)
              /\ ~IsReorg(d)

\* The current revision is backed by its activation barrier, either still
\* pending or already acknowledged; activation 0 is a row of the old schema.
ValidateActivation(row) ==
    LET current == IF row.pending # None THEN row.pending.seq ELSE AckedSequence(row)
        pendingActivation ==
            row.pending # None /\ IsActivationDelivery(row.pending, row.desired.new)
        ackedAtRevision == row.acked # None /\ row.acked.rev = row.revision
    IN  /\ row.activation <= current
        /\ IF row.activation = 0 THEN pendingActivation \/ ackedAtRevision
           ELSE IF AckedSequence(row) < row.activation
           THEN pendingActivation /\ row.pending.seq = row.activation
           ELSE ackedAtRevision

ValidatePersistedSession(row) ==
    IF row.desired = None
    THEN row = EmptyRow
    ELSE /\ ValidateDesiredState(row.desired)
         /\ row.desired.new = row.revision
         /\ ValidateCursors(row)
         /\ ValidatePromise(row)
         /\ ValidatePending(row)
         /\ ValidateActivation(row)

(***************************************************************************)
(* apply_desired_state_with_cursor_and_limit                               *)
(***************************************************************************)
ActivationCursor(row, request, prepared) ==
    LET fresh == [rev |-> request.new, seq |-> 0,
                  next |-> FirstBackfillBlock(request), head |-> None,
                  boundary |-> None]
        base == IF prepared # None THEN prepared
                ELSE IF row.acked # None THEN row.acked ELSE fresh
    IN  [base EXCEPT !.rev = request.new, !.seq = NextSequence(row)]

ActivationDelivery(row, request, prepared) ==
    [seq |-> NextSequence(row), rev |-> request.new, token |-> Token(NextSequence(row)),
     cursor |-> ActivationCursor(row, request, prepared),
     payload |-> Barrier(ActivationId(request.new), None), neutral |-> TRUE]

\* What both outcomes of apply require before the compare-and-swap.
ApplyReads(row, request, prepared) ==
    /\ ValidateDesiredState(request)
    /\ ValidatePersistedSession(row)
    /\ prepared # None => prepared.rev = request.new
    /\ request.expected <= MaxRevision /\ request.new <= MaxRevision

\* Mutant: any later revision will do.
AnyLaterNoConflict(row, request, hasCapacity) ==
    /\ row.revision = request.expected
    /\ request.new > request.expected
    /\ row.pending = None
    /\ row.desired = None => hasCapacity
    /\ HasNextSequence(row)

\* The compare-and-swap finds the revision, an empty outbox, room for the row
\* and a next sequence.
NoConflict(row, request, hasCapacity) ==
    /\ row.revision = request.expected
    /\ request.new = request.expected + 1
    /\ row.pending = None
    /\ row.desired = None => hasCapacity
    /\ HasNextSequence(row)

ApplyAccepts(row, request, prepared, hasCapacity) ==
    LET activation == ActivationDelivery(row, request, prepared) IN
    /\ NoConflict(row, request, hasCapacity)
    /\ ApplyReads(row, request, prepared)
    /\ ValidateDeliverySize(activation)
    /\ ValidateDeliveryPayload(request, activation)
    /\ ValidateDeliveryProgress(row.acked, request, activation)

ApplyRow(row, request, prepared) ==
    [row EXCEPT !.revision = request.new,
                !.desired = request,
                !.pending = ActivationDelivery(row, request, prepared),
                !.activation = NextSequence(row)]

\* A repetition of the committed request is answered with the sequence its
\* activation was given, whatever happened since.
ApplyReplays(row, request, prepared) ==
    /\ row.revision # request.expected
    /\ row.revision = request.new
    /\ row.desired = request
    /\ ApplyReads(row, request, prepared)

(***************************************************************************)
(* save_pending_with_status                                                *)
(***************************************************************************)
SaveReads(row, desired, d) ==
    /\ d.rev = desired.new /\ d.cursor.rev = desired.new
    /\ row.desired # None /\ row.desired = desired
    /\ HasNextSequence(row)
    /\ d.seq = d.cursor.seq /\ d.token = Token(d.seq) /\ d.seq = NextSequence(row)
    /\ ValidateDeliverySize(d)
    /\ ValidateDeliveryPayload(desired, d)
    /\ ValidateDeliveryProgress(row.acked, desired, d)
    /\ row.tip # None => CertifiesReorgTip(d, row.tip)
    /\ ValidatePersistedSession(row)

SaveAccepts(row, desired, d) == row.pending = None /\ SaveReads(row, desired, d)

\* The identical item may be offered again; any other one is refused.
SaveRepeats(row, desired, d) == row.pending = d /\ SaveReads(row, desired, d)

SaveRow(row, d) == [row EXCEPT !.pending = d]

(***************************************************************************)
(* acknowledge_with_status                                                 *)
(***************************************************************************)
\* Mutant: a certified promise is never cleared.
UnclearedReorgTipAfterAck(tip, d) == IF IsReorg(d) THEN d.payload.new ELSE tip

ExpectedReorgTipAfterAck(tip, d) ==
    IF IsReorg(d) THEN d.payload.new
    ELSE IF tip # None /\ CertifiesReorgTip(d, tip) THEN None
    ELSE tip

AckAccepts(row, ack) ==
    /\ ValidatePersistedSession(row)
    /\ row.pending # None
    /\ row.pending.seq = ack.seq /\ row.pending.token = ack.token
    /\ IsReorg(row.pending) => row.tip = None

AckRow(row) ==
    LET d == row.pending IN
    [row EXCEPT !.acked = d.cursor,
                !.runtime = IF d.neutral THEN row.runtime ELSE d.cursor,
                !.pending = None,
                !.tip = ExpectedReorgTipAfterAck(row.tip, d)]

\* A repeated acknowledgement of the last committed delivery succeeds again.
AckRepeats(row, ack) ==
    /\ ValidatePersistedSession(row)
    /\ row.pending = None
    /\ row.acked # None /\ row.acked.seq = ack.seq /\ ack.token = Token(ack.seq)
=============================================================================
