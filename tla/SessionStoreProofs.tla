------------------------- MODULE SessionStoreProofs -------------------------
(***************************************************************************)
(* Proofs about SessionStore, for every value of its constants, and about  *)
(* EventService as an implementation of it: the theorems about rows carry  *)
(* over to the service, whose leases are exclusive and fence the source.   *)
(*                                                                         *)
(* RowsLoadable is not inductive as it stands: an acknowledged activation  *)
(* barrier may install a retained baseline as head, and nothing in the     *)
(* load check says that this cannot happen while a reorg replacement is    *)
(* outstanding.  PromiseHasHead supplies that.                             *)
(***************************************************************************)
EXTENDS EventService, FiniteSetTheorems, WellFoundedInduction, TLAPS

\* A promised replacement tip is only ever set by a reorg, whose ancestor is
\* then the acknowledged head, and no delivery removes a head.
PromiseHasHead(row) == row.tip # None => row.acked # None /\ row.acked.head # None

RowInv(row) == row \in RowType /\ ValidatePersistedSession(row) /\ PromiseHasHead(row)

\* An absent value is never mistaken for a cursor, a request or a delivery.
LEMMA NoneIsNoRecord ==
    None \notin Cursor /\ None \notin Requests /\ None \notin DeliveryType
  BY NoneAssumption

\* The position a source has prepared for a request is a cursor of its revision.
LEMMA PreparedIsCursor ==
    ASSUME NEW request \in Requests, NEW position \in Positions \cup {None}
    PROVE  (IF position = None THEN None ELSE CursorAt(request.new, 0, position))
               \in Cursor \cup {None}
<1>1. /\ request.new \in Revisions
      /\ Positions \subseteq [next : Nat, head : OptBlock, boundary : Nat \cup {None}]
  BY SourceAssumption, Zenon DEF Requests
<1>2. request.new \in Nat /\ 0 \in Nat
  BY <1>1, BoundAssumption DEF Revisions
<1> QED
  BY <1>1, <1>2, Zenon DEF CursorAt, Cursor

\* A session without a row satisfies the row invariant.
LEMMA EmptyRowInv == RowInv(EmptyRow)
  BY ChainAssumption, BoundAssumption
  DEF RowInv, RowType, EmptyRow, Revisions, OptBlock, ValidatePersistedSession,
      PromiseHasHead

\* A non-empty set of numbers has a least one.
LEMMA MinIsLeast ==
    ASSUME NEW S \in SUBSET Nat, S # {}
    PROVE  Min(S) \in S /\ \A y \in S : Min(S) <= y
<1> DEFINE R == OpToRel(<, Nat)
<1>1. IsWellFoundedOn(R, Nat)
  BY NatLessThanWellFounded, Zenon
<1>2. \A x, y \in Nat : <<y, x>> \in R \/ x <= y
  BY DEF OpToRel
<1> HIDE DEF R
<1>3. PICK x \in S : \A y \in S : ~(<<y, x>> \in R)
  BY <1>1, WFMin, Zenon
<1>4. \A y \in S : x <= y
  BY <1>2, <1>3, Zenon
<1> QED
  BY <1>4, Zenon DEF Min

\* A topology's scan starts at a block number.
LEMMA FirstBackfillBlockType ==
    ASSUME NEW request \in Requests
    PROVE  FirstBackfillBlock(request) \in Nat
<1>1. \A b \in Backfills(request) : b.from \in Nat
  BY TopologyAssumption DEF Backfills, Requests
<1>2. {b.from : b \in Backfills(request)} \in SUBSET Nat
  BY <1>1
<1>3. CASE Backfills(request) = {}
  BY <1>3 DEF FirstBackfillBlock
<1>4. CASE Backfills(request) # {}
  <2>1. {b.from : b \in Backfills(request)} # {}
    BY <1>4
  <2> QED
    BY <1>2, <1>4, <2>1, MinIsLeast DEF FirstBackfillBlock
<1> QED
  BY <1>3, <1>4

\* The acknowledged sequence and its successor, of a row with its type.
LEMMA SequenceType ==
    ASSUME NEW row \in RowType
    PROVE  /\ AckedSequence(row) \in Nat
           /\ NextSequence(row) = AckedSequence(row) + 1
           /\ HasNextSequence(row) => NextSequence(row) \in 1..MaxSequence
  BY NoneIsNoRecord, BoundAssumption
  DEF RowType, HasNextSequence, NextSequence, AckedSequence, Cursor

\* The activation barrier that an accepted apply persists.
LEMMA ActivationDeliveryType ==
    ASSUME NEW row \in RowType,
           NEW request \in Requests,
           NEW prepared \in Cursor \cup {None},
           HasNextSequence(row)
    PROVE  LET d == ActivationDelivery(row, request, prepared)
               n == NextSequence(row)
           IN  /\ d \in DeliveryType
               /\ d.seq = n /\ d.rev = request.new /\ d.token = Token(n)
               /\ d.cursor.rev = request.new /\ d.cursor.seq = n
               /\ d.payload = Barrier(ActivationId(request.new), None)
<1> DEFINE d == ActivationDelivery(row, request, prepared)
           n == NextSequence(row)
<1>1. n \in 1..MaxSequence
  BY SequenceType
<1>2. /\ ActivationCursor(row, request, prepared) \in Cursor
      /\ ActivationCursor(row, request, prepared).rev = request.new
      /\ ActivationCursor(row, request, prepared).seq = n
  <2> DEFINE fresh == [rev |-> request.new, seq |-> 0,
                       next |-> FirstBackfillBlock(request), head |-> None,
                       boundary |-> None]
             base == IF prepared # None THEN prepared
                     ELSE IF row.acked # None THEN row.acked ELSE fresh
  <2>1. request.new \in Nat /\ n \in Nat
    BY <1>1, BoundAssumption DEF Requests, Revisions
  <2>2. fresh \in Cursor
    BY <2>1, FirstBackfillBlockType DEF Cursor, OptBlock
  <2>3. base \in Cursor
    BY <1>1, <2>2 DEF RowType
  <2> HIDE DEF base
  <2>4. [base EXCEPT !.rev = request.new, !.seq = n] \in Cursor
    BY <2>1, <2>3, Zenon DEF Cursor
  <2>5. ActivationCursor(row, request, prepared) = [base EXCEPT !.rev = request.new, !.seq = n]
    BY DEF ActivationCursor, base
  <2> QED
    BY <2>1, <2>3, <2>4, <2>5 DEF Cursor
<1>3. /\ d \in DeliveryType
      /\ d.seq = n /\ d.rev = request.new /\ d.token = Token(n)
      /\ d.cursor = ActivationCursor(row, request, prepared)
      /\ d.payload = Barrier(ActivationId(request.new), None)
  BY <1>1, <1>2, Zenon DEF ActivationDelivery, DeliveryType, ActivationBarriers, Requests
<1> QED
  BY <1>2, <1>3

\* An accepted apply writes a loadable row.
LEMMA ApplyKeepsRowInv ==
    ASSUME NEW row, RowInv(row),
           NEW request \in Requests,
           NEW prepared \in Cursor \cup {None},
           NEW hasCapacity,
           ApplyAccepts(row, request, prepared, hasCapacity)
    PROVE  RowInv(ApplyRow(row, request, prepared))
<1> DEFINE new == ApplyRow(row, request, prepared)
           d == ActivationDelivery(row, request, prepared)
           n == NextSequence(row)
<1>1. /\ row \in RowType
      /\ n \in 1..MaxSequence /\ n = AckedSequence(row) + 1
      /\ AckedSequence(row) \in Nat
  BY SequenceType DEF RowInv, ApplyAccepts, NoConflict
<1>3. /\ d \in DeliveryType
      /\ d.seq = n /\ d.rev = request.new /\ d.token = Token(n)
      /\ d.cursor.rev = request.new /\ d.cursor.seq = n
      /\ d.payload = Barrier(ActivationId(request.new), None)
  BY <1>1, ActivationDeliveryType DEF ApplyAccepts, NoConflict
<1>4. new \in RowType
  <2>1. request.new \in Revisions
    BY DEF Requests
  <2>2. n \in 0..MaxSequence
    BY <1>1
  <2> QED
    BY <1>1, <1>3, <2>1, <2>2, Zenon DEF RowType, ApplyRow
<1>5. /\ new.acked = row.acked /\ new.runtime = row.runtime /\ new.tip = row.tip
      /\ new.revision = request.new /\ new.desired = request
      /\ new.pending = d /\ new.activation = n
  BY <1>1 DEF RowType, ApplyRow
<1>6. AckedSequence(new) = AckedSequence(row) /\ HasNextSequence(new) /\ NextSequence(new) = n
  BY <1>5 DEF AckedSequence, HasNextSequence, NextSequence, ApplyAccepts, NoConflict
<1>7. IsActivationDelivery(d, request.new) /\ ~IsReorg(d)
  BY <1>3 DEF IsActivationDelivery, IsBarrier, IsReorg, Barrier
<1>8. row.revision \in Nat /\ request.new = row.revision + 1
  BY <1>1 DEF RowType, Revisions, ApplyAccepts, NoConflict
<1>9. ValidateCursors(row) /\ ValidatePromise(row)
  BY ChainAssumption DEF RowInv, ValidatePersistedSession, EmptyRow, ValidateCursors, ValidatePromise
<1>10. ValidateCursors(new)
  BY <1>1, <1>5, <1>8, <1>9 DEF ValidateCursors, RowType, Cursor
<1>11. ValidatePromise(new)
  BY <1>5, <1>9, Zenon DEF ValidatePromise
<1>12. ValidatePending(new)
  BY <1>3, <1>5, <1>6, <1>7, Zenon DEF ValidatePending, ApplyAccepts, NoConflict
<1>13. ValidateActivation(new)
  BY <1>1, <1>3, <1>5, <1>6, <1>7, NoneIsNoRecord DEF ValidateActivation
<1>14. PromiseHasHead(new)
  BY <1>5 DEF RowInv, PromiseHasHead
<1> QED
  BY <1>4, <1>5, <1>10, <1>11, <1>12, <1>13, <1>14, NoneIsNoRecord
  DEF RowInv, ValidatePersistedSession, ApplyAccepts, NoConflict, ApplyReads

\* What save_pending persists has the type of a delivery.
LEMMA OfferedDeliveryType ==
    ASSUME NEW row \in RowType, row.desired # None,
           NEW rev, NEW seq, NEW position \in Positions, NEW payload \in Payloads,
           NEW neutral \in BOOLEAN,
           SaveReads(row, row.desired,
                     OfferedDelivery(rev, seq, Token(seq), position, payload, neutral))
    PROVE  OfferedDelivery(rev, seq, Token(seq), position, payload, neutral) \in DeliveryType
<1>1. rev \in Revisions
  BY Zenon DEF SaveReads, OfferedDelivery, RowType, Requests
<1>2. seq \in 1..MaxSequence
  BY SequenceType, Zenon DEF SaveReads, OfferedDelivery
<1>3. CursorAt(rev, seq, position) \in Cursor
  BY <1>1, <1>2, SourceAssumption, BoundAssumption DEF CursorAt, Cursor, Revisions
<1> QED
  BY <1>1, <1>2, <1>3, Zenon DEF OfferedDelivery, DeliveryType

\* A saved outbox item leaves a loadable row.
LEMMA SaveKeepsRowInv ==
    ASSUME NEW row, RowInv(row),
           NEW d \in DeliveryType,
           SaveAccepts(row, row.desired, d)
    PROVE  RowInv(SaveRow(row, d))
<1> DEFINE new == SaveRow(row, d)
<1>1. /\ row \in RowType /\ row.desired # None
      /\ AckedSequence(row) \in Nat
      /\ NextSequence(row) = AckedSequence(row) + 1
  BY SequenceType DEF RowInv, SaveAccepts, SaveReads
<1>2. new \in RowType
  BY <1>1 DEF RowType, SaveRow
<1>3. /\ new.acked = row.acked /\ new.runtime = row.runtime /\ new.tip = row.tip
      /\ new.revision = row.revision /\ new.desired = row.desired
      /\ new.pending = d /\ new.activation = row.activation
  BY <1>1 DEF RowType, SaveRow
<1>4. /\ AckedSequence(new) = AckedSequence(row)
      /\ HasNextSequence(new) <=> HasNextSequence(row)
      /\ NextSequence(new) = NextSequence(row)
  BY <1>3 DEF AckedSequence, HasNextSequence, NextSequence
<1>5. /\ ValidateDesiredState(row.desired) /\ row.desired.new = row.revision
      /\ ValidateCursors(row) /\ ValidatePromise(row) /\ ValidateActivation(row)
  BY <1>1, Zenon DEF RowInv, ValidatePersistedSession
<1>6. ValidateCursors(new) /\ ValidatePromise(new) /\ PromiseHasHead(new)
  BY <1>3, <1>5, SMTT(30) DEF RowInv, ValidateCursors, ValidatePromise, PromiseHasHead
<1>7. ValidatePending(new)
  <2>1. row.tip # None => CertifiesReorgTip(d, row.tip) /\ ~IsReorg(d)
    BY Zenon DEF SaveAccepts, SaveReads, CertifiesReorgTip, IsData, IsBarrier, IsReorg
  <2> QED
    BY <1>3, <1>4, <1>5, <2>1, Zenon DEF ValidatePending, SaveAccepts, SaveReads
<1>8. ValidateActivation(new)
  <2>1. row.pending = None /\ d # None /\ d.seq = AckedSequence(row) + 1
    BY <1>1, NoneIsNoRecord DEF SaveAccepts, SaveReads
  <2>2. row.activation \in Nat
    BY <1>1 DEF RowType
  <2> QED
    BY <1>1, <1>3, <1>4, <1>5, <2>1, <2>2 DEF ValidateActivation
<1> QED
  BY <1>1, <1>2, <1>3, <1>5, <1>6, <1>7, <1>8 DEF RowInv, ValidatePersistedSession

\* An acknowledged outbox item leaves a loadable row.
LEMMA AckKeepsRowInv ==
    ASSUME NEW row, RowInv(row), NEW ack, AckAccepts(row, ack)
    PROVE  RowInv(AckRow(row))
<1> DEFINE new == AckRow(row)
           d == row.pending
<1>1. /\ row \in RowType /\ row.desired # None /\ d \in DeliveryType
      /\ AckedSequence(row) \in Nat
      /\ NextSequence(row) = AckedSequence(row) + 1
  BY SequenceType DEF RowInv, AckAccepts, ValidatePersistedSession, EmptyRow, RowType
<1>2. d.cursor \in Cursor /\ d.cursor # None
  BY <1>1, NoneIsNoRecord DEF DeliveryType
<1>3. /\ ValidateDesiredState(row.desired) /\ row.desired.new = row.revision
      /\ ValidateCursors(row) /\ ValidatePromise(row) /\ ValidatePending(row)
      /\ ValidateActivation(row)
  BY <1>1, Zenon DEF RowInv, ValidatePersistedSession
<1>4. /\ d.rev = row.revision /\ d.cursor.rev = row.revision
      /\ d.seq = AckedSequence(row) + 1 /\ d.cursor.seq = d.seq
      /\ ValidateDeliveryProgress(row.acked, row.desired, d)
      /\ row.tip # None =>
            IsActivationDelivery(d, row.desired.new) \/ CertifiesReorgTip(d, row.tip)
  BY <1>1, <1>3, NoneIsNoRecord, Zenon DEF ValidatePending
<1>5. IsReorg(d) =>
          /\ d.payload.ancestor \in Block /\ d.payload.new \in Block
          /\ d.cursor.head = d.payload.ancestor
          /\ Num[d.payload.new] > Num[d.payload.ancestor]
  <2> SUFFICES ASSUME IsReorg(d)
               PROVE  /\ d.payload.ancestor \in Block /\ d.payload.new \in Block
                      /\ d.cursor.head = d.payload.ancestor
                      /\ Num[d.payload.new] > Num[d.payload.ancestor]
    OBVIOUS
  <2>1. d.payload.kind = "reorg"
    BY DEF IsReorg
  <2>2. d.payload \in Payloads
    BY <1>1, <2>1 DEF DeliveryType, ActivationBarriers, Barrier
  <2>3. d.cursor.head = d.payload.ancestor
    BY <1>4, <2>1, Zenon DEF ValidateDeliveryProgress, DeclaredHead, IsData, IsReorg, IsBarrier
  <2>4. Num[d.payload.new] > Num[d.payload.ancestor]
    BY <1>4, Zenon DEF ValidateDeliveryProgress, ValidateReorgProgress
  <2> QED
    BY <2>1, <2>2, <2>3, <2>4, SourceAssumption, Zenon
<1>6. ExpectedReorgTipAfterAck(row.tip, d) \in OptBlock
  BY <1>1, <1>5 DEF ExpectedReorgTipAfterAck, OptBlock, RowType
<1>7. new \in RowType
  BY <1>1, <1>2, <1>6, Zenon DEF RowType, AckRow
<1>8. /\ new.acked = d.cursor
      /\ new.runtime = (IF d.neutral THEN row.runtime ELSE d.cursor)
      /\ new.tip = ExpectedReorgTipAfterAck(row.tip, d)
      /\ new.revision = row.revision /\ new.desired = row.desired
      /\ new.pending = None /\ new.activation = row.activation
  BY <1>1, Zenon DEF RowType, AckRow
<1>9. ValidateCursors(new)
  <2>1. /\ d.cursor.rev <= row.revision /\ d.cursor.seq # 0
        /\ row.runtime # None => row.runtime \in Cursor /\ row.runtime.seq < d.cursor.seq
    BY <1>1, <1>2, <1>3, <1>4 DEF ValidateCursors, AckedSequence, Cursor, RowType, Revisions
  <2> QED
    BY <1>2, <1>3, <1>8, <2>1 DEF ValidateCursors, Cursor
<1>10. row.tip # None /\ ~IsReorg(d) /\ ~CertifiesReorgTip(d, row.tip) =>
           d.cursor.head = row.acked.head
  BY <1>1, <1>2, <1>4
  DEF RowInv, PromiseHasHead, ValidateDeliveryProgress, DeclaredHead, AckedHead,
      IsActivationDelivery, IsBarrier, IsData, IsReorg
<1>11. ValidatePromise(new)
  <2>1. CASE IsReorg(d)
    BY <1>2, <1>5, <1>8, <2>1, ChainAssumption, SMTT(30)
    DEF ValidatePromise, ExpectedReorgTipAfterAck, AckedHead, NumberAtLeast
  <2>2. CASE ~IsReorg(d)
    BY <1>2, <1>3, <1>8, <1>10, <2>2, Zenon
    DEF ValidatePromise, ExpectedReorgTipAfterAck, AckedHead, RowInv, PromiseHasHead
  <2> QED
    BY <2>1, <2>2, Zenon
<1>12. PromiseHasHead(new)
  BY <1>2, <1>5, <1>8, <1>10, ChainAssumption, SMTT(30)
  DEF PromiseHasHead, RowInv, ExpectedReorgTipAfterAck
<1>13. ValidatePending(new)
  BY <1>8, Zenon DEF ValidatePending
<1>14. ValidateActivation(new)
  <2>1. row.activation \in Nat /\ row.activation <= d.seq
    BY <1>1, <1>3, NoneIsNoRecord DEF ValidateActivation, RowType
  <2> QED
    BY <1>1, <1>2, <1>4, <1>8, <2>1, SMTT(30) DEF ValidateActivation, AckedSequence
<1> QED
  BY <1>1, <1>3, <1>7, <1>8, <1>9, <1>11, <1>12, <1>13, <1>14, Zenon
  DEF RowInv, ValidatePersistedSession

-----------------------------------------------------------------------------
\* Every row satisfies the row invariant.
RowsInv == rows \in [Session -> RowType] /\ \A s \in Session : RowInv(rows[s])

\* A step rewrites one row, through one of the three operations, or none.
LEMMA RowsStep ==
    ASSUME RowsInv, Next
    PROVE  RowsInv'
<1>1. PICK s \in Session : \/ Apply(s)
                           \/ Save(s)
                           \/ \E ack \in Acknowledgements : Acknowledge(s, ack)
  BY DEF Next
<1>2. ASSUME NEW row \in RowType, RowInv(row), rows' = [rows EXCEPT ![s] = row]
      PROVE  RowsInv'
  BY <1>2 DEF RowsInv
<1>3. CASE Apply(s)
  <2>1. PICK request \in Requests, position \in Positions \cup {None} :
            LET prepared == IF position = None THEN None
                            ELSE CursorAt(request.new, 0, position)
            IN  \/ ApplyDesiredState(s, request, prepared)
                \/ ReplayDesiredState(s, request, prepared)
    BY <1>3 DEF Apply, ApplyFrom
  <2> DEFINE prepared == IF position = None THEN None
                         ELSE CursorAt(request.new, 0, position)
  <2>2. prepared \in Cursor \cup {None}
    BY PreparedIsCursor, Zenon
  <2>3. CASE ApplyDesiredState(s, request, prepared)
    <3>1. RowInv(ApplyRow(rows[s], request, prepared))
      BY <2>2, <2>3, ApplyKeepsRowInv DEF RowsInv, ApplyDesiredState
    <3> QED
      BY <1>2, <2>3, <3>1, Zenon DEF ApplyDesiredState, RowInv
  <2>4. CASE ReplayDesiredState(s, request, prepared)
    BY <2>4 DEF ReplayDesiredState, RowsInv
  <2> QED
    BY <2>1, <2>3, <2>4
<1>4. CASE Save(s)
  <2>1. PICK rev \in {rows[s].revision - 1, rows[s].revision},
             seq \in {AckedSequence(rows[s]), NextSequence(rows[s])},
             position \in Positions, payload \in Payloads, neutral \in BOOLEAN :
             SavePending(s, rows[s].desired,
                 OfferedDelivery(rev, seq, Token(seq), position, payload, neutral))
    BY <1>4 DEF Save, SaveFrom
  <2> DEFINE d == OfferedDelivery(rev, seq, Token(seq), position, payload, neutral)
  <2>2. rows[s] \in RowType /\ RowInv(rows[s]) /\ rows[s].desired # None
    BY <1>4, Zenon DEF RowsInv, Save, SaveFrom
  <2>3. d \in DeliveryType
    BY <2>1, <2>2, OfferedDeliveryType DEF SavePending, SaveAccepts
  <2> HIDE DEF d
  <2>4. RowInv(SaveRow(rows[s], d))
    BY <2>1, <2>2, <2>3, SaveKeepsRowInv DEF SavePending, d
  <2> QED
    BY <1>2, <2>1, <2>4, Zenon DEF SavePending, RowInv, d
<1>5. CASE \E ack \in Acknowledgements : Acknowledge(s, ack)
  <2>1. RowInv(AckRow(rows[s]))
    BY <1>5, AckKeepsRowInv DEF RowsInv, Acknowledge
  <2> QED
    BY <1>2, <1>5, <2>1, Zenon DEF Acknowledge, RowInv
<1> QED
  BY <1>1, <1>3, <1>4, <1>5

\* No history of applies, saves and acknowledgements leaves a row that the
\* store's own load check (validate_persisted_session) would refuse.
THEOREM RowsAlwaysLoadable == Spec => []RowsLoadable
<1>1. Init => RowsInv
  BY EmptyRowInv DEF Init, RowsInv, RowInv
<1>2. RowsInv /\ [Next]_vars => RowsInv'
  BY RowsStep DEF vars, RowsInv
<1>3. RowsInv => RowsLoadable
  BY DEF RowsInv, RowInv, RowsLoadable
<1> QED
  BY <1>1, <1>2, <1>3, PTL DEF Spec

-----------------------------------------------------------------------------
\* Where a step leaves the row of a session: the four outcomes that the
\* theorems about histories distinguish.
Stays(s) == rows'[s] = rows[s] /\ log'[s] = log[s]

Activates(s) ==
    /\ rows[s].pending = None /\ rows'[s].acked = rows[s].acked
    /\ rows'[s].runtime = rows[s].runtime /\ rows'[s].tip = rows[s].tip
    /\ rows'[s].pending # None /\ rows'[s].pending.seq = NextSequence(rows[s])
    /\ rows'[s].activation = NextSequence(rows[s]) /\ rows'[s].desired # None
    /\ log'[s] = log[s]

Saves(s) ==
    /\ rows[s].pending = None /\ rows'[s].acked = rows[s].acked
    /\ rows'[s].runtime = rows[s].runtime /\ rows'[s].tip = rows[s].tip
    /\ rows'[s].pending # None /\ rows'[s].pending.seq = NextSequence(rows[s])
    /\ rows'[s].activation = rows[s].activation /\ rows'[s].desired = rows[s].desired
    /\ log'[s] = log[s]

Acknowledges(s) ==
    /\ rows[s].pending # None
    /\ rows'[s].acked = rows[s].pending.cursor /\ rows'[s].pending = None
    /\ rows'[s].runtime = (IF rows[s].pending.neutral THEN rows[s].runtime
                           ELSE rows[s].pending.cursor)
    /\ rows'[s].activation = rows[s].activation /\ rows'[s].desired = rows[s].desired
    /\ log'[s] = Append(log[s], rows[s].pending)

HistoryType == RowsInv /\ log \in [Session -> Seq(DeliveryType)]

\* Every step is one of the four outcomes for every session.
LEMMA StepOutcomes ==
    ASSUME HistoryType, Next
    PROVE  \A s \in Session : Stays(s) \/ Activates(s) \/ Saves(s) \/ Acknowledges(s)
<1> SUFFICES ASSUME NEW s \in Session
             PROVE  Stays(s) \/ Activates(s) \/ Saves(s) \/ Acknowledges(s)
  OBVIOUS
<1>1. PICK t \in Session : \/ Apply(t)
                           \/ Save(t)
                           \/ \E ack \in Acknowledgements : Acknowledge(t, ack)
  BY DEF Next
<1>2. rows[s] \in RowType /\ rows[t] \in RowType /\ RowInv(rows[t])
  BY DEF HistoryType, RowsInv
<1>3. CASE Apply(t)
  <2>1. PICK request \in Requests, position \in Positions \cup {None} :
            LET prepared == IF position = None THEN None
                            ELSE CursorAt(request.new, 0, position)
            IN  \/ ApplyDesiredState(t, request, prepared)
                \/ ReplayDesiredState(t, request, prepared)
    BY <1>3 DEF Apply, ApplyFrom
  <2> DEFINE prepared == IF position = None THEN None
                         ELSE CursorAt(request.new, 0, position)
  <2> HIDE DEF prepared
  <2>2. CASE ApplyDesiredState(t, request, prepared)
    <3>1. /\ rows' = [rows EXCEPT ![t] = ApplyRow(rows[t], request, prepared)]
          /\ log' = log /\ rows[t].pending = None
      BY <2>2, Zenon DEF ApplyDesiredState, ApplyAccepts, NoConflict
    <3>2. CASE s = t
      <4>1. rows'[s] = ApplyRow(rows[t], request, prepared)
        BY <3>1, <3>2, Zenon DEF HistoryType, RowsInv
      <4>2. /\ ActivationDelivery(rows[t], request, prepared) # None
            /\ ActivationDelivery(rows[t], request, prepared).seq = NextSequence(rows[t])
        <5>1. prepared \in Cursor \cup {None}
          BY PreparedIsCursor, Zenon DEF prepared
        <5> QED
          <6>1. HasNextSequence(rows[t])
            BY <2>2, Zenon DEF ApplyDesiredState, ApplyAccepts, NoConflict
          <6> QED
            BY <1>2, <5>1, <6>1, ActivationDeliveryType, NoneIsNoRecord
      <4>3. LET new == ApplyRow(rows[t], request, prepared) IN
            /\ new.acked = rows[t].acked /\ new.runtime = rows[t].runtime
            /\ new.tip = rows[t].tip /\ new.desired = request
            /\ new.activation = NextSequence(rows[t])
            /\ new.pending = ActivationDelivery(rows[t], request, prepared)
        BY <1>2 DEF ApplyRow, RowType
      <4> QED
        BY <3>1, <3>2, <4>1, <4>2, <4>3, NoneIsNoRecord DEF Activates
    <3>3. CASE s # t
      BY <3>1, <3>3, Zenon DEF Stays, HistoryType, RowsInv
    <3> QED
      BY <3>2, <3>3, SMTT(30)
  <2>3. CASE ReplayDesiredState(t, request, prepared)
    BY <2>3 DEF ReplayDesiredState, Stays
  <2> QED
    BY <2>1, <2>2, <2>3 DEF prepared
<1>4. CASE Save(t)
  <2>1. PICK rev \in {rows[t].revision - 1, rows[t].revision},
             seq \in {AckedSequence(rows[t]), NextSequence(rows[t])},
             position \in Positions, payload \in Payloads, neutral \in BOOLEAN :
             SavePending(t, rows[t].desired,
                 OfferedDelivery(rev, seq, Token(seq), position, payload, neutral))
    BY <1>4, Zenon DEF Save, SaveFrom
  <2> DEFINE d == OfferedDelivery(rev, seq, Token(seq), position, payload, neutral)
  <2>2. d \in DeliveryType
    BY <1>2, <1>4, <2>1, OfferedDeliveryType, Zenon DEF SavePending, SaveAccepts, Save, SaveFrom
  <2> HIDE DEF d
  <2>3. /\ rows' = [rows EXCEPT ![t] = SaveRow(rows[t], d)] /\ log' = log
        /\ rows[t].pending = None /\ d.seq = NextSequence(rows[t])
    BY <2>1, Zenon DEF SavePending, SaveAccepts, SaveReads, d
  <2>4. CASE s = t
    BY <1>2, <2>2, <2>3, <2>4, NoneIsNoRecord
    DEF Saves, SaveRow, RowType, HistoryType, RowsInv
  <2>5. CASE s # t
    BY <2>3, <2>5 DEF Stays, HistoryType, RowsInv
  <2> QED
    BY <2>4, <2>5, SMTT(30)
<1>5. CASE \E ack \in Acknowledgements : Acknowledge(t, ack)
  <2>1. /\ rows' = [rows EXCEPT ![t] = AckRow(rows[t])]
        /\ log' = [log EXCEPT ![t] = Append(@, rows[t].pending)]
        /\ rows[t].pending # None
    BY <1>5 DEF Acknowledge, AckAccepts
  <2>2. CASE s = t
    BY <1>2, <2>1, <2>2 DEF Acknowledges, AckRow, RowType, HistoryType, RowsInv
  <2>3. CASE s # t
    BY <2>1, <2>3, Zenon DEF Stays, HistoryType, RowsInv
  <2> QED
    BY <2>2, <2>3, Zenon
<1> QED
  BY <1>1, <1>3, <1>4, <1>5

\* The history of a session, its acknowledged cursor and its outbox item
\* carry consecutive sequences.
SequencesInv ==
    \A s \in Session :
        /\ AckedSequence(rows[s]) = Len(log[s])
        /\ rows[s].desired # None => rows[s].activation # 0

HistoryInv == HistoryType /\ SequencesInv /\ GaplessSequence /\ RuntimeAuthority

\* Before the first request every history is empty.
LEMMA HistoryInit == Init => HistoryInv
<1> SUFFICES ASSUME Init PROVE HistoryInv
  OBVIOUS
<1>1. HistoryType
  BY EmptyRowInv DEF Init, HistoryType, RowsInv, RowInv
<1>2. \A s \in Session : rows[s] = EmptyRow /\ log[s] = <<>>
  BY DEF Init
<1> QED
  BY <1>1, <1>2
  DEF HistoryInv, SequencesInv, GaplessSequence, RuntimeAuthority, EmptyRow, AckedSequence

\* Every step extends a history by at most the acknowledged outbox item.
LEMMA HistoryStep ==
    ASSUME HistoryInv, [Next]_vars
    PROVE  HistoryInv'
<1>1. CASE UNCHANGED vars
  BY <1>1, SMTT(30) DEF vars, HistoryInv, HistoryType, RowsInv, SequencesInv, GaplessSequence,
      RuntimeAuthority
<1>2. CASE Next
  <2>1. RowsInv'
    BY <1>2, RowsStep, SMTT(30) DEF HistoryInv, HistoryType
  <2>2. log' \in [Session -> Seq(DeliveryType)]
    <3>1. \A s \in Session : rows[s].pending # None => rows[s].pending \in DeliveryType
      BY DEF HistoryInv, HistoryType, RowsInv, RowType
    <3>2. CASE log' = log
      BY <3>2 DEF HistoryInv, HistoryType
    <3>3. CASE \E s \in Session :
                  rows[s].pending # None /\ log' = [log EXCEPT ![s] = Append(@, rows[s].pending)]
      BY <3>1, <3>3 DEF HistoryInv, HistoryType
    <3>4. PICK s \in Session : \/ Apply(s)
                              \/ Save(s)
                              \/ \E ack \in Acknowledgements : Acknowledge(s, ack)
      BY <1>2, Zenon DEF Next
    <3>5. CASE Apply(s)
      BY <3>2, <3>5, Zenon DEF Apply, ApplyFrom, ApplyDesiredState, ReplayDesiredState
    <3>6. CASE Save(s)
      BY <3>2, <3>6, Zenon DEF Save, SaveFrom, SavePending
    <3>7. CASE \E ack \in Acknowledgements : Acknowledge(s, ack)
      BY <3>3, <3>7, Zenon DEF Acknowledge, AckAccepts
    <3> QED
      BY <3>4, <3>5, <3>6, <3>7, Zenon
  <2> SUFFICES ASSUME NEW s \in Session
               PROVE  (SequencesInv!(s) /\ GaplessSequence!(s) /\ RuntimeAuthority!(s))'
    BY <2>1, <2>2 DEF HistoryInv, HistoryType, SequencesInv, GaplessSequence, RuntimeAuthority
  <2>3. Stays(s) \/ Activates(s) \/ Saves(s) \/ Acknowledges(s)
    BY <1>2, StepOutcomes, Zenon DEF HistoryInv
  <2>4. /\ rows[s] \in RowType /\ rows'[s] \in RowType /\ log[s] \in Seq(DeliveryType)
        /\ SequencesInv!(s) /\ GaplessSequence!(s) /\ RuntimeAuthority!(s)
        /\ NextSequence(rows[s]) = Len(log[s]) + 1
    <3>1. /\ rows[s] \in RowType /\ rows'[s] \in RowType /\ log[s] \in Seq(DeliveryType)
          /\ SequencesInv!(s) /\ GaplessSequence!(s) /\ RuntimeAuthority!(s)
      BY <2>1, Zenon
      DEF HistoryInv, HistoryType, RowsInv, SequencesInv, GaplessSequence, RuntimeAuthority
    <3>2. NextSequence(rows[s]) = AckedSequence(rows[s]) + 1
      BY <3>1, SequenceType, Zenon
    <3>3. AckedSequence(rows[s]) = Len(log[s])
      BY <3>1, Zenon
    <3> QED
      BY <3>1, <3>2, <3>3, Zenon
  <2>5. CASE Stays(s)
    BY <2>4, <2>5, Zenon DEF Stays, AckedSequence
  <2>6. CASE Activates(s) \/ Saves(s)
    BY <2>4, <2>6, SMTT(30) DEF Activates, Saves, AckedSequence
  <2>7. CASE Acknowledges(s)
    <3> DEFINE d == rows[s].pending
               n == Len(log[s]) + 1
    <3>1. /\ d \in DeliveryType /\ d.cursor # None /\ d.cursor.seq = d.seq /\ d.seq = n
          /\ n \in Nat
      <4>1. d # None
        BY <2>7, Zenon DEF Acknowledges
      <4>2. ValidatePersistedSession(rows[s])
        BY Zenon DEF HistoryInv, HistoryType, RowsInv, RowInv
      <4>3. rows[s].desired # None
        <5>1. EmptyRow.pending = None
          BY DEF EmptyRow
        <5> QED
          BY <4>1, <4>2, <5>1, Zenon DEF ValidatePersistedSession
      <4>4. ValidatePending(rows[s])
        BY <4>2, <4>3, ZenonT(30) DEF ValidatePersistedSession
      <4>5. d.cursor.seq = d.seq /\ d.seq = n
        <5>1. d.cursor.seq = d.seq /\ d.seq = NextSequence(rows[s])
          BY <4>1, <4>4, Zenon DEF ValidatePending
        <5>2. NextSequence(rows[s]) = n
          BY <2>4, Zenon
        <5> QED
          BY <5>1, <5>2, Zenon
      <4>6. d \in DeliveryType
        BY <2>4, <4>1 DEF RowType
      <4>7. d.cursor # None
        BY <4>6, NoneIsNoRecord, SMTT(30) DEF DeliveryType
      <4>8. n \in Nat
        <5>1. log[s] \in Seq(DeliveryType)
          BY <2>4, Zenon
        <5> QED
          BY <5>1
      <4> QED
        BY <4>5, <4>6, <4>7, <4>8
    <3>2. /\ log'[s] \in Seq(DeliveryType) /\ Len(log'[s]) = n /\ log'[s][n] = d
          /\ DOMAIN log'[s] = DOMAIN log[s] \cup {n}
          /\ \A i \in DOMAIN log[s] : log'[s][i] = log[s][i]
      BY <2>4, <2>7, <3>1, SMTT(30) DEF Acknowledges
    <3>3. /\ rows'[s].acked = d.cursor /\ rows'[s].pending = None
          /\ rows'[s].runtime = (IF d.neutral THEN rows[s].runtime ELSE d.cursor)
          /\ rows'[s].activation = rows[s].activation /\ rows'[s].desired = rows[s].desired
      BY <2>7, Zenon DEF Acknowledges
    <3> HIDE DEF d
    <3>4. SequencesInv!(s)'
      BY <2>4, <3>1, <3>2, <3>3, SMTT(30) DEF AckedSequence
    <3>5. GaplessSequence!(s)'
      <4>1. \A i \in DOMAIN log'[s] : log'[s][i].seq = i
        BY <2>4, <3>1, <3>2, Zenon
      <4>2. log'[s] # <<>>
        BY <2>4, <3>1, <3>2, SMTT(30)
      <4> QED
        BY <3>2, <3>3, <4>1, <4>2, Zenon
    <3>6. RuntimeAuthority!(s)'
      <4>1. CASE d.neutral
        <5>1. rows'[s].runtime = rows[s].runtime
          BY <3>3, <4>1, SMTT(30)
        <5>2. CASE rows[s].runtime = None /\ \A i \in DOMAIN log[s] : log[s][i].neutral
          BY <3>2, <4>1, <5>1, <5>2, Zenon
        <5>3. CASE \E i \in DOMAIN log[s] :
                      /\ ~log[s][i].neutral
                      /\ rows[s].runtime = log[s][i].cursor
                      /\ \A j \in (i + 1)..Len(log[s]) : log[s][j].neutral
          <6>1. PICK i \in DOMAIN log[s] :
                      /\ ~log[s][i].neutral
                      /\ rows[s].runtime = log[s][i].cursor
                      /\ \A j \in (i + 1)..Len(log[s]) : log[s][j].neutral
            BY <5>3, Zenon
          <6>2. DOMAIN log[s] = 1..Len(log[s]) /\ Len(log[s]) \in Nat
            BY <2>4
          <6>3. ASSUME NEW j \in (i + 1)..Len(log'[s])
                PROVE  log'[s][j].neutral
            <7>1. j = n \/ j \in (i + 1)..Len(log[s])
              BY <3>2, <6>2
            <7>2. CASE j = n
              BY <3>2, <4>1, <7>2, Zenon
            <7>3. CASE j \in (i + 1)..Len(log[s])
              <8>1. j \in DOMAIN log[s]
                BY <6>2, <7>3
              <8> QED
                BY <3>2, <6>1, <7>3, <8>1
            <7> QED
              BY <7>1, <7>2, <7>3, Zenon
          <6> QED
            BY <3>2, <5>1, <6>1, <6>3, Zenon
        <5>4. RuntimeAuthority!(s)
          BY <2>4, Zenon
        <5> QED
          BY <5>2, <5>3, <5>4, Zenon
      <4>2. CASE ~d.neutral
        <5>1. \A j \in (n + 1)..Len(log'[s]) : log'[s][j].neutral
          BY <3>1, <3>2
        <5> QED
          BY <3>2, <3>3, <4>2, <5>1, Zenon
      <4> QED
        BY <4>1, <4>2, Zenon
    <3> QED
      BY <3>4, <3>5, <3>6, Zenon
  <2> QED
    BY <2>3, <2>5, <2>6, <2>7, Zenon
<1> QED
  BY <1>1, <1>2, Zenon

\* Sequences are acknowledged without gap or repetition, and the outbox item
\* is the next one (save_pending_with_status, acknowledge_with_status).
THEOREM SequencesAreGapless == Spec => []GaplessSequence
<1>1. HistoryInv => GaplessSequence
  BY DEF HistoryInv
<1> QED
  BY HistoryInit, HistoryStep, <1>1, PTL DEF Spec

\* The runtime checkpoint is the last acknowledged delivery that is not
\* checkpoint-neutral (acknowledge_with_status).
THEOREM RuntimeIsLastVisible == Spec => []RuntimeAuthority
<1>1. HistoryInv => RuntimeAuthority
  BY DEF HistoryInv
<1> QED
  BY HistoryInit, HistoryStep, <1>1, PTL DEF Spec

\* No operation replaces the outbox item, and only its acknowledgement
\* removes it.
THEOREM OutboxNeverReplaced == Spec => OutboxItemImmutable
<1> DEFINE Kept(s) ==
        rows[s].pending # None =>
          \/ rows'[s].pending = rows[s].pending /\ rows'[s].acked = rows[s].acked
          \/ rows'[s].pending = None /\ rows'[s].acked = rows[s].pending.cursor
<1>1. HistoryInv /\ [Next]_vars => [\A s \in Session : Kept(s)]_rows
  <2> SUFFICES ASSUME HistoryInv, Next
               PROVE  \A s \in Session : Kept(s)
    BY DEF vars
  <2> QED
    BY StepOutcomes, Zenon DEF HistoryInv, Stays, Activates, Saves, Acknowledges
<1> QED
  BY HistoryInit, HistoryStep, <1>1, PTL DEF Spec, OutboxItemImmutable

\* No operation lets a reply outgrow the range of sequences.
LEMMA StoreTypesStep ==
    ASSUME HistoryInv, TypeOK, [Next]_vars
    PROVE  HistoryInv' /\ TypeOK'
<1> DEFINE RepliesType == replies \in [Session -> [Revisions -> SUBSET (1..MaxSequence)]]
<1>1. HistoryInv'
  BY HistoryStep
<1>2. RepliesType
  BY Zenon DEF TypeOK
<1>3. RepliesType'
  <2>1. CASE UNCHANGED vars
    BY <1>2, <2>1 DEF vars
  <2>2. ASSUME NEW s \in Session, NEW r \in Revisions, NEW n \in 1..MaxSequence,
               Answer(s, r, n)
        PROVE  RepliesType'
    BY <1>2, <2>2 DEF Answer
  <2>3. \A s \in Session :
            /\ rows[s] \in RowType
            /\ rows[s].desired # None => rows[s].activation \in 1..MaxSequence
    BY DEF HistoryInv, HistoryType, RowsInv, SequencesInv, RowType
  <2>4. ASSUME NEW s \in Session, NEW request \in Requests, NEW prepared,
               ApplyDesiredState(s, request, prepared)
        PROVE  RepliesType'
    <3>1. NextSequence(rows[s]) \in 1..MaxSequence /\ request.new \in Revisions
      BY <2>3, <2>4, SequenceType, Zenon DEF ApplyDesiredState, ApplyAccepts, NoConflict, Requests
    <3> QED
      BY <2>2, <2>4, <3>1, Zenon DEF ApplyDesiredState
  <2>5. ASSUME NEW s \in Session, NEW request \in Requests, NEW prepared,
               ReplayDesiredState(s, request, prepared)
        PROVE  RepliesType'
    <3>1. rows[s].activation \in 1..MaxSequence /\ request.new \in Revisions
      BY <2>3, <2>5, NoneIsNoRecord DEF ReplayDesiredState, ApplyReplays, Requests
    <3> QED
      BY <2>2, <2>5, <3>1, Zenon DEF ReplayDesiredState
  <2>6. ASSUME replies' = replies PROVE RepliesType'
    BY <1>2, <2>6
  <2> HIDE DEF RepliesType
  <2> QED
    BY <2>1, <2>4, <2>5, <2>6 DEF Next, Apply, ApplyFrom, Save, SaveFrom, SavePending, Acknowledge
<1> QED
  BY <1>1, <1>3 DEF HistoryInv, HistoryType, RowsInv, TypeOK

\* Rows, outbox items, histories and replies keep their types: no revision or
\* sequence outgrows the bound of its column.
THEOREM TypesPreserved == Spec => []TypeOK
<1>1. Init /\ HistoryInv => TypeOK
  BY SMTT(30) DEF Init, HistoryInv, HistoryType, RowsInv, TypeOK
<1> QED
  BY HistoryInit, StoreTypesStep, <1>1, PTL DEF Spec

\* A finite set below a limit has room for one more member.
LEMMA RoomForOne ==
    ASSUME NEW S, NEW x, NEW n \in Nat, IsFiniteSet(S), Cardinality(S) < n
    PROVE  Cardinality(S \cup {x}) <= n
<1>1. Cardinality(S) \in Nat
  BY FS_CardinalityType
<1>2. Cardinality(S \cup {x}) = IF x \in S THEN Cardinality(S) ELSE Cardinality(S) + 1
  BY FS_AddElement
<1> QED
  BY <1>1, <1>2

\* The number of persisted sessions never exceeds max_persisted_sessions: a
\* step adds at most one row, and only when the count leaves room for it.
THEOREM SessionsWithinLimit == Spec => []PersistedWithinLimit
<1> DEFINE Within == IsFiniteSet(Persisted) /\ PersistedWithinLimit
<1>1. Init => Within
  <2> SUFFICES ASSUME Init PROVE Within
    BY Zenon
  <2>1. Persisted = {}
    BY DEF Init, Persisted, EmptyRow
  <2> QED
    BY <2>1, FS_EmptySet, CapacityAssumption DEF PersistedWithinLimit
<1>2. HistoryInv /\ Within /\ [Next]_vars => Within'
  <2> SUFFICES ASSUME HistoryInv, Within, [Next]_vars PROVE Within'
    OBVIOUS
  <2>1. IsFiniteSet(Persisted')
    <3>1. Persisted' \in SUBSET Session
      BY DEF Persisted
    <3> QED
      BY <3>1, FS_Subset, CapacityAssumption
  <2>2. CASE Persisted' = Persisted
    BY <2>1, <2>2 DEF PersistedWithinLimit
  <2>3. CASE \E s \in Session : Persisted' = Persisted \cup {s} /\ HasCapacity
    <3>1. PICK s \in Session : Persisted' = Persisted \cup {s} /\ HasCapacity
      BY <2>3
    <3>2. Cardinality(Persisted \cup {s}) <= MaxPersisted
      BY <3>1, RoomForOne, CapacityAssumption DEF HasCapacity
    <3>3. Cardinality(Persisted') <= MaxPersisted
      BY <3>1, <3>2
    <3> QED
      BY <2>1, <3>3 DEF PersistedWithinLimit
  <2>4. CASE UNCHANGED vars
    BY <2>2, <2>4 DEF vars, Persisted
  <2>5. CASE Next
    <3>1. PICK t \in Session : \/ Apply(t)
                               \/ Save(t)
                               \/ \E ack \in Acknowledgements : Acknowledge(t, ack)
      BY <2>5, Zenon DEF Next
    <3>2. rows \in [Session -> RowType]
      BY DEF HistoryInv, HistoryType, RowsInv
    <3>3. ASSUME NEW row, rows' = [rows EXCEPT ![t] = row], row.desired = rows[t].desired
          PROVE  Persisted' = Persisted
      BY <3>2, <3>3 DEF Persisted
    <3>4. CASE Save(t)
      <4>1. PICK d : rows' = [rows EXCEPT ![t] = SaveRow(rows[t], d)]
        BY <3>4, Zenon DEF Save, SaveFrom, SavePending
      <4>2. SaveRow(rows[t], d).desired = rows[t].desired
        BY <3>2 DEF SaveRow, RowType
      <4> QED
        BY <2>2, <3>3, <4>1, <4>2
    <3>5. CASE \E ack \in Acknowledgements : Acknowledge(t, ack)
      <4>1. rows' = [rows EXCEPT ![t] = AckRow(rows[t])]
        BY <3>5, Zenon DEF Acknowledge
      <4>2. AckRow(rows[t]).desired = rows[t].desired
        BY <3>2 DEF AckRow, RowType
      <4> QED
        BY <2>2, <3>3, <4>1, <4>2
    <3>6. ASSUME NEW request \in Requests, NEW prepared,
                 ApplyDesiredState(t, request, prepared)
          PROVE  Within'
      <4>1. /\ rows' = [rows EXCEPT ![t] = ApplyRow(rows[t], request, prepared)]
            /\ rows[t].desired = None => HasCapacity
        BY <3>6, SMTT(30) DEF ApplyDesiredState, ApplyAccepts, NoConflict
      <4>2. ApplyRow(rows[t], request, prepared).desired # None
        BY <3>2, NoneIsNoRecord DEF ApplyRow, RowType
      <4>3. Persisted' = Persisted \cup {t}
        BY <3>2, <4>1, <4>2 DEF Persisted
      <4>4. CASE rows[t].desired = None
        BY <2>3, <4>1, <4>3, <4>4, Zenon
      <4>5. CASE rows[t].desired # None
        <5>1. t \in Persisted
          BY <4>5, Zenon DEF Persisted
        <5> QED
          BY <2>2, <4>3, <5>1
      <4> QED
        BY <4>4, <4>5, Zenon
    <3>7. ASSUME NEW request \in Requests, NEW prepared,
                 ReplayDesiredState(t, request, prepared)
          PROVE  Within'
      BY <2>2, <3>7 DEF ReplayDesiredState, Persisted
    <3> HIDE DEF Within
    <3> QED
      BY <3>1, <3>4, <3>5, <3>6, <3>7, Zenon DEF Apply, ApplyFrom
  <2> QED
    BY <2>4, <2>5
<1>3. Within => PersistedWithinLimit
  OBVIOUS
<1> QED
  BY HistoryInit, HistoryStep, <1>1, <1>2, <1>3, PTL DEF Spec

(***************************************************************************)
(* The service implements the session store, and leases are exclusive.     *)
(***************************************************************************)
\* What prepare_desired_state left for the compare-and-swap.
IsPrepared(request, prepared) ==
    /\ request \in Requests
    /\ \E position \in Positions \cup {None} :
          prepared = IF position = None THEN None ELSE CursorAt(request.new, 0, position)

\* The fields of a task that its phase determines.
PhaseOK(st) ==
    /\ st.phase \in Holding => st.session \in Session
    /\ st.phase \in {"closed", "open"} => st.session = None
    /\ st.phase = "prepared" => IsPrepared(st.request, st.prepared)
    /\ st.phase = "restoring" => st.desired \in Requests
    /\ st.phase = "committed" => st.request \in Requests

PhaseInv == \A c \in Stream : PhaseOK(streams[c])

ServiceTypes ==
    /\ streams \in [Stream -> StreamType]
    /\ leases \in SUBSET Session
    /\ source \in [Session -> SourceType]
    /\ PhaseInv

\* Every step of the service is a step of the store or leaves it alone.
LEMMA StoreStep ==
    ASSUME RowsInv, ServiceTypes, ServiceNext
    PROVE  [Next]_vars
<1>1. ASSUME NEW c \in Stream, CommitDesiredState(c)
      PROVE  Next
  <2>1. /\ streams[c].session \in Session
        /\ IsPrepared(streams[c].request, streams[c].prepared)
    BY <1>1 DEF ServiceTypes, PhaseInv, PhaseOK, Holding, CommitDesiredState
  <2>2. PICK position \in Positions \cup {None} :
            streams[c].prepared = IF position = None THEN None
                                  ELSE CursorAt(streams[c].request.new, 0, position)
    BY <2>1, Zenon DEF IsPrepared
  <2>3. Apply(streams[c].session)
    BY <1>1, <2>1, <2>2, SMTT(30) DEF CommitDesiredState, Apply, ApplyFrom, IsPrepared
  <2> QED
    BY <2>1, <2>3, Zenon DEF Next
<1>2. ASSUME NEW c \in Stream, NEW ack \in Acknowledgements, CommitAcknowledgement(c, ack)
      PROVE  [Next]_vars
  <2>1. streams[c].session \in Session
    BY <1>2, Zenon DEF ServiceTypes, PhaseInv, PhaseOK, Holding, CommitAcknowledgement, Serving, Idle
  <2> QED
    BY <1>2, <2>1 DEF CommitAcknowledgement, Next
<1>3. ASSUME NEW c \in Stream, NEW ahead \in {0, 1}, NEW position \in Positions,
             NEW payload \in Payloads, NEW neutral \in BOOLEAN,
             PersistAndSend(c, Produced(c, ahead, position, payload, neutral))
      PROVE  Next
  <2> DEFINE s == streams[c].session
             n == SequenceOf(streams[c].cursor) + ahead
             d == OfferedDelivery(streams[c].desired.new, n, Token(n), position, payload, neutral)
  <2>1. s \in Session /\ rows[s] \in RowType
    BY <1>3, Zenon DEF ServiceTypes, PhaseInv, PhaseOK, Holding, PersistAndSend, Awaits, Serving, Idle, RowsInv
  <2>2. SavePending(s, streams[c].desired, d) /\ SaveReads(rows[s], streams[c].desired, d)
    BY <1>3, SMTT(30) DEF PersistAndSend, Produced, SavePending, SaveAccepts
  <2>3. /\ rows[s].desired # None /\ rows[s].desired = streams[c].desired
        /\ d.seq = NextSequence(rows[s]) /\ ValidatePersistedSession(rows[s])
    BY <2>2, Zenon DEF SaveReads
  <2>4. n = NextSequence(rows[s])
    BY <2>3, Zenon DEF OfferedDelivery
  <2>5. streams[c].desired.new = rows[s].revision
    BY <2>3 DEF ValidatePersistedSession
  <2> HIDE DEF n, s
  <2>6. Save(s)
    BY <2>2, <2>3, <2>4, <2>5, Zenon DEF Save, SaveFrom
  <2> QED
    BY <2>1, <2>6 DEF Next, s
<1>4. ASSUME NEW c \in Stream, Continue(c)
      PROVE  [Next]_vars
  BY <1>1, <1>4, ZenonT(30)
  DEF Continue, RejectHello, AcceptHello, RestoreSource, RestoreFails, RefuseDesiredState,
      AbortCandidate, AbortFails, ActivateDesiredState, ActivateFails,
      ConfirmAcknowledgement, SourceAckFails, ReleaseSession, ReleaseFails
<1>5. ASSUME NEW c \in Stream, React(c)
      PROVE  [Next]_vars
  <2>1. ASSUME NEW d, RefuseDelivery(c, d) PROVE UNCHANGED vars
    BY <2>1, Zenon DEF RefuseDelivery
  <2>2. ASSUME NEW ack, RefuseAcknowledgement(c, ack) PROVE UNCHANGED vars
    BY <2>2 DEF RefuseAcknowledgement
  <2> QED
    BY <1>2, <1>3, <1>5, <2>1, <2>2, Zenon
    DEF React, Connect, AcquireLease, PrepareFails, PrepareDesiredState, Demand,
        FetchFails, Disconnect, BreakOnShutdown
<1> QED
  BY <1>4, <1>5 DEF ServiceNext, Shutdown, Restart

\* A task that keeps its fields and takes a phase its fields allow.
LEMMA GoToTypes ==
    ASSUME ServiceTypes, NEW c \in Stream, NEW phase \in Phases, GoTo(c, phase),
           PhaseOK([streams[c] EXCEPT !.phase = phase]),
           leases' \in SUBSET Session, source' \in [Session -> SourceType]
    PROVE  ServiceTypes'
  BY DEF ServiceTypes, PhaseInv, GoTo, StreamType

\* A task whose fields are all replaced.
LEMMA BecomeTypes ==
    ASSUME ServiceTypes, NEW c \in Stream, NEW new \in StreamType, Become(c, new),
           PhaseOK(new),
           leases' \in SUBSET Session, source' \in [Session -> SourceType]
    PROVE  ServiceTypes'
  BY DEF ServiceTypes, PhaseInv, Become

\* What the three source calls and the clean state have in common.
LEMMA SourceCallTypes ==
    ASSUME ServiceTypes, NEW s \in Session
    PROVE  /\ \A request \in Requests :
                 SourcePrepares(s, request) => source' \in [Session -> SourceType]
           /\ \A revision \in Revisions :
                 SourceActivates(s, revision) => source' \in [Session -> SourceType]
           /\ SourceDiscards(s) => source' \in [Session -> SourceType]
           /\ CleanSource \in SourceType
  BY BoundAssumption
  DEF ServiceTypes, SourcePrepares, SourceActivates, SourceDiscards, SourceType, CleanSource,
      Revisions

\* The slot of a stream that ended is well typed and works for no session.
LEMMA ClosedType == Closed \in StreamType /\ PhaseOK(Closed)
  BY ServiceAssumption, Zenon
  DEF Closed, StreamType, Phases, OptBlock, PhaseOK, Holding

\* Handlers keep the types of the task, the registry and the source.
LEMMA ContinueTypes ==
    ASSUME RowsInv, RowsInv', ServiceTypes, NEW c \in Stream, Continue(c)
    PROVE  ServiceTypes'
<1> DEFINE st == streams[c]
           s == streams[c].session
<1>1. /\ st \in StreamType /\ PhaseOK(st) /\ leases \in SUBSET Session
      /\ source \in [Session -> SourceType]
  BY Zenon DEF ServiceTypes, PhaseInv
<1>2. ASSUME NEW sequence, NEW resume, RejectHello(c, sequence, resume)
      PROVE  ServiceTypes'
  <2>1. [Closed EXCEPT !.phase = "open"] \in StreamType /\ PhaseOK([Closed EXCEPT !.phase = "open"])
    BY ClosedType, ZenonT(30) DEF Closed, StreamType, Phases, PhaseOK, Holding
  <2> QED
    BY <1>1, <1>2, <2>1, BecomeTypes DEF RejectHello
<1>3. ASSUME NEW sequence, NEW resume, AcceptHello(c, sequence, resume)
      PROVE  ServiceTypes'
  <2>1. s \in Session /\ rows[s] \in RowType
    BY <1>1, <1>3 DEF AcceptHello, PhaseOK, Holding, RowsInv
  <2> DEFINE row == rows[s]
             Accepted(desired, cursor, tip, confirmed, pending) ==
                 [Closed EXCEPT !.phase = IF desired = None THEN "idle" ELSE "restoring",
                                !.session = s, !.confirmed = confirmed,
                                !.desired = desired, !.cursor = cursor, !.tip = tip,
                                !.pending = pending]
             new == Accepted(row.desired, row.acked, row.tip,
                             HelloPosition(row, sequence, resume) = "Confirmed",
                             row.pending # None)
  <2>2. new \in StreamType /\ PhaseOK(new)
    <3>1. /\ row.desired \in Requests \cup {None} /\ row.acked \in Cursor \cup {None}
          /\ row.tip \in OptBlock
      BY <2>1 DEF RowType
    <3>2. ASSUME NEW desired \in Requests \cup {None}, NEW cursor \in Cursor \cup {None},
                 NEW tip \in OptBlock, NEW confirmed \in BOOLEAN, NEW pending \in BOOLEAN
          PROVE  /\ Accepted(desired, cursor, tip, confirmed, pending) \in StreamType
                 /\ PhaseOK(Accepted(desired, cursor, tip, confirmed, pending))
      BY <2>1, ZenonT(30) DEF Closed, StreamType, Phases, PhaseOK, Holding
    <3>3. /\ (HelloPosition(row, sequence, resume) = "Confirmed") \in BOOLEAN
          /\ (row.pending # None) \in BOOLEAN
      BY Zenon
    <3> HIDE DEF Accepted
    <3> QED
      BY <3>1, <3>2, <3>3, Zenon
  <2>3. source' \in [Session -> SourceType]
    BY <1>1, <1>3, <2>1, SourceCallTypes, Zenon DEF AcceptHello, RowType
  <2> QED
    BY <1>1, <1>3, <2>2, <2>3, BecomeTypes, Zenon DEF AcceptHello
<1>4. CASE RestoreSource(c)
  <2>1. s \in Session /\ st.desired.new \in Revisions
    BY <1>1, <1>4 DEF RestoreSource, PhaseOK, Holding, Requests
  <2>2. PhaseOK([st EXCEPT !.phase = "idle"])
    BY <1>1, <2>1, SMTT(30) DEF PhaseOK, StreamType
  <2> QED
    BY <1>1, <1>4, <2>1, <2>2, SourceCallTypes, GoToTypes, ZenonT(30) DEF RestoreSource, Phases
<1>5. ASSUME NEW phase \in {"aborting", "failing", "closing", "idle"}, GoTo(c, phase),
             leases' = leases, source' \in [Session -> SourceType],
             st.phase \in Holding
      PROVE  ServiceTypes'
  <2>1. PhaseOK([st EXCEPT !.phase = phase])
    BY <1>1, <1>5 DEF PhaseOK, StreamType
  <2> QED
    BY <1>1, <1>5, <2>1, GoToTypes, Zenon DEF Phases
<1>6. CASE RestoreFails(c) \/ ActivateFails(c) \/ AbortCandidate(c) \/ AbortFails(c)
           \/ SourceAckFails(c)
  <2>1. s \in Session /\ st.phase \in Holding
    BY <1>1, <1>6, Zenon
    DEF RestoreFails, ActivateFails, AbortCandidate, AbortFails, SourceAckFails, PhaseOK, Holding
  <2>2. leases' = leases /\ source' \in [Session -> SourceType]
    BY <1>1, <1>6, <2>1, SourceCallTypes, Zenon
    DEF RestoreFails, ActivateFails, AbortCandidate, AbortFails, SourceAckFails
  <2> QED
    BY <1>5, <1>6, <2>1, <2>2, Zenon
    DEF RestoreFails, ActivateFails, AbortCandidate, AbortFails, SourceAckFails
<1>7. CASE CommitDesiredState(c)
  <2>1. PhaseOK([st EXCEPT !.phase = "committed"])
    BY <1>1, <1>7 DEF CommitDesiredState, PhaseOK, Holding, StreamType, IsPrepared
  <2> QED
    BY <1>1, <1>7, <2>1, GoToTypes, Zenon DEF CommitDesiredState, Phases
<1>8. CASE RefuseDesiredState(c)
  <2>1. ASSUME NEW phase \in {"failing", "aborting"}
        PROVE  /\ [st EXCEPT !.phase = phase, !.request = None, !.prepared = None] \in StreamType
               /\ PhaseOK([st EXCEPT !.phase = phase, !.request = None, !.prepared = None])
    BY <1>1, <1>8, ZenonT(30) DEF RefuseDesiredState, CommitRefused, PhaseOK, Holding, StreamType, Phases
  <2> QED
    BY <1>1, <1>8, <2>1, BecomeTypes, Zenon DEF RefuseDesiredState
<1>9. CASE ActivateDesiredState(c)
  <2>1. s \in Session /\ st.request \in Requests
    BY <1>1, <1>9 DEF ActivateDesiredState, PhaseOK, Holding
  <2> DEFINE new == [st EXCEPT !.phase = "idle", !.request = None, !.prepared = None,
                               !.desired = st.request,
                               !.pending = (rows[s].pending # None),
                               !.demanded = FALSE]
  <2>2. new \in StreamType /\ PhaseOK(new)
    BY <1>1, <2>1, ZenonT(30) DEF PhaseOK, Holding, StreamType, Phases
  <2>3. source' \in [Session -> SourceType]
    BY <1>9, <2>1, SourceCallTypes, Zenon DEF ActivateDesiredState, Requests
  <2> QED
    BY <1>1, <1>9, <2>2, <2>3, BecomeTypes DEF ActivateDesiredState
<1>10. CASE ConfirmAcknowledgement(c)
  <2> DEFINE new == [st EXCEPT !.phase = "idle", !.pending = FALSE, !.demanded = FALSE]
  <2>1. new \in StreamType /\ PhaseOK(new)
    BY <1>1, <1>10, ZenonT(30) DEF ConfirmAcknowledgement, PhaseOK, Holding, StreamType, Phases
  <2> QED
    BY <1>1, <1>10, <2>1, BecomeTypes DEF ConfirmAcknowledgement
<1>11. CASE ReleaseSession(c) \/ ReleaseFails(c)
  <2>1. leases' \in SUBSET Session /\ source' \in [Session -> SourceType]
    BY <1>1, <1>11, SourceCallTypes, Zenon DEF ReleaseSession, ReleaseFails, StreamType
  <2> QED
    BY <1>11, <2>1, ClosedType, BecomeTypes, Zenon DEF ReleaseSession, ReleaseFails
<1> QED
  BY <1>2, <1>3, <1>4, <1>6, <1>7, <1>8, <1>9, <1>10, <1>11, Continue(c), SMTT(30) DEF Continue

\* So do the steps that a client, a tick or the end of the connection starts.
LEMMA ReactTypes ==
    ASSUME RowsInv, RowsInv', ServiceTypes, NEW c \in Stream, React(c)
    PROVE  ServiceTypes'
<1> DEFINE st == streams[c]
           s == streams[c].session
<1>1. /\ st \in StreamType /\ PhaseOK(st) /\ leases \in SUBSET Session
      /\ source \in [Session -> SourceType]
  BY DEF ServiceTypes, PhaseInv
<1>2. CASE Connect(c)
  <2>1. PhaseOK([st EXCEPT !.phase = "open"])
    BY <1>1, <1>2 DEF Connect, PhaseOK, Holding, StreamType
  <2> QED
    BY <1>1, <1>2, <2>1, GoToTypes, Zenon DEF Connect, Phases
<1>3. ASSUME NEW t \in Session, AcquireLease(c, t)
      PROVE  ServiceTypes'
  <2>1. /\ [Closed EXCEPT !.phase = "acquired", !.session = t] \in StreamType
        /\ PhaseOK([Closed EXCEPT !.phase = "acquired", !.session = t])
    BY Zenon DEF Closed, StreamType, Phases, PhaseOK, Holding, OptBlock
  <2> QED
    BY <1>1, <1>3, <2>1, BecomeTypes DEF AcquireLease
<1>4. ASSUME Serving(c)
      PROVE  s \in Session
  BY <1>1, <1>4 DEF Serving, Idle, PhaseOK, Holding
<1>5. ASSUME NEW request \in Requests, PrepareFails(c, request)
      PROVE  ServiceTypes'
  <2>1. s \in Session
    BY <1>4, <1>5 DEF PrepareFails
  <2>2. PhaseOK([st EXCEPT !.phase = "aborting"])
    BY <1>1, <2>1 DEF PhaseOK, StreamType
  <2> QED
    BY <1>1, <1>5, <2>1, <2>2, SourceCallTypes, GoToTypes, Zenon DEF PrepareFails, Phases
<1>6. ASSUME NEW request \in Requests, NEW position \in Positions \cup {None},
             PrepareDesiredState(c, request, position)
      PROVE  ServiceTypes'
  <2> DEFINE prepared == IF position = None THEN None ELSE CursorAt(request.new, 0, position)
  <2>1. s \in Session
    BY <1>4, <1>6, Zenon DEF PrepareDesiredState
  <2>2. prepared \in Cursor \cup {None}
    BY PreparedIsCursor, Zenon
  <2>3. IsPrepared(request, prepared)
    BY Zenon DEF IsPrepared
  <2>4. Become(c, [st EXCEPT !.phase = "prepared", !.request = request, !.prepared = prepared])
    BY <1>6 DEF PrepareDesiredState
  <2> HIDE DEF prepared
  <2>5. /\ [st EXCEPT !.phase = "prepared", !.request = request, !.prepared = prepared] \in StreamType
        /\ PhaseOK([st EXCEPT !.phase = "prepared", !.request = request, !.prepared = prepared])
    BY <1>1, <2>1, <2>2, <2>3, ZenonT(30) DEF StreamType, Phases, PhaseOK, Holding
  <2> QED
    BY <1>1, <1>6, <2>1, <2>4, <2>5, SourceCallTypes, BecomeTypes, SMTT(30) DEF PrepareDesiredState
<1>7. ASSUME NEW ack, CommitAcknowledgement(c, ack)
      PROVE  ServiceTypes'
  <2>1. s \in Session /\ rows'[s] \in RowType
    BY <1>4, <1>7 DEF CommitAcknowledgement, RowsInv
  <2> DEFINE new == [st EXCEPT !.phase = "acked", !.cursor = rows'[s].acked, !.tip = rows'[s].tip]
  <2>2. rows'[s].acked \in Cursor \cup {None} /\ rows'[s].tip \in OptBlock
    BY <2>1, Zenon DEF RowType
  <2>3. new \in StreamType /\ PhaseOK(new)
    BY <1>1, <2>1, <2>2, ZenonT(30) DEF StreamType, Phases, PhaseOK, Holding
  <2> QED
    BY <1>1, <1>7, <2>3, BecomeTypes DEF CommitAcknowledgement
<1>8. ASSUME GoTo(c, "closing"), leases' = leases, source' = source
      PROVE  ServiceTypes'
  <2>1. PhaseOK([st EXCEPT !.phase = "closing"])
    BY <1>1 DEF PhaseOK, Holding, StreamType
  <2> QED
    BY <1>1, <1>8, <2>1, GoToTypes, Zenon DEF Phases
<1>9. ASSUME NEW pending \in BOOLEAN, NEW demanded \in BOOLEAN, Serving(c),
             Become(c, [st EXCEPT !.pending = pending, !.demanded = demanded]),
             leases' = leases, source' = source
      PROVE  ServiceTypes'
  <2>1. /\ [st EXCEPT !.pending = pending, !.demanded = demanded] \in StreamType
        /\ PhaseOK([st EXCEPT !.pending = pending, !.demanded = demanded])
    BY <1>1, ZenonT(30) DEF StreamType, PhaseOK
  <2> QED
    BY <1>1, <1>9, <2>1, BecomeTypes
<1>10. ASSUME Demand(c) PROVE ServiceTypes'
  <2>1. CASE UNCHANGED streams
    BY <1>1, <1>10, <2>1, Zenon DEF Demand, ServiceTypes, PhaseInv
  <2>2. CASE Become(c, [st EXCEPT !.pending = FALSE, !.demanded = TRUE])
    BY <1>9, <1>10, <2>2, Zenon DEF Demand
  <2> QED
    BY <1>10, <2>1, <2>2, Zenon DEF Demand
<1>11. ASSUME NEW d, PersistAndSend(c, d) PROVE ServiceTypes'
  BY <1>9, <1>11, ZenonT(30) DEF PersistAndSend, Awaits
<1>12. ASSUME FetchFails(c) PROVE ServiceTypes'
  <2>1. [st EXCEPT !.pending = st.pending, !.demanded = FALSE] = [st EXCEPT !.demanded = FALSE]
        /\ st.pending \in BOOLEAN
    BY <1>1, Zenon DEF StreamType
  <2> QED
    BY <1>9, <1>12, <2>1, Zenon DEF FetchFails, Awaits
<1>13. ASSUME NEW ack, RefuseAcknowledgement(c, ack) PROVE ServiceTypes'
  BY <1>8, <1>13, Zenon DEF RefuseAcknowledgement
<1>14. ASSUME NEW d, RefuseDelivery(c, d) PROVE ServiceTypes'
  BY <1>8, <1>14, Zenon DEF RefuseDelivery
<1>15. CASE Disconnect(c) \/ BreakOnShutdown(c)
  BY <1>8, <1>15 DEF Disconnect, BreakOnShutdown
<1> QED
  BY <1>2, <1>3, <1>5, <1>6, <1>7, <1>10, <1>11, <1>12, <1>13, <1>14, <1>15, React(c), SMTT(30) DEF React

\* Every step of the service keeps the types of its state.
LEMMA TypesStep ==
    ASSUME RowsInv, RowsInv', ServiceTypes, [ServiceNext]_serviceVars
    PROVE  ServiceTypes'
<1>1. CASE UNCHANGED serviceVars
  BY <1>1 DEF serviceVars, ServiceTypes, PhaseInv
<1>2. CASE Shutdown
  BY <1>2, Zenon DEF Shutdown, ServiceTypes, PhaseInv
<1>3. CASE Restart
  <2>1. CleanSource \in SourceType
    BY BoundAssumption DEF CleanSource, SourceType, Revisions
  <2> QED
    BY <1>3, <2>1, ClosedType, Zenon DEF Restart, ServiceTypes, PhaseInv
<1> QED
  BY <1>1, <1>2, <1>3, ContinueTypes, ReactTypes DEF ServiceNext

\* The initial state has its types.
LEMMA TypesInit == ServiceInit => RowsInv /\ ServiceTypes
<1>1. CleanSource \in SourceType
  BY BoundAssumption DEF CleanSource, SourceType, Revisions
<1>2. ServiceInit => RowsInv
  BY EmptyRowInv DEF ServiceInit, Init, RowsInv, RowInv
<1> QED
  BY <1>1, <1>2, ClosedType DEF ServiceInit, ServiceTypes, PhaseInv

\* Rows stay loadable and task state well typed, together.
LEMMA BaseStep ==
    ASSUME RowsInv, ServiceTypes, [ServiceNext]_serviceVars
    PROVE  [Next]_vars /\ RowsInv' /\ ServiceTypes'
<1>1. [Next]_vars
  BY StoreStep DEF serviceVars
<1>2. RowsInv'
  BY <1>1, RowsStep DEF vars, RowsInv
<1> QED
  BY <1>1, <1>2, TypesStep

\* The service implements the session store: every history of the rows it can
\* produce, over any interleaving of tasks, failures and restarts, is one of
\* the store on its own.
THEOREM ServiceImplementsStore == ServiceSpec => ImplementsStore
<1>1. ServiceInit => Init
  BY DEF ServiceInit
<1> QED
  BY <1>1, TypesInit, BaseStep, PTL DEF ServiceSpec, Spec, ImplementsStore

\* Consequently the rows the running service can reach all load again.
THEOREM ServiceRowsLoadable == ServiceSpec => []RowsLoadable
  BY ServiceImplementsStore, RowsAlwaysLoadable, PTL DEF ImplementsStore

-----------------------------------------------------------------------------
\* A Hello that has its lease and no answer yet finds the source clean: what
\* makes the fence survive a rejected Hello, which drops the lease unreleased.
AcquiredClean ==
    \A c \in Stream : streams[c].phase = "acquired" => source[streams[c].session] = CleanSource

FenceInv == LeaseExclusive /\ SourceFenced /\ AcquiredClean

\* A task that keeps its session, and calls the source for that session only.
LEMMA KeepsFence ==
    ASSUME ServiceTypes, ServiceTypes', FenceInv, NEW c \in Stream, leases' = leases,
           \A d \in Stream \ {c} : streams'[d] = streams[d],
           streams'[c].session = streams[c].session, streams'[c].phase # "acquired",
           \A t \in Session \ {streams[c].session} : source'[t] = source[t]
    PROVE  FenceInv'
<1>1. ASSUME NEW d \in Stream PROVE streams'[d].session = streams[d].session
  BY Zenon
<1>2. LeaseExclusive'
  BY <1>1, Zenon DEF FenceInv, LeaseExclusive
<1>3. SourceFenced'
  <2> SUFFICES ASSUME NEW t \in Session, t \notin leases PROVE source'[t] = CleanSource
    BY Zenon DEF SourceFenced
  <2>1. t # streams[c].session
    BY ServiceAssumption DEF FenceInv, LeaseExclusive
  <2> QED
    BY <2>1, Zenon DEF FenceInv, SourceFenced
<1>4. AcquiredClean'
  <2> SUFFICES ASSUME NEW d \in Stream, streams'[d].phase = "acquired"
               PROVE  source'[streams'[d].session] = CleanSource
    BY Zenon DEF AcquiredClean
  <2>1. d # c /\ streams'[d] = streams[d]
    BY Zenon
  <2>2. streams[d].session \in Session
    BY <2>1, Zenon DEF ServiceTypes, PhaseInv, PhaseOK, Holding
  <2>3. streams[d].session # streams[c].session
    BY <2>1, <2>2, ServiceAssumption, Zenon DEF FenceInv, LeaseExclusive
  <2> QED
    BY <2>1, <2>2, <2>3, Zenon DEF FenceInv, AcquiredClean
<1> QED
  BY <1>2, <1>3, <1>4, Zenon DEF FenceInv

\* A task that gives its session up, fenced or with a clean source.
LEMMA LeavesFence ==
    ASSUME ServiceTypes, ServiceTypes', FenceInv, NEW c \in Stream,
           \A d \in Stream \ {c} : streams'[d] = streams[d],
           streams'[c].session = None, streams'[c].phase # "acquired",
           \/ leases' = leases /\ source' = source
           \/ /\ leases' = leases \ {streams[c].session}
              /\ source' = [source EXCEPT ![streams[c].session] = CleanSource]
    PROVE  FenceInv'
<1>1. ASSUME NEW d \in Stream, streams'[d].session # None
      PROVE  d # c /\ streams'[d] = streams[d] /\ streams[d].session # streams[c].session
  BY <1>1, Zenon DEF FenceInv, LeaseExclusive
<1>2. LeaseExclusive'
  BY <1>1 DEF FenceInv, LeaseExclusive
<1>3. SourceFenced'
  BY Zenon DEF FenceInv, SourceFenced, ServiceTypes
<1>4. AcquiredClean'
  <2> SUFFICES ASSUME NEW d \in Stream, streams'[d].phase = "acquired"
               PROVE  source'[streams'[d].session] = CleanSource
    BY Zenon DEF AcquiredClean
  <2>1. d # c /\ streams'[d] = streams[d] /\ streams[d].session \in Session
    BY Zenon DEF ServiceTypes, PhaseInv, PhaseOK, Holding
  <2>2. streams[d].session # streams[c].session
    BY <1>1, <2>1, ServiceAssumption, Zenon
  <2> QED
    BY <2>1, <2>2, SMTT(30) DEF FenceInv, AcquiredClean, ServiceTypes
<1> QED
  BY <1>2, <1>3, <1>4, SMTT(30) DEF FenceInv

\* Handlers keep leases exclusive and the source fenced.
LEMMA ContinueFence ==
    ASSUME ServiceTypes, ServiceTypes', FenceInv, NEW c \in Stream, Continue(c)
    PROVE  FenceInv'
<1> DEFINE s == streams[c].session
<1>1. streams[c] \in StreamType /\ PhaseOK(streams[c])
  BY Zenon DEF ServiceTypes, PhaseInv
<1>2. ASSUME NEW phase \in Phases \ {"acquired"}, GoTo(c, phase), leases' = leases,
             \A t \in Session \ {s} : source'[t] = source[t]
      PROVE  FenceInv'
  BY <1>2, KeepsFence, Zenon DEF GoTo, ServiceTypes, StreamType
<1>3. ASSUME NEW new \in StreamType, Become(c, new), new.session = s, new.phase # "acquired",
             leases' = leases, \A t \in Session \ {s} : source'[t] = source[t]
      PROVE  FenceInv'
  BY <1>3, KeepsFence DEF Become, ServiceTypes
<1>4. ASSUME \/ UNCHANGED source \/ SourceDiscards(s)
             \/ \E revision : SourceActivates(s, revision)
             \/ \E request : SourcePrepares(s, request)
      PROVE  \A t \in Session \ {s} : source'[t] = source[t]
  BY <1>4, Zenon DEF SourceDiscards, SourceActivates, SourcePrepares, ServiceTypes
<1>5. ASSUME NEW sequence, NEW resume, RejectHello(c, sequence, resume)
      PROVE  FenceInv'
  <2>1. source[s] = CleanSource /\ s \in Session
    BY <1>1, <1>5 DEF RejectHello, FenceInv, AcquiredClean, PhaseOK, Holding
  <2>2. source' = [source EXCEPT ![s] = CleanSource]
    BY <1>5, <2>1, Zenon DEF RejectHello, ServiceTypes
  <2> QED
    BY <1>5, <2>2, LeavesFence, Zenon DEF RejectHello, Become, Closed, ServiceTypes
<1>6. ASSUME NEW sequence, NEW resume, AcceptHello(c, sequence, resume)
      PROVE  FenceInv'
  <2>1. /\ streams'[c].session = s /\ streams'[c].phase # "acquired"
        /\ \A d \in Stream \ {c} : streams'[d] = streams[d]
    BY <1>6, Zenon DEF AcceptHello, Become, Closed, ServiceTypes
  <2>2. leases' = leases /\ \A t \in Session \ {s} : source'[t] = source[t]
    BY <1>4, <1>6, SMTT(30) DEF AcceptHello
  <2> QED
    BY <2>1, <2>2, KeepsFence, Zenon
<1>7. CASE RestoreSource(c) \/ RestoreFails(c) \/ ActivateFails(c) \/ AbortFails(c)
           \/ SourceAckFails(c) \/ CommitDesiredState(c)
  BY <1>2, <1>4, <1>7, Zenon DEF RestoreSource, RestoreFails, ActivateFails, AbortFails,
     SourceAckFails, CommitDesiredState, Phases
<1>8. CASE AbortCandidate(c)
  BY <1>2, <1>4, <1>8 DEF AbortCandidate, Phases
<1>9. CASE RefuseDesiredState(c) \/ ActivateDesiredState(c) \/ ConfirmAcknowledgement(c)
  <2>1. CASE RefuseDesiredState(c)
    <3>1. streams'[c].session = s /\ streams'[c].phase # "acquired"
      BY <1>1, <2>1, Zenon DEF RefuseDesiredState, Become, ServiceTypes, StreamType
    <3> QED
      BY <2>1, <3>1, KeepsFence, SMTT(30) DEF RefuseDesiredState, Become, ServiceTypes
  <2>2. CASE ActivateDesiredState(c)
    <3>1. streams'[c].session = s /\ streams'[c].phase # "acquired"
      BY <1>1, <2>2, Zenon DEF ActivateDesiredState, Become, ServiceTypes, StreamType
    <3>2. leases' = leases /\ \A t \in Session \ {s} : source'[t] = source[t]
      BY <1>4, <2>2 DEF ActivateDesiredState
    <3> QED
      BY <2>2, <3>1, <3>2, KeepsFence, Zenon DEF ActivateDesiredState, Become, ServiceTypes
  <2>3. CASE ConfirmAcknowledgement(c)
    <3>1. streams'[c].session = s /\ streams'[c].phase # "acquired"
      BY <1>1, <2>3, Zenon DEF ConfirmAcknowledgement, Become, ServiceTypes, StreamType
    <3> QED
      BY <2>3, <3>1, KeepsFence DEF ConfirmAcknowledgement, Become, ServiceTypes
  <2> QED
    BY <1>9, <2>1, <2>2, <2>3, SMTT(30)
<1>10. CASE ReleaseSession(c) \/ ReleaseFails(c)
  <2>1. streams' = [streams EXCEPT ![c] = Closed] /\ Closed.session = None /\ Closed.phase = "closed"
    BY <1>10, Zenon DEF ReleaseSession, ReleaseFails, Become, Closed
  <2>2. streams'[c] = Closed /\ \A d \in Stream \ {c} : streams'[d] = streams[d]
    BY <2>1, Zenon DEF ServiceTypes
  <2>3. CASE leases' = leases /\ source' = source
    BY <2>1, <2>2, <2>3, LeavesFence, Zenon
  <2>4. CASE /\ leases' = leases \ {streams[c].session}
             /\ source' = [source EXCEPT ![streams[c].session] = CleanSource]
    BY <2>1, <2>2, <2>4, LeavesFence, Zenon
  <2> QED
    BY <1>10, <2>3, <2>4, Zenon DEF ReleaseSession, ReleaseFails
<1> QED
  BY <1>5, <1>6, <1>7, <1>8, <1>9, <1>10, SMTT(30) DEF Continue

\* So do the steps started from outside; AcquireLease is the only one that
\* takes a session, and it takes one that nobody holds.
LEMMA ReactFence ==
    ASSUME ServiceTypes, ServiceTypes', FenceInv, NEW c \in Stream, React(c)
    PROVE  FenceInv'
<1> DEFINE s == streams[c].session
<1>1. streams[c] \in StreamType /\ PhaseOK(streams[c])
  BY DEF ServiceTypes, PhaseInv
<1>2. ASSUME NEW t \in Session, AcquireLease(c, t)
      PROVE  FenceInv'
  <2>1. /\ t \notin leases /\ leases' = leases \cup {t} /\ source' = source
        /\ streams'[c].session = t /\ \A d \in Stream \ {c} : streams'[d] = streams[d]
        /\ source[t] = CleanSource
    BY <1>2, Zenon DEF AcquireLease, Become, Closed, ServiceTypes, FenceInv, SourceFenced
  <2>2. LeaseExclusive'
    BY <2>1 DEF FenceInv, LeaseExclusive
  <2>3. SourceFenced' /\ AcquiredClean'
    BY <2>1, Zenon DEF FenceInv, SourceFenced, AcquiredClean
  <2> QED
    BY <2>2, <2>3 DEF FenceInv
<1>3. ASSUME \/ UNCHANGED source
             \/ \E request : SourcePrepares(s, request)
      PROVE  \A t \in Session \ {s} : source'[t] = source[t]
  BY <1>3, Zenon DEF SourcePrepares, ServiceTypes
<1>4. ASSUME NEW phase \in Phases \ {"acquired"}, GoTo(c, phase), leases' = leases,
             \A t \in Session \ {s} : source'[t] = source[t]
      PROVE  FenceInv'
  BY <1>4, KeepsFence DEF GoTo, ServiceTypes, StreamType
<1>5. ASSUME NEW request, NEW position, PrepareDesiredState(c, request, position)
      PROVE  FenceInv'
  <2>1. /\ streams'[c].session = s /\ streams'[c].phase # "acquired"
        /\ \A d \in Stream \ {c} : streams'[d] = streams[d]
    BY <1>1, <1>5 DEF PrepareDesiredState, Become, ServiceTypes, StreamType
  <2> QED
    BY <1>3, <1>5, <2>1, KeepsFence, SMTT(30) DEF PrepareDesiredState
<1>6. ASSUME NEW ack, CommitAcknowledgement(c, ack)
      PROVE  FenceInv'
  <2>1. /\ streams'[c].session = s /\ streams'[c].phase # "acquired"
        /\ \A d \in Stream \ {c} : streams'[d] = streams[d]
    BY <1>1, <1>6 DEF CommitAcknowledgement, Become, ServiceTypes, StreamType
  <2> QED
    BY <1>3, <1>6, <2>1, KeepsFence, Zenon DEF CommitAcknowledgement
<1>7. ASSUME NEW d, PersistAndSend(c, d)
      PROVE  FenceInv'
  <2>1. /\ streams'[c].session = s /\ streams'[c].phase # "acquired"
        /\ \A e \in Stream \ {c} : streams'[e] = streams[e]
    BY <1>1, <1>7, Zenon DEF PersistAndSend, Awaits, Serving, Idle, Become, ServiceTypes, StreamType
  <2> QED
    BY <1>3, <1>7, <2>1, KeepsFence DEF PersistAndSend
<1>8. CASE Demand(c) \/ FetchFails(c)
  <2>1. ASSUME NEW pending, NEW demanded, Serving(c),
               Become(c, [streams[c] EXCEPT !.pending = pending, !.demanded = demanded]),
               leases' = leases, source' = source
        PROVE  FenceInv'
    <3>1. /\ streams'[c].session = s /\ streams'[c].phase # "acquired"
          /\ \A d \in Stream \ {c} : streams'[d] = streams[d]
      BY <1>1, <2>1, SMTT(30) DEF Serving, Idle, Become, ServiceTypes, StreamType
    <3> QED
      BY <2>1, <3>1, KeepsFence
  <2>2. CASE FetchFails(c)
    <3>1. [streams[c] EXCEPT !.demanded = FALSE]
              = [streams[c] EXCEPT !.pending = streams[c].pending, !.demanded = FALSE]
      BY <1>1, Zenon DEF StreamType
    <3> QED
      BY <2>1, <2>2, <3>1, Zenon DEF FetchFails, Awaits
  <2>3. CASE Demand(c) /\ UNCHANGED streams
    BY <2>3, KeepsFence DEF Demand, Serving, Idle
  <2>4. CASE Demand(c) /\ Become(c, [streams[c] EXCEPT !.pending = FALSE, !.demanded = TRUE])
    BY <2>1, <2>4, Zenon DEF Demand
  <2> QED
    BY <1>8, <2>2, <2>3, <2>4 DEF Demand
<1>9. CASE Connect(c) \/ Disconnect(c) \/ BreakOnShutdown(c)
  BY <1>3, <1>4, <1>9, Zenon DEF Connect, Disconnect, BreakOnShutdown, Phases
<1>10. ASSUME NEW request, PrepareFails(c, request) PROVE FenceInv'
  BY <1>3, <1>4, <1>10, Zenon DEF PrepareFails, Phases
<1>11. ASSUME NEW ack, RefuseAcknowledgement(c, ack) PROVE FenceInv'
  BY <1>3, <1>4, <1>11, Zenon DEF RefuseAcknowledgement, Phases
<1>12. ASSUME NEW d, RefuseDelivery(c, d) PROVE FenceInv'
  BY <1>3, <1>4, <1>12 DEF RefuseDelivery, Phases
<1> QED
  BY <1>2, <1>5, <1>6, <1>7, <1>8, <1>9, <1>10, <1>11, <1>12, SMTT(30) DEF React

\* One step of the service, whichever it is.
LEMMA FenceStep ==
    ASSUME ServiceTypes, ServiceTypes', FenceInv, [ServiceNext]_serviceVars
    PROVE  FenceInv'
<1>1. CASE UNCHANGED serviceVars \/ Shutdown
  BY <1>1, Zenon DEF serviceVars, Shutdown, FenceInv, LeaseExclusive, SourceFenced, AcquiredClean
<1>2. CASE Restart
  BY <1>2 DEF Restart, Closed, FenceInv, LeaseExclusive, SourceFenced, AcquiredClean
<1> QED
  BY <1>1, <1>2, ContinueFence, ReactFence, Zenon DEF ServiceNext

\* Two tasks never serve one session, for any number of streams and sessions.
THEOREM LeasesAreExclusive == ServiceSpec => []LeaseExclusive
<1>1. ServiceInit => FenceInv
  BY DEF ServiceInit, Closed, FenceInv, LeaseExclusive, SourceFenced, AcquiredClean
<1>2. FenceInv => LeaseExclusive
  BY SMTT(30) DEF FenceInv
<1> QED
  BY <1>1, <1>2, TypesInit, BaseStep, FenceStep, PTL DEF ServiceSpec

\* No session that is free to acquire has left anything in the source.
THEOREM SourceIsFenced == ServiceSpec => []SourceFenced
<1>1. ServiceInit => FenceInv
  BY DEF ServiceInit, Closed, FenceInv, LeaseExclusive, SourceFenced, AcquiredClean
<1>2. FenceInv => SourceFenced
  BY DEF FenceInv
<1> QED
  BY <1>1, <1>2, TypesInit, BaseStep, FenceStep, PTL DEF ServiceSpec
=============================================================================
