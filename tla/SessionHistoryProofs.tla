------------------------ MODULE SessionHistoryProofs ------------------------
(***************************************************************************)
(* What the acknowledged history of a session says, proved of every        *)
(* behaviour of SessionStore: which delivery opens a revision, what a      *)
(* repeated request is answered, where the head may move, that a promised  *)
(* replacement is delivered, and that the client takes what the store has  *)
(* put into the outbox.                                                    *)
(*                                                                         *)
(* Each argument adds to the row invariant of SessionStoreProofs what the  *)
(* rows remember of the history: RepliesInv, OpeningInv, PromiseInv.       *)
(***************************************************************************)
EXTENDS WireAgreement, SessionStoreProofs

(***************************************************************************)
(* What a step does to one session, with the condition it was taken under. *)
(***************************************************************************)
Untouched(s) == rows'[s] = rows[s] /\ log'[s] = log[s] /\ replies'[s] = replies[s]

ReplayStep(s) ==
    /\ rows'[s] = rows[s] /\ log'[s] = log[s] /\ rows[s].desired # None
    /\ rows[s].revision \in Revisions
    /\ replies'[s] = [replies[s] EXCEPT ![rows[s].revision] = @ \cup {rows[s].activation}]

ApplyStep(s, request, prepared) ==
    /\ ApplyAccepts(rows[s], request, prepared, HasCapacity)
    /\ rows'[s] = ApplyRow(rows[s], request, prepared) /\ log'[s] = log[s]
    /\ replies'[s] = [replies[s] EXCEPT ![request.new] = @ \cup {NextSequence(rows[s])}]

SaveStep(s, d) ==
    /\ SaveAccepts(rows[s], rows[s].desired, d)
    /\ rows'[s] = SaveRow(rows[s], d) /\ log'[s] = log[s] /\ replies'[s] = replies[s]

AckStep(s) ==
    /\ \E ack \in Acknowledgements : AckAccepts(rows[s], ack)
    /\ rows'[s] = AckRow(rows[s]) /\ log'[s] = Append(log[s], rows[s].pending)
    /\ replies'[s] = replies[s]

SessionStep(s) ==
    \/ Untouched(s)
    \/ ReplayStep(s)
    \/ \E request \in Requests, prepared \in Cursor \cup {None} : ApplyStep(s, request, prepared)
    \/ \E d \in DeliveryType : SaveStep(s, d)
    \/ AckStep(s)

HistoryBase == HistoryInv /\ TypeOK

\* Every step is one of these for every session.
LEMMA SessionSteps ==
    ASSUME HistoryBase, [Next]_vars
    PROVE  \A s \in Session : SessionStep(s)
<1> SUFFICES ASSUME NEW s \in Session PROVE SessionStep(s)
  OBVIOUS
<1>1. CASE UNCHANGED vars
  BY <1>1 DEF vars, SessionStep, Untouched
<1>2. CASE Next
  <2>1. PICK t \in Session : \/ Apply(t)
                             \/ Save(t)
                             \/ \E ack \in Acknowledgements : Acknowledge(t, ack)
    BY <1>2, Zenon DEF Next
  <2>2. /\ rows \in [Session -> RowType] /\ RowInv(rows[t]) /\ rows[t] \in RowType
        /\ DOMAIN rows = Session /\ DOMAIN log = Session /\ DOMAIN replies = Session
    BY DEF HistoryBase, HistoryInv, HistoryType, RowsInv, TypeOK
  <2>3. CASE Apply(t)
    <3>1. PICK request \in Requests, position \in Positions \cup {None} :
              LET prepared == IF position = None THEN None
                              ELSE CursorAt(request.new, 0, position)
              IN  \/ ApplyDesiredState(t, request, prepared)
                  \/ ReplayDesiredState(t, request, prepared)
      BY <2>3, Zenon DEF Apply, ApplyFrom
    <3> DEFINE prepared == IF position = None THEN None
                           ELSE CursorAt(request.new, 0, position)
    <3>2. prepared \in Cursor \cup {None}
      BY PreparedIsCursor, Zenon
    <3> HIDE DEF prepared
    <3>3. CASE ApplyDesiredState(t, request, prepared)
      <4>1. CASE s = t
        <5>1. ApplyStep(s, request, prepared)
          BY <2>2, <3>3, <4>1, SMTT(30) DEF ApplyDesiredState, Answer, ApplyStep
        <5> QED
          BY <3>2, <5>1, Zenon DEF SessionStep
      <4>2. CASE s # t
        BY <2>2, <3>3, <4>2, SMTT(30) DEF ApplyDesiredState, Answer, SessionStep, Untouched
      <4> QED
        BY <4>1, <4>2
    <3>4. CASE ReplayDesiredState(t, request, prepared)
      <4>1. CASE s = t
        <5>1. /\ request.new = rows[s].revision /\ rows[s].desired = request
              /\ request # None /\ request.new \in Revisions
          BY <3>4, <4>1, NoneIsNoRecord DEF ReplayDesiredState, ApplyReplays, Requests
        <5>2. ReplayStep(s)
          BY <2>2, <3>4, <4>1, <5>1, SMTT(30) DEF ReplayDesiredState, Answer, ReplayStep
        <5> QED
          BY <5>2, Zenon DEF SessionStep
      <4>2. CASE s # t
        BY <2>2, <3>4, <4>2, SMTT(30) DEF ReplayDesiredState, Answer, SessionStep, Untouched
      <4> QED
        BY <4>1, <4>2
    <3> QED
      BY <3>1, <3>3, <3>4 DEF prepared
  <2>4. CASE Save(t)
    <3>1. PICK rev \in {rows[t].revision - 1, rows[t].revision},
               seq \in {AckedSequence(rows[t]), NextSequence(rows[t])},
               position \in Positions, payload \in Payloads, neutral \in BOOLEAN :
               SavePending(t, rows[t].desired,
                   OfferedDelivery(rev, seq, Token(seq), position, payload, neutral))
      BY <2>4, Zenon DEF Save, SaveFrom
    <3> DEFINE d == OfferedDelivery(rev, seq, Token(seq), position, payload, neutral)
    <3>2. d \in DeliveryType
      BY <2>2, <2>4, <3>1, OfferedDeliveryType, SMTT(30) DEF SavePending, SaveAccepts, Save, SaveFrom
    <3> HIDE DEF d
    <3>3. SavePending(t, rows[t].desired, d)
      BY <3>1 DEF d
    <3>4. CASE s = t
      <4>1. SaveStep(s, d)
        BY <2>2, <3>3, <3>4, SMTT(30) DEF SavePending, SaveStep
      <4> QED
        BY <3>2, <4>1, Zenon DEF SessionStep
    <3>5. CASE s # t
      BY <2>2, <3>3, <3>5, SMTT(30) DEF SavePending, SessionStep, Untouched
    <3> QED
      BY <3>4, <3>5
  <2>5. CASE \E ack \in Acknowledgements : Acknowledge(t, ack)
    <3>1. PICK ack \in Acknowledgements : Acknowledge(t, ack)
      BY <2>5
    <3>2. CASE s = t
      <4>1. AckStep(s)
        BY <2>2, <3>1, <3>2, SMTT(30) DEF Acknowledge, AckStep
      <4> QED
        BY <4>1, Zenon DEF SessionStep
    <3>3. CASE s # t
      BY <2>2, <3>1, <3>3, SMTT(30) DEF Acknowledge, SessionStep, Untouched
    <3> QED
      BY <3>2, <3>3
  <2> QED
    BY <2>1, <2>3, <2>4, <2>5
<1> QED
  BY <1>1, <1>2

\* What the load check and the guards say of an outbox item that is about to
\* be acknowledged, and what the acknowledgement makes of row and history.
AcknowledgedItem(row, d) ==
    /\ row \in RowType /\ d \in DeliveryType /\ d # None
    /\ row.desired \in Requests /\ row.desired # None /\ row.desired.new = row.revision
    /\ d.rev = row.revision /\ d.cursor.rev = row.revision /\ d.cursor \in Cursor
    /\ d.cursor # None
    /\ d.seq = NextSequence(row) /\ d.cursor.seq = d.seq
    /\ ValidateDeliveryPayload(row.desired, d)
    /\ ValidateDeliveryProgress(row.acked, row.desired, d)
    /\ row.tip # None =>
          /\ IsActivationDelivery(d, row.desired.new) \/ CertifiesReorgTip(d, row.tip)
          /\ ~IsReorg(d)

\* A row that loads says all that of its outbox item.
LEMMA OutboxItemFacts ==
    ASSUME NEW row, RowInv(row), row.pending # None
    PROVE  AcknowledgedItem(row, row.pending)
<1>1. row \in RowType /\ ValidatePersistedSession(row)
  BY DEF RowInv
<1>2. row.desired # None
  <2>1. EmptyRow.pending = None
    BY DEF EmptyRow
  <2> QED
    BY <1>1, <2>1, Zenon DEF ValidatePersistedSession
<1>3. ValidatePending(row) /\ row.desired.new = row.revision
  BY <1>1, <1>2, ZenonT(30) DEF ValidatePersistedSession
<1>4. row.pending \in DeliveryType /\ row.desired \in Requests
  BY <1>1, <1>2, Zenon DEF RowType
<1>5. row.pending.cursor \in Cursor /\ row.pending.cursor # None
  BY <1>4, NoneIsNoRecord, Zenon DEF DeliveryType
<1> QED
  BY <1>1, <1>2, <1>3, <1>4, <1>5, Zenon DEF ValidatePending, AcknowledgedItem

\* The history and the row after an acknowledgement.
LEMMA AckedFacts ==
    ASSUME HistoryBase, NEW s \in Session, AckStep(s)
    PROVE  LET d == rows[s].pending
               n == Len(log[s]) + 1
           IN  /\ AcknowledgedItem(rows[s], d) /\ d.seq = n
               /\ Len(log[s]) \in Nat /\ log[s] \in Seq(DeliveryType)
               /\ DOMAIN log[s] = 1..Len(log[s])
               /\ Len(log'[s]) = n /\ log'[s][n] = d /\ DOMAIN log'[s] = 1..n
               /\ \A i \in 1..Len(log[s]) : log'[s][i] = log[s][i]
               /\ rows'[s].acked = d.cursor /\ rows'[s].pending = None
               /\ rows'[s].tip = ExpectedReorgTipAfterAck(rows[s].tip, d)
               /\ rows'[s].revision = rows[s].revision /\ rows'[s].desired = rows[s].desired
               /\ rows'[s].activation = rows[s].activation
<1> DEFINE d == rows[s].pending
           n == Len(log[s]) + 1
<1>1. /\ RowInv(rows[s]) /\ rows[s] \in RowType /\ log[s] \in Seq(DeliveryType)
      /\ GaplessSequence /\ d # None
  BY Zenon DEF HistoryBase, HistoryInv, HistoryType, RowsInv, RowInv, TypeOK, AckStep, AckAccepts
<1>2. AcknowledgedItem(rows[s], d)
  BY <1>1, OutboxItemFacts, Zenon
<1>3. d \in DeliveryType
  BY <1>2 DEF AcknowledgedItem
<1>4. d.seq = n
  BY <1>1 DEF GaplessSequence
<1>5. /\ Len(log[s]) \in Nat /\ DOMAIN log[s] = 1..Len(log[s])
      /\ Len(log'[s]) = n /\ log'[s][n] = d /\ DOMAIN log'[s] = 1..n
      /\ \A i \in 1..Len(log[s]) : log'[s][i] = log[s][i]
  <2>1. log'[s] = Append(log[s], d)
    BY DEF AckStep
  <2> HIDE DEF d
  <2> QED
    BY <1>1, <1>3, <2>1
<1>6. /\ rows'[s].acked = d.cursor /\ rows'[s].pending = None
      /\ rows'[s].tip = ExpectedReorgTipAfterAck(rows[s].tip, d)
      /\ rows'[s].revision = rows[s].revision /\ rows'[s].desired = rows[s].desired
      /\ rows'[s].activation = rows[s].activation
  BY <1>1 DEF AckStep, AckRow, RowType
<1> QED
  BY <1>1, <1>2, <1>4, <1>5, <1>6

\* The row after an accepted request, and the row before it.
LEMMA AppliedFacts ==
    ASSUME HistoryBase, NEW s \in Session,
           NEW request \in Requests, NEW prepared \in Cursor \cup {None},
           ApplyStep(s, request, prepared)
    PROVE  LET row == rows[s]
               d == ActivationDelivery(row, request, prepared)
               n == NextSequence(row)
           IN  /\ row \in RowType /\ row.pending = None
               /\ n = Len(log[s]) + 1 /\ Len(log[s]) \in Nat
               /\ row.revision \in Nat /\ row.revision = request.expected
               /\ request.new = row.revision + 1 /\ request.new \in Revisions
               /\ d \in DeliveryType /\ d # None /\ d.rev = request.new /\ d.seq = n
               /\ IsActivationDelivery(d, request.new)
               /\ rows'[s].acked = row.acked /\ rows'[s].tip = row.tip
               /\ rows'[s].revision = request.new /\ rows'[s].desired = request
               /\ rows'[s].desired # None
               /\ rows'[s].pending = d /\ rows'[s].activation = n
<1> DEFINE row == rows[s]
           d == ActivationDelivery(row, request, prepared)
           n == NextSequence(row)
<1>1. /\ row \in RowType /\ log[s] \in Seq(DeliveryType) /\ AckedSequence(row) = Len(log[s])
      /\ NoConflict(row, request, HasCapacity)
  BY Zenon
  DEF HistoryBase, HistoryInv, HistoryType, RowsInv, TypeOK, SequencesInv, ApplyStep, ApplyAccepts
<1>2. n = Len(log[s]) + 1 /\ Len(log[s]) \in Nat
  BY <1>1 DEF NextSequence
<1>3. /\ row.pending = None /\ row.revision = request.expected
      /\ request.new = request.expected + 1 /\ HasNextSequence(row)
  BY <1>1, Zenon DEF NoConflict
<1>4. row.revision \in Nat /\ request.new \in Revisions
  BY <1>1, BoundAssumption DEF RowType, Revisions, Requests
<1>5. /\ d \in DeliveryType /\ d.rev = request.new /\ d.seq = n
      /\ d.payload = Barrier(ActivationId(request.new), None)
  BY <1>1, <1>3, ActivationDeliveryType, Zenon
<1>6. IsActivationDelivery(d, request.new) /\ d # None
  BY <1>5, NoneIsNoRecord DEF IsActivationDelivery, IsBarrier, Barrier
<1>7. /\ rows'[s].acked = row.acked /\ rows'[s].tip = row.tip
      /\ rows'[s].revision = request.new /\ rows'[s].desired = request
      /\ rows'[s].pending = d /\ rows'[s].activation = n
  BY <1>1, Zenon DEF ApplyStep, ApplyRow, RowType
<1>8. request # None
  BY NoneIsNoRecord
<1> HIDE DEF d, n
<1> QED
  BY <1>1, <1>2, <1>3, <1>4, <1>5, <1>6, <1>7, <1>8, Zenon DEF d, n

-----------------------------------------------------------------------------
(***************************************************************************)
(* Replies.  No revision beyond the current one has been answered, and the *)
(* current one only with the sequence the row remembers.                   *)
(***************************************************************************)
RepliesInv ==
    \A s \in Session, r \in Revisions :
        /\ \E n \in 0..MaxSequence : replies[s][r] \subseteq {n}
        /\ r > rows[s].revision => replies[s][r] = {}
        /\ r = rows[s].revision => replies[s][r] \subseteq {rows[s].activation}

\* A step answers one revision at most, with the sequence its row remembers.
LEMMA RepliesStep ==
    ASSUME HistoryBase, RepliesInv, [Next]_vars
    PROVE  RepliesInv'
<1> SUFFICES ASSUME NEW s \in Session, NEW r \in Revisions
             PROVE  RepliesInv!(s, r)'
  BY Zenon DEF RepliesInv
<1>1. /\ rows[s] \in RowType /\ rows[s].revision \in Nat /\ r \in Nat
      /\ rows[s].activation \in 0..MaxSequence
      /\ replies[s] \in [Revisions -> SUBSET (1..MaxSequence)]
      /\ RepliesInv!(s, r)
  BY BoundAssumption, SMTT(30) DEF HistoryBase, TypeOK, RepliesInv, RowType, Revisions
<1>2. SessionStep(s)
  BY SessionSteps, Zenon
<1>3. CASE Untouched(s)
  BY <1>1, <1>3, Zenon DEF Untouched
<1>4. CASE ReplayStep(s)
  BY <1>1, <1>4 DEF ReplayStep
<1>5. ASSUME NEW request \in Requests, NEW prepared \in Cursor \cup {None},
             ApplyStep(s, request, prepared)
      PROVE  RepliesInv!(s, r)'
  <2>1. /\ rows'[s].revision = request.new /\ request.new = rows[s].revision + 1
        /\ rows'[s].activation = NextSequence(rows[s]) /\ request.new \in Revisions
    BY <1>5, AppliedFacts, Zenon
  <2>2. NextSequence(rows[s]) \in 0..MaxSequence
    BY <1>1, <1>5, SequenceType DEF ApplyStep, ApplyAccepts, NoConflict
  <2>3. replies'[s][r] = IF r = request.new THEN replies[s][r] \cup {NextSequence(rows[s])}
                         ELSE replies[s][r]
    BY <1>1, <1>5, <2>1, Zenon DEF ApplyStep
  <2> QED
    BY <1>1, <2>1, <2>2, <2>3
<1>6. ASSUME NEW d \in DeliveryType, SaveStep(s, d)
      PROVE  RepliesInv!(s, r)'
  <2>1. rows'[s].revision = rows[s].revision /\ rows'[s].activation = rows[s].activation
    BY <1>1, <1>6, Zenon DEF SaveStep, SaveRow, RowType
  <2> QED
    BY <1>1, <1>6, <2>1, Zenon DEF SaveStep
<1>7. CASE AckStep(s)
  BY <1>1, <1>7, AckedFacts DEF AckStep
<1> QED
  BY <1>2, <1>3, <1>4, <1>5, <1>6, <1>7, Zenon DEF SessionStep

\* A set without two members has at most one.
LEMMA AtMostOne ==
    ASSUME NEW S, NEW n, S \subseteq {n}
    PROVE  Cardinality(S) <= 1
<1>1. IsFiniteSet({n}) /\ Cardinality({n}) = 1
  BY FS_Singleton, Zenon
<1> QED
  BY <1>1, FS_Subset

\* However often apply_desired_state_with_cursor_and_limit sees a request that
\* it has committed, it names the one activation sequence it gave to it.
THEOREM RepliesAreStable == Spec => []ActivationReplyStable
<1>1. Init => RepliesInv
  <2> SUFFICES ASSUME Init, NEW s \in Session, NEW r \in Revisions
               PROVE  RepliesInv!(s, r)
    BY Zenon DEF RepliesInv
  <2>1. replies[s][r] = {} /\ 0 \in 0..MaxSequence
    BY BoundAssumption DEF Init
  <2> QED
    BY <2>1
<1>2. RepliesInv => ActivationReplyStable
  BY AtMostOne, Zenon DEF RepliesInv, ActivationReplyStable
<1>3. HistoryBase /\ RepliesInv /\ [Next]_vars => RepliesInv'
  BY RepliesStep
<1> QED
  BY HistoryInit, HistoryStep, TypesPreserved, <1>1, <1>2, <1>3, PTL DEF Spec, HistoryBase

-----------------------------------------------------------------------------
(***************************************************************************)
(* Openings.  Until the activation of the current revision is acknowledged *)
(* the history ends in the revision before it; afterwards the activation   *)
(* is where the row remembers it.                                          *)
(***************************************************************************)
LastRevision(s) == IF log[s] = <<>> THEN 0 ELSE log[s][Len(log[s])].rev

Opens(s, i) ==
    LET opened == IF i = 1 THEN 0 ELSE log[s][i - 1].rev IN
    \/ log[s][i].rev = opened
    \/ log[s][i].rev = opened + 1 /\ IsActivationDelivery(log[s][i], log[s][i].rev)

OpeningInv ==
    \A s \in Session :
        /\ \A i \in 1..Len(log[s]) :
              /\ log[s][i].cursor.rev = log[s][i].rev
              /\ log[s][i].rev <= rows[s].revision
              /\ Opens(s, i)
        /\ rows[s].desired = None => log[s] = <<>>
        /\ rows[s].desired # None =>
              IF Len(log[s]) < rows[s].activation
              THEN /\ LastRevision(s) = rows[s].revision - 1
                   /\ \A i \in 1..Len(log[s]) : log[s][i].rev < rows[s].revision
              ELSE /\ log[s][rows[s].activation].rev = rows[s].revision
                   /\ \A i \in 1..(rows[s].activation - 1) : log[s][i].rev < rows[s].revision

LEMMA Below ==
    ASSUME NEW a \in Nat, NEW b \in Nat, NEW c \in Nat, a <= b, b < c
    PROVE  a <= c /\ a < c
  OBVIOUS

\* With an empty outbox the history ends in the current revision.
LEMMA SettledRevision ==
    ASSUME HistoryBase, OpeningInv, NEW s \in Session, rows[s].pending = None
    PROVE  LastRevision(s) = rows[s].revision
<1>1. /\ rows[s] \in RowType /\ log[s] \in Seq(DeliveryType)
      /\ ValidatePersistedSession(rows[s]) /\ GaplessSequence!(s) /\ SequencesInv!(s)
      /\ OpeningInv!(s)
  BY SMTT(30)
  DEF HistoryBase, HistoryInv, HistoryType, RowsInv, RowInv, TypeOK, GaplessSequence,
      SequencesInv, OpeningInv
<1>2. CASE rows[s].desired = None
  <2>1. rows[s].revision = 0
    <3>1. rows[s] = EmptyRow
      BY <1>1, <1>2, Zenon DEF ValidatePersistedSession
    <3>2. EmptyRow.revision = 0
      BY DEF EmptyRow
    <3> QED
      BY <3>1, <3>2, Zenon
  <2> QED
    BY <1>1, <1>2, <2>1, Zenon DEF LastRevision
<1>3. CASE rows[s].desired # None
  <2>1. ValidateActivation(rows[s])
    BY <1>1, <1>3, ZenonT(30) DEF ValidatePersistedSession
  <2>2. rows[s].acked # None /\ rows[s].acked.rev = rows[s].revision
    BY <1>1, <1>3, <2>1, Zenon DEF ValidateActivation, RowType
  <2>3. log[s] # <<>> /\ rows[s].acked = log[s][Len(log[s])].cursor
    BY <1>1, <2>2, Zenon
  <2>4. Len(log[s]) \in 1..Len(log[s])
    BY <1>1, <2>3
  <2> QED
    BY <1>1, <2>2, <2>3, <2>4 DEF LastRevision
<1> QED
  BY <1>2, <1>3, Zenon

\* Every step keeps the openings: an accepted request opens the next revision,
\* an acknowledgement adds an item of the current one.
LEMMA OpeningStep ==
    ASSUME HistoryBase, OpeningInv, [Next]_vars
    PROVE  OpeningInv'
<1> SUFFICES ASSUME NEW s \in Session PROVE OpeningInv!(s)'
  BY Zenon DEF OpeningInv
<1>1. /\ rows[s] \in RowType /\ log[s] \in Seq(DeliveryType) /\ Len(log[s]) \in Nat
      /\ DOMAIN log[s] = 1..Len(log[s]) /\ rows[s].revision \in Nat /\ rows[s].activation \in Nat
      /\ OpeningInv!(s) /\ SequencesInv!(s)
      /\ \A i \in 1..Len(log[s]) : log[s][i] \in DeliveryType /\ log[s][i].rev \in Nat
  <2>1. rows[s] \in RowType /\ log[s] \in Seq(DeliveryType)
    BY Zenon DEF HistoryBase, TypeOK
  <2>2. OpeningInv!(s) /\ SequencesInv!(s)
    BY Zenon DEF HistoryBase, HistoryInv, SequencesInv, OpeningInv
  <2>3. Len(log[s]) \in Nat /\ DOMAIN log[s] = 1..Len(log[s])
    BY <2>1
  <2>4. \A i \in 1..Len(log[s]) : log[s][i] \in DeliveryType
    BY <2>1
  <2>5. \A i \in 1..Len(log[s]) : log[s][i].rev \in Nat
    BY <2>4, BoundAssumption DEF DeliveryType, Revisions
  <2>6. rows[s].revision \in Nat /\ rows[s].activation \in Nat
    BY <2>1, BoundAssumption DEF RowType, Revisions
  <2> QED
    BY <2>1, <2>2, <2>3, <2>4, <2>5, <2>6, Zenon
<1>0. Len(log[s]) \in Nat /\ rows[s].revision \in Nat /\ rows[s].activation \in Nat
  BY <1>1, Zenon
<1>2. SessionStep(s)
  BY SessionSteps, Zenon
<1>3. ASSUME log'[s] = log[s], rows'[s].revision = rows[s].revision,
             rows'[s].desired = rows[s].desired, rows'[s].activation = rows[s].activation
      PROVE  OpeningInv!(s)'
  <2>1. \A i \in 1..Len(log[s]) : Opens(s, i)'
    BY <1>1, <1>3, Zenon DEF Opens
  <2>2. LastRevision(s)' = LastRevision(s)
    BY <1>3 DEF LastRevision
  <2> QED
    BY <1>1, <1>3, <2>1, <2>2
<1>4. CASE Untouched(s) \/ ReplayStep(s)
  BY <1>3, <1>4, Zenon DEF Untouched, ReplayStep
<1>5. ASSUME NEW request \in Requests, NEW prepared \in Cursor \cup {None},
             ApplyStep(s, request, prepared)
      PROVE  OpeningInv!(s)'
  <2>1. /\ rows[s].pending = None /\ request.new = rows[s].revision + 1
        /\ rows'[s].revision = request.new /\ rows'[s].desired # None
        /\ rows'[s].activation = Len(log[s]) + 1
    BY <1>5, AppliedFacts, Zenon
  <2>2. log'[s] = log[s]
    BY <1>5, Zenon DEF ApplyStep
  <2>3. LastRevision(s)' = rows'[s].revision - 1
    <3>1. LastRevision(s) = rows[s].revision
      BY <2>1, SettledRevision, Zenon
    <3>2. LastRevision(s)' = LastRevision(s)
      BY <2>2 DEF LastRevision
    <3> QED
      BY <1>0, <2>1, <3>1, <3>2
  <2>4. \A i \in 1..Len(log[s]) : Opens(s, i)'
    BY <1>1, <2>2, Zenon DEF Opens
  <2>5. Len(log[s]) < rows'[s].activation /\ rows[s].revision < rows'[s].revision
    BY <1>0, <2>1
  <2>6. \A i \in 1..Len(log[s]) : log[s][i].rev \in Nat /\ log[s][i].rev <= rows[s].revision
    BY <1>1, Zenon
  <2>7. rows'[s].revision \in Nat
    BY <1>0, <2>1
  <2>8. \A i \in 1..Len(log[s]) :
            log[s][i].rev <= rows'[s].revision /\ log[s][i].rev < rows'[s].revision
    BY <1>0, <2>5, <2>6, <2>7, Below, Zenon
  <2> QED
    BY <1>1, <2>1, <2>2, <2>3, <2>4, <2>5, <2>8, Zenon
<1>6. ASSUME NEW d \in DeliveryType, SaveStep(s, d)
      PROVE  OpeningInv!(s)'
  BY <1>1, <1>3, <1>6 DEF SaveStep, SaveRow, RowType
<1>7. CASE AckStep(s)
  <2> DEFINE d == rows[s].pending
  <2>0. PICK n \in Nat : n = Len(log[s]) + 1
    BY <1>0
  <2>1. /\ AcknowledgedItem(rows[s], d) /\ Len(log'[s]) = n /\ log'[s][n] = d
        /\ \A i \in 1..Len(log[s]) : log'[s][i] = log[s][i]
        /\ rows'[s].revision = rows[s].revision /\ rows'[s].desired = rows[s].desired
        /\ rows'[s].activation = rows[s].activation
    BY <1>7, <2>0, AckedFacts, Zenon
  <2>2. /\ d.rev = rows[s].revision /\ d.cursor.rev = d.rev /\ rows[s].desired # None
        /\ RowInv(rows[s]) /\ d # None /\ d.seq = n
    <3>1. d.seq = n
      BY <1>7, <2>0, AckedFacts
    <3> QED
      BY <2>1, <3>1, Zenon DEF AcknowledgedItem, HistoryBase, HistoryInv, HistoryType, RowsInv
  <2>3. ValidateActivation(rows[s])
    BY <2>2, ZenonT(30) DEF RowInv, ValidatePersistedSession
  <2>4. Len(log[s]) < rows[s].activation =>
            rows[s].activation = n /\ IsActivationDelivery(d, rows[s].desired.new)
    BY <2>0, <1>1, <2>2, <2>3, Zenon DEF ValidateActivation
  <2>5. rows[s].desired.new = d.rev
    BY <2>1, <2>2, Zenon DEF AcknowledgedItem
  <2>6. log[s] = <<>> <=> Len(log[s]) = 0
    BY <1>1
  <2> HIDE DEF d
  <2>7. Len(log[s]) < rows[s].activation => LastRevision(s) = d.rev - 1
    BY <1>1, <2>2, Zenon
  <2>8. Len(log[s]) >= rows[s].activation => LastRevision(s) = d.rev
    <3> SUFFICES ASSUME Len(log[s]) >= rows[s].activation PROVE LastRevision(s) = d.rev
      BY Zenon
    <3>1. rows[s].acked # None /\ rows[s].acked.rev = rows[s].revision
      BY <1>1, <2>2, <2>3, SMTT(30) DEF ValidateActivation
    <3>2. GaplessSequence!(s)
      BY Zenon DEF HistoryBase, HistoryInv, GaplessSequence
    <3> QED
      BY <1>1, <2>2, <2>6, <3>1, <3>2 DEF LastRevision
  <2>9. Opens(s, n)'
    <3>1. n = 1 => LastRevision(s) = 0
      BY <2>0, <1>1, <2>6 DEF LastRevision
    <3>2. n # 1 => n - 1 \in 1..Len(log[s]) /\ LastRevision(s) = log'[s][n - 1].rev
      <4> SUFFICES ASSUME n # 1
                   PROVE  n - 1 \in 1..Len(log[s]) /\ LastRevision(s) = log'[s][n - 1].rev
        BY Zenon
      <4>1. n - 1 = Len(log[s]) /\ n - 1 \in 1..Len(log[s]) /\ Len(log[s]) # 0
        BY <1>0, <2>0
      <4>2. log'[s][n - 1] = log[s][n - 1] /\ log[s] # <<>>
        BY <2>1, <2>6, <4>1, Zenon
      <4> QED
        BY <4>1, <4>2, Zenon DEF LastRevision
    <3>3. \/ d.rev = LastRevision(s)
          \/ d.rev = LastRevision(s) + 1 /\ IsActivationDelivery(d, d.rev)
      <4>1. d.rev \in Nat
        BY <1>0, <2>2, Zenon
      <4>2. CASE Len(log[s]) < rows[s].activation
        <5>1. LastRevision(s) = d.rev - 1 /\ IsActivationDelivery(d, d.rev)
          BY <2>4, <2>5, <2>7, <4>2, Zenon
        <5>2. d.rev = (d.rev - 1) + 1
          BY <4>1
        <5> QED
          BY <5>1, <5>2, Zenon
      <4>3. CASE Len(log[s]) >= rows[s].activation
        BY <2>8, <4>3, Zenon
      <4> QED
        BY <1>0, <4>2, <4>3
    <3> QED
      BY <2>1, <3>1, <3>2, <3>3, Zenon DEF Opens
  <2>10. \A i \in 1..Len(log[s]) : Opens(s, i)'
    <3> SUFFICES ASSUME NEW i \in 1..Len(log[s]) PROVE Opens(s, i)'
      BY Zenon
    <3>1. i # 1 => i - 1 \in 1..Len(log[s])
      BY <1>0
    <3>2. log'[s][i] = log[s][i] /\ (i # 1 => log'[s][i - 1] = log[s][i - 1])
      BY <2>1, <3>1, Zenon
    <3>3. Opens(s, i)
      BY <1>1, Zenon
    <3> QED
      BY <3>2, <3>3, SMTT(30) DEF Opens
  <2>11. \A i \in 1..Len(log'[s]) :
             /\ log'[s][i].cursor.rev = log'[s][i].rev
             /\ log'[s][i].rev <= rows'[s].revision
             /\ Opens(s, i)'
    <3>1. \A i \in 1..n : i = n \/ i \in 1..Len(log[s])
      BY <1>0, <2>0
    <3>2. /\ log'[s][n].cursor.rev = log'[s][n].rev
          /\ log'[s][n].rev <= rows'[s].revision
      <4>1. rows[s].revision <= rows[s].revision
        BY <1>0
      <4> QED
        BY <2>1, <2>2, <4>1, Zenon
    <3>3. \A i \in 1..Len(log[s]) :
              /\ log'[s][i].cursor.rev = log'[s][i].rev
              /\ log'[s][i].rev <= rows'[s].revision
      BY <1>1, <2>1, Zenon
    <3> QED
      BY <2>1, <2>9, <2>10, <3>1, <3>2, <3>3, Zenon
  <2>12. /\ ~(n < rows[s].activation)
         /\ log'[s][rows[s].activation].rev = rows[s].revision
         /\ \A i \in 1..(rows[s].activation - 1) : log'[s][i].rev < rows[s].revision
    <3>1. rows[s].activation # 0
      BY <2>0, <1>1, <2>2, Zenon
    <3>2. CASE Len(log[s]) < rows[s].activation
      <4>1. rows[s].activation = n /\ log'[s][n].rev = rows[s].revision
        BY <2>1, <2>2, <2>4, <3>2, Zenon
      <4>2. \A i \in 1..Len(log[s]) : log[s][i].rev < rows[s].revision
        BY <1>1, <2>2, <3>2, Zenon
      <4>3. (\A i \in 1..(n - 1) : i \in 1..Len(log[s])) /\ ~(n < n)
        BY <1>0, <2>0
      <4> QED
        BY <2>1, <4>1, <4>2, <4>3, Zenon
    <3>3. CASE Len(log[s]) >= rows[s].activation
      <4>1. rows[s].activation \in 1..Len(log[s])
        BY <1>0, <3>1, <3>3
      <4>2. \A i \in 1..(rows[s].activation - 1) : i \in 1..Len(log[s])
        BY <1>0, <3>3
      <4>3. /\ log[s][rows[s].activation].rev = rows[s].revision
            /\ \A i \in 1..(rows[s].activation - 1) : log[s][i].rev < rows[s].revision
        <5>1. ~(Len(log[s]) < rows[s].activation)
          BY <1>0, <3>3
        <5> QED
          BY <1>1, <2>2, <5>1, Zenon
      <4>4. ~(n < rows[s].activation)
        BY <1>0, <2>0, <3>3
      <4> QED
        BY <2>1, <4>1, <4>2, <4>3, <4>4, Zenon
    <3> QED
      BY <1>0, <3>2, <3>3
  <2> QED
    BY <1>1, <2>0, <2>1, <2>2, <2>11, <2>12, Zenon
<1> QED
  BY <1>2, <1>4, <1>5, <1>6, <1>7, Zenon DEF SessionStep

\* Nothing of a revision is acknowledged before that revision's activation
\* barrier, and revisions follow each other without a gap
\* (apply_desired_state_with_cursor_and_limit, acknowledge_with_status).
THEOREM RevisionsAreOpened == Spec => []ActivationOpensRevision
<1>1. Init => OpeningInv
  <2> SUFFICES ASSUME Init, NEW s \in Session PROVE OpeningInv!(s)
    BY Zenon DEF OpeningInv
  <2>1. rows[s] = EmptyRow /\ log[s] = <<>>
    BY Zenon DEF Init
  <2>2. 1..Len(log[s]) = {}
    BY <2>1
  <2>3. EmptyRow.desired = None
    BY DEF EmptyRow
  <2> QED
    BY <2>1, <2>2, <2>3, Zenon
<1>2. HistoryBase /\ OpeningInv => ActivationOpensRevision
  <2> SUFFICES ASSUME HistoryBase, OpeningInv, NEW s \in Session
               PROVE  ActivationOpensRevision!(s)
    BY Zenon DEF ActivationOpensRevision
  <2> DEFINE row == rows[s]
             entries == log[s] \o (IF row.pending = None THEN <<>> ELSE <<row.pending>>)
  <2>1. /\ row \in RowType /\ log[s] \in Seq(DeliveryType) /\ RowInv(row)
        /\ GaplessSequence!(s) /\ SequencesInv!(s) /\ OpeningInv!(s)
    BY Zenon
    DEF HistoryBase, HistoryInv, HistoryType, RowsInv, TypeOK, GaplessSequence, SequencesInv,
        OpeningInv
  <2>2. /\ Len(log[s]) \in Nat /\ DOMAIN log[s] = 1..Len(log[s])
        /\ row.activation \in Nat /\ row.revision \in Nat
    BY <2>1, BoundAssumption DEF RowType, Revisions
  <2>3. /\ 1..Len(log[s]) \subseteq DOMAIN entries
        /\ \A i \in 1..Len(log[s]) : entries[i] = log[s][i]
        /\ row.pending # None =>
              /\ Len(log[s]) + 1 \in DOMAIN entries
              /\ entries[Len(log[s]) + 1] = row.pending
    <3>1. row.pending # None => row.pending \in DeliveryType
      BY <2>1, Zenon DEF RowType
    <3>2. CASE row.pending = None
      <4>1. entries = log[s] \o <<>>
        BY <3>2, Zenon
      <4>2. log[s] \o <<>> = log[s]
        BY <2>1
      <4> QED
        BY <2>2, <3>2, <4>1, <4>2, Zenon
    <3>3. CASE row.pending # None
      <4>1. entries = log[s] \o <<row.pending>> /\ <<row.pending>> \in Seq(DeliveryType)
        BY <3>1, <3>3
      <4> HIDE DEF entries, row
      <4> QED
        BY <2>1, <2>2, <3>3, <4>1
    <3> QED
      BY <3>2, <3>3, Zenon
  <2> HIDE DEF entries
  <2>4. \A i \in DOMAIN log[s] : Opens(s, i)
    BY <2>1, <2>2, Zenon
  <2>5. ASSUME row.desired # None
        PROVE  /\ row.activation \in DOMAIN entries
               /\ entries[row.activation].rev = row.revision
               /\ \A i \in 1..(row.activation - 1) : entries[i].rev < row.revision
    <3>1. row.activation # 0
      BY <2>1, <2>5, Zenon
    <3>2. CASE Len(log[s]) < row.activation
      <4>1. ValidateActivation(row)
        BY <2>1, <2>5, ZenonT(30) DEF RowInv, ValidatePersistedSession
      <4>0. AckedSequence(row) < row.activation
        BY <2>1, <3>2, Zenon
      <4>2. row.pending # None /\ row.activation = row.pending.seq
        BY <3>1, <4>0, <4>1, Zenon DEF ValidateActivation
      <4>3. row.activation = Len(log[s]) + 1
        BY <2>1, <4>2
      <4>4. row.pending.rev = row.revision
        BY <2>1, <4>2, OutboxItemFacts, Zenon DEF AcknowledgedItem
      <4>5. \A i \in 1..(row.activation - 1) : i \in 1..Len(log[s])
        BY <2>2, <4>3
      <4>6. \A i \in 1..Len(log[s]) : log[s][i].rev < row.revision
        BY <2>1, <2>5, <3>2, Zenon
      <4> QED
        BY <2>3, <4>2, <4>3, <4>4, <4>5, <4>6
    <3>3. CASE Len(log[s]) >= row.activation
      <4>1. /\ row.activation \in 1..Len(log[s])
            /\ \A i \in 1..(row.activation - 1) : i \in 1..Len(log[s])
        BY <2>2, <3>1, <3>3
      <4>2. /\ log[s][row.activation].rev = row.revision
            /\ \A i \in 1..(row.activation - 1) : log[s][i].rev < row.revision
        <5>1. ~(Len(log[s]) < row.activation)
          BY <2>2, <3>3
        <5> QED
          BY <2>1, <2>5, <5>1, Zenon
      <4> QED
        BY <2>3, <4>1, <4>2, Zenon
    <3> QED
      BY <2>2, <3>2, <3>3
  <2> QED
    BY <2>4, <2>5, Zenon DEF Opens, entries
<1>3. HistoryBase /\ OpeningInv /\ [Next]_vars => OpeningInv'
  BY OpeningStep
<1> QED
  BY HistoryInit, HistoryStep, TypesPreserved, <1>1, <1>2, <1>3, PTL DEF Spec, HistoryBase

-----------------------------------------------------------------------------
(***************************************************************************)
(* Heads                                                                   *)
(***************************************************************************)
\* A non-empty set of record positions has a last one.
LEMMA MaxIsMember ==
    ASSUME NEW n \in Nat, NEW S \in SUBSET (1..n), S # {}
    PROVE  Max(S) \in S
<1> DEFINE T == {n - x : x \in S}
           least == Min(T)
<1>1. T \in SUBSET Nat /\ T # {}
  <2>1. \A x \in 1..n : n - x \in Nat
    OBVIOUS
  <2> QED
    BY <2>1, Zenon
<1>2. least \in T /\ \A y \in T : least <= y
  BY <1>1, MinIsLeast, Zenon
<1>3. PICK x \in S : least = n - x
  BY <1>2, Zenon
<1> HIDE DEF least
<1>4. ASSUME NEW y \in S PROVE x >= y
  <2>1. n - y \in T
    OBVIOUS
  <2>2. n - x <= n - y
    BY <1>2, <1>3, <2>1
  <2>3. x \in Int /\ y \in Int
    OBVIOUS
  <2> QED
    BY <2>2, <2>3
<1> QED
  BY <1>4, Zenon DEF Max

\* The payload of a delivery is of one kind, and a data page is a sequence of
\* records of blocks.
LEMMA PayloadFacts ==
    ASSUME NEW d \in DeliveryType
    PROVE  /\ d.payload.kind \in {"data", "reorg", "finality", "barrier"}
           /\ IsReorg(d) => d.payload.ancestor \in Block /\ d.payload.new \in Block
           /\ IsData(d) =>
                 /\ Len(d.payload.records) \in Nat
                 /\ DOMAIN d.payload.records = 1..Len(d.payload.records)
                 /\ \A i \in DOMAIN d.payload.records : d.payload.records[i].block \in Block
<1>1. d.payload \in Payloads \cup ActivationBarriers
  BY Zenon DEF DeliveryType
<1>2. CASE d.payload \in Payloads
  BY <1>2, SourceAssumption DEF IsReorg, IsData
<1>3. CASE d.payload \in ActivationBarriers
  BY <1>3 DEF ActivationBarriers, Barrier, IsReorg, IsData
<1> QED
  BY <1>1, <1>2, <1>3

\* The block that a page certifies last is one it names as canonical.
LEMMA LastCertifiedIsCarried ==
    ASSUME NEW d \in DeliveryType, IsData(d), LastCertified(d.payload.records) # None
    PROVE  LastCertified(d.payload.records) \in CanonicalBlocks(d.payload.records)
<1> DEFINE records == d.payload.records
           certified == {i \in DOMAIN records : Certifies(records[i])}
<1>1. Len(records) \in Nat /\ DOMAIN records = 1..Len(records)
  BY PayloadFacts
<1>2. certified # {} /\ LastCertified(records) = records[Max(certified)].block
  BY Zenon DEF LastCertified
<1>3. certified \in SUBSET (1..Len(records))
  BY <1>1
<1> HIDE DEF records
<1>4. Max(certified) \in certified
  <2> HIDE DEF certified
  <2> QED
    BY <1>1, <1>2, <1>3, MaxIsMember, Zenon
<1> QED
  BY <1>2, <1>4, Zenon DEF CanonicalBlocks, records

\* What DeclaredHead and the check against regressions leave: the head stays,
\* moves to a block the delivery names, or is installed by an activation.
LEMMA HeadOfAcceptedDelivery ==
    ASSUME NEW row, NEW d, AcknowledgedItem(row, d), d.cursor.head # AckedHead(row.acked)
    PROVE  \/ d.cursor.head \in Carried(d)
           \/ AckedHead(row.acked) = None /\ IsActivationDelivery(d, d.rev)
<1>1. /\ d \in DeliveryType /\ d.rev = row.desired.new
      /\ ValidateDeliveryProgress(row.acked, row.desired, d)
  BY Zenon DEF AcknowledgedItem
<1>2. d.cursor.head = DeclaredHead(row.acked, row.desired, d)
  BY <1>1 DEF ValidateDeliveryProgress
<1>3. CASE IsData(d)
  <2>1. ~IsReorg(d)
    BY <1>3 DEF IsData, IsReorg
  <2>2. CASE LastCertified(d.payload.records) # None
    <3>1. d.cursor.head = LastCertified(d.payload.records)
      BY <1>2, <1>3, <2>2, SMTT(30) DEF DeclaredHead, IsData, IsReorg, IsBarrier
    <3> QED
      BY <1>1, <1>3, <2>2, <3>1, LastCertifiedIsCarried DEF Carried, IsData, IsReorg, IsBarrier
  <2>3. CASE LastCertified(d.payload.records) = None
    <3>1. d.cursor.head = None
      BY <1>2, <1>3, <2>3, SMTT(30) DEF DeclaredHead, IsData, IsReorg, IsBarrier
    <3>2. row.acked # None /\ row.acked.head # None
      BY <3>1, Zenon DEF AckedHead
    <3>3. FALSE
      BY <1>1, <2>1, <3>1, <3>2
      DEF ValidateDeliveryProgress, ValidateForwardProgress, HeadRegressesOrChanges
    <3> QED
      BY <3>3
  <2> QED
    BY <2>2, <2>3, Zenon
<1>4. CASE IsReorg(d)
  BY <1>2, <1>4, SMTT(30) DEF DeclaredHead, Carried, IsData, IsReorg, IsBarrier
<1>5. CASE d.payload.kind = "finality"
  BY <1>2, <1>5, Zenon DEF DeclaredHead, IsData, IsReorg, IsBarrier
<1>6. CASE IsBarrier(d)
  <2>1. d.cursor.head =
            IF d.payload.block # None THEN d.payload.block
            ELSE IF AckedHead(row.acked) # None THEN AckedHead(row.acked)
            ELSE IF IsExactActivation(row.acked, row.desired, d) THEN d.cursor.head
            ELSE None
    BY <1>2, <1>6, SMTT(30) DEF DeclaredHead, IsData, IsReorg, IsBarrier
  <2>2. CASE d.payload.block # None
    BY <1>6, <2>1, <2>2, Zenon DEF Carried, IsData, IsReorg, IsBarrier
  <2>3. CASE d.payload.block = None
    BY <1>1, <2>1, <2>3 DEF IsExactActivation
  <2> QED
    BY <2>2, <2>3
<1> QED
  BY <1>1, <1>3, <1>4, <1>5, <1>6, PayloadFacts, Zenon DEF IsData, IsReorg, IsBarrier

\* An acknowledgement never moves the head to a block that nobody has named
\* (validate_delivery_progress, acknowledge_with_status).
THEOREM HeadsAreCarried == Spec => []HeadMovesOnlyToCarriedBlocks
<1>1. Init => HeadMovesOnlyToCarriedBlocks
  <2> SUFFICES ASSUME Init, NEW s \in Session PROVE DOMAIN log[s] = {}
    BY Zenon DEF HeadMovesOnlyToCarriedBlocks
  <2>1. log[s] = <<>>
    BY Zenon DEF Init
  <2> QED
    BY <2>1
<1>2. HistoryBase /\ HeadMovesOnlyToCarriedBlocks /\ [Next]_vars => HeadMovesOnlyToCarriedBlocks'
  <2> SUFFICES ASSUME HistoryBase, HeadMovesOnlyToCarriedBlocks, [Next]_vars,
                      NEW s \in Session, NEW i \in DOMAIN log'[s]
               PROVE  HeadMovesOnlyToCarriedBlocks!(s)!(i)'
    BY Zenon DEF HeadMovesOnlyToCarriedBlocks
  <2>1. SessionStep(s)
    BY SessionSteps
  <2>2. CASE log'[s] = log[s]
    BY <2>2, Zenon DEF HeadMovesOnlyToCarriedBlocks
  <2>3. CASE AckStep(s)
    <3> DEFINE d == rows[s].pending
    <3>1. /\ AcknowledgedItem(rows[s], d)
          /\ Len(log[s]) \in Nat /\ DOMAIN log[s] = 1..Len(log[s])
          /\ log'[s][Len(log[s]) + 1] = d /\ DOMAIN log'[s] = 1..(Len(log[s]) + 1)
          /\ \A k \in 1..Len(log[s]) : log'[s][k] = log[s][k]
      BY <2>3, AckedFacts, Zenon
    <3>2. CASE i \in 1..Len(log[s])
      <4>1. i # 1 => i - 1 \in 1..Len(log[s])
        BY <3>1, <3>2
      <4>2. log'[s][i] = log[s][i] /\ (i # 1 => log'[s][i - 1] = log[s][i - 1])
        BY <3>1, <3>2, <4>1, Zenon
      <4>3. HeadMovesOnlyToCarriedBlocks!(s)!(i)
        BY <3>1, <3>2, Zenon DEF HeadMovesOnlyToCarriedBlocks
      <4> QED
        BY <4>2, <4>3, Zenon
    <3>3. CASE i = Len(log[s]) + 1
      <4>1. log'[s][i] = d
        BY <3>1, <3>3
      <4>2. rows[s].acked = IF log[s] = <<>> THEN None ELSE log[s][Len(log[s])].cursor
        BY Zenon DEF HistoryBase, HistoryInv, GaplessSequence
      <4>3. log[s] \in Seq(DeliveryType)
        BY Zenon DEF HistoryBase, TypeOK
      <4>4. log[s] = <<>> <=> i = 1
        BY <3>1, <3>3, <4>3
      <4>5. AckedHead(rows[s].acked) = IF i = 1 THEN None ELSE log'[s][i - 1].cursor.head
        <5>1. CASE i = 1
          BY <4>2, <4>4, <5>1, Zenon DEF AckedHead
        <5>2. CASE i # 1
          <6>1. i - 1 = Len(log[s]) /\ i - 1 \in 1..Len(log[s])
            BY <3>1, <3>3, <5>2
          <6>2. log'[s][i - 1] = log[s][i - 1] /\ log[s][i - 1] \in DeliveryType
            BY <3>1, <4>3, <6>1
          <6>3. log[s][i - 1].cursor # None
            BY <6>2, NoneIsNoRecord, Zenon DEF DeliveryType
          <6> QED
            BY <4>2, <4>4, <5>2, <6>1, <6>2, <6>3, Zenon DEF AckedHead
        <5> QED
          BY <5>1, <5>2, Zenon
      <4> HIDE DEF d
      <4>6. d.cursor.head # AckedHead(rows[s].acked) =>
                \/ d.cursor.head \in Carried(d)
                \/ AckedHead(rows[s].acked) = None /\ IsActivationDelivery(d, d.rev)
        BY <3>1, HeadOfAcceptedDelivery
      <4> QED
        BY <4>1, <4>5, <4>6, Zenon
    <3>4. i \in 1..Len(log[s]) \/ i = Len(log[s]) + 1
      <4>1. Len(log[s]) \in Nat /\ i \in 1..(Len(log[s]) + 1)
        BY <3>1, Zenon
      <4> QED
        BY <4>1
    <3> QED
      BY <3>2, <3>3, <3>4, Zenon
  <2> QED
    BY <2>1, <2>2, <2>3, Zenon DEF SessionStep, Untouched, ReplayStep, ApplyStep, SaveStep
<1> QED
  BY HistoryInit, HistoryStep, TypesPreserved, <1>1, <1>2, PTL DEF Spec, HistoryBase

-----------------------------------------------------------------------------
(***************************************************************************)
(* Promised replacements.  The row's tip is the promise of the last reorg  *)
(* of the history, as long as only activation barriers have followed it.   *)
(***************************************************************************)
Activation(s, i) == IsActivationDelivery(log[s][i], log[s][i].rev)

OpenPromise(s, i) ==
    IsReorg(log[s][i]) /\ \A k \in (i + 1)..Len(log[s]) : Activation(s, k)

PromiseInv ==
    \A s \in Session : \A i \in 1..Len(log[s]) :
        OpenPromise(s, i) => rows[s].tip = log[s][i].payload.new

\* A parent-linked run of blocks ends in a descendant of the block it starts at.
LEMMA RunDescends ==
    ASSUME NEW blocks \in SUBSET Block, NEW tip \in Block, NEW last \in Block,
           LinkedRun(blocks, tip, last)
    PROVE  Descends(last, tip)
<1> SUFFICES ASSUME NEW S \in SUBSET Block, last \in S,
                    \A x \in S : Parent[x] # None => Parent[x] \in S,
                    tip \notin S
             PROVE  FALSE
  BY Zenon DEF Descends
<1> DEFINE suffix == {b \in blocks : Num[b] >= Num[tip]}
           heights == {Num[b] : b \in suffix \cap S}
           least == Min(heights)
<1>1. /\ last \in suffix
      /\ \A b \in suffix \ {tip} : \E c \in suffix : Num[b] = Num[c] + 1 /\ Parent[b] = c
  BY Zenon DEF LinkedRun
<1>2. heights \in SUBSET Nat /\ heights # {}
  <2>1. \A b \in suffix \cap S : Num[b] \in Nat
    BY ChainAssumption, Zenon
  <2>2. Num[last] \in heights
    BY <1>1
  <2> QED
    BY <2>1, <2>2
<1>3. least \in heights /\ \A n \in heights : least <= n
  <2> HIDE DEF heights
  <2> QED
    BY <1>2, MinIsLeast, Zenon
<1>4. PICK b \in suffix \cap S : least = Num[b]
  BY <1>3, Zenon
<1>5. PICK c \in suffix : Num[b] = Num[c] + 1 /\ Parent[b] = c
  BY <1>1, <1>4, Zenon
<1>6. c \in S /\ c \in Block /\ b \in Block
  BY <1>4, <1>5, ChainAssumption, Zenon
<1>7. Num[c] \in heights
  BY <1>5, <1>6, Zenon
<1> HIDE DEF least, heights
<1> QED
  BY <1>3, <1>4, <1>5, <1>6, <1>7, ChainAssumption

\* A delivery that certifies a promised tip names it and ends at a descendant.
LEMMA CertifiedTipIsReached ==
    ASSUME NEW d \in DeliveryType, NEW tip \in Block, CertifiesReorgTip(d, tip)
    PROVE  /\ tip \in Carried(d)
           /\ Descends(d.cursor.head, tip)
           /\ \A rev : ~IsActivationDelivery(d, rev)
<1>1. d.cursor.head \in Block
  BY DEF CertifiesReorgTip, DeliveryType, Cursor, OptBlock
<1>2. tip # None
  BY ChainAssumption
<1>3. CASE IsData(d) /\ LinkedRun(CanonicalBlocks(d.payload.records), tip, d.cursor.head)
  <2>1. CanonicalBlocks(d.payload.records) \in SUBSET Block
    BY <1>3, PayloadFacts DEF CanonicalBlocks
  <2>2. Descends(d.cursor.head, tip)
    BY <1>1, <1>3, <2>1, RunDescends, Zenon
  <2>3. tip \in CanonicalBlocks(d.payload.records)
    BY <1>3 DEF LinkedRun
  <2>4. Carried(d) = CanonicalBlocks(d.payload.records)
    BY <1>3, Zenon DEF Carried, IsData, IsReorg, IsBarrier
  <2>5. \A rev : ~IsActivationDelivery(d, rev)
    BY <1>3 DEF IsActivationDelivery, IsData, IsBarrier
  <2> QED
    BY <2>2, <2>3, <2>4, <2>5, Zenon
<1>4. CASE IsBarrier(d) /\ d.payload.block = tip /\ d.cursor.head = tip
  BY <1>2, <1>4 DEF Carried, IsActivationDelivery, IsData, IsReorg, IsBarrier, Descends
<1> QED
  BY <1>3, <1>4 DEF CertifiesReorgTip

\* An activation barrier is no reorg.
LEMMA ActivationIsNoReorg ==
    ASSUME NEW d, NEW rev, IsActivationDelivery(d, rev)
    PROVE  ~IsReorg(d)
  BY DEF IsActivationDelivery, IsBarrier, IsReorg

\* An acknowledgement opens, keeps or settles the promise.
LEMMA PromiseStep ==
    ASSUME HistoryBase, PromiseInv, [Next]_vars
    PROVE  PromiseInv'
<1> SUFFICES ASSUME NEW s \in Session, NEW i \in 1..Len(log'[s]), OpenPromise(s, i)'
             PROVE  rows'[s].tip = log'[s][i].payload.new
  BY Zenon DEF PromiseInv
<1>1. SessionStep(s)
  BY SessionSteps
<1>2. rows[s] \in RowType /\ log[s] \in Seq(DeliveryType)
  BY DEF HistoryBase, TypeOK
<1>3. CASE log'[s] = log[s] /\ rows'[s].tip = rows[s].tip
  BY <1>3, Zenon DEF PromiseInv, OpenPromise, Activation
<1>4. CASE AckStep(s)
  <2> DEFINE d == rows[s].pending
  <2>0. PICK n \in Nat : n = Len(log[s]) + 1
    BY <1>2
  <2>1. /\ AcknowledgedItem(rows[s], d) /\ Len(log[s]) \in Nat
        /\ Len(log'[s]) = n /\ log'[s][n] = d
        /\ \A k \in 1..Len(log[s]) : log'[s][k] = log[s][k]
        /\ rows'[s].tip = ExpectedReorgTipAfterAck(rows[s].tip, d)
    BY <1>4, <2>0, AckedFacts
  <2>2. /\ d \in DeliveryType /\ d.rev = rows[s].desired.new
        /\ rows[s].tip # None =>
              /\ IsActivationDelivery(d, d.rev) \/ CertifiesReorgTip(d, rows[s].tip)
              /\ ~IsReorg(d)
    BY <2>1, Zenon DEF AcknowledgedItem
  <2> HIDE DEF d
  <2>3. CASE i = n
    <3>1. IsReorg(d)
      BY <2>1, <2>3, Zenon DEF OpenPromise
    <3> QED
      BY <2>1, <2>3, <3>1, Zenon DEF ExpectedReorgTipAfterAck
  <2>4. CASE i # n
    <3>1. i \in 1..Len(log[s]) /\ n \in (i + 1)..Len(log'[s])
      BY <2>0, <2>1, <2>4
    <3>2. IsActivationDelivery(d, d.rev)
      BY <2>1, <3>1, Zenon DEF OpenPromise, Activation
    <3>3. \A k \in (i + 1)..Len(log[s]) : k \in (i + 1)..Len(log'[s]) /\ k \in 1..Len(log[s])
      BY <2>0, <2>1, <3>1
    <3>4. OpenPromise(s, i)
      BY <2>1, <3>1, <3>3, Zenon DEF OpenPromise, Activation
    <3>5. rows[s].tip = log[s][i].payload.new
      BY <3>1, <3>4 DEF PromiseInv
    <3>6. log[s][i] \in DeliveryType /\ IsReorg(log[s][i])
      BY <1>2, <3>1, <3>4 DEF OpenPromise
    <3>7. rows[s].tip \in Block
      BY <3>5, <3>6, PayloadFacts, Zenon
    <3>8. ~IsReorg(d) /\ ~CertifiesReorgTip(d, rows[s].tip)
      BY <2>2, <3>2, <3>7, CertifiedTipIsReached, ActivationIsNoReorg, Zenon
    <3>9. rows'[s].tip = rows[s].tip
      BY <2>1, <3>8, Zenon DEF ExpectedReorgTipAfterAck
    <3> QED
      BY <2>1, <3>1, <3>5, <3>9, Zenon
  <2> QED
    BY <2>3, <2>4
<1>5. ASSUME NEW request \in Requests, NEW prepared \in Cursor \cup {None},
             ApplyStep(s, request, prepared)
      PROVE  log'[s] = log[s] /\ rows'[s].tip = rows[s].tip
  BY <1>5, AppliedFacts DEF ApplyStep
<1>6. ASSUME NEW d \in DeliveryType, SaveStep(s, d)
      PROVE  log'[s] = log[s] /\ rows'[s].tip = rows[s].tip
  BY <1>2, <1>6 DEF SaveStep, SaveRow, RowType
<1> QED
  BY <1>1, <1>3, <1>4, <1>5, <1>6, Zenon DEF SessionStep, Untouched, ReplayStep

\* Across any number of activations and restarts, the first delivery after an
\* acknowledged reorg that is not an activation barrier names the promised tip
\* and ends at it or at a descendant (delivery_certifies_reorg_tip).
THEOREM ReorgPromisesAreKept == Spec => []ReorgPromiseKept
<1>1. Init => PromiseInv /\ ReorgPromiseKept
  <2> SUFFICES ASSUME Init PROVE PromiseInv /\ ReorgPromiseKept
    BY Zenon
  <2>1. \A s \in Session : log[s] = <<>>
    BY Zenon DEF Init
  <2>2. \A s \in Session : DOMAIN log[s] = {} /\ 1..Len(log[s]) = {}
    BY <2>1
  <2> QED
    BY <2>2, Zenon DEF PromiseInv, ReorgPromiseKept
<1>2. HistoryBase /\ PromiseInv /\ ReorgPromiseKept /\ [Next]_vars => ReorgPromiseKept'
  <2> SUFFICES ASSUME HistoryBase, PromiseInv, ReorgPromiseKept, [Next]_vars,
                      NEW s \in Session, NEW i \in DOMAIN log'[s], NEW j \in DOMAIN log'[s],
                      i < j, IsReorg(log'[s][i]), ~Activation(s, j)',
                      \A k \in (i + 1)..(j - 1) : Activation(s, k)'
               PROVE  /\ log'[s][i].payload.new \in Carried(log'[s][j])
                      /\ Descends(log'[s][j].cursor.head, log'[s][i].payload.new)
    BY Zenon DEF ReorgPromiseKept, Activation
  <2>1. SessionStep(s)
    BY SessionSteps
  <2>2. CASE log'[s] = log[s]
    BY <2>2, Zenon DEF ReorgPromiseKept, Activation
  <2>3. CASE AckStep(s)
    <3> DEFINE d == rows[s].pending
    <3>0. log[s] \in Seq(DeliveryType)
      BY Zenon DEF HistoryBase, TypeOK
    <3>1. PICK n \in Nat : n = Len(log[s]) + 1
      BY <3>0
    <3>2. /\ AcknowledgedItem(rows[s], d) /\ Len(log[s]) \in Nat
          /\ DOMAIN log[s] = 1..Len(log[s])
          /\ DOMAIN log'[s] = 1..n /\ log'[s][n] = d
          /\ \A k \in 1..Len(log[s]) : log'[s][k] = log[s][k]
      BY <2>3, <3>1, AckedFacts, Zenon
    <3> HIDE DEF d
    <3>3. i \in 1..Len(log[s]) /\ IsReorg(log[s][i]) /\ log'[s][i] = log[s][i]
      BY <3>1, <3>2
    <3>4. \A k \in (i + 1)..(j - 1) : k \in 1..Len(log[s])
      BY <3>1, <3>2
    <3>5. \A k \in (i + 1)..(j - 1) : Activation(s, k)
      BY <3>2, <3>4, Zenon DEF Activation
    <3>6. CASE j \in 1..Len(log[s])
      <4>1. log'[s][j] = log[s][j] /\ ~Activation(s, j)
        BY <3>2, <3>6, Zenon DEF Activation
      <4> QED
        BY <3>2, <3>3, <3>5, <3>6, <4>1, Zenon DEF ReorgPromiseKept, Activation
    <3>7. CASE j = n
      <4>1. \A k \in (i + 1)..Len(log[s]) : k \in (i + 1)..(j - 1)
        <5>1. Len(log[s]) \in Nat /\ i \in 1..n /\ j \in 1..n
          BY <3>2, Zenon
        <5> QED
          BY <3>1, <3>7, <5>1
      <4>2. OpenPromise(s, i)
        BY <3>3, <3>5, <4>1, Zenon DEF OpenPromise
      <4>3. rows[s].tip = log[s][i].payload.new
        BY <3>3, <4>2, Zenon DEF PromiseInv
      <4>4. log[s][i] \in DeliveryType
        BY <3>0, <3>3
      <4>5. rows[s].tip \in Block /\ rows[s].tip # None
        BY <3>3, <4>3, <4>4, PayloadFacts, ChainAssumption, Zenon
      <4>6. ~IsActivationDelivery(d, d.rev)
        BY <3>2, <3>7 DEF Activation
      <4>7. CertifiesReorgTip(d, rows[s].tip) /\ d \in DeliveryType
        BY <3>2, <4>5, <4>6, Zenon DEF AcknowledgedItem
      <4>8. rows[s].tip \in Carried(d) /\ Descends(d.cursor.head, rows[s].tip)
        BY <4>5, <4>7, CertifiedTipIsReached, Zenon
      <4> QED
        BY <3>2, <3>3, <3>7, <4>3, <4>8, Zenon
    <3>8. j \in 1..Len(log[s]) \/ j = n
      <4>1. Len(log[s]) \in Nat /\ j \in 1..n
        BY <3>2, Zenon
      <4> QED
        BY <3>1, <4>1
    <3> QED
      BY <3>6, <3>7, <3>8, Zenon
  <2> QED
    BY <2>1, <2>2, <2>3, Zenon DEF SessionStep, Untouched, ReplayStep, ApplyStep, SaveStep
<1>3. HistoryBase /\ PromiseInv /\ [Next]_vars => PromiseInv'
  BY PromiseStep
<1> QED
  BY HistoryInit, HistoryStep, TypesPreserved, <1>1, <1>2, <1>3, PTL DEF Spec, HistoryBase

-----------------------------------------------------------------------------
(***************************************************************************)
(* The client's checks.  The row invariant is all that OutboxAcceptable    *)
(* needs, but for one fact: a desired state succeeds the revision it       *)
(* expected, which the client assumes when it recognises an activation.    *)
(***************************************************************************)
SuccessorInv ==
    \A s \in Session : rows[s].desired # None =>
        rows[s].desired.new = rows[s].desired.expected + 1

\* Store and client recognise the same activation barrier.
LEMMA SameActivation ==
    ASSUME NEW row, NEW d, AcknowledgedItem(row, d),
           row.desired.new = row.desired.expected + 1,
           IsActivationDelivery(d, row.revision) => IsExactActivation(row.acked, row.desired, d)
    PROVE  LET wire == IsWireActivation(row.acked, CanonicalBaseline(row.desired), d) IN
           /\ wire <=> IsActivationDelivery(d, row.desired.new)
           /\ wire <=> IsExactActivation(row.acked, row.desired, d)
<1>1. /\ d.rev = row.revision /\ row.desired.new = row.revision /\ row \in RowType
      /\ row.desired \in Requests
  BY Zenon DEF AcknowledgedItem
<1>2. row.acked # None => row.acked.rev \in Nat
  BY <1>1, Zenon DEF RowType, Cursor
<1>3. row.desired.expected \in Nat
  BY <1>1, BoundAssumption DEF Requests, Revisions
<1>4. ExpectedActivationHead(row.acked, row.desired) =
          IF AckedHead(row.acked) # None THEN AckedHead(row.acked)
          ELSE CanonicalBaseline(row.desired)
  BY Zenon DEF ExpectedActivationHead, AckedHead
<1>5. IsWireActivation(row.acked, CanonicalBaseline(row.desired), d) =>
          IsActivationDelivery(d, row.desired.new)
  BY <1>1, Zenon DEF IsWireActivation, IsActivationDelivery
<1>6. IsExactActivation(row.acked, row.desired, d) =>
          IsWireActivation(row.acked, CanonicalBaseline(row.desired), d)
  <2>1. 0 + 1 = 1
    OBVIOUS
  <2> QED
    BY <1>1, <1>4, <2>1, Zenon DEF IsWireActivation, IsExactActivation, IsActivationDelivery
<1> QED
  BY <1>1, <1>5, <1>6, Zenon

\* Records in event order are in the order of their heights.
LEMMA EventOrderIsHeightOrder ==
    ASSUME NEW r, NEW s, r.block \in Block, s.block \in Block,
           LexLeq(EventOrder(r), EventOrder(s))
    PROVE  Num[r.block] <= Num[s.block]
<1>1. EventOrder(r)[1] = Num[r.block] /\ EventOrder(s)[1] = Num[s.block]
  BY DEF EventOrder
<1>2. Num[r.block] \in Nat /\ Num[s.block] \in Nat
  BY ChainAssumption, Zenon
<1> DEFINE a == EventOrder(r)
           b == EventOrder(s)
<1>3. CASE a = b
  BY <1>1, <1>2, <1>3
<1>4. ASSUME NEW i \in 1..4, a[i] < b[i], \A j \in 1..(i - 1) : a[j] = b[j]
      PROVE  a[1] < b[1] \/ a[1] = b[1]
  BY <1>4
<1> HIDE DEF a, b
<1> QED
  BY <1>1, <1>2, <1>3, <1>4 DEF LexLeq, a, b

\* A page the store accepts passes the client's checks of its records.
LEMMA DataIsDecodable ==
    ASSUME NEW desired, NEW d \in DeliveryType, IsData(d),
           ValidateData(desired, d.payload.records)
    PROVE  WireData(d.payload.records) /\ DecodeData(OwnerIds(desired), d.payload.records)
<1> DEFINE records == d.payload.records
<1>1. \A i \in DOMAIN records : records[i].block \in Block
  BY PayloadFacts
<1>2. /\ records # <<>>
      /\ \A i \in DOMAIN records :
            /\ ValidateAudience(desired, records[i])
            /\ ~(OwnerCatchup(records[i]) /\ records[i].event = "progress")
      /\ \A i, j \in DOMAIN records : i < j =>
            /\ LexLeq(EventOrder(records[i]), EventOrder(records[j]))
            /\ CompatibleRecords(records[i], records[j])
      /\ CanonicalDataCertified(records)
  BY Zenon DEF ValidateData
<1> HIDE DEF records
<1>3. WireData(records)
  <2>1. ASSUME NEW i \in DOMAIN records, NEW j \in DOMAIN records, i < j
        PROVE  Num[records[i].block] <= Num[records[j].block]
    BY <1>1, <1>2, <2>1, EventOrderIsHeightOrder
  <2> QED
    BY <1>2, <2>1, Zenon DEF WireData
<1>4. \A i \in DOMAIN records : DecodeAudience(OwnerIds(desired), records[i])
  BY <1>2, Zenon DEF DecodeAudience, ValidateAudience, OwnerIds
<1>5. ASSUME NEW r, NEW s, CompatibleRecords(r, s)
      PROVE  DecodeCompatible(r, s)
  BY <1>5 DEF CompatibleRecords, DecodeCompatible
<1>6. DecodeData(OwnerIds(desired), records)
  BY <1>2, <1>4, <1>5, Zenon DEF DecodeData
<1> QED
  BY <1>3, <1>6, Zenon DEF records

\* Store and client compute the same head.
LEMMA SameHead ==
    ASSUME NEW row, NEW d, AcknowledgedItem(row, d),
           LET baseline == CanonicalBaseline(row.desired) IN
           IsWireActivation(row.acked, baseline, d) <=> IsExactActivation(row.acked, row.desired, d)
    PROVE  d.cursor.head = WireHead(row.acked, CanonicalBaseline(row.desired), d)
<1> DEFINE baseline == CanonicalBaseline(row.desired)
<1>1. /\ d \in DeliveryType
      /\ d.cursor.head = DeclaredHead(row.acked, row.desired, d)
  BY Zenon DEF AcknowledgedItem, ValidateDeliveryProgress
<1>2. CASE IsData(d)
  <2>1. d.cursor.head = IF LastCertified(d.payload.records) # None
                        THEN LastCertified(d.payload.records)
                        ELSE IF OwnerCatchupOnly(d) THEN AckedHead(row.acked) ELSE None
    BY <1>1, <1>2, SMTT(30) DEF DeclaredHead, IsData, IsReorg, IsBarrier
  <2>2. OwnerCatchupOnly(d) => LastCertified(d.payload.records) = None
    BY Zenon DEF OwnerCatchupOnly, LastCertified, Certifies
  <2>3. WireHead(row.acked, baseline, d) =
            IF OwnerCatchupOnly(d) THEN AckedHead(row.acked) ELSE LastCertified(d.payload.records)
    BY <1>2, SMTT(30) DEF WireHead, IsData, IsReorg, IsBarrier
  <2> QED
    BY <2>1, <2>2, <2>3
<1>3. CASE IsReorg(d)
  BY <1>1, <1>3, SMTT(30) DEF DeclaredHead, WireHead, IsData, IsReorg, IsBarrier
<1>4. CASE d.payload.kind = "finality"
  BY <1>1, <1>4, Zenon DEF DeclaredHead, WireHead, IsData, IsReorg, IsBarrier
<1>5. CASE IsBarrier(d)
  <2>1. d.cursor.head =
            IF d.payload.block # None THEN d.payload.block
            ELSE IF AckedHead(row.acked) # None THEN AckedHead(row.acked)
            ELSE IF IsExactActivation(row.acked, row.desired, d) THEN d.cursor.head
            ELSE None
    BY <1>1, <1>5, SMTT(30) DEF DeclaredHead, IsData, IsReorg, IsBarrier
  <2>2. WireHead(row.acked, baseline, d) =
            IF d.payload.block # None THEN d.payload.block
            ELSE IF AckedHead(row.acked) # None THEN AckedHead(row.acked)
            ELSE IF IsWireActivation(row.acked, baseline, d) THEN baseline
            ELSE None
    BY <1>5, Zenon DEF WireHead, IsData, IsReorg, IsBarrier
  <2>3. IsWireActivation(row.acked, baseline, d) /\ AckedHead(row.acked) = None =>
            d.cursor.head = baseline
    BY DEF IsWireActivation
  <2> QED
    BY <2>1, <2>2, <2>3
<1> QED
  BY <1>1, <1>2, <1>3, <1>4, <1>5, PayloadFacts DEF IsData, IsReorg, IsBarrier

\* An outbox item that the store has checked passes the client's checks.
LEMMA ClientTakesOutbox ==
    ASSUME NEW row, RowInv(row), row.pending # None,
           row.desired.new = row.desired.expected + 1,
           RegularActivation(row)
    PROVE  ClientAccepts(row)
<1> DEFINE d == row.pending
           baseline == CanonicalBaseline(row.desired)
           wire == IsWireActivation(row.acked, baseline, d)
<1>1. AcknowledgedItem(row, d)
  BY OutboxItemFacts, Zenon
<1>2. /\ d \in DeliveryType /\ d.rev = row.revision /\ d.cursor.rev = row.revision
      /\ row.desired.new = row.revision
      /\ d.seq = NextSequence(row) /\ d.cursor.seq = d.seq
      /\ ValidateDeliveryPayload(row.desired, d)
      /\ ValidateDeliveryProgress(row.acked, row.desired, d)
  BY <1>1 DEF AcknowledgedItem
<1>3. d.token = Token(d.seq)
  <2>1. row.desired # None /\ ValidatePersistedSession(row)
    BY <1>1, Zenon DEF AcknowledgedItem, RowInv
  <2>2. ValidatePending(row)
    BY <2>1, ZenonT(30) DEF ValidatePersistedSession
  <2> QED
    BY <2>2, Zenon DEF ValidatePending
<1>4. /\ wire <=> IsActivationDelivery(d, row.desired.new)
      /\ wire <=> IsExactActivation(row.acked, row.desired, d)
  BY <1>1, SameActivation, Zenon DEF RegularActivation
<1>5. d.cursor.head = WireHead(row.acked, baseline, d)
  BY <1>1, <1>4, SameHead, Zenon
<1> HIDE DEF d, baseline
<1>6. d.neutral <=> (wire \/ IsCursorProgressBarrier(d))
  BY <1>2, <1>4, Zenon DEF ValidateDeliveryPayload
<1>7. WireBoundary(row.acked, baseline, d, HasOpenBackfill(row.desired))
  BY <1>2, <1>4, Zenon DEF ValidateDeliveryProgress, ValidateBoundary, WireBoundary
<1>8. WireDirection(row.acked, baseline, d)
  BY <1>2, <1>4, Zenon
  DEF ValidateDeliveryProgress, ValidateReorgProgress, ValidateForwardProgress,
      ValidateDeliveryPayload, WireDirection
<1>9. IsData(d) =>
          /\ WireData(d.payload.records)
          /\ DecodeData(OwnerIds(row.desired), d.payload.records)
  BY <1>2, DataIsDecodable, Zenon DEF ValidateDeliveryPayload
<1>10. NumberAtLeast(d.cursor.head, d.cursor.next) => WireScanMayLag(row.acked, baseline, d)
  BY <1>2, <1>4, Zenon DEF ValidateDeliveryProgress, ScanMayLagHead, WireScanMayLag
<1>11. ValidateWireProgress(row.acked, baseline, d, HasOpenBackfill(row.desired))
  BY <1>5, <1>6, <1>7, <1>8, <1>9, <1>10, Zenon DEF ValidateWireProgress
<1> QED
  BY <1>2, <1>3, <1>9, <1>11, Zenon DEF ClientAccepts, d, baseline

\* Whatever the store has put into the outbox passes the client's own code
\* (validate_wire_delivery_progress, decode_data_payload), so that it can be
\* acknowledged and the session goes on.
THEOREM OutboxIsAcceptable == Spec => []OutboxAcceptable
<1>1. Init => SuccessorInv
  <2>1. EmptyRow.desired = None
    BY DEF EmptyRow
  <2> QED
    BY <2>1, Zenon DEF Init, SuccessorInv
<1>2. HistoryBase /\ SuccessorInv => OutboxAcceptable
  <2> SUFFICES ASSUME HistoryBase, SuccessorInv, NEW s \in Session,
                      rows[s].pending # None, RegularActivation(rows[s])
               PROVE  ClientAccepts(rows[s])
    BY Zenon DEF OutboxAcceptable
  <2>1. RowInv(rows[s])
    BY DEF HistoryBase, HistoryInv, HistoryType, RowsInv
  <2>2. rows[s].desired # None
    BY <2>1, OutboxItemFacts, Zenon DEF AcknowledgedItem
  <2> QED
    BY <2>1, <2>2, ClientTakesOutbox DEF SuccessorInv
<1>3. HistoryBase /\ SuccessorInv /\ [Next]_vars => SuccessorInv'
  <2> SUFFICES ASSUME HistoryBase, SuccessorInv, [Next]_vars, NEW s \in Session
               PROVE  SuccessorInv!(s)'
    BY Zenon DEF SuccessorInv
  <2>1. SessionStep(s) /\ rows[s] \in RowType
    BY SessionSteps, Zenon DEF HistoryBase, TypeOK
  <2>2. CASE rows'[s].desired = rows[s].desired
    BY <2>2, Zenon DEF SuccessorInv
  <2>3. ASSUME NEW request \in Requests, NEW prepared \in Cursor \cup {None},
               ApplyStep(s, request, prepared)
        PROVE  SuccessorInv!(s)'
    BY <2>3, AppliedFacts
  <2>4. ASSUME NEW d \in DeliveryType, SaveStep(s, d)
        PROVE  rows'[s].desired = rows[s].desired
    BY <2>1, <2>4 DEF SaveStep, SaveRow, RowType
  <2>5. CASE AckStep(s)
    BY <2>2, <2>5, AckedFacts, Zenon
  <2> QED
    BY <2>1, <2>2, <2>3, <2>4, <2>5, Zenon DEF SessionStep, Untouched, ReplayStep
<1> QED
  BY HistoryInit, HistoryStep, TypesPreserved, <1>1, <1>2, <1>3, PTL DEF Spec, HistoryBase
=============================================================================
