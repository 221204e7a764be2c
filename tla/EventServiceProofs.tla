------------------------- MODULE EventServiceProofs -------------------------
(***************************************************************************)
(* What a task of the service believes is what is durable, proved for      *)
(* every number of streams and sessions: the values it cached are those of *)
(* the row, the source runs the durable revision, and nothing a client was *)
(* told is ever taken back.                                                *)
(*                                                                         *)
(* StateOK says for every phase of a handler which of this already or      *)
(* still holds.  It is inductive only because leases are exclusive: a step *)
(* of one task touches the row and the source state of its own session.    *)
(***************************************************************************)
EXTENDS SessionHistoryProofs

\* The values restore_session cached are those of the row.
Coherent(st, row) ==
    /\ st.desired = row.desired /\ st.cursor = row.acked /\ st.tip = row.tip
    /\ st.pending = (row.pending # None)

\* What holds of a task, the row and the source state of its session between
\* two awaits of a handler.
StateOK(st, row, src) ==
    /\ st.phase \in {"restoring", "idle", "prepared", "aborting", "failing"} => Coherent(st, row)
    /\ st.phase \in {"idle", "prepared", "aborting", "failing", "acked"} =>
          src.active = row.revision
    /\ st.phase \in {"idle", "acked"} => src.candidate = None
    /\ st.phase = "committed" =>
          st.cursor = row.acked /\ st.tip = row.tip /\ st.request = row.desired
    /\ st.phase = "acked" =>
          /\ st.desired = row.desired /\ st.cursor = row.acked /\ st.tip = row.tip
          /\ row.pending = None /\ row.acked # None

StateInv ==
    \A c \in Stream : streams[c].phase \in Holding =>
        LET s == streams[c].session IN StateOK(streams[c], rows[s], source[s])

\* What the service's types and leases add to the store's history.
ServiceBase == HistoryBase /\ ServiceTypes /\ FenceInv

\* A step of one task for its own session leaves the other tasks' as they were.
LEMMA OwnSessionOnly ==
    ASSUME ServiceBase, StateInv, NEW c \in Stream,
           \A d \in Stream \ {c} : streams'[d] = streams[d],
           \A t \in Session \ {streams[c].session} : rows'[t] = rows[t] /\ source'[t] = source[t],
           streams'[c].phase \in Holding =>
               LET s == streams'[c].session IN StateOK(streams'[c], rows'[s], source'[s])
    PROVE  StateInv'
<1> SUFFICES ASSUME NEW d \in Stream, streams'[d].phase \in Holding
             PROVE  LET s == streams'[d].session IN StateOK(streams'[d], rows'[s], source'[s])
  BY Zenon DEF StateInv
<1>1. CASE d = c
  BY <1>1, Zenon
<1>2. CASE d # c
  <2>1. streams'[d] = streams[d]
    BY <1>2
  <2>2. streams[d].session \in Session /\ streams[d].session # None
    BY <2>1, ServiceAssumption DEF ServiceBase, ServiceTypes, PhaseInv, PhaseOK
  <2>3. streams[d].session # streams[c].session
    BY <1>2, <2>2, Zenon DEF ServiceBase, FenceInv, LeaseExclusive
  <2>4. rows'[streams[d].session] = rows[streams[d].session]
        /\ source'[streams[d].session] = source[streams[d].session]
    BY <2>2, <2>3
  <2>5. StateOK(streams[d], rows[streams[d].session], source[streams[d].session])
    BY <2>1, Zenon DEF StateInv
  <2> QED
    BY <2>1, <2>4, <2>5
<1> QED
  BY <1>1, <1>2

\* What is known of a task that is about to take a step of a handler.
LEMMA HandlerState ==
    ASSUME ServiceBase, StateInv, NEW c \in Stream, streams[c].phase \in Holding
    PROVE  LET s == streams[c].session IN
           /\ s \in Session /\ streams[c] \in StreamType /\ PhaseOK(streams[c])
           /\ rows \in [Session -> RowType] /\ rows[s] \in RowType /\ RowInv(rows[s])
           /\ source \in [Session -> SourceType] /\ source[s] \in SourceType
           /\ streams \in [Stream -> StreamType]
           /\ rows[s].desired # None => rows[s].desired.new = rows[s].revision
           /\ StateOK(streams[c], rows[s], source[s])
<1> DEFINE s == streams[c].session
<1>1. /\ s \in Session /\ streams[c] \in StreamType /\ PhaseOK(streams[c])
      /\ source \in [Session -> SourceType] /\ source[s] \in SourceType
      /\ streams \in [Stream -> StreamType]
  BY DEF ServiceBase, ServiceTypes, PhaseInv, PhaseOK
<1>2. rows \in [Session -> RowType] /\ rows[s] \in RowType /\ RowInv(rows[s])
  BY <1>1, Zenon DEF ServiceBase, HistoryBase, HistoryInv, HistoryType, RowsInv
<1>3. rows[s].desired # None => rows[s].desired.new = rows[s].revision
  BY <1>2 DEF RowInv, ValidatePersistedSession
<1>4. StateOK(streams[c], rows[s], source[s])
  BY Zenon DEF StateInv
<1> QED
  BY <1>1, <1>2, <1>3, <1>4

\* A task that only changes its phase, next to an unchanged row.
LEMMA PhaseStep ==
    ASSUME ServiceBase, StateInv, NEW c \in Stream, NEW phase, GoTo(c, phase),
           UNCHANGED vars,
           \A t \in Session \ {streams[c].session} : source'[t] = source[t],
           phase \in Holding =>
               LET s == streams[c].session IN
               StateOK([streams[c] EXCEPT !.phase = phase], rows[s], source'[s])
    PROVE  StateInv'
<1>1. /\ \A d \in Stream \ {c} : streams'[d] = streams[d]
      /\ streams'[c] = [streams[c] EXCEPT !.phase = phase]
      /\ streams'[c].phase = phase /\ streams'[c].session = streams[c].session
  BY Zenon DEF GoTo, ServiceBase, ServiceTypes, StreamType
<1>2. rows' = rows
  BY DEF vars
<1> QED
  BY <1>1, <1>2, OwnSessionOnly, Zenon

\* A task whose fields are replaced, next to an unchanged row.
LEMMA FieldsStep ==
    ASSUME ServiceBase, StateInv, NEW c \in Stream, NEW new, Become(c, new),
           UNCHANGED vars,
           \A t \in Session \ {streams[c].session} : source'[t] = source[t],
           new.phase \in Holding => StateOK(new, rows[new.session], source'[new.session])
    PROVE  StateInv'
<1>1. /\ \A d \in Stream \ {c} : streams'[d] = streams[d]
      /\ streams'[c] = new
  BY DEF Become, ServiceBase, ServiceTypes
<1>2. rows' = rows
  BY DEF vars
<1> QED
  BY <1>1, <1>2, OwnSessionOnly, Zenon

\* Steps a handler takes by itself keep StateOK: the Hello that fills the
\* caches, the source calls, the commit of a request and its activation.
LEMMA ContinueState ==
    ASSUME ServiceBase, StateInv, NEW c \in Stream, Continue(c)
    PROVE  StateInv'
<1> DEFINE st == streams[c]
           s == streams[c].session
<1>1. ASSUME NEW sequence, NEW resume, RejectHello(c, sequence, resume)
      PROVE  StateInv'
  <2>1. Become(c, [Closed EXCEPT !.phase = "open"]) /\ UNCHANGED vars /\ source' = source
    BY <1>1, Zenon DEF RejectHello
  <2>2. [Closed EXCEPT !.phase = "open"].phase \notin Holding
    BY Zenon DEF Closed, Holding
  <2> QED
    BY <2>1, <2>2, FieldsStep, Zenon
<1>2. ASSUME NEW sequence, NEW resume, AcceptHello(c, sequence, resume)
      PROVE  StateInv'
  <2> DEFINE row == rows[s]
             new == [Closed EXCEPT
                        !.phase = IF row.desired = None THEN "idle" ELSE "restoring",
                        !.session = s,
                        !.confirmed = (HelloPosition(row, sequence, resume) = "Confirmed"),
                        !.desired = row.desired, !.cursor = row.acked, !.tip = row.tip,
                        !.pending = (row.pending # None)]
  <2>1. /\ st.phase = "acquired" /\ Become(c, new) /\ UNCHANGED vars
        /\ IF row.desired = None THEN UNCHANGED source ELSE SourcePrepares(s, row.desired)
    BY <1>2, Zenon DEF AcceptHello
  <2>2. st.phase \in Holding
    BY <2>1, Zenon DEF Holding
  <2>3. s \in Session /\ row \in RowType /\ RowInv(row) /\ source \in [Session -> SourceType]
    BY <2>2, HandlerState, Zenon
  <2>4. source[s] = CleanSource
    BY <2>1 DEF ServiceBase, FenceInv, AcquiredClean
  <2>5. /\ new.phase = IF row.desired = None THEN "idle" ELSE "restoring"
        /\ new.session = s /\ Coherent(new, row)
    BY Zenon DEF Closed, Coherent
  <2>6. \A t \in Session \ {s} : source'[t] = source[t]
    BY <2>1, <2>3, Zenon DEF SourcePrepares
  <2> HIDE DEF new
  <2>7. StateOK(new, row, source'[s])
    <3>1. CASE row.desired = None
      <4>1. row.revision = 0
        BY <2>3, <3>1 DEF RowInv, ValidatePersistedSession, EmptyRow
      <4>2. source'[s].active = 0 /\ source'[s].candidate = None
        BY <2>1, <2>4, <3>1 DEF CleanSource
      <4> QED
        BY <2>5, <3>1, <4>1, <4>2, Zenon DEF StateOK
    <3>2. CASE row.desired # None
      BY <2>5, <3>2, Zenon DEF StateOK
    <3> QED
      BY <3>1, <3>2, Zenon
  <2> QED
    BY <2>1, <2>5, <2>6, <2>7, FieldsStep
<1>3. ASSUME NEW phase, GoTo(c, phase), UNCHANGED vars, phase \notin Holding,
             \A t \in Session \ {s} : source'[t] = source[t]
      PROVE  StateInv'
  BY <1>3, PhaseStep, Zenon
<1>4. ASSUME st.phase \in Holding, SourceDiscards(s) \/ UNCHANGED source
      PROVE  \A t \in Session \ {s} : source'[t] = source[t]
  BY <1>4, HandlerState DEF SourceDiscards
<1>5. ASSUME st.phase \in Holding, GoTo(c, "closing"), UNCHANGED vars,
             SourceDiscards(s) \/ UNCHANGED source
      PROVE  StateInv'
  BY <1>3, <1>4, <1>5, Zenon DEF Holding
<1>6. CASE RestoreSource(c)
  <2>1. /\ st.phase = "restoring" /\ SourceActivates(s, st.desired.new) /\ GoTo(c, "idle")
        /\ UNCHANGED vars
    BY <1>6 DEF RestoreSource
  <2>2. st.phase \in Holding
    BY <2>1, Zenon DEF Holding
  <2>3. /\ s \in Session /\ st \in StreamType /\ source \in [Session -> SourceType]
        /\ rows[s].desired # None => rows[s].desired.new = rows[s].revision
        /\ StateOK(st, rows[s], source[s]) /\ PhaseOK(st)
    BY <2>2, HandlerState, Zenon
  <2>4. Coherent(st, rows[s]) /\ st.desired # None
    BY <2>1, <2>3, NoneIsNoRecord, Zenon DEF StateOK, PhaseOK, Requests
  <2>5. source'[s] = [active |-> rows[s].revision, candidate |-> None]
    BY <2>1, <2>3, <2>4, Zenon DEF SourceActivates, Coherent
  <2>6. \A t \in Session \ {s} : source'[t] = source[t]
    BY <2>1, <2>3 DEF SourceActivates
  <2>7. Coherent([st EXCEPT !.phase = "idle"], rows[s]) /\ [st EXCEPT !.phase = "idle"].phase = "idle"
    BY <2>3, <2>4, Zenon DEF Coherent, StreamType
  <2>8. StateOK([st EXCEPT !.phase = "idle"], rows[s], source'[s])
    BY <2>5, <2>7 DEF StateOK
  <2> QED
    BY <2>1, <2>6, <2>8, PhaseStep
<1>7. CASE CommitDesiredState(c)
  <2>1. /\ st.phase = "prepared" /\ GoTo(c, "committed") /\ source' = source
        /\ \/ ApplyDesiredState(s, st.request, st.prepared)
           \/ ReplayDesiredState(s, st.request, st.prepared)
    BY <1>7 DEF CommitDesiredState
  <2>2. st.phase \in Holding
    BY <2>1, Zenon DEF Holding
  <2>3. /\ s \in Session /\ st \in StreamType /\ streams \in [Stream -> StreamType]
        /\ StateOK(st, rows[s], source[s])
        /\ rows \in [Session -> RowType] /\ rows[s] \in RowType
    BY <2>2, HandlerState, Zenon
  <2>4. /\ \A t \in Session \ {s} : rows'[t] = rows[t]
        /\ rows'[s].acked = rows[s].acked /\ rows'[s].tip = rows[s].tip
        /\ rows'[s].desired = st.request
    <3>1. CASE ApplyDesiredState(s, st.request, st.prepared)
      <4>1. rows' = [rows EXCEPT ![s] = ApplyRow(rows[s], st.request, st.prepared)]
        BY <3>1 DEF ApplyDesiredState
      <4>2. rows'[s] = ApplyRow(rows[s], st.request, st.prepared)
        BY <2>3, <4>1, Zenon
      <4> QED
        BY <2>3, <4>1, <4>2, Zenon DEF ApplyRow, RowType
    <3>2. CASE ReplayDesiredState(s, st.request, st.prepared)
      BY <3>2, Zenon DEF ReplayDesiredState, ApplyReplays
    <3> QED
      BY <2>1, <3>1, <3>2, Zenon
  <2>5. /\ st.cursor = rows[s].acked /\ st.tip = rows[s].tip
    BY <2>1, <2>3 DEF StateOK, Coherent
  <2>6. /\ streams'[c] = [st EXCEPT !.phase = "committed"]
        /\ \A d \in Stream \ {c} : streams'[d] = streams[d]
    BY <2>1, <2>3 DEF GoTo
  <2>7. /\ streams'[c].phase = "committed" /\ streams'[c].session = s
        /\ streams'[c].cursor = st.cursor /\ streams'[c].tip = st.tip
        /\ streams'[c].request = st.request
    BY <2>3, <2>6 DEF StreamType
  <2>8. StateOK(streams'[c], rows'[s], source'[s])
    BY <2>4, <2>5, <2>7, Zenon DEF StateOK
  <2> QED
    BY <2>1, <2>4, <2>6, <2>7, <2>8, OwnSessionOnly, Zenon
<1>8. CASE RefuseDesiredState(c)
  <2> DEFINE new == [st EXCEPT
                        !.phase = IF NoConflict(rows[s], st.request, HasCapacity)
                                  THEN "failing" ELSE "aborting",
                        !.request = None, !.prepared = None]
  <2>1. st.phase = "prepared" /\ Become(c, new) /\ UNCHANGED vars /\ source' = source
    BY <1>8 DEF RefuseDesiredState, CommitRefused
  <2>2. st.phase \in Holding
    BY <2>1, Zenon DEF Holding
  <2>3. st \in StreamType /\ StateOK(st, rows[s], source[s])
    BY <2>2, HandlerState, Zenon
  <2>4. Coherent(st, rows[s]) /\ source[s].active = rows[s].revision
    BY <2>1, <2>3, Zenon DEF StateOK
  <2>5. new.phase \in {"failing", "aborting"} /\ new.session = s /\ Coherent(new, rows[s])
    BY <2>3, <2>4, Zenon DEF Coherent, StreamType
  <2> HIDE DEF new
  <2>6. StateOK(new, rows[s], source'[s])
    BY <2>1, <2>4, <2>5, Zenon DEF StateOK
  <2> QED
    BY <2>1, <2>5, <2>6, FieldsStep
<1>9. CASE AbortCandidate(c)
  <2>1. /\ st.phase \in {"aborting", "failing"} /\ SourceDiscards(s) /\ UNCHANGED vars
        /\ GoTo(c, IF st.phase = "aborting" THEN "idle" ELSE "closing")
    BY <1>9, Zenon DEF AbortCandidate
  <2>2. st.phase \in Holding
    BY <2>1 DEF Holding
  <2>3. CASE st.phase = "failing"
    BY <1>5, <2>1, <2>2, <2>3
  <2>4. CASE st.phase = "aborting"
    <3>1. /\ s \in Session /\ st \in StreamType /\ StateOK(st, rows[s], source[s])
          /\ source \in [Session -> SourceType] /\ source[s] \in SourceType
      BY <2>2, HandlerState, Zenon
    <3>2. Coherent(st, rows[s]) /\ source[s].active = rows[s].revision
      BY <2>4, <3>1, Zenon DEF StateOK
    <3>3. source'[s].active = rows[s].revision /\ source'[s].candidate = None
      BY <2>1, <3>1, <3>2, Zenon DEF SourceDiscards, SourceType
    <3>4. /\ Coherent([st EXCEPT !.phase = "idle"], rows[s])
          /\ [st EXCEPT !.phase = "idle"].phase = "idle"
      BY <3>1, <3>2, Zenon DEF Coherent, StreamType
    <3>5. StateOK([st EXCEPT !.phase = "idle"], rows[s], source'[s])
      BY <3>3, <3>4, Zenon DEF StateOK
    <3>6. GoTo(c, "idle")
      BY <2>1, <2>4, Zenon
    <3> QED
      BY <1>4, <2>1, <2>2, <3>5, <3>6, PhaseStep
  <2> QED
    BY <2>1, <2>3, <2>4, Zenon
<1>10. CASE ActivateDesiredState(c)
  <2> DEFINE new == [st EXCEPT
                        !.phase = "idle", !.request = None, !.prepared = None,
                        !.desired = st.request,
                        !.pending = (rows[s].pending # None),
                        !.demanded = FALSE]
  <2>1. /\ st.phase = "committed" /\ SourceActivates(s, st.request.new) /\ Become(c, new)
        /\ UNCHANGED vars
    BY <1>10 DEF ActivateDesiredState
  <2>2. st.phase \in Holding
    BY <2>1, Zenon DEF Holding
  <2>3. /\ s \in Session /\ st \in StreamType /\ StateOK(st, rows[s], source[s])
        /\ PhaseOK(st) /\ source \in [Session -> SourceType]
        /\ rows[s].desired # None => rows[s].desired.new = rows[s].revision
    BY <2>2, HandlerState, Zenon
  <2>4. /\ st.cursor = rows[s].acked /\ st.tip = rows[s].tip /\ st.request = rows[s].desired
        /\ st.request # None
    BY <2>1, <2>3, NoneIsNoRecord, Zenon DEF StateOK, PhaseOK, Requests
  <2>5. source'[s].active = rows[s].revision /\ source'[s].candidate = None
    BY <2>1, <2>3, <2>4, Zenon DEF SourceActivates
  <2>6. new.phase = "idle" /\ new.session = s /\ Coherent(new, rows[s])
    BY <2>3, <2>4, Zenon DEF Coherent, StreamType
  <2>7. \A t \in Session \ {s} : source'[t] = source[t]
    BY <2>1, <2>3, Zenon DEF SourceActivates
  <2> HIDE DEF new
  <2>8. StateOK(new, rows[s], source'[s])
    BY <2>5, <2>6, Zenon DEF StateOK
  <2> QED
    BY <2>1, <2>6, <2>7, <2>8, FieldsStep
<1>11. CASE ConfirmAcknowledgement(c)
  <2> DEFINE new == [st EXCEPT !.phase = "idle", !.pending = FALSE, !.demanded = FALSE]
  <2>1. st.phase = "acked" /\ Become(c, new) /\ UNCHANGED vars /\ source' = source
    BY <1>11 DEF ConfirmAcknowledgement
  <2>2. st.phase \in Holding
    BY <2>1, Zenon DEF Holding
  <2>3. st \in StreamType /\ StateOK(st, rows[s], source[s])
    BY <2>2, HandlerState
  <2>4. /\ st.desired = rows[s].desired /\ st.cursor = rows[s].acked /\ st.tip = rows[s].tip
        /\ rows[s].pending = None
        /\ source[s].active = rows[s].revision /\ source[s].candidate = None
    BY <2>1, <2>3, Zenon DEF StateOK
  <2>5. new.phase = "idle" /\ new.session = s /\ Coherent(new, rows[s])
    BY <2>3, <2>4, Zenon DEF Coherent, StreamType
  <2> HIDE DEF new
  <2>6. StateOK(new, rows[s], source'[s])
    BY <2>1, <2>4, <2>5 DEF StateOK
  <2> QED
    BY <2>1, <2>5, <2>6, FieldsStep, Zenon
<1>12. CASE RestoreFails(c) \/ ActivateFails(c) \/ AbortFails(c) \/ SourceAckFails(c)
  <2>1. /\ st.phase \in {"restoring", "committed", "aborting", "failing", "acked"}
        /\ GoTo(c, "closing") /\ UNCHANGED vars
        /\ SourceDiscards(s) \/ UNCHANGED source
    BY <1>12, Zenon DEF RestoreFails, ActivateFails, AbortFails, SourceAckFails
  <2>2. st.phase \in Holding
    BY <2>1, Zenon DEF Holding
  <2> QED
    BY <1>5, <2>1, <2>2
<1>13. CASE ReleaseSession(c) \/ ReleaseFails(c)
  <2>1. /\ Become(c, Closed) /\ UNCHANGED vars
        /\ source' = source \/ source' = [source EXCEPT ![s] = CleanSource]
    BY <1>13, Zenon DEF ReleaseSession, ReleaseFails
  <2>2. \A t \in Session \ {s} : source'[t] = source[t]
    BY <2>1, Zenon DEF ServiceBase, ServiceTypes
  <2>3. Closed.phase \notin Holding
    BY DEF Closed, Holding
  <2> QED
    BY <2>1, <2>2, <2>3, FieldsStep
<1> QED
  BY <1>1, <1>2, <1>6, <1>7, <1>8, <1>9, <1>10, <1>11, <1>12, <1>13, Zenon DEF Continue

\* Between two handlers a task knows its row and the source follows it.
LEMMA IdleState ==
    ASSUME ServiceBase, StateInv, NEW c \in Stream, Idle(c)
    PROVE  LET s == streams[c].session IN
           /\ s \in Session /\ streams[c] \in StreamType /\ streams[c].phase = "idle"
           /\ rows \in [Session -> RowType] /\ rows[s] \in RowType
           /\ source \in [Session -> SourceType] /\ source[s] \in SourceType
           /\ Coherent(streams[c], rows[s])
           /\ source[s].active = rows[s].revision /\ source[s].candidate = None
<1>1. streams[c].phase = "idle" /\ streams[c].phase \in Holding
  BY Zenon DEF Idle, Holding
<1>2. StateOK(streams[c], rows[streams[c].session], source[streams[c].session])
  BY <1>1, HandlerState, Zenon
<1> QED
  BY <1>1, <1>2, HandlerState, Zenon DEF StateOK

\* What a task saves for its source is a delivery.
LEMMA SavedDelivery ==
    ASSUME ServiceBase, StateInv, NEW c \in Stream, NEW ahead \in {0, 1},
           NEW position \in Positions, NEW payload \in Payloads, NEW neutral \in BOOLEAN,
           PersistAndSend(c, Produced(c, ahead, position, payload, neutral))
    PROVE  LET d == Produced(c, ahead, position, payload, neutral)
               s == streams[c].session
           IN  /\ d \in DeliveryType /\ d # None
               /\ s \in Session /\ rows'[s].pending = d
<1> DEFINE s == streams[c].session
           desired == streams[c].desired
           n == SequenceOf(streams[c].cursor) + ahead
           d == OfferedDelivery(desired.new, n, Token(n), position, payload, neutral)
<1>1. Idle(c) /\ SaveAccepts(rows[s], desired, d)
      /\ rows' = [rows EXCEPT ![s] = SaveRow(rows[s], d)]
  BY Zenon DEF PersistAndSend, Awaits, Serving, SavePending, Produced
<1>2. s \in Session /\ rows[s] \in RowType /\ rows \in [Session -> RowType]
  BY <1>1, IdleState, Zenon
<1>3. SaveReads(rows[s], desired, d)
  BY <1>1, Zenon DEF SaveAccepts
<1>4. desired = rows[s].desired /\ rows[s].desired # None
  BY <1>3, Zenon DEF SaveReads
<1> HIDE DEF n
<1>5. d \in DeliveryType
  BY <1>2, <1>3, <1>4, OfferedDeliveryType, Zenon
<1> HIDE DEF d
<1>6. rows'[s].pending = d
  BY <1>1, <1>2 DEF SaveRow, RowType
<1>7. d = Produced(c, ahead, position, payload, neutral)
  BY Zenon DEF Produced, d, n
<1> QED
  BY <1>2, <1>5, <1>6, <1>7, NoneIsNoRecord

\* Steps that the client or the end of the connection starts keep StateOK: the
\* lease, the staging of a request, the acknowledgement, and the delivery that
\* is persisted before it is sent.
LEMMA ReactState ==
    ASSUME ServiceBase, StateInv, NEW c \in Stream, React(c)
    PROVE  StateInv'
<1> DEFINE st == streams[c]
           s == streams[c].session
<1>1. CASE Connect(c)
  BY <1>1, PhaseStep, Zenon DEF Connect, Holding
<1>2. ASSUME NEW t \in Session, AcquireLease(c, t)
      PROVE  StateInv'
  <2> DEFINE new == [Closed EXCEPT !.phase = "acquired", !.session = t]
  <2>1. Become(c, new) /\ UNCHANGED vars /\ source' = source
    BY <1>2 DEF AcquireLease
  <2>2. new.phase = "acquired"
    BY Zenon DEF Closed
  <2> HIDE DEF new
  <2>3. StateOK(new, rows[new.session], source'[new.session])
    BY <2>2, Zenon DEF StateOK
  <2> QED
    BY <2>1, <2>3, FieldsStep, Zenon
<1>3. ASSUME NEW request \in Requests, Idle(c), SourcePrepares(s, request)
      PROVE  /\ \A t \in Session \ {s} : source'[t] = source[t]
             /\ source'[s].active = rows[s].revision
  BY <1>3, IdleState, Zenon DEF SourcePrepares, SourceType
<1>4. ASSUME NEW request \in Requests, PrepareFails(c, request)
      PROVE  StateInv'
  <2>1. Idle(c) /\ SourcePrepares(s, request) /\ GoTo(c, "aborting") /\ UNCHANGED vars
    BY <1>4, Zenon DEF PrepareFails, Serving
  <2>2. st \in StreamType /\ Coherent(st, rows[s])
    BY <2>1, IdleState, Zenon
  <2>3. /\ Coherent([st EXCEPT !.phase = "aborting"], rows[s])
        /\ [st EXCEPT !.phase = "aborting"].phase = "aborting"
    BY <2>2 DEF Coherent, StreamType
  <2>4. StateOK([st EXCEPT !.phase = "aborting"], rows[s], source'[s])
    BY <1>3, <2>1, <2>3, Zenon DEF StateOK
  <2> QED
    BY <1>3, <2>1, <2>4, PhaseStep
<1>5. ASSUME NEW request \in Requests, NEW position, PrepareDesiredState(c, request, position)
      PROVE  StateInv'
  <2> DEFINE new == [st EXCEPT !.phase = "prepared", !.request = request,
                               !.prepared = IF position = None THEN None
                                            ELSE CursorAt(request.new, 0, position)]
  <2>1. Idle(c) /\ SourcePrepares(s, request) /\ Become(c, new) /\ UNCHANGED vars
    BY <1>5, Zenon DEF PrepareDesiredState, Serving
  <2>2. st \in StreamType /\ Coherent(st, rows[s])
    BY <2>1, IdleState, Zenon
  <2>3. Coherent(new, rows[s]) /\ new.phase = "prepared" /\ new.session = s
    BY <2>2, Zenon DEF Coherent, StreamType
  <2> HIDE DEF new
  <2>4. StateOK(new, rows[s], source'[s])
    BY <1>3, <2>1, <2>3 DEF StateOK
  <2> QED
    BY <1>3, <2>1, <2>3, <2>4, FieldsStep
<1>6. ASSUME NEW ack \in Acknowledgements, CommitAcknowledgement(c, ack)
      PROVE  StateInv'
  <2> DEFINE new == [st EXCEPT !.phase = "acked", !.cursor = rows'[s].acked, !.tip = rows'[s].tip]
  <2>1. /\ Idle(c) /\ Become(c, new) /\ source' = source
        /\ Acknowledge(s, ack) \/ (AckRepeats(rows[s], ack) /\ UNCHANGED vars)
    BY <1>6, Zenon DEF CommitAcknowledgement, Serving
  <2>2. /\ s \in Session /\ st \in StreamType /\ Coherent(st, rows[s])
        /\ rows \in [Session -> RowType] /\ rows[s] \in RowType
        /\ source[s].active = rows[s].revision /\ source[s].candidate = None
    BY <2>1, IdleState, Zenon
  <2>3. /\ \A t \in Session \ {s} : rows'[t] = rows[t]
        /\ rows'[s].desired = rows[s].desired /\ rows'[s].revision = rows[s].revision
        /\ rows'[s].pending = None /\ rows'[s].acked # None
    <3>1. CASE Acknowledge(s, ack)
      <4>1. rows' = [rows EXCEPT ![s] = AckRow(rows[s])] /\ rows[s].pending # None
        BY <3>1, Zenon DEF Acknowledge, AckAccepts
      <4>2. rows'[s] = AckRow(rows[s]) /\ rows[s].pending.cursor # None
        BY <2>2, <4>1, NoneIsNoRecord DEF RowType, DeliveryType
      <4> QED
        BY <2>2, <4>1, <4>2, Zenon DEF AckRow, RowType
    <3>2. CASE AckRepeats(rows[s], ack) /\ UNCHANGED vars
      BY <3>2, Zenon DEF AckRepeats, vars
    <3> QED
      BY <2>1, <3>1, <3>2
  <2>4. /\ new.phase = "acked" /\ new.session = s /\ new.desired = rows'[s].desired
        /\ new.cursor = rows'[s].acked /\ new.tip = rows'[s].tip
    BY <2>2, <2>3, Zenon DEF Coherent, StreamType
  <2> HIDE DEF new
  <2>5. StateOK(new, rows'[s], source'[s])
    BY <2>1, <2>2, <2>3, <2>4, Zenon DEF StateOK
  <2>6. streams'[c] = new /\ \A d \in Stream \ {c} : streams'[d] = streams[d]
    BY <2>1, Zenon DEF Become, ServiceBase, ServiceTypes
  <2> QED
    BY <2>1, <2>3, <2>4, <2>5, <2>6, OwnSessionOnly, Zenon
<1>7. ASSUME NEW new, Idle(c), Become(c, new), UNCHANGED vars, source' = source,
             Coherent(new, rows[s]), new.phase = "idle", new.session = s
      PROVE  StateInv'
  <2>1. StateOK(new, rows[s], source'[s])
    BY <1>7, IdleState, Zenon DEF StateOK
  <2> QED
    BY <1>7, <2>1, FieldsStep
<1>8. CASE Demand(c)
  <2> DEFINE new == [st EXCEPT !.pending = FALSE, !.demanded = TRUE]
  <2>1. Idle(c) /\ UNCHANGED vars /\ source' = source
    BY <1>8, Zenon DEF Demand, Serving
  <2>2. st \in StreamType /\ Coherent(st, rows[s]) /\ st.phase = "idle"
    BY <2>1, IdleState, Zenon
  <2>3. CASE streams' = streams
    BY <2>1, <2>3, Zenon DEF StateInv, vars
  <2>4. CASE Become(c, new) /\ (IF st.pending THEN rows[s].pending ELSE None) = None
    <3>1. rows[s].pending = None
      BY <2>2, <2>4, Zenon DEF Coherent
    <3>2. Coherent(new, rows[s]) /\ new.phase = "idle" /\ new.session = s
      BY <2>2, <3>1, Zenon DEF Coherent, StreamType
    <3> QED
      BY <1>7, <2>1, <2>4, <3>2, Zenon
  <2> QED
    BY <1>8, <2>3, <2>4, Zenon DEF Demand
<1>9. CASE FetchFails(c)
  <2> DEFINE new == [st EXCEPT !.demanded = FALSE]
  <2>1. Idle(c) /\ UNCHANGED vars /\ source' = source /\ Become(c, new)
    BY <1>9 DEF FetchFails, Awaits, Serving
  <2>2. st \in StreamType /\ Coherent(st, rows[s]) /\ st.phase = "idle"
    BY <2>1, IdleState, Zenon
  <2>3. Coherent(new, rows[s]) /\ new.phase = "idle" /\ new.session = s
    BY <2>2, Zenon DEF Coherent, StreamType
  <2> QED
    BY <1>7, <2>1, <2>3, Zenon
<1>10. ASSUME NEW ahead \in {0, 1}, NEW position \in Positions, NEW payload \in Payloads,
              NEW neutral \in BOOLEAN,
              PersistAndSend(c, Produced(c, ahead, position, payload, neutral))
       PROVE  StateInv'
  <2> DEFINE d == Produced(c, ahead, position, payload, neutral)
             new == [st EXCEPT !.pending = TRUE, !.demanded = FALSE]
  <2>1. /\ Idle(c) /\ Become(c, new) /\ source' = source
        /\ rows' = [rows EXCEPT ![s] = SaveRow(rows[s], d)]
    BY <1>10, Zenon DEF PersistAndSend, Awaits, Serving, SavePending
  <2>2. /\ s \in Session /\ st \in StreamType /\ Coherent(st, rows[s]) /\ st.phase = "idle"
        /\ rows \in [Session -> RowType] /\ rows[s] \in RowType
        /\ source[s].active = rows[s].revision /\ source[s].candidate = None
    BY <2>1, IdleState, Zenon
  <2>3. d # None
    BY <1>10, SavedDelivery, Zenon
  <2> HIDE DEF d
  <2>4. /\ \A t \in Session \ {s} : rows'[t] = rows[t]
        /\ rows'[s] = SaveRow(rows[s], d)
    BY <2>1, <2>2, Zenon
  <2>5. rows'[s].revision = rows[s].revision
    BY <2>2, <2>4, Zenon DEF SaveRow, RowType
  <2>6. Coherent(new, rows'[s]) /\ new.phase = "idle" /\ new.session = s
    BY <2>2, <2>3, <2>4, Zenon DEF SaveRow, RowType, Coherent, StreamType
  <2> HIDE DEF new
  <2>7. StateOK(new, rows'[s], source'[s])
    BY <2>1, <2>2, <2>5, <2>6, Zenon DEF StateOK
  <2>8. streams'[c] = new /\ \A e \in Stream \ {c} : streams'[e] = streams[e]
    BY <2>1 DEF Become, ServiceBase, ServiceTypes
  <2> QED
    BY <2>1, <2>4, <2>6, <2>7, <2>8, OwnSessionOnly
<1>11. ASSUME GoTo(c, "closing"), UNCHANGED vars, source' = source
       PROVE  StateInv'
  BY <1>11, PhaseStep, Zenon DEF Holding
<1>12. ASSUME NEW ack, RefuseAcknowledgement(c, ack)
       PROVE  StateInv'
  BY <1>11, <1>12, Zenon DEF RefuseAcknowledgement
<1>13. ASSUME NEW d, RefuseDelivery(c, d)
       PROVE  StateInv'
  BY <1>11, <1>13 DEF RefuseDelivery
<1>14. CASE Disconnect(c) \/ BreakOnShutdown(c)
  BY <1>11, <1>14 DEF Disconnect, BreakOnShutdown
<1> QED
  BY <1>1, <1>2, <1>4, <1>5, <1>6, <1>8, <1>9, <1>10, <1>12, <1>13, <1>14, Zenon DEF React

LEMMA StateStep ==
    ASSUME ServiceBase, StateInv, [ServiceNext]_serviceVars
    PROVE  StateInv'
<1>1. CASE UNCHANGED serviceVars \/ Shutdown
  BY <1>1, Zenon DEF serviceVars, vars, Shutdown, StateInv
<1>2. CASE Restart
  BY <1>2 DEF Restart, Closed, Holding, StateInv
<1> QED
  BY <1>1, <1>2, ContinueState, ReactState, Zenon DEF ServiceNext

\* The store's history, the types and the fence hold whatever the service does.
LEMMA ServiceBaseStep ==
    ASSUME ServiceBase, [ServiceNext]_serviceVars
    PROVE  ServiceBase' /\ [Next]_vars
<1>1. [Next]_vars /\ ServiceTypes'
  BY BaseStep DEF ServiceBase, HistoryBase, HistoryInv, HistoryType
<1>2. HistoryBase'
  BY <1>1, StoreTypesStep DEF ServiceBase, HistoryBase
<1>3. FenceInv'
  BY <1>1, FenceStep DEF ServiceBase
<1> QED
  BY <1>1, <1>2, <1>3 DEF ServiceBase

LEMMA ServiceBaseInit == ServiceInit => ServiceBase /\ StateInv
<1> SUFFICES ASSUME ServiceInit PROVE ServiceBase /\ StateInv
  BY Zenon
<1>1. FenceInv /\ StateInv
  BY Zenon DEF ServiceInit, Closed, Holding, FenceInv, LeaseExclusive, SourceFenced, AcquiredClean,
         StateInv
<1>2. HistoryInv
  BY HistoryInit, Zenon DEF ServiceInit
<1>3. TypeOK
  BY <1>2, SMTT(30) DEF ServiceInit, Init, HistoryInv, HistoryType, RowsInv, TypeOK
<1> QED
  BY <1>1, <1>2, <1>3, TypesInit DEF ServiceBase, HistoryBase

LEMMA ServiceBaseAlways == ServiceSpec => []ServiceBase
  BY ServiceBaseInit, ServiceBaseStep, PTL DEF ServiceSpec

LEMMA StateAlways == ServiceSpec => []StateInv
  BY ServiceBaseInit, ServiceBaseAlways, StateStep, PTL DEF ServiceSpec

\* For every number of streams and sessions: between two handlers the desired
\* state, cursor, reorg anchor and outbox flag a task holds are those of the
\* row, so it asks the source for the successor of what is durable.
THEOREM CachesAreCoherent == ServiceSpec => []CachesCoherent
<1>1. ServiceBase /\ StateInv => CachesCoherent
  BY IdleState, Zenon DEF CachesCoherent, Coherent
<1> QED
  BY <1>1, ServiceBaseAlways, StateAlways, PTL

\* Between two handlers the source runs the durable revision and holds no
\* candidate: refused, failed and aborted requests leave nothing behind.
THEOREM SourceMatchesStore == ServiceSpec => []ActiveMatchesDurable
<1>1. ASSUME ServiceBase, StateInv, NEW c \in Stream, Idle(c)
      PROVE  LET s == streams[c].session IN
             source[s] = [active |-> rows[s].revision, candidate |-> None]
  BY <1>1, IdleState DEF SourceType
<1>2. ServiceBase /\ StateInv => ActiveMatchesDurable
  BY <1>1, Zenon DEF ActiveMatchesDurable
<1> QED
  BY <1>2, ServiceBaseAlways, StateAlways, PTL

(***************************************************************************)
(* What clients were told                                                  *)
(***************************************************************************)
ToldType == told \in [Session -> [rev : Nat, seq : Nat, sent : DeliveryType \cup {None}]]

ToldInv == ToldType /\ ExactReplay /\ RepliesDurable

\* What no step of the store takes back: the revision, the acknowledged
\* sequence, and an item that is in the outbox or in the log.
LEMMA NothingTakenBack ==
    ASSUME HistoryBase, [Next]_vars, NEW s \in Session, rows'[s] \in RowType
    PROVE  /\ rows[s].revision <= rows'[s].revision
           /\ AckedSequence(rows[s]) <= AckedSequence(rows'[s])
           /\ \A d \in DeliveryType :
                 \/ d.seq <= Len(log[s]) /\ log[s][d.seq] = d
                 \/ rows[s].pending = d
                 => \/ d.seq <= Len(log'[s]) /\ log'[s][d.seq] = d
                    \/ rows'[s].pending = d
<1>1. SessionStep(s)
  BY SessionSteps, Zenon
<1>2. /\ rows[s] \in RowType /\ log[s] \in Seq(DeliveryType) /\ SequencesInv!(s)
      /\ GaplessSequence!(s) /\ AckedSequence(rows[s]) \in Nat
      /\ NextSequence(rows[s]) = Len(log[s]) + 1
  BY SequenceType, Zenon
  DEF HistoryBase, HistoryInv, HistoryType, RowsInv, SequencesInv, GaplessSequence
<1>3. rows[s].revision \in Nat
  BY <1>2, BoundAssumption DEF RowType, Revisions
<1>4. CASE Untouched(s) \/ ReplayStep(s)
  BY <1>2, <1>3, <1>4 DEF Untouched, ReplayStep
<1>5. ASSUME NEW request \in Requests, NEW prepared \in Cursor \cup {None},
             ApplyStep(s, request, prepared)
      PROVE  /\ rows'[s].acked = rows[s].acked /\ rows[s].pending = None
             /\ log'[s] = log[s] /\ rows[s].revision <= rows'[s].revision
  <2>1. rows'[s] = ApplyRow(rows[s], request, prepared) /\ log'[s] = log[s]
    BY <1>5 DEF ApplyStep
  <2>2. NoConflict(rows[s], request, HasCapacity)
    BY <1>5, Zenon DEF ApplyStep, ApplyAccepts
  <2> QED
    BY <1>2, <1>3, <2>1, <2>2 DEF NoConflict, ApplyRow, RowType, Requests, Revisions
<1>6. ASSUME NEW d \in DeliveryType, SaveStep(s, d)
      PROVE  /\ rows'[s].acked = rows[s].acked /\ rows[s].pending = None
             /\ log'[s] = log[s] /\ rows[s].revision <= rows'[s].revision
  <2>1. rows'[s] = SaveRow(rows[s], d) /\ log'[s] = log[s] /\ rows[s].pending = None
    BY <1>6, Zenon DEF SaveStep, SaveAccepts
  <2> QED
    BY <1>2, <1>3, <2>1 DEF SaveRow, RowType
<1>7. CASE /\ rows'[s].acked = rows[s].acked /\ rows[s].pending = None
           /\ log'[s] = log[s] /\ rows[s].revision <= rows'[s].revision
  BY <1>2, <1>7, NoneIsNoRecord DEF AckedSequence
<1>8. CASE AckStep(s)
  <2> DEFINE d == rows[s].pending
  <2>1. /\ rows'[s] = AckRow(rows[s]) /\ log'[s] = Append(log[s], d) /\ d # None
    BY <1>8, Zenon DEF AckStep, AckAccepts
  <2>2. d \in DeliveryType /\ d.seq = Len(log[s]) + 1
    BY <1>2, <2>1, Zenon DEF RowType
  <2>3. rows'[s].revision = rows[s].revision /\ rows'[s].acked = d.cursor
    BY <1>2, <2>1 DEF AckRow, RowType
  <2>4. d.cursor.seq = d.seq /\ d.cursor # None
    BY <1>8, AckedFacts, Zenon DEF AcknowledgedItem
  <2> HIDE DEF d
  <2>5. AckedSequence(rows'[s]) = Len(log[s]) + 1
    BY <2>2, <2>3, <2>4, Zenon DEF AckedSequence
  <2>6. \A e \in DeliveryType : e.seq \in Nat \ {0}
    BY DEF DeliveryType
  <2>7. \A e \in DeliveryType :
            \/ e.seq <= Len(log[s]) /\ log[s][e.seq] = e
            \/ rows[s].pending = e
            => e.seq <= Len(log'[s]) /\ log'[s][e.seq] = e
    BY <1>2, <2>1, <2>2, <2>6 DEF d
  <2> QED
    BY <1>2, <1>3, <2>3, <2>5, <2>7 DEF NextSequence
<1> QED
  BY <1>1, <1>4, <1>5, <1>6, <1>7, <1>8, Zenon DEF SessionStep

\* A client is told what is durable when it is told: the item in the outbox,
\* the revision of the row, the acknowledged sequence.
ToldWhatIsDurable ==
    \/ told' = told
    \/ \E s \in Session :
          \/ \E d \in DeliveryType :
                told' = [told EXCEPT ![s].sent = d] /\ rows'[s].pending = d
          \/ told' = [told EXCEPT ![s].rev = rows'[s].revision]
          \/ told' = [told EXCEPT ![s].seq = AckedSequence(rows'[s])]

LEMMA RepliesAreRead ==
    ASSUME ServiceBase, StateInv, [ServiceNext]_serviceVars
    PROVE  ToldWhatIsDurable
<1>1. ASSUME NEW c \in Stream, Demand(c)
      PROVE  ToldWhatIsDurable
  <2> DEFINE s == streams[c].session
             item == IF streams[c].pending THEN rows[s].pending ELSE None
  <2>1. Idle(c) /\ rows' = rows
    BY <1>1, Zenon DEF Demand, Serving, vars
  <2>2. s \in Session /\ rows[s] \in RowType
    BY <2>1, IdleState, Zenon
  <2>3. CASE item = None
    BY <1>1, <2>3 DEF Demand, ToldWhatIsDurable
  <2>4. CASE item # None
    <3>1. item = rows'[s].pending /\ item \in DeliveryType
      BY <2>1, <2>2, <2>4, Zenon DEF RowType
    <3>2. told' = [told EXCEPT ![s].sent = item]
      BY <1>1, <2>4 DEF Demand
    <3> QED
      BY <2>2, <3>1, <3>2, Zenon DEF ToldWhatIsDurable
  <2> QED
    BY <2>3, <2>4
<1>2. ASSUME NEW c \in Stream, NEW ahead \in {0, 1}, NEW position \in Positions,
             NEW payload \in Payloads, NEW neutral \in BOOLEAN,
             PersistAndSend(c, Produced(c, ahead, position, payload, neutral))
      PROVE  ToldWhatIsDurable
  <2> DEFINE d == Produced(c, ahead, position, payload, neutral)
             s == streams[c].session
  <2>1. told' = [told EXCEPT ![s].sent = d]
    BY <1>2 DEF PersistAndSend
  <2>2. d \in DeliveryType /\ s \in Session /\ rows'[s].pending = d
    BY <1>2, SavedDelivery, Zenon
  <2> QED
    BY <2>1, <2>2, Zenon DEF ToldWhatIsDurable
<1>3. ASSUME NEW c \in Stream, ActivateDesiredState(c)
      PROVE  ToldWhatIsDurable
  <2> DEFINE st == streams[c]
             s == streams[c].session
  <2>1. /\ st.phase = "committed" /\ rows' = rows
        /\ told' = [told EXCEPT ![s].rev = st.request.new]
    BY <1>3 DEF ActivateDesiredState, vars
  <2>2. st.phase \in Holding
    BY <2>1, Zenon DEF Holding
  <2>3. /\ s \in Session /\ StateOK(st, rows[s], source[s]) /\ PhaseOK(st)
        /\ rows[s].desired # None => rows[s].desired.new = rows[s].revision
    BY <2>2, HandlerState, Zenon
  <2>4. st.request = rows[s].desired /\ st.request # None
    BY <2>1, <2>3, NoneIsNoRecord DEF StateOK, PhaseOK
  <2>5. told' = [told EXCEPT ![s].rev = rows'[s].revision]
    BY <2>1, <2>3, <2>4, Zenon
  <2> QED
    BY <2>3, <2>5, Zenon DEF ToldWhatIsDurable
<1>4. ASSUME NEW c \in Stream, ConfirmAcknowledgement(c)
      PROVE  ToldWhatIsDurable
  <2> DEFINE st == streams[c]
             s == streams[c].session
  <2>1. /\ st.phase = "acked" /\ rows' = rows
        /\ told' = [told EXCEPT ![s].seq = st.cursor.seq]
    BY <1>4 DEF ConfirmAcknowledgement, vars
  <2>2. st.phase \in Holding
    BY <2>1, Zenon DEF Holding
  <2>3. s \in Session /\ StateOK(st, rows[s], source[s])
    BY <2>2, HandlerState, Zenon
  <2>4. st.cursor = rows[s].acked /\ rows[s].acked # None
    BY <2>1, <2>3, Zenon DEF StateOK
  <2>5. told' = [told EXCEPT ![s].seq = AckedSequence(rows'[s])]
    BY <2>1, <2>4 DEF AckedSequence
  <2> QED
    BY <2>3, <2>5, Zenon DEF ToldWhatIsDurable
<1>5. ASSUME told' = told PROVE ToldWhatIsDurable
  BY <1>5 DEF ToldWhatIsDurable
<1>6. ASSUME NEW c \in Stream, Continue(c)
      PROVE  ToldWhatIsDurable
  BY <1>3, <1>4, <1>5, <1>6, ZenonT(30)
  DEF Continue, RejectHello, AcceptHello, RestoreSource, RestoreFails, CommitDesiredState,
      RefuseDesiredState, AbortCandidate, AbortFails, ActivateFails, SourceAckFails,
      ReleaseSession, ReleaseFails
<1>7. ASSUME NEW c \in Stream, React(c)
      PROVE  ToldWhatIsDurable
  <2>1. ASSUME NEW d, RefuseDelivery(c, d) PROVE told' = told
    BY <2>1 DEF RefuseDelivery
  <2>2. ASSUME NEW ack, RefuseAcknowledgement(c, ack) \/ CommitAcknowledgement(c, ack)
        PROVE  told' = told
    BY <2>2 DEF RefuseAcknowledgement, CommitAcknowledgement
  <2> QED
    BY <1>1, <1>2, <1>5, <1>7, <2>1, <2>2, ZenonT(30)
    DEF React, Connect, AcquireLease, PrepareFails, PrepareDesiredState, FetchFails,
        Disconnect, BreakOnShutdown
<1> QED
  BY <1>5, <1>6, <1>7, Zenon DEF ServiceNext, Shutdown, Restart, serviceVars

\* What was told of one session before the step still holds after it.
LEMMA StillTold ==
    ASSUME ServiceBase, ServiceBase', ToldInv, [Next]_vars, NEW s \in Session
    PROVE  /\ told[s] \in [rev : Nat, seq : Nat, sent : DeliveryType \cup {None}]
           /\ told[s].rev <= rows'[s].revision /\ told[s].seq <= AckedSequence(rows'[s])
           /\ told[s].sent # None =>
                 \/ /\ told[s].sent.seq <= Len(log'[s])
                    /\ log'[s][told[s].sent.seq] = told[s].sent
                 \/ rows'[s].pending = told[s].sent
           /\ rows'[s].revision \in Nat /\ AckedSequence(rows'[s]) \in Nat
<1>1. told[s] \in [rev : Nat, seq : Nat, sent : DeliveryType \cup {None}]
  BY Zenon DEF ToldInv, ToldType
<1>2. rows[s] \in RowType /\ rows'[s] \in RowType
  BY Zenon DEF ServiceBase, HistoryBase, HistoryInv, HistoryType, RowsInv
<1>3. /\ rows[s].revision \in Nat /\ rows'[s].revision \in Nat
      /\ AckedSequence(rows[s]) \in Nat /\ AckedSequence(rows'[s]) \in Nat
  BY <1>2, BoundAssumption DEF RowType, Revisions, AckedSequence, Cursor
<1>4. /\ rows[s].revision <= rows'[s].revision
      /\ AckedSequence(rows[s]) <= AckedSequence(rows'[s])
  BY <1>2, NothingTakenBack DEF ServiceBase
<1>5. told[s].rev <= rows[s].revision /\ told[s].seq <= AckedSequence(rows[s])
  BY DEF ToldInv, RepliesDurable
<1>6. ASSUME told[s].sent # None
      PROVE  \/ /\ told[s].sent.seq <= Len(log'[s])
                /\ log'[s][told[s].sent.seq] = told[s].sent
             \/ rows'[s].pending = told[s].sent
  <2>1. told[s].sent \in DeliveryType
    BY <1>1, <1>6
  <2>2. \/ /\ told[s].sent.seq <= Len(log[s])
           /\ log[s][told[s].sent.seq] = told[s].sent
        \/ rows[s].pending = told[s].sent
    BY <1>6, Zenon DEF ToldInv, ExactReplay
  <2> QED
    BY <1>2, <2>1, <2>2, NothingTakenBack, Zenon DEF ServiceBase
<1>7. told[s].rev <= rows'[s].revision /\ told[s].seq <= AckedSequence(rows'[s])
  BY <1>1, <1>3, <1>4, <1>5
<1> QED
  BY <1>1, <1>3, <1>6, <1>7, Zenon

LEMMA ToldStep ==
    ASSUME ServiceBase, ServiceBase', StateInv, ToldInv, [ServiceNext]_serviceVars
    PROVE  ToldInv'
<1>1. [Next]_vars
  BY ServiceBaseStep
<1>2. ToldWhatIsDurable
  BY RepliesAreRead
<1>3. told \in [Session -> [rev : Nat, seq : Nat, sent : DeliveryType \cup {None}]]
  BY DEF ToldInv, ToldType
<1>4. CASE told' = told
  <2>1. ToldType'
    BY <1>3, <1>4 DEF ToldType
  <2>2. ExactReplay' /\ RepliesDurable'
    BY <1>1, <1>4, StillTold, Zenon DEF ExactReplay, RepliesDurable
  <2> QED
    BY <2>1, <2>2 DEF ToldInv
<1>5. ASSUME NEW s \in Session, NEW new \in [rev : Nat, seq : Nat, sent : DeliveryType \cup {None}],
             told' = [told EXCEPT ![s] = new],
             new.rev <= rows'[s].revision, new.seq <= AckedSequence(rows'[s]),
             new.sent # None =>
                 \/ new.sent.seq <= Len(log'[s]) /\ log'[s][new.sent.seq] = new.sent
                 \/ rows'[s].pending = new.sent
      PROVE  ToldInv'
  <2>1. ToldType'
    BY <1>3, <1>5, Zenon DEF ToldType
  <2>2. told'[s] = new /\ \A t \in Session \ {s} : told'[t] = told[t]
    BY <1>3, <1>5, Zenon
  <2>3. ExactReplay'
    <3> SUFFICES ASSUME NEW t \in Session, told'[t].sent # None
                 PROVE  \/ /\ told'[t].sent.seq <= Len(log'[t])
                           /\ log'[t][told'[t].sent.seq] = told'[t].sent
                        \/ rows'[t].pending = told'[t].sent
      BY Zenon DEF ExactReplay
    <3>1. CASE t = s
      BY <1>5, <2>2, <3>1, Zenon
    <3>2. CASE t # s
      <4>1. told'[t] = told[t]
        BY <2>2, <3>2, Zenon
      <4> QED
        BY <1>1, <4>1, StillTold, Zenon
    <3> QED
      BY <3>1, <3>2
  <2>4. RepliesDurable'
    <3> SUFFICES ASSUME NEW t \in Session
                 PROVE  told'[t].rev <= rows'[t].revision /\ told'[t].seq <= AckedSequence(rows'[t])
      BY Zenon DEF RepliesDurable
    <3>1. CASE t = s
      BY <1>5, <2>2, <3>1, Zenon
    <3>2. CASE t # s
      <4>1. told'[t] = told[t]
        BY <2>2, <3>2, Zenon
      <4> QED
        BY <1>1, <4>1, StillTold, Zenon
    <3> QED
      BY <3>1, <3>2
  <2> QED
    BY <2>1, <2>3, <2>4, Zenon DEF ToldInv
<1>6. ASSUME NEW s \in Session, NEW d \in DeliveryType,
             told' = [told EXCEPT ![s].sent = d], rows'[s].pending = d
      PROVE  ToldInv'
  <2> DEFINE new == [told[s] EXCEPT !.sent = d]
  <2>1. told[s] \in [rev : Nat, seq : Nat, sent : DeliveryType \cup {None}]
    BY <1>3, Zenon
  <2>2. /\ new \in [rev : Nat, seq : Nat, sent : DeliveryType \cup {None}]
        /\ new.sent = d /\ new.rev = told[s].rev /\ new.seq = told[s].seq
    BY <2>1, Zenon
  <2>3. told' = [told EXCEPT ![s] = new]
    BY <1>6, Zenon
  <2> HIDE DEF new
  <2>4. new.rev <= rows'[s].revision /\ new.seq <= AckedSequence(rows'[s])
    BY <1>1, <2>2, StillTold, Zenon
  <2> QED
    BY <1>5, <1>6, <2>2, <2>3, <2>4, Zenon
<1>7. ASSUME NEW s \in Session,
             \/ told' = [told EXCEPT ![s].rev = rows'[s].revision]
             \/ told' = [told EXCEPT ![s].seq = AckedSequence(rows'[s])]
      PROVE  ToldInv'
  <2>1. /\ told[s] \in [rev : Nat, seq : Nat, sent : DeliveryType \cup {None}]
        /\ rows'[s].revision \in Nat /\ AckedSequence(rows'[s]) \in Nat
    BY <1>1, StillTold, Zenon
  <2>2. PICK new \in {[told[s] EXCEPT !.rev = rows'[s].revision],
                      [told[s] EXCEPT !.seq = AckedSequence(rows'[s])]} :
            told' = [told EXCEPT ![s] = new]
    BY <1>7, Zenon
  <2>3. /\ new \in [rev : Nat, seq : Nat, sent : DeliveryType \cup {None}]
        /\ new.sent = told[s].sent
        /\ new.rev \in {told[s].rev, rows'[s].revision}
        /\ new.seq \in {told[s].seq, AckedSequence(rows'[s])}
    BY <2>1, <2>2, Zenon
  <2>4. new.rev <= rows'[s].revision /\ new.seq <= AckedSequence(rows'[s])
    BY <1>1, <2>1, <2>3, StillTold
  <2>5. new.sent # None =>
            \/ new.sent.seq <= Len(log'[s]) /\ log'[s][new.sent.seq] = new.sent
            \/ rows'[s].pending = new.sent
    BY <1>1, <2>3, StillTold, Zenon
  <2> QED
    BY <1>5, <2>2, <2>3, <2>4, <2>5, Zenon
<1> QED
  BY <1>2, <1>4, <1>6, <1>7, Zenon DEF ToldWhatIsDurable

LEMMA ToldAlways == ServiceSpec => []ToldInv
<1>1. ServiceInit => ToldInv
  <2> SUFFICES ASSUME ServiceInit PROVE ToldInv
    BY Zenon
  <2>1. /\ told = [s \in Session |-> [rev |-> 0, seq |-> 0, sent |-> None]]
        /\ rows = [s \in Session |-> EmptyRow]
    BY Zenon DEF ServiceInit, Init
  <2>2. ToldType /\ ExactReplay
    BY <2>1, Zenon DEF ToldType, ExactReplay
  <2>3. RepliesDurable
    BY <2>1 DEF RepliesDurable, EmptyRow, AckedSequence
  <2> QED
    BY <2>2, <2>3 DEF ToldInv
<1> QED
  BY <1>1, ServiceBaseAlways, StateAlways, ToldStep, PTL DEF ServiceSpec

\* Whatever was sent under a sequence is what the outbox replays or the log
\* holds under it, for every interleaving of streams, failed source calls,
\* releases and restarts: deliveries are persisted before they are sent.
THEOREM SentIsReplayedExactly == ServiceSpec => []ExactReplay
<1>1. ToldInv => ExactReplay
  BY DEF ToldInv
<1> QED
  BY <1>1, ToldAlways, PTL

\* A revision or acknowledgement that was confirmed to a client stays durable.
THEOREM RepliesStayDurable == ServiceSpec => []RepliesDurable
<1>1. ToldInv => RepliesDurable
  BY Zenon DEF ToldInv
<1> QED
  BY <1>1, ToldAlways, PTL

\* What SessionHistoryProofs shows of the store holds of the running service:
\* in the history its clients have acknowledged promised replacements are
\* delivered, revisions are opened by their activation, heads move only to
\* blocks a delivery carries, and a repeated request has one answer.
THEOREM ServiceHistoriesAreSound ==
    ServiceSpec => [](/\ ReorgPromiseKept /\ ActivationOpensRevision
                      /\ HeadMovesOnlyToCarriedBlocks /\ ActivationReplyStable)
  BY ServiceImplementsStore, ReorgPromisesAreKept, RevisionsAreOpened, HeadsAreCarried,
     RepliesAreStable, PTL DEF ImplementsStore
=============================================================================
