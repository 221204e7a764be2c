------------------------- MODULE SessionTaskProofs --------------------------
(***************************************************************************)
(* Every step of a task of the service, and its restart, keeps the         *)
(* invariant of RemoteSession, given what EventService keeps of the row    *)
(* (SessionBase) and does to it (RowMoves).  The first state satisfies it, *)
(* and it gives what the theorems of RemoteSessionProofs say.              *)
(***************************************************************************)
EXTENDS SessionClientProofs

\* The messages a handler starts with are what the service may be sent.
LEMMA MessageFacts ==
    ASSUME SessionTypes, NEW c \in Stream, net[c].up # <<>>
    PROVE  LET m == Message(c) IN
           /\ m \in RequestType /\ m = net[c].up[1] /\ 1 \in DOMAIN net[c].up
           /\ m.kind = "hello" => m.seq \in 0..MaxSequence /\ m.resume \in Proofs \cup {None}
           /\ m.kind = "apply" => m.request \in Requests
           /\ m.kind = "ack" => m.ack \in Acknowledgements
<1>1. net[c].up \in Seq(RequestType)
  BY DEF SessionTypes, ChannelType
<1>2. Message(c) \in RequestType /\ Message(c) = net[c].up[1] /\ 1 \in DOMAIN net[c].up
  BY <1>1 DEF Message
<1> QED
  BY <1>2, Zenon DEF RequestType, HelloType

\* Every step of a task of the session is a step of the service.
LEMMA TaskIsService ==
    ASSUME SessionTypes, NEW c \in Stream, ServiceStep(c)
    PROVE  [ServiceNext]_serviceVars
<1>1. ASSUME Continue(c) \/ React(c) PROVE ServiceNext
  BY <1>1, Zenon DEF ServiceNext
<1>2. CASE ServeHello(c)
  <2>1. /\ Message(c).seq \in 0..MaxSequence /\ Message(c).resume \in Proofs \cup {None}
    BY <1>2, MessageFacts, Zenon DEF ServeHello, Msg, Message
  <2>2. \/ UNCHANGED serviceVars
        \/ \E s \in Session : AcquireLease(c, s)
        \/ RejectHello(c, Message(c).seq, Message(c).resume)
        \/ AcceptHello(c, Message(c).seq, Message(c).resume)
    BY <1>2, Zenon DEF ServeHello
  <2> QED
    BY <1>1, <2>1, <2>2, Zenon DEF Continue, React
<1>3. CASE ServeApply(c)
  <2>1. Message(c).request \in Requests
    BY <1>3, MessageFacts DEF ServeApply, Msg, Message
  <2>2. \/ PrepareFails(c, Message(c).request)
        \/ \E position \in Positions : PrepareDesiredState(c, Message(c).request, position)
    BY <1>3 DEF ServeApply, PreparedPositions
  <2> QED
    BY <1>1, <2>1, <2>2, Zenon DEF React
<1>4. CASE ServeAck(c)
  <2>1. Message(c).ack \in Acknowledgements
    BY <1>4, MessageFacts DEF ServeAck, Msg, Message
  <2> QED
    BY <1>1, <1>4, <2>1, Zenon DEF ServeAck, React
<1>5. CASE Deliver(c)
  <2>1. \/ FetchFails(c)
        \/ \E position \in Positions, payload \in Payloads, neutral \in BOOLEAN :
              \/ PersistAndSend(c, Produced(c, 1, position, payload, neutral))
              \/ RefuseDelivery(c, Produced(c, 1, position, payload, neutral))
    BY <1>5, Zenon DEF Deliver
  <2>2. Awaits(c) /\ 1 \in {0, 1}
    BY <1>5 DEF Deliver
  <2> QED
    BY <1>1, <2>1, <2>2, Zenon DEF React
<1>6. CASE \/ Restored(c) \/ NotRestored(c) \/ Refused(c) \/ Aborted(c) \/ NotAborted(c)
           \/ CommitDesiredState(c) \/ Applied(c) \/ NotActivated(c)
           \/ Committed(c) \/ NotCommitted(c) \/ ServeDemand(c) \/ NoticeHangUp(c) \/ Release(c)
  <2>1. Continue(c) \/ React(c)
    BY <1>6, Zenon
    DEF Restored, NotRestored, Refused, Aborted, NotAborted, Applied, NotActivated, Committed,
        NotCommitted, ServeDemand, NoticeHangUp, Release, Continue, React
  <2> QED
    BY <1>1, <2>1
<1> QED
  BY <1>2, <1>3, <1>4, <1>5, <1>6, Zenon DEF ServiceStep

\* An acknowledgement of the outbox item has come from the client.
AckServed(c) ==
    /\ streams[c].phase = "idle" /\ Msg(c, "ack")
    /\ Row.pending # None /\ Message(c).ack.seq = Row.pending.seq

\* How a task moves, and that one that has nothing to do does nothing to the row.
TaskMoves(c) ==
    /\ \A e \in Stream \ {c} : streams'[e] = streams[e]
    /\ streams'[c].phase \in {"open", "acquired"} => streams[c].phase \in {"open", "acquired"}
    /\ streams'[c].phase \in Holding => streams[c].phase \in Holding \cup {"open"}
    /\ Fresh(c) => Fresh(c)' /\ UNCHANGED vars
    /\ log' = log \/ AckServed(c)

\* A task that works for a session works for this one.
LEMMA HoldsTheSession ==
    ASSUME SessionBase, NEW c \in Stream, streams[c].phase \in Holding
    PROVE  rows[streams[c].session] = Row /\ TaskSound(c) /\ streams[c].session = TheSession
<1>1. TaskSound(c)
  BY Zenon DEF SessionBase
<1> QED
  BY <1>1 DEF TaskSound, Row

\* The runtime checkpoint is at most what is acknowledged.
LEMMA RuntimeIsAcknowledged ==
    ASSUME SessionBase, Row.runtime # None
    PROVE  Row.runtime.seq <= AckedSequence(Row) /\ Row.runtime.seq \in Nat
<1>1. ValidatePersistedSession(Row) /\ Row \in RowType
  BY RowFacts, Zenon DEF RowSound
<1>2. EmptyRow.runtime = None
  BY DEF EmptyRow
<1>3. ValidateCursors(Row)
  BY <1>1, <1>2, Zenon DEF ValidatePersistedSession
<1>4. Row.runtime.seq \in Nat
  BY <1>1, Zenon DEF RowType, Cursor
<1> QED
  BY <1>3, <1>4, Zenon DEF ValidateCursors, AckedSequence

LEMMA BusyMoves ==
    ASSUME SessionBase, NEW c \in Stream, streams[c].phase \in Holding, ~Fresh(c),
           log' = log \/ AckServed(c),
           \/ \E new : Become(c, new) /\ new.phase \notin {"open", "acquired"}
           \/ \E phase : GoTo(c, phase) /\ phase \notin {"open", "acquired"}
           \/ UNCHANGED streams /\ streams[c].phase # "acquired"
    PROVE  TaskMoves(c)
<1>1. streams \in [Stream -> StreamType]
  BY Zenon DEF SessionBase
<1>2. streams'[c].phase \notin {"open", "acquired"} /\ \A e \in Stream \ {c} : streams'[e] = streams[e]
  BY <1>1, Zenon DEF Become, GoTo, StreamType, Holding
<1> QED
  BY <1>2 DEF TaskMoves

\* The answers that say nothing of the row, and those that do.
LEMMA ErrorSound ==
    ASSUME NEW c \in Stream, NEW retryable \in BOOLEAN
    PROVE  AnswerSound(c, Error(retryable))
<1>1. Error(retryable) \in AnswerType
  BY Zenon DEF Error, AnswerType
<1>2. Error(retryable).kind = "error"
  BY Zenon DEF Error
<1> QED
  BY <1>1, <1>2, Zenon DEF AnswerSound, AnswerGenuine, IsAccepted

LEMMA AcceptedSound ==
    ASSUME SessionBase, NEW c \in Stream, streams[c].phase \in Holding,
           streams'[c].phase = "idle", UNCHANGED vars
    PROVE  AnswerSound(c, Accepted(Row))
<1>1. Row' = Row /\ Row \in RowType
  BY RowFacts, Zenon DEF RowSound, Row, vars
<1>2. Accepted(Row) \in AnswerType /\ Accepted(Row).kind = "accepted"
  BY <1>1, Zenon DEF Accepted, AnswerType, RowType
<1> QED
  BY <1>1, <1>2, Zenon DEF AnswerSound, AnswerGenuine, IsAccepted

TaskEffect(c) == NetEffect(c) /\ TaskMoves(c)

LEMMA HelloEffect ==
    ASSUME SessionBase, SessionTypes, ChannelInv, NEW c \in Stream,
           ServeHello(c) \/ Restored(c) \/ NotRestored(c)
    PROVE  TaskEffect(c)
<1>1. streams \in [Stream -> StreamType] /\ streams[c] \in StreamType
  BY Zenon DEF SessionBase
<1>2. ASSUME NEW s \in Session, AcquireLease(c, s), UNCHANGED net PROVE TaskEffect(c)
  <2>1. NetEffect(c)
    BY <1>2, SilentEffect, Zenon
  <2>2. /\ streams[c].phase = "open" /\ streams'[c].phase = "acquired" /\ log' = log
        /\ UNCHANGED vars /\ \A e \in Stream \ {c} : streams'[e] = streams[e]
    BY <1>1, <1>2, Zenon DEF AcquireLease, Become, Closed, vars
  <2> QED
    BY <2>1, <2>2, Zenon DEF TaskEffect, TaskMoves, Fresh
<1>3. ASSUME ServeHello(c), streams[c].phase = "open", Consume(c, <<Error(TRUE)>>),
             UNCHANGED serviceVars
      PROVE  TaskEffect(c)
  <2>1. net[c].up # <<>> /\ AnswerSound(c, Error(TRUE))
    BY <1>3, ErrorSound, Zenon DEF ServeHello, Msg
  <2>2. NetEffect(c)
    BY <1>3, <2>1, ConsumeEffect, Zenon
  <2>3. UNCHANGED <<streams, vars>> /\ log' = log
    BY <1>3 DEF serviceVars, vars
  <2> QED
    BY <1>3, <2>2, <2>3, Zenon DEF TaskEffect, TaskMoves, Fresh
<1>4. ASSUME ServeHello(c), NEW sequence, NEW resume, RejectHello(c, sequence, resume),
             Consume(c, <<Error(FALSE)>>)
      PROVE  TaskEffect(c)
  <2>1. net[c].up # <<>> /\ AnswerSound(c, Error(FALSE))
    BY <1>4, ErrorSound, Zenon DEF ServeHello, Msg
  <2>2. NetEffect(c)
    BY <1>4, <2>1, ConsumeEffect, Zenon
  <2>3. /\ streams[c].phase = "acquired" /\ streams'[c].phase = "open" /\ log' = log
        /\ UNCHANGED vars /\ \A e \in Stream \ {c} : streams'[e] = streams[e]
    BY <1>1, <1>4 DEF RejectHello, Become, Closed, vars
  <2> QED
    BY <2>2, <2>3, Zenon DEF TaskEffect, TaskMoves, Fresh, Holding
<1>5. ASSUME ServeHello(c), NEW sequence, NEW resume, AcceptHello(c, sequence, resume),
             Consume(c, IF Row.desired = None THEN <<Accepted(Row)>> ELSE <<>>)
      PROVE  TaskEffect(c)
  <2>1. /\ net[c].up # <<>> /\ streams[c].phase = "acquired" /\ streams[c].phase \in Holding
        /\ UNCHANGED vars /\ log' = log
    BY <1>5, Zenon DEF ServeHello, Msg, AcceptHello, Holding, vars
  <2>2. rows[streams[c].session] = Row
    BY <2>1, HoldsTheSession, Zenon
  <2>3. /\ streams'[c].phase = IF Row.desired = None THEN "idle" ELSE "restoring"
        /\ ~streams'[c].demanded /\ \A e \in Stream \ {c} : streams'[e] = streams[e]
    BY <1>1, <1>5, <2>2 DEF AcceptHello, Become, Closed
  <2>4. Row.desired = None => AnswerSound(c, Accepted(Row))
    BY <2>1, <2>3, AcceptedSound, Zenon
  <2>5. NetEffect(c) /\ net'[c].up = Tail(net[c].up)
    BY <1>5, <2>1, <2>4, ConsumeEffect
  <2>6. net'[c].up = <<>>
    <3>1. net[c].up \in Seq(RequestType) /\ Len(net[c].up) <= 1
      BY <2>1, Zenon DEF SessionTypes, ChannelType, ChannelInv
    <3> QED
      BY <2>1, <2>5, <3>1
  <2> QED
    BY <2>1, <2>3, <2>5, <2>6, Zenon DEF TaskEffect, TaskMoves, Fresh, Holding
<1>6. CASE Restored(c)
  <2>1. /\ streams[c].phase = "restoring" /\ streams[c].phase \in Holding
        /\ streams'[c].phase = "idle" /\ streams'[c].demanded = streams[c].demanded
        /\ UNCHANGED vars /\ log' = log /\ \A e \in Stream \ {c} : streams'[e] = streams[e]
    BY <1>1, <1>6, Zenon DEF Restored, RestoreSource, GoTo, StreamType, Holding, vars
  <2>2. rows[streams[c].session] = Row
    BY <2>1, HoldsTheSession, Zenon
  <2>3. NetEffect(c) /\ net'[c].up = net[c].up
    BY <1>6, <2>1, <2>2, AcceptedSound, ReplyEffect, Zenon DEF Restored
  <2> QED
    BY <2>1, <2>3, Zenon DEF TaskEffect, TaskMoves, Fresh, Holding
<1>7. CASE NotRestored(c)
  <2>1. /\ streams[c].phase = "restoring" /\ streams'[c].phase = "closing"
        /\ UNCHANGED vars /\ log' = log /\ \A e \in Stream \ {c} : streams'[e] = streams[e]
    BY <1>1, <1>7, Zenon DEF NotRestored, RestoreFails, GoTo, StreamType, vars
  <2>2. NetEffect(c)
    BY <1>7, SilentEffect, Zenon DEF NotRestored
  <2> QED
    BY <2>1, <2>2 DEF TaskEffect, TaskMoves, Fresh, Holding
<1>8. CASE ServeHello(c)
  <2>1. ASSUME NEW sequence, NEW resume, AcceptHello(c, sequence, resume)
        PROVE  rows[streams[c].session] = Row
    BY <2>1, HoldsTheSession DEF AcceptHello, Holding
  <2>2. \/ (\E s \in Session : AcquireLease(c, s)) /\ UNCHANGED net
        \/ /\ streams[c].phase = "open" /\ Consume(c, <<Error(TRUE)>>)
           /\ UNCHANGED serviceVars
        \/ /\ RejectHello(c, Message(c).seq, Message(c).resume)
           /\ Consume(c, <<Error(FALSE)>>)
        \/ /\ AcceptHello(c, Message(c).seq, Message(c).resume)
           /\ Consume(c, IF rows[streams[c].session].desired = None
                         THEN <<Accepted(rows[streams[c].session])>> ELSE <<>>)
    BY <1>8, Zenon DEF ServeHello
  <2> QED
    BY <1>2, <1>3, <1>4, <1>5, <1>8, <2>1, <2>2
<1> QED
  BY <1>6, <1>7, <1>8

LEMMA ApplyEffect ==
    ASSUME SessionBase, SessionTypes, ChannelInv, NEW c \in Stream,
           \/ ServeApply(c) \/ Refused(c) \/ Aborted(c) \/ NotAborted(c)
           \/ (CommitDesiredState(c) /\ UNCHANGED net) \/ Applied(c) \/ NotActivated(c)
    PROVE  TaskEffect(c)
<1>1. streams \in [Stream -> StreamType] /\ streams[c] \in StreamType
  BY Zenon DEF SessionBase
<1>2. CASE ServeApply(c)
  <2>1. streams[c].phase = "idle" /\ net[c].up # <<>>
    BY <1>2, Zenon DEF ServeApply, Msg, PrepareDesiredState, PrepareFails, Serving, Idle
  <2>2. ~Fresh(c) /\ streams[c].phase \in Holding
    BY <2>1 DEF Fresh, Holding
  <2>5. NetEffect(c)
    BY <1>2, <2>1, ConsumeEffect, SilentEffect, Zenon DEF ServeApply
  <2>3. CASE \E position \in PreparedPositions(streams[c].cursor, Message(c).request) :
                  PrepareDesiredState(c, Message(c).request, position)
    <3>1. PICK position : PrepareDesiredState(c, Message(c).request, position)
      BY <2>3, Zenon
    <3> DEFINE new == [streams[c] EXCEPT
                          !.phase = "prepared", !.request = Message(c).request,
                          !.prepared = IF position = None THEN None
                                       ELSE CursorAt(Message(c).request.new, 0, position)]
    <3>2. Become(c, new) /\ log' = log
      BY <3>1, Zenon DEF PrepareDesiredState, vars
    <3>3. new.phase = "prepared"
      BY <1>1, Zenon DEF StreamType
    <3> HIDE DEF new
    <3> QED
      BY <2>2, <2>5, <3>2, <3>3, BusyMoves DEF TaskEffect
  <2>4. CASE PrepareFails(c, Message(c).request)
    BY <2>2, <2>4, <2>5, BusyMoves DEF PrepareFails, vars, TaskEffect
  <2> QED
    BY <1>2, <2>3, <2>4, Zenon DEF ServeApply
<1>3. CASE Refused(c)
  <2>1. /\ streams[c].phase = "prepared" /\ ~Fresh(c) /\ streams[c].phase \in Holding
        /\ log' = log
    BY <1>3 DEF Refused, RefuseDesiredState, CommitRefused, Fresh, Holding, vars
  <2> DEFINE phase == IF NoConflict(rows[streams[c].session], streams[c].request, HasCapacity)
                      THEN "failing" ELSE "aborting"
             new == [streams[c] EXCEPT !.phase = phase, !.request = None, !.prepared = None]
  <2>2. Become(c, new)
    BY <1>3, Zenon DEF Refused, RefuseDesiredState
  <2>3. new.phase \in {"failing", "aborting"}
    BY <1>1, Zenon DEF StreamType
  <2> HIDE DEF new
  <2>4. TaskMoves(c)
    BY <2>1, <2>2, <2>3, BusyMoves
  <2> DEFINE row == rows[streams[c].session]
             retryable == /\ row.pending # None /\ row.revision = streams[c].request.expected
                          /\ streams[c].request.new = streams[c].request.expected + 1
  <2>5. retryable \in BOOLEAN /\ net' = [net EXCEPT ![c].retryable = retryable]
    BY <1>3, Zenon DEF Refused
  <2> HIDE DEF retryable
  <2> QED
    BY <2>4, <2>5, SilentEffect, Zenon DEF TaskEffect
<1>4. CASE Aborted(c)
  <2>1. /\ streams[c].phase \in {"aborting", "failing"} /\ ~Fresh(c)
        /\ streams[c].phase \in Holding /\ log' = log
    BY <1>4 DEF Aborted, AbortCandidate, Fresh, Holding, vars
  <2>2. TaskMoves(c)
    <3>1. GoTo(c, "idle") \/ GoTo(c, "closing")
      BY <1>4, Zenon DEF Aborted, AbortCandidate
    <3>2. \E phase : GoTo(c, phase) /\ phase \notin {"open", "acquired"}
      BY <3>1
    <3> QED
      BY <2>1, <3>2, BusyMoves, Zenon
  <2>3. net[c].retryable \in BOOLEAN
    BY DEF SessionTypes, ChannelType
  <2>4. NetEffect(c)
    BY <1>4, <2>3, ErrorSound, ReplyEffect, SilentEffect, Zenon DEF Aborted
  <2> QED
    BY <2>2, <2>4, Zenon DEF TaskEffect
<1>5. CASE NotAborted(c) \/ NotActivated(c)
  <2>1. /\ streams[c].phase \in {"aborting", "failing", "committed"} /\ ~Fresh(c)
        /\ streams[c].phase \in Holding /\ log' = log /\ GoTo(c, "closing") /\ UNCHANGED net
    BY <1>5 DEF NotAborted, AbortFails, NotActivated, ActivateFails, Fresh, Holding, vars
  <2> QED
    <3>1. "closing" \notin {"open", "acquired"}
      OBVIOUS
    <3>2. TaskMoves(c)
      BY <2>1, <3>1, BusyMoves, Zenon
    <3>3. NetEffect(c)
      BY <2>1, SilentEffect, Zenon
    <3> QED
      BY <3>2, <3>3, Zenon DEF TaskEffect
<1>6. CASE CommitDesiredState(c) /\ UNCHANGED net
  <2>1. /\ streams[c].phase = "prepared" /\ ~Fresh(c) /\ streams[c].phase \in Holding
        /\ log' = log /\ GoTo(c, "committed")
    BY <1>6, Zenon DEF CommitDesiredState, ApplyDesiredState, ReplayDesiredState, Fresh, Holding
  <2> QED
    BY <1>6, <2>1, BusyMoves, SilentEffect DEF TaskEffect
<1>7. CASE Applied(c)
  <2>1. /\ streams[c].phase = "committed" /\ ~Fresh(c) /\ streams[c].phase \in Holding
        /\ log' = log
    BY <1>7 DEF Applied, ActivateDesiredState, Fresh, Holding, vars
  <2>2. streams[c].request \in Requests /\ rows[streams[c].session] = Row /\ Row \in RowType
    BY <2>1, HoldsTheSession, RowFacts, Zenon DEF TaskSound, RowSound
  <2> DEFINE m == [kind |-> "applied", rev |-> streams[c].request.new,
                   activation |-> rows[streams[c].session].activation]
  <2>3. m \in AnswerType /\ m.kind = "applied"
    BY <2>2, Zenon DEF Requests, RowType, AnswerType
  <2>4. Reply(c, m)
    BY <1>7, Zenon DEF Applied
  <2> HIDE DEF m
  <2>5. NetEffect(c)
    BY <2>3, <2>4, ReplyEffect DEF AnswerSound, AnswerGenuine, IsAccepted
  <2> DEFINE new == [streams[c] EXCEPT
                        !.phase = "idle", !.request = None, !.prepared = None,
                        !.desired = streams[c].request,
                        !.pending = (rows[streams[c].session].pending # None),
                        !.demanded = FALSE]
  <2>6. Become(c, new)
    BY <1>7, Zenon DEF Applied, ActivateDesiredState
  <2>7. new.phase = "idle"
    BY <1>1 DEF StreamType
  <2> HIDE DEF new
  <2> QED
    BY <2>1, <2>5, <2>6, <2>7, BusyMoves, Zenon DEF TaskEffect
<1> QED
  BY <1>2, <1>3, <1>4, <1>5, <1>6, <1>7

LEMMA DeliverySound ==
    ASSUME NEW c \in Stream, NEW d \in DeliveryType, Row'.pending = d
    PROVE  AnswerSound(c, [kind |-> "delivery", d |-> d])
<1> DEFINE m == [kind |-> "delivery", d |-> d]
<1>1. m \in AnswerType /\ m.kind = "delivery" /\ m.d = d
  BY Zenon DEF AnswerType, DeliveryAnswer
<1> HIDE DEF m
<1>2. AnswerSound(c, m)
  BY <1>1 DEF AnswerSound, AnswerGenuine, Genuine, IsAccepted
<1> QED
  BY <1>2, Zenon DEF m

LEMMA AckEffect ==
    ASSUME SessionBase, SessionTypes, ChannelInv, NEW c \in Stream,
           ServeAck(c) \/ Committed(c) \/ NotCommitted(c)
    PROVE  TaskEffect(c)
<1>1. streams \in [Stream -> StreamType] /\ streams[c] \in StreamType
  BY Zenon DEF SessionBase
<1>2. CASE ServeAck(c)
  <2>1. /\ streams[c].phase = "idle" /\ net[c].up # <<>> /\ ~Fresh(c)
        /\ streams[c].phase \in Holding
    BY <1>2, Zenon DEF ServeAck, Msg, CommitAcknowledgement, Serving, Idle, Fresh, Holding
  <2>2. NetEffect(c)
    BY <1>2, <2>1, ConsumeEffect, Zenon DEF ServeAck
  <2>3. rows[streams[c].session] = Row
    BY <2>1, HoldsTheSession
  <2>4. log' = log \/ AckServed(c)
    BY <1>2, <2>1, <2>3, Zenon
    DEF ServeAck, CommitAcknowledgement, Acknowledge, AckAccepts, AckServed, vars
  <2> DEFINE new == [streams[c] EXCEPT !.phase = "acked",
                                       !.cursor = rows'[streams[c].session].acked,
                                       !.tip = rows'[streams[c].session].tip]
  <2>5. Become(c, new)
    BY <1>2, Zenon DEF ServeAck, CommitAcknowledgement
  <2>6. new.phase = "acked"
    BY <1>1, Zenon DEF StreamType
  <2> HIDE DEF new
  <2> QED
    BY <2>1, <2>2, <2>4, <2>5, <2>6, BusyMoves DEF TaskEffect
<1>3. CASE Committed(c)
  <2>1. /\ streams[c].phase = "acked" /\ ~Fresh(c) /\ streams[c].phase \in Holding
        /\ UNCHANGED vars /\ log' = log
    BY <1>3, Zenon DEF Committed, ConfirmAcknowledgement, Fresh, Holding, vars
  <2>2. /\ streams[c].cursor = Row.acked /\ Row.acked # None
        /\ Row \in RowType /\ Row' = Row
    BY <2>1, HoldsTheSession, RowFacts, Zenon DEF TaskSound, RowSound, Row, vars
  <2> DEFINE m == [kind |-> "committed", seq |-> streams[c].cursor.seq,
                   cursor |-> streams[c].cursor]
  <2>3. m \in AnswerType /\ m.kind = "committed" /\ m.seq = AckedSequence(Row)
    BY <2>2, Zenon DEF RowType, Cursor, AnswerType, AckedSequence
  <2>4. Reply(c, m)
    BY <1>3, Zenon DEF Committed
  <2> HIDE DEF m
  <2>5. AckedSequence(Row) <= AckedSequence(Row')
    BY <2>2, RowFacts DEF RowSound
  <2>6. NetEffect(c)
    BY <2>3, <2>4, <2>5, ReplyEffect DEF AnswerSound, AnswerGenuine, IsAccepted
  <2> DEFINE new == [streams[c] EXCEPT !.phase = "idle", !.pending = FALSE, !.demanded = FALSE]
  <2>7. Become(c, new)
    BY <1>3, Zenon DEF Committed, ConfirmAcknowledgement
  <2>8. new.phase = "idle"
    BY <1>1 DEF StreamType
  <2> HIDE DEF new
  <2> QED
    BY <2>1, <2>6, <2>7, <2>8, BusyMoves, Zenon DEF TaskEffect
<1>4. CASE NotCommitted(c)
  <2>1. /\ streams[c].phase = "acked" /\ ~Fresh(c) /\ streams[c].phase \in Holding
        /\ log' = log /\ GoTo(c, "closing") /\ UNCHANGED net
    BY <1>4 DEF NotCommitted, SourceAckFails, Fresh, Holding, vars
  <2> QED
    BY <2>1, BusyMoves, SilentEffect DEF TaskEffect
<1> QED
  BY <1>2, <1>3, <1>4

LEMMA DeliverEffect ==
    ASSUME SessionBase, OffersTyped, SessionTypes, ChannelInv, NEW c \in Stream,
           ServeDemand(c) \/ Deliver(c)
    PROVE  TaskEffect(c)
<1>1. streams \in [Stream -> StreamType] /\ streams[c] \in StreamType
  BY Zenon DEF SessionBase
<1>2. CASE ServeDemand(c)
  <2>1. /\ streams[c].phase = "idle" /\ net[c].up # <<>> /\ ~Fresh(c)
        /\ streams[c].phase \in Holding /\ UNCHANGED vars /\ log' = log
    BY <1>2, Zenon DEF ServeDemand, Msg, Demand, Serving, Idle, Fresh, Holding, vars
  <2>2. /\ rows[streams[c].session] = Row /\ Row' = Row
        /\ streams[c].pending = (Row.pending # None)
    BY <2>1, HoldsTheSession, Zenon DEF TaskSound, Row, vars
  <2>3. streams[c].pending => AnswerSound(c, [kind |-> "delivery", d |-> Row.pending])
    BY <2>2, RowFacts, DeliverySound, Zenon DEF RowSound
  <2>4. NetEffect(c)
    BY <1>2, <2>1, <2>2, <2>3, ConsumeEffect, Zenon DEF ServeDemand
  <2> DEFINE new == [streams[c] EXCEPT !.pending = FALSE, !.demanded = TRUE]
  <2>5. UNCHANGED streams \/ Become(c, new)
    BY <1>2, Zenon DEF ServeDemand, Demand
  <2>6. new.phase = "idle"
    BY <1>1, <2>1 DEF StreamType
  <2> HIDE DEF new
  <2> QED
    BY <2>1, <2>4, <2>5, <2>6, BusyMoves, Zenon DEF TaskEffect
<1>3. CASE Deliver(c)
  <2>1. /\ streams[c].phase = "idle" /\ streams[c].demanded /\ ~Fresh(c)
        /\ streams[c].phase \in Holding
    BY <1>3, Zenon DEF Deliver, Awaits, Serving, Idle, Fresh, Holding
  <2>2. CASE FetchFails(c) /\ \E retryable \in BOOLEAN : Reply(c, Error(retryable))
    <3>1. NetEffect(c)
      BY <2>2, ErrorSound, ReplyEffect, Zenon
    <3> DEFINE new == [streams[c] EXCEPT !.demanded = FALSE]
    <3>2. Become(c, new) /\ log' = log
      BY <2>2 DEF FetchFails, vars
    <3>3. new.phase = "idle"
      BY <1>1, <2>1 DEF StreamType
    <3> HIDE DEF new
    <3> QED
      BY <2>1, <3>1, <3>2, <3>3, BusyMoves DEF TaskEffect
  <2>3. ASSUME NEW d, RefuseDelivery(c, d), UNCHANGED net PROVE TaskEffect(c)
    <3>1. log' = log /\ GoTo(c, "closing")
      BY <2>3, Zenon DEF RefuseDelivery, vars
    <3> QED
      BY <2>1, <2>3, <3>1, BusyMoves, SilentEffect DEF TaskEffect
  <2>4. ASSUME NEW position \in Positions, NEW payload \in Payloads, NEW neutral \in BOOLEAN,
               PersistAndSend(c, Produced(c, 1, position, payload, neutral)),
               Reply(c, [kind |-> "delivery", d |-> Produced(c, 1, position, payload, neutral)])
        PROVE  TaskEffect(c)
    <3> DEFINE d == Produced(c, 1, position, payload, neutral)
    <3>1. d \in DeliveryType
      BY <2>4, Zenon DEF OffersTyped
    <3> HIDE DEF d
    <3>2. PersistAndSend(c, d) /\ Reply(c, [kind |-> "delivery", d |-> d])
      BY <2>4 DEF d
    <3>3. Row'.pending = d
      <4>1. streams[c].session = TheSession /\ Row \in RowType
        BY <2>1, HoldsTheSession, RowFacts DEF RowSound
      <4>2. DOMAIN rows = Session
        BY Zenon DEF SessionBase
      <4> QED
        BY <3>2, <4>1, <4>2, OneSession, Zenon DEF PersistAndSend, SavePending, SaveRow, Row, RowType
    <3>4. NetEffect(c)
      BY <3>1, <3>2, <3>3, DeliverySound, ReplyEffect
    <3> DEFINE new == [streams[c] EXCEPT !.pending = TRUE, !.demanded = FALSE]
    <3>5. Become(c, new) /\ log' = log
      BY <3>2, Zenon DEF PersistAndSend, SavePending
    <3>6. new.phase = "idle"
      BY <1>1, <2>1 DEF StreamType
    <3> HIDE DEF new
    <3> QED
      BY <2>1, <3>4, <3>5, <3>6, BusyMoves DEF TaskEffect
  <2> QED
    BY <1>3, <2>2, <2>3, <2>4, Zenon DEF Deliver
<1> QED
  BY <1>2, <1>3

\* Every step of a task moves it and its stream as described.
LEMMA TaskStepEffect ==
    ASSUME SessionBase, OffersTyped, SessionTypes, ChannelInv, NEW c \in Stream, ServiceStep(c)
    PROVE  TaskEffect(c)
<1>1. streams \in [Stream -> StreamType] /\ streams[c] \in StreamType
  BY Zenon DEF SessionBase
<1>2. CASE NoticeHangUp(c)
  <2>1. /\ streams[c].phase \in {"open", "idle"} /\ streams'[c].phase = "closing"
        /\ UNCHANGED <<vars, net>> /\ log' = log /\ \A e \in Stream \ {c} : streams'[e] = streams[e]
    BY <1>1, <1>2, Zenon DEF NoticeHangUp, Disconnect, GoTo, StreamType, vars
  <2> QED
    BY <2>1, SilentEffect DEF TaskEffect, TaskMoves, Fresh, Holding
<1>3. CASE Release(c)
  <2>1. /\ streams[c].phase = "closing" /\ streams'[c].phase = "closed"
        /\ UNCHANGED vars /\ log' = log /\ \A e \in Stream \ {c} : streams'[e] = streams[e]
    BY <1>1, <1>3 DEF Release, ReleaseSession, ReleaseFails, Become, Closed, vars
  <2>2. NetEffect(c)
    BY <1>3, SilentEffect, Zenon DEF Release
  <2> QED
    BY <2>1, <2>2, Zenon DEF TaskEffect, TaskMoves, Fresh, Holding
<1> QED
  BY <1>2, <1>3, HelloEffect, ApplyEffect, AckEffect, DeliverEffect, Zenon DEF ServiceStep

\* What was in transit stays backed and genuine when the row moves.
LEMMA TransitStays ==
    ASSUME SessionBase, SessionBase', RowMoves, SessionTypes, TransitInv, NEW c \in Stream
    PROVE  /\ \A i \in DOMAIN net[c].up : RequestBacked(net[c].up[i], Row', saved)
           /\ \A i \in DOMAIN net[c].down : AnswerGenuine(net[c].down[i], Row', History')
<1>1. ASSUME NEW i \in DOMAIN net[c].up PROVE RequestBacked(net[c].up[i], Row', saved)
  <2>1. RequestBacked(net[c].up[i], Row, saved)
    BY <1>1, Zenon DEF TransitInv
  <2>2. net[c].up[i].kind = "ack" => net[c].up[i].ack.seq \in Nat
    BY <1>1, TransitTypes
  <2> QED
    BY <2>1, <2>2, StaysBacked, Zenon DEF RequestBacked
<1>2. ASSUME NEW i \in DOMAIN net[c].down
      PROVE  AnswerGenuine(net[c].down[i], Row', History')
  <2> DEFINE m == net[c].down[i]
  <2>1. AnswerGenuine(m, Row, History)
    BY <1>2, Zenon DEF TransitInv
  <2>2. /\ m.kind = "committed" => m.seq \in Nat
        /\ m.kind = "delivery" => m.d \in DeliveryType
    BY <1>2, TransitTypes
  <2> HIDE DEF m
  <2>3. m.kind = "delivery" => Genuine(m.d, Row', History')
    BY <2>1, <2>2, StaysGenuine, Zenon DEF AnswerGenuine
  <2>4. /\ AckedSequence(Row) \in Nat /\ AckedSequence(Row') \in Nat
        /\ AckedSequence(Row) <= AckedSequence(Row')
    <3>1. Row' \in RowType
      BY RowFactsNext, Zenon DEF RowSound
    <3>2. AckedSequence(Row) <= AckedSequence(Row')
      BY <3>1, RowFacts, RowFactsNext
      DEF RowSound, RowMoves, RowStays, RowOffers, RowAcks
    <3> QED
      BY <3>2, RowFacts, RowFactsNext DEF RowSound
  <2>5. m.kind = "committed" => m.seq <= AckedSequence(Row')
    BY <2>1, <2>2, <2>4 DEF AnswerGenuine
  <2>6. AnswerGenuine(m, Row', History')
    BY <2>3, <2>5, Zenon DEF AnswerGenuine
  <2> QED
    BY <2>6, Zenon DEF m
<1> QED
  BY <1>1, <1>2, Zenon

LEMMA AckServedFacts ==
    ASSUME SessionBase, SessionInv, NEW c \in Stream, log' = log \/ AckServed(c)
    PROVE  AckIsBacked /\ (RowAcks /\ Ready => Row.pending.seq <= t.ackseq + 1)
<1> SUFFICES ASSUME RowAcks
             PROVE  /\ Row.pending.neutral \/ saved = PositionOf(Row.pending)
                    /\ Ready => Row.pending.seq <= t.ackseq + 1
  BY DEF AckIsBacked
<1>1. AckServed(c)
  <2>1. History' # History
    BY RowFacts DEF RowAcks, RowSound
  <2> QED
    BY <2>1, Zenon DEF History
<1>2. /\ net[c].up # <<>> /\ Message(c) = net[c].up[1] /\ 1 \in DOMAIN net[c].up
      /\ net[c].up[1].kind = "ack" /\ net[c].up[1].ack.seq = Row.pending.seq
      /\ streams[c].phase \in Holding
  <2>1. net[c].up # <<>> /\ Message(c).kind = "ack" /\ streams[c].phase \in Holding
    BY <1>1, Zenon DEF AckServed, Msg, Message, Holding
  <2> QED
    BY <1>1, <2>1, MessageFacts, Zenon DEF SessionInv, AckServed
<1>3. Backed(Row.pending.seq, Row, saved)
  BY <1>2, Zenon DEF SessionInv, TransitInv, RequestBacked
<1>4. Row.pending.seq = AckedSequence(Row) + 1 /\ AckedSequence(Row) \in Nat
  BY RowFacts DEF RowAcks, RowSound
<1> QED
  BY <1>2, <1>3, <1>4 DEF Backed, SessionInv, ReachInv

\* A task that answers leaves every other one without a session.
LEMMA OthersFresh ==
    ASSUME SessionBase, NEW c \in Stream, streams[c].phase \in Holding,
           NEW e \in Stream \ {c}
    PROVE  Fresh(e)
<1>1. streams[e].phase \notin Holding /\ streams[e].phase \in Phases
  BY HoldsTheSession, Zenon DEF SessionBase, TaskSound, StreamType
<1> QED
  BY <1>1, Zenon DEF Holding, Phases, Fresh

LEMMA TaskKeepsDial ==
    ASSUME SessionBase, SessionBase', SessionInv, SessionTypes', RowMoves, NEW c \in Stream,
           TaskEffect(c), UNCHANGED <<client, saved>>
    PROVE  DialInv'
<1> SUFFICES ASSUME client.link = "dialing" PROVE DialInv'
  BY Zenon DEF DialInv
<1> DEFINE k == client.conn
           old == net[k].down
           new == net'[k].down
<1>1. k \in Stream /\ client.hello \in HelloType
  BY DEF SessionInv, SessionTypes
<1>2. client.hello.resume # None => Backed(TokenSequence(client.hello.resume.token), Row', saved)
  <2>1. client.hello.resume # None => TokenSequence(client.hello.resume.token) \in Nat
    BY <1>1, TokenOfSequence DEF HelloType, Proofs
  <2> QED
    BY <2>1, StaysBacked, Zenon DEF SessionInv, DialInv
<1>3. /\ NetEffect(c) /\ TaskMoves(c)
      /\ \A e \in Stream \ {c} : (Fresh(e) => Fresh(e)') /\ net'[e] = net[e]
  BY Zenon DEF TaskEffect, NetEffect, TaskMoves, Fresh
<1>4. \A e \in Stream : Fresh(e) => Fresh(e)'
  BY <1>3 DEF TaskMoves
<1>5. Fresh(k)'
  BY <1>1, <1>4, Zenon DEF SessionInv, DialInv
<1>6. ASSUME NEW j \in DOMAIN old, IsAccepted(old[j])
      PROVE  /\ \A e \in Stream : Fresh(e)' /\ Row' = Row
             /\ streams'[k].phase \notin {"open", "acquired"}
  <2>1. (\A e \in Stream : Fresh(e)) /\ streams[k].phase \notin {"open", "acquired"}
    BY <1>6, Zenon DEF SessionInv, DialInv
  <2>2. UNCHANGED vars
    BY <1>3, <2>1 DEF TaskMoves
  <2> QED
    BY <1>1, <1>3, <1>4, <2>1, <2>2, Zenon DEF TaskMoves, vars, Row
<1>7. ASSUME NEW i \in DOMAIN new, IsAccepted(new[i])
      PROVE  /\ \A e \in Stream : Fresh(e)'
             /\ streams'[k].phase \notin {"open", "acquired"}
             /\ new[i] = Accepted(Row')
  <2>1. CASE \E j \in DOMAIN old : new[i] = old[j]
    <3>1. PICK j \in DOMAIN old : new[i] = old[j]
      BY <2>1, Zenon
    <3>2. IsAccepted(old[j])
      BY <1>7, <3>1, Zenon
    <3>3. old[j] = Accepted(Row)
      BY <3>2, Zenon DEF SessionInv, DialInv
    <3> HIDE DEF old, new, k
    <3> QED
      BY <1>6, <3>1, <3>2, <3>3, Zenon
  <2>2. CASE k = c /\ AnswerSound(c, new[i])
    <3>1. /\ new[i] = Accepted(Row') /\ streams[c].phase \in Holding
          /\ streams'[c].phase = "idle"
      BY <1>7, <2>2, Zenon DEF AnswerSound
    <3>2. \A e \in Stream \ {c} : Fresh(e)
      BY <3>1, OthersFresh, Zenon
    <3> QED
      BY <1>4, <1>5, <2>2, <3>1, <3>2, Zenon
  <2>3. CASE k # c
    BY <1>1, <1>3, <1>7, <2>1, <2>3
  <2> QED
    BY <1>3, <1>7, <2>1, <2>2, <2>3, Zenon DEF NetEffect
<1> QED
  BY <1>2, <1>5, <1>7 DEF DialInv

LEMMA TaskKeepsChannels ==
    ASSUME SessionBase, SessionInv, NEW c \in Stream, TaskEffect(c), UNCHANGED client
    PROVE  ChannelInv' /\ ReachInv'
<1>1. /\ \A e \in Stream \ {c} : streams'[e] = streams[e] /\ net'[e] = net[e]
      /\ net'[c].live = net[c].live /\ (~net[c].live => net'[c].down = <<>>)
      /\ Len(net'[c].up) <= Len(net[c].up)
      /\ \A i \in DOMAIN net'[c].up : \E j \in DOMAIN net[c].up : net'[c].up[i] = net[c].up[j]
      /\ streams'[c].phase \in {"open", "acquired"} => streams[c].phase \in {"open", "acquired"}
      /\ streams'[c].phase \in Holding => streams[c].phase \in Holding \cup {"open"}
  BY Zenon DEF TaskEffect, NetEffect, TaskMoves
<1>2. /\ net[c].up \in Seq(RequestType) /\ net'[c].up \in Seq(RequestType)
  BY Zenon DEF SessionInv, SessionTypes, ChannelType, TaskEffect, NetEffect
<1>3. ASSUME NEW e \in Stream
      PROVE  /\ streams'[e].phase \in {"open", "acquired"} =>
                   /\ Len(net'[e].up) <= 1
                   /\ \A i \in DOMAIN net'[e].up : net'[e].up[i].kind = "hello"
             /\ ~net'[e].live => net'[e].down = <<>>
             /\ net'[e].live => e = client.conn
  <2>1. CASE e # c
    BY <1>1, <2>1, Zenon DEF SessionInv, ChannelInv
  <2>2. CASE e = c
    <3>1. streams[c].phase \in {"open", "acquired"} =>
              /\ Len(net[c].up) <= 1
              /\ \A i \in DOMAIN net[c].up : net[c].up[i].kind = "hello"
      BY Zenon DEF SessionInv, ChannelInv
    <3>2. net[c].live => c = client.conn
      BY Zenon DEF SessionInv, ChannelInv
    <3>3. Len(net[c].up) <= 1 => Len(net'[c].up) <= 1
      BY <1>1, <1>2
    <3> QED
      BY <1>1, <2>2, <3>1, <3>2, <3>3, Zenon
  <2> QED
    BY <2>1, <2>2
<1>4. client.link = "up" => streams'[client.conn].phase \notin {"open", "acquired"}
  BY <1>1, Zenon DEF SessionInv, ChannelInv, SessionTypes
<1>5. ChannelInv'
  BY <1>3, <1>4, Zenon DEF ChannelInv
<1>6. ReachInv'
  <2> SUFFICES ASSUME Ready, NEW e \in Stream, streams'[e].phase \in Holding,
                      NEW i \in DOMAIN net'[e].up, net'[e].up[i].kind = "ack"
               PROVE  net'[e].up[i].ack.seq <= t.ackseq + 1
    BY Zenon DEF ReachInv, Ready, t
  <2>1. CASE e # c
    BY <1>1, <2>1, Zenon DEF SessionInv, ReachInv
  <2>2. CASE e = c
    <3>1. PICK j \in DOMAIN net[c].up : net'[c].up[i] = net[c].up[j]
      BY <1>1, <2>2, Zenon
    <3>2. streams[c].phase \in Holding
      <4>1. streams[c].phase # "open"
        BY <2>2, <3>1 DEF SessionInv, ChannelInv
      <4> QED
        BY <1>1, <2>2, <4>1, Zenon
    <3> QED
      BY <2>2, <3>1, <3>2, Zenon DEF SessionInv, ReachInv
  <2> QED
    BY <2>1, <2>2, Zenon
<1> QED
  BY <1>5, <1>6

\* A step of a task keeps the invariant.
LEMMA TaskKeeps ==
    ASSUME SessionBase, SessionBase', RowMoves, OffersTyped, SessionInv,
           NEW c \in Stream, ServiceStep(c)
    PROVE  SessionInv'
<1>1. UNCHANGED <<client, saved, ingested>>
  BY DEF ServiceStep
<1>2. TaskEffect(c)
  BY TaskStepEffect, Zenon DEF SessionInv
<1>3. AckIsBacked /\ (RowAcks /\ Ready => Row.pending.seq <= t.ackseq + 1)
  BY <1>2, AckServedFacts, Zenon DEF TaskEffect, TaskMoves
<1>4. SessionTypes' /\ CallInv'
  BY <1>1, <1>2 DEF SessionInv, SessionTypes, CallInv, TaskEffect, NetEffect, Ready, t
<1>5. ChannelInv' /\ ReachInv'
  BY <1>1, <1>2, TaskKeepsChannels, Zenon
<1>6. TransitInv'
  <2> SUFFICES ASSUME NEW e \in Stream
               PROVE  /\ \A i \in DOMAIN net'[e].up : RequestBacked(net'[e].up[i], Row', saved)
                      /\ \A i \in DOMAIN net'[e].down :
                            AnswerGenuine(net'[e].down[i], Row', History')
    BY <1>1, Zenon DEF TransitInv
  <2>1. /\ \A i \in DOMAIN net[e].up : RequestBacked(net[e].up[i], Row', saved)
        /\ \A i \in DOMAIN net[e].down : AnswerGenuine(net[e].down[i], Row', History')
    BY TransitStays DEF SessionInv
  <2>2. CASE e # c
    BY <1>2, <2>1, <2>2, Zenon DEF TaskEffect, NetEffect
  <2>3. CASE e = c
    BY <1>2, <2>1, <2>3, Zenon DEF TaskEffect, NetEffect, AnswerSound
  <2> QED
    BY <2>2, <2>3
<1>7. StandingInv'
  <2>1. ASSUME Ready PROVE Standing(t, Row', History', saved, ingested)
    <3>1. t \in TransportType /\ Standing(t, Row, History, saved, ingested)
      BY <2>1, Zenon DEF SessionInv, SessionTypes, StandingInv
    <3> QED
      BY <1>3, <2>1, <3>1, StaysStanding, Zenon
  <2> QED
    BY <1>1, <2>1, Zenon DEF StandingInv, Ready, t
<1>8. SavedInv'
  BY <1>1, <1>3, StaysSaved DEF SessionInv, SavedInv, SessionTypes
<1>9. DialInv'
  BY <1>1, <1>2, <1>4, TaskKeepsDial
<1> QED
  BY <1>4, <1>5, <1>6, <1>7, <1>8, <1>9 DEF SessionInv

\* The process that serves the session starts again.
LEMMA RestartKeeps ==
    ASSUME SessionBase, SessionInv, ServiceRestart
    PROVE  SessionInv'
<1>1. /\ UNCHANGED <<client, saved, ingested, vars>> /\ Row' = Row /\ History' = History
      /\ \A c \in Stream : streams'[c].phase = "closed"
      /\ net' = [c \in Stream |-> [net[c] EXCEPT !.up = <<>>]]
  BY Zenon DEF ServiceRestart, Restart, Closed, vars, Row, History
<1>2. \A c \in Stream : net[c] \in ChannelType
  BY DEF SessionInv, SessionTypes
<1>3. \A c \in Stream :
          /\ net'[c] \in ChannelType /\ net'[c].up = <<>> /\ net'[c].down = net[c].down
          /\ net'[c].live = net[c].live
  <2> SUFFICES ASSUME NEW c \in Stream
               PROVE  /\ net'[c] \in ChannelType /\ net'[c].up = <<>>
                      /\ net'[c].down = net[c].down /\ net'[c].live = net[c].live
    BY Zenon
  <2>1. net'[c] = [net[c] EXCEPT !.up = <<>>] /\ net[c] \in ChannelType
    BY <1>1, <1>2
  <2>2. <<>> \in Seq(RequestType)
    OBVIOUS
  <2> QED
    BY <2>1, <2>2, Zenon DEF ChannelType
<1>4. SessionTypes'
  <2>1. net' \in [Stream -> ChannelType]
    BY <1>1, <1>3, Zenon
  <2> QED
    BY <1>1, <2>1 DEF SessionInv, SessionTypes, Ready, t
<1>5. CallInv' /\ StandingInv' /\ SavedInv'
  BY <1>1, Zenon DEF SessionInv, CallInv, StandingInv, SavedInv, Ready, t
<1>6. ChannelInv' /\ ReachInv'
  BY <1>1, <1>3 DEF SessionInv, ChannelInv, ReachInv, Holding, SessionTypes
<1>7. TransitInv'
  BY <1>1, <1>3 DEF SessionInv, TransitInv
<1>8. DialInv'
  <2> SUFFICES ASSUME client.link = "dialing" PROVE DialInv'
    BY <1>1, Zenon DEF DialInv
  <2>1. client.conn \in Stream /\ net'[client.conn].down = net[client.conn].down
    BY <1>3, Zenon DEF SessionInv, SessionTypes
  <2>2. \A c \in Stream : Fresh(c)'
    BY <1>1 DEF Fresh
  <2> QED
    BY <1>1, <2>1, <2>2, Zenon DEF SessionInv, DialInv
<1> QED
  BY <1>4, <1>5, <1>6, <1>7, <1>8 DEF SessionInv

(***************************************************************************)
(* The first state                                                         *)
(***************************************************************************)
LEMMA FirstState ==
    ASSUME SessionBase, SessionInit
    PROVE  SessionInv
<1>1. /\ client = NoClient /\ net = [c \in Stream |-> Silent] /\ saved = None
      /\ ingested = <<>> /\ \A c \in Stream : streams[c] = Closed
  BY Zenon DEF SessionInit, ServiceInit
<1>2. Row.runtime = None
  BY OneSession, Zenon DEF SessionInit, ServiceInit, Init, EmptyRow, Row
<1>3. Silent \in ChannelType /\ ~Silent.live /\ Silent.up = <<>> /\ Silent.down = <<>>
  <2>1. <<>> \in Seq(RequestType) /\ <<>> \in Seq(AnswerType)
    OBVIOUS
  <2> QED
    BY <2>1 DEF Silent, ChannelType
<1>4. \A c \in Stream : net[c] = Silent
  BY <1>1, Zenon
<1>5. NoClient \in ClientType /\ ~Ready /\ client.op = "none" /\ client.link = "down"
      /\ client.conn = None
  BY <1>1, Zenon DEF NoClient, ClientType, Ready
<1>6. SessionTypes /\ CallInv
  <2>1. net \in [Stream -> ChannelType] /\ ingested \in Seq(DeliveryType)
    BY <1>1, <1>3
  <2>2. client \in ClientType /\ saved \in Proofs \cup {None}
    BY <1>1, <1>5, Zenon
  <2> QED
    BY <1>5, <2>1, <2>2, Zenon DEF SessionTypes, CallInv
<1>7. ChannelInv
  BY <1>3, <1>4, <1>5 DEF ChannelInv
<1>8. TransitInv
  BY <1>3, <1>4 DEF TransitInv
<1>9. ReachInv /\ StandingInv /\ DialInv
  BY <1>5, Zenon DEF ReachInv, StandingInv, DialInv
<1>10. SavedInv
  BY <1>1, <1>2, Zenon DEF SavedInv, SavedAt
<1> QED
  BY <1>6, <1>7, <1>8, <1>9, <1>10 DEF SessionInv

(***************************************************************************)
(* The feed                                                                *)
(***************************************************************************)
FeedOf(hist, row) == hist \o (IF row.pending = None THEN <<>> ELSE <<row.pending>>)

LEMMA FeedShape ==
    ASSUME NEW hist \in Seq(DeliveryType), NEW row, row.pending \in DeliveryType \cup {None}
    PROVE  /\ row.pending = None => FeedOf(hist, row) = hist
           /\ row.pending # None =>
                 /\ FeedOf(hist, row) = Append(hist, row.pending)
                 /\ Len(FeedOf(hist, row)) = Len(hist) + 1
                 /\ FeedOf(hist, row)[Len(FeedOf(hist, row))] = row.pending
<1>1. CASE row.pending = None
  BY <1>1 DEF FeedOf
<1>2. CASE row.pending # None
  <2> DEFINE d == row.pending
  <2>1. d \in DeliveryType /\ FeedOf(hist, row) = hist \o <<d>>
    BY <1>2 DEF FeedOf
  <2> HIDE DEF d
  <2>2. hist \o <<d>> = Append(hist, d)
    BY <2>1
  <2> QED
    BY <1>2, <2>1, <2>2 DEF d
<1> QED
  BY <1>1, <1>2

\* The steps of the feed, spelled out.
LEMMA FeedSteps ==
    ASSUME NEW old, NEW new, old = FeedOf(History, Row), new = FeedOf(History', Row')
    PROVE  /\ /\ ~(Len(History) < Len(old)) /\ Len(new) = Len(old) + 1
              /\ new = Append(old, new[Len(new)]) /\ new[Len(new)].seq = Len(new)
              /\ ingested' = ingested /\ Len(History') = Len(History)
              => Feed!Offer
           /\ /\ Len(History) < Len(old) /\ ~old[Len(old)].neutral
              /\ ~(ingested # <<>> /\ ingested[Len(ingested)] = old[Len(old)])
              /\ ingested' = Append(ingested, old[Len(old)])
              /\ new = old /\ Len(History') = Len(History)
              => Feed!Take
           /\ /\ Len(History) < Len(old)
              /\ \/ old[Len(old)].neutral
                 \/ ingested # <<>> /\ ingested[Len(ingested)] = old[Len(old)]
              /\ Len(History') = Len(old) /\ new = old /\ ingested' = ingested
              => Feed!Commit
           /\ new = old /\ ingested' = ingested /\ Len(History') = Len(History)
              => UNCHANGED Feed!feedVars
  BY Zenon
  DEF Feed!Offer, Feed!Take, Feed!Commit, Feed!HoldsLast, Feed!Open, Feed!Last, Feed!feedVars,
      FeedOf, History

\* The saved position tells which delivery was taken last.
LEMMA SavedTellsTaken ==
    ASSUME SessionBase, SessionInv, Row.pending # None, saved = PositionOf(Row.pending)
    PROVE  ingested # <<>> /\ ingested[Len(ingested)] = Row.pending
<1> DEFINE last == ingested[Len(ingested)]
           d == Row.pending
<1>1. /\ d \in DeliveryType /\ d.seq = AckedSequence(Row) + 1 /\ AckedSequence(Row) \in Nat
      /\ d.token = Token(d.seq) /\ d.seq \in 1..MaxSequence /\ d.cursor.head \in OptBlock
  <2>1. /\ d \in DeliveryType /\ d.seq = AckedSequence(Row) + 1
        /\ AckedSequence(Row) \in 0..MaxSequence /\ d.token = Token(d.seq)
    BY RowFacts, Zenon DEF RowSound
  <2> HIDE DEF d
  <2>2. d.seq \in 1..MaxSequence /\ d.cursor \in Cursor
    BY <2>1, Zenon DEF DeliveryType
  <2> QED
    BY <2>1, <2>2, BoundAssumption DEF Cursor
<1>2. PositionOf(d) \in Proofs /\ PositionOf(d).token = d.token
  BY <1>1, Zenon DEF PositionOf, Proofs
<1>3. ingested # <<>>
  BY <1>2, SessionAssumption, Zenon DEF SessionInv, SavedInv, SavedAt
<1>4. /\ ingested \in Seq(DeliveryType) /\ saved = PositionOf(last)
      /\ \/ d = last
         \/ /\ Row.runtime # None /\ Row.runtime = last.cursor
            /\ last.token = Token(last.seq) /\ last.cursor.seq = last.seq
  BY <1>3, Zenon DEF SessionInv, SessionTypes, SavedInv, SavedAt
<1>5. last \in DeliveryType
  BY <1>3, <1>4
<1> HIDE DEF last, d
<1>6. CASE /\ Row.runtime # None /\ Row.runtime = last.cursor
           /\ last.token = Token(last.seq) /\ last.cursor.seq = last.seq
  <2>1. Row.runtime.seq <= AckedSequence(Row)
    BY <1>6, RuntimeIsAcknowledged, Zenon
  <2>2. last.token = d.token /\ last.seq \in Nat /\ d.seq \in Nat
    BY <1>1, <1>4, <1>5, BoundAssumption DEF PositionOf, DeliveryType, d
  <2>3. TokenSequence(Token(last.seq)) = last.seq /\ TokenSequence(Token(d.seq)) = d.seq
    BY <2>2, TokenOfSequence
  <2>4. last.seq = d.seq
    BY <1>1, <1>6, <2>2, <2>3, Zenon
  <2> QED
    BY <1>1, <1>6, <2>1, <2>2, <2>4
<1> QED
  BY <1>3, <1>4, <1>6, Zenon DEF last, d

LEMMA FeedMoves ==
    ASSUME SessionBase, SessionBase', SessionInv, RowMoves, AckIsBacked, UNCHANGED ingested
    PROVE  [Feed!FeedNext]_Feed!feedVars
<1> PICK old, new : old = FeedOf(History, Row) /\ new = FeedOf(History', Row')
  BY Zenon
<1>1. /\ History \in Seq(DeliveryType) /\ Row.pending \in DeliveryType \cup {None}
      /\ History' \in Seq(DeliveryType) /\ Row'.pending \in DeliveryType \cup {None}
  BY RowFacts, RowFactsNext, Zenon DEF RowSound, RowType
<1>2. CASE RowStays
  BY <1>2, FeedSteps, Zenon DEF RowStays
<1>3. CASE RowOffers
  <2>1. old = History /\ new = Append(History, Row'.pending) /\ Len(new) = Len(History) + 1
        /\ new[Len(new)] = Row'.pending /\ Len(History') = Len(History)
    BY <1>1, <1>3, FeedShape, Zenon DEF RowOffers
  <2>2. Row'.pending.seq = Len(new)
    BY <1>3, <2>1, RowFactsNext, Zenon DEF RowSound, RowOffers
  <2>3. Len(History) \in Nat
    BY <1>1
  <2>4. Feed!Offer
    BY <2>1, <2>2, <2>3, FeedSteps
  <2> QED
    BY <2>4, Zenon DEF Feed!FeedNext
<1>4. CASE RowAcks
  <2>1. /\ old = Append(History, Row.pending) /\ Len(old) = Len(History) + 1
        /\ old[Len(old)] = Row.pending /\ new = old /\ Len(History') = Len(old)
    BY <1>1, <1>4, FeedShape, Zenon DEF RowAcks
  <2>2. Row.pending.neutral \/ (ingested # <<>> /\ ingested[Len(ingested)] = Row.pending)
    BY <1>4, SavedTellsTaken, Zenon DEF AckIsBacked, RowAcks
  <2>3. Len(History) \in Nat
    BY <1>1
  <2>4. Feed!Commit
    BY <2>1, <2>2, <2>3, FeedSteps
  <2> QED
    BY <2>4, Zenon DEF Feed!FeedNext
<1> QED
  BY <1>2, <1>3, <1>4 DEF RowMoves

LEMMA IngestTakes ==
    ASSUME SessionBase, SessionInv, Ingest
    PROVE  Feed!Take
<1> PICK old, new : old = FeedOf(History, Row) /\ new = FeedOf(History', Row')
  BY Zenon
<1>1. /\ History \in Seq(DeliveryType) /\ Row.pending \in DeliveryType \cup {None}
  BY RowFacts, Zenon DEF RowSound, RowType
<1>2. /\ Row.pending = t.inflight /\ Row.pending # None /\ ~Row.pending.neutral
      /\ ingested' = Append(ingested, Row.pending) /\ saved # PositionOf(Row.pending)
      /\ Row' = Row /\ History' = History
  BY TakesOutbox, Zenon DEF Ingest, serviceVars, vars, Row, History
<1>3. ingested # <<>> => ingested[Len(ingested)] # Row.pending
  BY <1>2, Zenon DEF SessionInv, SavedInv, SavedAt
<1>4. Len(old) = Len(History) + 1 /\ old[Len(old)] = Row.pending /\ Len(History) \in Nat
  BY <1>1, <1>2, FeedShape
<1>5. new = old /\ Len(History) < Len(old) /\ Len(History') = Len(History)
  BY <1>2, <1>4
<1> QED
  BY <1>2, <1>3, <1>4, <1>5, FeedSteps, Zenon

(***************************************************************************)
(* Every step                                                              *)
(***************************************************************************)
LEMMA SessionIsService ==
    ASSUME SessionTypes, [SessionNext]_sessionVars
    PROVE  [ServiceNext]_serviceVars
<1>1. CASE \E c \in Stream : ServiceStep(c)
  BY <1>1, TaskIsService
<1>2. CASE ServiceRestart
  BY <1>2 DEF ServiceRestart, ServiceNext
<1>3. CASE ClientStep
  BY <1>3, ClientIsService, Zenon DEF ServiceNext, React
<1>4. CASE UNCHANGED sessionVars
  BY <1>4 DEF sessionVars
<1> QED
  BY <1>1, <1>2, <1>3, <1>4, Zenon DEF SessionNext

LEMMA SessionKeeps ==
    ASSUME SessionBase, SessionBase', RowMoves, OffersTyped, SessionInv,
           [SessionNext]_sessionVars
    PROVE  SessionInv'
<1>1. CASE UNCHANGED sessionVars
  <2>1. /\ UNCHANGED <<rows, log, streams, client, net, saved, ingested>>
    BY <1>1, Zenon DEF sessionVars, serviceVars, vars
  <2>2. Row' = Row /\ History' = History /\ Ready' = Ready /\ t' = t
    BY <2>1, Zenon DEF Row, History, Ready, t
  <2>3. SessionTypes' /\ CallInv' /\ ChannelInv'
    BY <2>1, <2>2 DEF SessionInv, SessionTypes, CallInv, ChannelInv
  <2>4. TransitInv' /\ ReachInv' /\ StandingInv' /\ SavedInv'
    BY <2>1, <2>2, Zenon DEF SessionInv, TransitInv, ReachInv, StandingInv, SavedInv
  <2>5. DialInv'
    BY <2>1, <2>2, Zenon DEF SessionInv, DialInv, Fresh
  <2> QED
    BY <2>3, <2>4, <2>5, Zenon DEF SessionInv
<1> QED
  BY <1>1, TaskKeeps, RestartKeeps, ClientKeeps, Zenon DEF SessionNext

LEMMA FeedStep ==
    ASSUME SessionBase, SessionBase', RowMoves, OffersTyped, SessionInv,
           [SessionNext]_sessionVars
    PROVE  [Feed!FeedNext]_Feed!feedVars
<1>1. ASSUME NEW c \in Stream, ServiceStep(c) PROVE [Feed!FeedNext]_Feed!feedVars
  <2>1. TaskEffect(c) /\ UNCHANGED ingested
    BY <1>1, TaskStepEffect, Zenon DEF SessionInv, ServiceStep
  <2>2. AckIsBacked
    BY <2>1, AckServedFacts DEF TaskEffect, TaskMoves
  <2> QED
    BY <2>1, <2>2, FeedMoves, Zenon
<1>2. CASE UNCHANGED <<vars, ingested>>
  <2>1. Row' = Row /\ UNCHANGED ingested
    BY <1>2, Zenon DEF vars, Row
  <2>2. AckIsBacked
    BY <2>1 DEF AckIsBacked, RowAcks
  <2> QED
    BY <2>1, <2>2, FeedMoves
<1>3. CASE Ingest
  BY <1>3, IngestTakes DEF Feed!FeedNext
<1>4. ServiceRestart \/ UNCHANGED sessionVars => UNCHANGED <<vars, ingested>>
  BY Zenon DEF ServiceRestart, Restart, sessionVars, serviceVars
<1>5. ClientStep => Ingest \/ UNCHANGED <<vars, ingested>>
  <2>1. ASSUME NEW c \in Stream, Construct(c) \/ Reconnect(c) PROVE UNCHANGED <<vars, ingested>>
    BY <2>1 DEF Construct, Reconnect, Opening, Connect
  <2>2. ClientStep => \/ \E c \in Stream : Construct(c) \/ Reconnect(c)
                      \/ Ingest \/ UNCHANGED <<serviceVars, ingested>>
    BY Zenon
    DEF ClientStep, Handshake, HandshakeFails, LoseStream, PresentPosition, CallRestore,
        CallApply, CallNext, CallAck, Call, SendRequest, Send, Receive, TakeBuffered, Cancel,
        ClientCrash
  <2> QED
    BY <2>1, <2>2 DEF serviceVars
<1> QED
  BY <1>1, <1>2, <1>3, <1>4, <1>5, Zenon DEF SessionNext

\* The position the client saved is the runtime checkpoint or the outbox item,
\* which are the two that validate_hello_position confirms.
LEMMA SavedIsConfirmed ==
    ASSUME SessionBase, SessionInv
    PROVE  RestartAccepted
<1> DEFINE last == ingested[Len(ingested)]
<1>1. Row.runtime # None => Row.runtime.seq <= AckedSequence(Row)
  BY RowFacts DEF RowSound, ValidatePersistedSession, ValidateCursors, EmptyRow, AckedSequence
<1>2. CASE saved = None
  <2>1. ingested = <<>> /\ Row.runtime = None
    <3>1. CASE ingested # <<>>
      <4>1. /\ ingested \in Seq(DeliveryType) /\ saved = PositionOf(last)
            /\ Row.pending = last \/ last.token = Token(last.seq)
        BY <3>1, Zenon DEF SessionInv, SessionTypes, SavedInv, SavedAt
      <4>2. last \in DeliveryType /\ last # None
        BY <3>1, <4>1, NoneAssumption
      <4> HIDE DEF last
      <4>3. last.token = Token(last.seq)
        BY <4>1, <4>2, RowFacts, Zenon DEF RowSound
      <4>4. last.seq \in 1..MaxSequence /\ last.cursor.head \in OptBlock
        BY <4>2, Zenon DEF DeliveryType, Cursor
      <4>5. PositionOf(last) \in Proofs
        BY <4>3, <4>4, Zenon DEF PositionOf, Proofs
      <4> QED
        BY <1>2, <4>1, <4>5, SessionAssumption, Zenon
    <3> QED
      BY <3>1, Zenon DEF SessionInv, SavedInv, SavedAt
  <2> QED
    BY <1>2, <2>1, Zenon DEF RestartAccepted, HelloPosition, SequenceOf
<1>3. CASE saved # None
  <2>1. /\ ingested # <<>> /\ ingested \in Seq(DeliveryType) /\ saved = PositionOf(last)
        /\ \/ Row.pending = last
           \/ /\ Row.runtime # None /\ Row.runtime = last.cursor
              /\ last.token = Token(last.seq) /\ last.cursor.seq = last.seq
    BY <1>3, Zenon DEF SessionInv, SessionTypes, SavedInv, SavedAt
  <2>2. last \in DeliveryType /\ last # None
    BY <2>1, NoneAssumption
  <2>3. last.token = Token(last.seq) /\ last.seq \in 1..MaxSequence
    BY <2>1, <2>2, RowFacts, Zenon DEF RowSound, DeliveryType
  <2>4. saved.token = last.token /\ saved.head = last.cursor.head
    BY <2>1, Zenon DEF PositionOf
  <2> HIDE DEF last
  <2>5. TokenSequence(saved.token) = last.seq /\ last.seq \in Nat
    BY <2>3, <2>4, TokenOfSequence, BoundAssumption
  <2>6. CASE Row.pending = last
    <3>1. /\ Row.pending # None /\ Row.pending.seq = AckedSequence(Row) + 1
          /\ AckedSequence(Row) \in Nat
      BY <2>2, <2>6, RowFacts DEF RowSound
    <3>2. HasNextSequence(Row) /\ NextSequence(Row) = last.seq
      BY <2>3, <2>6, <3>1, BoundAssumption DEF HasNextSequence, NextSequence
    <3>3. last.seq # SequenceOf(Row.runtime)
      <4>1. /\ Row.runtime # None => /\ Row.runtime.seq <= AckedSequence(Row)
                                     /\ Row.runtime.seq \in Nat
            /\ last.seq = AckedSequence(Row) + 1
        BY <2>6, <3>1, RuntimeIsAcknowledged, Zenon
      <4>2. 0 # last.seq /\ (Row.runtime # None => Row.runtime.seq # last.seq)
        BY <3>1, <4>1
      <4> QED
        BY <4>2, Zenon DEF SequenceOf
    <3> QED
      BY <1>3, <2>4, <2>5, <2>6, <3>1, <3>2, <3>3
      DEF RestartAccepted, HelloPosition, ResumeMatchesCursor
  <2>7. CASE /\ Row.runtime # None /\ Row.runtime = last.cursor
             /\ last.token = Token(last.seq) /\ last.cursor.seq = last.seq
    BY <1>3, <2>4, <2>5, <2>7
    DEF RestartAccepted, HelloPosition, ResumeMatchesCursor, SequenceOf
  <2> QED
    BY <2>1, <2>6, <2>7, Zenon
<1> QED
  BY <1>2, <1>3, Zenon
=============================================================================
