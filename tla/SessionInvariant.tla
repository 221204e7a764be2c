-------------------------- MODULE SessionInvariant --------------------------
(***************************************************************************)
(* The inductive invariant of RemoteSession.                               *)
(*                                                                         *)
(* The argument does not depend on which answer a call reads.  It follows  *)
(* what the messages in transit and the fields of the client say about the *)
(* row: an acknowledgement is backed by saved effects (Backed), a delivery *)
(* is durable (Genuine), and the client is at most one acknowledgement     *)
(* behind the store (Standing), because a stream is accepted only when     *)
(* nothing is left that could move the row (Fresh).                        *)
(***************************************************************************)
EXTENDS RemoteSession

(***************************************************************************)
(* Types                                                                   *)
(***************************************************************************)
HelloType == [kind : {"hello"}, resume : Proofs \cup {None}, seq : 0..MaxSequence]

RequestType ==
    HelloType \cup [kind : {"apply"}, request : Requests]
              \cup [kind : {"ack"}, ack : Acknowledgements] \cup [kind : {"demand"}]

AcceptedFields ==
    [rev : Revisions, desired : Requests \cup {None}, acked : Cursor \cup {None},
     runtime : Cursor \cup {None}]

DeliveryAnswer == [kind : {"delivery"}, d : DeliveryType]

AnswerType ==
    [kind : {"error"}, retryable : BOOLEAN]
    \cup [kind : {"accepted"}, rev : Revisions, desired : Requests \cup {None},
          acked : Cursor \cup {None}, runtime : Cursor \cup {None}]
    \cup [kind : {"applied"}, rev : Revisions, activation : 0..MaxSequence]
    \cup [kind : {"committed"}, seq : Nat, cursor : Cursor]
    \cup DeliveryAnswer

ChannelType ==
    [live : BOOLEAN, up : Seq(RequestType), down : Seq(AnswerType), retryable : BOOLEAN]

TransportType ==
    [accepted : AcceptedFields, ackseq : 0..MaxSequence, helloseq : 0..MaxSequence,
     apply : [sent : BOOLEAN, value : Requests] \cup {None},
     ack : [sent : BOOLEAN, value : Acknowledgements] \cup {None},
     demand : BOOLEAN, inflight : DeliveryType \cup {None}, buffered : Seq(DeliveryAnswer),
     confirm : BOOLEAN, rehello : BOOLEAN, resume : Proofs \cup {None}]

ClientType ==
    [phase : {"off", "new", "ready"}, op : {"none", "apply", "next", "ack"},
     link : {"down", "dialing", "up"}, conn : Stream \cup {None}, hello : HelloType \cup {None},
     t : TransportType \cup {None}, fault : BOOLEAN, dropped : BOOLEAN]

SessionTypes ==
    /\ net \in [Stream -> ChannelType]
    /\ client \in ClientType
    /\ Ready => t \in TransportType
    /\ client.link # "down" => client.conn \in Stream
    /\ client.link = "down" => client.conn = None
    /\ client.link = "dialing" => client.hello \in HelloType
    /\ saved \in Proofs \cup {None}
    /\ ingested \in Seq(DeliveryType)

\* What a call in progress has recorded.
CallInv ==
    /\ client.link = "up" => Ready
    /\ ~Ready => client.op = "none"
    /\ client.op = "apply" => t.apply # None
    /\ client.op = "ack" => t.ack # None
    /\ client.op = "next" => t.ack = None /\ t.inflight = None

(***************************************************************************)
(* Authority                                                               *)
(***************************************************************************)
History == log[TheSession]

\* The sequence may be acknowledged: it is already, or it is that of the outbox
\* item, whose effects (if it has any) are saved.
Backed(n, row, position) ==
    \/ n <= AckedSequence(row)
    \/ /\ row.pending # None /\ n = row.pending.seq
       /\ row.pending.neutral \/ position = PositionOf(row.pending)

\* The delivery is one the store has made durable.
Genuine(d, row, hist) ==
    \/ d.seq <= Len(hist) /\ hist[d.seq] = d
    \/ row.pending = d

RequestBacked(m, row, position) == m.kind = "ack" => Backed(m.ack.seq, row, position)

AnswerGenuine(m, row, hist) ==
    /\ m.kind = "committed" => m.seq <= AckedSequence(row)
    /\ m.kind = "delivery" => Genuine(m.d, row, hist)

\* What is in transit, on whatever stream, is backed or genuine.
TransitInv ==
    \A c \in Stream :
        /\ \A i \in DOMAIN net[c].up : RequestBacked(net[c].up[i], Row, saved)
        /\ \A i \in DOMAIN net[c].down : AnswerGenuine(net[c].down[i], Row, History)

\* The client is at most one acknowledgement behind the store, and what it
\* holds or acknowledges is the delivery at that point.
Standing(tr, row, hist, position, taken) ==
    /\ tr.ackseq = CursorSequence(tr.accepted.acked)
    /\ AckedSequence(row) \in {tr.ackseq, tr.ackseq + 1}
    /\ tr.inflight # None =>
          /\ tr.inflight.seq \in {tr.ackseq, tr.ackseq + 1} /\ Genuine(tr.inflight, row, hist)
          /\ \/ row.pending = tr.inflight
             \/ tr.inflight.neutral \/ position = PositionOf(tr.inflight)
    /\ tr.ack # None =>
          /\ tr.ack.value.seq \in {tr.ackseq, tr.ackseq + 1}
          /\ Backed(tr.ack.value.seq, row, position)
          /\ tr.inflight # None => tr.ack.value.seq = tr.inflight.seq
    /\ tr.resume # None => Backed(TokenSequence(tr.resume.token), row, position)
    /\ \A i \in DOMAIN tr.buffered : Genuine(tr.buffered[i].d, row, hist)
    /\ taken # <<>> => taken[Len(taken)].seq <= tr.ackseq + 1

StandingInv == Ready => Standing(t, Row, History, saved, ingested)

\* The saved position is that of the last delivery taken, which is the one of
\* the runtime checkpoint or waits in the outbox to become it.
SavedAt(row, position, taken) ==
    IF taken = <<>> THEN position = None /\ row.runtime = None
    ELSE LET last == taken[Len(taken)] IN
         /\ position = PositionOf(last) /\ ~last.neutral
         /\ \/ row.pending = last
            \/ /\ row.runtime # None /\ row.runtime = last.cursor
               /\ last.token = Token(last.seq) /\ last.cursor.seq = last.seq

SavedInv == SavedAt(Row, saved, ingested)

(***************************************************************************)
(* Streams                                                                 *)
(***************************************************************************)
\* Before its Hello is answered a stream carries nothing else, and only the
\* stream the client holds carries answers.
ChannelInv ==
    /\ \A c \in Stream :
          /\ streams[c].phase \in {"open", "acquired"} =>
                Len(net[c].up) <= 1 /\ \A i \in DOMAIN net[c].up : net[c].up[i].kind = "hello"
          /\ ~net[c].live => net[c].down = <<>>
          /\ net[c].live => c = client.conn
    /\ client.link = "up" => streams[client.conn].phase \notin {"open", "acquired"}

\* The acknowledgements a task may still serve go no further than the next one.
ReachInv ==
    Ready => \A c \in Stream : streams[c].phase \in Holding =>
        \A i \in DOMAIN net[c].up :
            net[c].up[i].kind = "ack" => net[c].up[i].ack.seq <= t.ackseq + 1

\* The task has nothing to do that could change the row.
Fresh(c) ==
    /\ streams[c].phase \in {"closed", "closing", "open", "acquired", "restoring", "idle"}
    /\ streams[c].phase \in {"restoring", "idle"} => net[c].up = <<>> /\ ~streams[c].demanded

IsAccepted(m) == m.kind = "accepted"

\* An acceptance the client has not read yet describes the row as it still is:
\* no task of an earlier stream has a request left.
DialInv ==
    client.link = "dialing" =>
        LET down == net[client.conn].down IN
        /\ client.hello.resume # None =>
              Backed(TokenSequence(client.hello.resume.token), Row, saved)
        /\ Fresh(client.conn)
        /\ (\E i \in DOMAIN down : IsAccepted(down[i])) =>
              /\ \A c \in Stream : Fresh(c)
              /\ streams[client.conn].phase \notin {"open", "acquired"}
              /\ \A i \in DOMAIN down : IsAccepted(down[i]) => down[i] = Accepted(Row)

SessionInv ==
    /\ SessionTypes /\ CallInv /\ ChannelInv
    /\ TransitInv /\ ReachInv /\ StandingInv /\ SavedInv /\ DialInv

(***************************************************************************)
(* What the steps of the client and of the tasks need to know of the store *)
(***************************************************************************)
\* What the row of the session is known to be.
RowSound ==
    /\ Row \in RowType /\ ValidatePersistedSession(Row) /\ History \in Seq(DeliveryType)
    /\ AckedSequence(Row) \in 0..MaxSequence /\ AckedSequence(Row) = Len(History)
    /\ Row.pending # None =>
          /\ Row.pending \in DeliveryType /\ Row.pending.seq = AckedSequence(Row) + 1
          /\ Row.pending.token = Token(Row.pending.seq)
          /\ Row.pending.cursor.seq = Row.pending.seq
    /\ \A i \in DOMAIN History : History[i].seq = i
    /\ Row.acked = IF History = <<>> THEN None ELSE History[Len(History)].cursor

\* The last delivery acknowledged, if the runtime sees it, is the runtime's.
LastVisible ==
    History # <<>> /\ ~History[Len(History)].neutral =>
        Row.runtime = History[Len(History)].cursor

\* A task that holds a session holds this one, alone, and knows its row.
TaskSound(c) ==
    /\ streams[c].session = TheSession
    /\ \A e \in Stream \ {c} : streams[e].phase \notin Holding
    /\ streams[c].phase = "committed" => streams[c].request \in Requests
    /\ streams[c].phase = "idle" => streams[c].pending = (Row.pending # None)
    /\ streams[c].phase = "acked" => streams[c].cursor = Row.acked /\ Row.acked # None

\* What EventService keeps of the session, whatever its clients do.
SessionBase ==
    /\ RowSound /\ LastVisible
    /\ DOMAIN rows = Session /\ streams \in [Stream -> StreamType]
    /\ \A c \in Stream : streams[c].phase \in Holding => TaskSound(c)

(***************************************************************************)
(* What a step of the store does to the row of the session                 *)
(***************************************************************************)
RowStays == Row' = Row /\ History' = History

RowOffers ==
    /\ Row.pending = None /\ Row'.pending # None /\ Row'.pending \in DeliveryType
    /\ Row'.acked = Row.acked /\ Row'.runtime = Row.runtime /\ History' = History

RowAcks ==
    /\ Row.pending # None
    /\ Row'.acked = Row.pending.cursor /\ Row'.pending = None
    /\ Row'.runtime = (IF Row.pending.neutral THEN Row.runtime ELSE Row.pending.cursor)
    /\ History' = Append(History, Row.pending)

RowMoves == RowStays \/ RowOffers \/ RowAcks

\* What a task persists of the source's making is a delivery.
OffersTyped ==
    \A c \in Stream, position \in Positions, payload \in Payloads, neutral \in BOOLEAN :
        PersistAndSend(c, Produced(c, 1, position, payload, neutral)) =>
            Produced(c, 1, position, payload, neutral) \in DeliveryType
=============================================================================
