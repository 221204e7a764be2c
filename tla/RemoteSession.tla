---------------------------- MODULE RemoteSession ----------------------------
(***************************************************************************)
(* One client and the event service: the transport of EventTransport and   *)
(* the tasks of EventService, joined by streams that break at any moment.  *)
(* Messages of a stream arrive in order; when it breaks, the service may   *)
(* still read what was sent before, and the client loses what it has not   *)
(* read.                                                                   *)
(*                                                                         *)
(* The caller of the transport (the runtime, through RemoteSubscriber)     *)
(* saves the position of a delivery together with its effects and before   *)
(* it acknowledges it.  It may drop any call, and it may crash, keeping    *)
(* only the saved position.                                                *)
(*                                                                         *)
(* Left out: shutdown of the service, other clients of the session, and    *)
(* the number and the delays of reconnect attempts.                        *)
(***************************************************************************)
EXTENDS EventService, EventTransport

CONSTANTS
    Asks,          \* Asks[n]: the desired states the caller may ask for as revision n
    DropsAfter,    \* the caller drops a next_delivery that waits after this sequence
    LastData       \* the last sequence at which the source makes a delivery

ASSUME SessionAssumption ==
    /\ \E s \in Session : Session = {s}
    /\ Asks \in [1..MaxRevision -> SUBSET Topologies]
    /\ None \notin Stream \cup Proofs \cup [sent : BOOLEAN, value : Requests \cup Acknowledgements]

VARIABLES
    client,    \* the process that holds the transport
    net,       \* net[c]: what is in transit on stream c
    saved,     \* position the runtime has saved, None before the first
    ingested   \* deliveries whose effects the runtime has saved (history)

sessionVars == <<serviceVars, client, net, saved, ingested>>

NoClient ==
    [phase |-> "off", op |-> "none", link |-> "down", conn |-> None, hello |-> None,
     t |-> None, fault |-> FALSE, dropped |-> FALSE]

\* There is one session, and one client for it.
TheSession == CHOOSE s \in Session : TRUE
Row == rows[TheSession]

Silent == [live |-> FALSE, up |-> <<>>, down |-> <<>>, retryable |-> FALSE]

Error(retryable) == [kind |-> "error", retryable |-> retryable]

(***************************************************************************)
(* The service's side.  A handler starts with the message at the head of   *)
(* its stream and answers on the same stream.  A task that gives up ends   *)
(* its stream with a status and no message.  Two refusals are left out     *)
(* because RequestsServable shows that they never happen: of an operation  *)
(* before the position is confirmed, and of an acknowledgement.            *)
(***************************************************************************)
Msg(c, kind) == net[c].up # <<>> /\ Head(net[c].up).kind = kind
Message(c) == Head(net[c].up)

Sent(n, answers) == [n EXCEPT !.down = IF n.live THEN @ \o answers ELSE <<>>]
Consume(c, answers) ==
    net' = [net EXCEPT ![c] = [Sent(net[c], answers) EXCEPT !.up = Tail(net[c].up)]]
Reply(c, reply) == net' = [net EXCEPT ![c] = Sent(@, <<reply>>)]

\* A handler that ends in an error decides here whether it is retryable.
Remember(c, retryable) ==
    net' = [net EXCEPT ![c] = [net[c] EXCEPT !.up = Tail(net[c].up), !.retryable = retryable]]

Accepted(row) ==
    [kind |-> "accepted", rev |-> row.revision, desired |-> row.desired,
     acked |-> row.acked, runtime |-> row.runtime]

ServeHello(c) ==
    /\ Msg(c, "hello")
    /\ LET m == Message(c) IN
       \/ /\ \E s \in Session : AcquireLease(c, s)
          /\ UNCHANGED net
       \/ /\ streams[c].phase = "open"
          /\ Session \subseteq leases \/ Cardinality(leases) >= MaxActive
          /\ Consume(c, <<Error(TRUE)>>)
          /\ UNCHANGED serviceVars
       \/ RejectHello(c, m.seq, m.resume) /\ Consume(c, <<Error(FALSE)>>)
       \/ /\ AcceptHello(c, m.seq, m.resume)
          /\ LET row == rows[streams[c].session] IN
             Consume(c, IF row.desired = None THEN <<Accepted(row)>> ELSE <<>>)

Restored(c) == RestoreSource(c) /\ Reply(c, Accepted(rows[streams[c].session]))
NotRestored(c) == RestoreFails(c) /\ UNCHANGED net

\* Where the HyperSync source starts a revision: at the acknowledged head or
\* else at the retained baseline, which it refuses if the two differ.
PreparedPositions(acked, request) ==
    {p \in Positions :
        /\ p.head = ExpectedActivationHead(acked, request)
        /\ CanonicalBaseline(request) \in {None, p.head}}

ServeApply(c) ==
    /\ Msg(c, "apply")
    /\ LET request == Message(c).request IN
       \/ /\ \E position \in PreparedPositions(streams[c].cursor, request) :
                PrepareDesiredState(c, request, position)
          /\ Consume(c, <<>>)
       \/ /\ PrepareFails(c, request)
          /\ \E retryable \in BOOLEAN : Remember(c, retryable)

\* Only an occupied outbox is a retryable conflict.
Refused(c) ==
    LET row == rows[streams[c].session]
        request == streams[c].request
    IN  /\ RefuseDesiredState(c)
        /\ net' = [net EXCEPT ![c].retryable =
                      /\ row.pending # None /\ row.revision = request.expected
                      /\ request.new = request.expected + 1]

Aborted(c) ==
    /\ AbortCandidate(c)
    /\ IF streams[c].phase = "failing" THEN UNCHANGED net
       ELSE Reply(c, Error(net[c].retryable))
NotAborted(c) == AbortFails(c) /\ UNCHANGED net

Applied(c) ==
    /\ ActivateDesiredState(c)
    /\ Reply(c, [kind |-> "applied", rev |-> streams[c].request.new,
                 activation |-> rows[streams[c].session].activation])
NotActivated(c) == ActivateFails(c) /\ UNCHANGED net

ServeAck(c) ==
    /\ Msg(c, "ack")
    /\ CommitAcknowledgement(c, Message(c).ack)
    /\ Consume(c, <<>>)

Committed(c) ==
    /\ ConfirmAcknowledgement(c)
    /\ Reply(c, [kind |-> "committed", seq |-> streams[c].cursor.seq,
                 cursor |-> streams[c].cursor])
NotCommitted(c) == SourceAckFails(c) /\ UNCHANGED net

ServeDemand(c) ==
    /\ Msg(c, "demand")
    /\ Demand(c)
    /\ Consume(c, IF streams[c].pending
                  THEN <<[kind |-> "delivery", d |-> rows[streams[c].session].pending]>>
                  ELSE <<>>)

\* After LastData (a bound) the source has nothing more to deliver.
Deliver(c) ==
    /\ Awaits(c)
    /\ \/ /\ AckedSequence(Row) < LastData
          /\ \E position \in Positions, payload \in Payloads, neutral \in BOOLEAN :
                LET d == Produced(c, 1, position, payload, neutral) IN
                \/ PersistAndSend(c, d) /\ Reply(c, [kind |-> "delivery", d |-> d])
                \/ RefuseDelivery(c, d) /\ UNCHANGED net
       \/ /\ FetchFails(c)
          /\ \E retryable \in BOOLEAN : Reply(c, Error(retryable))

\* The task reads the end of the stream after what was sent on it.
NoticeHangUp(c) ==
    /\ ~net[c].live /\ net[c].up = <<>>
    /\ Disconnect(c)
    /\ UNCHANGED net

Release(c) ==
    /\ ReleaseSession(c) \/ ReleaseFails(c)
    /\ net' = [net EXCEPT ![c].up = <<>>]

ServiceStep(c) ==
    /\ \/ ServeHello(c) \/ Restored(c) \/ NotRestored(c)
       \/ ServeApply(c) \/ Refused(c) \/ Aborted(c) \/ NotAborted(c)
       \/ (CommitDesiredState(c) /\ UNCHANGED net) \/ Applied(c) \/ NotActivated(c)
       \/ ServeAck(c) \/ Committed(c) \/ NotCommitted(c)
       \/ ServeDemand(c) \/ Deliver(c) \/ NoticeHangUp(c) \/ Release(c)
    /\ UNCHANGED <<client, saved, ingested>>

ServiceRestart ==
    /\ Restart
    /\ net' = [c \in Stream |-> [net[c] EXCEPT !.up = <<>>]]
    /\ UNCHANGED <<client, saved, ingested>>

(***************************************************************************)
(* The client's side: opening a stream                                     *)
(***************************************************************************)
t == client.t
Ready == client.phase \in {"new", "ready"}

\* A call has returned or was dropped; what it left in the transport stays.
Return(new) == [new EXCEPT !.op = "none"]
Faulty(new) == [Return(new) EXCEPT !.fault = TRUE]

\* The fields a new stream starts with, and the Hello it starts with.
Opening(c, hello) ==
    /\ client' = [client EXCEPT !.link = "dialing", !.conn = c, !.hello = hello]
    /\ net' = [net EXCEPT ![c] = [Silent EXCEPT !.live = TRUE, !.up = <<hello>>]]
    /\ Connect(c)
    /\ UNCHANGED <<saved, ingested>>

Free(c) == streams[c].phase = "closed" /\ ~net[c].live

\* connect (discovery) or connect_from_position.
Construct(c) ==
    /\ client.phase = "off" /\ client.link = "down" /\ Free(c)
    /\ \E position \in {None, saved} :
          Opening(c, [kind |-> "hello", resume |-> position,
                      seq |-> IF position = None THEN 0 ELSE TokenSequence(position.token)])

Reconnect(c) ==
    /\ Ready /\ client.op # "none" /\ client.link = "down" /\ Free(c)
    /\ Opening(c, [kind |-> "hello", resume |-> t.resume, seq |-> HelloSequence(t)])

\* The client lets go of its stream: what it had not read is lost.
HungUp(n) == [n EXCEPT !.live = FALSE, !.down = <<>>]

\* The outcome of a handshake that does not produce a stream.
HandshakeFails(new) ==
    /\ client' = [new EXCEPT !.link = "down", !.conn = None, !.hello = None]
    /\ net' = [net EXCEPT ![client.conn] = HungUp(@)]
    /\ UNCHANGED <<serviceVars, saved, ingested>>

Handshake ==
    /\ client.link = "dialing"
    /\ LET down == net[client.conn].down
           hello == client.hello
       IN
       \/ /\ down # <<>> /\ Head(down).kind = "error"
          /\ HandshakeFails(IF Head(down).retryable THEN client ELSE Return(client))
       \/ /\ down # <<>> /\ Head(down).kind = "accepted"
          /\ LET m == Head(down)
                 accepted == [rev |-> m.rev, desired |-> m.desired,
                              acked |-> m.acked, runtime |-> m.runtime]
                 new == NewTransport(accepted, hello.seq, hello.resume)
                 valid == /\ ValidateHelloAuthority(accepted, hello.seq, hello.resume)
                          /\ IF Ready THEN ValidateReconnectedAuthority(t, accepted)
                             ELSE hello.resume # None =>
                                    ValidateResumePosition(accepted, hello.resume)
             IN  IF valid
                 THEN /\ client' = [client EXCEPT
                                      !.phase = IF Ready THEN @ ELSE "new", !.link = "up",
                                      !.hello = None,
                                      !.t = IF Ready THEN Reconnected(t, accepted)
                                            ELSE IF hello.resume = None THEN new
                                            ELSE RestorePosition(new, hello.resume)]
                      /\ net' = [net EXCEPT ![client.conn].down = Tail(@)]
                      /\ UNCHANGED <<serviceVars, saved, ingested>>
                 ELSE HandshakeFails(Faulty(client))
       \/ HandshakeFails(client)

\* The stream breaks, or a call that must present a restored position closes it.
LoseStream ==
    /\ client.link = "up"
    /\ \E prefix \in 0..Len(net[client.conn].up) :
          net' = [net EXCEPT ![client.conn] =
                     [HungUp(@) EXCEPT !.up = SubSeq(net[client.conn].up, 1, prefix)]]
    /\ client' = [client EXCEPT !.link = "down", !.conn = None]
    /\ UNCHANGED <<serviceVars, saved, ingested>>

(***************************************************************************)
(* The caller's side                                                       *)
(***************************************************************************)
PositionOf(d) == [token |-> d.token, head |-> d.cursor.head]

Call(op, new) ==
    /\ Ready /\ client.op = "none"
    /\ client' = [client EXCEPT !.phase = "ready", !.op = op, !.t = new]
    /\ UNCHANGED <<serviceVars, net, saved, ingested>>

\* A saved position is restored into a new transport, before any other call.
CallRestore ==
    /\ client.phase = "new" /\ saved # None
    /\ client' = IF ValidateResumePosition(t.accepted, saved)
                 THEN [client EXCEPT !.t = RestorePosition(t, saved)]
                 ELSE Faulty(client)
    /\ UNCHANGED <<serviceVars, net, saved, ingested>>

CallApply ==
    /\ Ready /\ ~t.confirm /\ t.ack = None
    /\ \/ t.apply # None /\ Call("apply", t)
       \/ /\ t.apply = None /\ t.accepted.rev < MaxRevision
          /\ \E owners \in Asks[t.accepted.rev + 1] :
                Call("apply", [t EXCEPT !.apply =
                    [sent |-> FALSE,
                     value |-> [expected |-> t.accepted.rev, new |-> t.accepted.rev + 1,
                                owners |-> owners]]])

CallNext ==
    /\ Ready /\ ~t.confirm /\ t.apply = None /\ t.ack = None /\ t.inflight = None
    /\ Call("next", t)

\* A delivery is acknowledged once its effects are saved; a checkpoint-neutral
\* one has none.
MayAcknowledge ==
    \/ t.inflight # None /\ (t.inflight.neutral \/ saved = PositionOf(t.inflight))
    \/ t.inflight = None /\ t.resume # None /\ TokenSequence(t.resume.token) = t.ackseq + 1

CallAck ==
    /\ Ready /\ ~t.confirm /\ t.apply = None
    /\ \/ t.ack # None /\ Call("ack", t)
       \/ /\ t.ack = None /\ MayAcknowledge
          /\ Call("ack", [t EXCEPT !.ack = [sent |-> FALSE, value |-> AcknowledgementOf(t)]])

\* The runtime applies a delivery and saves its position in one step.
Ingest ==
    /\ Ready /\ t.inflight # None /\ ~t.inflight.neutral
    /\ saved # PositionOf(t.inflight)
    /\ saved' = PositionOf(t.inflight)
    /\ ingested' = Append(ingested, t.inflight)
    /\ UNCHANGED <<serviceVars, client, net>>

\* A call is dropped or runs into its deadline.  Only once in its life, and only
\* after DropsAfter (both bounds), does a process drop a next_delivery that has
\* asked for a delivery there is not yet; it remembers that (history).
DropsDemand ==
    /\ ~client.dropped /\ AckedSequence(Row) = DropsAfter
    /\ client.link = "up" /\ t.demand /\ Row.pending = None

Cancel ==
    /\ Ready /\ client.op # "none" /\ client.link # "dialing"
    /\ client.op = "next" => DropsDemand
    /\ client' = [Return(client) EXCEPT !.dropped = @ \/ client.op = "next"]
    /\ UNCHANGED <<serviceVars, net, saved, ingested>>

ClientCrash ==
    /\ client.phase # "off"
    /\ client' = NoClient
    /\ net' = IF client.conn = None THEN net ELSE [net EXCEPT ![client.conn] = HungUp(@)]
    /\ UNCHANGED <<serviceVars, saved, ingested>>

(***************************************************************************)
(* A call in progress: it presents a restored position on a new stream,    *)
(* sends its request once per stream and reads until it has an answer.     *)
(***************************************************************************)
Talking == Ready /\ client.link = "up" /\ ~t.rehello

PresentPosition ==
    /\ Ready /\ client.op # "none" /\ client.link = "up" /\ t.rehello
    /\ client' = [client EXCEPT !.link = "down", !.conn = None]
    /\ net' = [net EXCEPT ![client.conn] = HungUp(@)]
    /\ UNCHANGED <<serviceVars, saved, ingested>>

Send(message, new) ==
    /\ client' = [client EXCEPT !.t = new]
    /\ net' = [net EXCEPT ![client.conn].up = Append(@, message)]
    /\ UNCHANGED <<serviceVars, saved, ingested>>

SendRequest ==
    /\ Talking
    /\ \/ /\ client.op = "apply" /\ ~t.apply.sent
          /\ Send([kind |-> "apply", request |-> t.apply.value], [t EXCEPT !.apply.sent = TRUE])
       \/ /\ client.op = "ack" /\ ~t.ack.sent
          /\ Send([kind |-> "ack", ack |-> t.ack.value], [t EXCEPT !.ack.sent = TRUE])
       \/ /\ client.op = "next" /\ t.buffered = <<>> /\ ~t.demand
          /\ Send([kind |-> "demand"], [t EXCEPT !.demand = TRUE])

Answered(new) == [Return(client) EXCEPT !.t = new]

ApplyAnswers(m) ==
    CASE m.kind = "applied" /\ AppliedMatches(t, m) -> Answered(ApplyConfirmed(t))
      [] m.kind = "delivery" -> [client EXCEPT !.t.buffered = Append(@, m)]
      [] m.kind = "error" -> Answered(ApplyFailed(t, m.retryable))
      [] OTHER -> Faulty(client)

NextAnswers(m, from) ==
    CASE m.kind = "delivery" /\ ValidateTransportDelivery(from, m.d) ->
            Answered(DeliveryReceived(from, m.d))
      [] m.kind = "delivery" /\ ~ValidateTransportDelivery(from, m.d) ->
            Faulty([client EXCEPT !.t = DeliveryFailed(from)])
      [] m.kind = "error" -> Answered(DeliveryFailed(from))
      [] OTHER -> Faulty([client EXCEPT !.t = from])

AckAnswers(m) ==
    CASE m.kind = "committed" /\ CommittedMatches(t, m) -> Answered(AckConfirmed(t, m))
      [] /\ m.kind = "delivery"
         /\ m.d.seq = t.ack.value.seq /\ m.d.token = t.ack.value.token -> client
      [] m.kind = "error" -> Answered(AckFailed(t, m.retryable))
      [] OTHER -> Faulty(client)

Receive ==
    /\ Talking /\ net[client.conn].down # <<>>
    /\ LET m == Head(net[client.conn].down) IN
       \/ client.op = "apply" /\ t.apply.sent /\ client' = ApplyAnswers(m)
       \/ client.op = "ack" /\ t.ack.sent /\ client' = AckAnswers(m)
       \/ client.op = "next" /\ t.buffered = <<>> /\ t.demand /\ client' = NextAnswers(m, t)
    /\ net' = [net EXCEPT ![client.conn].down = Tail(@)]
    /\ UNCHANGED <<serviceVars, saved, ingested>>

TakeBuffered ==
    /\ Ready /\ ~t.rehello /\ client.op = "next" /\ t.buffered # <<>>
    /\ client' = NextAnswers(Head(t.buffered), [t EXCEPT !.buffered = Tail(@)])
    /\ UNCHANGED <<serviceVars, net, saved, ingested>>

-----------------------------------------------------------------------------
SessionInit ==
    /\ ServiceInit
    /\ client = NoClient
    /\ net = [c \in Stream |-> Silent]
    /\ saved = None
    /\ ingested = <<>>

ClientStep ==
    \/ \E c \in Stream : Construct(c) \/ Reconnect(c)
    \/ Handshake \/ LoseStream \/ PresentPosition
    \/ CallRestore \/ CallApply \/ CallNext \/ CallAck
    \/ SendRequest \/ Receive \/ TakeBuffered \/ Cancel
    \/ Ingest \/ ClientCrash

SessionNext ==
    \/ \E c \in Stream : ServiceStep(c)
    \/ ServiceRestart
    \/ ClientStep

SessionSpec == SessionInit /\ [][SessionNext]_sessionVars

(***************************************************************************)
(* Properties                                                              *)
(***************************************************************************)
\* The client asks only for what the service grants: no operation on a stream
\* whose position is not confirmed, and no acknowledgement but of the outbox
\* item or, again, of the item acknowledged last.
RequestsServable ==
    \A c \in Stream : Idle(c) /\ net[c].up # <<>> =>
        /\ streams[c].confirmed
        /\ Msg(c, "ack") => \/ AckAccepts(Row, Message(c).ack)
                            \/ AckRepeats(Row, Message(c).ack)

\* Neither side ever takes what the other sends for a protocol error, whatever
\* was lost, repeated or cut off: not a request, a confirmation, a delivery or a
\* handshake.  A caller that drops a waiting next_delivery gives that up for the
\* client: the error that answers it may be read as the answer of the next call.
NoProtocolFault == RequestsServable /\ (client.fault => client.dropped)

\* A client that crashes can always come back: the position it saved last, or
\* none if it saved none, is confirmed by the service (validate_hello_position).
RestartAccepted ==
    HelloPosition(Row, IF saved = None THEN 0 ELSE TokenSequence(saved.token), saved)
        = "Confirmed"

\* A revision or an acknowledgement that is durable beyond what the client has
\* seen confirmed is the one it still records as pending, so that a retry
\* reconciles it (pending_apply, pending_acknowledgement), unless the error that
\* answers a dropped next_delivery was taken for its refusal.  The delivery it
\* holds (in_flight_delivery) is the outbox item, or the one it is acknowledging.
ControlRecorded ==
    /\ Ready /\ ~client.dropped =>
        /\ \/ Row.revision = t.accepted.rev /\ Row.desired = t.accepted.desired
           \/ t.apply # None /\ Row.revision = t.apply.value.new /\ Row.desired = t.apply.value
        /\ \/ AckedSequence(Row) = t.ackseq
           \/ t.ack # None /\ AckedSequence(Row) = t.ack.value.seq
    /\ Ready /\ t.inflight # None =>
        \/ Row.pending = t.inflight
        \/ t.ack # None /\ Row.acked = t.inflight.cursor

\* The stream of a waiting call still has something to do for it: a message to
\* read, a handler to finish, a demand to serve, or its own end to report.
Answerable(c) ==
    \/ net[c].down # <<>> \/ net[c].up # <<>>
    \/ ~Idle(c)
    \/ Awaits(c)

Waits(op) == Talking /\ client.op = op

\* An acknowledgement that was sent is never left without an answer to come, nor
\* is a demand once a desired state is committed: next_delivery has no deadline,
\* so client and service would wait for each other for ever.  (After a dropped
\* next_delivery and an applied desired state they do: the demand is marked as
\* sent and the service has forgotten it.)
CallsAnswered ==
    /\ Waits("ack") /\ t.ack.sent => Answerable(client.conn)
    /\ ~client.dropped /\ Waits("next") /\ t.buffered = <<>> /\ t.demand /\ Row.desired # None =>
        Answerable(client.conn)

\* Whatever breaks, the runtime sees a feed: the session implements EventFeed,
\* the feed being what is acknowledged followed by what is in the outbox.
Feed == INSTANCE EventFeed WITH
    feed <- log[TheSession] \o (IF Row.pending = None THEN <<>> ELSE <<Row.pending>>),
    taken <- ingested,
    done <- Len(log[TheSession])

ImplementsFeed == Feed!FeedSpec

(***************************************************************************)
(* A statement of the documentation                                        *)
(***************************************************************************)
Reconnecting == Ready /\ client.op # "none" /\ client.link = "down"
ReconnectPosition == HelloPosition(Row, HelloSequence(t), t.resume)

\* operations.md: a lost ACK confirmation retries idempotently.  The client that
\* reconnects to retry presents a position the service does not confirm.
LostConfirmationRetries ==
    /\ Reconnecting /\ t.ack # None /\ t.inflight # None /\ ~t.inflight.neutral
    /\ AckedSequence(Row) = t.ack.value.seq
    => ReconnectPosition = "Confirmed"
=============================================================================
