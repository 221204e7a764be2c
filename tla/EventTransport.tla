--------------------------- MODULE EventTransport ---------------------------
(***************************************************************************)
(* The client's GrpcEventTransport: the fields that outlive a call and     *)
(* what each answer of the service makes of them, as pure operators.       *)
(* RemoteSession runs them against the service.                            *)
(*                                                                         *)
(* A HelloAccepted is [rev, desired, acked, runtime]; the service always   *)
(* sends its runtime checkpoint position, so the branch for services that  *)
(* do not is left out, and so are capabilities, limits and authorization,  *)
(* which a session never changes.  A proof (PendingDeliveryResume) is      *)
(* [token, head]; a position the runtime has saved is one too.             *)
(***************************************************************************)
EXTENDS SessionRow, WireDelivery

TokenSequence(token) == token[1] * 256 + token[2]

CursorSequence(cursor) == IF cursor = None THEN 0 ELSE cursor.seq

(***************************************************************************)
(* Handshake                                                               *)
(***************************************************************************)
ValidateHelloAuthority(accepted, sequence, resume) ==
    LET durable == CursorSequence(accepted.acked) IN
    /\ \/ sequence = CursorSequence(accepted.runtime)
       \/ resume # None /\ sequence = durable + 1
       \/ resume = None /\ sequence = 0
    /\ accepted.acked # None => accepted.acked.rev <= accepted.rev /\ accepted.acked.seq # 0
    /\ accepted.runtime # None =>
          /\ accepted.runtime.rev <= accepted.rev
          /\ accepted.runtime.seq \in 1..durable
          /\ accepted.runtime.seq = durable => accepted.runtime = accepted.acked
    /\ IF accepted.desired = None THEN accepted.rev = 0
       ELSE /\ accepted.desired.new = accepted.rev
            /\ accepted.desired.expected + 1 = accepted.rev

\* connect_with_resume.  confirm is position_confirmation_required, rehello is
\* resume_handshake_required.
NewTransport(accepted, sequence, resume) ==
    LET durable == CursorSequence(accepted.acked) IN
    [accepted |-> accepted, ackseq |-> durable, helloseq |-> sequence,
     apply |-> None, ack |-> None, demand |-> FALSE, inflight |-> None, buffered |-> <<>>,
     confirm |-> /\ sequence # CursorSequence(accepted.runtime)
                 /\ ~(resume # None /\ sequence = durable + 1),
     rehello |-> FALSE, resume |-> resume]

\* The sequence a reconnect presents.
HelloSequence(t) == IF t.resume # None THEN TokenSequence(t.resume.token) ELSE t.ackseq

\* Mutant: an operation in flight is not expected to have been committed.
ReconnectedAuthorityUnmoved(t, accepted) ==
    /\ accepted.rev = t.accepted.rev /\ accepted.desired = t.accepted.desired
    /\ CursorSequence(accepted.acked) = t.ackseq

ValidateReconnectedAuthority(t, accepted) ==
    LET durable == CursorSequence(accepted.acked) IN
    /\ \/ accepted.rev = t.accepted.rev /\ accepted.desired = t.accepted.desired
       \/ /\ t.apply # None
          /\ accepted.rev = t.apply.value.new /\ accepted.desired = t.apply.value
    /\ durable = t.ackseq \/ (t.ack # None /\ durable = t.ack.value.seq)

\* A new stream knows nothing of what was sent on the old one.
Reconnected(t, accepted) ==
    [t EXCEPT !.accepted = accepted,
              !.ackseq = CursorSequence(accepted.acked),
              !.helloseq = HelloSequence(t),
              !.buffered = <<>>,
              !.apply = IF t.apply = None THEN None ELSE [t.apply EXCEPT !.sent = FALSE],
              !.ack = IF t.ack = None THEN None ELSE [t.ack EXCEPT !.sent = FALSE],
              !.demand = FALSE,
              !.rehello = FALSE]

(***************************************************************************)
(* restore_position                                                        *)
(***************************************************************************)
ValidateResumePosition(accepted, position) ==
    LET sequence == TokenSequence(position.token) IN
    \/ sequence = CursorSequence(accepted.acked) + 1
    \/ /\ sequence = CursorSequence(accepted.runtime)
       /\ accepted.runtime # None /\ accepted.runtime.head = position.head

RestorePosition(t, position) ==
    [t EXCEPT !.ackseq = CursorSequence(t.accepted.acked),
              !.inflight = None,
              !.rehello = t.helloseq # TokenSequence(position.token) \/ t.resume # position,
              !.resume = position,
              !.confirm = FALSE]

(***************************************************************************)
(* apply_desired_state                                                     *)
(***************************************************************************)
AppliedMatches(t, applied) ==
    applied.rev = t.apply.value.new /\ applied.activation = t.ackseq + 1

\* Mutant: the confirmed desired state does not become the accepted one.
ApplyConfirmedUnadopted(t) == [t EXCEPT !.apply = None]

ApplyConfirmed(t) ==
    [t EXCEPT !.apply = None,
              !.accepted.rev = t.apply.value.new,
              !.accepted.desired = t.apply.value]

\* An outcome that may still change keeps the request for a retry.
ApplyFailed(t, retryable) == IF retryable THEN t ELSE [t EXCEPT !.apply = None]

(***************************************************************************)
(* next_delivery                                                           *)
(***************************************************************************)
ValidateTransportDelivery(t, d) ==
    LET desired == t.accepted.desired IN
    /\ d.seq = t.ackseq + 1 /\ d.token = Token(d.seq) /\ d.cursor.seq = d.seq
    /\ d.rev = t.accepted.rev /\ d.cursor.rev = d.rev
    /\ desired # None
    /\ ValidateWireProgress(t.accepted.acked, CanonicalBaseline(desired), d,
                            HasOpenBackfill(desired))

DeliveryReceived(t, d) == [t EXCEPT !.demand = FALSE, !.inflight = d]

\* Mutant: a demand answered by an error still counts as sent.
DemandOutlivesError(t) == t

DeliveryFailed(t) == [t EXCEPT !.demand = FALSE]

(***************************************************************************)
(* acknowledge: of the delivery in flight, or of the one whose position    *)
(* was restored.                                                           *)
(***************************************************************************)
AcknowledgementOf(t) ==
    IF t.inflight # None THEN [seq |-> t.inflight.seq, token |-> t.inflight.token]
    ELSE [seq |-> TokenSequence(t.resume.token), token |-> t.resume.token]

CommittedMatches(t, committed) ==
    LET ack == t.ack.value IN
    /\ committed.seq = ack.seq
    /\ committed.cursor.rev = t.accepted.rev /\ committed.cursor.seq = ack.seq
    /\ IF t.inflight # None THEN committed.cursor = t.inflight.cursor
       ELSE t.resume # None => committed.cursor.head = t.resume.head

AckConfirmed(t, committed) ==
    [t EXCEPT !.ack = None,
              !.ackseq = committed.seq,
              !.accepted.acked = committed.cursor,
              !.inflight = None,
              !.resume = IF t.resume # None /\ TokenSequence(t.resume.token) <= committed.seq
                         THEN None ELSE t.resume]

AckFailed(t, retryable) == IF retryable THEN t ELSE [t EXCEPT !.ack = None]
=============================================================================
