--------------------------- MODULE WireAgreement ---------------------------
(***************************************************************************)
(* The session store and the client check a delivery with separate code.   *)
(* A delivery that the store persists and the client refuses would never   *)
(* leave the outbox: it replays on every demand and is never acknowledged. *)
(***************************************************************************)
EXTENDS SessionStore, WireDelivery

OwnerIds(desired) == {o.id : o \in desired.owners} \ {None}

\* validate_transport_delivery and decode_delivery on what the outbox holds,
\* for a client that has confirmed everything that is durable.
ClientAccepts(row) ==
    LET d == row.pending IN
    /\ d.seq = NextSequence(row) /\ d.cursor.seq = d.seq /\ d.token = Token(d.seq)
    /\ d.rev = row.revision /\ d.cursor.rev = row.revision
    /\ ValidateWireProgress(row.acked, CanonicalBaseline(row.desired), d,
                            HasOpenBackfill(row.desired))
    /\ IsData(d) => DecodeData(OwnerIds(row.desired), d.payload.records)

\* The store also takes an activation barrier whose head is not the expected
\* one (a source that prepares no cursor for a retained baseline) and the same
\* barrier a second time.  The client refuses both; the HyperSync source sends
\* neither.
RegularActivation(row) ==
    IsActivationDelivery(row.pending, row.revision) =>
        IsExactActivation(row.acked, row.desired, row.pending)

\* Whatever the store has put into the outbox the client takes: the checks of
\* validate_wire_delivery_progress and decode_data_payload hold of it.
OutboxAcceptable ==
    \A s \in Session :
        rows[s].pending # None /\ RegularActivation(rows[s]) => ClientAccepts(rows[s])
=============================================================================
