---------------------------- MODULE WireDelivery ----------------------------
(***************************************************************************)
(* What the client checks of a delivery before it exposes one: progress    *)
(* against its own acknowledged cursor (validate_wire_delivery_progress)   *)
(* and the decoding of data records (decode_delivery,                      *)
(* decode_data_payload).  The client repeats the service's checks with its *)
(* own code; what the two must agree on is stated in WireAgreement.        *)
(*                                                                         *)
(* Left out: widths, RLP, topics, header metadata, empty barrier ids.      *)
(***************************************************************************)
EXTENDS Delivery

(***************************************************************************)
(* validate_wire_delivery_progress.  The client has no desired state here: *)
(* only the baseline of its canonical entry, and whether some backfill is  *)
(* open.                                                                   *)
(***************************************************************************)
IsWireActivation(acked, baseline, d) ==
    /\ d.rev = (IF acked = None THEN 1 ELSE acked.rev + 1)
    /\ d.cursor.head = (IF AckedHead(acked) # None THEN AckedHead(acked) ELSE baseline)
    /\ IsBarrier(d) /\ d.payload.block = None /\ d.payload.id = ActivationId(d.rev)

WireBoundary(acked, baseline, d, requiresOpen) ==
    IF IsWireActivation(acked, baseline, d)
    THEN /\ requiresOpen => d.cursor.boundary # None
         /\ d.cursor.boundary # None => d.cursor.boundary >= d.cursor.next
    ELSE acked # None /\ acked.rev = d.cursor.rev => acked.boundary = d.cursor.boundary

WireDirection(acked, baseline, d) ==
    IF IsReorg(d)
    THEN /\ ValidateReorgShape(d.payload)
         /\ AckedHead(acked) = d.payload.old
         /\ d.cursor.next = Num[d.payload.ancestor] + 1
    ELSE acked # None =>
         /\ d.cursor.next < acked.next => IsWireActivation(acked, baseline, d)
         /\ ~HeadRegressesOrChanges(acked, d.cursor)

\* Canonical block records are ordered by height and reach every canonical
\* record of the page.
WireData(records) ==
    /\ records # <<>>
    /\ \A i, j \in DOMAIN records :
          i < j /\ Certifies(records[i]) /\ Certifies(records[j])
              => Num[records[i].block] <= Num[records[j].block]
    /\ CanonicalDataCertified(records)

WireHead(acked, baseline, d) ==
    CASE IsData(d) -> IF OwnerCatchupOnly(d) THEN AckedHead(acked)
                      ELSE LastCertified(d.payload.records)
      [] IsReorg(d) -> d.payload.ancestor
      [] d.payload.kind = "finality" -> AckedHead(acked)
      [] IsBarrier(d) ->
            IF d.payload.block # None THEN d.payload.block
            ELSE IF AckedHead(acked) # None THEN AckedHead(acked)
            ELSE IF IsWireActivation(acked, baseline, d) THEN baseline
            ELSE None

\* Mutant: an owner's catch-up page must carry the head it preserves.
WireLagForActivationsOnly(acked, baseline, d) ==
    /\ acked # None => d.cursor.head = acked.head
    /\ IsWireActivation(acked, baseline, d)

WireScanMayLag(acked, baseline, d) ==
    /\ acked # None => d.cursor.head = acked.head
    /\ \/ IsWireActivation(acked, baseline, d)
       \/ OwnerCatchupOnly(d)
       \/ IsCursorProgressBarrier(d)

ValidateWireProgress(acked, baseline, d, requiresOpen) ==
    /\ d.neutral <=> (IsWireActivation(acked, baseline, d) \/ IsCursorProgressBarrier(d))
    /\ WireBoundary(acked, baseline, d, requiresOpen)
    /\ WireDirection(acked, baseline, d)
    /\ IsData(d) => WireData(d.payload.records)
    /\ d.cursor.head = WireHead(acked, baseline, d)
    /\ NumberAtLeast(d.cursor.head, d.cursor.next) => WireScanMayLag(acked, baseline, d)

(***************************************************************************)
(* decode_data_payload                                                     *)
(***************************************************************************)
DecodeAudience(owners, r) ==
    IF r.canonical
    THEN r.owners = {} /\ ~OwnerCatchup(r)
    ELSE r.owners # {} /\ r.owners \subseteq owners

\* Block identities by height, unique headers, progress records and logs, one
\* transaction hash per index.
DecodeCompatible(r, s) ==
    /\ Num[r.block] = Num[s.block] => r.block = s.block
    /\ r.event = s.event => IF r.event = "log"
                            THEN r.block = s.block => r.index # s.index
                            ELSE Num[r.block] # Num[s.block]
    /\ r.event = "log" /\ s.event = "log" /\ r.block = s.block =>
          (r.tx = s.tx) <=> (r.hash = s.hash)

DecodeData(owners, records) ==
    /\ records # <<>>
    /\ \A i \in DOMAIN records :
          /\ DecodeAudience(owners, records[i])
          /\ records[i].event = "progress" => ~OwnerCatchup(records[i])
    /\ \A i, j \in DOMAIN records : i < j =>
          /\ LexLeq(EventOrder(records[i]), EventOrder(records[j]))
          /\ DecodeCompatible(records[i], records[j])

\* The batch handed to the runtime: records in order, then one control.  Only
\* the last progress proof survives, as every control follows every record.
DecodedBatch(d) ==
    LET records == IF IsData(d) THEN d.payload.records ELSE <<>>
        progress == {i \in DOMAIN records : records[i].event = "progress"}
    IN  [records |-> SelectSeq(records, LAMBDA r : r.event # "progress"),
         progress |-> IF progress = {} THEN None ELSE records[Max(progress)].block,
         control |-> IF IsData(d) THEN None ELSE d.payload,
         token |-> d.token]
=============================================================================
