------------------------------ MODULE Delivery ------------------------------
(***************************************************************************)
(* The delivery envelope of protocol v1 and the checks the session store   *)
(* runs on one: payload shape (validate_delivery_payload), progress        *)
(* against the acknowledged cursor (validate_delivery_progress) and        *)
(* certification of a promised reorg tip (delivery_certifies_reorg_tip).   *)
(* Everything here is a pure operator.                                     *)
(*                                                                         *)
(* Data abstraction.  Byte widths, RLP and interest filters are left out.  *)
(* Encoded size is the number of data records.  A provider checkpoint is   *)
(* part of the cursor it was issued with and is not a field of its own.    *)
(***************************************************************************)
EXTENDS Chain, FiniteSetsExt

CONSTANT MaxRecords   \* stands for MAX_MESSAGE_SIZE_BYTES

(* Cursor: query_revision, batch_sequence, next_block, canonical_head and
   owner_backfill_activation_block.                                        *)
Cursor == [rev : Nat, seq : Nat, next : Nat, head : OptBlock,
           boundary : Nat \cup {None}]

\* A delivery token is the sequence as big-endian bytes, kept to two digits.
Token(n) == <<n \div 256, n % 256>>

(***************************************************************************)
(* Desired state: revision pair and owner topology.  An owner entry is     *)
(* [id, backfill]; id None is the canonical (unowned) entry.  A backfill   *)
(* is None or [from, to, baseline], to None being an open range.           *)
(***************************************************************************)
Backfills(desired) == {o.backfill : o \in desired.owners} \ {None}

ValidateBackfill(b) ==
    /\ b.to # None => b.to > b.from \/ (b.to = b.from /\ b.baseline # None)
    /\ b.baseline # None => Num[b.baseline] + 1 = b.from

ValidateDesiredState(desired) ==
    /\ \A o1, o2 \in desired.owners : o1.id = o2.id => o1 = o2
    /\ \A b \in Backfills(desired) : ValidateBackfill(b)

HasOpenBackfill(desired) == \E b \in Backfills(desired) : b.to = None

FirstBackfillBlock(desired) ==
    IF Backfills(desired) = {} THEN 0 ELSE Min({b.from : b \in Backfills(desired)})

\* The retained baseline of the canonical entry, None when there is none.
CanonicalBaseline(desired) ==
    IF \E o \in desired.owners : o.id = None /\ o.backfill # None
    THEN (CHOOSE o \in desired.owners : o.id = None).backfill.baseline
    ELSE None

(***************************************************************************)
(* Payloads: a record with a kind and that kind's own fields.              *)
(***************************************************************************)
ActivationId(rev) == <<"desired-state", rev, 0>>
ProgressId(rev, next) == <<"source-progress", rev, next>>
Barrier(id, block) == [kind |-> "barrier", id |-> id, block |-> block]

IsBarrier(d) == d.payload.kind = "barrier"
IsReorg(d) == d.payload.kind = "reorg"
IsData(d) == d.payload.kind = "data"

IsActivationDelivery(d, rev) ==
    IsBarrier(d) /\ d.payload.id = ActivationId(rev) /\ d.payload.block = None

IsCursorProgressBarrier(d) ==
    /\ IsBarrier(d)
    /\ d.payload.block = None
    /\ d.payload.id = ProgressId(d.rev, d.cursor.next)

ExpectedActivationHead(acked, desired) ==
    IF acked # None /\ acked.head # None
    THEN acked.head
    ELSE CanonicalBaseline(desired)

IsExactActivation(acked, desired, d) ==
    /\ IsActivationDelivery(d, desired.new)
    /\ desired.expected = (IF acked = None THEN 0 ELSE acked.rev)
    /\ d.rev = desired.new
    /\ d.cursor.head = ExpectedActivationHead(acked, desired)

(***************************************************************************)
(* validate_delivery_payload                                               *)
(***************************************************************************)
OwnerCatchup(r) == r.scope = "OwnerCatchup"

\* Headers and progress records certify a block; logs do not.
Certifies(r) == r.event # "log" /\ ~OwnerCatchup(r)

OwnerCatchupOnly(d) ==
    IsData(d) /\ \A i \in DOMAIN d.payload.records : OwnerCatchup(d.payload.records[i])

\* (block number, kind, transaction index, log index), compared lexically.
EventOrder(r) ==
    IF r.event = "log" THEN <<Num[r.block], 1, r.tx, r.index>>
    ELSE <<Num[r.block], IF r.event = "header" THEN 0 ELSE 2, 0, 0>>

LexLeq(a, b) ==
    \/ a = b
    \/ \E i \in 1..4 : a[i] < b[i] /\ \A j \in 1..(i - 1) : a[j] = b[j]

ValidateAudience(desired, r) ==
    IF r.canonical
    THEN r.owners = {} /\ ~OwnerCatchup(r)
    ELSE r.owners # {} /\ r.owners \subseteq {o.id : o \in desired.owners} \ {None}

\* What any two records of one delivery must agree on.
CompatibleRecords(r, s) ==
    /\ Num[r.block] = Num[s.block] => r.block = s.block
    /\ r.event = s.event /\ r.event # "log" => r.block # s.block
    /\ r.event = "log" /\ s.event = "log" /\ r.block = s.block =>
          /\ r.index # s.index
          /\ (r.tx = s.tx) <=> (r.hash = s.hash)

\* Every canonical record lies at or below some certified block.
CanonicalDataCertified(records) ==
    \A i \in DOMAIN records : ~OwnerCatchup(records[i]) =>
        \E j \in DOMAIN records :
            Certifies(records[j]) /\ Num[records[j].block] >= Num[records[i].block]

ValidateData(desired, records) ==
    /\ records # <<>>
    /\ \A i \in DOMAIN records :
          /\ ValidateAudience(desired, records[i])
          /\ ~(OwnerCatchup(records[i]) /\ records[i].event = "progress")
    /\ \A i, j \in DOMAIN records : i < j =>
          /\ LexLeq(EventOrder(records[i]), EventOrder(records[j]))
          /\ CompatibleRecords(records[i], records[j])
    /\ CanonicalDataCertified(records)

ValidateReorgShape(p) ==
    /\ Num[p.old] > Num[p.ancestor] /\ Time[p.old] > Time[p.ancestor]
    /\ Num[p.new] > Num[p.ancestor] /\ Time[p.new] > Time[p.ancestor]
    /\ p.old # p.new
    /\ \A tip \in {p.old, p.new} :
          Num[tip] = Num[p.ancestor] + 1 => Parent[tip] = p.ancestor

ValidateDeliveryPayload(desired, d) ==
    /\ d.neutral <=> (IsActivationDelivery(d, desired.new) \/ IsCursorProgressBarrier(d))
    /\ IsReorg(d) => ValidateReorgShape(d.payload)
    /\ IsData(d) => ValidateData(desired, d.payload.records)

\* validate_delivery_size, a record standing for a unit of encoded size.
DeliverySize(d) == IF IsData(d) THEN Len(d.payload.records) ELSE 1

ValidateDeliverySize(d) == DeliverySize(d) <= MaxRecords

(***************************************************************************)
(* validate_delivery_progress                                              *)
(***************************************************************************)
HeadRegressesOrChanges(previous, current) ==
    /\ previous.head # None
    /\ \/ current.head = None
       \/ Num[current.head] < Num[previous.head]
       \/ Num[current.head] = Num[previous.head] /\ current.head # previous.head

AckedHead(acked) == IF acked = None THEN None ELSE acked.head

\* The last block a page certifies, None when it certifies none.
LastCertified(records) ==
    LET certified == {i \in DOMAIN records : Certifies(records[i])} IN
    IF certified = {} THEN None ELSE records[Max(certified)].block

\* The head a delivery's own payload declares.
DeclaredHead(acked, desired, d) ==
    CASE IsData(d) ->
            IF LastCertified(d.payload.records) # None THEN LastCertified(d.payload.records)
            ELSE IF OwnerCatchupOnly(d) THEN AckedHead(acked) ELSE None
      [] IsReorg(d) -> d.payload.ancestor
      [] d.payload.kind = "finality" -> AckedHead(acked)
      [] IsBarrier(d) ->
            IF d.payload.block # None THEN d.payload.block
            ELSE IF AckedHead(acked) # None THEN AckedHead(acked)
            ELSE IF IsExactActivation(acked, desired, d) THEN d.cursor.head
            ELSE None

ValidateBoundary(acked, desired, d) ==
    IF IsExactActivation(acked, desired, d)
    THEN /\ HasOpenBackfill(desired) => d.cursor.boundary # None
         /\ d.cursor.boundary # None => d.cursor.boundary >= d.cursor.next
    ELSE acked # None /\ acked.rev = d.cursor.rev => acked.boundary = d.cursor.boundary

ValidateReorgProgress(acked, d) ==
    /\ AckedHead(acked) = d.payload.old
    /\ Num[d.payload.old] > Num[d.payload.ancestor]
    /\ Num[d.payload.new] > Num[d.payload.ancestor]
    /\ d.cursor.next = Num[d.payload.ancestor] + 1

ValidateForwardProgress(acked, desired, d) ==
    acked # None =>
        /\ d.cursor.next < acked.next => IsExactActivation(acked, desired, d)
        /\ ~HeadRegressesOrChanges(acked, d.cursor)

\* Scanning below the canonical head is reserved to owner catch-up.
ScanMayLagHead(acked, desired, d) ==
    /\ acked # None => d.cursor.head = acked.head
    /\ \/ IsExactActivation(acked, desired, d)
       \/ OwnerCatchupOnly(d)
       \/ IsCursorProgressBarrier(d)

\* Mutant: the cursor's head is not compared with the payload's.
UndeclaredHeadProgress(acked, desired, d) ==
    /\ ValidateBoundary(acked, desired, d)
    /\ IF IsReorg(d) THEN ValidateReorgProgress(acked, d)
                     ELSE ValidateForwardProgress(acked, desired, d)
    /\ NumberAtLeast(d.cursor.head, d.cursor.next) => ScanMayLagHead(acked, desired, d)

ValidateDeliveryProgress(acked, desired, d) ==
    /\ ValidateBoundary(acked, desired, d)
    /\ IF IsReorg(d) THEN ValidateReorgProgress(acked, d)
                     ELSE ValidateForwardProgress(acked, desired, d)
    /\ d.cursor.head = DeclaredHead(acked, desired, d)
    /\ NumberAtLeast(d.cursor.head, d.cursor.next) => ScanMayLagHead(acked, desired, d)

(***************************************************************************)
(* delivery_certifies_reorg_tip                                            *)
(***************************************************************************)
CanonicalBlocks(records) ==
    {records[i].block : i \in {j \in DOMAIN records : Certifies(records[j])}}

\* The blocks form one parent-linked run without gaps from tip to last.
LinkedRun(blocks, tip, last) ==
    LET suffix == {b \in blocks : Num[b] >= Num[tip]} IN
    /\ \A b, c \in blocks : Num[b] = Num[c] => b = c
    /\ tip \in suffix /\ last \in suffix
    /\ \A b \in suffix : Num[b] <= Num[last]
    /\ \A b \in suffix \ {tip} : \E c \in suffix : Num[b] = Num[c] + 1 /\ Parent[b] = c

\* Mutant: any replacement that reaches the tip's number certifies it.
ReachesReorgTip(d, tip) == NumberAtLeast(d.cursor.head, Num[tip])

CertifiesReorgTip(d, tip) ==
    /\ d.cursor.head # None
    /\ d.cursor.next = Num[d.cursor.head] + 1
    /\ \/ /\ IsData(d)
          /\ LinkedRun(CanonicalBlocks(d.payload.records), tip, d.cursor.head)
       \/ /\ IsBarrier(d)
          /\ d.payload.block = tip
          /\ d.cursor.head = tip
=============================================================================
