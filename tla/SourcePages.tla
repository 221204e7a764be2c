---------------------------- MODULE SourcePages ----------------------------
(***************************************************************************)
(* What the source engine makes of one provider page: the admission of     *)
(* untrusted rows (validate_response_counts, validate_source_page) and     *)
(* their normalisation into the records of a delivery (normalize_page_at). *)
(* Pure operators.                                                         *)
(*                                                                         *)
(* Data abstraction.  A header row is a block, or Malformed when a field   *)
(* is missing or has the wrong width.  A log row is [number, hash, tx,     *)
(* index, txhash, addr, topics, removed, complete]; complete is false when *)
(* a field is missing, a width is wrong or its topics have a hole.  The    *)
(* heap bytes of a response and header RLP are left out.                   *)
(***************************************************************************)
EXTENDS Delivery, Interests, SequencesExt

CONSTANTS
    Malformed,          \* a header row without a usable identity
    MaxResponseBlocks,  \* SourceResponseLimits::max_blocks
    MaxResponseLogs     \* SourceResponseLimits::max_logs

ASSUME MalformedAssumption == Malformed \notin OptBlock

(***************************************************************************)
(* validate_response_counts, validate_source_page                          *)
(***************************************************************************)
ValidateResponseCounts(page) ==
    Len(page.blocks) <= MaxResponseBlocks /\ Len(page.logs) <= MaxResponseLogs

ValidateHeaders(page, from) ==
    /\ \A i \in DOMAIN page.blocks :
          /\ page.blocks[i] # Malformed
          /\ Num[page.blocks[i]] = from + i - 1
          /\ i > 1 => Parent[page.blocks[i]] = page.blocks[i - 1]
    /\ page.next = from + Len(page.blocks)

\* A guard names the first and last block of the page it came with.
GuardOf(blocks) ==
    [first |-> Num[Head(blocks)], parent |-> Parent[Head(blocks)], block |-> Last(blocks),
     number |-> Num[Last(blocks)], time |-> Time[Last(blocks)]]

ValidateRollbackGuard(guard, blocks) == blocks # <<>> /\ guard = GuardOf(blocks)

ValidateLog(log, page, from) ==
    /\ log.complete
    /\ from <= log.number /\ log.number < page.next
    /\ log.hash = page.blocks[log.number - from + 1]
    /\ ~log.removed

\* Two logs of a page never share an identity, and agree on their transaction.
CompatibleLogs(a, b) ==
    a.hash = b.hash => a.index # b.index /\ (a.tx = b.tx <=> a.txhash = b.txhash)

\* Mutant: logs are not compared with each other.
ValidatePageUncompared(page, from, to) ==
    /\ page.next <= to
    /\ page.archive # None => page.archive >= page.next
    /\ ValidateHeaders(page, from)
    /\ page.guard # None => ValidateRollbackGuard(page.guard, page.blocks)
    /\ \A i \in DOMAIN page.logs : ValidateLog(page.logs[i], page, from)

ValidateSourcePage(page, from, to) ==
    /\ page.next <= to
    /\ page.archive # None => page.archive >= page.next
    /\ ValidateHeaders(page, from)
    /\ page.guard # None => ValidateRollbackGuard(page.guard, page.blocks)
    /\ \A i \in DOMAIN page.logs : ValidateLog(page.logs[i], page, from)
    /\ \A i, j \in DOMAIN page.logs : i < j => CompatibleLogs(page.logs[i], page.logs[j])

\* query_page: a page must also move the scan.
AdmitPage(page, from, to) ==
    /\ ValidateResponseCounts(page)
    /\ page.next > from
    /\ ValidateSourcePage(page, from, to)

(***************************************************************************)
(* Audience of an event.  An owner entry is [id, backfill, wants], wants   *)
(* being its set of interests; the canonical entry has id None.            *)
(***************************************************************************)
InBackfill(o, n) ==
    o.backfill # None /\ n >= o.backfill.from /\ (o.backfill.to # None => n < o.backfill.to)

GlobalBackfillActive(desired, n) == \E o \in desired.owners : o.id = None /\ InBackfill(o, n)

\* The blocks every owner of the revision shares.
CanonicalAt(desired, n, activation) == n >= activation \/ GlobalBackfillActive(desired, n)

OwnerActive(desired, o, n, activation) == CanonicalAt(desired, n, activation) \/ InBackfill(o, n)

InterestMatchesEvent(interest, event) ==
    \/ interest.kind = "block" /\ event.event = "header"
    \/ event.event = "log" /\ LogMatches(interest, event.log)

WantsEvent(o, event) == \E interest \in o.wants : InterestMatchesEvent(interest, event)

\* Mutant: a global backfill serves only the canonical entry itself.
MatchingOwnBackfill(desired, event, n, activation) ==
    {o \in desired.owners : (n >= activation \/ InBackfill(o, n)) /\ WantsEvent(o, event)}

Matching(desired, event, n, activation) ==
    {o \in desired.owners : OwnerActive(desired, o, n, activation) /\ WantsEvent(o, event)}

CanonicalAudience(desired, event, n, activation) ==
    \/ event.event = "progress"
    \/ /\ Matching(desired, event, n, activation) # {}
       /\ \/ GlobalBackfillActive(desired, n)
          \/ n >= activation /\ \E o \in Matching(desired, event, n, activation) : o.id = None

DeliveryScope(desired, n, activation) ==
    IF CanonicalAt(desired, n, activation) THEN "CanonicalProgress" ELSE "OwnerCatchup"

(***************************************************************************)
(* normalize_page_at                                                       *)
(***************************************************************************)
Record(desired, event, activation) ==
    LET n == Num[event.block]
        canonical == CanonicalAudience(desired, event, n, activation)
    IN  [event |-> event.event, block |-> event.block, tx |-> event.tx, index |-> event.index,
         hash |-> event.hash, canonical |-> canonical,
         owners |-> IF canonical THEN {} ELSE {o.id : o \in Matching(desired, event, n, activation)},
         scope |-> DeliveryScope(desired, n, activation)]

BlockEvent(kind, b) == [event |-> kind, block |-> b, tx |-> 0, index |-> 0, hash |-> None]

LogEvent(log) ==
    [event |-> "log", block |-> log.hash, tx |-> log.tx, index |-> log.index,
     hash |-> log.txhash, log |-> log]

HasActiveBlockInterest(desired, n, activation) ==
    \E o \in desired.owners :
        OwnerActive(desired, o, n, activation) /\ \E interest \in o.wants : interest.kind = "block"

PageEvents(desired, page, activation) ==
    LET blocks == Range(page.blocks) IN
    {BlockEvent("header", b) :
        b \in {c \in blocks : HasActiveBlockInterest(desired, Num[c], activation)}}
    \cup {LogEvent(page.logs[i]) : i \in DOMAIN page.logs}
    \cup {BlockEvent("progress", b) : b \in {c \in blocks : CanonicalAt(desired, Num[c], activation)}}

Addressed(r) == r.canonical \/ r.owners # {}

Records(desired, page, activation) ==
    LET records == {Record(desired, e, activation) : e \in PageEvents(desired, page, activation)}
    IN  SetToSortSeq({r \in records : Addressed(r)},
                     LAMBDA r, s : LexLeq(EventOrder(r), EventOrder(s)))

\* The last block of the page that counts as canonical coverage.
PageHead(desired, page, activation) ==
    LET covered == {i \in DOMAIN page.blocks :
                        CanonicalAt(desired, Num[page.blocks[i]], activation)}
    IN  IF covered = {} THEN None ELSE page.blocks[Max(covered)]
=============================================================================
