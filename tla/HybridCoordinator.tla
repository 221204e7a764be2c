------------------------- MODULE HybridCoordinator -------------------------
(***************************************************************************)
(* The hybrid coordinator between a durable historical child, a live child *)
(* and the runtime that ingests its deliveries, persists its checkpoint    *)
(* and acknowledges.  Interests are the base interests registered at the   *)
(* start.                                                                  *)
(*                                                                         *)
(* A child is modelled by its contract: the historical child pages through *)
(* the canonical chain, keeps one item in flight until it is acknowledged  *)
(* and survives restarts.  The live child reports the logs of new blocks.  *)
(* It is either ephemeral (no tokens, removed logs on a reorg, a failure   *)
(* loses what happened meanwhile) or durable (tokens, explicit reorgs).    *)
(***************************************************************************)
EXTENDS HybridCheckpoint

CONSTANTS
    Genesis,             \* the block the historical child starts after
    PageBlocks,          \* the most blocks of a historical page
    MaxBufferedBatches,  \* max_buffered_live_batches
    MaxBufferedRecords,  \* max_buffered_live_records
    Environments         \* the chains and children that a coordinator may meet

(***************************************************************************)
(* An environment is a record of                                           *)
(*   blocks   the blocks the chain may reach                               *)
(*   logs     the blocks among them that hold a log of interest            *)
(*   tips     where the canonical chain may be at registration             *)
(*   durable  whether the live child is acknowledgement-gated              *)
(*   lossy    whether the live child may fail while items of it are        *)
(*            buffered                                                     *)
(*   reorgs, failures, restarts  how many of each happen at most           *)
(***************************************************************************)
VARIABLES
    env,       \* the environment of this coordinator
    tip,       \* the tip of the canonical chain
    faults,    \* how many reorgs, live failures and restarts have happened
    history,   \* the historical child: head and token acknowledged, the item in flight
    feed,      \* the live child: scan position, logs sent, token acknowledged, item in flight
    hy,        \* the coordinator
    runtime    \* the runtime: logs in effect, and the checkpoint it persisted

vars == <<env, tip, faults, history, feed, hy, runtime>>

(***************************************************************************)
(* The chain and the children                                              *)
(***************************************************************************)
Branch[b \in Block] == {b} \cup (IF Parent[b] = None THEN {} ELSE Branch[Parent[b]])

CommonAncestor(a, b) ==
    CHOOSE c \in Branch[a] \cap Branch[b] :
        \A d \in Branch[a] \cap Branch[b] : Num[d] <= Num[c]

Logs(b) == Branch[b] \cap env.logs

\* The logs of a set of blocks on one branch, in the order of their heights.
Ascending(blocks) ==
    [i \in 1..Cardinality(blocks) |->
        CHOOSE b \in blocks : Cardinality({c \in blocks : Num[c] < Num[b]}) = i - 1]

IncludedRecords(blocks) == LET s == Ascending(blocks) IN [i \in DOMAIN s |-> Included(s[i])]
RemovedRecords(blocks) ==
    LET s == Reverse(Ascending(blocks)) IN [i \in DOMAIN s |-> Removed(s[i])]

Batch(records, reorg, progress, token) ==
    [records |-> records, reorg |-> reorg, progress |-> progress, token |-> token]

\* What the historical child can hand out: the item in flight, a reorg that
\* takes it back to the canonical chain, or a page that ends at a later block.
HistoricalItems ==
    LET token == history.token + 1
        ancestor == CommonAncestor(history.head, tip)
    IN  CASE history.out # None -> {history.out}
          [] history.out = None /\ history.head # ancestor ->
                {[batch |-> Batch(<<>>, [ancestor |-> ancestor, old |-> history.head, new |-> tip],
                                  None, token),
                  head |-> ancestor]}
          [] OTHER ->
                {[batch |-> Batch(IncludedRecords(Logs(e) \ Branch[history.head]), None, e, token),
                  head |-> e] :
                    e \in {b \in Branch[tip] : /\ Num[b] > Num[history.head]
                                               /\ Num[b] <= Num[history.head] + PageBlocks}}

\* What the live child hands out next, as a set of at most one item.
EphemeralItems ==
    LET stale == feed.sent \ Branch[tip]
        base == CommonAncestor(feed.head, tip)
        fresh == {b \in Logs(tip) : Num[b] > Num[base]}
    IN  IF stale # {}
        THEN {[batch |-> Batch(RemovedRecords(stale), None, None, None),
               head |-> base, sent |-> feed.sent \ stale]}
        ELSE {[batch |-> Batch(<<Included(b)>>, None, None, None),
               head |-> b, sent |-> feed.sent \cup {b}] :
                 b \in {c \in fresh : \A d \in fresh : Num[c] <= Num[d]}}

DurableItems ==
    LET token == feed.token + 1
        base == CommonAncestor(feed.head, tip)
        fresh == {b \in Logs(tip) : Num[b] > Num[base]}
    IN  CASE feed.out # None -> {feed.out}
          [] feed.out = None /\ feed.sent \ Branch[tip] # {} ->
                {[batch |-> Batch(IncludedRecords(fresh),
                                  [ancestor |-> base, old |-> feed.head, new |-> tip], tip, token),
                  head |-> tip, sent |-> (feed.sent \cap Branch[tip]) \cup fresh]}
          [] OTHER ->
                {[batch |-> Batch(<<Included(b)>>, None, None, token),
                  head |-> b, sent |-> feed.sent \cup {b}] :
                    b \in {c \in fresh : \A d \in fresh : Num[c] <= Num[d]}}

FeedItems == IF env.durable THEN DurableItems ELSE EphemeralItems

\* Handing out an item: a durable child keeps it, an ephemeral one moves on.
HandedOut(child, item) ==
    IF item.batch.token # None THEN [child EXCEPT !.out = item]
    ELSE [child EXCEPT !.head = item.head, !.sent = item.sent]

\* A child takes the acknowledgement of the item in flight, and the same one again.
HistoryAcked(child, token) ==
    IF child.out = None \/ token = child.token THEN child
    ELSE [head |-> child.out.head, token |-> token, out |-> None]

FeedAcked(child, token) ==
    IF child.out = None \/ token = child.token THEN child
    ELSE [head |-> child.out.head, sent |-> child.out.sent, token |-> token, out |-> None]

(***************************************************************************)
(* The coordinator                                                         *)
(***************************************************************************)
Fresh(ck) ==
    [phase |-> "CatchingUp", reason |-> None, fence |-> None, drain |-> None, cutover |-> None,
     through |-> None, buffer |-> <<>>, restored |-> {}, anchor |-> None, pending |-> None,
     ck |-> ck]

Poison(h, reason) == [h EXCEPT !.phase = "Poisoned", !.reason = reason]

Recover(h) == [h EXCEPT !.phase = "Recovering", !.anchor = h.ck.head]

BufferedRecords(buffer) == FoldLeft(LAMBDA n, batch : n + Len(batch.records), 0, buffer)

\* Mutant: any acknowledged page proves the fence.
FinishAcknowledgedCutoverAtAnything(h) ==
    IF h.fence # None /\ h.through # None /\ h.cutover = None
    THEN [h EXCEPT !.phase = "DrainingLive", !.drain = h.through, !.anchor = None, !.through = None]
    ELSE h

\* Mutant: only a page that comes after the fence can prove it.
FinishAcknowledgedCutoverNever(h) == h

\* finish_acknowledged_cutover_if_ready: the proof was acknowledged first.
FinishAcknowledgedCutover(h) ==
    IF /\ h.fence # None /\ h.through # None /\ h.through >= h.fence
       /\ h.cutover = None /\ h.phase \in {"CatchingUp", "Recovering"}
    THEN [h EXCEPT !.phase = "DrainingLive", !.drain = h.through, !.anchor = None,
                   !.through = None]
    ELSE h

\* buffer_live.  The first canonical item fixes the fence below itself.
BufferLive(h, batch) ==
    LET top == MaxCanonicalBlock(batch)
        again == {i \in DOMAIN h.buffer : batch.token # None /\ h.buffer[i].token = batch.token}
    IN  CASE batch.token # None /\ top = None -> Poison(h, "uncovered")
          [] again # {} -> IF \A i \in again : h.buffer[i] = batch THEN h ELSE Poison(h, "token")
          [] again = {} /\ \/ Len(h.buffer) >= MaxBufferedBatches
                           \/ BufferedRecords(Append(h.buffer, batch)) > MaxBufferedRecords ->
                Poison(h, "overflow")
          [] OTHER ->
                FinishAcknowledgedCutover(
                    [h EXCEPT !.fence = IF @ = None /\ top # None THEN Max({top - 1, 0}) ELSE @,
                              !.buffer = Append(@, batch)])

\* The overlap with what is committed has to be exactly what is committed.
OverlapKnown(h, b) == b \in h.ck.history \cup ({h.ck.head} \ {None})
WitnessKnown(h, b) == b \in Range(h.ck.recent)

(***************************************************************************)
(* Delivering a batch.                                                     *)
(***************************************************************************)
\* Mutant: only the boundary of the drain leaves records out.
FilterRecentNothing(h, records) == records

\* Records whose log the runtime has not been given yet.
FilterRecent(h, records) ==
    SelectSeq(records, LAMBDA r : r.dropped \/ r.block \notin Range(h.ck.recent))

\* The block of the highest covered number, as the next history knows it.
ObservedThrough(top, plan) ==
    IF top = None THEN None ELSE At(plan.history \cup ({plan.head} \ {None}), top)

\* build_output: one item becomes the pending delivery, wrapped in the token and
\* the checkpoint that its acknowledgement will commit.
BuildOutput(h, source, batch, top, plan) ==
    LET records == FilterRecent(h, batch.records)
        kind == IF batch.token = None THEN "synthetic" ELSE "forwarded"
        inner == IF batch.token = None THEN h.ck.synthetic ELSE batch.token
        ck == IF batch.token = None THEN [h.ck EXCEPT !.synthetic = @ + 1] ELSE h.ck
        touched == SelectSeq([i \in DOMAIN batch.records |-> batch.records[i].block],
                             LAMBDA b : Included(b) \in Range(batch.records))
        commit == [source |-> source, kind |-> kind, inner |-> inner,
                   sourceToken |-> batch.token, canonical |-> plan.canonical,
                   touched |-> touched, observed |-> ObservedThrough(top, plan),
                   history |-> plan.history, head |-> plan.head]
        next == ApplyCommit(ck, commit)
    IN  CASE batch.token # None /\ h.ck[source].token = batch.token -> Poison(h, "token")
          [] records = <<>> /\ batch.reorg = None /\ plan.progress = None /\ batch.token = None ->
                h
          [] Len(touched) > RecentCapacity \/ ~ValidateCheckpointState(next) ->
                Poison(h, "checkpoint")
          [] OTHER ->
                [h EXCEPT !.ck = ck, !.restored = @ \ {source},
                          !.pending = [source |-> source, kind |-> kind, inner |-> inner,
                                       epoch |-> ck.epoch, records |-> records,
                                       canonical |-> plan.canonical, next |-> next,
                                       observed |-> commit.observed]]

\* The two children agree up to the anchor: what the historical child repeats
\* below it is compared with what is committed and left out; a reorg it reports
\* starts from the tip that is committed now.
ReconcileHistoricalRecovery(h, batch) ==
    LET a == batch.reorg
        known == At(h.ck.history, Num[a.ancestor])
        ancestorFits == IF known # None THEN known = a.ancestor
                        ELSE h.ck.history # {} /\ Oldest(h.ck.history) <= Num[a.ancestor]
        anchor == IF a = None THEN h.anchor ELSE a.ancestor
        Overlaps(b) == Num[b] <= Num[anchor]
        repeated == {b \in CanonicalRecords(batch.records) : Overlaps(b)}
        proved == batch.progress # None /\ Overlaps(batch.progress)
    IN  IF h.anchor = None THEN [ok |-> TRUE, anchor |-> None, batch |-> batch]
        ELSE [ok |-> /\ a # None => ancestorFits
                     /\ \A b \in repeated : OverlapKnown(h, b) /\ WitnessKnown(h, b)
                     /\ proved => OverlapKnown(h, batch.progress),
              anchor |-> anchor,
              batch |-> [batch EXCEPT
                  !.reorg = IF a = None \/ h.ck.head = None THEN a ELSE [a EXCEPT !.old = h.ck.head],
                  !.records = SelectSeq(@, LAMBDA r : r.dropped \/ r.block \notin repeated),
                  !.progress = IF proved THEN None ELSE @]]

\* emit_historical.  A page that reaches the fence announces the cutover; only
\* its acknowledgement performs it.
EmitHistorical(h, batch) ==
    LET reconciled == ReconcileHistoricalRecovery(h, batch)
        plan == PrepareCanonicalBatch(h.ck.history, h.ck.head, reconciled.batch)
        top == MaxCanonicalBlock(batch)
        reaches == h.cutover = None /\ h.fence # None /\ top # None /\ top >= h.fence
        announced == [h EXCEPT !.anchor = reconciled.anchor,
                               !.cutover = IF reaches THEN [token |-> batch.token, through |-> top]
                                           ELSE @]
    IN  IF ~reconciled.ok THEN Poison(h, "overlap")
        ELSE IF plan.verdict # "ok" THEN Poison(h, "sequence")
        ELSE BuildOutput(announced, "historical", reconciled.batch, top, plan)

\* What is left of a buffered live item once history is committed through a
\* boundary: the overlap is compared and left out, a transition that reaches
\* below the boundary and a removal that history has resolved are left out.
ReconcileBuffered(h, batch, through) ==
    LET repeated == {b \in CanonicalRecords(batch.records) : Num[b] <= through}
        proved == batch.progress # None /\ Num[batch.progress] <= through
        Resolved(r) == r.dropped /\ Num[r.block] <= through /\ r.block \notin h.ck.history
        Keeps(a) == Num[a.old] > through /\ Num[a.ancestor] >= through
    IN  [ok |-> /\ \A b \in repeated : OverlapKnown(h, b) /\ WitnessKnown(h, b)
                /\ proved => OverlapKnown(h, batch.progress),
         batch |-> [batch EXCEPT
             !.reorg = IF @ # None /\ Keeps(@) THEN @ ELSE None,
             !.records = SelectSeq(@, LAMBDA r :
                 ~Resolved(r) /\ (r.dropped \/ r.block \notin repeated)),
             !.progress = IF proved THEN None ELSE @]]

\* A live batch that cannot be placed sends the coordinator back to history,
\* one that contradicts it stops it.
PlaceLive(h, batch, top) ==
    LET plan == PrepareCanonicalBatch(h.ck.history, h.ck.head, batch) IN
    CASE plan.verdict = "incomplete" -> Recover(h)
      [] plan.verdict = "invalid" -> Poison(h, "sequence")
      [] OTHER -> BuildOutput(h, "live", batch, top, plan)

\* emit_buffered_live, one buffered item at a time.
EmitBufferedLive(h) ==
    LET batch == Head(h.buffer)
        popped == [h EXCEPT !.buffer = Tail(@)]
        reconciled == ReconcileBuffered(popped, batch, h.drain)
    IN  IF h.buffer = <<>>
        THEN [h EXCEPT !.phase = "Live", !.fence = None, !.drain = None, !.through = None]
        ELSE IF ~reconciled.ok THEN Poison(popped, "overlap")
        ELSE PlaceLive(popped, reconciled.batch, MaxCanonicalBlock(batch))

EmitLive(h, batch) == PlaceLive(h, batch, MaxCanonicalBlock(batch))
(***************************************************************************)
(* Acknowledgement and restart                                             *)
(***************************************************************************)
\* The coordinator's part of acknowledge_delivery, after the child's.
Commit(h) ==
    LET p == h.pending
        completes == /\ p.source = "historical" /\ p.kind = "forwarded"
                     /\ h.cutover # None /\ h.cutover.token = p.inner
        certifies == /\ p.source = "historical" /\ p.observed # None
                     /\ h.phase \in {"CatchingUp", "Recovering"}
        committed ==
            [h EXCEPT !.ck = p.next, !.pending = None,
                      !.restored = IF Ancestors(p.canonical) # <<>> THEN {} ELSE @,
                      !.through = IF ~certifies THEN @
                                  ELSE Max({Num[p.observed]} \cup ({@} \ {None}))]
        cut == IF ~completes THEN committed
               ELSE [committed EXCEPT !.drain = h.cutover.through, !.cutover = None,
                                      !.anchor = None, !.phase = "DrainingLive", !.through = None]
    IN  IF cut.phase = "DrainingLive" /\ cut.buffer = <<>>
        THEN [cut EXCEPT !.phase = "Live", !.fence = None, !.drain = None, !.through = None]
        ELSE cut

\* restore_position, with its preparation: the checkpoint is installed, an
\* ephemeral live cursor is forgotten, and history has to prove the gap.
RestorePosition(saved, epoch) ==
    LET ck == IF env.durable THEN saved
              ELSE [saved EXCEPT !.live.token = None, !.last = None, !.epoch = epoch]
    IN  [Fresh(ck) EXCEPT
            !.phase = "Recovering", !.anchor = ck.head,
            !.through = IF ck.certified = None THEN None ELSE Num[ck.certified],
            !.restored = {s \in {"historical", "live"} : ck[s].token # None}]

\* What a durable child accepts: the position it has acknowledged, or the item
\* in flight as the one ingested last (validate_resume_position).
RestoreAccepts(child, p) ==
    p.head # None =>
        LET sequence == IF p.token = None THEN 0 ELSE p.token IN
        \/ sequence = child.token /\ p.head = child.head
        \/ sequence = child.token + 1

\* What a fresh coordinator asks of the checkpoint and the token that the
\* runtime persisted with it (validate_restore_position_preflight).
RestorePreflight(saved) ==
    LET token == saved.token
        ck == saved.ck
    IN  /\ token.epoch = ck.epoch
        /\ ck.last = [source |-> token.source, kind |-> token.kind, inner |-> token.inner]
        /\ token.kind = "synthetic" => ck.synthetic = token.inner + 1
        /\ token.kind = "forwarded" => ck[token.source].token = token.inner
        /\ ValidateCheckpointState(ck)

CanRestore(saved) ==
    /\ RestorePreflight(saved)
    /\ RestoreAccepts(history, saved.ck.historical)
    /\ env.durable => RestoreAccepts(feed, saved.ck.live)

(***************************************************************************)
(* Steps                                                                   *)
(***************************************************************************)
Child == [head |-> Genesis, token |-> 0, out |-> None]

Init ==
    /\ env \in Environments
    /\ tip \in env.tips
    /\ faults = [reorgs |-> 0, failures |-> 0, restarts |-> 0]
    /\ history = Child
    /\ feed = [head |-> tip, sent |-> {}, token |-> 0, out |-> None]
    /\ hy = Fresh(EmptyCheckpoint)
    /\ runtime = [effects |-> {}, saved |-> None]

Extend ==
    /\ \E b \in env.blocks : Parent[b] = tip /\ tip' = b
    /\ UNCHANGED <<env, faults, history, feed, hy, runtime>>

\* Another branch, no shorter than the old one, becomes canonical.
Reorganize ==
    /\ faults.reorgs < env.reorgs
    /\ \E b \in env.blocks :
          /\ Num[b] >= Num[tip] /\ tip \notin Branch[b] /\ tip' = b
    /\ faults' = [faults EXCEPT !.reorgs = @ + 1]
    /\ UNCHANGED <<env, history, feed, hy, runtime>>

\* next_batch polls a child only with nothing to replay.
Polling == hy.pending = None /\ hy.restored = {}

\* A tokened item in the buffer is held; history is driven alone.
HoldsLive == \E i \in DOMAIN hy.buffer : hy.buffer[i].token # None

CatchesUp == hy.phase \in {"CatchingUp", "Recovering"}

\* Acknowledgements that the restored checkpoint proves are repeated first.
ReconcileRestored ==
    /\ hy.pending = None /\ hy.phase # "Poisoned"
    /\ \E s \in hy.restored :
          /\ s = "live" => "historical" \notin hy.restored
          /\ history' = IF s = "historical" THEN HistoryAcked(history, hy.ck.historical.token)
                        ELSE history
          /\ feed' = IF s = "live" THEN FeedAcked(feed, hy.ck.live.token) ELSE feed
          /\ hy' = [hy EXCEPT !.restored = @ \ {s}]
    /\ UNCHANGED <<env, tip, faults, runtime>>

PollHistorical ==
    /\ Polling /\ CatchesUp
    /\ \E item \in HistoricalItems :
          /\ history' = [history EXCEPT !.out = item]
          /\ hy' = EmitHistorical(hy, item.batch)
    /\ UNCHANGED <<env, tip, faults, feed, runtime>>

PollLive ==
    /\ Polling /\ CatchesUp /\ ~HoldsLive
    /\ \E item \in FeedItems :
          /\ feed' = HandedOut(feed, item)
          /\ hy' = BufferLive(hy, item.batch)
    /\ UNCHANGED <<env, tip, faults, history, runtime>>

DrainLive ==
    /\ Polling /\ hy.phase = "DrainingLive"
    /\ hy' = EmitBufferedLive(hy)
    /\ UNCHANGED <<env, tip, faults, history, feed, runtime>>

FollowLive ==
    /\ Polling /\ hy.phase = "Live"
    /\ \E item \in FeedItems :
          /\ feed' = HandedOut(feed, item)
          /\ hy' = EmitLive(hy, item.batch)
    /\ UNCHANGED <<env, tip, faults, history, runtime>>

\* The live child ends or fails while it is polled.  An ephemeral one comes
\* back at the tip of the day.
LiveFails ==
    /\ Polling
    /\ hy.phase = "Live" \/ (CatchesUp /\ ~HoldsLive)
    /\ env.lossy \/ hy.buffer = <<>>
    /\ faults.failures < env.failures
    /\ faults' = [faults EXCEPT !.failures = @ + 1]
    /\ hy' = Recover(hy)
    /\ feed' = IF env.durable THEN feed ELSE [feed EXCEPT !.head = tip, !.sent = {}]
    /\ UNCHANGED <<env, tip, history, runtime>>

(***************************************************************************)
(* The runtime.  It ingests a delivery and persists the checkpoint with it *)
(* in one transaction, then acknowledges.                                  *)
(***************************************************************************)
Token(p) == [epoch |-> p.epoch, source |-> p.source, kind |-> p.kind, inner |-> p.inner]

Ingested == hy.pending # None /\ runtime.saved # None /\ runtime.saved.token = Token(hy.pending)

Kept(effects, p) ==
    {b \in effects : \A a \in Range(Ancestors(p.canonical)) : Num[b] <= Num[a]}

Ingest ==
    /\ hy.pending # None /\ ~Ingested /\ hy.phase # "Poisoned"
    /\ runtime' = [effects |-> Kept(runtime.effects, hy.pending)
                                 \cup CanonicalRecords(hy.pending.records),
                   saved |-> [ck |-> hy.pending.next, token |-> Token(hy.pending)]]
    /\ UNCHANGED <<env, tip, faults, history, feed, hy>>

\* The child's acknowledgement, which a synthetic token does not have.
AckChild ==
    /\ history' = IF hy.pending.kind = "forwarded" /\ hy.pending.source = "historical"
                  THEN HistoryAcked(history, hy.pending.inner) ELSE history
    /\ feed' = IF hy.pending.kind = "forwarded" /\ hy.pending.source = "live"
               THEN FeedAcked(feed, hy.pending.inner) ELSE feed

AcknowledgeDelivery ==
    /\ Ingested
    /\ AckChild
    /\ hy' = Commit(hy)
    /\ UNCHANGED <<env, tip, faults, runtime>>

\* The child has taken the acknowledgement and its answer is lost.
AcknowledgeUncertain ==
    /\ Ingested
    /\ AckChild /\ <<history, feed>>' # <<history, feed>>
    /\ UNCHANGED <<env, tip, faults, hy, runtime>>

\* The process stops at any point and a new coordinator restores what the
\* runtime persisted.  When the preflight or a child refuses, the runtime has
\* no coordinator to go on with.
Restart ==
    /\ faults.restarts < env.restarts
    /\ faults' = [faults EXCEPT !.restarts = @ + 1]
    /\ feed' = IF env.durable THEN feed ELSE [feed EXCEPT !.head = tip, !.sent = {}]
    /\ hy' = IF runtime.saved = None
             THEN Fresh([EmptyCheckpoint EXCEPT !.epoch = faults.restarts + 1])
             ELSE IF CanRestore(runtime.saved)
             THEN RestorePosition(runtime.saved.ck, faults.restarts + 1)
             ELSE [Fresh(runtime.saved.ck) EXCEPT !.phase = "Unrestored"]
    /\ UNCHANGED <<env, tip, history, runtime>>

Next ==
    \/ Extend \/ Reorganize
    \/ ReconcileRestored
    \/ PollHistorical \/ PollLive \/ DrainLive \/ FollowLive
    \/ LiveFails
    \/ Ingest
    \/ AcknowledgeDelivery \/ AcknowledgeUncertain
    \/ Restart

Spec == Init /\ [][Next]_vars

\* When PollHistorical and DrainLive are enabled.
HistoricalReady == Polling /\ CatchesUp /\ HistoricalItems # {}
BufferReady == Polling /\ hy.phase = "DrainingLive"

\* The runtime keeps polling, ingesting and acknowledging; a poll that waits for
\* both children takes the historical item that is ready (tokio::select picks
\* among the ready ones at random).  Nothing is assumed of the live child.  The
\* second and the third conjunct are weak fairness, spelled out.
Fairness ==
    /\ WF_vars(ReconcileRestored) /\ WF_vars(Ingest) /\ WF_vars(AcknowledgeDelivery)
    /\ []<>~HistoricalReady \/ []<><<PollHistorical>>_vars
    /\ []<>~BufferReady \/ []<><<DrainLive>>_vars

FairSpec == Spec /\ Fairness

(***************************************************************************)
(* Properties                                                              *)
(***************************************************************************)
\* The chain has not both forked and had its live child or its coordinator
\* fail: an ephemeral child that comes back cannot take back what it had
\* reported of the branch that was left.
Undisturbed == faults.reorgs = 0 \/ (faults.failures = 0 /\ faults.restarts = 0)

\* The logs in effect in the runtime are the logs of the branch its checkpoint
\* covers: no log is missing and none of another branch is left over, whichever
\* child delivered them and however often either was restarted.
EffectsFollowHead ==
    Undisturbed => runtime.effects = IF runtime.saved = None \/ runtime.saved.ck.head = None THEN {}
                      ELSE Logs(runtime.saved.ck.head)

\* A delivery never repeats a log that stays in effect: the overlap of the two
\* children is left out (filter_recent, the anchor and the drain boundary).
NeverTwice ==
    hy.pending # None /\ ~Ingested =>
        CanonicalRecords(hy.pending.records) \cap Kept(runtime.effects, hy.pending) = {}

\* A new coordinator accepts the checkpoint that the runtime has persisted, and
\* the children accept its positions, at every moment: whether the delivery it
\* belongs to was acknowledged, is being acknowledged or was not.  (A fork that
\* the live child reports leaves the certified position above the new head.)
Restartable == faults.reorgs = 0 /\ runtime.saved # None => CanRestore(runtime.saved)

\* A live item that waits behind a fence is not held forever: history reaches
\* the fence and the buffer is drained, or the coordinator stops with an error
\* or is restarted.  This covers the proof that was acknowledged before the
\* fence existed (finish_acknowledged_cutover_if_ready).  It is asked of a chain
\* that does not fork and of an ephemeral live child: after a fork, recovery
\* waits for the chain to grow, and a durable child's item can be held by a
\* page that recovery has made redundant.
CutoverCompletes ==
    hy.fence # None /\ ~env.durable /\ env.reorgs = 0 ~>
        hy.fence = None \/ hy.phase = "Poisoned"
=============================================================================
