--------------------------- MODULE SourceSession ----------------------------
(***************************************************************************)
(* One session of the managed HyperSync source from end to end: a provider *)
(* whose canonical chain extends, forks and regresses at any time, the     *)
(* engine that scans it, and the session row its deliveries are persisted  *)
(* and acknowledged in.                                                    *)
(*                                                                         *)
(* A pull (next_delivery) is cut into a step per provider request: height, *)
(* page, anchor, one per probe of the fork search, replacement page.  The  *)
(* chain may move between any two.  The engine is written only when a pull *)
(* ends well; an error, a timeout and a dropped call all leave it as it    *)
(* was.  A stream that closes releases the engine, and the next Hello      *)
(* builds one from the row.                                                *)
(*                                                                         *)
(* Handlers of a stream run one at a time, so a pull, an apply and an      *)
(* acknowledgement never overlap (see EventService).  Pages carry no logs  *)
(* here; PageIntake covers them.                                           *)
(***************************************************************************)
EXTENDS SourceEngine

CONSTANTS
    Genesis,        \* the provider's first tip
    Environments    \* the clients and providers that a session may meet

(***************************************************************************)
(* An environment is a record of                                           *)
(*   requests  desired states that the client applies, in any order        *)
(*   sizes     most blocks the provider puts in one page                   *)
(*   guarded   whether a page may come with, or without, a guard           *)
(*   moves     how often the chain does anything but extend                *)
(*   faults    how many pulls are dropped and streams closed               *)
(*   last      the sequence after which no pull starts                     *)
(*   steady    the client keeps its desired state, and a page is guarded   *)
(*             and reaches its target: see OffersAccepted, CatchesUp       *)
(***************************************************************************)
VARIABLES
    env,      \* the environment of this session
    best,     \* the provider's canonical tip
    moves,    \* chain moves so far
    faults,   \* faults so far
    row,      \* the persisted session row
    engine,   \* the resident engine, None without a stream
    pull,     \* locals of a running next_delivery
    due       \* committed cursor the source has not been told of, or None

vars == <<env, best, moves, faults, row, engine, pull, due>>

(***************************************************************************)
(* The provider                                                            *)
(***************************************************************************)
Height == Num[best] + 1

OnChain(n) == CHOOSE b \in Branch[best] : Num[b] = n

ChainExtends ==
    /\ \E b \in Block : Parent[b] = best /\ best' = b
    /\ UNCHANGED <<env, moves, faults, row, engine, pull, due>>

\* A fork, or an archive that lags behind what it showed before.
ChainMoves ==
    /\ moves < env.moves
    /\ best' \in {b \in Block : Parent[b] # best} \ {best}
    /\ moves' = moves + 1
    /\ UNCHANGED <<env, faults, row, engine, pull, due>>

\* A page a query for [from, to) may be answered with.
Page(from, to, limits, size, guarded) ==
    LET end == Min({to, Height, from + limits.blocks, from + size})
        blocks == [i \in 1..(end - from) |-> OnChain(from + i - 1)]
    IN  [next |-> Max({from, end}), archive |-> Height, blocks |-> blocks, logs |-> <<>>,
         guard |-> IF guarded /\ blocks # <<>> THEN GuardOf(blocks) ELSE None]

Answers(from, to, limits) ==
    {Page(from, to, limits, size, guarded) : size \in env.sizes, guarded \in env.guarded}

(***************************************************************************)
(* build_engine                                                            *)
(***************************************************************************)
BackfillStart(desired) ==
    IF Backfills(desired) = {} THEN None ELSE Min({b.from : b \in Backfills(desired)})

\* The provider still has every retained baseline, unless durable history
\* answers for it.
VerifyRetainedBaselines(desired, history) ==
    \A baseline \in {b.baseline : b \in Backfills(desired)} \ {None} :
        LET retained == BlockAt(history, Num[baseline]) IN
        IF retained # None THEN retained = baseline
        ELSE Height > Num[baseline] /\ OnChain(Num[baseline]) = baseline

SameRevision(desired, acked) == acked # None /\ acked.rev = desired.new

StartBlock(desired, acked) ==
    LET from == BackfillStart(desired) IN
    IF SameRevision(desired, acked) THEN acked.next
    ELSE IF acked # None THEN (IF from = None THEN acked.next ELSE Min({from, acked.next}))
    ELSE IF from = None THEN Height ELSE from

ComputedActivation(desired, acked) == IF acked = None THEN Height ELSE acked.next

NoCheckpoint == [guard |-> None, activation |-> None, canonical |-> <<>>]

UsableCheckpoint(desired, acked) ==
    IF acked # None /\ acked.next = StartBlock(desired, acked)
    THEN CheckpointsFromCursor(acked) ELSE NoCheckpoint

EngineResume(desired, acked) ==
    LET checkpoint == UsableCheckpoint(desired, acked)
        baseline == CanonicalBaseline(desired)
    IN  [next |-> StartBlock(desired, acked),
         seq |-> IF acked = None THEN 0 ELSE acked.seq,
         activation |-> IF SameRevision(desired, acked) THEN CheckpointsFromCursor(acked).activation
                        ELSE ComputedActivation(desired, acked),
         boundary |-> IF SameRevision(desired, acked) THEN acked.boundary
                      ELSE ComputedActivation(desired, acked),
         canonical |-> IF checkpoint.canonical = <<>> /\ baseline # None THEN <<baseline>>
                       ELSE checkpoint.canonical,
         guard |-> checkpoint.guard,
         coverage |-> IF AckedHead(acked) # None THEN AckedHead(acked) ELSE baseline]

BuildAccepts(desired, acked) ==
    /\ acked # None => CheckpointAccepts(acked)
    /\ VerifyRetainedBaselines(desired, UsableCheckpoint(desired, acked).canonical)
    /\ AckedHead(acked) # None /\ CanonicalBaseline(desired) # None =>
          AckedHead(acked) = CanonicalBaseline(desired)
    /\ ResumeAccepts(EngineResume(desired, acked))

BuildEngine(desired, acked) == ResumeEngine(desired, EngineResume(desired, acked))

(***************************************************************************)
(* Hello and ApplyDesiredState                                             *)
(***************************************************************************)
NoPull == [pc |-> "idle", target |-> 0, limits |-> None, page |-> None, anchor |-> None,
           low |-> 0, high |-> 0, ancestor |-> None]

\* No handler is running.
Quiet == pull.pc = "idle" /\ due = None

Init ==
    /\ env \in Environments
    /\ best = Genesis
    /\ moves = 0 /\ faults = 0
    /\ row = EmptyRow
    /\ engine = None
    /\ pull = NoPull
    /\ due = None

Reconnect ==
    /\ engine = None /\ row.desired # None /\ Quiet
    /\ BuildAccepts(row.desired, row.acked)
    /\ engine' = BuildEngine(row.desired, row.acked)
    /\ UNCHANGED <<env, best, moves, faults, row, pull, due>>

\* prepare_desired_state, the commit of the row and activate_desired_state.
Apply ==
    /\ Quiet
    /\ \E request \in env.requests :
          LET candidate == BuildEngine(request, row.acked)
              cursor == PreparedCursor(candidate)
          IN  /\ BuildAccepts(request, row.acked)
              /\ ApplyAccepts(row, request, cursor, TRUE)
              /\ row' = ApplyRow(row, request, cursor)
              /\ engine' = candidate
    /\ UNCHANGED <<env, best, moves, faults, pull, due>>

(***************************************************************************)
(* next_delivery                                                           *)
(***************************************************************************)
\* required_reorg_target
RequiredTarget == IF row.tip = None THEN None ELSE Num[row.tip] + 1

RequiredTargetAccepts ==
    row.tip # None =>
        /\ row.acked.next <= Num[row.tip]
        /\ ~NumberAtLeast(row.acked.head, Num[row.tip])
        /\ row.acked.head # None /\ Num[row.acked.head] + 1 = Num[row.tip] =>
              Parent[row.tip] = row.acked.head

\* The exclusive end of the scan, None when there is nothing to fetch.
Target ==
    IF row.tip = None
    THEN IF Height <= engine.next THEN None ELSE Height
    ELSE IF Height < RequiredTarget THEN None ELSE RequiredTarget

CanPull == engine # None /\ row.pending = None /\ Quiet /\ RequiredTargetAccepts

StartPull ==
    /\ CanPull /\ Target # None
    /\ engine.pending = None /\ engine.next < Target /\ engine.seq < env.last
    /\ pull' = [NoPull EXCEPT !.pc = "page", !.target = Target,
                              !.limits = QueryLimits(engine.next, Target)]
    /\ UNCHANGED <<env, best, moves, faults, row, engine, due>>

\* A delivery in flight is returned again, without a query.
ReplayPull ==
    /\ CanPull /\ Target # None
    /\ engine.pending # None
    /\ pull' = [NoPull EXCEPT !.pc = "ready"]
    /\ UNCHANGED <<env, best, moves, faults, row, engine, due>>

\* next_batch returns an error.
PullFails == pull' = NoPull /\ UNCHANGED engine

(***************************************************************************)
(* The end of the loop: prepare_batch, the size check and the commit       *)
(***************************************************************************)
Finish(page, anchor) ==
    LET e == engine
        d == PreparedDelivery(e, e.seq + 1, page, anchor)
        reorg == AppliedPage(e, page, anchor).reorg
    IN  IF ~PrepareAccepts(e, page, anchor) THEN PullFails
        ELSE IF DeliverySize(d) > MaxDelivery
        THEN IF CanShrink(pull.limits)
             THEN /\ pull' = [pull EXCEPT !.pc = "page", !.limits = Shrunk(@), !.anchor = anchor,
                                          !.page = None, !.ancestor = None]
                  /\ UNCHANGED engine
             ELSE PullFails
        ELSE IF reorg = None
        THEN engine' = Advanced(e, page, anchor) /\ pull' = [NoPull EXCEPT !.pc = "ready"]
        ELSE IF OwnerOnlyFork(e, reorg) \/ e.seq + 1 = MaxSequence THEN PullFails
        ELSE engine' = Forked(e, page, anchor) /\ pull' = [NoPull EXCEPT !.pc = "ready"]

\* What follows an admitted page: the fork search, or the end.
Continue(page, anchor) ==
    IF ~RollbackDetected(engine, page) THEN Finish(page, anchor)
    ELSE IF engine.canonical = <<>> THEN PullFails
    ELSE /\ pull' = [pull EXCEPT !.pc = "search", !.page = None, !.anchor = anchor,
                                 !.low = Num[Head(engine.canonical)],
                                 !.high = Min({Num[Tip(engine.canonical)], engine.guard.number}),
                                 !.ancestor = None]
         /\ UNCHANGED engine

\* query_canonical_anchor asks only for an empty history and a guarded page.
NeedsAnchor(page) ==
    pull.anchor = None /\ engine.canonical = <<>> /\ page.guard # None /\ page.guard.first > 0

QueryPage ==
    /\ pull.pc = "page"
    /\ \E page \in Answers(engine.next, pull.target, pull.limits) :
          IF ~AdmitPage(page, engine.next, pull.target) THEN PullFails
          ELSE IF NeedsAnchor(page)
          THEN pull' = [pull EXCEPT !.pc = "anchor", !.page = page] /\ UNCHANGED engine
          ELSE Continue(page, pull.anchor)
    /\ UNCHANGED <<env, best, moves, faults, row, due>>

QueryAnchor ==
    LET n == pull.page.guard.first - 1 IN
    /\ pull.pc = "anchor"
    /\ IF Height > n /\ OnChain(n) = pull.page.guard.parent
       THEN Continue(pull.page, OnChain(n)) ELSE PullFails
    /\ UNCHANGED <<env, best, moves, faults, row, due>>

(***************************************************************************)
(* recover_rollback                                                        *)
(***************************************************************************)
Probed == pull.low + (pull.high - pull.low) \div 2

Probe ==
    /\ pull.pc = "search" /\ pull.low <= pull.high
    /\ IF Height <= Probed THEN PullFails
       ELSE /\ pull' = IF OnChain(Probed) = BlockAt(engine.canonical, Probed)
                       THEN [pull EXCEPT !.ancestor = Probed, !.low = Probed + 1]
                       ELSE [pull EXCEPT !.high = Probed - 1]
            /\ UNCHANGED engine
    /\ UNCHANGED <<env, best, moves, faults, row, due>>

QueryReplacement ==
    /\ pull.pc = "search" /\ pull.low > pull.high
    /\ IF pull.ancestor = None THEN PullFails
       ELSE \E page \in Answers(pull.ancestor + 1, pull.target, pull.limits) :
               IF AdmitPage(page, pull.ancestor + 1, pull.target)
               THEN Finish(page, None) ELSE PullFails
    /\ UNCHANGED <<env, best, moves, faults, row, due>>

(***************************************************************************)
(* What the service does with the delivery, and with its acknowledgement   *)
(***************************************************************************)
Offered == engine.pending.delivery

Save ==
    /\ pull.pc = "ready"
    /\ SaveAccepts(row, row.desired, Offered)
    /\ row' = SaveRow(row, Offered)
    /\ pull' = NoPull
    /\ UNCHANGED <<env, best, moves, faults, engine, due>>

\* The store refuses the delivery, the stream closes and the engine goes.
SaveRefused ==
    /\ pull.pc = "ready"
    /\ ~SaveAccepts(row, row.desired, Offered)
    /\ engine' = None
    /\ pull' = NoPull
    /\ UNCHANGED <<env, best, moves, faults, row, due>>

AcknowledgeRow ==
    /\ row.pending # None /\ engine # None /\ Quiet
    /\ AckAccepts(row, [seq |-> row.pending.seq, token |-> row.pending.token])
    /\ row' = AckRow(row)
    /\ due' = row.pending.cursor
    /\ UNCHANGED <<env, best, moves, faults, engine, pull>>

\* Whether ManagedEventProvider::acknowledge returns Ok for a resident engine.
SourceAckAccepts(e, cursor) ==
    \/ cursor.seq <= e.seq
    \/ EngineAckAccepts(e, Token(cursor.seq))
    \/ e.pending = None /\ cursor.rev = e.desired.new /\ SynchronizeAccepts(e, cursor)

AcknowledgeSource ==
    /\ due # None
    /\ engine' = IF ~SourceAckAccepts(engine, due) THEN None
                 ELSE IF due.seq <= engine.seq THEN engine
                 ELSE IF engine.pending # None THEN AcknowledgeEngine(engine)
                 ELSE Synchronized(engine, due)
    /\ due' = None
    /\ UNCHANGED <<env, best, moves, faults, row, pull>>

\* The call is dropped or times out in any of its awaits.
DropPull ==
    /\ pull.pc \notin {"idle", "ready"} /\ faults < env.faults
    /\ pull' = NoPull
    /\ faults' = faults + 1
    /\ UNCHANGED <<env, best, moves, row, engine, due>>

\* The process crashes, or the stream closes and releases the session.
Disconnect ==
    /\ engine # None /\ faults < env.faults
    /\ engine' = None /\ pull' = NoPull /\ due' = None
    /\ faults' = faults + 1
    /\ UNCHANGED <<env, best, moves, row>>

Working ==
    \/ Reconnect \/ StartPull \/ ReplayPull \/ QueryPage \/ QueryAnchor \/ Probe
    \/ QueryReplacement \/ Save \/ SaveRefused \/ AcknowledgeRow \/ AcknowledgeSource

Next == Working \/ Apply \/ ChainExtends \/ ChainMoves \/ DropPull \/ Disconnect

Spec == Init /\ [][Next]_vars

\* The client keeps asking and acknowledging, and the source keeps answering.
FairSpec == Spec /\ WF_vars(Working)

\* The same fairness with ENABLED spelled out, which makes larger instances
\* checkable.  Workable is when a working step can be taken, and the steps that
\* leave these three alone are the working ones.
Workable ==
    \/ pull.pc # "idle" \/ due # None
    \/ engine = None /\ row.desired # None /\ BuildAccepts(row.desired, row.acked)
    \/ engine # None /\ row.pending # None
    \/ /\ CanPull /\ Target # None
       /\ engine.pending = None => engine.next < Target /\ engine.seq < env.last

Works == UNCHANGED <<best, faults, row.revision>>

WorkingSpec == Spec /\ ([]<>~Workable \/ []<><<Works>>_vars)

(***************************************************************************)
(* Properties                                                              *)
(***************************************************************************)
\* Everything the engine hands out is accepted by the session store: the two
\* check the same transition independently, and a delivery only one of them
\* accepts stops the session.  It takes a steady environment: a restarted source
\* that fetches a promised tip again in two pages, or behind a later activation
\* block, hands out the first of them without the tip.
OffersAccepted == env.steady /\ pull.pc = "ready" => SaveAccepts(row, row.desired, Offered)

\* Once the row has committed an acknowledgement, the source follows it: the
\* resident engine is advanced or synchronised, never left behind by an error
\* (ManagedEventProvider::acknowledge).
SourceFollowsCommit == due # None => SourceAckAccepts(engine, due)

\* The blocks a delivery certifies continue the chain the client has: they
\* link to its head, and where they overlap it they are on it.
Continues(head, blocks) ==
    head # None =>
        /\ \A b \in blocks : Num[b] <= Num[head] => b \in Branch[head]
        /\ \A b \in blocks : Num[b] > Num[head] => head \in Branch[b]
        /\ \A n \in (Num[head] + 1)..Max({Num[b] : b \in blocks}) : \E b \in blocks : Num[b] = n

DeliveriesContinueHead ==
    row.pending # None /\ IsData(row.pending) =>
        LET blocks == CanonicalBlocks(row.pending.payload.records) IN
        blocks # {} => Continues(AckedHead(row.acked), blocks)

\* A reorg control names the block at which the acknowledged branch and its
\* replacement part, although the chain may move between any two of the
\* requests that found it.
ReorgNamesForkPoint ==
    row.pending # None /\ IsReorg(row.pending) =>
        LET p == row.pending.payload IN
        /\ p.old = AckedHead(row.acked)
        /\ p.ancestor = CommonAncestor(p.old, p.new)

\* A session can always be resumed from its row while the provider still has the
\* baselines it retained: no sequence of commits writes a checkpoint that
\* build_engine refuses.  And the engine it builds is the one that was resident:
\* restarting does not change where the scan continues, and it only ever adds a
\* rollback guard the provider did not send.
RestartEquivalent ==
    row.acked # None =>
        LET rebuilt == BuildEngine(row.desired, row.acked) IN
        /\ CheckpointAccepts(row.acked) /\ ResumeAccepts(EngineResume(row.desired, row.acked))
        /\ engine # None /\ engine.pending = None /\ due = None /\ row.pending = None =>
              engine = [rebuilt EXCEPT !.guard = IF engine.guard = None THEN None ELSE @]

\* The client's head is not the provider's although there is more to scan,
\* the provider still has a block of the retained history, and no promise
\* names a block that it has dropped.
Behind ==
    /\ row.acked # None
    /\ row.acked.head # best
    /\ Height > row.acked.next
    /\ \E b \in Range(row.acked.checkpoint.canonical) : b \in Branch[best]
    /\ row.tip # None => row.tip \in Branch[best]

\* Once the provider's chain stops moving the client catches up with it: a
\* fork inside the retained history is always found and replaced, whatever
\* calls were dropped and wherever the stream was closed.
CatchesUp == []<>~Behind

\* The same in the environments in which it is so: pages carry the guards by
\* which a fork is noticed, and no later desired state drops the history.
SteadyCatchesUp == env.steady => []<>~Behind
=============================================================================
