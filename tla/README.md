# Verification of evm-fork-cache-hypersync

TLA+ specifications of the durable event-session system in this repository, the
TLC configurations that check them and theorems that TLAPS proves about them.

## The system

A client that caches EVM state on a fork subscribes to a *session*. The service
side (`crates/event-service`) keeps one durable row per session in SQLite, asks a
*source* (`crates/hypersync`) for the next delivery, stores it in a one-item
outbox, sends it and waits for the acknowledgement before it asks again. The
client side (`crates/remote`) reconnects, repeats what it does not know the
outcome of and may merge a historical and a live subscriber.

| Part | Source | Modules |
|---|---|---|
| Session store | `event-service/src/session_store.rs` | Chain, Delivery, SessionRow, SessionStore; SessionStoreProofs, SessionHistoryProofs |
| Desired-state checks | `event-service/src/desired_state.rs` | Delivery |
| Session tasks | `event-service/src/service.rs` | EventService; SessionStoreProofs, EventServiceProofs |
| Client's checks of a delivery | `remote/src/lib.rs` | WireDelivery, WireAgreement; SessionHistoryProofs |
| gRPC transport | `remote/src/lib.rs` | EventTransport, RemoteSession, EventFeed, SessionInvariant; SessionClientProofs, SessionTaskProofs, RemoteSessionProofs |
| Remote subscriber | `remote/src/lib.rs` | RemoteSubscriber; RemoteSubscriberProofs |
| Query plan | `hypersync/src/query_plan.rs` | Interests, QueryPlan; SourceProofs |
| Page validation, normalization | `hypersync/src/{page_validation,normalize}.rs` | SourcePages, PageIntake |
| Canonical tracker | `hypersync/src/canonical.rs` | CanonicalHistory, CanonicalTracker |
| Source engine | `hypersync/src/source_engine.rs` | SourceEngine, SourceSession |
| Managed provider | `hypersync/src/managed_provider.rs` | ManagedProvider, SourceEngine; SourceProofs |
| Hybrid coordinator | `remote/src/hybrid.rs` | HybridCheckpoint, HybridCoordinator |

`PROJECT.json` has the status of every part, the source lines of every definition
and the hazards of the code with the properties that cover them.

## Modules

```
Chain ─ Delivery ─ SessionRow ─ SessionStore ─ EventService ─┐
                      │                                      ├─ RemoteSession ─(implements)─ EventFeed
                      ├─ EventTransport ─────────────────────┘
                      ├─ RemoteSubscriber
                      └─ SourceEngine ─ SourceSession
Interests ─ QueryPlan, SourcePages ─ PageIntake;  CanonicalHistory ─ CanonicalTracker
HybridCheckpoint ─ HybridCoordinator;  ManagedProvider
```

`MC…` modules hold the instances that TLC checks, `…Proofs` modules the theorems.
Definitions whose comment starts with `Mutant:` are faulty variants of the
definition that follows them. They show that the properties can fail, and no
specification uses them.

### Store and service

**Chain** — block references. A model block stands for a `BlockRef`; number,
parent and timestamp are functions of it.

**Delivery** — the delivery envelope and the pure checks on it:
`ValidateDesiredState`, `ValidateDeliveryPayload` (audience, order, duplicate and
certification rules for data records, the shape of a reorg, the checkpoint-neutral
marker), `ValidateDeliveryProgress` (cursor and head against the acknowledged
cursor, the backfill boundary) and `CertifiesReorgTip`.

**SessionRow** — one row, and each store operation as a condition (`ApplyAccepts`,
`SaveAccepts`, `AckAccepts`) and a resulting row (`ApplyRow`, `SaveRow`, `AckRow`).
`ValidatePersistedSession` is the check every operation runs when it loads the row.

**SessionStore** — the table as a state machine. `rows` is the table. `log` and
`replies` are history variables: the acknowledged deliveries, and the activation
sequences answered for a revision. An operation commits as one step, as a SQLite
transaction or a statement under the store's mutex does. Sources and clients are
free: `Save` offers any delivery over the configured payloads and positions, of
this or the previous revision, with the next or the last sequence and either
value of the neutral marker. This is also the abstract specification of the
service.

**WireDelivery**, **WireAgreement** — `validate_wire_delivery_progress` and
`decode_data_payload`, the client's own checks. `OutboxAcceptable` compares them
with the store's: what only the store accepts would occupy the outbox for ever.

**EventService** — the tasks. `streams[c]` holds the locals of the task that serves
stream `c`; `phase` says where its handler is. Handlers are cut where the code
awaits the source, so other tasks, failures and a crash can come in between:

| Handler | Steps |
|---|---|
| Hello | `AcquireLease`; `RejectHello` or `AcceptHello`; `RestoreSource` or `RestoreFails` |
| ApplyDesiredState | `PrepareDesiredState` or `PrepareFails`; `CommitDesiredState` or `RefuseDesiredState`; `ActivateDesiredState` or `ActivateFails`; `AbortCandidate` or `AbortFails` |
| Acknowledge | `CommitAcknowledgement` or `RefuseAcknowledgement`; `ConfirmAcknowledgement` or `SourceAckFails` |
| DeliveryDemand, tick, update | `Demand`; `PersistAndSend`, `RefuseDelivery` or `FetchFails` |
| Loop exit | `Disconnect`, `BreakOnShutdown`; `ReleaseSession` or `ReleaseFails` |
| Process | `Shutdown`, `Restart` (crash included: only `rows` survives) |

The source is external to this module and is what the `EventSource` trait says:
an active revision and a candidate per session. A failed call may leave its
candidate behind; only a successful release is known to clean up. `told` is
history: the last revision and sequence confirmed and the last delivery sent.

### Client

**EventTransport** — the fields of `GrpcEventTransport` that outlive a call
(accepted authority, acknowledged sequence, `pending_apply`,
`pending_acknowledgement`, `delivery_demand_sent`, `in_flight_delivery`, buffered
messages) and what each answer makes of them, as pure operators.

**RemoteSession** — that transport and the tasks of EventService, joined by streams
that break at any moment: `net[c]` holds the messages in transit. When a stream
breaks, the service may still read what was sent and the client loses what it has
not read. The runtime saves the position of a delivery with its effects before it
acknowledges; it may drop any call and crash at any step.

**EventFeed** — what a session promises the runtime: a feed that grows by one
delivery at a time, each taken once and in order, and committed after it was
taken. `ImplementsFeed` maps the feed to what is acknowledged followed by what is
in the outbox.

**RemoteSubscriber** — the mirror of the committed registrations: `register`,
`upsert`, `replace` and `remove` of owners, backfills, the candidate and its
reconciliation, `next_batch`, `acknowledge_delivery`, `restore_position`. It runs
over the trait `RemoteEventTransport`: an operation takes effect or not and its
answer arrives or not. A call is cut at its awaits. That GrpcEventTransport keeps
this contract is RemoteSession's subject and has the exceptions listed under
*Disagreements*.

### Source

**Interests**, **QueryPlan** — `compile_query`: the compiler walks the interests and
keeps distinct filters up to `MAX_COMPILED_LOG_FILTERS`.

**SourcePages**, **PageIntake** — admission of a provider page and its
normalisation: which records it becomes, for which audience, with which head.

**CanonicalHistory**, **CanonicalTracker** — the bounded history of blocks.
`ApplyLoop` is the loop of `apply_blocks`; `ApplyBlocks` is a declarative
definition that the engine model uses. `TrackerLoopAsSpecified` compares them.

**SourceEngine**, **SourceSession** — the engine as a record with its methods as
operators, and one session of it from end to end: the provider's chain, the
engine and the row. A pull is one step per provider request (height, page, anchor,
each probe of the fork search, replacement page), and the chain may move between
any two. A pull that fails leaves the engine as it was.

**ManagedProvider** — the residency of engines: prepare, activate, abort, rebuild,
pull, acknowledge, release, and the height driver with `wait_for_update`, for
several sessions whose calls interleave at every await and are dropped by
timeouts. `At(k, step)` names the await at which a session's call is.

### Hybrid

**HybridCheckpoint** — the durable state of the coordinator and the pure operators
on it: validation of a batch against the canonical history, the position of each
child, `ApplyCommit`, `ValidateCheckpointState`.

**HybridCoordinator** — `next_batch`, `buffer_live`, `emit_historical`,
`emit_buffered_live`, `emit_live`, `acknowledge_delivery` and `restore_position`
between a historical child, a live child and a runtime. The children are modelled
by their contract. Live logs are sparse, so a live branch can jump over heights
that only history has delivered; the documentation names that a trust boundary,
and the environments give each replaced height a log or a neighbour with one.

## What is checked

| Run | Configuration | Properties |
|---|---|---|
| store | MCSessionStore, Store.cfg | RowsLoadable, ReorgPromiseKept, HeadMovesOnlyToCarriedBlocks, OutboxAcceptable, ActivationOpensRevision, ActivationReplyStable |
| service | MCEventService, Service.cfg | LeaseExclusive, CachesCoherent, ActiveMatchesDurable, SourceFenced, ExactReplay, RepliesDurable |
| service_liveness | MCEventService, ServiceLiveness.cfg | ShutdownCompletes, ImplementsStore |
| session | MCRemoteSession, Session.cfg | NoProtocolFault, RestartAccepted, ControlRecorded, CallsAnswered, ImplementsFeed |
| subscriber | MCRemoteSubscriber, Subscriber.cfg | MirrorFollowsRow, OutboxDecodes, RestartKeepsMirror, BackfillNotAbandoned |
| source_data | MCSourceData, SourceData.cfg | SelectsExactly, AdmittedPagesDeliverable, LogsReachTheirOwners, TrackerLoopAsSpecified |
| engine | MCSourceSession, Engine.cfg | OffersAccepted, SourceFollowsCommit, DeliveriesContinueHead, ReorgNamesForkPoint, RestartEquivalent, SteadyCatchesUp |
| provider | MCManagedProvider, Provider.cfg | ResidentWithinLimit, EnginesFollowStore, WaiterWoken |
| hybrid | MCHybridCoordinator, Hybrid.cfg | EffectsFollowHead, NeverTwice, Restartable, CutoverCompletes |
| session_lost_confirmation | MCRemoteSession, SessionLostConfirmation.cfg | LostConfirmationRetries (violated) |
| engine_fork_after_revision | MCSourceSession, EngineRevision.cfg | CatchesUp (violated) |
| hybrid_lost_while_buffering | MCHybridCoordinator, HybridLoss.cfg | EffectsFollowHead (violated) |

Run one with `tlc -workers 2 -config Store.cfg MCSessionStore`. Each property is
stated in the comment above its definition, and `PROJECT.json` names for each one a
faulty variant of the code that breaks it.

**store.** Two scenes on a chain of five blocks with one fork. In *reorg*, a page, its
replacement and replacement pages that skip, unlink or omit the promised tip; in
*catchup*, an owner that backfills behind the head. Two revisions and five (four)
sequences let a promise be made, an activation come between, and the promise be
kept or refused.

**service.** Two streams contend for one session through two revisions, a page, a
reorg and its replacement. Every call of the source may fail and every task may be
cut anywhere. *service_liveness* has one revision and one page: the handlers
matter there, not the data. Both check for deadlock.

**session.** One client, two streams (the old one and its replacement), two
revisions, sequences up to three. `Asks` are the desired states the caller applies;
`LastData` is where the source stops delivering; `DropsAfter` is the sequence after
which the caller drops a waiting `next_delivery`, once. A client may reach the end of
its feed and wait, so deadlock is not checked; `CallsAnswered` says instead that
nobody waits for an answer that cannot come. After a dropped `next_delivery`
(`client.dropped`) parts of three properties are not claimed: see *Disagreements*.

**subscriber.** Two environments over one fork: *Forking* (two revisions, a reorg
that takes a backfill back) and *Revising* (three revisions, owner ranges with and
without end). `env.last` and `env.revisions` bound the feed.

**source_data.** Three parts that keep no session, one per scene: lists of up to four
interests over two addresses and two topics with room for two filters, every page
of up to three rows with every guard, and every list of up to three references to
the tracker with depth four.

**engine.** Three environments: two forks with pages of one or three blocks, with and
without guards; owners that join, with backfills; a steady provider, for liveness.
`Depth` three makes a fork reach the end of the retained history.

**provider.** Two sessions and room for one, two revisions, three sequences, heights 0
and 1. Nothing more is needed for the capacity race (check, build, insert) or for the
race between the height driver and a waiter.

**hybrid.** Four environments: a growing chain with an ephemeral or a durable live
child that fails and restarts, and forking chains with and without failures. The
buffer holds two items, so it overflows. `EffectsFollowHead` is not claimed when a
chain has both forked and had a child or the coordinator fail (`Undisturbed`),
`Restartable` not after a live reorg, and `CutoverCompletes` only for an ephemeral
child on a chain that does not fork: see *Disagreements*.

`CHECK_DEADLOCK FALSE` stands where a behaviour ends because a bound is reached or
the chain has stopped growing.

### Fairness

- *Service*: `WF(Continue(c))`, every source call and send has a timeout, so a running
  handler goes on; `SF(BreakOnShutdown(c))`, `select!` picks among ready branches at
  random, so a signal that is ready again and again is taken.
- *Engine*: weak fairness of the working steps together: the client keeps asking and
  acknowledging, the source keeps answering. Nothing is assumed of the chain, of
  dropped calls or of disconnects. `WorkingSpec` is this condition with `ENABLED`
  spelled out, which TLC checks on larger instances.
- *Provider*: the tasks of the height driver and of a woken waiter are polled.
- *Hybrid*: the runtime polls, ingests and acknowledges, and a poll takes a
  historical item that stays ready. Nothing is assumed of the live child.

## What is proved

TLAPS checks the theorems below for every value of the constants that satisfies the
named assumptions: any number of sessions and streams, any chain, any payloads and
topologies, any limits. `tlapm M.tla` checks a module.

| Module | Theorems |
|---|---|
| SessionStoreProofs | TypesPreserved, RowsAlwaysLoadable, SequencesAreGapless, RuntimeIsLastVisible, OutboxNeverReplaced, SessionsWithinLimit; of the service: ServiceImplementsStore, ServiceRowsLoadable, LeasesAreExclusive, SourceIsFenced |
| SessionHistoryProofs | RepliesAreStable, RevisionsAreOpened, HeadsAreCarried, ReorgPromisesAreKept, OutboxIsAcceptable |
| EventServiceProofs | CachesAreCoherent, SourceMatchesStore, SentIsReplayedExactly, RepliesStayDurable, ServiceHistoriesAreSound |
| SessionClientProofs, SessionTaskProofs | the steps of the client and of the tasks keep the invariant of RemoteSession |
| RemoteSessionProofs | SessionImplementsService, RestartIsAccepted, SessionImplementsFeed |
| RemoteSubscriberProofs | SubscriberIsSound, MirrorFollows, BackfillsAreFinished, RestartsKeepMirror |
| SourceProofs | QuerySelectsExactly, QueryRefusedBeyondLimit, ProviderWithinLimit, ActivationFindsCandidate, EnginesStandAtStore, EnginesFollowAcknowledgements, ReleaseLeavesNothing, WakeupsKept |

### The arguments

**Store.** `RowsLoadable` is not inductive: an acknowledged activation barrier may
install a retained baseline as head, and the load check alone does not say that this
cannot happen while a replacement is promised. `PromiseHasHead` does: a promise is
only made by a reorg, which needs a head, and no delivery removes one. `HistoryInv`
adds that the history is gapless and that the runtime checkpoint is its last visible
delivery.

**Histories.** Each of the five adds what the row remembers of the past: `RepliesInv`
(the activation column is the sequence that was answered), `OpeningInv` (every
revision begins at its barrier), `PromiseInv` (an open promise is the tip column),
`SuccessorInv` (the last delivery is the row's position). `OutboxIsAcceptable` compares
two independent checkers field by field.

**Service.** `ServiceImplementsStore` maps every handler step to a step of SessionStore
or to a stutter, so the theorems about rows hold of the running service
(`ServiceHistoriesAreSound`). `FenceInv` says that a session which can be acquired has
no state in the source. `StateOK` says for every phase of a handler what a task's
cached values, the row and the source state have in common; it is inductive only
because leases are exclusive. `ToldInv` ties what clients were told to what is durable.

**Session.** `SessionInv` (module SessionInvariant) does not follow calls. It says what
the messages in transit and the client's fields mean for the row: an acknowledgement
is *backed* by saved effects, a delivery is *genuine*, and the client is at most one
acknowledgement behind the store (`Standing`). The last needs `DialInv`: when a stream
is accepted no task of an earlier stream has a request left that could move the row.
`SessionImplementsService` shows that the service part is EventService with a
particular client; what is proved there yields the rest (`SessionBase`, `RowMoves`).
`SessionImplementsFeed` then maps every step to a step of EventFeed or a stutter:
exactly-once, in-order delivery, for every interleaving of losses and crashes.

**Subscriber.** `SubscriberInv` relates the mirror, the row and `reach`, the number up to
which the revision was acknowledged. The mirror lacks a backfill of the committed
desired state only if `reach` is at its end (`Within`); what the subscriber has not
seen acknowledged is in the outbox or was the last to leave it (`LagOK`); a candidate
is the successor of the mirror, which has no open backfill unless the candidate
replaces everything (`CandidateOK`). `DecodesBuilt` shows that decoding a desired state
gives back the topology it was built from, inclusive and exclusive ends included.

**Source.** The query compiler keeps exactly the canonical forms of the interests it has
seen (`PlanInv`). The provider's `Inv` says of each session, from its own four variables,
what its running call may rely on; sessions meet only in the capacity.

### Assumptions

All are `ASSUME`s of the modules that declare the constants, and TLC evaluates them:
`ChainAssumption` (numbers, times and parents are functions of blocks),
`BoundAssumption`, `CapacityAssumption`, `ServiceAssumption`, `ProviderAssumption`,
`PlanAssumption` (limits are numbers, sets of sessions are finite), `SourceAssumption` and
`TopologyAssumption` (payloads, positions and ranges are well-formed),
`SessionAssumption` (one session; what the caller asks for are topologies),
`SubscriberAssumption` (ranges, blocks and heights are), and that `None` is none of the
values it stands beside. Nothing is assumed of when things fail.

### What is only model-checked

- *Liveness* (`ShutdownCompletes`, `SteadyCatchesUp`, `WaiterWoken`, `CutoverCompletes`):
  outside the prover, as is everything with `ENABLED`.
- *What recursive definitions compute* (`TrackerLoopAsSpecified`, page normalisation in
  `AdmittedPagesDeliverable` and `LogsReachTheirOwners`): needs induction over data.
- `ControlRecorded`, `CallsAnswered`, `NoProtocolFault` of the session: they depend on the
  order in which a call reads its answers, which `SessionInv` leaves out on purpose.
- `OutboxDecodes`: would need the comparison of the two checkers once more, over a source
  that is constrained by the subscriber's environment.
- SourceSession and HybridCoordinator: their invariants are statements about chains and
  branches of any length, which are folds over the parent relation.

## Disagreements

Three runs expect a violation, and `findings` in `PROJECT.json` quotes what the
repository says instead.

- *session_lost_confirmation* (`remote/src/lib.rs:502`): a reconnect after a lost
  confirmation presents the sequence before the one that was committed; the service
  does not confirm it, and the acknowledgement is not retried.
- *engine_fork_after_revision* (`source_engine.rs:352`): a fork of blocks that were
  canonical under the previous revision counts as owner-only after the next one, and
  every pull fails.
- *hybrid_lost_while_buffering* (`hybrid.rs:3463`): a live child that fails while items are
  buffered leaves a gap between them.

The models show further departures from what the documents say. Properties name them
as conditions, in the definition and its comment, so that they state what does hold:

- `lib.rs:502`: a reconnect after an acknowledged checkpoint-neutral barrier, without a
  proof, is refused. `RestartAccepted` is about the saved position only.
- `lib.rs:1128`: `apply_desired_state` after a retryable error sends nothing on the same
  stream; `lib.rs:1051`: a desired state refused because the outbox is occupied keeps the
  client from emptying it. `CallsAnswered` is about acknowledgements and demands.
- `lib.rs:1160`: a demand that outlives a dropped call and that the service has forgotten
  leaves both sides waiting; `lib.rs:1128`: an error that answers a dropped call is taken
  for the answer of the next one. `CallsAnswered`, `ControlRecorded` and `NoProtocolFault`
  exclude clients that have dropped a call (`client.dropped`).
- `source_engine.rs:767`, `managed_provider.rs:533`: a replacement page that ends below the
  promised tip, or below the activation block, is refused by the store, and again on the
  next attempt. `OffersAccepted` asks for a steady environment.
- `hybrid.rs:3631`: a proof of history survives the reorg that invalidates it
  (`Undisturbed`); `hybrid.rs:5917`: a position without a token after a live rollback is
  refused on restart (`Restartable`); `hybrid.rs:3644`: a held item waits for a redundant
  page (`CutoverCompletes`).

## Not modelled

- Migration of old databases, SQLite failures, `DesiredStateRegistry` (not used by the
  service), authorizers, `validate_limits`, metrics, heartbeats, byte sizes.
- Decoding of provider columns; request retries and error classes (a request succeeds
  or fails); the HyperSync client, the service binary, endpoint configuration and TLS.
- In the hybrid coordinator: owner and base changes after the start, safe and finalized
  heads, barriers, the reset of a rollback without an ancestor, byte budgets, the codec
  and the transcript of checkpoints. Logs that only a sparse live branch could have
  carried are the trust boundary the documentation names.
- Local matchers and route keys of the subscriber. `RestartKeepsMirror` is about a cursor
  that no reorg has taken back below the end of a backfill: a mirror that has seen a
  backfill complete does not reopen it, a fresh one does.
