---------------------------- MODULE EventService ----------------------------
(***************************************************************************)
(* The gRPC event service: one task per client stream, running its message *)
(* handlers one at a time against the session store, the source and the    *)
(* lease registry that all tasks share.  A handler is cut into a step per  *)
(* await: between two of them other tasks run, the process may crash, and  *)
(* a source call may fail or time out.                                     *)
(*                                                                         *)
(* A task caches what it read or committed last (desired_state, cursor,    *)
(* required_reorg_anchor, has_pending) and never re-reads the row before   *)
(* it calls the source; the lease is what keeps those caches true.         *)
(*                                                                         *)
(* Left out: metrics, message wording, the authorizer, identifier limits.  *)
(* A rejected message that changes nothing is not a step.  A failed send   *)
(* breaks the loop, which Disconnect covers.                               *)
(***************************************************************************)
EXTENDS SessionStore

CONSTANTS
    Stream,         \* connection slots; a closed one may connect again
    MaxActive,      \* max_active_sessions
    DeliveryLimit   \* delivery_limit(limits), at most MaxRecords

ASSUME ServiceAssumption ==
    /\ MaxActive \in Nat /\ DeliveryLimit \in Nat /\ DeliveryLimit <= MaxRecords
    /\ None \notin Session

VARIABLES
    streams,   \* streams[c]: the locals of the task that serves stream c
    leases,    \* active_sessions: sessions some task holds or has fenced
    source,    \* source[s]: process-local source state of session s
    stopping,  \* the shutdown signal
    told       \* told[s]: what clients of s have been sent (history)

serviceVars == <<vars, streams, leases, source, stopping, told>>

Closed ==
    [phase |-> "closed", session |-> None, confirmed |-> FALSE, desired |-> None,
     cursor |-> None, tip |-> None, pending |-> FALSE, demanded |-> FALSE,
     request |-> None, prepared |-> None]

CleanSource == [active |-> 0, candidate |-> None]

Become(c, new) == streams' = [streams EXCEPT ![c] = new]
GoTo(c, phase) == streams' = [streams EXCEPT ![c].phase = phase]

\* The loop awaits a message or a tick: no handler is running.
Idle(c) == streams[c].phase = "idle"
Serving(c) == Idle(c) /\ streams[c].confirmed

(***************************************************************************)
(* Source calls (external: the EventSource trait).  prepare stages a       *)
(* candidate beside the active revision, activate replaces the active      *)
(* revision by it, abort discards it.  A call that fails may leave its     *)
(* candidate behind.                                                       *)
(***************************************************************************)
SourcePrepares(s, request) == source' = [source EXCEPT ![s].candidate = request]
SourceActivates(s, revision) == source' = [source EXCEPT ![s] = [active |-> revision, candidate |-> None]]
SourceDiscards(s) == source' = [source EXCEPT ![s].candidate = None]

(***************************************************************************)
(* Hello                                                                   *)
(***************************************************************************)
Proofs == [token : {Token(n) : n \in 1..MaxSequence}, head : OptBlock]

ResumeMatchesCursor(resume, token, cursor) ==
    resume.token = token /\ resume.head = cursor.head

SequenceOf(cursor) == IF cursor = None THEN 0 ELSE cursor.seq

\* Mutant: only the runtime checkpoint itself is a position to resume from.
HelloRuntimeOnly(row, sequence, resume) ==
    IF sequence = SequenceOf(row.runtime) THEN "Confirmed"
    ELSE IF resume = None /\ sequence = 0 THEN "DiscoveryOnly" ELSE "Rejected"

HelloPosition(row, sequence, resume) ==
    LET runtime == SequenceOf(row.runtime)
        confirmed ==
            \/ /\ sequence = runtime
               /\ resume # None =>
                     /\ row.runtime # None
                     /\ ResumeMatchesCursor(resume, Token(sequence), row.runtime)
            \/ /\ sequence # runtime /\ resume # None /\ row.pending # None
               /\ HasNextSequence(row) /\ sequence = NextSequence(row)
               /\ row.pending.seq = sequence
               /\ ResumeMatchesCursor(resume, row.pending.token, row.pending.cursor)
    IN  IF confirmed THEN "Confirmed"
        ELSE IF sequence = 0 /\ resume = None THEN "DiscoveryOnly"
        ELSE "Rejected"

Connect(c) ==
    /\ streams[c].phase = "closed" /\ ~stopping
    /\ GoTo(c, "open")
    /\ UNCHANGED <<vars, leases, source, stopping, told>>

\* Mutant: the registry is not consulted for the key.
AcquireAnyLease(c, s) ==
    /\ streams[c].phase = "open"
    /\ Cardinality(leases) < MaxActive
    /\ leases' = leases \cup {s}
    /\ Become(c, [Closed EXCEPT !.phase = "acquired", !.session = s])
    /\ UNCHANGED <<vars, source, stopping, told>>

AcquireLease(c, s) ==
    /\ streams[c].phase = "open"
    /\ s \notin leases
    /\ Cardinality(leases) < MaxActive
    /\ leases' = leases \cup {s}
    /\ Become(c, [Closed EXCEPT !.phase = "acquired", !.session = s])
    /\ UNCHANGED <<vars, source, stopping, told>>

\* A refused position drops the lease and keeps the stream open.
RejectHello(c, sequence, resume) ==
    /\ streams[c].phase = "acquired"
    /\ HelloPosition(rows[streams[c].session], sequence, resume) = "Rejected"
    /\ leases' = leases \ {streams[c].session}
    /\ Become(c, [Closed EXCEPT !.phase = "open"])
    /\ UNCHANGED <<vars, source, stopping, told>>

\* The row is read once; a committed desired state is prepared again in the
\* source before the stream is negotiated.
AcceptHello(c, sequence, resume) ==
    LET s == streams[c].session
        row == rows[s]
        position == HelloPosition(row, sequence, resume)
    IN  /\ streams[c].phase = "acquired"
        /\ position # "Rejected"
        /\ Become(c, [Closed EXCEPT !.phase = IF row.desired = None THEN "idle" ELSE "restoring",
                                    !.session = s,
                                    !.confirmed = (position = "Confirmed"),
                                    !.desired = row.desired,
                                    !.cursor = row.acked,
                                    !.tip = row.tip,
                                    !.pending = (row.pending # None)])
        /\ IF row.desired = None THEN UNCHANGED source ELSE SourcePrepares(s, row.desired)
        /\ UNCHANGED <<vars, leases, stopping, told>>

RestoreSource(c) ==
    /\ streams[c].phase = "restoring"
    /\ SourceActivates(streams[c].session, streams[c].desired.new)
    /\ GoTo(c, "idle")
    /\ UNCHANGED <<vars, leases, stopping, told>>

\* prepare or activate fails; the abort that follows may fail as well.
RestoreFails(c) ==
    /\ streams[c].phase = "restoring"
    /\ SourceDiscards(streams[c].session) \/ UNCHANGED source
    /\ GoTo(c, "closing")
    /\ UNCHANGED <<vars, leases, stopping, told>>

(***************************************************************************)
(* ApplyDesiredState                                                       *)
(***************************************************************************)
PrepareDesiredState(c, request, position) ==
    /\ Serving(c)
    /\ ValidateDesiredState(request)
    /\ SourcePrepares(streams[c].session, request)
    /\ Become(c, [streams[c] EXCEPT
                     !.phase = "prepared",
                     !.request = request,
                     !.prepared = IF position = None THEN None
                                  ELSE CursorAt(request.new, 0, position)])
    /\ UNCHANGED <<vars, leases, stopping, told>>

PrepareFails(c, request) ==
    /\ Serving(c)
    /\ ValidateDesiredState(request)
    /\ SourcePrepares(streams[c].session, request)
    /\ GoTo(c, "aborting")
    /\ UNCHANGED <<vars, leases, stopping, told>>

CommitDesiredState(c) ==
    /\ streams[c].phase = "prepared"
    /\ \/ ApplyDesiredState(streams[c].session, streams[c].request, streams[c].prepared)
       \/ ReplayDesiredState(streams[c].session, streams[c].request, streams[c].prepared)
    /\ GoTo(c, "committed")
    /\ UNCHANGED <<leases, source, stopping, told>>

CommitRefused(c) ==
    LET row == rows[streams[c].session] IN
    /\ streams[c].phase = "prepared"
    /\ ~ApplyAccepts(row, streams[c].request, streams[c].prepared, HasCapacity)
    /\ ~ApplyReplays(row, streams[c].request, streams[c].prepared)

\* Mutant: the candidate of a refused request stays in the source.
RefuseWithoutAbort(c) ==
    /\ CommitRefused(c)
    /\ Become(c, [streams[c] EXCEPT !.phase = "idle", !.request = None, !.prepared = None])
    /\ UNCHANGED <<vars, leases, source, stopping, told>>

\* A conflict is reported; an activation the store finds invalid is an
\* internal error, and the loop breaks once the candidate is aborted.
RefuseDesiredState(c) ==
    /\ CommitRefused(c)
    /\ Become(c, [streams[c] EXCEPT
                     !.phase = IF NoConflict(rows[streams[c].session], streams[c].request,
                                             HasCapacity)
                               THEN "failing" ELSE "aborting",
                     !.request = None, !.prepared = None])
    /\ UNCHANGED <<vars, leases, source, stopping, told>>

AbortCandidate(c) ==
    /\ streams[c].phase \in {"aborting", "failing"}
    /\ SourceDiscards(streams[c].session)
    /\ GoTo(c, IF streams[c].phase = "aborting" THEN "idle" ELSE "closing")
    /\ UNCHANGED <<vars, leases, stopping, told>>

AbortFails(c) ==
    /\ streams[c].phase \in {"aborting", "failing"}
    /\ GoTo(c, "closing")
    /\ UNCHANGED <<vars, leases, source, stopping, told>>

ActivateDesiredState(c) ==
    LET s == streams[c].session
        request == streams[c].request
    IN  /\ streams[c].phase = "committed"
        /\ SourceActivates(s, request.new)
        /\ Become(c, [streams[c] EXCEPT
                         !.phase = "idle", !.request = None, !.prepared = None,
                         !.desired = request,
                         !.pending = (rows[s].pending # None),
                         !.demanded = FALSE])
        /\ told' = [told EXCEPT ![s].rev = request.new]
        /\ UNCHANGED <<vars, leases, stopping>>

\* The revision is durable; closing the stream leaves its outcome to the
\* next Hello.
ActivateFails(c) ==
    /\ streams[c].phase = "committed"
    /\ SourceDiscards(streams[c].session) \/ UNCHANGED source
    /\ GoTo(c, "closing")
    /\ UNCHANGED <<vars, leases, stopping, told>>

(***************************************************************************)
(* Acknowledge                                                             *)
(***************************************************************************)
\* Mutant: the reorg anchor of the stream is not refreshed.
CommitAckKeepingAnchor(c, ack) ==
    LET s == streams[c].session IN
    /\ Serving(c)
    /\ \/ Acknowledge(s, ack)
       \/ AckRepeats(rows[s], ack) /\ UNCHANGED vars
    /\ Become(c, [streams[c] EXCEPT !.phase = "acked", !.cursor = rows'[s].acked])
    /\ UNCHANGED <<leases, source, stopping, told>>

\* The stream's cursor is set with the commit; the code sets it once the
\* confirmation is sent, and reads it only in later handlers.
CommitAcknowledgement(c, ack) ==
    LET s == streams[c].session IN
    /\ Serving(c)
    /\ \/ Acknowledge(s, ack)
       \/ AckRepeats(rows[s], ack) /\ UNCHANGED vars
    /\ Become(c, [streams[c] EXCEPT !.phase = "acked",
                                    !.cursor = rows'[s].acked,
                                    !.tip = rows'[s].tip])
    /\ UNCHANGED <<leases, source, stopping, told>>

\* Mutant: an acknowledgement the store refuses is confirmed.
ConfirmRefusedAck(c, ack) ==
    LET s == streams[c].session IN
    /\ Serving(c)
    /\ ~AckAccepts(rows[s], ack) /\ ~AckRepeats(rows[s], ack)
    /\ GoTo(c, "closing")
    /\ told' = [told EXCEPT ![s].seq = ack.seq]
    /\ UNCHANGED <<vars, leases, source, stopping>>

RefuseAcknowledgement(c, ack) ==
    LET s == streams[c].session IN
    /\ Serving(c)
    /\ ~AckAccepts(rows[s], ack) /\ ~AckRepeats(rows[s], ack)
    /\ GoTo(c, "closing")
    /\ UNCHANGED <<vars, leases, source, stopping, told>>

ConfirmAcknowledgement(c) ==
    LET s == streams[c].session IN
    /\ streams[c].phase = "acked"
    /\ Become(c, [streams[c] EXCEPT !.phase = "idle", !.pending = FALSE, !.demanded = FALSE])
    /\ told' = [told EXCEPT ![s].seq = streams[c].cursor.seq]
    /\ UNCHANGED <<vars, leases, source, stopping>>

\* The commit stands although the source could not follow it.
SourceAckFails(c) ==
    /\ streams[c].phase = "acked"
    /\ GoTo(c, "closing")
    /\ UNCHANGED <<vars, leases, source, stopping, told>>

(***************************************************************************)
(* DeliveryDemand and the tick or update that serves it                    *)
(***************************************************************************)
Demand(c) ==
    LET s == streams[c].session
        item == IF streams[c].pending THEN rows[s].pending ELSE None
    IN  /\ Serving(c)
        /\ IF item # None
           THEN told' = [told EXCEPT ![s].sent = item] /\ UNCHANGED streams
           ELSE /\ Become(c, [streams[c] EXCEPT !.pending = FALSE, !.demanded = TRUE])
                /\ UNCHANGED told
        /\ UNCHANGED <<vars, leases, source, stopping>>

Awaits(c) ==
    /\ Serving(c)
    /\ streams[c].desired # None /\ streams[c].demanded /\ ~streams[c].pending

\* What next_delivery may return for the cached desired state and cursor.
Produced(c, ahead, position, payload, neutral) ==
    LET sequence == SequenceOf(streams[c].cursor) + ahead IN
    OfferedDelivery(streams[c].desired.new, sequence, Token(sequence), position, payload, neutral)

FitsLimit(d) == DeliverySize(d) <= DeliveryLimit

\* Mutant: the delivery is sent and left to a later save.
SendUnsaved(c, d) ==
    LET s == streams[c].session IN
    /\ Awaits(c) /\ FitsLimit(d)
    /\ SaveAccepts(rows[s], streams[c].desired, d)
    /\ Become(c, [streams[c] EXCEPT !.demanded = FALSE])
    /\ told' = [told EXCEPT ![s].sent = d]
    /\ UNCHANGED <<vars, leases, source, stopping>>

PersistAndSend(c, d) ==
    LET s == streams[c].session IN
    /\ Awaits(c) /\ FitsLimit(d)
    /\ SavePending(s, streams[c].desired, d)
    /\ Become(c, [streams[c] EXCEPT !.pending = TRUE, !.demanded = FALSE])
    /\ told' = [told EXCEPT ![s].sent = d]
    /\ UNCHANGED <<leases, source, stopping>>

\* has_pending is false here and the caches are those of the row, so the
\* outbox is empty and save_pending never meets the item it already holds.
RefuseDelivery(c, d) ==
    LET row == rows[streams[c].session] IN
    /\ Awaits(c) /\ FitsLimit(d)
    /\ ~SaveAccepts(row, streams[c].desired, d) /\ ~SaveRepeats(row, streams[c].desired, d)
    /\ GoTo(c, "closing")
    /\ UNCHANGED <<vars, leases, source, stopping, told>>

\* An oversized delivery, or a source error: the demand is dropped.
FetchFails(c) ==
    /\ Awaits(c)
    /\ Become(c, [streams[c] EXCEPT !.demanded = FALSE])
    /\ UNCHANGED <<vars, leases, source, stopping, told>>

(***************************************************************************)
(* End of a stream, of the service and of the process                      *)
(***************************************************************************)
\* The client hangs up, the Hello deadline passes or a send fails.
Disconnect(c) ==
    /\ streams[c].phase \in {"open", "idle"}
    /\ GoTo(c, "closing")
    /\ UNCHANGED <<vars, leases, source, stopping, told>>

\* Mutant: a stream that has not said Hello does not watch the signal.
BreakNegotiated(c) ==
    /\ stopping /\ Idle(c)
    /\ GoTo(c, "closing")
    /\ UNCHANGED <<vars, leases, source, stopping, told>>

BreakOnShutdown(c) ==
    /\ stopping /\ streams[c].phase \in {"open", "idle"}
    /\ GoTo(c, "closing")
    /\ UNCHANGED <<vars, leases, source, stopping, told>>

ReleaseSession(c) ==
    LET s == streams[c].session IN
    /\ streams[c].phase = "closing"
    /\ IF s = None THEN UNCHANGED <<leases, source>>
       ELSE leases' = leases \ {s} /\ source' = [source EXCEPT ![s] = CleanSource]
    /\ Become(c, Closed)
    /\ UNCHANGED <<vars, stopping, told>>

\* Mutant: a failed release gives the lease back.
ReleaseDropsLease(c) ==
    /\ streams[c].phase = "closing" /\ streams[c].session # None
    /\ leases' = leases \ {streams[c].session}
    /\ Become(c, Closed)
    /\ UNCHANGED <<vars, source, stopping, told>>

\* retain_on_drop: the session stays fenced until the process restarts.
ReleaseFails(c) ==
    /\ streams[c].phase = "closing" /\ streams[c].session # None
    /\ Become(c, Closed)
    /\ UNCHANGED <<vars, leases, source, stopping, told>>

Shutdown ==
    /\ ~stopping
    /\ stopping' = TRUE
    /\ UNCHANGED <<vars, streams, leases, source, told>>

\* Mutant: the rows are lost with the process.
RestartEmpty ==
    /\ rows' = [s \in Session |-> EmptyRow]
    /\ streams' = [c \in Stream |-> Closed]
    /\ leases' = {}
    /\ source' = [s \in Session |-> CleanSource]
    /\ stopping' = FALSE
    /\ UNCHANGED <<log, replies, told>>

\* The process dies at any point and starts again; only the rows survive.
Restart ==
    /\ streams' = [c \in Stream |-> Closed]
    /\ leases' = {}
    /\ source' = [s \in Session |-> CleanSource]
    /\ stopping' = FALSE
    /\ UNCHANGED <<vars, told>>

-----------------------------------------------------------------------------
ServiceInit ==
    /\ Init
    /\ streams = [c \in Stream |-> Closed]
    /\ leases = {}
    /\ source = [s \in Session |-> CleanSource]
    /\ stopping = FALSE
    /\ told = [s \in Session |-> [rev |-> 0, seq |-> 0, sent |-> None]]

\* Steps a running handler takes without waiting for the client.
Continue(c) ==
    \/ \E sequence \in 0..MaxSequence, resume \in Proofs \cup {None} :
          RejectHello(c, sequence, resume) \/ AcceptHello(c, sequence, resume)
    \/ RestoreSource(c) \/ RestoreFails(c)
    \/ CommitDesiredState(c) \/ RefuseDesiredState(c)
    \/ AbortCandidate(c) \/ AbortFails(c)
    \/ ActivateDesiredState(c) \/ ActivateFails(c)
    \/ ConfirmAcknowledgement(c) \/ SourceAckFails(c)
    \/ ReleaseSession(c) \/ ReleaseFails(c)

\* Steps that a client message, a tick or the end of the connection starts.
React(c) ==
    \/ Connect(c)
    \/ \E s \in Session : AcquireLease(c, s)
    \/ \E request \in Requests :
          \/ PrepareFails(c, request)
          \/ \E position \in Positions \cup {None} : PrepareDesiredState(c, request, position)
    \/ \E ack \in Acknowledgements :
          CommitAcknowledgement(c, ack) \/ RefuseAcknowledgement(c, ack)
    \/ Demand(c)
    \/ /\ Awaits(c)
       /\ \E ahead \in {0, 1}, position \in Positions, payload \in Payloads, neutral \in BOOLEAN :
             LET d == Produced(c, ahead, position, payload, neutral) IN
             PersistAndSend(c, d) \/ RefuseDelivery(c, d)
    \/ FetchFails(c)
    \/ Disconnect(c) \/ BreakOnShutdown(c)

ServiceNext ==
    \/ \E c \in Stream : Continue(c) \/ React(c)
    \/ Shutdown
    \/ Restart

ServiceSpec == ServiceInit /\ [][ServiceNext]_serviceVars

\* Every source call and every send ends at its timeout, so a running handler
\* goes on; select! picks among ready branches at random, so a signal that is
\* ready again and again is taken.
ServiceFairness ==
    \A c \in Stream : WF_serviceVars(Continue(c)) /\ SF_serviceVars(BreakOnShutdown(c))

FairServiceSpec == ServiceSpec /\ ServiceFairness

(***************************************************************************)
(* Properties                                                              *)
(***************************************************************************)
Phases == {"closed", "open", "acquired", "restoring", "idle", "prepared", "committed",
           "aborting", "failing", "acked", "closing"}

\* Phases in which a task works for a session.
Holding == {"acquired", "restoring", "idle", "prepared", "committed", "aborting",
            "failing", "acked"}

StreamType ==
    [phase : Phases, session : Session \cup {None}, confirmed : BOOLEAN,
     desired : Requests \cup {None}, cursor : Cursor \cup {None}, tip : OptBlock,
     pending : BOOLEAN, demanded : BOOLEAN,
     request : Requests \cup {None}, prepared : Cursor \cup {None}]

SourceType == [active : Revisions, candidate : Requests \cup {None}]

\* Two tasks never work for one session, and a task that works for one is in
\* the registry: the lease is exclusive from Hello to release, whatever the
\* order of connects, rejected Hellos, failed releases and restarts.
LeaseExclusive ==
    \A c \in Stream : streams[c].session # None =>
        /\ streams[c].session \in leases
        /\ \A d \in Stream \ {c} : streams[d].session # streams[c].session

\* Between two handlers the values a task cached are those of the row, so the
\* source is always asked for the successor of what is durable.
CachesCoherent ==
    \A c \in Stream : Idle(c) =>
        LET row == rows[streams[c].session] IN
        /\ streams[c].desired = row.desired
        /\ streams[c].cursor = row.acked
        /\ streams[c].tip = row.tip
        /\ streams[c].pending = (row.pending # None)

\* Between two handlers the source runs the durable revision, and no candidate
\* of a refused or failed request is left in it.
ActiveMatchesDurable ==
    \A c \in Stream : Idle(c) =>
        LET s == streams[c].session IN
        source[s] = [active |-> rows[s].revision, candidate |-> None]

\* A session without a lease has no state in the source: a new stream never
\* starts on top of what an earlier one could not clean up.
SourceFenced == \A s \in Session : s \notin leases => source[s] = CleanSource

\* Whatever was sent under a sequence is what the outbox replays or the log
\* holds under it, across reconnects and restarts (persist before send).
ExactReplay ==
    \A s \in Session : told[s].sent # None =>
        LET n == told[s].sent.seq IN
        \/ n <= Len(log[s]) /\ log[s][n] = told[s].sent
        \/ rows[s].pending = told[s].sent

\* A revision or an acknowledgement that was confirmed to a client stays
\* durable, whatever fails afterwards.
RepliesDurable ==
    \A s \in Session :
        told[s].rev <= rows[s].revision /\ told[s].seq <= AckedSequence(rows[s])

\* Whatever the tasks do, the rows change only by whole operations of the
\* session store: the service implements SessionStore.
ImplementsStore == Spec

\* After the shutdown signal every stream closes.
ShutdownCompletes == stopping ~> \A c \in Stream : streams[c].phase = "closed"
=============================================================================
