--------------------------- MODULE ManagedProvider --------------------------
(***************************************************************************)
(* The provider that keeps one source engine per session in memory, up to  *)
(* a limit, and a candidate for each desired state being applied.  Calls   *)
(* of one session never overlap (the service runs them in one task);       *)
(* calls of different sessions interleave at every await: the capacity of  *)
(* the provider is checked, an engine is built over several requests, and  *)
(* only then inserted.  Any call is dropped when its timeout expires.      *)
(*                                                                         *)
(* Each engine has a height driver: a task that stores pushed heights and  *)
(* notifies whoever waits for an update.                                   *)
(*                                                                         *)
(* A position is what a delivery's cursor says: the revision, sequence and *)
(* scan position, and the block a reorg promises to replace.  How a source *)
(* engine makes its deliveries is SourceEngine's subject; here it makes    *)
(* any, and what matters is which engine is asked, and where it stands.    *)
(***************************************************************************)
EXTENDS Integers, FiniteSets

CONSTANTS
    Key,          \* session keys
    None,         \* an absent value
    MaxResident,  \* max_resident_sessions
    MaxRevision,  \* how many revisions are applied
    MaxSequence,  \* how many deliveries are made
    MaxHeight     \* how high the chain gets

ASSUME ProviderAssumption ==
    /\ IsFiniteSet(Key)
    /\ MaxResident \in Nat \ {0}
    /\ MaxRevision \in Nat /\ MaxSequence \in Nat /\ MaxHeight \in Nat

Revision == 0..MaxRevision
Height == 0..MaxHeight
Position == [rev : Revision, seq : 0..MaxSequence, scan : Height, anchor : Height \cup {None}]
Engine == [rev : Revision, seq : 0..MaxSequence, scan : Height, pending : Position \cup {None},
           hint : Height, permit : BOOLEAN, driver : {"receive", "notify"}]

ASSUME NoneAssumption == None \notin Height \cup Position \cup Engine

VARIABLES
    engines,   \* ProviderState::engines
    prepared,  \* ProviderState::prepared; a session has one candidate at most
    durable,   \* the store's row: revision, acknowledged and pending position
    call       \* the step of the session's running call

vars == <<engines, prepared, durable, call>>

At(k, step) == call[k] = step
Goto(k, step) == call' = [call EXCEPT ![k] = step]

(***************************************************************************)
(* ensure_session_capacity                                                 *)
(***************************************************************************)
Resident == {k \in Key : engines[k] # None \/ prepared[k] # None}

HasCapacity(k) == k \in Resident \/ Cardinality(Resident) < MaxResident

\* build_engine starts at the acknowledged position; the engine of a new
\* revision at the latest there, and of a new session anywhere.  Its driver
\* may have pushed a height already.
Starts(k, rev) ==
    LET acked == durable[k].acked IN
    IF acked.seq = 0 THEN Height ELSE IF acked.rev < rev THEN 0..acked.scan ELSE {acked.scan}

NewEngine(k, rev, scan, hint) ==
    [rev |-> rev, seq |-> durable[k].acked.seq, scan |-> scan, pending |-> None,
     hint |-> hint, permit |-> hint # 0, driver |-> "receive"]

(***************************************************************************)
(* prepare_desired_state, activate_desired_state, abort_desired_state, as  *)
(* the service calls them around its compare-and-swap                      *)
(***************************************************************************)
Init ==
    /\ engines = [k \in Key |-> None]
    /\ prepared = [k \in Key |-> None]
    /\ durable = [k \in Key |-> [rev |-> 0, pending |-> None,
                                  acked |-> [rev |-> 0, seq |-> 0, scan |-> 0, anchor |-> None]]]
    /\ call = [k \in Key |-> "idle"]

Prepare(k) ==
    /\ At(k, "idle")
    /\ Goto(k, IF HasCapacity(k) THEN "prepare" ELSE "abort")
    /\ UNCHANGED <<engines, prepared, durable>>

\* Mutant: capacity is not checked again after the engine was built.
PrepareBuiltUnchecked(k) ==
    /\ At(k, "prepare")
    /\ \E rev \in {durable[k].rev, durable[k].rev + 1} \cap 1..MaxRevision, hint \in Height :
          \E scan \in Starts(k, rev) :
              prepared' = [prepared EXCEPT ![k] = NewEngine(k, rev, scan, hint)]
    /\ Goto(k, "answered")
    /\ UNCHANGED <<engines, durable>>

\* The request repeats the committed revision, or asks for the next one.
PrepareBuilt(k) ==
    /\ At(k, "prepare") /\ HasCapacity(k)
    /\ \E rev \in {durable[k].rev, durable[k].rev + 1} \cap 1..MaxRevision, hint \in Height :
          \E scan \in Starts(k, rev) :
              prepared' = [prepared EXCEPT ![k] = NewEngine(k, rev, scan, hint)]
    /\ Goto(k, "answered")
    /\ UNCHANGED <<engines, durable>>

\* The build fails or times out, or the room is gone.
PrepareFails(k) ==
    /\ At(k, "prepare")
    /\ Goto(k, "abort")
    /\ UNCHANGED <<engines, prepared, durable>>

\* The store commits the next revision, with its activation as the pending
\* delivery, unless one is pending; a repetition changes nothing.
Commit(k) ==
    LET row == durable[k] IN
    /\ At(k, "answered")
    /\ \/ /\ prepared[k].rev = row.rev + 1 /\ row.pending = None /\ row.acked.seq < MaxSequence
          /\ durable' = [durable EXCEPT
                 ![k].rev = row.rev + 1,
                 ![k].pending = [rev |-> row.rev + 1, seq |-> row.acked.seq + 1,
                                 scan |-> prepared[k].scan, anchor |-> row.acked.anchor]]
       \/ prepared[k].rev = row.rev /\ UNCHANGED durable
    /\ Goto(k, "activate")
    /\ UNCHANGED <<engines, prepared>>

Refuse(k) ==
    /\ At(k, "answered")
    /\ Goto(k, "abort")
    /\ UNCHANGED <<engines, prepared, durable>>

Activate(k) ==
    /\ At(k, "activate")
    /\ prepared[k] # None /\ prepared[k].rev = durable[k].rev
    /\ engines' = [engines EXCEPT ![k] = prepared[k]]
    /\ prepared' = [prepared EXCEPT ![k] = None]
    /\ Goto(k, "idle")
    /\ UNCHANGED durable

Abort(k) ==
    /\ At(k, "abort")
    /\ prepared' = [prepared EXCEPT ![k] = None]
    /\ Goto(k, "idle")
    /\ UNCHANGED <<engines, durable>>

(***************************************************************************)
(* engine: what next_delivery and wait_for_update start with               *)
(***************************************************************************)
Current(k) == engines[k] # None /\ engines[k].rev = durable[k].rev

Use(k, step) ==
    /\ At(k, "idle") /\ durable[k].rev > 0 /\ durable[k].pending = None
    /\ Goto(k, IF Current(k) THEN step ELSE "build")
    /\ UNCHANGED <<engines, prepared, durable>>

Built(k) ==
    /\ At(k, "build") /\ HasCapacity(k)
    /\ \E hint \in Height, scan \in Starts(k, durable[k].rev) :
          engines' = [engines EXCEPT ![k] = NewEngine(k, durable[k].rev, scan, hint)]
    /\ \E step \in {"pull", "load"} : Goto(k, step)
    /\ UNCHANGED <<prepared, durable>>

\* The build fails or times out, or the room is gone.
BuildFails(k) ==
    /\ At(k, "build")
    /\ Goto(k, "idle")
    /\ UNCHANGED <<engines, prepared, durable>>

(***************************************************************************)
(* next_delivery                                                           *)
(***************************************************************************)
\* required_reorg_target: a promised block is delivered by scanning past it.
Anchor(k) == durable[k].acked.anchor

Target(k) == Anchor(k) + 1

\* Whether the archive reaches what the session waits for.
Covers(k, height) ==
    IF Anchor(k) = None THEN height > engines[k].scan ELSE height >= Target(k)

\* What the engine may prepare: more blocks, a rollback with its promise, or
\* the replacement of a promised block.
Deliveries(k, height) ==
    LET e == engines[k]
        delivery(scan, anchor) == [rev |-> e.rev, seq |-> e.seq + 1, scan |-> scan, anchor |-> anchor]
    IN  IF Anchor(k) # None THEN {delivery(Target(k), None)}
        ELSE {delivery(scan, None) : scan \in (e.scan + 1)..height}
             \cup {delivery(p[1], p[2]) : p \in {q \in Height \X Height :
                                                q[1] < e.scan /\ q[1] <= q[2] /\ q[2] < MaxHeight}}

\* The service persists the delivery, or refuses its size and keeps the stream.
Pull(k) ==
    /\ At(k, "pull")
    /\ \E height \in Height \ {0} :
          /\ Covers(k, height) /\ engines[k].seq < MaxSequence
          /\ \E d \in IF engines[k].pending # None THEN {engines[k].pending} ELSE Deliveries(k, height) :
                /\ engines' = [engines EXCEPT ![k] = [@ EXCEPT !.hint = height, !.pending = d]]
                /\ durable' \in {durable, [durable EXCEPT ![k].pending = d]}
    /\ Goto(k, "idle")
    /\ UNCHANGED prepared

\* There is nothing to deliver, or the source fails after or before it
\* answered with a height.
PullNothing(k) ==
    /\ At(k, "pull")
    /\ \E hint \in {engines[k].hint} \cup (Height \ {0}) : engines' = [engines EXCEPT ![k].hint = hint]
    /\ Goto(k, "idle")
    /\ UNCHANGED <<prepared, durable>>

(***************************************************************************)
(* acknowledge, after the store has committed the acknowledgement          *)
(***************************************************************************)
Acknowledge(k) ==
    /\ At(k, "idle") /\ durable[k].pending # None
    /\ durable' = [durable EXCEPT ![k].acked = durable[k].pending, ![k].pending = None]
    /\ Goto(k, "acknowledge")
    /\ UNCHANGED <<engines, prepared>>

\* An engine that is not there, or stands there already, is left alone; one
\* that made the delivery advances, and one that was built since it was made
\* is moved to the committed position.
Understands(k) ==
    LET e == engines[k] acked == durable[k].acked IN
    e # None => \/ acked.seq <= e.seq
                \/ e.pending = acked
                \/ e.pending = None /\ acked.rev = e.rev

\* Mutant: an engine with nothing pending is taken to have nothing to do.
ProviderAcknowledgePendingOnly(k) ==
    LET e == engines[k] acked == durable[k].acked IN
    /\ At(k, "acknowledge") /\ Understands(k)
    /\ engines' = IF e = None \/ acked.seq <= e.seq \/ e.pending = None THEN engines
                  ELSE [engines EXCEPT ![k] = [e EXCEPT !.seq = acked.seq, !.scan = acked.scan,
                                                        !.pending = None]]
    /\ Goto(k, "idle")
    /\ UNCHANGED <<prepared, durable>>

ProviderAcknowledge(k) ==
    LET e == engines[k] acked == durable[k].acked IN
    /\ At(k, "acknowledge") /\ Understands(k)
    /\ engines' = IF e = None \/ acked.seq <= e.seq THEN engines
                  ELSE [engines EXCEPT ![k] = [e EXCEPT !.seq = acked.seq, !.scan = acked.scan,
                                                        !.pending = None]]
    /\ Goto(k, "idle")
    /\ UNCHANGED <<prepared, durable>>

(***************************************************************************)
(* wait_for_update and the height driver                                   *)
(***************************************************************************)
Ready(k) == Covers(k, engines[k].hint)

Load(k) ==
    /\ At(k, "load")
    /\ Goto(k, IF Ready(k) THEN "pull" ELSE "loaded")
    /\ UNCHANGED <<engines, prepared, durable>>

\* The check and the registration of the waiter are two steps.
Park(k) ==
    /\ At(k, "loaded")
    /\ Goto(k, "park")
    /\ UNCHANGED <<engines, prepared, durable>>

Wake(k) ==
    /\ At(k, "park") /\ engines[k].permit
    /\ engines' = [engines EXCEPT ![k].permit = FALSE]
    /\ Goto(k, "load")
    /\ UNCHANGED <<prepared, durable>>

\* Another arm of the session task is ready, and drops the wait.
WaitDropped(k) ==
    /\ call[k] \in {"load", "loaded", "park"}
    /\ Goto(k, "idle")
    /\ UNCHANGED <<engines, prepared, durable>>

DriverReceives(k) ==
    /\ engines[k] # None /\ engines[k].driver = "receive"
    /\ \E height \in Height :
          engines' = [engines EXCEPT ![k] = [@ EXCEPT !.hint = height, !.driver = "notify"]]
    /\ UNCHANGED <<prepared, durable, call>>

\* Mutant: only a waiter that is parked already is notified.
DriverNotifiesWaiters(k) ==
    /\ engines[k] # None /\ engines[k].driver = "notify"
    /\ engines' = [engines EXCEPT ![k].permit = At(k, "park"), ![k].driver = "receive"]
    /\ UNCHANGED <<prepared, durable, call>>

DriverNotifies(k) ==
    /\ engines[k] # None /\ engines[k].driver = "notify"
    /\ engines' = [engines EXCEPT ![k] = [@ EXCEPT !.permit = TRUE, !.driver = "receive"]]
    /\ UNCHANGED <<prepared, durable, call>>

(***************************************************************************)
(* The end of a stream                                                     *)
(***************************************************************************)
\* A stream ends between two calls, or because one of them timed out.
Close(k) ==
    /\ call[k] \in {"idle", "activate", "abort", "acknowledge", "pull"}
    /\ Goto(k, "release")
    /\ UNCHANGED <<engines, prepared, durable>>

Release(k) ==
    /\ At(k, "release")
    /\ engines' = [engines EXCEPT ![k] = None]
    /\ prepared' = [prepared EXCEPT ![k] = None]
    /\ Goto(k, "closed")
    /\ UNCHANGED durable

\* The release times out, and the service never serves the key again.
ReleaseFails(k) ==
    /\ At(k, "release")
    /\ Goto(k, "fenced")
    /\ UNCHANGED <<engines, prepared, durable>>

\* The next stream.  The service prepares and activates the committed
\* revision first; another caller of the trait may leave it to engine.
Open(k) ==
    /\ At(k, "closed")
    /\ Goto(k, "idle")
    /\ UNCHANGED <<engines, prepared, durable>>

\* The process restarts: what it held in memory is gone, fences included.
Restart ==
    /\ engines' = [k \in Key |-> None]
    /\ prepared' = [k \in Key |-> None]
    /\ call' = [k \in Key |-> "closed"]
    /\ UNCHANGED durable

Driver(k) == DriverReceives(k) \/ DriverNotifies(k)

Step(k) ==
    \/ Prepare(k) \/ PrepareBuilt(k) \/ PrepareFails(k) \/ Commit(k) \/ Refuse(k)
    \/ Activate(k) \/ Abort(k) \/ Use(k, "pull") \/ Use(k, "load") \/ Built(k) \/ BuildFails(k)
    \/ Pull(k) \/ PullNothing(k) \/ Acknowledge(k) \/ ProviderAcknowledge(k)
    \/ Load(k) \/ Park(k) \/ Wake(k) \/ WaitDropped(k)
    \/ Close(k) \/ Release(k) \/ ReleaseFails(k) \/ Open(k)

Next ==
    \/ \E k \in Key : Step(k) \/ Driver(k)
    \/ Restart

Spec == Init /\ [][Next]_vars

\* The runtime polls the task of a driver and a woken waiter.
FairSpec == Spec /\ \A k \in Key : WF_vars(DriverNotifies(k)) /\ WF_vars(Wake(k)) /\ WF_vars(Load(k) \/ Park(k))

(***************************************************************************)
(* Properties                                                              *)
(***************************************************************************)
\* However the calls of different sessions interleave, no more sessions hold
\* engines or candidates than max_resident_sessions allows, although the room
\* is found before an engine is built and taken afterwards.
ResidentWithinLimit == Cardinality(Resident) <= MaxResident

\* Once the store has committed a revision, the candidate prepared for it is
\* still there to be activated, and is of that revision: activation never
\* fails with a missing or mismatched candidate.
CandidateSurvives ==
    \A k \in Key : At(k, "activate") => prepared[k] # None /\ prepared[k].rev = durable[k].rev

\* An engine that is asked for a delivery or waited on is of the committed
\* revision and stands at the acknowledged position, whatever was released,
\* rebuilt, replaced by a repeated request or left unacknowledged before.
EnginesFollowStore ==
    \A k \in Key : call[k] \in {"pull", "load", "loaded", "park"} =>
        /\ Current(k)
        /\ engines[k].seq = durable[k].acked.seq
        /\ engines[k].scan = durable[k].acked.scan

\* Once the store has committed an acknowledgement, the engine can follow: it
\* is never asked to acknowledge another delivery than the one it holds.
AcknowledgementsUnderstood == \A k \in Key : At(k, "acknowledge") => Understands(k)

\* A stream that has been released leaves nothing of its session behind.
NothingLeftBehind == \A k \in Key : At(k, "closed") => k \notin Resident

\* A waiter that is parked although its height is there has a wakeup coming.
NoLostWakeup ==
    \A k \in Key :
        call[k] \in {"loaded", "park"} /\ Ready(k) => engines[k].permit \/ engines[k].driver = "notify"

\* A waiter whose height stays available is woken.
WaiterWoken ==
    \A k \in Key : []<>~(At(k, "park") /\ Ready(k))
=============================================================================
