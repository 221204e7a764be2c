---------------------------- MODULE SourceProofs ----------------------------
(***************************************************************************)
(* Proofs about two parts of a source.                                     *)
(*                                                                         *)
(* The query compiler selects exactly what its interests match, for every  *)
(* set of addresses, topics and interests, every list of interests and     *)
(* every filter limit.                                                     *)
(*                                                                         *)
(* ManagedProvider, for any number of sessions, any limit and any heights: *)
(* the inductive invariant says of each session, from its four variables   *)
(* alone, what its running call may rely on; calls of other sessions only  *)
(* meet it in the capacity of the provider.                                *)
(***************************************************************************)
EXTENDS QueryPlan, ManagedProvider, FiniteSetTheorems, TLAPS

(***************************************************************************)
(* QueryPlan                                                               *)
(***************************************************************************)
\* A list of at most four topic positions has a last constrained one, or none.
LEMMA LastConstrainedExists ==
    ASSUME NEW i \in LogInterest
    PROVE  LET n == LastConstrained(i.topics) IN
           /\ n \in 0..Len(i.topics)
           /\ \A k \in (n + 1)..Len(i.topics) : i.topics[k] = {}
<1> DEFINE t == i.topics
           Fits(n) == /\ n # 0 => t[n] # {}
                      /\ \A k \in (n + 1)..Len(t) : t[k] = {}
<1>1. t \in Seq(SUBSET Topic) /\ Len(t) \in Nat /\ Len(t) <= 4
  <2>1. t \in Seq(SUBSET Topic) /\ Len(t) <= 4
    BY PlanAssumption DEF MaxTopics
  <2> QED BY <2>1
<1>2. \E n \in 0..Len(t) : Fits(n)
  <2> HIDE DEF t
  <2>1. CASE 4 <= Len(t) /\ t[4] # {}
    BY <2>1, <1>1
  <2>2. CASE 3 <= Len(t) /\ t[3] # {} /\ ~(4 <= Len(t) /\ t[4] # {})
    BY <2>2, <1>1
  <2>3. CASE /\ 2 <= Len(t) /\ t[2] # {}
             /\ ~(3 <= Len(t) /\ t[3] # {}) /\ ~(4 <= Len(t) /\ t[4] # {})
    BY <2>3, <1>1
  <2>4. CASE /\ 1 <= Len(t) /\ t[1] # {} /\ ~(2 <= Len(t) /\ t[2] # {})
             /\ ~(3 <= Len(t) /\ t[3] # {}) /\ ~(4 <= Len(t) /\ t[4] # {})
    BY <2>4, <1>1
  <2>5. CASE /\ ~(1 <= Len(t) /\ t[1] # {}) /\ ~(2 <= Len(t) /\ t[2] # {})
             /\ ~(3 <= Len(t) /\ t[3] # {}) /\ ~(4 <= Len(t) /\ t[4] # {})
    <3>1. \A k \in 1..Len(t) : t[k] = {}
      BY <2>5, <1>1
    <3> QED BY <3>1, <1>1
  <2> QED BY <2>1, <2>2, <2>3, <2>4, <2>5, Zenon
<1>3. LastConstrained(t) = CHOOSE n \in 0..Len(t) : Fits(n)
  BY DEF LastConstrained
<1> HIDE DEF Fits, t
<1>4. LastConstrained(t) \in 0..Len(t) /\ Fits(LastConstrained(t))
  BY <1>2, <1>3
<1> QED BY <1>4 DEF Fits, t

\* canonical_log_filter does not change what an interest selects.
LEMMA CanonicalFilterSelects ==
    ASSUME NEW i \in LogInterest, NEW log
    PROVE  FilterSelects(CanonicalLogFilter(i), log) <=> LogMatches(i, log)
<1> DEFINE n == LastConstrained(i.topics)
           s == SubSeq(i.topics, 1, n)
<1>1. /\ i.topics \in Seq(SUBSET Topic)
      /\ i.kind = "log"
  BY PlanAssumption
<1>2. /\ n \in 0..Len(i.topics)
      /\ \A k \in (n + 1)..Len(i.topics) : i.topics[k] = {}
  BY LastConstrainedExists
<1> HIDE DEF n
<1>3. /\ DOMAIN s = 1..n
      /\ DOMAIN i.topics = 1..Len(i.topics)
      /\ \A k \in 1..n : s[k] = i.topics[k]
  BY <1>1, <1>2
<1>4. AcceptsTopics(s, log) <=> AcceptsTopics(i.topics, log)
  <2> HIDE DEF s
  <2>1. AcceptsTopics(s, log) => AcceptsTopics(i.topics, log)
    <3> SUFFICES ASSUME AcceptsTopics(s, log), NEW k \in DOMAIN i.topics
                 PROVE  i.topics[k] = {} \/ (k \in DOMAIN log.topics /\ log.topics[k] \in i.topics[k])
      BY DEF AcceptsTopics
    <3>1. CASE k \in 1..n
      BY <3>1, <1>3 DEF AcceptsTopics
    <3>2. CASE k \notin 1..n
      BY <3>2, <1>1, <1>2, <1>3
    <3> QED BY <3>1, <3>2
  <2>2. AcceptsTopics(i.topics, log) => AcceptsTopics(s, log)
    BY <1>1, <1>2, <1>3 DEF AcceptsTopics
  <2> QED BY <2>1, <2>2
<1>5. CanonicalLogFilter(i).addrs = i.addrs /\ CanonicalLogFilter(i).topics = s
  BY Zenon DEF CanonicalLogFilter, n
<1> HIDE DEF s
<1> QED BY <1>1, <1>4, <1>5, Zenon DEF FilterSelects, LogMatches

Canonical(interests) == {CanonicalLogFilter(i) : i \in interests}

\* The filters kept stand for the interests walked: all of them while the
\* limit has not been exceeded, and the one that selects everything once an
\* interest in every log was seen.
KeptFilters ==
    /\ matchAll => filters = {MatchAllFilter} /\ MatchAllFilter \in Canonical(seen)
    /\ ~matchAll => MatchAllFilter \notin Canonical(seen) /\ filters \subseteq Canonical(seen)
    /\ ~matchAll /\ ~exceeded => filters = Canonical(seen)
    /\ outcome = "query" => matchAll \/ ~exceeded

\* What the argument needs of the compiler's types.
PlanTypes ==
    /\ seen \subseteq LogInterest
    /\ filters \subseteq Canonical(LogInterest)
    /\ matchAll \in BOOLEAN /\ exceeded \in BOOLEAN
    /\ outcome \in {"walking", "query", "refused"}

PlanInv ==
    /\ PlanTypes
    /\ todo \in Seq(AnyInterest)
    /\ KeptFilters

\* compile_query_with_limits starts with no filter for no interest.
LEMMA PlanInvInit == PlanInit => PlanInv
<1> SUFFICES ASSUME PlanInit PROVE PlanInv
  OBVIOUS
<1>1. todo \in Seq(AnyInterest)
  BY DEF PlanInit
<1>2. Canonical(seen) = {}
  BY DEF PlanInit, Canonical
<1> QED BY <1>1, <1>2, Zenon DEF PlanInit, PlanInv, PlanTypes, KeptFilters

\* Every interest walked keeps the correspondence of filters and interests.
LEMMA PlanStep == PlanInv /\ [PlanNext]_planVars => PlanInv'
<1> SUFFICES ASSUME PlanInv, [PlanNext]_planVars PROVE PlanInv'
  OBVIOUS
<1>1. CASE Walk
  <2>1. Head(todo) \in AnyInterest /\ Tail(todo) \in Seq(AnyInterest) /\ todo' \in Seq(AnyInterest)
    BY <1>1 DEF PlanInv, Walk
  <2>2. CASE WalkLog
    <3> DEFINE i == Head(todo)
               f == CanonicalLogFilter(i)
    <3>1. i \in LogInterest
      BY <2>1, <2>2 DEF WalkLog, AnyInterest, BlockInterest, UnsetInterest, MalformedInterest
    <3>2. seen' = seen \cup {i} /\ headers' = headers /\ outcome' = outcome
      BY <2>2 DEF WalkLog
    <3>3. Canonical(seen') = Canonical(seen) \cup {f}
      BY <3>2 DEF Canonical
    <3>4. outcome = "walking"
      BY <1>1 DEF Walk
    <3>5. f \in Canonical(LogInterest)
      BY <3>1 DEF Canonical
    <3>6. \/ WalkMatchAll(f)
          \/ f # MatchAllFilter /\ ~matchAll /\ Keep(f) /\ matchAll' = matchAll
          \/ f # MatchAllFilter /\ matchAll /\ UNCHANGED <<filters, exceeded, matchAll>>
      BY <2>2 DEF WalkLog
    <3> HIDE DEF f, i
    <3>7. PlanTypes'
      <4>1. filters' \subseteq Canonical(LogInterest) /\ matchAll' \in BOOLEAN /\ exceeded' \in BOOLEAN
        BY <3>5, <3>6, Zenon DEF PlanInv, PlanTypes, WalkMatchAll, Keep
      <4> QED BY <4>1, <3>1, <3>2 DEF PlanInv, PlanTypes
    <3>8. KeptFilters'
      <4>1. CASE WalkMatchAll(f)
        BY <4>1, <3>2, <3>3, <3>4 DEF KeptFilters, WalkMatchAll
      <4>2. CASE f # MatchAllFilter /\ ~matchAll /\ Keep(f) /\ matchAll' = matchAll
        BY <4>2, <3>2, <3>3, <3>4, Zenon DEF KeptFilters, Keep, PlanInv
      <4>3. CASE f # MatchAllFilter /\ matchAll /\ UNCHANGED <<filters, exceeded, matchAll>>
        BY <4>3, <3>2, <3>3, <3>4, Zenon DEF KeptFilters, PlanInv
      <4> QED BY <4>1, <4>2, <4>3, <3>6
    <3> QED BY <3>7, <3>8, <2>1 DEF PlanInv
  <2>3. CASE WalkBlock \/ WalkUnset \/ RefuseMalformed
    <3>1. /\ UNCHANGED <<seen, filters, matchAll, exceeded>>
          /\ outcome' \in {outcome, "refused"}
      BY <2>3 DEF WalkBlock, WalkUnset, RefuseMalformed, PlanInv, PlanTypes
    <3>2. Canonical(seen') = Canonical(seen)
      BY <3>1
    <3> QED BY <3>1, <3>2, <2>1 DEF PlanInv, PlanTypes, KeptFilters
  <2> QED BY <1>1, <2>2, <2>3 DEF Walk
<1>2. CASE Compile
  <2>1. /\ UNCHANGED <<todo, seen, filters, matchAll, exceeded, headers>>
        /\ outcome' = IF exceeded /\ ~matchAll THEN "refused" ELSE "query"
    BY <1>2 DEF Compile
  <2>2. Canonical(seen') = Canonical(seen)
    BY <2>1
  <2> QED BY <2>1, <2>2 DEF PlanInv, PlanTypes, KeptFilters
<1>3. CASE UNCHANGED planVars
  <2>1. Canonical(seen') = Canonical(seen)
    BY <1>3 DEF planVars
  <2> QED BY <1>3, <2>1 DEF planVars, PlanInv, PlanTypes, KeptFilters
<1> QED BY <1>1, <1>2, <1>3 DEF PlanNext

\* A finished walk that holds the correspondence selects exactly what is
\* wanted.
LEMMA PlanInvSelects == PlanInv => SelectsExactly
<1> SUFFICES ASSUME PlanInv, outcome = "query", NEW log \in Log
             PROVE  (\E f \in filters : FilterSelects(f, log)) <=> (\E i \in seen : LogMatches(i, log))
  BY DEF SelectsExactly
<1>1. \A i \in seen : FilterSelects(CanonicalLogFilter(i), log) <=> LogMatches(i, log)
  BY CanonicalFilterSelects DEF PlanInv, PlanTypes
<1>2. CASE matchAll
  <2>1. FilterSelects(MatchAllFilter, log)
    BY DEF FilterSelects, MatchAllFilter, AcceptsAddress, AcceptsTopics
  <2>2. filters = {MatchAllFilter} /\ \E i \in seen : CanonicalLogFilter(i) = MatchAllFilter
    BY <1>2 DEF PlanInv, KeptFilters, Canonical
  <2> QED BY <1>1, <2>1, <2>2
<1>3. CASE ~matchAll
  <2>1. filters = {CanonicalLogFilter(i) : i \in seen}
    BY <1>3 DEF PlanInv, KeptFilters, Canonical
  <2> QED BY <1>1, <2>1
<1> QED BY <1>2, <1>3

\* The compiled query selects exactly the logs some interest of the desired
\* state matches (compile_query_with_limits, canonical_log_filter): for every
\* list of interests, in every order, with any duplicates and any limit.
THEOREM QuerySelectsExactly == PlanSpec => []SelectsExactly
<1>1. PlanInit => PlanInv
  BY PlanInvInit
<1>2. PlanInv /\ [PlanNext]_planVars => PlanInv'
  BY PlanStep
<1>3. PlanInv => SelectsExactly
  BY PlanInvSelects
<1> QED BY <1>1, <1>2, <1>3, PTL DEF PlanSpec

\* Until an interest in every log is seen, no more filters are kept than the
\* limit allows, and the limit counts as exceeded only when it is.
KeptWithinLimit ==
    /\ IsFiniteSet(Canonical(seen))
    /\ ~matchAll =>
          /\ IsFiniteSet(filters) /\ Cardinality(filters) <= MaxFilters
          /\ exceeded => Cardinality(Canonical(seen)) > MaxFilters

\* No filter is kept at first, whatever MAX_COMPILED_LOG_FILTERS is.
LEMMA LimitInit == PlanInit => KeptWithinLimit
<1> SUFFICES ASSUME PlanInit PROVE KeptWithinLimit
  OBVIOUS
<1>1. Canonical(seen) = {} /\ filters = {} /\ exceeded = FALSE
  BY DEF PlanInit, Canonical
<1> QED BY <1>1, FS_EmptySet, PlanAssumption DEF KeptWithinLimit

\* Keep never exceeds the limit and flags an excess only where there is one.
LEMMA LimitStep == PlanInv /\ KeptWithinLimit /\ [PlanNext]_planVars => KeptWithinLimit'
<1> SUFFICES ASSUME PlanInv, KeptWithinLimit, [PlanNext]_planVars PROVE KeptWithinLimit'
  OBVIOUS
<1>1. CASE Walk /\ WalkLog
  <2> DEFINE f == CanonicalLogFilter(Head(todo))
             old == Canonical(seen)
             new == Canonical(seen')
  <2>1. new = old \cup {f}
    BY <1>1 DEF WalkLog, Canonical
  <2>2. \/ WalkMatchAll(f)
        \/ f # MatchAllFilter /\ ~matchAll /\ Keep(f) /\ matchAll' = matchAll
        \/ f # MatchAllFilter /\ matchAll /\ UNCHANGED <<filters, exceeded, matchAll>>
    BY <1>1 DEF WalkLog
  <2> HIDE DEF f
  <2>3. /\ IsFiniteSet(new) /\ Cardinality(new) \in Nat /\ Cardinality(old) \in Nat
        /\ Cardinality(old) <= Cardinality(new)
    BY <2>1, FS_AddElement, FS_CardinalityType DEF KeptWithinLimit
  <2>4. CASE WalkMatchAll(f)
    BY <2>3, <2>4 DEF WalkMatchAll, KeptWithinLimit
  <2>5. CASE f # MatchAllFilter /\ matchAll /\ UNCHANGED <<filters, exceeded, matchAll>>
    BY <2>3, <2>5 DEF KeptWithinLimit
  <2>6. CASE f # MatchAllFilter /\ ~matchAll /\ Keep(f) /\ matchAll' = matchAll
    <3>1. /\ IsFiniteSet(filters) /\ Cardinality(filters) \in Nat
          /\ Cardinality(filters) <= MaxFilters
          /\ filters \subseteq old
      BY <2>6, FS_CardinalityType DEF KeptWithinLimit, PlanInv, KeptFilters
    <3>2. CASE f \in filters
      BY <3>1, <3>2, <2>3, <2>6, PlanAssumption DEF Keep, KeptWithinLimit
    <3>3. CASE f \notin filters /\ Cardinality(filters) = MaxFilters
      <4>1. /\ IsFiniteSet(filters \cup {f})
            /\ Cardinality(filters \cup {f}) = MaxFilters + 1
        BY <3>1, <3>3, FS_AddElement
      <4>2. filters \cup {f} \subseteq new
        BY <3>1, <2>1
      <4>3. Cardinality(new) > MaxFilters
        <5>1. Cardinality(filters \cup {f}) <= Cardinality(new)
          BY <4>2, <2>3, FS_Subset
        <5> QED BY <5>1, <4>1, <2>3, PlanAssumption
      <4> QED BY <4>3, <3>1, <3>3, <2>3, <2>6 DEF Keep, KeptWithinLimit
    <3>4. CASE f \notin filters /\ Cardinality(filters) # MaxFilters
      <4>1. /\ IsFiniteSet(filters \cup {f})
            /\ Cardinality(filters \cup {f}) = Cardinality(filters) + 1
        BY <3>1, <3>4, FS_AddElement
      <4>2. filters' = filters \cup {f} /\ exceeded' = exceeded
        BY <3>4, <2>6 DEF Keep
      <4>3. IsFiniteSet(filters') /\ Cardinality(filters') <= MaxFilters
        BY <4>1, <4>2, <3>1, <3>4, PlanAssumption
      <4>4. exceeded => Cardinality(new) > MaxFilters
        BY <2>3, <2>6, PlanAssumption DEF KeptWithinLimit
      <4> QED BY <4>2, <4>3, <4>4, <2>3, <2>6 DEF KeptWithinLimit
    <3> QED BY <3>2, <3>3, <3>4
  <2> QED BY <2>2, <2>4, <2>5, <2>6
<1>2. CASE Walk /\ ~WalkLog
  <2>1. UNCHANGED <<seen, filters, matchAll, exceeded>>
    BY <1>2 DEF Walk, WalkBlock, WalkUnset, RefuseMalformed
  <2>2. Canonical(seen') = Canonical(seen)
    BY <2>1
  <2> QED BY <2>1, <2>2 DEF KeptWithinLimit
<1>3. CASE Compile \/ UNCHANGED planVars
  <2>1. UNCHANGED <<seen, filters, matchAll, exceeded>>
    BY <1>3 DEF Compile, planVars
  <2>2. Canonical(seen') = Canonical(seen)
    BY <2>1
  <2> QED BY <2>1, <2>2 DEF KeptWithinLimit
<1> QED BY <1>1, <1>2, <1>3 DEF PlanNext

\* filter_limit_exceeded without match_all is exactly an excess of distinct
\* filters.
LEMMA LimitRefuses == PlanInv /\ KeptWithinLimit => RefusedOnlyBeyondLimit
<1> SUFFICES ASSUME PlanInv, KeptWithinLimit
             PROVE  exceeded /\ ~matchAll <=>
                        /\ MatchAllFilter \notin Canonical(seen)
                        /\ Cardinality(Canonical(seen)) > MaxFilters
  BY DEF RefusedOnlyBeyondLimit, Canonical
<1>1. Cardinality(Canonical(seen)) \in Nat
  BY FS_CardinalityType DEF KeptWithinLimit
<1>2. CASE matchAll
  BY <1>2 DEF PlanInv, KeptFilters
<1>3. CASE ~matchAll /\ exceeded
  BY <1>3 DEF PlanInv, KeptFilters, KeptWithinLimit
<1>4. CASE ~matchAll /\ ~exceeded
  <2>1. Cardinality(Canonical(seen)) <= MaxFilters
    BY <1>4 DEF PlanInv, KeptFilters, KeptWithinLimit
  <2> QED BY <2>1, <1>1, <1>4, PlanAssumption
<1> QED BY <1>2, <1>3, <1>4 DEF PlanInv, PlanTypes

\* A desired state is refused for its filters exactly when it has more
\* distinct ones than MAX_COMPILED_LOG_FILTERS and no interest in every log
\* (filter_limit_exceeded, match_all): for every limit and every list.
THEOREM QueryRefusedBeyondLimit == PlanSpec => []RefusedOnlyBeyondLimit
<1>1. PlanInit => PlanInv /\ KeptWithinLimit
  BY PlanInvInit, LimitInit
<1>2. PlanInv /\ KeptWithinLimit /\ [PlanNext]_planVars => (PlanInv /\ KeptWithinLimit)'
  BY PlanStep, LimitStep
<1>3. PlanInv /\ KeptWithinLimit => RefusedOnlyBeyondLimit
  BY LimitRefuses
<1> QED BY <1>1, <1>2, <1>3, PTL DEF PlanSpec

(***************************************************************************)
(* ManagedProvider                                                         *)
(***************************************************************************)
Calls == {"idle", "prepare", "answered", "activate", "abort", "build", "pull",
          "acknowledge", "load", "loaded", "park", "release", "closed", "fenced"}

Row == [rev : Revision, acked : Position, pending : Position \cup {None}]

\* The steps between which a stream is being served.
Serving == Calls \ {"activate", "release", "closed", "fenced"}

\* Nothing is acknowledged before a revision is committed, and what is pending
\* is of the committed revision and next in line.
RowOK(d) ==
    /\ d.acked.rev <= d.rev
    /\ d.rev = 0 => d.acked.seq = 0 /\ d.pending = None
    /\ d.rev > 0 /\ d.pending = None => d.acked.rev = d.rev /\ d.acked.seq > 0
    /\ d.pending # None => d.pending.rev = d.rev /\ d.pending.seq = d.acked.seq + 1

\* A candidate exists only around its compare-and-swap, stands at the
\* acknowledged position and has made no delivery.
CandidateOK(p, d, c) ==
    /\ p # None =>
          /\ c \in {"answered", "activate", "abort", "release", "fenced"}
          /\ p.pending = None
    /\ c \in {"answered", "activate"} =>
          /\ p # None
          /\ p.seq = d.acked.seq
          /\ p.rev > 0
          /\ p.rev = d.rev /\ d.pending = None => p.scan = d.acked.scan
    /\ c = "activate" => p.rev = d.rev

\* The engine of a session that is served is of the committed revision; it
\* stands at the acknowledged position, or one acknowledgement behind, and
\* holds no other delivery than the one the store has.
EngineOK(e, d, c) ==
    /\ c = "closed" => e = None
    /\ e # None /\ c \in Serving => e.rev = d.rev
    /\ e # None /\ c \in Serving \ {"acknowledge"} => e.seq = d.acked.seq
    /\ e # None /\ c \in Serving \ {"acknowledge"} /\ d.pending = None => e.scan = d.acked.scan
    /\ e # None /\ c \in Serving /\ d.pending # None => e.pending \in {None, d.pending}
    /\ e # None /\ c \in Serving /\ e.pending # None =>
          e.pending.rev = e.rev /\ e.pending.seq = e.seq + 1
    /\ c = "acknowledge" =>
          /\ d.rev > 0 /\ d.pending = None
          /\ e # None => e.seq + 1 = d.acked.seq /\ e.pending \in {None, d.acked}
    /\ c \in {"pull", "load", "loaded", "park"} => e # None /\ d.pending = None /\ d.rev > 0
    /\ c = "build" => d.pending = None /\ d.rev > 0

\* Covers, of a session's own variables.
CoversAt(e, d, height) ==
    IF d.acked.anchor = None THEN height > e.scan ELSE height >= d.acked.anchor + 1

WakeupOK(e, d, c) ==
    c \in {"loaded", "park"} /\ CoversAt(e, d, e.hint) => e.permit \/ e.driver = "notify"

KeyOK(e, p, d, c) == RowOK(d) /\ CandidateOK(p, d, c) /\ EngineOK(e, d, c) /\ WakeupOK(e, d, c)

KeysOK == \A k \in Key : KeyOK(engines[k], prepared[k], durable[k], call[k])

Types ==
    /\ engines \in [Key -> Engine \cup {None}]
    /\ prepared \in [Key -> Engine \cup {None}]
    /\ durable \in [Key -> Row]
    /\ call \in [Key -> Calls]

\* The inductive invariant.
Inv == Types /\ KeysOK /\ ResidentWithinLimit

\* A step of session k leaves the others' variables alone.
Frame(k) ==
    \A j \in Key \ {k} : /\ engines'[j] = engines[j] /\ prepared'[j] = prepared[j]
                         /\ durable'[j] = durable[j] /\ call'[j] = call[j]

LEMMA RowNumbers ==
    ASSUME NEW d \in Row
    PROVE  d.rev \in Nat /\ d.acked.rev \in Nat /\ d.acked.seq \in Nat
<1>1. d.rev \in Revision /\ d.acked \in Position
  BY DEF Row
<1>2. d.acked.rev \in Revision /\ d.acked.seq \in 0..MaxSequence
  BY <1>1 DEF Position
<1> QED
  BY <1>1, <1>2, ProviderAssumption DEF Revision

\* What a step of session k shows of k alone is enough for all sessions.
LEMMA OneKey ==
    ASSUME KeysOK, NEW k \in Key, Frame(k),
           KeyOK(engines'[k], prepared'[k], durable'[k], call'[k])
    PROVE  KeysOK'
<1> SUFFICES ASSUME NEW j \in Key
             PROVE  KeyOK(engines'[j], prepared'[j], durable'[j], call'[j])
    BY Zenon DEF KeysOK, KeyOK, RowOK, CandidateOK, EngineOK, WakeupOK, CoversAt
<1>1. CASE j = k
    BY <1>1, Zenon
<1>2. CASE j # k
    BY <1>2 DEF Frame, KeysOK
<1> QED
    BY <1>1, <1>2

\* ensure_session_capacity keeps the limit when one session takes room.
LEMMA TakesRoom ==
    ASSUME ResidentWithinLimit, NEW k \in Key, HasCapacity(k),
           Resident' \subseteq Resident \cup {k}
    PROVE  ResidentWithinLimit'
<1>1. IsFiniteSet(Resident)
    BY ProviderAssumption, FS_Subset DEF Resident
<1>2. /\ IsFiniteSet(Resident \cup {k}) /\ Cardinality(Resident) \in Nat
      /\ Cardinality(Resident \cup {k}) =
            IF k \in Resident THEN Cardinality(Resident) ELSE Cardinality(Resident) + 1
    BY <1>1, FS_AddElement, FS_CardinalityType
<1>3. Cardinality(Resident') <= Cardinality(Resident \cup {k}) /\ Cardinality(Resident') \in Nat
    BY <1>2, FS_Subset, FS_CardinalityType
<1> QED
    BY <1>2, <1>3, ProviderAssumption DEF HasCapacity, ResidentWithinLimit

\* The limit holds while no session takes room.
LEMMA KeepsRoom ==
    ASSUME ResidentWithinLimit, Resident' \subseteq Resident
    PROVE  ResidentWithinLimit'
<1>1. IsFiniteSet(Resident) /\ Cardinality(Resident) \in Nat
    BY ProviderAssumption, FS_Subset, FS_CardinalityType DEF Resident
<1>2. Cardinality(Resident') <= Cardinality(Resident) /\ Cardinality(Resident') \in Nat
    BY <1>1, FS_Subset, FS_CardinalityType
<1> QED
    BY <1>1, <1>2, ProviderAssumption DEF ResidentWithinLimit

\* The steps of a call that change nothing but the call.
Quiet(k) ==
    \/ Prepare(k) \/ PrepareFails(k) \/ Refuse(k) \/ Use(k, "pull") \/ Use(k, "load") \/ BuildFails(k)
    \/ Load(k) \/ Park(k) \/ WaitDropped(k) \/ Close(k) \/ ReleaseFails(k) \/ Open(k)

\* They keep the invariant.
LEMMA QuietSteps ==
    ASSUME Inv, NEW k \in Key, Quiet(k)
    PROVE  Inv'
<1>1. UNCHANGED <<engines, prepared, durable>>
    BY Zenon DEF Quiet, Prepare, PrepareFails, Refuse, Use, BuildFails, Load, Park, WaitDropped, Close,
           ReleaseFails, Open
<1>2. /\ call' \in [Key -> Calls]
      /\ \A j \in Key \ {k} : call'[j] = call[j]
    BY DEF Quiet, Prepare, PrepareFails, Refuse, Use, BuildFails, Load, Park, WaitDropped, Close,
           ReleaseFails, Open, Goto, Inv, Types, Calls
<1>3. KeyOK(engines[k], prepared[k], durable[k], call[k]) /\ call[k] \in Calls
    BY Zenon DEF Inv, KeysOK, Types
<1>4. RowOK(durable[k])
    BY <1>3 DEF KeyOK
<1>5. CandidateOK(prepared[k], durable[k], call'[k])
    BY <1>3, Zenon DEF Quiet, Prepare, PrepareFails, Refuse, Use, BuildFails, Load, Park, WaitDropped, Close,
           ReleaseFails, Open, Goto, At, Inv, Types, KeyOK, CandidateOK
<1>6. EngineOK(engines[k], durable[k], call'[k])
    BY <1>3, Zenon DEF Quiet, Prepare, PrepareFails, Refuse, Use, BuildFails, Load, Park, WaitDropped, Close,
           ReleaseFails, Open, Goto, At, Inv, Types, KeyOK, EngineOK, Serving, Calls, Current, RowOK
<1>7. WakeupOK(engines[k], durable[k], call'[k])
    BY <1>3, Zenon DEF Quiet, Prepare, PrepareFails, Refuse, Use, BuildFails, Load, Park, WaitDropped, Close,
           ReleaseFails, Open, Goto, At, Inv, Types, KeyOK, WakeupOK, Ready, Covers, CoversAt, Anchor, Target
<1>8. KeysOK'
    BY <1>1, <1>2, <1>4, <1>5, <1>6, <1>7, OneKey, Zenon DEF Inv, Frame, KeyOK
<1>9. ResidentWithinLimit'
    BY <1>1 DEF Inv, ResidentWithinLimit, Resident
<1> QED
    BY <1>1, <1>2, <1>8, <1>9, Zenon DEF Inv, Types

\* A step of one session that takes no room without having found some keeps
\* the invariant if it keeps what is said of that session.
LEMMA OneStep ==
    ASSUME Inv, NEW k \in Key, Types', Frame(k),
           KeyOK(engines'[k], prepared'[k], durable'[k], call'[k]),
           \/ HasCapacity(k)
           \/ k \in Resident
           \/ engines'[k] = None /\ prepared'[k] = None
    PROVE  Inv'
<1>1. KeysOK'
    BY OneKey DEF Inv
<1>2. CASE HasCapacity(k) \/ k \in Resident
  <2>1. HasCapacity(k)
    BY <1>2, Zenon DEF HasCapacity
  <2>2. Resident' \subseteq Resident \cup {k}
    BY Zenon DEF Resident, Frame
  <2> QED
    BY <1>1, <2>1, <2>2, TakesRoom, Zenon DEF Inv
<1>3. CASE engines'[k] = None /\ prepared'[k] = None
  <2>1. Resident' \subseteq Resident
    BY <1>3, Zenon DEF Resident, Frame
  <2> QED
    BY <1>1, <2>1, KeepsRoom, Zenon DEF Inv
<1> QED
    BY <1>2, <1>3

\* build_engine makes an engine at the acknowledged position, unless a new
\* revision is being activated.
LEMMA BuiltEngine ==
    ASSUME Types, KeysOK, NEW k \in Key, NEW rev \in Revision, rev > 0, NEW hint \in Height,
           NEW scan \in Starts(k, rev)
    PROVE  LET e == NewEngine(k, rev, scan, hint) IN
           /\ e \in Engine /\ e # None
           /\ e.rev = rev /\ e.seq = durable[k].acked.seq /\ e.pending = None
           /\ rev = durable[k].rev /\ durable[k].pending = None => e.scan = durable[k].acked.scan
<1>1. durable[k] \in Row /\ durable[k].acked \in Position /\ RowOK(durable[k])
    BY Zenon DEF Types, Row, KeysOK, KeyOK
<1>2. scan \in Height
    BY <1>1, ProviderAssumption DEF Starts, Height, Position
<1>3. NewEngine(k, rev, scan, hint) \in Engine
    BY <1>1, <1>2, Zenon DEF NewEngine, Engine, Position
<1>4. rev = durable[k].rev /\ durable[k].pending = None => scan = durable[k].acked.scan
    BY <1>1, ProviderAssumption DEF Starts, RowOK, Position, Row, Revision
<1> QED
    BY <1>3, <1>4, NoneAssumption, Zenon DEF NewEngine

\* prepare_desired_state inserts its candidate within the limit.
LEMMA PrepareBuiltStep ==
    ASSUME Inv, NEW k \in Key, PrepareBuilt(k)
    PROVE  Inv'
<1>0. PICK rev \in Revision, hint \in Height :
          /\ rev > 0
          /\ \E scan \in Starts(k, rev) : prepared' = [prepared EXCEPT ![k] = NewEngine(k, rev, scan, hint)]
  <2>1. \A rev \in 1..MaxRevision : rev \in Revision /\ rev > 0
    BY ProviderAssumption DEF Revision
  <2> QED
    BY <2>1, Zenon DEF PrepareBuilt
<1>1. PICK scan \in Starts(k, rev) :
          rev > 0 /\ prepared' = [prepared EXCEPT ![k] = NewEngine(k, rev, scan, hint)]
    BY <1>0, Zenon
<1> DEFINE p == NewEngine(k, rev, scan, hint)
<1>2. /\ p \in Engine /\ p # None /\ p.rev = rev /\ p.seq = durable[k].acked.seq /\ p.pending = None
      /\ rev = durable[k].rev /\ durable[k].pending = None => p.scan = durable[k].acked.scan
    BY <1>1, BuiltEngine DEF Inv
<1> HIDE DEF p
<1>3. /\ At(k, "prepare") /\ HasCapacity(k) /\ UNCHANGED <<engines, durable>>
      /\ prepared' = [prepared EXCEPT ![k] = p]
      /\ call' = [call EXCEPT ![k] = "answered"]
    BY <1>1, Zenon DEF PrepareBuilt, Goto, p
<1>4. Types' /\ Frame(k)
    BY <1>2, <1>3, Zenon DEF Inv, Types, Frame, Calls
<1>5. KeyOK(engines[k], p, durable[k], "answered")
    BY <1>1, <1>2, <1>3, Zenon DEF Inv, KeysOK, KeyOK, CandidateOK, EngineOK, WakeupOK, Serving, Calls, At
<1>6. KeyOK(engines'[k], prepared'[k], durable'[k], call'[k])
    BY <1>3, <1>5, Zenon DEF Inv, Types
<1> QED
    BY <1>3, <1>4, <1>6, OneStep, Zenon

\* The compare-and-swap finds and keeps its candidate.
LEMMA CommitStep ==
    ASSUME Inv, NEW k \in Key, Commit(k)
    PROVE  Inv'
<1>1. /\ durable[k] \in Row /\ prepared[k] \in Engine /\ durable[k].acked \in Position
      /\ At(k, "answered") /\ prepared[k] # None
      /\ KeyOK(engines[k], prepared[k], durable[k], "answered")
    BY DEF Inv, Types, KeysOK, KeyOK, CandidateOK, Commit, At, Row
<1>2. /\ UNCHANGED <<engines, prepared>>
      /\ call' = [call EXCEPT ![k] = "activate"]
    BY Zenon DEF Commit, Goto
<1>3. k \in Resident
    BY <1>1, Zenon DEF Resident
<1>4. CASE /\ prepared[k].rev = durable[k].rev + 1 /\ durable[k].pending = None
           /\ durable[k].acked.seq < MaxSequence
           /\ durable' = [durable EXCEPT
                 ![k].rev = durable[k].rev + 1,
                 ![k].pending = [rev |-> durable[k].rev + 1, seq |-> durable[k].acked.seq + 1,
                                 scan |-> prepared[k].scan, anchor |-> durable[k].acked.anchor]]
  <2> DEFINE q == [rev |-> durable[k].rev + 1, seq |-> durable[k].acked.seq + 1,
                   scan |-> prepared[k].scan, anchor |-> durable[k].acked.anchor]
             d == [durable[k] EXCEPT !.rev = durable[k].rev + 1, !.pending = q]
  <2>1. q \in Position
    BY <1>1, <1>4, ProviderAssumption DEF Position, Engine, Row, Revision
  <2>2. q # None /\ q.rev = durable[k].rev + 1 /\ q.seq = durable[k].acked.seq + 1
    BY <2>1, NoneAssumption
  <2>3. durable' = [durable EXCEPT ![k] = d]
    BY <1>1, <1>4, Zenon DEF Inv, Types
  <2> HIDE DEF q
  <2>4. /\ d \in Row /\ d.rev = durable[k].rev + 1 /\ d.acked = durable[k].acked /\ d.pending = q
    BY <1>1, <1>4, <2>1, Zenon DEF Row, Engine
  <2> HIDE DEF d
  <2>5. Types' /\ Frame(k) /\ durable'[k] = d
    BY <1>2, <2>3, <2>4, Zenon DEF Inv, Types, Frame, Calls
  <2>6. KeyOK(engines[k], prepared[k], d, "activate")
    <3>1. RowOK(d)
      <4>1. durable[k].rev \in Nat /\ durable[k].acked.rev \in Nat /\ durable[k].acked.seq \in Nat
        BY <1>1, RowNumbers, Zenon
      <4>2. durable[k].acked.rev <= durable[k].rev
        BY <1>1, Zenon DEF KeyOK, RowOK
      <4>3. d.rev # 0 /\ d.acked.rev <= d.rev
        BY <2>4, <4>1, <4>2
      <4> QED
        BY <2>2, <2>4, <4>3, Zenon DEF RowOK
    <3>2. CandidateOK(prepared[k], d, "activate")
      BY <1>1, <1>4, <2>2, <2>4, Zenon DEF KeyOK, CandidateOK
    <3> QED
      BY <3>1, <3>2, Zenon DEF KeyOK, EngineOK, WakeupOK, Serving
  <2>7. KeyOK(engines'[k], prepared'[k], durable'[k], call'[k])
    BY <1>2, <2>5, <2>6, Zenon DEF Inv, Types
  <2> QED
    BY <1>3, <2>5, <2>7, OneStep, Zenon
<1>5. CASE prepared[k].rev = durable[k].rev /\ UNCHANGED durable
  <2>1. Types' /\ Frame(k)
    BY <1>2, <1>5 DEF Inv, Types, Frame, Calls
  <2>2. KeyOK(engines[k], prepared[k], durable[k], "activate")
    BY <1>1, <1>5, Zenon DEF KeyOK, CandidateOK, EngineOK, WakeupOK, Serving
  <2>3. KeyOK(engines'[k], prepared'[k], durable'[k], call'[k])
    BY <1>2, <1>5, <2>2 DEF Inv, Types
  <2> QED
    BY <1>3, <2>1, <2>3, OneStep, Zenon
<1> QED
    BY <1>4, <1>5, Zenon DEF Commit

\* Activation, abort and release, which move or drop what is resident.
LEMMA ResidencySteps ==
    ASSUME Inv, NEW k \in Key, Activate(k) \/ Abort(k) \/ Release(k)
    PROVE  Inv'
<1>1. /\ engines[k] \in Engine \cup {None} /\ prepared[k] \in Engine \cup {None} /\ durable[k] \in Row
      /\ KeyOK(engines[k], prepared[k], durable[k], call[k])
    BY Zenon DEF Inv, Types, KeysOK
<1>2. CASE Activate(k)
  <2>1. Types' /\ Frame(k) /\ k \in Resident
    BY <1>1, <1>2 DEF Activate, Goto, Inv, Types, Frame, Calls, Resident
  <2>2. KeyOK(prepared[k], None, durable[k], "idle")
    BY <1>1, <1>2, Zenon DEF Activate, At, KeyOK, CandidateOK, EngineOK, WakeupOK, Serving, Calls
  <2>3. KeyOK(engines'[k], prepared'[k], durable'[k], call'[k])
    BY <1>2, <2>2, Zenon DEF Activate, Goto, Inv, Types
  <2> QED
    BY <2>1, <2>3, OneStep, Zenon
<1>3. CASE Abort(k)
  <2>1. Types' /\ Frame(k)
    BY <1>3 DEF Abort, Goto, Inv, Types, Frame, Calls
  <2>2. KeyOK(engines[k], None, durable[k], "idle")
    BY <1>1, <1>3, Zenon DEF Abort, At, KeyOK, CandidateOK, EngineOK, WakeupOK, Serving, Calls
  <2>3. KeyOK(engines'[k], prepared'[k], durable'[k], call'[k])
    BY <1>3, <2>2, Zenon DEF Abort, Goto, Inv, Types
  <2>4. k \in Resident \/ (engines'[k] = None /\ prepared'[k] = None)
    BY <1>3, Zenon DEF Abort, Resident, Inv, Types
  <2> QED
    BY <2>1, <2>3, <2>4, OneStep, Zenon
<1>4. CASE Release(k)
  <2>1. Types' /\ Frame(k) /\ engines'[k] = None /\ prepared'[k] = None
    BY <1>4 DEF Release, Goto, Inv, Types, Frame, Calls
  <2>2. KeyOK(None, None, durable[k], "closed")
    BY <1>1, <1>4, Zenon DEF Release, At, KeyOK, CandidateOK, EngineOK, WakeupOK, Serving, Calls
  <2>3. KeyOK(engines'[k], prepared'[k], durable'[k], call'[k])
    BY <1>4, <2>1, <2>2, Zenon DEF Release, Goto, Inv, Types
  <2> QED
    BY <2>1, <2>3, OneStep, Zenon
<1> QED
    BY <1>2, <1>3, <1>4

\* engine rebuilds an engine within the limit.
LEMMA BuiltStep ==
    ASSUME Inv, NEW k \in Key, Built(k)
    PROVE  Inv'
<1>1. PICK hint \in Height, scan \in Starts(k, durable[k].rev), step \in {"pull", "load"} :
          /\ engines' = [engines EXCEPT ![k] = NewEngine(k, durable[k].rev, scan, hint)]
          /\ call' = [call EXCEPT ![k] = step]
    BY Zenon DEF Built, Goto
<1>2. /\ durable[k] \in Row /\ At(k, "build") /\ HasCapacity(k) /\ UNCHANGED <<prepared, durable>>
      /\ KeyOK(engines[k], prepared[k], durable[k], "build")
    BY DEF Inv, Types, KeysOK, Built, At
<1>3. durable[k].rev \in Revision /\ durable[k].rev > 0 /\ durable[k].pending = None
    BY <1>2, Zenon DEF KeyOK, EngineOK, Row
<1> DEFINE e == NewEngine(k, durable[k].rev, scan, hint)
<1>4. /\ e \in Engine /\ e # None /\ e.rev = durable[k].rev /\ e.seq = durable[k].acked.seq
      /\ e.pending = None /\ e.scan = durable[k].acked.scan
  <2>1. Types /\ KeysOK
    BY DEF Inv
  <2> QED
    BY <1>3, <2>1, BuiltEngine
<1> HIDE DEF e
<1>5. engines' = [engines EXCEPT ![k] = e]
    BY <1>1, Zenon DEF e
<1>6. Types' /\ Frame(k)
    BY <1>1, <1>2, <1>4, <1>5 DEF Inv, Types, Frame, Calls
<1>7. KeyOK(e, prepared[k], durable[k], step)
    BY <1>2, <1>3, <1>4, Zenon DEF KeyOK, CandidateOK, EngineOK, WakeupOK, Serving, Calls
<1>8. KeyOK(engines'[k], prepared'[k], durable'[k], call'[k])
    BY <1>1, <1>2, <1>5, <1>7 DEF Inv, Types
<1> QED
    BY <1>2, <1>6, <1>8, OneStep

\* Only the hint, the permit and the driver's step of an engine change, and a
\* waiter that stays is woken.
Hints(k, e, step) ==
    /\ engines[k] # None /\ e \in Engine /\ step \in Calls
    /\ engines' = [engines EXCEPT ![k] = e]
    /\ call' = [call EXCEPT ![k] = step]
    /\ UNCHANGED <<prepared, durable>>
    /\ e.rev = engines[k].rev /\ e.seq = engines[k].seq /\ e.scan = engines[k].scan
    /\ e.pending = engines[k].pending
    /\ \/ step = call[k]
       \/ call[k] = "park" /\ step = "load"
       \/ call[k] = "pull" /\ step = "idle"
    /\ step \in {"loaded", "park"} => e.permit \/ e.driver = "notify"

\* Such a step keeps the invariant.
LEMMA HintStep ==
    ASSUME Inv, NEW k \in Key, NEW e, NEW step, Hints(k, e, step)
    PROVE  Inv'
<1> USE DEF Hints
<1>1. KeyOK(engines[k], prepared[k], durable[k], call[k]) /\ e # None
    BY NoneAssumption, Zenon DEF Inv, KeysOK
<1>2. Types' /\ Frame(k) /\ k \in Resident
    BY DEF Inv, Types, Frame, Resident
<1>3. KeyOK(e, prepared[k], durable[k], step)
  <2>1. CandidateOK(prepared[k], durable[k], step)
    BY <1>1, Zenon DEF KeyOK, CandidateOK
  <2>2. EngineOK(e, durable[k], step)
    BY <1>1, Zenon DEF KeyOK, EngineOK, Serving, Calls
  <2>3. WakeupOK(e, durable[k], step)
    BY Zenon DEF WakeupOK
  <2> QED
    BY <1>1, <2>1, <2>2, <2>3, Zenon DEF KeyOK
<1>4. KeyOK(engines'[k], prepared'[k], durable'[k], call'[k])
    BY <1>3 DEF Inv, Types
<1> QED
    BY <1>2, <1>4, OneStep, Zenon

\* A waiter takes its wakeup, a driver stores a height or notifies, and a pull
\* finds nothing.
LEMMA WakeupSteps ==
    ASSUME Inv, NEW k \in Key, Wake(k) \/ DriverReceives(k) \/ DriverNotifies(k) \/ PullNothing(k)
    PROVE  Inv'
<1>1. /\ engines[k] # None /\ engines[k] \in Engine /\ call[k] \in Calls
      /\ engines \in [Key -> Engine \cup {None}] /\ call \in [Key -> Calls]
    BY Zenon DEF Wake, DriverReceives, DriverNotifies, PullNothing, At, Inv, Types, KeysOK, KeyOK, EngineOK
<1>2. call = [call EXCEPT ![k] = call[k]]
    BY <1>1
<1>3. CASE Wake(k)
  <2> DEFINE e == [engines[k] EXCEPT !.permit = FALSE]
  <2>1. /\ e \in Engine /\ e.rev = engines[k].rev /\ e.seq = engines[k].seq
        /\ e.scan = engines[k].scan /\ e.pending = engines[k].pending
    BY <1>1, Zenon DEF Engine
  <2>2. engines' = [engines EXCEPT ![k] = e]
    BY <1>3 DEF Wake
  <2>3. /\ call' = [call EXCEPT ![k] = "load"] /\ call[k] = "park" /\ "load" \in Calls
        /\ UNCHANGED <<prepared, durable>>
    BY <1>3 DEF Wake, Goto, At, Calls
  <2> HIDE DEF e
  <2>4. Hints(k, e, "load")
    BY <1>1, <2>1, <2>2, <2>3, Zenon DEF Hints
  <2> QED
    BY <2>4, HintStep
<1>4. CASE DriverReceives(k)
  <2>1. PICK height \in Height : engines' = [engines EXCEPT ![k] = [@ EXCEPT !.hint = height, !.driver = "notify"]]
    BY <1>4, Zenon DEF DriverReceives
  <2> DEFINE e == [engines[k] EXCEPT !.hint = height, !.driver = "notify"]
  <2>2. /\ e \in Engine /\ e.rev = engines[k].rev /\ e.seq = engines[k].seq /\ e.driver = "notify"
        /\ e.scan = engines[k].scan /\ e.pending = engines[k].pending
    BY <1>1, Zenon DEF Engine
  <2>3. engines' = [engines EXCEPT ![k] = e]
    BY <1>1, <2>1
  <2>4. UNCHANGED <<prepared, durable, call>>
    BY <1>4, Zenon DEF DriverReceives
  <2> HIDE DEF e
  <2>5. /\ call' = [call EXCEPT ![k] = call[k]]
        /\ UNCHANGED <<prepared, durable>>
    BY <1>2, <2>4, Zenon
  <2>6. Hints(k, e, call[k])
    BY <1>1, <2>2, <2>3, <2>5 DEF Hints
  <2> QED
    BY <2>6, HintStep
<1>5. CASE DriverNotifies(k)
  <2> DEFINE e == [engines[k] EXCEPT !.permit = TRUE, !.driver = "receive"]
  <2>1. /\ e \in Engine /\ e.rev = engines[k].rev /\ e.seq = engines[k].seq /\ e.permit
        /\ e.scan = engines[k].scan /\ e.pending = engines[k].pending
    BY <1>1, Zenon DEF Engine
  <2>2. engines' = [engines EXCEPT ![k] = e]
    BY <1>1, <1>5 DEF DriverNotifies
  <2>3. UNCHANGED <<prepared, durable, call>>
    BY <1>5 DEF DriverNotifies
  <2> HIDE DEF e
  <2>4. /\ call' = [call EXCEPT ![k] = call[k]]
        /\ UNCHANGED <<prepared, durable>>
    BY <1>2, <2>3
  <2>5. Hints(k, e, call[k])
    BY <1>1, <2>1, <2>2, <2>4, Zenon DEF Hints
  <2> QED
    BY <2>5, HintStep
<1>6. CASE PullNothing(k)
  <2>1. engines[k].hint \in Height
    BY <1>1 DEF Engine
  <2>2. PICK hint \in Height : engines' = [engines EXCEPT ![k].hint = hint]
    BY <1>6, <2>1, Zenon DEF PullNothing
  <2> DEFINE e == [engines[k] EXCEPT !.hint = hint]
  <2>3. /\ e \in Engine /\ e.rev = engines[k].rev /\ e.seq = engines[k].seq
        /\ e.scan = engines[k].scan /\ e.pending = engines[k].pending
    BY <1>1 DEF Engine
  <2>4. engines' = [engines EXCEPT ![k] = e]
    BY <2>2
  <2>5. /\ call' = [call EXCEPT ![k] = "idle"] /\ call[k] = "pull" /\ "idle" \in Calls
        /\ UNCHANGED <<prepared, durable>>
    BY <1>6 DEF PullNothing, Goto, At, Calls
  <2> HIDE DEF e
  <2>6. Hints(k, e, "idle")
    BY <1>1, <2>3, <2>4, <2>5 DEF Hints
  <2> QED
    BY <2>6, HintStep
<1> QED
    BY <1>3, <1>4, <1>5, <1>6

\* What an engine may deliver is the next position of its revision.
LEMMA DeliveryPositions ==
    ASSUME Types, NEW k \in Key, engines[k] # None, engines[k].seq < MaxSequence,
           NEW height \in Height, Covers(k, height), NEW d \in Deliveries(k, height)
    PROVE  d \in Position /\ d # None /\ d.rev = engines[k].rev /\ d.seq = engines[k].seq + 1
<1>1. engines[k] \in Engine /\ durable[k] \in Row /\ durable[k].acked \in Position
    BY Zenon DEF Types, Row
<1>2. engines[k].seq + 1 \in 0..MaxSequence /\ engines[k].rev \in Revision
    BY <1>1, ProviderAssumption DEF Engine
<1>3. PICK scan \in Height, anchor \in Height \cup {None} :
          d = [rev |-> engines[k].rev, seq |-> engines[k].seq + 1, scan |-> scan, anchor |-> anchor]
  <2>1. CASE Anchor(k) # None
    <3>1. Target(k) \in Height
      BY <1>1, <2>1, ProviderAssumption DEF Anchor, Target, Covers, Height, Position
    <3> QED
      BY <2>1, <3>1, Zenon DEF Deliveries
  <2>2. CASE Anchor(k) = None
    <3>1. (engines[k].scan + 1)..height \subseteq Height
      BY <1>1, ProviderAssumption DEF Height, Engine
    <3> QED
      BY <2>2, <3>1, Zenon DEF Deliveries
  <2> QED
    BY <2>1, <2>2, Zenon
<1>4. d \in Position
    BY <1>2, <1>3, Zenon DEF Position
<1> QED
    BY <1>3, <1>4, NoneAssumption

\* A pull keeps the delivery in the engine, whether or not the store takes it.
LEMMA PullStep ==
    ASSUME Inv, NEW k \in Key, Pull(k)
    PROVE  Inv'
<1>1. /\ KeyOK(engines[k], prepared[k], durable[k], "pull") /\ engines[k] # None
      /\ engines[k] \in Engine /\ durable[k] \in Row /\ At(k, "pull") /\ k \in Resident
    BY DEF Inv, Types, KeysOK, KeyOK, EngineOK, Pull, At, Resident
<1>2. PICK height \in Height :
          /\ Covers(k, height) /\ engines[k].seq < MaxSequence
          /\ \E d \in IF engines[k].pending # None THEN {engines[k].pending} ELSE Deliveries(k, height) :
                /\ engines' = [engines EXCEPT ![k] = [@ EXCEPT !.hint = height, !.pending = d]]
                /\ durable' \in {durable, [durable EXCEPT ![k].pending = d]}
    BY Zenon DEF Pull
<1>3. PICK d \in IF engines[k].pending # None THEN {engines[k].pending} ELSE Deliveries(k, height) :
          /\ engines' = [engines EXCEPT ![k] = [@ EXCEPT !.hint = height, !.pending = d]]
          /\ durable' \in {durable, [durable EXCEPT ![k].pending = d]}
    BY <1>2, Zenon
<1>4. d \in Position /\ d # None /\ d.rev = engines[k].rev /\ d.seq = engines[k].seq + 1
  <2>1. CASE engines[k].pending # None
    BY <1>1, <1>3, <2>1 DEF KeyOK, EngineOK, Engine, Serving, Calls
  <2>2. CASE engines[k].pending = None
    BY <1>1, <1>2, <1>3, <2>2, DeliveryPositions DEF Inv
  <2> QED
    BY <2>1, <2>2
<1> DEFINE e == [engines[k] EXCEPT !.hint = height, !.pending = d]
           r == [durable[k] EXCEPT !.pending = d]
<1>5. /\ e \in Engine /\ e.rev = engines[k].rev /\ e.seq = engines[k].seq /\ e.scan = engines[k].scan
      /\ e.pending = d
    BY <1>1, <1>4, Zenon DEF Engine
<1>6. r \in Row /\ r.rev = durable[k].rev /\ r.acked = durable[k].acked /\ r.pending = d
    BY <1>1, <1>4 DEF Row
<1>7. /\ engines' = [engines EXCEPT ![k] = e] /\ UNCHANGED prepared
      /\ call' = [call EXCEPT ![k] = "idle"]
      /\ durable' = durable \/ durable' = [durable EXCEPT ![k] = r]
    BY <1>3, Zenon DEF Pull, Goto
<1> HIDE DEF e, r
<1>8. /\ Types' /\ Frame(k) /\ engines'[k] = e /\ call'[k] = "idle" /\ prepared'[k] = prepared[k]
      /\ durable'[k] = durable[k] \/ durable'[k] = r
    BY <1>5, <1>6, <1>7 DEF Inv, Types, Frame, Calls
<1>9. /\ durable[k].pending = None /\ durable[k].rev > 0 /\ engines[k].rev = durable[k].rev
      /\ engines[k].seq = durable[k].acked.seq /\ engines[k].scan = durable[k].acked.scan
    BY <1>1, Zenon DEF KeyOK, EngineOK, Serving, Calls
<1>10. KeyOK(e, prepared[k], durable[k], "idle")
    BY <1>1, <1>4, <1>5, <1>9, Zenon DEF KeyOK, CandidateOK, EngineOK, WakeupOK, Serving, Calls
<1>11. KeyOK(e, prepared[k], r, "idle")
  <2>1. RowOK(r)
    <3>1. RowOK(durable[k])
      BY <1>1, Zenon DEF KeyOK
    <3>2. durable[k].rev \in Nat /\ durable[k].acked.rev <= durable[k].rev
      BY <1>1, <3>1, RowNumbers, Zenon DEF RowOK
    <3>3. d.rev = durable[k].rev /\ d.seq = durable[k].acked.seq + 1
      BY <1>4, <1>9, Zenon
    <3> QED
      BY <1>4, <1>6, <1>9, <3>2, <3>3 DEF RowOK
  <2>2. CandidateOK(prepared[k], r, "idle") /\ WakeupOK(e, r, "idle")
    BY <1>1, Zenon DEF KeyOK, CandidateOK, WakeupOK
  <2>3. EngineOK(e, r, "idle")
    BY <1>4, <1>5, <1>6, <1>9 DEF EngineOK, Serving, Calls
  <2> QED
    BY <2>1, <2>2, <2>3, Zenon DEF KeyOK
<1>12. KeyOK(engines'[k], prepared'[k], durable'[k], call'[k])
    BY <1>8, <1>10, <1>11, Zenon
<1> QED
    BY <1>1, <1>8, <1>12, OneStep

\* The store commits an acknowledgement; the engine is then one behind.
LEMMA AcknowledgeStep ==
    ASSUME Inv, NEW k \in Key, Acknowledge(k)
    PROVE  Inv'
<1>1. /\ KeyOK(engines[k], prepared[k], durable[k], "idle")
      /\ durable[k] \in Row /\ durable[k].pending # None /\ durable[k].pending \in Position
      /\ At(k, "idle") /\ durable[k].acked \in Position
    BY DEF Inv, Types, KeysOK, Acknowledge, At, Row
<1> DEFINE r == [durable[k] EXCEPT !.acked = durable[k].pending, !.pending = None]
<1>2. r \in Row /\ r.rev = durable[k].rev /\ r.acked = durable[k].pending /\ r.pending = None
    BY <1>1, Zenon DEF Row
<1>3. /\ durable' = [durable EXCEPT ![k] = r] /\ UNCHANGED <<engines, prepared>>
      /\ call' = [call EXCEPT ![k] = "acknowledge"]
    BY <1>1, Zenon DEF Acknowledge, Goto, Inv, Types
<1> HIDE DEF r
<1>4. /\ Types' /\ Frame(k) /\ engines'[k] = engines[k] /\ prepared'[k] = prepared[k]
      /\ durable'[k] = r /\ call'[k] = "acknowledge"
    BY <1>2, <1>3 DEF Inv, Types, Frame, Calls
<1>5. RowOK(r)
  <2>1. RowOK(durable[k])
    BY <1>1, Zenon DEF KeyOK
  <2>2. /\ durable[k].rev \in Nat /\ durable[k].acked.seq \in Nat
        /\ durable[k].pending.rev = durable[k].rev
        /\ durable[k].pending.seq = durable[k].acked.seq + 1 /\ durable[k].rev # 0
    BY <1>1, <2>1, RowNumbers, Zenon DEF RowOK
  <2> QED
    BY <1>2, <2>2 DEF RowOK
<1>6. CandidateOK(prepared[k], r, "acknowledge") /\ WakeupOK(engines[k], r, "acknowledge")
    BY <1>1, Zenon DEF KeyOK, CandidateOK, WakeupOK
<1>7. EngineOK(engines[k], r, "acknowledge")
  <2>1. durable[k].rev \in Nat
    BY <1>1, RowNumbers, Zenon
  <2>2. durable[k].rev > 0 /\ durable[k].pending.seq = durable[k].acked.seq + 1
    <3>1. RowOK(durable[k])
      BY <1>1 DEF KeyOK
    <3> QED
      BY <1>1, <2>1, <3>1 DEF RowOK
  <2>3. engines[k] # None =>
            /\ engines[k].rev = durable[k].rev
            /\ engines[k].seq = durable[k].acked.seq
            /\ engines[k].pending \in {None, durable[k].pending}
            /\ engines[k].pending # None =>
                  /\ engines[k].pending.rev = engines[k].rev
                  /\ engines[k].pending.seq = engines[k].seq + 1
    BY <1>1, Zenon DEF KeyOK, EngineOK, Serving, Calls
  <2> QED
    BY <1>2, <2>2, <2>3, Zenon DEF EngineOK
<1>8. KeyOK(engines'[k], prepared'[k], durable'[k], call'[k])
    BY <1>4, <1>5, <1>6, <1>7, Zenon DEF KeyOK
<1>9. k \in Resident \/ (engines'[k] = None /\ prepared'[k] = None)
    BY <1>3 DEF Resident
<1> QED
    BY <1>4, <1>8, <1>9, OneStep

\* The engine follows, whether or not it still has the delivery.
LEMMA ProviderAcknowledgeStep ==
    ASSUME Inv, NEW k \in Key, ProviderAcknowledge(k)
    PROVE  Inv'
<1>1. /\ KeyOK(engines[k], prepared[k], durable[k], "acknowledge")
      /\ durable[k] \in Row /\ durable[k].acked \in Position /\ engines[k] \in Engine \cup {None}
      /\ At(k, "acknowledge")
    BY DEF Inv, Types, KeysOK, ProviderAcknowledge, At, Row
<1>2. UNCHANGED <<prepared, durable>> /\ call' = [call EXCEPT ![k] = "idle"]
    BY DEF ProviderAcknowledge, Goto
<1>3. k \in Resident \/ (engines[k] = None /\ prepared'[k] = None)
    BY <1>2, Zenon DEF Resident
<1>4. CASE engines[k] = None
  <2>1. engines' = engines
    BY <1>4 DEF ProviderAcknowledge
  <2>2. Types' /\ Frame(k)
    BY <1>2, <2>1, Zenon DEF Inv, Types, Frame, Calls
  <2>3. KeyOK(None, prepared[k], durable[k], "idle")
    BY <1>1, <1>4 DEF KeyOK, CandidateOK, EngineOK, WakeupOK
  <2>4. KeyOK(engines'[k], prepared'[k], durable'[k], call'[k])
    BY <1>2, <1>4, <2>1, <2>3, Zenon DEF Inv, Types
  <2> QED
    BY <1>3, <2>1, <2>2, <2>4, OneStep
<1>5. CASE engines[k] # None
  <2> DEFINE e == [engines[k] EXCEPT !.seq = durable[k].acked.seq, !.scan = durable[k].acked.scan,
                                     !.pending = None]
  <2>1. /\ engines[k] \in Engine /\ engines[k].rev = durable[k].rev /\ durable[k].pending = None
        /\ engines[k].seq + 1 = durable[k].acked.seq
    BY <1>1, <1>5, Zenon DEF KeyOK, EngineOK, Serving, Calls
  <2>2. ~(durable[k].acked.seq <= engines[k].seq)
    BY <1>1, <2>1 DEF Engine, Position
  <2>3. /\ e \in Engine /\ e.rev = engines[k].rev /\ e.seq = durable[k].acked.seq
        /\ e.scan = durable[k].acked.scan /\ e.pending = None
    BY <1>1, <2>1, Zenon DEF Engine, Position
  <2>4. engines' = [engines EXCEPT ![k] = e]
    BY <1>5, <2>2 DEF ProviderAcknowledge
  <2> HIDE DEF e
  <2>5. Types' /\ Frame(k) /\ engines'[k] = e
    BY <1>2, <2>3, <2>4, Zenon DEF Inv, Types, Frame, Calls
  <2>6. KeyOK(e, prepared[k], durable[k], "idle")
    BY <1>1, <2>1, <2>3, Zenon DEF KeyOK, CandidateOK, EngineOK, WakeupOK, Serving, Calls
  <2>7. KeyOK(engines'[k], prepared'[k], durable'[k], call'[k])
    BY <1>2, <2>5, <2>6, Zenon DEF Inv, Types
  <2>8. k \in Resident
    BY <1>5 DEF Resident
  <2> QED
    BY <2>5, <2>7, <2>8, OneStep
<1> QED
    BY <1>4, <1>5

\* A restart forgets what was resident and keeps the rows.
LEMMA RestartStep ==
    ASSUME Inv, Restart
    PROVE  Inv'
<1>1. Types'
    BY DEF Restart, Inv, Types, Calls
<1>2. Resident' \subseteq Resident
    BY DEF Restart, Resident
<1>3. ASSUME NEW k \in Key
      PROVE  KeyOK(None, None, durable[k], "closed")
    BY Zenon DEF Inv, KeysOK, KeyOK, CandidateOK, EngineOK, WakeupOK, Serving
<1>4. ASSUME NEW k \in Key
      PROVE  KeyOK(engines'[k], prepared'[k], durable'[k], call'[k])
    BY <1>3 DEF Restart
<1>5. KeysOK'
    BY <1>4, Zenon DEF KeysOK, KeyOK, RowOK, CandidateOK, EngineOK, WakeupOK, CoversAt
<1> QED
    BY <1>1, <1>2, <1>5, KeepsRoom DEF Inv

\* The provider starts empty.
LEMMA InitOK == Init => Inv
<1> SUFFICES ASSUME Init PROVE Inv
    OBVIOUS
<1> DEFINE zero == [rev |-> 0, seq |-> 0, scan |-> 0, anchor |-> None]
           row == [rev |-> 0, pending |-> None, acked |-> zero]
<1>1. zero \in Position /\ zero.rev = 0 /\ zero.seq = 0
    BY ProviderAssumption DEF Position, Revision, Height
<1>2. durable = [k \in Key |-> row]
    BY DEF Init
<1> HIDE DEF zero
<1>3. row \in Row /\ row.rev = 0 /\ row.pending = None /\ row.acked = zero
    BY <1>1, ProviderAssumption DEF Row, Revision
<1> HIDE DEF row
<1>4. Types
    BY <1>2, <1>3, Zenon DEF Init, Types, Calls
<1>5. KeyOK(None, None, row, "idle")
    BY <1>1, <1>3 DEF KeyOK, RowOK, CandidateOK, EngineOK, WakeupOK
<1>6. KeysOK
    BY <1>2, <1>5, Zenon DEF Init, KeysOK
<1>7. Resident = {}
    BY DEF Init, Resident
<1> QED
    BY <1>4, <1>6, <1>7, FS_EmptySet, ProviderAssumption DEF Inv, ResidentWithinLimit

\* Every step of any session, any driver and a restart keep the invariant.
LEMMA NextOK == Inv /\ [Next]_vars => Inv'
<1> SUFFICES ASSUME Inv, [Next]_vars PROVE Inv'
    OBVIOUS
<1>1. CASE UNCHANGED vars
    BY <1>1, Zenon DEF vars, Inv, Types, KeysOK, ResidentWithinLimit, Resident
<1>2. ASSUME NEW k \in Key, Step(k) \/ Driver(k)
      PROVE  Inv'
  <2>1. \/ Quiet(k) \/ PrepareBuilt(k) \/ Commit(k) \/ Built(k) \/ Pull(k)
        \/ Activate(k) \/ Abort(k) \/ Release(k)
        \/ Wake(k) \/ DriverReceives(k) \/ DriverNotifies(k) \/ PullNothing(k)
        \/ Acknowledge(k) \/ ProviderAcknowledge(k)
    BY <1>2, Zenon DEF Step, Driver, Quiet
  <2> QED
    BY <2>1, QuietSteps, PrepareBuiltStep, CommitStep, BuiltStep, PullStep, ResidencySteps,
       WakeupSteps, AcknowledgeStep, ProviderAcknowledgeStep
<1> QED
    BY <1>1, <1>2, RestartStep, Zenon DEF Next

\* The invariant holds for ever.
THEOREM ProviderInvariant == Spec => []Inv
    BY InitOK, NextOK, PTL DEF Spec

\* However many sessions prepare and rebuild at once, the provider never holds
\* more of them than max_resident_sessions.
THEOREM ProviderWithinLimit == Spec => []ResidentWithinLimit
<1>1. Inv => ResidentWithinLimit
    BY Zenon DEF Inv
<1> QED
    BY <1>1, ProviderInvariant, PTL

\* The candidate of a committed revision is there to be activated.
THEOREM ActivationFindsCandidate == Spec => []CandidateSurvives
<1>1. Inv => CandidateSurvives
    BY DEF Inv, KeysOK, KeyOK, CandidateOK, CandidateSurvives, At
<1> QED
    BY <1>1, ProviderInvariant, PTL

\* An engine in use stands where the store does.
THEOREM EnginesStandAtStore == Spec => []EnginesFollowStore
<1>1. Inv => EnginesFollowStore
    BY Zenon DEF Inv, KeysOK, KeyOK, EngineOK, EnginesFollowStore, Current, Serving, Calls
<1> QED
    BY <1>1, ProviderInvariant, PTL

\* A committed acknowledgement can be passed on to whatever engine is there.
THEOREM EnginesFollowAcknowledgements == Spec => []AcknowledgementsUnderstood
<1>1. Inv => AcknowledgementsUnderstood
    BY Zenon DEF Inv, KeysOK, KeyOK, RowOK, EngineOK, AcknowledgementsUnderstood, Understands, At, Serving, Calls
<1> QED
    BY <1>1, ProviderInvariant, PTL

\* A released stream leaves nothing behind.
THEOREM ReleaseLeavesNothing == Spec => []NothingLeftBehind
<1>1. Inv => NothingLeftBehind
    BY Zenon DEF Inv, KeysOK, KeyOK, CandidateOK, EngineOK, NothingLeftBehind, Resident, At
<1> QED
    BY <1>1, ProviderInvariant, PTL

\* No wakeup is lost between the check of the height and the registration.
THEOREM WakeupsKept == Spec => []NoLostWakeup
<1>1. Inv => NoLostWakeup
    BY Zenon DEF Inv, KeysOK, KeyOK, WakeupOK, NoLostWakeup, Ready, Covers, CoversAt, Anchor, Target
<1> QED
    BY <1>1, ProviderInvariant, PTL
=============================================================================
