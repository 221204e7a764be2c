----------------------------- MODULE QueryPlan -----------------------------
(***************************************************************************)
(* compile_query: the interests of a committed desired state become one    *)
(* provider query.  The compiler walks the interests once, keeping the     *)
(* distinct log filters found so far; an interest in every log replaces    *)
(* them all.  Values are sets, which is what sort and dedup make of the    *)
(* byte strings of the code.                                               *)
(*                                                                         *)
(* seen is history: the interests walked so far.                           *)
(***************************************************************************)
EXTENDS Interests, FiniteSets

CONSTANTS
    Address,      \* 20-byte addresses
    Topic,        \* 32-byte topics
    Log,          \* the logs a chain can contain
    LogInterest,  \* log interests that desired states carry
    MaxInterests, \* longest list of interests of one desired state
    MaxFilters    \* MAX_COMPILED_LOG_FILTERS

ASSUME PlanAssumption ==
    /\ MaxFilters \in Nat
    /\ \A i \in LogInterest :
          /\ i \in [kind : {"log"}, addrs : SUBSET Address, topics : Seq(SUBSET Topic)]
          /\ Len(i.topics) <= MaxTopics

VARIABLES
    todo,      \* interests still to walk
    seen,      \* log interests walked
    filters,   \* canonical_filters: the distinct filters kept
    matchAll,  \* match_all
    exceeded,  \* filter_limit_exceeded
    headers,   \* explicit_headers
    outcome    \* "walking", "query" or "refused"

planVars == <<todo, seen, filters, matchAll, exceeded, headers, outcome>>

BlockInterest == [kind |-> "block"]
UnsetInterest == [kind |-> "unset"]
MalformedInterest == [kind |-> "malformed"]  \* a wrong width, or a fifth topic

AnyInterest == LogInterest \cup {BlockInterest, UnsetInterest, MalformedInterest}

(***************************************************************************)
(* canonical_log_filter                                                    *)
(***************************************************************************)
\* Trailing positions that accept everything are dropped.
LastConstrained(topics) ==
    CHOOSE n \in 0..Len(topics) :
        /\ n # 0 => topics[n] # {}
        /\ \A k \in (n + 1)..Len(topics) : topics[k] = {}

CanonicalLogFilter(i) ==
    [addrs |-> i.addrs, topics |-> SubSeq(i.topics, 1, LastConstrained(i.topics))]

MatchAllFilter == [addrs |-> {}, topics |-> <<>>]

\* How the provider reads one filter of the query.
FilterSelects(filter, log) == AcceptsAddress(filter.addrs, log) /\ AcceptsTopics(filter.topics, log)

(***************************************************************************)
(* compile_query_with_limits, one interest per step                        *)
(***************************************************************************)
PlanInit ==
    /\ todo \in UNION {[1..n -> AnyInterest] : n \in 0..MaxInterests}
    /\ seen = {}
    /\ filters = {}
    /\ matchAll = FALSE
    /\ exceeded = FALSE
    /\ headers = FALSE
    /\ outcome = "walking"

Keep(filter) ==
    IF filter \in filters
    THEN UNCHANGED <<filters, exceeded>>
    ELSE IF Cardinality(filters) = MaxFilters
    THEN exceeded' = TRUE /\ UNCHANGED filters
    ELSE filters' = filters \cup {filter} /\ UNCHANGED exceeded

\* Mutant: an interest in every log replaces the others and is not kept.
MatchAllKeepsNothing(filter) ==
    /\ filter = MatchAllFilter
    /\ matchAll' = TRUE
    /\ filters' = {}
    /\ UNCHANGED exceeded

WalkMatchAll(filter) ==
    /\ filter = MatchAllFilter
    /\ matchAll' = TRUE
    /\ filters' = {filter}
    /\ UNCHANGED exceeded

WalkLog ==
    /\ Head(todo).kind = "log"
    /\ LET filter == CanonicalLogFilter(Head(todo)) IN
          \/ WalkMatchAll(filter)
          \/ /\ filter # MatchAllFilter /\ ~matchAll
             /\ Keep(filter)
             /\ UNCHANGED matchAll
          \/ /\ filter # MatchAllFilter /\ matchAll
             /\ UNCHANGED <<filters, exceeded, matchAll>>
    /\ seen' = seen \cup {Head(todo)}
    /\ UNCHANGED <<headers, outcome>>

WalkBlock ==
    /\ Head(todo).kind = "block"
    /\ headers' = TRUE
    /\ UNCHANGED <<seen, filters, matchAll, exceeded, outcome>>

WalkUnset ==
    /\ Head(todo).kind = "unset"
    /\ UNCHANGED <<seen, filters, matchAll, exceeded, headers, outcome>>

RefuseMalformed ==
    /\ Head(todo).kind = "malformed"
    /\ outcome' = "refused"
    /\ UNCHANGED <<seen, filters, matchAll, exceeded, headers>>

Walk ==
    /\ outcome = "walking" /\ todo # <<>>
    /\ WalkLog \/ WalkBlock \/ WalkUnset \/ RefuseMalformed
    /\ todo' = Tail(todo)

Compile ==
    /\ outcome = "walking" /\ todo = <<>>
    /\ outcome' = IF exceeded /\ ~matchAll THEN "refused" ELSE "query"
    /\ UNCHANGED <<todo, seen, filters, matchAll, exceeded, headers>>

PlanNext == Walk \/ Compile

PlanSpec == PlanInit /\ [][PlanNext]_planVars

(***************************************************************************)
(* Properties                                                              *)
(***************************************************************************)
\* The query selects exactly the logs some interest of the desired state
\* matches, whatever the order of the interests, the duplicates among them
\* and the limit: compaction never loses an event an owner asked for and
\* never asks the provider for one that nobody wants.
SelectsExactly ==
    outcome = "query" =>
        \A log \in Log :
            (\E f \in filters : FilterSelects(f, log)) <=> (\E i \in seen : LogMatches(i, log))

\* A desired state is refused for its filters exactly when it has no interest
\* in every log and more distinct filters than the provider accepts: a wide
\* interest found late, and duplicates, do not count.
RefusedOnlyBeyondLimit ==
    todo = <<>> =>
        LET distinct == {CanonicalLogFilter(i) : i \in seen} IN
        exceeded /\ ~matchAll <=> MatchAllFilter \notin distinct /\ Cardinality(distinct) > MaxFilters
=============================================================================
