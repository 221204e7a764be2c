----------------------------- MODULE Interests -----------------------------
(***************************************************************************)
(* Portable interests and the logs they select.  An interest asks either   *)
(* for block headers, or for the logs of some addresses whose topics match *)
(* position by position; an empty set of addresses, or of topics at a      *)
(* position, accepts everything.  A kind the decoder does not know is      *)
(* "unset".                                                                *)
(***************************************************************************)
EXTENDS Integers, Sequences

MaxTopics == 4

AcceptsAddress(addrs, log) == addrs = {} \/ log.addr \in addrs

\* A position the log does not have is not matched by a non-empty set.
AcceptsTopics(topics, log) ==
    \A i \in DOMAIN topics :
        topics[i] = {} \/ (i \in DOMAIN log.topics /\ log.topics[i] \in topics[i])

LogMatches(interest, log) ==
    /\ interest.kind = "log"
    /\ AcceptsAddress(interest.addrs, log)
    /\ AcceptsTopics(interest.topics, log)
=============================================================================
