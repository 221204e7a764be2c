-------------------------- MODULE HybridCheckpoint --------------------------
(***************************************************************************)
(* The durable state of the hybrid coordinator and the pure operators that *)
(* change it: the validation of a batch against the retained canonical     *)
(* history, the position of each child, and what committing a delivery     *)
(* makes of the checkpoint.                                                *)
(*                                                                         *)
(* A history is a set of blocks with at most one block per height; it may  *)
(* skip heights.  A record stands for the one log a block may hold:        *)
(* the block is its identity and its witness.  There is one audience.      *)
(***************************************************************************)
EXTENDS Chain, SequencesExt

CONSTANTS
    HistoryCapacity,    \* canonical_history_capacity
    RecentCapacity      \* recent_input_capacity

ASSUME HybridAssumption ==
    /\ HistoryCapacity \in Nat \ {0}
    /\ RecentCapacity \in Nat \ {0}

(***************************************************************************)
(* Batches of the children.  A record names its block and whether the log  *)
(* was removed; controls are a reorg before the records and a progress     *)
(* proof after them; token is None for a child without acknowledgements.   *)
(***************************************************************************)
Included(b) == [block |-> b, dropped |-> FALSE]
Removed(b) == [block |-> b, dropped |-> TRUE]

CanonicalRecords(records) == {r.block : r \in {x \in Range(records) : ~x.dropped}}

\* The highest block a batch proves coverage of; a reorg and removed logs do not.
MaxCanonicalBlock(batch) ==
    LET covered == CanonicalRecords(batch.records) \cup ({batch.progress} \ {None})
    IN  IF covered = {} THEN None ELSE Max({Num[b] : b \in covered})

(***************************************************************************)
(* Histories                                                               *)
(***************************************************************************)
At(history, n) ==
    IF \E b \in history : Num[b] = n THEN CHOOSE b \in history : Num[b] = n ELSE None

Oldest(history) == Min({Num[b] : b \in history})

TruncateFrontTo(history, capacity) ==
    {b \in history : Cardinality({c \in history : Num[c] > Num[b]}) < capacity}

Bounded(history) == TruncateFrontTo(history, HistoryCapacity)

RewoundHistory(history, a) == {b \in history : Num[b] < Num[a]} \cup {a}

ValidateCheckpointHistory(history, head) ==
    /\ history = {} <=> head = None
    /\ \A b \in history : At(history, Num[b] - 1) \in {None, Parent[b]}
    /\ head # None => head \in history /\ \A b \in history : Num[b] <= Num[head]

(***************************************************************************)
(* The canonical sequence validator of the runtime, as the coordinator     *)
(* relies on it.  It steps through a reorg, the records and the progress   *)
(* proof, and ends with the next history and head and the mutations that   *)
(* lead there, or with a verdict: "incomplete" when a rollback needs more  *)
(* history than is retained, "invalid" when the input contradicts it.      *)
(***************************************************************************)
Rewind(a) == [kind |-> "rewind", block |-> a]
Advance(b) == [kind |-> "advance", block |-> b]

Rejected(s, verdict) == [s EXCEPT !.verdict = verdict]

RewindTo(s, a) ==
    [s EXCEPT !.history = RewoundHistory(@, a), !.head = a, !.canonical = Append(@, Rewind(a))]

AdvanceTo(s, b) ==
    [s EXCEPT !.history = @ \cup {b}, !.head = b, !.canonical = Append(@, Advance(b))]

ValidateReorg(s, reorg) ==
    CASE s.head = None \/ reorg.old # s.head \/ reorg.new = s.head
         \/ Num[reorg.ancestor] >= Num[s.head] -> Rejected(s, "invalid")
      [] At(s.history, Num[reorg.ancestor]) \notin {None, reorg.ancestor} -> Rejected(s, "invalid")
      [] Num[reorg.ancestor] < Oldest(s.history) -> Rejected(s, "incomplete")
      [] OTHER -> RewindTo(s, reorg.ancestor)

\* A removed log rewinds to the last retained block below its own.
ValidateRemoved(s, b) ==
    LET below == {c \in s.history : Num[c] < Num[b]} IN
    IF b \notin s.history \/ below = {} THEN Rejected(s, "incomplete")
    ELSE RewindTo(s, At(below, Max({Num[c] : c \in below})))

\* Known heights and immediate parents are verified; a gap in the heights is
\* accepted on the source's word.
ValidateAdvance(s, b) ==
    CASE s.head = None -> AdvanceTo(s, b)
      [] s.head # None /\ Num[b] > Num[s.head] ->
            IF Num[b] = Num[s.head] + 1 /\ Parent[b] # s.head THEN Rejected(s, "invalid")
            ELSE AdvanceTo(s, b)
      [] b \in s.history -> s
      [] At(s.history, Num[b]) # None /\ Parent[b] \in s.history ->
            AdvanceTo(RewindTo(s, Parent[b]), b)
      [] OTHER -> Rejected(s, "invalid")

ValidateRecord(s, r) ==
    IF s.verdict # "ok" THEN s
    ELSE IF r.dropped THEN ValidateRemoved(s, r.block) ELSE ValidateAdvance(s, r.block)

CanonicalSequence(history, head, batch) ==
    LET start == [history |-> history, head |-> head, canonical |-> <<>>, verdict |-> "ok"]
        reorged == IF batch.reorg = None THEN start ELSE ValidateReorg(start, batch.reorg)
        recorded == FoldLeft(ValidateRecord, reorged, batch.records)
    IN  IF batch.progress = None \/ recorded.verdict # "ok" THEN recorded
        ELSE ValidateAdvance(recorded, batch.progress)

\* prepare_canonical_batch: the plan of a batch.  The history ends at the head
\* and is bounded.  A progress proof of a block that is known is dropped.
PrepareCanonicalBatch(history, head, batch) ==
    LET plan == CanonicalSequence(history, head, batch) IN
    [verdict |-> plan.verdict, canonical |-> plan.canonical, head |-> plan.head,
     history |-> Bounded(plan.history \cup ({plan.head} \ {None})),
     progress |-> IF batch.progress # None /\ Advance(batch.progress) \in Range(plan.canonical)
                  THEN batch.progress ELSE None]

(***************************************************************************)
(* Positions of the children: the token committed last, the head its       *)
(* deliveries cover and its own history; ok is FALSE once an update failed.*)
(***************************************************************************)
NoPosition == [token |-> None, head |-> None, history |-> {}, ok |-> TRUE]

RewindPosition(p, a) ==
    LET known == At(p.history, Num[a])
        fits == /\ p.head # None /\ known = None => p.history # {} /\ Oldest(p.history) <= Num[a]
                /\ known \in {None, a}
                /\ p.head # None => Num[a] <= Num[p.head]
    IN  IF ~fits THEN [p EXCEPT !.ok = FALSE]
        ELSE [p EXCEPT !.history = Bounded(RewoundHistory(@, a)), !.head = a]

AdvancePosition(p, b) ==
    LET known == At(p.history, Num[b])
        fits == /\ known \in {None, b}
                /\ p.head # None =>
                      /\ Num[b] < Num[p.head] => known # None
                      /\ Num[b] = Num[p.head] => b = p.head
                      /\ Num[b] = Num[p.head] + 1 => Parent[b] = p.head
    IN  CASE ~fits -> [p EXCEPT !.ok = FALSE]
          [] p.head # None /\ Num[b] <= Num[p.head] -> p
          [] OTHER -> [p EXCEPT !.history = Bounded(@ \cup {b}), !.head = b]

ApplyMutation(p, m) ==
    IF ~p.ok THEN p
    ELSE IF m.kind = "rewind" THEN RewindPosition(p, m.block) ELSE AdvancePosition(p, m.block)

ApplyCanonicalMutations(p, canonical) == FoldLeft(ApplyMutation, p, canonical)

SeedReorgAncestor(p, a) ==
    LET seeded == IF /\ p.head # None /\ Num[p.head] > Num[a]
                     /\ At(p.history, Num[a]) = None
                  THEN [p EXCEPT !.history = Bounded(@ \cup {a})] ELSE p
    IN  [seeded EXCEPT !.ok = @ /\ At(seeded.history, Num[a]) \in {None, a}]

SeedReorgAncestors(p, ancestors) == FoldLeft(SeedReorgAncestor, p, ancestors)

\* A rollback that one child reports takes the other child's position with it.
RewindOtherStep(p, a) ==
    IF p.head = None \/ Num[p.head] < Num[a] THEN p
    ELSE LET rewound == ApplyMutation(SeedReorgAncestor(p, a), Rewind(a)) IN
         IF Num[p.head] > Num[a] THEN [rewound EXCEPT !.token = None] ELSE rewound

RewindOtherSource(p, ancestors) == FoldLeft(RewindOtherStep, p, ancestors)

(***************************************************************************)
(* The checkpoint                                                          *)
(***************************************************************************)
EmptyCheckpoint ==
    [epoch |-> 0, synthetic |-> 1, recent |-> <<>>, history |-> {}, head |-> None,
     certified |-> None, historical |-> NoPosition, live |-> NoPosition, last |-> None]

Ancestors(canonical) ==
    LET rewinds == SelectSeq(canonical, LAMBDA m : m.kind = "rewind")
    IN  [i \in DOMAIN rewinds |-> rewinds[i].block]

\* The journal of recent inputs: rewound, the touched ones moved to its end.
RecentAfter(recent, canonical, touched) ==
    LET kept == SelectSeq(recent, LAMBDA b :
                    \A a \in Range(Ancestors(canonical)) : Num[b] <= Num[a])
    IN  SelectSeq(kept, LAMBDA b : b \notin Range(touched)) \o touched

\* The oldest witnesses go first; the ones of the delivery itself have to fit.
FitRecent(recent) == SubSeq(recent, Max({1, Len(recent) - RecentCapacity + 1}), Len(recent))

AtLeastPosition(p, b) == p.head = None \/ Num[b] >= Num[p.head]

\* A commit moves the position of its own source, at least to what it observed.
SourceAfter(p, commit) ==
    LET seeded == SeedReorgAncestors(p, Ancestors(commit.canonical))
        moved == ApplyCanonicalMutations([seeded EXCEPT !.token = commit.sourceToken],
                                         commit.canonical)
    IN  IF moved.ok /\ commit.observed # None /\ AtLeastPosition(moved, commit.observed)
        THEN AdvancePosition(moved, commit.observed)
        ELSE moved

\* A historical commit certifies coverage; a lower page never revokes it, a
\* rollback below it does.
CertifiedAfter(certified, commit) ==
    LET surviving == IF \/ certified = None
                        \/ \E a \in Range(Ancestors(commit.canonical)) : Num[certified] > Num[a]
                     THEN None ELSE certified
    IN  CASE commit.source # "historical" \/ commit.observed = None -> surviving
          [] surviving # None /\ Num[surviving] > Num[commit.observed] -> surviving
          [] OTHER -> commit.observed

\* Mutant: a commit moves the positions of both sources.
ApplyCommitMovesBoth(ck, commit) ==
    LET otherSource == IF commit.source = "historical" THEN "live" ELSE "historical" IN
    [ck EXCEPT !.recent = FitRecent(RecentAfter(@, commit.canonical, commit.touched)),
               !.history = commit.history, !.head = commit.head,
               !.certified = CertifiedAfter(@, commit),
               ![commit.source] = SourceAfter(@, commit),
               ![otherSource] = ApplyCanonicalMutations(@, commit.canonical),
               !.last = [source |-> commit.source, kind |-> commit.kind, inner |-> commit.inner]]

\* apply_commit_to_checkpoint
ApplyCommit(ck, commit) ==
    LET ancestors == Ancestors(commit.canonical)
        own == SourceAfter(ck[commit.source], commit)
        otherSource == IF commit.source = "historical" THEN "live" ELSE "historical"
        other == RewindOtherSource(ck[otherSource], ancestors)
    IN  [ck EXCEPT !.recent = FitRecent(RecentAfter(@, commit.canonical, commit.touched)),
                   !.history = commit.history, !.head = commit.head,
                   !.certified = CertifiedAfter(@, commit),
                   ![commit.source] = own, ![otherSource] = other,
                   !.last = [source |-> commit.source, kind |-> commit.kind,
                             inner |-> commit.inner]]

ValidateSource(p, ck) ==
    /\ p.ok
    /\ p.token # None => p.head # None
    /\ p.head # None =>
          /\ ck.head # None /\ Num[p.head] <= Num[ck.head]
          /\ At(ck.history, Num[p.head]) \in {None, p.head}

ValidateCertified(ck) ==
    ck.certified # None =>
        /\ \A head \in {ck.head, ck.historical.head} :
              head # None /\ (Num[ck.certified] < Num[head] \/ ck.certified = head)
        /\ At(ck.historical.history, Num[ck.certified]) \in {None, ck.certified}

\* validate_checkpoint_state, without widths and encodings.
ValidateCheckpointState(ck) ==
    /\ \A i, j \in DOMAIN ck.recent : i # j => ck.recent[i] # ck.recent[j]
    /\ \A b \in Range(ck.recent) :
          /\ ck.head # None /\ Num[b] <= Num[ck.head]
          /\ At(ck.history, Num[b]) \in {None, b}
    /\ ValidateCheckpointHistory(ck.history, ck.head)
    /\ \A p \in {ck.historical, ck.live} :
          ValidateSource(p, ck) /\ ValidateCheckpointHistory(p.history, p.head)
    /\ ValidateCertified(ck)
    /\ ck.last # None =>
          ck[ck.last.source].token = IF ck.last.kind = "forwarded" THEN ck.last.inner ELSE None
=============================================================================
